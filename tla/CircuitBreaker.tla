--------------------------- MODULE CircuitBreaker ---------------------------
(***************************************************************************)
(* The circuit breaker shared by the threads that call one service         *)
(* (copilot_core/circuit_breaker.py).  call() takes the lock to read the   *)
(* state and again to report the result; the call itself runs unlocked, so *)
(* results of calls admitted in one state arrive in another.               *)
(*                                                                         *)
(* Two kinds of clients share the Supervisor's breaker: HABridge goes      *)
(* through call(), for which an HTTP error is a result; the tools of the   *)
(* conversation API test .state and report nothing but exceptions, and     *)
(* these only of the tools named ha.*.                                     *)
(***************************************************************************)
EXTENDS Naturals, FiniteSets

CONSTANTS
  Callers,           \* threads that call the service
  Gated,             \* those that test .state themselves and report no success
  FailureThreshold,
  RecoveryTimeout,
  CallTimeout,       \* a call has raised or returned after this time
  MaxTime,           \* bound on the clock
  MaxUnheard         \* bound on the failures nobody reports

ASSUME BreakerAssumption ==
  /\ IsFiniteSet(Callers) /\ Gated \subseteq Callers
  /\ FailureThreshold \in Nat \ {0}
  /\ RecoveryTimeout \in Nat /\ CallTimeout \in Nat
  /\ MaxTime \in Nat /\ MaxUnheard \in Nat

VARIABLES
  state,        \* _state
  failures,     \* _failure_count
  lastFailure,  \* _last_failure_time
  now,          \* time.time()
  since,        \* when each call in progress was admitted; its domain is theirs
  openedAt,     \* history: when the circuit was last opened
  resetAt,      \* history: when a success last reset the count
  probes,       \* history: how often since then the circuit was half-opened
  failed,       \* history: how many calls have failed since then,
  unheard       \* and how many of them the breaker was not told of

fields == <<state, failures, lastFailure>>
load == <<failed, unheard>>
vars == <<fields, now, since, openedAt, resetAt, probes, load>>

States == {"closed", "open", "half_open"}
Calling == DOMAIN since

-----------------------------------------------------------------------------
\* Mutant of TimedOut: the timeout is added on the wrong side.
TimedOutEarly == state = "open" /\ now + RecoveryTimeout >= lastFailure

\* The property state: reading it half-opens a circuit that was open long enough.
TimedOut == state = "open" /\ now >= lastFailure + RecoveryTimeout

ReadState == IF TimedOut THEN "half_open" ELSE state

Refresh ==
  /\ state' = ReadState
  /\ probes' = IF TimedOut THEN probes + 1 ELSE probes

\* A reader of the state: get_status, or a caller that finds the circuit open.
GetStatus ==
  /\ Refresh
  /\ UNCHANGED <<failures, lastFailure, now, since, openedAt, resetAt, load>>

\* Mutant of Call: an open circuit does not keep the call back.
CallAnyway(c) ==
  /\ c \notin Calling
  /\ Refresh
  /\ since' = [d \in Calling \cup {c} |-> IF d = c THEN now ELSE since[d]]
  /\ UNCHANGED <<failures, lastFailure, now, openedAt, resetAt, load>>

\* call() up to func(), or the gate of _execute_ha_tool.
Call(c) ==
  /\ c \notin Calling
  /\ ReadState # "open"
  /\ Refresh
  /\ since' = [d \in Calling \cup {c} |-> IF d = c THEN now ELSE since[d]]
  /\ UNCHANGED <<failures, lastFailure, now, openedAt, resetAt, load>>

Ended(c) == since' = [d \in Calling \ {c} |-> since[d]]

\* What the breaker takes for a success may be an HTTP error, the first failure
\* of those to come.
Reset ==
  /\ resetAt' = now /\ probes' = 0
  /\ unheard' \in {0, 1} /\ failed' = unheard'

\* Mutant of OnSuccess: the circuit is closed, the count of failures stays.
OnSuccessKeepsCount(c) ==
  /\ c \in Calling \ Gated
  /\ Ended(c)
  /\ state' = "closed"
  /\ Reset
  /\ UNCHANGED <<failures, lastFailure, now, openedAt>>

\* func() returned: whatever the state is by now, the circuit is closed.
OnSuccess(c) ==
  /\ c \in Calling \ Gated
  /\ Ended(c)
  /\ failures' = 0
  /\ state' = "closed"
  /\ Reset
  /\ UNCHANGED <<lastFailure, now, openedAt>>

\* A tool of the conversation API returned: no branch calls _on_success.
SilentSuccess(c) ==
  /\ c \in Calling \cap Gated
  /\ Ended(c)
  /\ UNCHANGED <<fields, now, openedAt, resetAt, probes, load>>

\* The tool had an HTTP error for its result, or it raised and its name does not
\* start with "ha.": the breaker hears of neither.
SilentFailure(c) ==
  /\ c \in Calling \cap Gated
  /\ unheard < MaxUnheard
  /\ Ended(c)
  /\ failed' = failed + 1 /\ unheard' = unheard + 1
  /\ UNCHANGED <<fields, now, openedAt, resetAt, probes>>

\* func() raised, or a tool named ha.* did.
OnFailure(c) ==
  /\ c \in Calling
  /\ Ended(c)
  /\ failures' = failures + 1
  /\ lastFailure' = now
  /\ IF failures' >= FailureThreshold
     THEN /\ state' = "open"
          /\ openedAt' = IF state = "open" THEN openedAt ELSE now
     ELSE UNCHANGED <<state, openedAt>>
  /\ failed' = failed + 1
  /\ UNCHANGED <<now, resetAt, probes, unheard>>

\* Time passes, up to the timeout of the calls in progress.
Tick ==
  /\ now < MaxTime
  /\ \A c \in Calling : now < since[c] + CallTimeout
  /\ now' = now + 1
  /\ UNCHANGED <<fields, since, openedAt, resetAt, probes, load>>

Init ==
  /\ state = "closed"
  /\ failures = 0
  /\ lastFailure = 0
  /\ now = 0
  /\ since = [c \in {} |-> 0]
  /\ openedAt = 0
  /\ resetAt = 0
  /\ probes = 0
  /\ failed = 0 /\ unheard = 0

Next ==
  \/ \E c \in Callers :
       \/ Call(c) \/ OnSuccess(c) \/ OnFailure(c) \/ SilentSuccess(c) \/ SilentFailure(c)
  \/ GetStatus
  \/ Tick

Spec == Init /\ [][Next]_vars

-----------------------------------------------------------------------------
(* Properties *)

\* Every variable has a value of its kind.
TypeOK ==
  /\ state \in States
  /\ failures \in Nat /\ lastFailure \in Nat /\ now \in Nat
  /\ Calling \subseteq Callers /\ since \in [Calling -> Nat]
  /\ openedAt \in Nat /\ resetAt \in Nat /\ probes \in Nat
  /\ failed \in Nat /\ unheard \in Nat

\* State and counter, two fields that concurrent results change, agree: the
\* circuit is closed exactly while the count is below the threshold, so that one
\* failing probe opens it again and no stale result leaves it half way.
ClosedBelowThreshold == state = "closed" <=> failures < FailureThreshold

\* Results of calls admitted earlier still arrive while the circuit is open, and
\* each failure restarts the timeout; they postpone the next probe by one
\* duration of a call at most.
OpenEnds == state = "open" => lastFailure <= openedAt + CallTimeout

\* How far the breaker spares a service that is down: k recovery timeouts after
\* the last result it took for a success, no more than
\* FailureThreshold - 1 + (k + 1) * |Callers| calls have failed, although a
\* half-open circuit admits every caller; but calls whose failure nobody reports
\* come on top of that, as many as there are.
FailuresBounded ==
  /\ resetAt + probes * RecoveryTimeout <= now
  /\ failed + Cardinality(Calling)
       <= FailureThreshold - 1 + Cardinality(Callers) * (probes + 1) + unheard

=============================================================================

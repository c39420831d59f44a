------------------------ MODULE CircuitBreakerProofs ------------------------
(***************************************************************************)
(* Proofs about CircuitBreaker for any number of callers and all values of *)
(* the threshold, the timeouts and the bound on the clock.                 *)
(***************************************************************************)
EXTENDS CircuitBreaker, FiniteSetTheorems, TLAPS

\* Calls in progress are no older than CallTimeout, and older than the opening
\* of an open circuit; each probe came RecoveryTimeout after a failure.
TimeInv ==
  /\ \A c \in Calling : since[c] <= now /\ now <= since[c] + CallTimeout
  /\ state = "open" => \A c \in Calling : since[c] <= openedAt
  /\ lastFailure <= now
  /\ resetAt + probes * RecoveryTimeout <= now
  /\ state = "open" => resetAt + probes * RecoveryTimeout <= lastFailure
  /\ state = "closed" => probes = 0

\* What was counted before a probe leaves room for every caller to fail once.
LoadInv ==
  /\ failures + Cardinality(Calling)
       <= FailureThreshold - 1 + Cardinality(Callers) * (probes + 1)
  /\ state = "half_open" => failures <= FailureThreshold - 1 + Cardinality(Callers) * probes

\* The breaker counts the failures it is told of.
HeardInv == failed = failures + unheard

IInv == HeardInv /\ TypeOK /\ ClosedBelowThreshold /\ OpenEnds /\ TimeInv /\ LoadInv

-----------------------------------------------------------------------------
\* Products of natural numbers, unfolded by one factor, and what is neutral.
LEMMA Products ==
  ASSUME NEW n \in Nat, NEW p \in Nat
  PROVE  /\ n * p \in Nat /\ p * n \in Nat
         /\ n * (p + 1) = n * p + n /\ (p + 1) * n = p * n + n
         /\ n * 0 = 0 /\ 0 * n = 0 /\ n * 1 = n /\ 0 + n = n
OBVIOUS

\* The calls in progress are finitely many, at most one per caller, and change
\* by one when a call begins or ends.
LEMMA CallingFinite ==
  ASSUME Calling \subseteq Callers
  PROVE  /\ Cardinality(Callers) \in Nat /\ Cardinality(Calling) \in Nat
         /\ Cardinality(Calling) <= Cardinality(Callers)
         /\ \A c \in Callers : Cardinality(Calling \cup {c}) \in Nat
         /\ \A c \in Callers : Cardinality(Calling \cup {c}) <= Cardinality(Callers)
         /\ \A c \in Calling : Cardinality(Calling \ {c}) = Cardinality(Calling) - 1
<1>1. IsFiniteSet(Callers)
  BY BreakerAssumption
<1>2. \A S \in SUBSET Callers : /\ IsFiniteSet(S) /\ Cardinality(S) \in Nat
                                /\ Cardinality(S) <= Cardinality(Callers)
  BY <1>1, FS_Subset, FS_CardinalityType
<1>3. \A c \in Callers : Calling \cup {c} \in SUBSET Callers
  OBVIOUS
<1>4. \A c \in Calling : Cardinality(Calling \ {c}) = Cardinality(Calling) - 1
  BY <1>2, FS_RemoveElement
<1>5. Cardinality(Callers) \in Nat
  BY <1>1, FS_CardinalityType
<1>6. QED
  BY <1>2, <1>3, <1>4, <1>5

\* The invariant holds of a fresh breaker.
LEMMA InitIInv == Init => IInv
<1> SUFFICES ASSUME Init PROVE IInv
  OBVIOUS
<1>1. Calling = {} /\ since \in [{} -> Nat]
  BY DEF Init, Calling
<1>2. Cardinality(Calling) = 0
  BY <1>1, FS_EmptySet
<1>3. Cardinality(Callers) \in Nat
  BY <1>1, CallingFinite
<1>4. TypeOK
  BY <1>1 DEF Init, TypeOK, States
<1>5. ClosedBelowThreshold /\ OpenEnds
  BY BreakerAssumption DEF Init, ClosedBelowThreshold, OpenEnds
<1>6. TimeInv
  BY <1>1, BreakerAssumption, Products DEF Init, TimeInv
<1>7. LoadInv
  BY <1>2, <1>3, BreakerAssumption, Products DEF Init, LoadInv
<1>8. HeardInv
  BY DEF Init, HeardInv
<1>9. QED
  BY <1>4, <1>5, <1>6, <1>7, <1>8 DEF IInv

\* Reading the state, which may half-open the circuit, preserves all that the
\* invariant says of the fields it reads and writes; in a state that is not
\* open there is room for every caller.
LEMMA RefreshKeeps ==
  ASSUME IInv, Refresh, UNCHANGED <<failures, lastFailure, now, openedAt, resetAt>>
  PROVE  /\ state' \in States /\ probes' \in Nat
         /\ ClosedBelowThreshold' /\ OpenEnds'
         /\ resetAt + probes' * RecoveryTimeout <= now
         /\ state' = "open" => state = "open" /\ probes' = probes
         /\ state' = "closed" => probes' = 0
         /\ state' # "open" =>
              failures <= FailureThreshold - 1 + Cardinality(Callers) * probes'
         /\ Cardinality(Callers) * probes <= Cardinality(Callers) * probes'
<1>1. /\ Cardinality(Callers) \in Nat /\ Cardinality(Calling) \in Nat
  BY CallingFinite DEF IInv, TypeOK
<1>2. probes \in Nat /\ probes + 1 \in Nat /\ failures \in Nat /\ now \in Nat
      /\ lastFailure \in Nat /\ resetAt \in Nat /\ openedAt \in Nat /\ state \in States
  BY DEF IInv, TypeOK
<1>3. FailureThreshold \in Nat \ {0} /\ RecoveryTimeout \in Nat /\ CallTimeout \in Nat
  BY BreakerAssumption
<1>4. /\ Cardinality(Callers) * (probes + 1) = Cardinality(Callers) * probes + Cardinality(Callers)
      /\ Cardinality(Callers) * probes \in Nat
      /\ (probes + 1) * RecoveryTimeout = probes * RecoveryTimeout + RecoveryTimeout
      /\ probes * RecoveryTimeout \in Nat
      /\ Cardinality(Callers) * (probes + 1) \in Nat
  BY <1>1, <1>2, <1>3, Products
<1>5. CASE TimedOut
  <2>1. state = "open" /\ state' = "half_open" /\ probes' = probes + 1
    BY <1>5 DEF Refresh, ReadState, TimedOut
  <2>2. resetAt + probes' * RecoveryTimeout <= now
    <3>1. resetAt + probes * RecoveryTimeout <= lastFailure
      BY <2>1 DEF IInv, TimeInv
    <3>2. lastFailure + RecoveryTimeout <= now
      BY <1>2, <1>3, <1>5 DEF TimedOut
    <3>3. probes' * RecoveryTimeout = probes * RecoveryTimeout + RecoveryTimeout
      BY <1>4, <2>1
    <3>4. QED
      BY <1>2, <1>3, <1>4, <3>1, <3>2, <3>3
  <2>3. failures <= FailureThreshold - 1 + Cardinality(Callers) * probes'
    <3>1. failures + Cardinality(Calling) <= FailureThreshold - 1 + Cardinality(Callers) * (probes + 1)
      BY DEF IInv, LoadInv
    <3>2. QED
      BY <1>1, <1>2, <1>3, <1>4, <2>1, <3>1
  <2>4. ClosedBelowThreshold' /\ OpenEnds'
    BY <2>1 DEF IInv, ClosedBelowThreshold, OpenEnds
  <2>5. QED
    BY <1>1, <1>2, <1>4, <2>1, <2>2, <2>3, <2>4 DEF States
<1>6. CASE ~TimedOut
  <2>1. state' = state /\ probes' = probes
    BY <1>6 DEF Refresh, ReadState
  <2>2. state # "open" => failures <= FailureThreshold - 1 + Cardinality(Callers) * probes
    <3>1. CASE state = "closed"
      BY <1>1, <1>2, <1>3, <1>4, <3>1 DEF IInv, ClosedBelowThreshold
    <3>2. CASE state = "half_open"
      BY <3>2 DEF IInv, LoadInv
    <3>3. QED
      BY <1>2, <3>1, <3>2 DEF States
  <2>3. ClosedBelowThreshold' /\ OpenEnds'
    BY <2>1 DEF IInv, ClosedBelowThreshold, OpenEnds
  <2>4. resetAt + probes * RecoveryTimeout <= now /\ (state = "closed" => probes = 0)
    BY DEF IInv, TimeInv
  <2>5. QED
    BY <1>2, <1>4, <2>1, <2>2, <2>3, <2>4
<1>7. QED
  BY <1>5, <1>6

\* Every step preserves the invariant.
LEMMA NextIInv == IInv /\ [Next]_vars => IInv'
<1> SUFFICES ASSUME IInv, [Next]_vars PROVE IInv'
  OBVIOUS
<1> USE BreakerAssumption
<1>1. /\ Cardinality(Callers) \in Nat /\ Cardinality(Calling) \in Nat
      /\ Cardinality(Calling) <= Cardinality(Callers)
      /\ \A c \in Callers : Cardinality(Calling \cup {c}) \in Nat
      /\ \A c \in Callers : Cardinality(Calling \cup {c}) <= Cardinality(Callers)
      /\ \A c \in Calling : Cardinality(Calling \ {c}) = Cardinality(Calling) - 1
  BY CallingFinite DEF IInv, TypeOK
<1>2. /\ state \in States /\ failures \in Nat /\ lastFailure \in Nat /\ now \in Nat
      /\ Calling \subseteq Callers /\ since \in [Calling -> Nat]
      /\ openedAt \in Nat /\ resetAt \in Nat /\ probes \in Nat
      /\ failed \in Nat /\ unheard \in Nat /\ failed = failures + unheard
  BY DEF IInv, TypeOK, HeardInv
<1>3. /\ Cardinality(Callers) * probes \in Nat /\ Cardinality(Callers) * (probes + 1) \in Nat
      /\ Cardinality(Callers) * (probes + 1) = Cardinality(Callers) * probes + Cardinality(Callers)
      /\ probes * RecoveryTimeout \in Nat
  BY <1>1, <1>2, Products
<1>4. ASSUME GetStatus PROVE IInv'
  <2>1. /\ Refresh /\ UNCHANGED <<failures, lastFailure, now, openedAt, resetAt>>
        /\ since' = since /\ Calling' = Calling /\ UNCHANGED <<failed, unheard>>
    BY <1>4 DEF GetStatus, Calling, load
  <2>2. /\ state' \in States /\ probes' \in Nat /\ ClosedBelowThreshold' /\ OpenEnds'
        /\ resetAt + probes' * RecoveryTimeout <= now
        /\ state' = "open" => state = "open" /\ probes' = probes
        /\ state' = "closed" => probes' = 0
        /\ state' # "open" =>
             failures <= FailureThreshold - 1 + Cardinality(Callers) * probes'
        /\ Cardinality(Callers) * probes <= Cardinality(Callers) * probes'
    BY <2>1, RefreshKeeps
  <2>3. TypeOK'
    BY <1>2, <2>1, <2>2 DEF TypeOK
  <2>4. TimeInv'
    BY <2>1, <2>2 DEF IInv, TimeInv
  <2>5. LoadInv'
    <3>1. /\ Cardinality(Callers) * (probes' + 1) = Cardinality(Callers) * probes' + Cardinality(Callers)
          /\ Cardinality(Callers) * probes' \in Nat
      BY <1>1, <2>2, Products
    <3>2. failures + Cardinality(Calling) <= FailureThreshold - 1 + Cardinality(Callers) * (probes + 1)
      BY DEF IInv, LoadInv
    <3>3. failures + Cardinality(Calling) <= FailureThreshold - 1 + Cardinality(Callers) * (probes' + 1)
      BY <1>1, <1>2, <1>3, <2>2, <3>1, <3>2
    <3>4. QED
      BY <2>1, <2>2, <3>3 DEF LoadInv
  <2>6. HeardInv'
    BY <1>2, <2>1 DEF HeardInv
  <2>7. QED
    BY <2>2, <2>3, <2>4, <2>5, <2>6 DEF IInv
<1>5. ASSUME NEW c \in Callers, Call(c) PROVE IInv'
  <2>1. /\ Refresh /\ UNCHANGED <<failures, lastFailure, now, openedAt, resetAt>>
        /\ Calling' = Calling \cup {c} /\ c \notin Calling
        /\ since'[c] = now /\ \A d \in Calling : since'[d] = since[d]
        /\ since' \in [Calling \cup {c} -> Nat]
        /\ UNCHANGED <<failed, unheard>>
    BY <1>2, <1>5 DEF Call, Calling, load
  <2>2. state' # "open"
    BY <1>5 DEF Call, Refresh
  <2>3. /\ state' \in States /\ probes' \in Nat /\ ClosedBelowThreshold' /\ OpenEnds'
        /\ resetAt + probes' * RecoveryTimeout <= now
        /\ state' = "closed" => probes' = 0
        /\ failures <= FailureThreshold - 1 + Cardinality(Callers) * probes'
    BY <2>1, <2>2, RefreshKeeps
  <2>4. TypeOK'
    BY <1>2, <2>1, <2>3 DEF TypeOK
  <2>5. TimeInv'
    <3>1. \A d \in Calling' : since'[d] <= now /\ now <= since'[d] + CallTimeout
      BY <1>2, <2>1 DEF IInv, TimeInv
    <3>2. QED
      BY <2>1, <2>2, <2>3, <3>1 DEF IInv, TimeInv
  <2>6. LoadInv'
    <3>1. /\ Cardinality(Callers) * (probes' + 1) = Cardinality(Callers) * probes' + Cardinality(Callers)
          /\ Cardinality(Callers) * probes' \in Nat
      BY <1>1, <2>3, Products
    <3>2. Cardinality(Calling') \in Nat /\ Cardinality(Calling') <= Cardinality(Callers)
      BY <1>1, <2>1
    <3>3. failures + Cardinality(Calling') <= FailureThreshold - 1 + Cardinality(Callers) * (probes' + 1)
      BY <1>1, <1>2, <2>3, <3>1, <3>2
    <3>4. QED
      BY <2>1, <2>3, <3>3 DEF LoadInv
  <2>7. HeardInv'
    BY <1>2, <2>1 DEF HeardInv
  <2>8. QED
    BY <2>3, <2>4, <2>5, <2>6, <2>7 DEF IInv
<1>6. ASSUME NEW c \in Callers, c \in Calling, Ended(c) PROVE
        /\ Calling' = Calling \ {c} /\ Calling' \subseteq Callers
        /\ since' \in [Calling' -> Nat] /\ \A d \in Calling' : since'[d] = since[d]
        /\ Cardinality(Calling') = Cardinality(Calling) - 1
  BY <1>1, <1>2, <1>6 DEF Ended, Calling
<1>7. ASSUME NEW c \in Callers, OnSuccess(c) PROVE IInv'
  <2>1. /\ c \in Calling /\ Ended(c) /\ failures' = 0 /\ state' = "closed" /\ resetAt' = now
        /\ probes' = 0 /\ UNCHANGED <<lastFailure, now, openedAt>>
        /\ unheard' \in {0, 1} /\ failed' = unheard'
    BY <1>7 DEF OnSuccess, Reset
  <2>2. TypeOK'
    BY <1>2, <1>6, <2>1 DEF TypeOK, States
  <2>3. ClosedBelowThreshold' /\ OpenEnds'
    BY <2>1 DEF ClosedBelowThreshold, OpenEnds
  <2>4. TimeInv'
    BY <1>2, <1>6, <2>1, Products DEF IInv, TimeInv
  <2>5. LoadInv'
    BY <1>1, <1>6, <2>1, Products DEF LoadInv
  <2>6. HeardInv'
    <3>1. unheard' \in Nat
      BY <2>1
    <3>2. 0 + unheard' = unheard'
      BY <3>1, Products
    <3>3. failures' + unheard' = 0 + unheard'
      BY <2>1
    <3>4. QED
      BY <2>1, <3>2, <3>3 DEF HeardInv
  <2>7. QED
    BY <2>2, <2>3, <2>4, <2>5, <2>6 DEF IInv
<1>8. ASSUME NEW c \in Callers, SilentSuccess(c) \/ SilentFailure(c) PROVE IInv'
  <2>1. /\ c \in Calling /\ Ended(c)
        /\ UNCHANGED <<state, failures, lastFailure, now, openedAt, resetAt, probes>>
        /\ \/ UNCHANGED <<failed, unheard>>
           \/ failed' = failed + 1 /\ unheard' = unheard + 1
    BY <1>8 DEF SilentSuccess, SilentFailure, fields, load
  <2>2. TypeOK'
    BY <1>2, <1>6, <2>1 DEF TypeOK
  <2>3. ClosedBelowThreshold' /\ OpenEnds'
    BY <2>1 DEF IInv, ClosedBelowThreshold, OpenEnds
  <2>4. TimeInv'
    BY <1>6, <2>1 DEF IInv, TimeInv
  <2>5. LoadInv'
    <3>1. failures + Cardinality(Calling) <= FailureThreshold - 1 + Cardinality(Callers) * (probes + 1)
      BY DEF IInv, LoadInv
    <3>2. failures + Cardinality(Calling') <= FailureThreshold - 1 + Cardinality(Callers) * (probes + 1)
      BY <1>1, <1>2, <1>3, <1>6, <2>1, <3>1
    <3>3. QED
      BY <2>1, <3>2 DEF IInv, LoadInv
  <2>6. HeardInv'
    BY <1>2, <2>1 DEF HeardInv
  <2>7. QED
    BY <2>2, <2>3, <2>4, <2>5, <2>6 DEF IInv
<1>9. ASSUME NEW c \in Callers, OnFailure(c) PROVE IInv'
  <2>1. /\ c \in Calling /\ Ended(c) /\ failures' = failures + 1 /\ lastFailure' = now
        /\ UNCHANGED <<now, resetAt, probes, unheard>> /\ failed' = failed + 1
    BY <1>9 DEF OnFailure
  <2>2. \/ /\ failures' >= FailureThreshold /\ state' = "open"
           /\ openedAt' = IF state = "open" THEN openedAt ELSE now
        \/ /\ failures' < FailureThreshold /\ state' = state /\ openedAt' = openedAt
    BY <1>2, <1>9 DEF OnFailure
  <2>3. failures' < FailureThreshold => state = "closed"
    BY <1>2, <2>1 DEF IInv, ClosedBelowThreshold
  <2>4. TypeOK'
    BY <1>2, <1>6, <2>1, <2>2 DEF TypeOK, States
  <2>5. ClosedBelowThreshold'
    BY <2>1, <2>2, <2>3, <2>4 DEF TypeOK, ClosedBelowThreshold
  <2>6. OpenEnds'
    <3>1. since[c] \in Nat /\ now <= since[c] + CallTimeout /\ (state = "open" => since[c] <= openedAt)
      BY <1>2, <2>1 DEF IInv, TimeInv
    <3>2. CASE state = "open"
      BY <1>2, <2>1, <2>2, <2>3, <3>1, <3>2 DEF OpenEnds
    <3>3. CASE state # "open"
      BY <1>2, <2>1, <2>2, <3>3 DEF OpenEnds
    <3>4. QED
      BY <3>2, <3>3
  <2>7. TimeInv'
    <3>1. \A d \in Calling' : since'[d] <= now /\ now <= since'[d] + CallTimeout
      BY <1>6, <2>1 DEF IInv, TimeInv
    <3>2. state' = "open" => \A d \in Calling' : since'[d] <= openedAt'
      BY <1>6, <2>1, <2>2, <2>3, <3>1 DEF IInv, TimeInv
    <3>3. resetAt' + probes' * RecoveryTimeout <= now'
      BY <2>1 DEF IInv, TimeInv
    <3>4. state' = "closed" => probes' = 0
      BY <2>1, <2>2 DEF IInv, TimeInv
    <3>5. QED
      BY <1>2, <2>1, <3>1, <3>2, <3>3, <3>4 DEF TimeInv
  <2>8. LoadInv'
    <3>1. failures + Cardinality(Calling) <= FailureThreshold - 1 + Cardinality(Callers) * (probes + 1)
      BY DEF IInv, LoadInv
    <3>2. failures' + Cardinality(Calling') <= FailureThreshold - 1 + Cardinality(Callers) * (probes + 1)
      BY <1>1, <1>2, <1>3, <1>6, <2>1, <3>1
    <3>3. state' # "half_open"
      BY <2>2, <2>3
    <3>4. QED
      BY <2>1, <3>2, <3>3 DEF LoadInv
  <2>9. HeardInv'
    BY <1>2, <2>1 DEF HeardInv
  <2>10. QED
    BY <2>4, <2>5, <2>6, <2>7, <2>8, <2>9 DEF IInv
<1>10. ASSUME Tick PROVE IInv'
  <2>1. /\ now' = now + 1 /\ \A c \in Calling : now < since[c] + CallTimeout
        /\ UNCHANGED <<state, failures, lastFailure, since, openedAt, resetAt, probes>>
        /\ Calling' = Calling /\ UNCHANGED <<failed, unheard>>
    BY <1>10 DEF Tick, Calling, fields, load
  <2>2. TypeOK' /\ ClosedBelowThreshold' /\ OpenEnds'
    BY <1>2, <2>1 DEF IInv, TypeOK, ClosedBelowThreshold, OpenEnds
  <2>3. TimeInv'
    BY <1>2, <1>3, <2>1 DEF IInv, TimeInv
  <2>4. LoadInv'
    BY <2>1 DEF IInv, LoadInv
  <2>5. HeardInv'
    BY <1>2, <2>1 DEF HeardInv
  <2>6. QED
    BY <2>2, <2>3, <2>4, <2>5 DEF IInv
<1>11. CASE UNCHANGED vars
  BY <1>11 DEF vars, fields, load, IInv, TypeOK, ClosedBelowThreshold, OpenEnds, TimeInv, LoadInv,
               HeardInv, Calling
<1>12. QED
  BY <1>4, <1>5, <1>7, <1>8, <1>9, <1>10, <1>11 DEF Next

-----------------------------------------------------------------------------
\* The fields of the breaker and the bookkeeping of its model stay well typed.
THEOREM TypeCorrect == Spec => []TypeOK
<1>1. IInv => TypeOK
  BY DEF IInv
<1>2. QED
  BY <1>1, InitIInv, NextIInv, PTL DEF Spec

\* However the results of concurrent calls interleave, the circuit is closed
\* exactly while the failure count is below the threshold.
THEOREM StateMatchesCount == Spec => []ClosedBelowThreshold
<1>1. IInv => ClosedBelowThreshold
  BY DEF IInv
<1>2. QED
  BY <1>1, InitIInv, NextIInv, PTL DEF Spec

\* Late failures postpone the probe of an open circuit by one duration of a call
\* at most.
THEOREM OpenCircuitEnds == Spec => []OpenEnds
<1>1. IInv => OpenEnds
  BY DEF IInv
<1>2. QED
  BY <1>1, InitIInv, NextIInv, PTL DEF Spec

\* However results interleave and whoever keeps them to himself, the failing
\* calls are bounded by the probes there was time for, but for the failures that
\* the breaker is not told of.
THEOREM OutageLoad == Spec => []FailuresBounded
<1>1. IInv => FailuresBounded
  <2> SUFFICES ASSUME IInv PROVE FailuresBounded
    OBVIOUS
  <2>1. /\ Cardinality(Callers) \in Nat /\ Cardinality(Calling) \in Nat
        /\ failures \in Nat /\ unheard \in Nat /\ probes + 1 \in Nat
        /\ failed = failures + unheard
    BY CallingFinite DEF IInv, TypeOK, HeardInv
  <2>2. Cardinality(Callers) * (probes + 1) \in Nat
    BY <2>1, Products
  <2>3. failures + Cardinality(Calling) <= FailureThreshold - 1 + Cardinality(Callers) * (probes + 1)
    BY DEF IInv, LoadInv
  <2>4. QED
    BY <2>1, <2>2, <2>3, BreakerAssumption DEF IInv, TimeInv, FailuresBounded
<1>2. QED
  BY <1>1, InitIInv, NextIInv, PTL DEF Spec

=============================================================================

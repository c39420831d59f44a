-------------------------- MODULE DeliveryIntents --------------------------
(***************************************************************************)
(* The delivery tokens that a client acknowledges, cancels or asks for,    *)
(* kept in memory and in an append-only file of records                    *)
(* (copilot_core/api/v1/delivery_interactive.py, delivery_intent_store.py).*)
(* Each handler runs under one lock.  An append may fail before, within or *)
(* after its line; so may the process end.                                 *)
(*                                                                         *)
(* The file is abstracted to what reading it gives, the last record of     *)
(* each token, and to whether its lines are whole.                         *)
(***************************************************************************)
CONSTANTS
  Tokens,
  NoRecord

VARIABLES
  records,    \* state of each token in memory, or NoRecord
  due,        \* tokens whose expires_at has passed
  logged,     \* state of each token by its last complete line
  lastLine,   \* "whole", "open" without its newline, "torn" once any line is
  lastError,  \* whether last_error is set
  answered    \* history: the state last answered for each token

log == <<logged, lastLine>>
vars == <<records, due, log, lastError, answered>>

Answer(t, s) == answered' = [answered EXCEPT ![t] = s]

\* A line is complete; after an open one both are on one line, which is torn.
Appended(t, s) ==
  /\ logged' = [logged EXCEPT ![t] = s]
  /\ lastLine' = IF lastLine = "whole" THEN "whole" ELSE "torn"

\* Mutant of Persist: the answer does not wait for the append.
PersistUnchecked(t, s) ==
  /\ records' = [records EXCEPT ![t] = s]
  /\ Answer(t, s)
  /\ UNCHANGED <<due, lastError>>
  /\ Appended(t, s) \/ UNCHANGED log

\* _persist_record(), put(): the memory follows the file; an append that fails
\* leaves last_error and answers 503.
Persist(t, s) ==
  /\ UNCHANGED due
  /\ \/ /\ Appended(t, s)
        /\ records' = [records EXCEPT ![t] = s]
        /\ Answer(t, s)
        /\ UNCHANGED lastError
     \/ /\ \/ UNCHANGED log
           \/ Appended(t, s)
           \/ lastLine = "whole" /\ lastLine' = "open" /\ logged' = [logged EXCEPT ![t] = s]
           \/ lastLine' = "torn" /\ UNCHANGED logged
        /\ lastError' = TRUE
        /\ UNCHANGED <<records, answered>>

Expired(t) == records[t] = "acknowledged" /\ t \in due

\* acknowledge_delivery() with action "acknowledge"
Acknowledge(t) ==
  /\ ~lastError
  /\ \/ records[t] = NoRecord /\ Persist(t, "acknowledged")
     \/ Expired(t) /\ Persist(t, "expired")
     \/ /\ records[t] = "acknowledged" /\ t \notin due
        /\ Answer(t, "acknowledged")
        /\ UNCHANGED <<records, due, log, lastError>>
     \/ records[t] \in {"cancelled", "expired"} /\ Persist(t, records[t])

\* acknowledge_delivery() with action "cancel"
Cancel(t) ==
  /\ ~lastError
  /\ Persist(t, IF Expired(t) \/ records[t] = "expired" THEN "expired" ELSE "cancelled")

\* get_delivery_status(): a token nobody has sent is pending.
Status(t) ==
  /\ ~lastError
  /\ IF Expired(t) THEN Persist(t, "expired")
     ELSE /\ Answer(t, IF records[t] = NoRecord THEN "pending" ELSE records[t])
          /\ UNCHANGED <<records, due, log, lastError>>

\* Five minutes have passed since the first record of t.
Expire(t) ==
  /\ records[t] # NoRecord
  /\ due' = due \cup {t}
  /\ UNCHANGED <<records, log, lastError, answered>>

\* reload() in the next process: one bad line and nothing is loaded.
Restart ==
  /\ records' = IF lastLine = "torn" THEN [t \in Tokens |-> NoRecord] ELSE logged
  /\ lastError' = (lastLine = "torn")
  /\ UNCHANGED <<due, log, answered>>

Init ==
  /\ records = [t \in Tokens |-> NoRecord]
  /\ due = {}
  /\ logged = [t \in Tokens |-> NoRecord] /\ lastLine = "whole"
  /\ lastError = FALSE
  /\ answered = [t \in Tokens |-> "none"]

Next ==
  \/ \E t \in Tokens : Acknowledge(t) \/ Cancel(t) \/ Status(t) \/ Expire(t)
  \/ Restart

Spec == Init /\ [][Next]_vars

-----------------------------------------------------------------------------
(* Properties *)

\* Every variable has a value of its kind.
TypeOK ==
  /\ records \in [Tokens -> {NoRecord, "acknowledged", "cancelled", "expired"}]
  /\ logged \in [Tokens -> {NoRecord, "acknowledged", "cancelled", "expired"}]
  /\ due \subseteq Tokens
  /\ lastLine \in {"whole", "open", "torn"} /\ lastError \in BOOLEAN
  /\ answered \in [Tokens -> {"none", "pending", "acknowledged", "cancelled", "expired"}]

\* What a client has been told only advances, across failures and restarts: a
\* cancelled or expired token stays what it is, an acknowledged one is never
\* pending again.
AnswersOnlyAdvance ==
  [][\A t \in Tokens :
       /\ answered[t] \in {"cancelled", "expired"} => answered'[t] = answered[t]
       /\ answered[t] = "acknowledged" => answered'[t] # "pending"]_vars
=============================================================================

----------------------------- MODULE MCRestart -----------------------------
(* What three stores of one process find after it ends at any moment.  They *)
(* share no state, so the clients of one of them are active in a behaviour. *)
EXTENDS AlarmEngine, TLC

CONSTANTS Candidates, States, NoFile, Tokens

ASSUME StoresAssumption ==
  /\ "pending" \in States
  \* what marks a token without a record is none of its states
  /\ None \notin {"acknowledged", "cancelled", "expired"}

VARIABLES
  subject,
  memory, candidateFile, bak, tmp, saving, acknowledged,
  records, due, logged, lastLine, lastError, answered

C == INSTANCE CandidateStore WITH Absent <- None, file <- candidateFile
D == INSTANCE DeliveryIntents WITH NoRecord <- None

candidates == <<memory, candidateFile, bak, tmp, saving, acknowledged>>
delivery == <<records, due, logged, lastLine, lastError, answered>>

MCSymmetry == Permutations(Runs)

StoresInit ==
  /\ subject \in {"alarm", "candidates", "delivery"}
  /\ Init /\ C!Init /\ D!Init

AlarmNext == subject = "alarm" /\ Next /\ UNCHANGED <<subject, candidates, delivery>>
CandidatesNext == subject = "candidates" /\ C!Next /\ UNCHANGED <<subject, vars, delivery>>
DeliveryNext == subject = "delivery" /\ D!Next /\ UNCHANGED <<subject, vars, candidates>>

StoresNext == AlarmNext \/ CandidatesNext \/ DeliveryNext

StoresSpec == StoresInit /\ [][StoresNext]_<<subject, vars, candidates, delivery>>

\* Each store's variables have values of their kinds.
StoresTypeOK == TypeOK /\ C!TypeOK /\ D!TypeOK
\* The candidates last confirmed are in the file or its backup.
AcknowledgedOnDisk == C!AcknowledgedOnDisk
\* What a client was told of a delivery token only advances.
AnswersOnlyAdvance == D!AnswersOnlyAdvance
=============================================================================

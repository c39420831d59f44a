---------------------------- MODULE RestartProofs ----------------------------
(***************************************************************************)
(* Proofs about the three stores of MCRestart, for any clients, candidates *)
(* and tokens, and whatever fails or crashes, as often as it likes: what   *)
(* each component keeps on its own, and that together they keep it still.  *)
(***************************************************************************)
EXTENDS MCRestart, AlarmEngineProofs

-----------------------------------------------------------------------------
(* CandidateStore *)

\* The backup is what counts only while there is no file: the next save moves a
\* file over the backup, and nothing when there is none.
OnDisk ==
  \/ acknowledged \in {NoFile, candidateFile}
  \/ candidateFile = NoFile /\ acknowledged = bak

\* What is about to replace the file is the content of the memory.
TempIsMemory == saving = "replace" => tmp = memory

CInv == C!TypeOK /\ OnDisk /\ TempIsMemory

-----------------------------------------------------------------------------
\* Before the first call there is nothing to lose.
LEMMA InitCandidates == C!Init => CInv
BY DEF C!Init, C!Empty, C!Contents, C!TypeOK, CInv, OnDisk, TempIsMemory

\* A call changes the memory only while no save is under way.
LEMMA ChangeKeeps == ASSUME CInv, NEW m \in C!Contents, C!Change(m) PROVE CInv'
BY DEF C!Change, C!TypeOK, C!disk, CInv, OnDisk, TempIsMemory

\* Every step of the code, of a failure or of a restart keeps the invariant.
LEMMA NextCandidates == CInv /\ [C!Next]_C!vars => CInv'
<1> SUFFICES ASSUME CInv, [C!Next]_C!vars PROVE CInv'
  OBVIOUS
<1>1. ASSUME NEW c \in Candidates, C!AddCandidate(c) PROVE CInv'
  <2>1. [memory EXCEPT ![c] = "pending"] \in C!Contents
    BY StoresAssumption DEF CInv, C!TypeOK, C!Contents
  <2>2. QED
    BY <1>1, <2>1, ChangeKeeps DEF C!AddCandidate
<1>2. ASSUME NEW c \in Candidates, NEW s \in States, C!UpdateCandidateState(c, s) PROVE CInv'
  <2>1. [memory EXCEPT ![c] = s] \in C!Contents
    BY DEF CInv, C!TypeOK, C!Contents
  <2>2. QED
    BY <1>2, <2>1, ChangeKeeps DEF C!UpdateCandidateState
<1>3. CASE C!CleanupOldCandidates
  <2>1. PICK old \in SUBSET Candidates :
          C!Change([c \in Candidates |-> IF c \in old THEN None ELSE memory[c]])
    BY <1>3 DEF C!CleanupOldCandidates
  <2>2. [c \in Candidates |-> IF c \in old THEN None ELSE memory[c]] \in C!Contents
    BY DEF CInv, C!TypeOK, C!Contents
  <2>3. QED
    BY <2>1, <2>2, ChangeKeeps
<1>4. CASE C!Backup
  BY <1>4 DEF C!Backup, C!TypeOK, CInv, OnDisk, TempIsMemory
<1>5. CASE C!OpenTemp
  BY <1>5 DEF C!OpenTemp, C!TypeOK, CInv, OnDisk, TempIsMemory
<1>6. CASE C!Dump
  BY <1>6 DEF C!Dump, C!TypeOK, CInv, OnDisk, TempIsMemory
<1>7. CASE C!Replace
  BY <1>7 DEF C!Replace, C!TypeOK, CInv, OnDisk, TempIsMemory
<1>8. CASE C!SaveFails
  BY <1>8 DEF C!SaveFails, C!TypeOK, C!disk, CInv, OnDisk, TempIsMemory
<1>9. CASE C!Restart
  BY <1>9 DEF C!Restart, C!Empty, C!Contents, C!TypeOK, C!disk, CInv, OnDisk, TempIsMemory
<1>10. CASE UNCHANGED C!vars
  BY <1>10 DEF C!vars, C!disk, C!TypeOK, CInv, OnDisk, TempIsMemory
<1>11. QED
  BY <1>1, <1>2, <1>3, <1>4, <1>5, <1>6, <1>7, <1>8, <1>9, <1>10 DEF C!Next

\* No sequence of calls, failing saves and restarts takes from the disk the last
\* content that CandidateStore._save_to_disk has confirmed to a caller.
LEMMA CandidatesKept == C!Spec => [](C!TypeOK /\ C!AcknowledgedOnDisk)
<1>1. CInv => C!TypeOK /\ C!AcknowledgedOnDisk
  BY DEF CInv, OnDisk, C!AcknowledgedOnDisk
<1>2. QED
  BY <1>1, InitCandidates, NextCandidates, PTL DEF C!Spec

-----------------------------------------------------------------------------
(* DeliveryIntents *)

Final == {"cancelled", "expired"}
Recorded == Final \cup {"acknowledged"}
Stored == Recorded \cup {None}

\* s is no step back from the answer a.
Upholds(a, s) ==
  /\ s \in Stored
  /\ a \in Final => s = a
  /\ a = "acknowledged" => s # None

\* The file upholds the answers, unless it cannot be read any more, and so does
\* the memory while handlers use it, which last_error ends.
FileUpholds == lastLine # "torn" => \A t \in Tokens : Upholds(answered[t], logged[t])
MemoryUpholds == ~lastError => \A t \in Tokens : Upholds(answered[t], records[t])

Maps ==
  /\ records \in [Tokens -> Stored]
  /\ logged \in [Tokens -> Stored]
  /\ answered \in [Tokens -> {"none", "pending"} \cup Recorded]

\* What is answered from memory is also what the next process will read.
MemoryIsFile == ~lastError /\ lastLine # "torn" => records = logged

DInv == Maps /\ FileUpholds /\ MemoryUpholds /\ MemoryIsFile

\* One step of D!AnswersOnlyAdvance.
Advance ==
  \A t \in Tokens :
    /\ answered[t] \in Final => answered'[t] = answered[t]
    /\ answered[t] = "acknowledged" => answered'[t] # "pending"

-----------------------------------------------------------------------------
\* Before the first request nothing has been answered.
LEMMA InitDelivery == D!Init => DInv
BY DEF D!Init, DInv, Maps, FileUpholds, MemoryUpholds, MemoryIsFile, Upholds, Stored, Recorded, Final

\* Whatever an append does to the file: a state that is no step back keeps the
\* file's side of the invariant, answered or not.
LEMMA FileKeeps ==
  ASSUME DInv, NEW t \in Tokens, NEW s \in Recorded,
         Upholds(answered[t], s),
         \/ UNCHANGED D!log
         \/ logged' = [logged EXCEPT ![t] = s]
         \/ lastLine' = "torn" /\ UNCHANGED logged,
         lastLine = "torn" => lastLine' = "torn",
         \/ UNCHANGED answered
         \/ logged'[t] = s /\ answered' = [answered EXCEPT ![t] = s]
  PROVE  FileUpholds'
<1> SUFFICES ASSUME lastLine' # "torn", NEW u \in Tokens
             PROVE  Upholds(answered'[u], logged'[u])
  BY DEF FileUpholds, Upholds
<1>1. Upholds(answered[u], logged[u])
  BY DEF DInv, FileUpholds
<1>2. Upholds(s, s)
  BY StoresAssumption DEF Upholds, Stored, Recorded, Final
<1>3. logged'[u] \in {logged[u], s} /\ (u # t => logged'[u] = logged[u])
  BY DEF DInv, Maps, D!log
<1>4. answered'[u] \in {answered[u], s} /\ (u # t => answered'[u] = answered[u])
  BY DEF DInv, Maps
<1>5. CASE u # t
  BY <1>1, <1>3, <1>4, <1>5
<1>6. CASE u = t /\ UNCHANGED answered
  BY <1>1, <1>3, <1>6
<1>7. CASE u = t /\ logged'[t] = s /\ answered' = [answered EXCEPT ![t] = s]
  BY <1>2, <1>7 DEF DInv, Maps
<1>8. QED
  BY <1>5, <1>6, <1>7

\* A handler that persists a state which is no step back keeps the invariant and
\* answers no step back.
LEMMA PersistKeeps ==
  ASSUME DInv, ~lastError, NEW t \in Tokens, NEW s \in Recorded,
         Upholds(answered[t], s), D!Persist(t, s)
  PROVE  DInv' /\ Advance
<1>1. CASE /\ D!Appended(t, s)
           /\ records' = [records EXCEPT ![t] = s]
           /\ D!Answer(t, s)
           /\ UNCHANGED lastError
  <2>1. Maps'
    BY <1>1 DEF DInv, Maps, D!Appended, D!Answer, Stored
  <2>2. FileUpholds'
    BY <1>1, FileKeeps DEF D!Appended, D!Answer, DInv, Maps
  <2>3. MemoryUpholds'
    <3> SUFFICES ASSUME NEW u \in Tokens PROVE Upholds(answered'[u], records'[u])
      BY DEF MemoryUpholds, Upholds
    <3>1. CASE u = t
      BY <1>1, <3>1, StoresAssumption DEF D!Answer, DInv, Maps, Upholds, Stored, Recorded, Final
    <3>2. CASE u # t
      BY <1>1, <3>2 DEF D!Answer, DInv, Maps, MemoryUpholds
    <3>3. QED
      BY <3>1, <3>2
  <2>4. Advance
    BY <1>1 DEF Advance, D!Answer, DInv, Maps, Upholds, Recorded, Final
  <2>5. MemoryIsFile'
    BY <1>1 DEF D!Appended, DInv, MemoryIsFile
  <2>6. QED
    BY <2>1, <2>2, <2>3, <2>4, <2>5 DEF DInv
<1>2. CASE /\ \/ UNCHANGED D!log
              \/ D!Appended(t, s)
              \/ lastLine = "whole" /\ lastLine' = "open" /\ logged' = [logged EXCEPT ![t] = s]
              \/ lastLine' = "torn" /\ UNCHANGED logged
           /\ lastError' = TRUE
           /\ UNCHANGED <<records, answered>>
  <2>1. Maps'
    BY <1>2 DEF DInv, Maps, D!Appended, D!log, Stored
  <2>2. FileUpholds'
    BY <1>2, FileKeeps DEF D!Appended, D!log
  <2>3. MemoryUpholds' /\ MemoryIsFile' /\ Advance
    BY <1>2 DEF MemoryUpholds, MemoryIsFile, Advance, Upholds, Final
  <2>4. QED
    BY <2>1, <2>2, <2>3 DEF DInv
<1>3. QED
  BY <1>1, <1>2 DEF D!Persist

\* An answer from memory keeps the invariant, and is no step back when it upholds
\* the answer before.
LEMMA AnswerKeeps ==
  ASSUME DInv, ~lastError, NEW t \in Tokens,
         UNCHANGED <<records, due, D!log, lastError>>,
         D!Answer(t, IF records[t] = None THEN "pending" ELSE records[t])
  PROVE  DInv' /\ Advance
<1>1. Upholds(answered[t], records[t])
  BY DEF DInv, MemoryUpholds
<1>2. records[t] \in Stored /\ answered'[t] \in {"pending"} \cup Recorded
  BY DEF DInv, Maps, D!Answer, Stored
<1>3. Upholds(answered'[t], records[t])
  BY <1>2, StoresAssumption DEF D!Answer, DInv, Maps, Upholds, Stored, Recorded, Final
<1>4. \A u \in Tokens \ {t} : answered'[u] = answered[u]
  BY DEF D!Answer, DInv, Maps
<1>5. Maps'
  BY <1>2 DEF DInv, Maps, D!Answer, D!log
<1>6. MemoryUpholds' /\ MemoryIsFile'
  BY <1>3, <1>4 DEF DInv, MemoryUpholds, MemoryIsFile, D!log, Upholds
<1>7. FileUpholds'
  BY <1>3, <1>4 DEF DInv, FileUpholds, MemoryIsFile, D!log, Upholds
<1>8. answered[t] \in Final => answered'[t] = answered[t]
  BY <1>1, <1>2, StoresAssumption DEF D!Answer, DInv, Maps, Upholds, Stored, Recorded, Final
<1>9. answered[t] = "acknowledged" => answered'[t] # "pending"
  BY <1>1, <1>2 DEF D!Answer, DInv, Maps, Upholds, Stored, Recorded, Final
<1>10. Advance
  <2> SUFFICES ASSUME NEW u \in Tokens
               PROVE  /\ answered[u] \in Final => answered'[u] = answered[u]
                      /\ answered[u] = "acknowledged" => answered'[u] # "pending"
    BY DEF Advance
  <2>1. CASE u = t
    BY <1>8, <1>9, <2>1
  <2>2. CASE u # t
    BY <1>4, <2>2
  <2>3. QED
    BY <2>1, <2>2
<1>11. QED
  BY <1>5, <1>6, <1>7, <1>10 DEF DInv

\* Every request, expiry and restart keeps the invariant and answers no step back.
LEMMA NextDelivery ==
  ASSUME DInv, [D!Next]_D!vars
  PROVE  DInv' /\ [Advance]_D!vars
<1>1. ASSUME NEW t \in Tokens, D!Acknowledge(t) PROVE DInv' /\ Advance
  <2>1. ~lastError /\ records[t] \in Stored /\ Upholds(answered[t], records[t])
    BY <1>1 DEF D!Acknowledge, DInv, Maps, MemoryUpholds
  <2>2. CASE records[t] = None /\ D!Persist(t, "acknowledged")
    <3>1. Upholds(answered[t], "acknowledged")
      BY <2>1, <2>2, StoresAssumption DEF Upholds, Stored, Recorded, Final
    <3>2. QED
      BY <2>1, <2>2, <3>1, PersistKeeps DEF Recorded
  <2>3. CASE D!Expired(t) /\ D!Persist(t, "expired")
    <3>1. Upholds(answered[t], "expired")
      BY <2>1, <2>3, StoresAssumption DEF D!Expired, Upholds, Stored, Recorded, Final
    <3>2. QED
      BY <2>1, <2>3, <3>1, PersistKeeps DEF Recorded, Final
  <2>4. CASE /\ records[t] = "acknowledged" /\ D!Answer(t, "acknowledged")
             /\ UNCHANGED <<records, due, D!log, lastError>>
    BY <2>1, <2>4, AnswerKeeps, StoresAssumption DEF Recorded, Final
  <2>5. CASE records[t] \in {"cancelled", "expired"} /\ D!Persist(t, records[t])
    BY <2>1, <2>5, PersistKeeps DEF Recorded, Final
  <2>6. QED
    BY <1>1, <2>2, <2>3, <2>4, <2>5 DEF D!Acknowledge
<1>2. ASSUME NEW t \in Tokens, D!Cancel(t) PROVE DInv' /\ Advance
  <2>1. ~lastError /\ records[t] \in Stored /\ Upholds(answered[t], records[t])
    BY <1>2 DEF D!Cancel, DInv, Maps, MemoryUpholds
  <2>2. CASE D!Expired(t) \/ records[t] = "expired"
    <3>1. Upholds(answered[t], "expired")
      BY <2>1, <2>2, StoresAssumption DEF D!Expired, Upholds, Stored, Recorded, Final
    <3>2. D!Persist(t, "expired")
      BY <1>2, <2>2 DEF D!Cancel
    <3>3. QED
      BY <2>1, <3>1, <3>2, PersistKeeps DEF Recorded, Final
  <2>3. CASE ~(D!Expired(t) \/ records[t] = "expired")
    <3>1. Upholds(answered[t], "cancelled")
      BY <2>1, <2>3, StoresAssumption DEF Upholds, Stored, Recorded, Final
    <3>2. D!Persist(t, "cancelled")
      BY <1>2, <2>3 DEF D!Cancel
    <3>3. QED
      BY <2>1, <3>1, <3>2, PersistKeeps DEF Recorded, Final
  <2>4. QED
    BY <2>2, <2>3
<1>3. ASSUME NEW t \in Tokens, D!Status(t) PROVE DInv' /\ Advance
  <2>1. ~lastError /\ Upholds(answered[t], records[t])
    BY <1>3 DEF D!Status, DInv, MemoryUpholds
  <2>2. CASE D!Expired(t)
    <3>1. Upholds(answered[t], "expired")
      BY <2>1, <2>2, StoresAssumption DEF D!Expired, Upholds, Stored, Recorded, Final
    <3>2. QED
      BY <1>3, <2>1, <2>2, <3>1, PersistKeeps DEF D!Status, Recorded, Final
  <2>3. CASE ~D!Expired(t)
    BY <1>3, <2>1, <2>3, AnswerKeeps DEF D!Status
  <2>4. QED
    BY <2>2, <2>3
<1>4. ASSUME NEW t \in Tokens, D!Expire(t) PROVE DInv' /\ Advance
  BY <1>4 DEF D!Expire, D!log, DInv, Maps, FileUpholds, MemoryUpholds, MemoryIsFile,
              Upholds, Advance, Final
<1>5. ASSUME D!Restart PROVE DInv' /\ Advance
  <2>1. Maps'
    BY <1>5 DEF D!Restart, D!log, DInv, Maps, Stored
  <2>2. FileUpholds' /\ Advance
    BY <1>5 DEF D!Restart, D!log, DInv, FileUpholds, Upholds, Advance, Final
  <2>3. MemoryUpholds' /\ MemoryIsFile'
    BY <1>5 DEF D!Restart, D!log, DInv, FileUpholds, MemoryUpholds, MemoryIsFile, Upholds
  <2>4. QED
    BY <2>1, <2>2, <2>3 DEF DInv
<1>6. CASE UNCHANGED D!vars
  BY <1>6 DEF D!vars, D!log, DInv, Maps, FileUpholds, MemoryUpholds, MemoryIsFile, Upholds
<1>7. QED
  BY <1>1, <1>2, <1>3, <1>4, <1>5, <1>6 DEF D!Next

\* The types are kept without regard to the answers.
LEMMA DeliveryTypes == D!TypeOK /\ [D!Next]_D!vars => D!TypeOK'
<1> SUFFICES ASSUME D!TypeOK, [D!Next]_D!vars PROVE D!TypeOK'
  OBVIOUS
<1>1. ASSUME NEW t \in Tokens, NEW s \in Recorded, D!Persist(t, s) PROVE D!TypeOK'
  BY <1>1 DEF D!Persist, D!Appended, D!Answer, D!log, D!TypeOK, Recorded, Final
<1>2. ASSUME NEW t \in Tokens, D!Acknowledge(t) PROVE D!TypeOK'
  <2>1. CASE D!Answer(t, "acknowledged") /\ UNCHANGED <<records, due, D!log, lastError>>
    BY <2>1 DEF D!Answer, D!log, D!TypeOK
  <2>2. QED
    BY <1>1, <1>2, <2>1 DEF D!Acknowledge, Recorded, Final
<1>3. ASSUME NEW t \in Tokens, D!Cancel(t) PROVE D!TypeOK'
  BY <1>1, <1>3 DEF D!Cancel, Recorded, Final
<1>4. ASSUME NEW t \in Tokens, D!Status(t) PROVE D!TypeOK'
  <2>1. CASE D!Persist(t, "expired")
    BY <1>1, <2>1 DEF Recorded, Final
  <2>2. CASE /\ D!Answer(t, IF records[t] = None THEN "pending" ELSE records[t])
             /\ UNCHANGED <<records, due, D!log, lastError>>
    BY <2>2 DEF D!Answer, D!log, D!TypeOK
  <2>3. QED
    BY <1>4, <2>1, <2>2 DEF D!Status
<1>5. ASSUME NEW t \in Tokens, D!Expire(t) PROVE D!TypeOK'
  BY <1>5 DEF D!Expire, D!log, D!TypeOK
<1>6. CASE D!Restart
  BY <1>6 DEF D!Restart, D!log, D!TypeOK
<1>7. CASE UNCHANGED D!vars
  BY <1>7 DEF D!vars, D!log, D!TypeOK
<1>8. QED
  BY <1>2, <1>3, <1>4, <1>5, <1>6, <1>7 DEF D!Next

\* For any tokens, failing appends and restarts: no answer of acknowledge_delivery
\* or get_delivery_status takes back an earlier one.
LEMMA AnswersKept == D!Spec => []D!TypeOK /\ D!AnswersOnlyAdvance
<1>1. DInv /\ [D!Next]_D!vars => DInv' /\ [Advance]_D!vars
  BY NextDelivery
<1>2. Advance <=> \A t \in Tokens :
        /\ answered[t] \in {"cancelled", "expired"} => answered'[t] = answered[t]
        /\ answered[t] = "acknowledged" => answered'[t] # "pending"
  BY DEF Advance, Final
<1>3. D!Init => D!TypeOK
  BY DEF D!Init, D!TypeOK
<1>4. QED
  BY <1>1, <1>2, <1>3, InitDelivery, DeliveryTypes, PTL DEF D!Spec, D!AnswersOnlyAdvance

-----------------------------------------------------------------------------
(* The three of them in one process *)

\* Each step of the process is one of its store's and leaves the others alone.
LEMMA Components == StoresSpec => Spec /\ C!Spec /\ D!Spec
<1>1. StoresInit => Init /\ C!Init /\ D!Init
  BY DEF StoresInit
<1>2. [StoresNext]_<<subject, vars, candidates, delivery>> =>
        [Next]_vars /\ [C!Next]_C!vars /\ [D!Next]_D!vars
  BY DEF StoresNext, AlarmNext, CandidatesNext, DeliveryNext, candidates, delivery,
         C!vars, C!disk, D!vars, D!log
<1>3. QED
  BY <1>1, <1>2, PTL DEF StoresSpec, Spec, C!Spec, D!Spec

\* Every variable of the three stores has a value of its kind; of the candidates'
\* file this says that no restart finds it torn.
THEOREM StoresTypeCorrect == StoresSpec => []StoresTypeOK
BY Components, TypeCorrect, CandidatesKept, AnswersKept, PTL DEF StoresTypeOK

\* The candidates last confirmed to a caller of CandidateStore stay on the disk,
\* whatever saves fail and wherever restarts come.
THEOREM ConfirmedSurvives == StoresSpec => []AcknowledgedOnDisk
BY Components, CandidatesKept, PTL DEF AcknowledgedOnDisk

\* No answer of acknowledge_delivery or get_delivery_status takes back an earlier
\* one, whatever appends fail and wherever restarts come.
THEOREM NoAnswerTakenBack == StoresSpec => AnswersOnlyAdvance
BY Components, AnswersKept, PTL DEF AnswersOnlyAdvance

\* The alarm engine keeps in this process what it keeps on its own.
THEOREM AlarmsSurvive == StoresSpec => [](ActiveHasActor /\ RunReachable /\ FileIsMemory)
BY Components, NoAbandonedAlarm, RunsCanBeStopped, FileUpToDate, PTL
=============================================================================

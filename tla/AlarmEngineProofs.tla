-------------------------- MODULE AlarmEngineProofs --------------------------
(***************************************************************************)
(* Proofs about AlarmEngine for any requests, timers, runs and number of   *)
(* configurations.                                                         *)
(***************************************************************************)
EXTENDS AlarmEngine, TLAPS

Places == {"idle", "arm", "open", "write", "remove", "runtime", "start", "snooze", "cancel",
           "timer", "sleep", "resume"}
RunPlaces == {"none", "step", "complete", "disable", "write", "failed", "finally"}
Versions == 1 .. versions

\* What TypeOK leaves open: the threads, and what a place says of the version a
\* thread works with.
ThreadsOK ==
  /\ at \in [Actors -> Places]
  /\ got \in [Actors -> Versions \cup {None}]
  /\ run \in [Runs -> [pc : RunPlaces, cfg : Versions \cup {None}, stopped : BOOLEAN]]
  /\ lock \in Actors \cup {None}
  /\ \A x \in Actors : at[x] \in {"arm", "open", "write", "runtime", "start"} => got[x] # None
  /\ \A r \in Runs : run[r].pc \in {"disable", "write"} => run[r].cfg \in OneShot

\* What the file says of a version is what was posted, but that a one-shot alarm
\* may have been switched off; and an alarm that is being changed under the lock,
\* or is snoozed, exists.
Possible(c) == IF c[2] THEN c[1] \notin Off ELSE c[1] \in OneShot \cup Off
StatesOK ==
  /\ file \notin {None, Torn} => Possible(file)
  /\ lock # None => config # None
  /\ rt = "snoozed" => config # None

\* A run that overlaps no other is alone.
RunsApart == \A r \in Alive \ overlapped : Alive = {r}

\* Unless file and memory have parted, one thread at most is about to save, it
\* saves what is in memory, and nobody is only if the file is up to date.
Target(x) ==
  IF x \in Runs THEN run[x].cfg ELSE IF at[x] = "remove" THEN None ELSE got[x]
SaveInv ==
  ~dirty => /\ \A x \in Saving : Saving = {x} /\ Target(x) = config
            /\ Saving = {} => file = (IF config = None THEN None ELSE Content(config))

Types == TypeOK /\ ThreadsOK /\ StatesOK
IInv == Types /\ ActiveHasActor /\ RunsApart /\ RunReachable /\ SaveInv

-----------------------------------------------------------------------------
\* What is written of a version, and what a write leaves in the file.
LEMMA ContentType ==
  ASSUME NEW v
  PROVE  /\ Content(v)[1] = v
         /\ disabled \subseteq OneShot => Possible(Content(v))
         /\ \A n \in Nat : v \in 1 .. n => Content(v) \in (1 .. n) \X BOOLEAN
BY DEF Content, Possible

\* A write leaves the file as it was, removed, torn, or with the version written.
LEMMA SaveWriteFile ==
  ASSUME NEW x, NEW v, SaveWrite(x, v) PROVE file' \in {file, None, Torn, Content(v)}
BY DEF SaveWrite

\* Stopping a run changes nothing else of it, and nothing of the others.
LEMMA StopRunAt ==
  ASSUME TypeOK, ThreadsOK, StopRun
  PROVE  /\ run' \in [Runs -> [pc : RunPlaces, cfg : Versions \cup {None}, stopped : BOOLEAN]]
         /\ \A r \in Runs : run'[r].pc = run[r].pc /\ run'[r].cfg = run[r].cfg
         /\ \A r \in Runs : run'[r].stopped = (run[r].stopped \/ stops = r)
<1>1. CASE stops = None
  BY <1>1, ActorsAssumption DEF StopRun, ThreadsOK
<1>2. CASE stops # None
  <2>1. stops \in Runs /\ run' = [run EXCEPT ![stops].stopped = TRUE]
    BY <1>2 DEF StopRun, TypeOK
  <2>2. QED
    BY <2>1 DEF ThreadsOK
<1>3. QED
  BY <1>1, <1>2

\* The fresh engine.
LEMMA InitHolds == Init => IInv
<1> SUFFICES ASSUME Init PROVE IInv
  OBVIOUS
<1> USE ActorsAssumption, VersionsAssumption, MarksAssumption
<1>1. TypeOK
  <2>1. /\ versions \in 0 .. MaxVersions /\ config = None /\ disabled \subseteq OneShot
        /\ rt = None /\ stops = None /\ overlapped \subseteq Runs /\ file = None
    BY DEF Init
  <2>2. \A r \in Runs : (run[r].pc = "none") <=> (run[r].cfg = None)
    BY DEF Init, NoRun
  <2>3. \A x \in Actors : (at[x] \in {"arm", "snooze", "cancel"}) <=> (lock = x)
    BY DEF Init
  <2>4. {dirty, lost, fresh} \subseteq BOOLEAN
    BY DEF Init
  <2>5. QED
    BY <2>1, <2>2, <2>3, <2>4 DEF TypeOK
<1>2. ThreadsOK
  BY DEF Init, ThreadsOK, NoRun, Places, RunPlaces, Versions
<1>3. StatesOK /\ ActiveHasActor
  BY DEF Init, StatesOK, ActiveHasActor, AlarmStates
<1>4. RunsApart /\ RunReachable
  BY DEF Init, RunsApart, RunReachable, Alive, NoRun
<1>5. SaveInv
  BY DEF Init, SaveInv, Saving, NoRun
<1>6. QED
  BY <1>1, <1>2, <1>3, <1>4, <1>5 DEF IInv, Types

\* Every step gives each variable a value of its kind.
LEMMA NextTypeOK ==
  ASSUME TypeOK, ThreadsOK, StatesOK, [Next]_vars PROVE TypeOK'
<1> USE ActorsAssumption, VersionsAssumption, MarksAssumption
    DEF TypeOK, ThreadsOK, StatesOK, AlarmStates, Versions, Places, RunPlaces, Goto, Keep,
        SetRt, data, actors, Actors
<1>1. ASSUME NEW x \in Editors, Create(x) PROVE TypeOK'
  <2>1. /\ versions' \in 0 .. MaxVersions /\ config' \in (1 .. versions') \cup {None}
        /\ disabled' \subseteq OneShot
    BY <1>1 DEF Create, NewVersion
  <2>2. rt' \in AlarmStates \cup {None}
    BY <1>1 DEF Create, NewVersion
  <2>3. stops' \in Runs \cup {None} /\ overlapped' \subseteq Runs
    BY <1>1 DEF Create, NewVersion
  <2>4. \A u \in Runs : (run'[u].pc = "none") <=> (run'[u].cfg = None)
    BY <1>1 DEF Create, NewVersion
  <2>5. \A y \in Actors : (at'[y] \in {"arm", "snooze", "cancel"}) <=> (lock' = y)
    BY <1>1 DEF Create, NewVersion
  <2>6. file' \in {None, Torn} \cup ((1 .. versions') \X BOOLEAN)
    BY <1>1 DEF Create, NewVersion
  <2>7. {dirty', lost', fresh'} \subseteq BOOLEAN
    BY <1>1 DEF Create, NewVersion
  <2>8. QED
    BY <2>1, <2>2, <2>3, <2>4, <2>5, <2>6, <2>7
<1>2. ASSUME NEW x \in Editors, Update(x) PROVE TypeOK'
  BY <1>2 DEF Update, NewVersion
<1>3. ASSUME NEW x \in Editors, UpdateArm(x) PROVE TypeOK'
  BY <1>3 DEF UpdateArm
<1>4. ASSUME NEW x \in Editors, Delete(x) PROVE TypeOK'
  <2>1. /\ versions' \in 0 .. MaxVersions /\ config' \in (1 .. versions') \cup {None}
        /\ disabled' \subseteq OneShot
    BY <1>4 DEF Delete, StopRun
  <2>2. rt' \in AlarmStates \cup {None}
    BY <1>4 DEF Delete, StopRun
  <2>3. stops' \in Runs \cup {None} /\ overlapped' \subseteq Runs
    BY <1>4 DEF Delete, StopRun
  <2>4. \A u \in Runs : (run'[u].pc = "none") <=> (run'[u].cfg = None)
    BY <1>4 DEF Delete, StopRun
  <2>5. \A y \in Actors : (at'[y] \in {"arm", "snooze", "cancel"}) <=> (lock' = y)
    BY <1>4 DEF Delete, StopRun
  <2>6. file' \in {None, Torn} \cup ((1 .. versions') \X BOOLEAN)
    BY <1>4 DEF Delete, StopRun
  <2>7. {dirty', lost', fresh'} \subseteq BOOLEAN
    BY <1>4 DEF Delete, StopRun
  <2>8. QED
    BY <2>1, <2>2, <2>3, <2>4, <2>5, <2>6, <2>7
<1>5. ASSUME NEW x \in Editors, Remove(x) PROVE TypeOK'
  BY <1>5 DEF Remove
<1>6. ASSUME NEW x \in Editors, Open(x) PROVE TypeOK'
  BY <1>6 DEF Open, Truncate, SaveFails
<1>7. ASSUME NEW x \in Editors, Write(x) PROVE TypeOK'
  <2>1. /\ versions' \in 0 .. MaxVersions /\ config' \in (1 .. versions') \cup {None}
        /\ disabled' \subseteq OneShot
    BY <1>7 DEF Write, SaveWrite, Content
  <2>2. rt' \in AlarmStates \cup {None}
    BY <1>7 DEF Write, SaveWrite, Content
  <2>3. stops' \in Runs \cup {None} /\ overlapped' \subseteq Runs
    BY <1>7 DEF Write, SaveWrite, Content
  <2>4. \A u \in Runs : (run'[u].pc = "none") <=> (run'[u].cfg = None)
    BY <1>7 DEF Write, SaveWrite, Content
  <2>5. \A y \in Actors : (at'[y] \in {"arm", "snooze", "cancel"}) <=> (lock' = y)
    BY <1>7 DEF Write, SaveWrite, Content
  <2>6. file' \in {None, Torn} \cup ((1 .. versions') \X BOOLEAN)
    <3>1. got[x] \in 1 .. versions /\ SaveWrite(x, got[x])
      BY <1>7, VersionsAssumption, MarksAssumption DEF Write
    <3>2. versions' = versions /\ versions \in Nat
      BY <1>7, VersionsAssumption DEF Write
    <3>3. QED
      BY <3>1, <3>2, SaveWriteFile, ContentType
  <2>7. {dirty', lost', fresh'} \subseteq BOOLEAN
    BY <1>7 DEF Write, SaveWrite, Content
  <2>8. QED
    BY <2>1, <2>2, <2>3, <2>4, <2>5, <2>6, <2>7
<1>8. ASSUME NEW x \in Callers, Trigger(x) PROVE TypeOK'
  BY <1>8 DEF Trigger
<1>9. ASSUME NEW x \in Callers, Snooze(x) PROVE TypeOK'
  BY <1>9 DEF Snooze, Locked
<1>10. ASSUME NEW x \in Callers, SnoozeMark(x) PROVE TypeOK'
  <2>1. /\ versions' \in 0 .. MaxVersions /\ config' \in (1 .. versions') \cup {None}
        /\ disabled' \subseteq OneShot
    BY <1>10 DEF SnoozeMark, StopAndMark, StopRun
  <2>2. rt' \in AlarmStates \cup {None}
    BY <1>10 DEF SnoozeMark, StopAndMark, StopRun
  <2>3. stops' \in Runs \cup {None} /\ overlapped' \subseteq Runs
    BY <1>10 DEF SnoozeMark, StopAndMark, StopRun
  <2>4. \A u \in Runs : (run'[u].pc = "none") <=> (run'[u].cfg = None)
    BY <1>10 DEF SnoozeMark, StopAndMark, StopRun
  <2>5. \A y \in Actors : (at'[y] \in {"arm", "snooze", "cancel"}) <=> (lock' = y)
    BY <1>10 DEF SnoozeMark, StopAndMark, StopRun
  <2>6. file' \in {None, Torn} \cup ((1 .. versions') \X BOOLEAN)
    BY <1>10 DEF SnoozeMark, StopAndMark, StopRun
  <2>7. {dirty', lost', fresh'} \subseteq BOOLEAN
    BY <1>10 DEF SnoozeMark, StopAndMark, StopRun
  <2>8. QED
    BY <2>1, <2>2, <2>3, <2>4, <2>5, <2>6, <2>7
<1>11. ASSUME NEW x \in Callers, Cancel(x) PROVE TypeOK'
  BY <1>11 DEF Cancel, Locked
<1>12. ASSUME NEW x \in Callers, CancelMark(x) PROVE TypeOK'
  <2>1. /\ versions' \in 0 .. MaxVersions /\ config' \in (1 .. versions') \cup {None}
        /\ disabled' \subseteq OneShot
    BY <1>12 DEF CancelMark, StopAndMark, StopRun
  <2>2. rt' \in AlarmStates \cup {None}
    BY <1>12 DEF CancelMark, StopAndMark, StopRun
  <2>3. stops' \in Runs \cup {None} /\ overlapped' \subseteq Runs
    BY <1>12 DEF CancelMark, StopAndMark, StopRun
  <2>4. \A u \in Runs : (run'[u].pc = "none") <=> (run'[u].cfg = None)
    BY <1>12 DEF CancelMark, StopAndMark, StopRun
  <2>5. \A y \in Actors : (at'[y] \in {"arm", "snooze", "cancel"}) <=> (lock' = y)
    BY <1>12 DEF CancelMark, StopAndMark, StopRun
  <2>6. file' \in {None, Torn} \cup ((1 .. versions') \X BOOLEAN)
    BY <1>12 DEF CancelMark, StopAndMark, StopRun
  <2>7. {dirty', lost', fresh'} \subseteq BOOLEAN
    BY <1>12 DEF CancelMark, StopAndMark, StopRun
  <2>8. QED
    BY <2>1, <2>2, <2>3, <2>4, <2>5, <2>6, <2>7
<1>13. ASSUME NEW s \in Timers, Wake(s) PROVE TypeOK'
  BY <1>13 DEF Wake
<1>14. ASSUME NEW s \in Timers, Resume(s) PROVE TypeOK'
  BY <1>14 DEF Resume
<1>15. ASSUME NEW x \in Actors, NewRuntime(x) PROVE TypeOK'
  BY <1>15 DEF NewRuntime
<1>16. ASSUME NEW x \in Actors, Start(x) PROVE TypeOK'
  BY <1>16 DEF Start, Alive
<1>17. ASSUME NEW r \in Runs, RunStep(r) PROVE TypeOK'
  BY <1>17 DEF RunStep, RunTo
<1>18. ASSUME NEW r \in Runs, RunComplete(r) PROVE TypeOK'
  <2>1. /\ versions' \in 0 .. MaxVersions /\ config' \in (1 .. versions') \cup {None}
        /\ disabled' \subseteq OneShot
    BY <1>18 DEF RunComplete, RunTo
  <2>2. rt' \in AlarmStates \cup {None}
    BY <1>18 DEF RunComplete, RunTo
  <2>3. stops' \in Runs \cup {None} /\ overlapped' \subseteq Runs
    BY <1>18 DEF RunComplete, RunTo
  <2>4. \A u \in Runs : (run'[u].pc = "none") <=> (run'[u].cfg = None)
    BY <1>18 DEF RunComplete, RunTo
  <2>5. \A y \in Actors : (at'[y] \in {"arm", "snooze", "cancel"}) <=> (lock' = y)
    BY <1>18 DEF RunComplete, RunTo
  <2>6. file' \in {None, Torn} \cup ((1 .. versions') \X BOOLEAN)
    BY <1>18 DEF RunComplete, RunTo
  <2>7. {dirty', lost', fresh'} \subseteq BOOLEAN
    BY <1>18 DEF RunComplete, RunTo
  <2>8. QED
    BY <2>1, <2>2, <2>3, <2>4, <2>5, <2>6, <2>7
<1>19. ASSUME NEW r \in Runs, RunDisable(r) PROVE TypeOK'
  <2>1. /\ versions' \in 0 .. MaxVersions /\ config' \in (1 .. versions') \cup {None}
        /\ disabled' \subseteq OneShot
    BY <1>19 DEF RunDisable, RunTo, SaveFails
  <2>2. rt' \in AlarmStates \cup {None}
    BY <1>19 DEF RunDisable, RunTo, SaveFails
  <2>3. stops' \in Runs \cup {None} /\ overlapped' \subseteq Runs
    BY <1>19 DEF RunDisable, RunTo, SaveFails
  <2>4. \A u \in Runs : (run'[u].pc = "none") <=> (run'[u].cfg = None)
    BY <1>19 DEF RunDisable, RunTo, SaveFails
  <2>5. \A y \in Actors : (at'[y] \in {"arm", "snooze", "cancel"}) <=> (lock' = y)
    BY <1>19 DEF RunDisable, RunTo, SaveFails
  <2>6. file' \in {None, Torn} \cup ((1 .. versions') \X BOOLEAN)
    BY <1>19 DEF RunDisable, RunTo, SaveFails
  <2>7. {dirty', lost', fresh'} \subseteq BOOLEAN
    BY <1>19 DEF RunDisable, RunTo, SaveFails
  <2>8. QED
    BY <2>1, <2>2, <2>3, <2>4, <2>5, <2>6, <2>7
<1>20. ASSUME NEW r \in Runs, RunWrite(r) PROVE TypeOK'
  <2>1. /\ versions' \in 0 .. MaxVersions /\ config' \in (1 .. versions') \cup {None}
        /\ disabled' \subseteq OneShot
    BY <1>20 DEF RunWrite, RunTo, SaveWrite, Content
  <2>2. rt' \in AlarmStates \cup {None}
    BY <1>20 DEF RunWrite, RunTo, SaveWrite, Content
  <2>3. stops' \in Runs \cup {None} /\ overlapped' \subseteq Runs
    BY <1>20 DEF RunWrite, RunTo, SaveWrite, Content
  <2>4. \A u \in Runs : (run'[u].pc = "none") <=> (run'[u].cfg = None)
    BY <1>20 DEF RunWrite, RunTo, SaveWrite, Content
  <2>5. \A y \in Actors : (at'[y] \in {"arm", "snooze", "cancel"}) <=> (lock' = y)
    BY <1>20 DEF RunWrite, RunTo, SaveWrite, Content
  <2>6. file' \in {None, Torn} \cup ((1 .. versions') \X BOOLEAN)
    <3>1. run[r].cfg \in 1 .. versions /\ SaveWrite(r, run[r].cfg)
      BY <1>20, VersionsAssumption, MarksAssumption DEF RunWrite
    <3>2. versions' = versions /\ versions \in Nat
      BY <1>20, VersionsAssumption DEF RunWrite
    <3>3. QED
      BY <3>1, <3>2, SaveWriteFile, ContentType
  <2>7. {dirty', lost', fresh'} \subseteq BOOLEAN
    BY <1>20 DEF RunWrite, RunTo, SaveWrite, Content
  <2>8. QED
    BY <2>1, <2>2, <2>3, <2>4, <2>5, <2>6, <2>7
<1>21. ASSUME NEW r \in Runs, RunFailed(r) PROVE TypeOK'
  <2>1. /\ versions' \in 0 .. MaxVersions /\ config' \in (1 .. versions') \cup {None}
        /\ disabled' \subseteq OneShot
    BY <1>21 DEF RunFailed, RunTo
  <2>2. rt' \in AlarmStates \cup {None}
    BY <1>21 DEF RunFailed, RunTo
  <2>3. stops' \in Runs \cup {None} /\ overlapped' \subseteq Runs
    BY <1>21 DEF RunFailed, RunTo
  <2>4. \A u \in Runs : (run'[u].pc = "none") <=> (run'[u].cfg = None)
    BY <1>21 DEF RunFailed, RunTo
  <2>5. \A y \in Actors : (at'[y] \in {"arm", "snooze", "cancel"}) <=> (lock' = y)
    BY <1>21 DEF RunFailed, RunTo
  <2>6. file' \in {None, Torn} \cup ((1 .. versions') \X BOOLEAN)
    BY <1>21 DEF RunFailed, RunTo
  <2>7. {dirty', lost', fresh'} \subseteq BOOLEAN
    BY <1>21 DEF RunFailed, RunTo
  <2>8. QED
    BY <2>1, <2>2, <2>3, <2>4, <2>5, <2>6, <2>7
<1>22. ASSUME NEW r \in Runs, RunFinally(r) PROVE TypeOK'
  <2>1. /\ versions' \in 0 .. MaxVersions /\ config' \in (1 .. versions') \cup {None}
        /\ disabled' \subseteq OneShot
    BY <1>22 DEF RunFinally, NoRun
  <2>2. rt' \in AlarmStates \cup {None}
    BY <1>22 DEF RunFinally, NoRun
  <2>3. stops' \in Runs \cup {None} /\ overlapped' \subseteq Runs
    BY <1>22 DEF RunFinally, NoRun
  <2>4. \A u \in Runs : (run'[u].pc = "none") <=> (run'[u].cfg = None)
    BY <1>22 DEF RunFinally, NoRun
  <2>5. \A y \in Actors : (at'[y] \in {"arm", "snooze", "cancel"}) <=> (lock' = y)
    BY <1>22 DEF RunFinally, NoRun
  <2>6. file' \in {None, Torn} \cup ((1 .. versions') \X BOOLEAN)
    BY <1>22 DEF RunFinally, NoRun
  <2>7. {dirty', lost', fresh'} \subseteq BOOLEAN
    BY <1>22 DEF RunFinally, NoRun
  <2>8. QED
    BY <2>1, <2>2, <2>3, <2>4, <2>5, <2>6, <2>7
<1>23. CASE Restart
  <2>1. /\ versions' \in 0 .. MaxVersions /\ config' \in (1 .. versions') \cup {None}
        /\ rt' \in AlarmStates \cup {None}
        /\ file' \in {None, Torn} \cup ((1 .. versions') \X BOOLEAN)
    BY <1>23 DEF Restart
  <2>2. disabled' \subseteq OneShot
    BY <1>23 DEF Restart, Possible
  <2>3. stops' \in Runs \cup {None} /\ overlapped' \subseteq Runs
    BY <1>23 DEF Restart
  <2>4. \A u \in Runs : (run'[u].pc = "none") <=> (run'[u].cfg = None)
    BY <1>23 DEF Restart, NoRun
  <2>5. \A y \in Actors : (at'[y] \in {"arm", "snooze", "cancel"}) <=> (lock' = y)
    BY <1>23 DEF Restart
  <2>6. {dirty', lost', fresh'} \subseteq BOOLEAN
    BY <1>23 DEF Restart
  <2>7. QED
    BY <2>1, <2>2, <2>3, <2>4, <2>5, <2>6
<1>24. CASE UNCHANGED vars
  BY <1>24 DEF vars
<1>25. ASSUME NEW x \in Callers, SnoozeTimer(x) PROVE TypeOK'
  BY <1>25 DEF SnoozeTimer
<1>26. ASSUME NEW x \in Actors, Raise(x) PROVE TypeOK'
  BY <1>26 DEF Raise
<1>27. CASE SharedPath
  BY <1>27 DEF SharedPath
<1>28. QED
  BY <1>1, <1>2, <1>3, <1>4, <1>5, <1>6, <1>7, <1>8, <1>9, <1>10, <1>11, <1>12, <1>13, <1>14,
     <1>15, <1>16, <1>17, <1>18, <1>19, <1>20, <1>21, <1>22, <1>23, <1>24, <1>25,
     <1>26, <1>27
     DEF Next, Edit, Call

\* A thread that saves or starts a run has a version to do it with.
LEMMA NextThreadsOK ==
  ASSUME TypeOK, ThreadsOK, StatesOK, [Next]_vars PROVE ThreadsOK'
<1> USE ActorsAssumption, VersionsAssumption, MarksAssumption
    DEF TypeOK, ThreadsOK, StatesOK, AlarmStates, Versions, Places, RunPlaces, Goto, Keep,
        SetRt, data, actors, Actors
<1>1. ASSUME NEW x \in Editors, Create(x) PROVE ThreadsOK'
  BY <1>1 DEF Create, NewVersion
<1>2. ASSUME NEW x \in Editors, Update(x) PROVE ThreadsOK'
  BY <1>2 DEF Update, NewVersion
<1>3. ASSUME NEW x \in Editors, UpdateArm(x) PROVE ThreadsOK'
  BY <1>3 DEF UpdateArm
<1>4. ASSUME NEW x \in Editors, Delete(x) PROVE ThreadsOK'
  <2>1. StopRun
    BY <1>4 DEF Delete
  <2>2. QED
    BY <1>4, <2>1, StopRunAt DEF Delete
<1>5. ASSUME NEW x \in Editors, Remove(x) PROVE ThreadsOK'
  BY <1>5 DEF Remove
<1>6. ASSUME NEW x \in Editors, Open(x) PROVE ThreadsOK'
  BY <1>6 DEF Open, Truncate, SaveFails
<1>7. ASSUME NEW x \in Editors, Write(x) PROVE ThreadsOK'
  BY <1>7 DEF Write, SaveWrite, Content
<1>8. ASSUME NEW x \in Callers, Trigger(x) PROVE ThreadsOK'
  BY <1>8 DEF Trigger
<1>9. ASSUME NEW x \in Callers, Snooze(x) PROVE ThreadsOK'
  BY <1>9 DEF Snooze, Locked
<1>10. ASSUME NEW x \in Callers, SnoozeMark(x) PROVE ThreadsOK'
  <2>1. StopRun
    BY <1>10 DEF SnoozeMark, StopAndMark
  <2>2. QED
    BY <1>10, <2>1, StopRunAt DEF SnoozeMark, StopAndMark
<1>11. ASSUME NEW x \in Callers, Cancel(x) PROVE ThreadsOK'
  BY <1>11 DEF Cancel, Locked
<1>12. ASSUME NEW x \in Callers, CancelMark(x) PROVE ThreadsOK'
  <2>1. StopRun
    BY <1>12 DEF CancelMark, StopAndMark
  <2>2. QED
    BY <1>12, <2>1, StopRunAt DEF CancelMark, StopAndMark
<1>13. ASSUME NEW s \in Timers, Wake(s) PROVE ThreadsOK'
  BY <1>13 DEF Wake
<1>14. ASSUME NEW s \in Timers, Resume(s) PROVE ThreadsOK'
  BY <1>14 DEF Resume
<1>15. ASSUME NEW x \in Actors, NewRuntime(x) PROVE ThreadsOK'
  BY <1>15 DEF NewRuntime
<1>16. ASSUME NEW x \in Actors, Start(x) PROVE ThreadsOK'
  BY <1>16 DEF Start, Alive
<1>17. ASSUME NEW r \in Runs, RunStep(r) PROVE ThreadsOK'
  BY <1>17 DEF RunStep, RunTo
<1>18. ASSUME NEW r \in Runs, RunComplete(r) PROVE ThreadsOK'
  BY <1>18 DEF RunComplete, RunTo
<1>19. ASSUME NEW r \in Runs, RunDisable(r) PROVE ThreadsOK'
  <2>1. run[r].pc = "disable" /\ UNCHANGED <<actors, versions>>
        /\ (RunTo(r, "write") \/ RunTo(r, "finally"))
    BY <1>19 DEF RunDisable
  <2>2. run' \in {[run EXCEPT ![r].pc = "write"], [run EXCEPT ![r].pc = "finally"]}
    BY <2>1 DEF RunTo
  <2>3. QED
    BY <2>1, <2>2
<1>20. ASSUME NEW r \in Runs, RunWrite(r) PROVE ThreadsOK'
  BY <1>20 DEF RunWrite, RunTo, SaveWrite, Content
<1>21. ASSUME NEW r \in Runs, RunFailed(r) PROVE ThreadsOK'
  BY <1>21 DEF RunFailed, RunTo
<1>22. ASSUME NEW r \in Runs, RunFinally(r) PROVE ThreadsOK'
  BY <1>22 DEF RunFinally, NoRun
<1>23. CASE Restart
  BY <1>23 DEF Restart, NoRun
<1>24. CASE UNCHANGED vars
  BY <1>24 DEF vars
<1>25. ASSUME NEW x \in Callers, SnoozeTimer(x) PROVE ThreadsOK'
  BY <1>25 DEF SnoozeTimer
<1>26. ASSUME NEW x \in Actors, Raise(x) PROVE ThreadsOK'
  BY <1>26 DEF Raise
<1>27. CASE SharedPath
  BY <1>27 DEF SharedPath
<1>28. QED
  BY <1>1, <1>2, <1>3, <1>4, <1>5, <1>6, <1>7, <1>8, <1>9, <1>10, <1>11, <1>12, <1>13, <1>14,
     <1>15, <1>16, <1>17, <1>18, <1>19, <1>20, <1>21, <1>22, <1>23, <1>24, <1>25,
     <1>26, <1>27
     DEF Next, Edit, Call

\* The lock keeps deletes out, and whoever deletes an alarm ends its snooze.
LEMMA NextStatesOK ==
  ASSUME TypeOK, ThreadsOK, StatesOK, [Next]_vars PROVE StatesOK'
<1> USE ActorsAssumption, VersionsAssumption, MarksAssumption
    DEF TypeOK, ThreadsOK, StatesOK, AlarmStates, Versions, Places, RunPlaces, Content, Goto,
        Keep, SetRt, data, actors, Actors
<1>1. ASSUME NEW x \in Editors, Create(x) PROVE StatesOK'
  BY <1>1 DEF Create, NewVersion
<1>2. ASSUME NEW x \in Editors, Update(x) PROVE StatesOK'
  BY <1>2 DEF Update, NewVersion
<1>3. ASSUME NEW x \in Editors, UpdateArm(x) PROVE StatesOK'
  BY <1>3 DEF UpdateArm
<1>4. ASSUME NEW x \in Editors, Delete(x) PROVE StatesOK'
  BY <1>4 DEF Delete, StopRun
<1>5. ASSUME NEW x \in Editors, Remove(x) PROVE StatesOK'
  BY <1>5 DEF Remove
<1>6. ASSUME NEW x \in Editors, Open(x) PROVE StatesOK'
  BY <1>6 DEF Open, Truncate, SaveFails
<1>7. ASSUME NEW x \in Editors, Write(x) PROVE StatesOK'
  <2>1. got[x] \in Versions /\ SaveWrite(x, got[x])
    BY <1>7 DEF Write
  <2>2. file' \in {file, None, Torn, Content(got[x])}
    BY <2>1, SaveWriteFile
  <2>3. file' \notin {None, Torn} => Possible(file')
    <3>1. CASE file' = Content(got[x])
      BY <3>1, ContentType
    <3>2. CASE file' \in {file, None, Torn}
      BY <3>2
    <3>3. QED
      BY <2>2, <3>1, <3>2
  <2>4. QED
    BY <1>7, <2>3 DEF Write
<1>8. ASSUME NEW x \in Callers, Trigger(x) PROVE StatesOK'
  BY <1>8 DEF Trigger
<1>9. ASSUME NEW x \in Callers, Snooze(x) PROVE StatesOK'
  BY <1>9 DEF Snooze, Locked
<1>10. ASSUME NEW x \in Callers, SnoozeMark(x) PROVE StatesOK'
  BY <1>10 DEF SnoozeMark, StopAndMark, StopRun
<1>11. ASSUME NEW x \in Callers, Cancel(x) PROVE StatesOK'
  BY <1>11 DEF Cancel, Locked
<1>12. ASSUME NEW x \in Callers, CancelMark(x) PROVE StatesOK'
  BY <1>12 DEF CancelMark, StopAndMark, StopRun
<1>13. ASSUME NEW s \in Timers, Wake(s) PROVE StatesOK'
  BY <1>13 DEF Wake
<1>14. ASSUME NEW s \in Timers, Resume(s) PROVE StatesOK'
  BY <1>14 DEF Resume
<1>15. ASSUME NEW x \in Actors, NewRuntime(x) PROVE StatesOK'
  BY <1>15 DEF NewRuntime
<1>16. ASSUME NEW x \in Actors, Start(x) PROVE StatesOK'
  BY <1>16 DEF Start, Alive
<1>17. ASSUME NEW r \in Runs, RunStep(r) PROVE StatesOK'
  BY <1>17 DEF RunStep, RunTo
<1>18. ASSUME NEW r \in Runs, RunComplete(r) PROVE StatesOK'
  BY <1>18 DEF RunComplete, RunTo
<1>19. ASSUME NEW r \in Runs, RunDisable(r) PROVE StatesOK'
  BY <1>19 DEF RunDisable, RunTo, SaveFails
<1>20. ASSUME NEW r \in Runs, RunWrite(r) PROVE StatesOK'
  <2>1. file' \in {file, None, Torn, Content(run[r].cfg)}
    BY <1>20, SaveWriteFile DEF RunWrite
  <2>2. file' \notin {None, Torn} => Possible(file')
    <3>1. CASE file' = Content(run[r].cfg)
      BY <3>1, ContentType
    <3>2. CASE file' \in {file, None, Torn}
      BY <3>2
    <3>3. QED
      BY <2>1, <3>1, <3>2
  <2>3. QED
    BY <1>20, <2>2 DEF RunWrite
<1>21. ASSUME NEW r \in Runs, RunFailed(r) PROVE StatesOK'
  BY <1>21 DEF RunFailed, RunTo
<1>22. ASSUME NEW r \in Runs, RunFinally(r) PROVE StatesOK'
  BY <1>22 DEF RunFinally
<1>23. CASE Restart
  BY <1>23 DEF Restart, NoRun
<1>24. CASE UNCHANGED vars
  BY <1>24 DEF vars
<1>25. ASSUME NEW x \in Callers, SnoozeTimer(x) PROVE StatesOK'
  BY <1>25 DEF SnoozeTimer
<1>26. ASSUME NEW x \in Actors, Raise(x) PROVE StatesOK'
  BY <1>26 DEF Raise
<1>27. CASE SharedPath
  BY <1>27 DEF SharedPath
<1>28. QED
  BY <1>1, <1>2, <1>3, <1>4, <1>5, <1>6, <1>7, <1>8, <1>9, <1>10, <1>11, <1>12, <1>13, <1>14,
     <1>15, <1>16, <1>17, <1>18, <1>19, <1>20, <1>21, <1>22, <1>23, <1>24, <1>25,
     <1>26, <1>27
     DEF Next, Edit, Call

\* Whoever makes an alarm running is about to start a run, and whoever makes it snoozed
\* starts a timer; those who stop the one or wake from the other change the state.
LEMMA NextActive ==
  ASSUME Types, ActiveHasActor, [Next]_vars PROVE ActiveHasActor'
<1> USE ActorsAssumption, VersionsAssumption, MarksAssumption
    DEF Types, TypeOK, ThreadsOK, StatesOK, AlarmStates, ActiveHasActor, Places, RunPlaces,
        Goto, Keep, SetRt, data, actors, Actors
<1>1. ASSUME NEW x \in Editors, Create(x) PROVE ActiveHasActor'
  BY <1>1 DEF Create, NewVersion
<1>2. ASSUME NEW x \in Editors, Update(x) PROVE ActiveHasActor'
  BY <1>2 DEF Update, NewVersion
<1>3. ASSUME NEW x \in Editors, UpdateArm(x) PROVE ActiveHasActor'
  BY <1>3 DEF UpdateArm
<1>4. ASSUME NEW x \in Editors, Delete(x) PROVE ActiveHasActor'
  BY <1>4 DEF Delete, StopRun
<1>5. ASSUME NEW x \in Editors, Remove(x) PROVE ActiveHasActor'
  BY <1>5 DEF Remove
<1>6. ASSUME NEW x \in Editors, Open(x) PROVE ActiveHasActor'
  BY <1>6 DEF Open, Truncate, SaveFails
<1>7. ASSUME NEW x \in Editors, Write(x) PROVE ActiveHasActor'
  BY <1>7 DEF Write, SaveWrite, Content
<1>8. ASSUME NEW x \in Callers, Trigger(x) PROVE ActiveHasActor'
  BY <1>8 DEF Trigger
<1>9. ASSUME NEW x \in Callers, Snooze(x) PROVE ActiveHasActor'
  BY <1>9 DEF Snooze, Locked
<1>10. ASSUME NEW x \in Callers, SnoozeMark(x) PROVE ActiveHasActor'
  BY <1>10 DEF SnoozeMark, StopAndMark, StopRun
<1>11. ASSUME NEW x \in Callers, Cancel(x) PROVE ActiveHasActor'
  BY <1>11 DEF Cancel, Locked
<1>12. ASSUME NEW x \in Callers, CancelMark(x) PROVE ActiveHasActor'
  BY <1>12 DEF CancelMark, StopAndMark, StopRun
<1>13. ASSUME NEW s \in Timers, Wake(s) PROVE ActiveHasActor'
  BY <1>13 DEF Wake
<1>14. ASSUME NEW s \in Timers, Resume(s) PROVE ActiveHasActor'
  BY <1>14 DEF Resume
<1>15. ASSUME NEW x \in Actors, NewRuntime(x) PROVE ActiveHasActor'
  BY <1>15 DEF NewRuntime
<1>16. ASSUME NEW x \in Actors, Start(x) PROVE ActiveHasActor'
  BY <1>16 DEF Start, Alive
<1>17. ASSUME NEW r \in Runs, RunStep(r) PROVE ActiveHasActor'
  BY <1>17 DEF RunStep, RunTo
<1>18. ASSUME NEW r \in Runs, RunComplete(r) PROVE ActiveHasActor'
  BY <1>18 DEF RunComplete, RunTo
<1>19. ASSUME NEW r \in Runs, RunDisable(r) PROVE ActiveHasActor'
  BY <1>19 DEF RunDisable, RunTo, SaveFails
<1>20. ASSUME NEW r \in Runs, RunWrite(r) PROVE ActiveHasActor'
  BY <1>20 DEF RunWrite, RunTo, SaveWrite, Content
<1>21. ASSUME NEW r \in Runs, RunFailed(r) PROVE ActiveHasActor'
  BY <1>21 DEF RunFailed, RunTo
<1>22. ASSUME NEW r \in Runs, RunFinally(r) PROVE ActiveHasActor'
  BY <1>22 DEF RunFinally
<1>23. CASE Restart
  BY <1>23 DEF Restart, NoRun
<1>24. CASE UNCHANGED vars
  BY <1>24 DEF vars
<1>25. ASSUME NEW x \in Callers, SnoozeTimer(x) PROVE ActiveHasActor'
  BY <1>25 DEF SnoozeTimer
<1>26. ASSUME NEW x \in Actors, Raise(x) PROVE ActiveHasActor'
  BY <1>26 DEF Raise
<1>27. CASE SharedPath
  BY <1>27 DEF SharedPath
<1>28. QED
  BY <1>1, <1>2, <1>3, <1>4, <1>5, <1>6, <1>7, <1>8, <1>9, <1>10, <1>11, <1>12, <1>13, <1>14,
     <1>15, <1>16, <1>17, <1>18, <1>19, <1>20, <1>21, <1>22, <1>23, <1>24, <1>25,
     <1>26, <1>27
     DEF Next, Edit, Call

\* A run that starts beside another is known to overlap it; a delete stops the one
\* that is alone.
LEMMA NextRuns ==
  ASSUME Types, RunsApart, RunReachable, [Next]_vars PROVE (RunsApart /\ RunReachable)'
<1> USE ActorsAssumption, VersionsAssumption, MarksAssumption
    DEF Types, TypeOK, ThreadsOK, StatesOK, RunsApart, RunReachable, Alive, NoRun, Places,
        RunPlaces, Goto, Keep, SetRt, data, actors, Actors
<1>1. ASSUME NEW x \in Editors, Create(x) PROVE (RunsApart /\ RunReachable)'
  BY <1>1 DEF Create, NewVersion
<1>2. ASSUME NEW x \in Editors, Update(x) PROVE (RunsApart /\ RunReachable)'
  BY <1>2 DEF Update, NewVersion
<1>3. ASSUME NEW x \in Editors, UpdateArm(x) PROVE (RunsApart /\ RunReachable)'
  BY <1>3 DEF UpdateArm
<1>4. ASSUME NEW x \in Editors, Delete(x) PROVE (RunsApart /\ RunReachable)'
  BY <1>4 DEF Delete, StopRun
<1>5. ASSUME NEW x \in Editors, Remove(x) PROVE (RunsApart /\ RunReachable)'
  BY <1>5 DEF Remove
<1>6. ASSUME NEW x \in Editors, Open(x) PROVE (RunsApart /\ RunReachable)'
  BY <1>6 DEF Open, Truncate, SaveFails
<1>7. ASSUME NEW x \in Editors, Write(x) PROVE (RunsApart /\ RunReachable)'
  BY <1>7 DEF Write, SaveWrite, Content
<1>8. ASSUME NEW x \in Callers, Trigger(x) PROVE (RunsApart /\ RunReachable)'
  BY <1>8 DEF Trigger
<1>9. ASSUME NEW x \in Callers, Snooze(x) PROVE (RunsApart /\ RunReachable)'
  BY <1>9 DEF Snooze, Locked
<1>10. ASSUME NEW x \in Callers, SnoozeMark(x) PROVE (RunsApart /\ RunReachable)'
  BY <1>10 DEF SnoozeMark, StopAndMark, StopRun
<1>11. ASSUME NEW x \in Callers, Cancel(x) PROVE (RunsApart /\ RunReachable)'
  BY <1>11 DEF Cancel, Locked
<1>12. ASSUME NEW x \in Callers, CancelMark(x) PROVE (RunsApart /\ RunReachable)'
  BY <1>12 DEF CancelMark, StopAndMark, StopRun
<1>13. ASSUME NEW s \in Timers, Wake(s) PROVE (RunsApart /\ RunReachable)'
  BY <1>13 DEF Wake
<1>14. ASSUME NEW s \in Timers, Resume(s) PROVE (RunsApart /\ RunReachable)'
  BY <1>14 DEF Resume
<1>15. ASSUME NEW x \in Actors, NewRuntime(x) PROVE (RunsApart /\ RunReachable)'
  BY <1>15 DEF NewRuntime
<1>16. ASSUME NEW x \in Actors, Start(x) PROVE (RunsApart /\ RunReachable)'
  BY <1>16 DEF Start
<1>17. ASSUME NEW r \in Runs, RunStep(r) PROVE (RunsApart /\ RunReachable)'
  BY <1>17 DEF RunStep, RunTo
<1>18. ASSUME NEW r \in Runs, RunComplete(r) PROVE (RunsApart /\ RunReachable)'
  BY <1>18 DEF RunComplete, RunTo
<1>19. ASSUME NEW r \in Runs, RunDisable(r) PROVE (RunsApart /\ RunReachable)'
  BY <1>19 DEF RunDisable, RunTo, SaveFails
<1>20. ASSUME NEW r \in Runs, RunWrite(r) PROVE (RunsApart /\ RunReachable)'
  BY <1>20 DEF RunWrite, RunTo, SaveWrite, Content
<1>21. ASSUME NEW r \in Runs, RunFailed(r) PROVE (RunsApart /\ RunReachable)'
  BY <1>21 DEF RunFailed, RunTo
<1>22. ASSUME NEW r \in Runs, RunFinally(r) PROVE (RunsApart /\ RunReachable)'
  BY <1>22 DEF RunFinally
<1>23. CASE Restart
  BY <1>23 DEF Restart
<1>24. CASE UNCHANGED vars
  BY <1>24 DEF vars
<1>25. ASSUME NEW x \in Callers, SnoozeTimer(x) PROVE (RunsApart /\ RunReachable)'
  BY <1>25 DEF SnoozeTimer
<1>26. ASSUME NEW x \in Actors, Raise(x) PROVE (RunsApart /\ RunReachable)'
  BY <1>26 DEF Raise
<1>27. CASE SharedPath
  BY <1>27 DEF SharedPath
<1>28. QED
  BY <1>1, <1>2, <1>3, <1>4, <1>5, <1>6, <1>7, <1>8, <1>9, <1>10, <1>11, <1>12, <1>13, <1>14,
     <1>15, <1>16, <1>17, <1>18, <1>19, <1>20, <1>21, <1>22, <1>23, <1>24, <1>25,
     <1>26, <1>27
     DEF Next, Edit, Call

\* Two saves that overlap, and one of a version no longer in memory, are known.
LEMMA NextSave ==
  ASSUME Types, SaveInv, [Next]_vars PROVE SaveInv'
<1> USE ActorsAssumption, VersionsAssumption, MarksAssumption
<1>1. ASSUME NEW x \in Editors, Create(x) PROVE SaveInv'
  <2> SUFFICES ASSUME ~dirty' PROVE SaveInv'
    BY DEF SaveInv
  <2>1. Saving = {} /\ x \in Actors /\ x \notin Runs
    BY <1>1 DEF Create, NewVersion, Actors
  <2>2. at'[x] \in {"open"} /\ got'[x] = config' /\ run' = run
    BY <1>1, <2>1 DEF Create, NewVersion, Goto, Keep, ThreadsOK, Types
  <2>3. \A y \in Actors \ {x} : at'[y] = at[y]
    BY <1>1 DEF Create, Goto
  <2>4. Saving' = {x}
    BY <2>1, <2>2, <2>3 DEF Saving
  <2>5. Target(x)' = config'
    BY <2>1, <2>2 DEF Target
  <2>6. QED
    BY <2>4, <2>5 DEF SaveInv
<1>2. ASSUME NEW x \in Editors, Update(x) PROVE SaveInv'
  <2> SUFFICES ASSUME ~dirty' PROVE SaveInv'
    BY DEF SaveInv
  <2>1. Saving = {} /\ x \in Actors /\ x \notin Runs
    BY <1>2 DEF Update, NewVersion, Actors
  <2>2. at'[x] \in {"arm", "open"} /\ got'[x] = config' /\ run' = run
    BY <1>2, <2>1 DEF Update, NewVersion, Goto, Keep, ThreadsOK, Types
  <2>3. \A y \in Actors \ {x} : at'[y] = at[y]
    <3>1. at' \in {[at EXCEPT ![x] = "open"], [at EXCEPT ![x] = "arm"]}
      BY <1>2 DEF Update, Goto
    <3>2. QED
      BY <3>1 DEF ThreadsOK, Types
  <2>4. Saving' = {x}
    BY <2>1, <2>2, <2>3 DEF Saving
  <2>5. Target(x)' = config'
    BY <2>1, <2>2 DEF Target
  <2>6. QED
    BY <2>4, <2>5 DEF SaveInv
<1>3. ASSUME NEW x \in Editors, UpdateArm(x) PROVE SaveInv'
  BY <1>3
     DEF UpdateArm, Types, TypeOK, ThreadsOK, StatesOK, SaveInv, Saving, Target, Content,
         Versions, Places, RunPlaces, Goto, Keep, SetRt, data, actors, Actors
<1>4. ASSUME NEW x \in Editors, Delete(x) PROVE SaveInv'
  <2> SUFFICES ASSUME ~dirty' PROVE SaveInv'
    BY DEF SaveInv
  <2>1. Saving = {} /\ x \in Actors /\ x \notin Runs
    BY <1>4 DEF Delete, Actors
  <2>2. at'[x] = "remove" /\ config' = None /\ \A r \in Runs : run'[r].pc = run[r].pc
    BY <1>4, <2>1, StopRunAt DEF Delete, Goto, ThreadsOK, Types
  <2>3. \A y \in Actors \ {x} : at'[y] = at[y]
    BY <1>4 DEF Delete, Goto
  <2>4. Saving' = {x}
    BY <2>1, <2>2, <2>3 DEF Saving
  <2>5. Target(x)' = config'
    BY <2>1, <2>2 DEF Target
  <2>6. QED
    BY <2>4, <2>5 DEF SaveInv
<1>5. ASSUME NEW x \in Editors, Remove(x) PROVE SaveInv'
  BY <1>5
     DEF Remove, Types, TypeOK, ThreadsOK, StatesOK, SaveInv, Saving, Target, Content, Versions,
         Places, RunPlaces, Goto, Keep, SetRt, data, actors, Actors
<1>6. ASSUME NEW x \in Editors, Open(x) PROVE SaveInv'
  BY <1>6
     DEF Open, Truncate, SaveFails, Types, TypeOK, ThreadsOK, StatesOK, SaveInv, Saving, Target,
         Content, Versions, Places, RunPlaces, Goto, Keep, SetRt, data, actors, Actors
<1>7. ASSUME NEW x \in Editors, Write(x) PROVE SaveInv'
  BY <1>7
     DEF Write, SaveWrite, Content, Types, TypeOK, ThreadsOK, StatesOK, SaveInv, Saving, Target,
         Content, Versions, Places, RunPlaces, Goto, Keep, SetRt, data, actors, Actors
<1>8. ASSUME NEW x \in Callers, Trigger(x) PROVE SaveInv'
  BY <1>8
     DEF Trigger, Types, TypeOK, ThreadsOK, StatesOK, SaveInv, Saving, Target, Content,
         Versions, Places, RunPlaces, Goto, Keep, SetRt, data, actors, Actors
<1>9. ASSUME NEW x \in Callers, Snooze(x) PROVE SaveInv'
  BY <1>9
     DEF Snooze, Locked, Types, TypeOK, ThreadsOK, StatesOK, SaveInv, Saving, Target, Content,
         Versions, Places, RunPlaces, Goto, Keep, SetRt, data, actors, Actors
<1>10. ASSUME NEW x \in Callers, SnoozeMark(x) PROVE SaveInv'
  BY <1>10
     DEF SnoozeMark, StopAndMark, StopRun, Types, TypeOK, ThreadsOK, StatesOK, SaveInv, Saving,
         Target, Content, Versions, Places, RunPlaces, Goto, Keep, SetRt, data, actors, Actors
<1>11. ASSUME NEW x \in Callers, Cancel(x) PROVE SaveInv'
  BY <1>11
     DEF Cancel, Locked, Types, TypeOK, ThreadsOK, StatesOK, SaveInv, Saving, Target, Content,
         Versions, Places, RunPlaces, Goto, Keep, SetRt, data, actors, Actors
<1>12. ASSUME NEW x \in Callers, CancelMark(x) PROVE SaveInv'
  BY <1>12
     DEF CancelMark, StopAndMark, StopRun, Types, TypeOK, ThreadsOK, StatesOK, SaveInv, Saving,
         Target, Content, Versions, Places, RunPlaces, Goto, Keep, SetRt, data, actors, Actors
<1>13. ASSUME NEW s \in Timers, Wake(s) PROVE SaveInv'
  BY <1>13
     DEF Wake, Types, TypeOK, ThreadsOK, StatesOK, SaveInv, Saving, Target, Content, Versions,
         Places, RunPlaces, Goto, Keep, SetRt, data, actors, Actors
<1>14. ASSUME NEW s \in Timers, Resume(s) PROVE SaveInv'
  BY <1>14
     DEF Resume, Types, TypeOK, ThreadsOK, StatesOK, SaveInv, Saving, Target, Content, Versions,
         Places, RunPlaces, Goto, Keep, SetRt, data, actors, Actors
<1>15. ASSUME NEW x \in Actors, NewRuntime(x) PROVE SaveInv'
  BY <1>15
     DEF NewRuntime, Types, TypeOK, ThreadsOK, StatesOK, SaveInv, Saving, Target, Content,
         Versions, Places, RunPlaces, Goto, Keep, SetRt, data, actors, Actors
<1>16. ASSUME NEW x \in Actors, Start(x) PROVE SaveInv'
  BY <1>16
     DEF Start, Alive, Types, TypeOK, ThreadsOK, StatesOK, SaveInv, Saving, Target, Content,
         Versions, Places, RunPlaces, Goto, Keep, SetRt, data, actors, Actors
<1>17. ASSUME NEW r \in Runs, RunStep(r) PROVE SaveInv'
  BY <1>17
     DEF RunStep, RunTo, Types, TypeOK, ThreadsOK, StatesOK, SaveInv, Saving, Target, Content,
         Versions, Places, RunPlaces, Goto, Keep, SetRt, data, actors, Actors
<1>18. ASSUME NEW r \in Runs, RunComplete(r) PROVE SaveInv'
  BY <1>18
     DEF RunComplete, RunTo, Types, TypeOK, ThreadsOK, StatesOK, SaveInv, Saving, Target,
         Content, Versions, Places, RunPlaces, Goto, Keep, SetRt, data, actors, Actors
<1>19. ASSUME NEW r \in Runs, RunDisable(r) PROVE SaveInv'
  <2> SUFFICES ASSUME ~dirty' PROVE SaveInv'
    BY DEF SaveInv
  <2>1. Saving = {} /\ run[r].cfg = config /\ config' = config /\ RunTo(r, "write") /\ at' = at
    BY <1>19 DEF RunDisable, SaveFails, actors
  <2>2. /\ run'[r].pc = "write" /\ run'[r].cfg = run[r].cfg
        /\ \A u \in Runs \ {r} : run'[u] = run[u]
    BY <2>1 DEF RunTo, ThreadsOK, Types
  <2>3. Saving' = {r}
    BY <2>1, <2>2 DEF Saving
  <2>4. Target(r)' = config'
    BY <2>1, <2>2 DEF Target
  <2>5. QED
    BY <2>3, <2>4 DEF SaveInv
<1>20. ASSUME NEW r \in Runs, RunWrite(r) PROVE SaveInv'
  BY <1>20
     DEF RunWrite, RunTo, SaveWrite, Content, Types, TypeOK, ThreadsOK, StatesOK, SaveInv,
         Saving, Target, Content, Versions, Places, RunPlaces, Goto, Keep, SetRt, data, actors,
         Actors
<1>21. ASSUME NEW r \in Runs, RunFailed(r) PROVE SaveInv'
  BY <1>21
     DEF RunFailed, RunTo, Types, TypeOK, ThreadsOK, StatesOK, SaveInv, Saving, Target, Content,
         Versions, Places, RunPlaces, Goto, Keep, SetRt, data, actors, Actors
<1>22. ASSUME NEW r \in Runs, RunFinally(r) PROVE SaveInv'
  BY <1>22
     DEF RunFinally, NoRun, Types, TypeOK, ThreadsOK, StatesOK, SaveInv, Saving, Target,
         Content, Versions, Places, RunPlaces, Goto, Keep, SetRt, data, actors, Actors
<1>23. CASE Restart
  <2> SUFFICES ASSUME ~dirty' PROVE SaveInv'
    BY DEF SaveInv
  <2>1. Saving' = {}
    BY <1>23 DEF Restart, Saving, NoRun
  <2>2. file # Torn /\ file' = file /\ versions' = versions
    BY <1>23 DEF Restart
  <2>3. CASE file = None
    BY <1>23, <2>1, <2>2, <2>3 DEF Restart, SaveInv
  <2>4. CASE file # None
    <3>1. PICK v \in 1 .. versions, b \in BOOLEAN : file = <<v, b>>
      BY <2>2, <2>4 DEF Types, TypeOK
    <3>2. config' = v /\ disabled' = (IF b THEN {} ELSE {v} \ Off)
      BY <1>23, <2>2, <2>4, <3>1 DEF Restart
    <3>3. v # None
      BY <3>1 DEF Types, TypeOK
    <3>4. Content(v)' = <<v, b>>
      <4>1. b => v \notin Off
        BY <2>2, <2>4, <3>1 DEF Types, StatesOK, Possible
      <4>2. Content(v)' = <<v, v \notin disabled' \cup Off>>
        BY DEF Content
      <4>3. (v \notin disabled' \cup Off) = b
        BY <3>2, <4>1
      <4>4. QED
        BY <4>2, <4>3
    <3>5. QED
      BY <2>1, <2>2, <3>1, <3>2, <3>3, <3>4 DEF SaveInv
  <2>5. QED
    BY <2>3, <2>4
<1>24. CASE UNCHANGED vars
  BY <1>24
     DEF vars, data, actors, Types, TypeOK, ThreadsOK, StatesOK, SaveInv, Saving, Target,
         Content, Versions, Places, RunPlaces
<1>25. ASSUME NEW x \in Callers, SnoozeTimer(x) PROVE SaveInv'
  BY <1>25
     DEF SnoozeTimer, Types, TypeOK, ThreadsOK, StatesOK, SaveInv, Saving, Target, Content,
         Versions, Places, RunPlaces, Goto, Keep, SetRt, data, actors, Actors
<1>26. ASSUME NEW x \in Actors, Raise(x) PROVE SaveInv'
  BY <1>26
     DEF Raise, Types, TypeOK, ThreadsOK, StatesOK, SaveInv, Saving, Target, Content,
         Versions, Places, RunPlaces, Goto, Keep, SetRt, data, actors, Actors
<1>27. CASE SharedPath
  BY <1>27
     DEF SharedPath, Types, TypeOK, ThreadsOK, StatesOK, SaveInv, Saving, Target, Content,
         Versions, Places, RunPlaces, Goto, Keep, SetRt, data, actors, Actors
<1>28. QED
  BY <1>1, <1>2, <1>3, <1>4, <1>5, <1>6, <1>7, <1>8, <1>9, <1>10, <1>11, <1>12, <1>13, <1>14,
     <1>15, <1>16, <1>17, <1>18, <1>19, <1>20, <1>21, <1>22, <1>23, <1>24, <1>25,
     <1>26, <1>27
     DEF Next, Edit, Call

-----------------------------------------------------------------------------
\* All of it together is inductive.
THEOREM Invariant == Spec => []IInv
<1>1. IInv /\ [Next]_vars => IInv'
  <2> SUFFICES ASSUME IInv, [Next]_vars PROVE IInv'
    OBVIOUS
  <2>1. TypeOK' /\ ThreadsOK' /\ StatesOK'
    BY NextTypeOK, NextThreadsOK, NextStatesOK DEF IInv, Types
  <2>2. ActiveHasActor' /\ RunsApart' /\ RunReachable' /\ SaveInv'
    BY NextActive, NextRuns, NextSave DEF IInv
  <2>3. QED
    BY <2>1, <2>2 DEF IInv, Types
<1>2. QED
  BY <1>1, InitHolds, PTL DEF Spec

\* Every variable has a value of its kind, and at most one actor is in a section
\* under the lock.
THEOREM TypeCorrect == Spec => []TypeOK
BY Invariant, PTL DEF IInv, Types

\* An alarm shown as running is run, and a snoozed one will wake up, whatever
\* requests, timers and runs come together; but for a state that was lost.
THEOREM NoAbandonedAlarm == Spec => []ActiveHasActor
BY Invariant, PTL DEF IInv

\* A run that no other has overlapped can be stopped through the API.
THEOREM RunsCanBeStopped == Spec => []RunReachable
BY Invariant, PTL DEF IInv

\* With no save under way the file is what the engine has in memory, but for the
\* ways of parting that are named.
THEOREM FileUpToDate == Spec => []FileIsMemory
<1>1. IInv => FileIsMemory
  BY DEF IInv, SaveInv, FileIsMemory
<1>2. QED
  BY <1>1, Invariant, PTL
=============================================================================

---------------------------- MODULE AlarmEngine ----------------------------
(***************************************************************************)
(* One alarm of the alarm engine: requests that create, update, delete,    *)
(* trigger, snooze and cancel it, the threads that run it and wait out its *)
(* snoozes, its file, and the restart of the process                       *)
(* (copilot_core/alarm/engine.py).  Everything the engine keeps is keyed   *)
(* by the alarm; its file is too, but names that differ in other than      *)
(* letters, digits, - and _ share one.  The scheduler thread is left out:  *)
(* nothing in the repository starts it.                                    *)
(*                                                                         *)
(* A configuration is abstracted to a version number, enabled and          *)
(* one_shot; lights, music and progress are left out, but not that calls   *)
(* for them may raise.                                                     *)
(***************************************************************************)
EXTENDS Naturals

CONSTANTS
  Editors, Callers,  \* threads of requests that change the alarm, that act on it
  Timers,            \* threads of snoozes
  Runs,              \* threads that execute the alarm; an ended one is reused
  MaxVersions,       \* bound on the configurations created
  OneShot,           \* those with one_shot
  Off,               \* those posted with enabled FALSE
  None, Torn

Actors == Editors \cup Callers \cup Timers
ASSUME ActorsAssumption ==
  /\ (Editors \cup Callers) \cap Timers = {} /\ Actors \cap Runs = {}
  /\ {None, Torn} \cap (Actors \cup Runs) = {}
ASSUME VersionsAssumption == MaxVersions \in Nat /\ OneShot \cup Off \subseteq 1 .. MaxVersions
AlarmStates == {"idle", "armed", "running", "snoozed", "cancelled", "completed"}
ASSUME MarksAssumption ==
  /\ None \notin 1 .. MaxVersions /\ None \notin AlarmStates /\ None # Torn
  /\ {None, Torn} \cap ((1 .. MaxVersions) \X BOOLEAN) = {}

VARIABLES
  config,     \* the version in _alarms, or None
  disabled,   \* versions whose enabled a one-shot run has set to FALSE
  versions,   \* number of versions so far
  rt,         \* state in _runtimes, or None
  stops,      \* the run whose event is in _exec_stops, or None
  run,        \* each execution thread: where it is, its config, its event
  at, got,    \* where each actor is, and the version it works with
  lock,       \* the actor that holds _lock across steps, or None
  fresh,      \* the runtime the holder has read is still the one in _runtimes
  file,       \* the alarm's file: None, <<version, enabled>>, or Torn: holding
              \* no configuration of this alarm
  dirty,      \* history: file and memory parted in a way the code knows
  lost,       \* history: the last state written went to a replaced runtime, or
              \* the snooze that wrote it has failed
  overlapped  \* history: runs that overlapped another, or began after a delete

data == <<config, disabled, versions>>
actors == <<at, got, lock, fresh>>
vars == <<data, rt, stops, run, actors, file, dirty, lost, overlapped>>

Goto(x, l) == at' = [at EXCEPT ![x] = l]
Keep(x, v) == got' = [got EXCEPT ![x] = v]
NoRun == [pc |-> "none", cfg |-> None, stopped |-> FALSE]
Alive == {r \in Runs : run[r].pc # "none"}
Triggering == {x \in Actors : at[x] \in {"runtime", "start"}}
\* Threads between a change of the configuration and its effect on the file.
Saving == {x \in Actors : at[x] \in {"arm", "open", "write", "remove"}}
          \cup {r \in Runs : run[r].pc = "write"}
Content(v) == <<v, v \notin disabled \cup Off>>
SetRt(s) == rt' = s /\ lost' = FALSE
\* _exec_stops[alarm_id].set(), if there is one
StopRun == run' = IF stops = None THEN run ELSE [run EXCEPT ![stops].stopped = TRUE]

-----------------------------------------------------------------------------
(* create_alarm(), update_alarm(), delete_alarm() *)

NewVersion(x) ==
  /\ at[x] = "idle" /\ lock = None
  /\ versions < MaxVersions
  /\ versions' = versions + 1
  /\ config' = versions'
  /\ Keep(x, versions')
  /\ dirty' = (dirty \/ Saving # {})

\* The client may name the alarm, so one that exists may be created again.
Create(x) ==
  /\ NewVersion(x)
  /\ SetRt("armed")
  /\ Goto(x, "open")
  /\ UNCHANGED <<disabled, stops, run, lock, fresh, file, overlapped>>

Update(x) ==
  /\ config # None
  /\ NewVersion(x)
  /\ IF rt \in {"running", "snoozed"}
     THEN Goto(x, "open") /\ UNCHANGED lock
     ELSE Goto(x, "arm") /\ lock' = x
  /\ UNCHANGED <<disabled, rt, stops, run, fresh, file, lost, overlapped>>

\* A trigger does not take the lock: it may have come in between.
UpdateArm(x) ==
  /\ at[x] = "arm"
  /\ SetRt("armed")
  /\ lock' = None
  /\ Goto(x, "open")
  /\ UNCHANGED <<data, stops, run, got, fresh, file, dirty, overlapped>>

\* Mutant of Delete: the run of the deleted alarm is not stopped.
DeleteOnly(x) ==
  /\ at[x] = "idle" /\ lock = None /\ config # None
  /\ config' = None
  /\ SetRt(None)
  /\ UNCHANGED run
  /\ dirty' = (dirty \/ Saving # {})
  /\ Goto(x, "remove")
  /\ UNCHANGED <<disabled, versions, stops, got, lock, fresh, file, overlapped>>

\* A trigger in the midst of this section leaves the same run as one after it.
Delete(x) ==
  /\ at[x] = "idle" /\ lock = None /\ config # None
  /\ config' = None
  /\ SetRt(None)
  /\ StopRun
  /\ dirty' = (dirty \/ Saving # {})
  /\ Goto(x, "remove")
  /\ UNCHANGED <<disabled, versions, stops, got, lock, fresh, file, overlapped>>

\* os.remove() may raise, and nothing is undone.
Remove(x) ==
  /\ at[x] = "remove"
  /\ \/ file' = None /\ dirty' = (dirty /\ (Saving # {x} \/ config # None))
     \/ file # None /\ dirty' = TRUE /\ UNCHANGED file
  /\ Goto(x, "idle")
  /\ UNCHANGED <<data, rt, stops, run, got, lock, fresh, lost, overlapped>>

\* _save_config() by x of version v: the file is truncated, then written; an
\* error in either is logged and forgotten.  Two writers may leave a mixture, and
\* what is written to a file that was removed meanwhile is lost.
Truncate == file' = Torn /\ UNCHANGED dirty
SaveFails == dirty' = TRUE /\ UNCHANGED file
SaveWrite(x, v) ==
  \/ file # None /\ file' = Content(v) /\ dirty' = (dirty /\ (Saving # {x} \/ config # v))
  \/ file' \in {file, IF file = None THEN None ELSE Torn} /\ dirty' = TRUE

Open(x) ==
  /\ at[x] = "open"
  /\ \/ Truncate /\ Goto(x, "write") /\ UNCHANGED got
     \/ SaveFails /\ Goto(x, "idle") /\ Keep(x, None)
  /\ UNCHANGED <<data, rt, stops, run, lock, fresh, lost, overlapped>>

Write(x) ==
  /\ at[x] = "write"
  /\ SaveWrite(x, got[x])
  /\ Goto(x, "idle")
  /\ Keep(x, None)
  /\ UNCHANGED <<data, rt, stops, run, lock, fresh, lost, overlapped>>

\* An alarm whose name leads to the same path is saved or deleted.
SharedPath ==
  /\ file' \in {None, Torn}
  /\ dirty' = TRUE
  /\ UNCHANGED <<data, rt, stops, run, actors, lost, overlapped>>

-----------------------------------------------------------------------------
(* trigger_alarm() and _trigger_alarm(), which holds no lock *)

\* The check under the lock and the read of the configuration: if that is gone
\* in between, the request fails as it would have before.
Trigger(x) ==
  /\ at[x] = "idle" /\ lock = None /\ config # None
  /\ Keep(x, config)
  /\ Goto(x, "runtime")
  /\ UNCHANGED <<data, rt, stops, run, lock, fresh, file, dirty, lost, overlapped>>

NewRuntime(x) ==
  /\ at[x] = "runtime"
  /\ SetRt("running")
  /\ fresh' = FALSE
  /\ Goto(x, "start")
  /\ UNCHANGED <<data, stops, run, got, lock, file, dirty, overlapped>>

Start(x) ==
  /\ at[x] = "start"
  /\ \E r \in Runs \ Alive :
       /\ stops' = r
       /\ run' = [run EXCEPT ![r] = [pc |-> "step", cfg |-> got[x], stopped |-> FALSE]]
       /\ overlapped' = (overlapped \ {r})
            \cup (IF Alive # {} THEN Alive \cup {r} ELSE {})
            \cup (IF config = None THEN {r} ELSE {})
  /\ Goto(x, "idle")
  /\ Keep(x, None)
  /\ UNCHANGED <<data, rt, lock, fresh, file, dirty, lost>>

-----------------------------------------------------------------------------
(* snooze_alarm() and cancel_alarm(): the lock does not keep triggers out, so  *)
(* the runtime read first may be replaced before its state is written.         *)

Locked(x, l) == at[x] = "idle" /\ lock = None /\ config # None
                /\ lock' = x /\ fresh' = TRUE /\ Goto(x, l)

Snooze(x) ==
  /\ rt \in {"running", "snoozed"}
  /\ \E s \in Timers : at[s] = "idle"
  /\ Locked(x, "snooze")
  /\ UNCHANGED <<data, rt, stops, run, got, file, dirty, lost, overlapped>>

Cancel(x) ==
  /\ rt # None
  /\ Locked(x, "cancel")
  /\ UNCHANGED <<data, rt, stops, run, got, file, dirty, lost, overlapped>>

StopAndMark(x, from, state) ==
  /\ at[x] = from
  /\ StopRun
  /\ IF fresh THEN SetRt(state) ELSE lost' = TRUE /\ UNCHANGED rt
  /\ lock' = None /\ fresh' = FALSE
  /\ UNCHANGED <<data, stops, got, file, dirty, overlapped>>

CancelMark(x) == StopAndMark(x, "cancel", "cancelled") /\ Goto(x, "idle")

SnoozeMark(x) == StopAndMark(x, "snooze", "snoozed") /\ Goto(x, "timer")

\* The timer starts once lights and music are off; it sleeps first.
SnoozeTimer(x) ==
  /\ at[x] = "timer"
  /\ \E s \in Timers :
       at[s] = "idle" /\ at' = [at EXCEPT ![x] = "idle", ![s] = "sleep"]
  /\ UNCHANGED <<data, rt, stops, run, got, lock, fresh, file, dirty, lost, overlapped>>

\* A call for the music or a configuration of the wrong types raises: in a
\* snooze before its timer starts, in the timer, or in a trigger before it has
\* written the runtime.
Raise(x) ==
  /\ at[x] \in {"timer", "sleep", "runtime"}
  /\ lost' = (lost \/ rt = "snoozed")
  /\ Goto(x, "idle")
  /\ Keep(x, None)
  /\ UNCHANGED <<data, rt, stops, run, lock, fresh, file, dirty, overlapped>>

\* Mutant of Wake: a timer that finds the alarm not running goes away.
WakeRunning(s) ==
  /\ at[s] = "sleep" /\ lock = None
  /\ Goto(s, IF rt = "running" THEN "resume" ELSE "idle")
  /\ UNCHANGED <<data, rt, stops, run, got, lock, fresh, file, dirty, lost, overlapped>>

\* _snooze_resume(): the state is checked under the lock ...
Wake(s) ==
  /\ at[s] = "sleep" /\ lock = None
  /\ Goto(s, IF rt = "snoozed" THEN "resume" ELSE "idle")
  /\ UNCHANGED <<data, rt, stops, run, got, lock, fresh, file, dirty, lost, overlapped>>

\* ... and the alarm is triggered after its release.
Resume(s) ==
  /\ at[s] = "resume"
  /\ IF config = None THEN Goto(s, "idle") /\ UNCHANGED got
     ELSE Goto(s, "runtime") /\ Keep(s, config)
  /\ UNCHANGED <<data, rt, stops, run, lock, fresh, file, dirty, lost, overlapped>>

-----------------------------------------------------------------------------
(* _execute_alarm() *)

RunTo(r, l) == run' = [run EXCEPT ![r].pc = l]

\* The event is tested before each light step and waited for after it; any call
\* may raise; the last step leads to the end.
RunStep(r) ==
  /\ run[r].pc = "step"
  /\ IF run[r].stopped THEN RunTo(r, "finally") \/ RunTo(r, "failed")
     ELSE RunTo(r, "complete") \/ RunTo(r, "failed")
  /\ UNCHANGED <<data, rt, stops, actors, file, dirty, lost, overlapped>>

\* Whatever run the state belongs to; then the music's sleep timer is set, which
\* may raise, and a one-shot alarm is disabled.
RunComplete(r) ==
  /\ run[r].pc = "complete" /\ lock = None
  /\ IF rt = "running" THEN SetRt("completed") ELSE UNCHANGED <<rt, lost>>
  /\ \/ RunTo(r, IF run[r].cfg \in OneShot THEN "disable" ELSE "finally")
     \/ RunTo(r, "failed")
  /\ UNCHANGED <<data, stops, actors, file, dirty, overlapped>>

\* Mutant of RunDisable: the change is not saved.
RunDisableUnsaved(r) ==
  /\ run[r].pc = "disable"
  /\ disabled' = disabled \cup {run[r].cfg}
  /\ RunTo(r, "finally")
  /\ UNCHANGED <<config, versions, rt, stops, actors, file, dirty, lost, overlapped>>

\* The run's own configuration, which may have been replaced or deleted.
RunDisable(r) ==
  /\ run[r].pc = "disable"
  /\ disabled' = disabled \cup {run[r].cfg}
  /\ \/ file' = Torn /\ RunTo(r, "write")
        /\ dirty' = (dirty \/ Saving # {} \/ run[r].cfg # config)
     \/ SaveFails /\ RunTo(r, "finally")
  /\ UNCHANGED <<config, versions, rt, stops, actors, lost, overlapped>>

RunWrite(r) ==
  /\ run[r].pc = "write"
  /\ SaveWrite(r, run[r].cfg)
  /\ RunTo(r, "finally")
  /\ UNCHANGED <<data, rt, stops, actors, lost, overlapped>>

RunFailed(r) ==
  /\ run[r].pc = "failed" /\ lock = None
  /\ IF rt # None THEN SetRt("cancelled") ELSE UNCHANGED <<rt, lost>>
  /\ RunTo(r, "finally")
  /\ UNCHANGED <<data, stops, actors, file, dirty, overlapped>>

\* The event is removed by the alarm's name, whichever run it belongs to.
RunFinally(r) ==
  /\ run[r].pc = "finally"
  /\ stops' = None
  /\ run' = [run EXCEPT ![r] = NoRun]
  /\ overlapped' = overlapped \ {r}
  /\ UNCHANGED <<data, rt, actors, file, dirty, lost>>

-----------------------------------------------------------------------------
\* The process ends and _load_configs() reads what is in the file.
Restart ==
  /\ LET found == file \notin {None, Torn}
     IN  /\ config' = IF found THEN file[1] ELSE None
         /\ disabled' = IF found /\ ~file[2] THEN {file[1]} \ Off ELSE {}
         /\ rt' = IF ~found THEN None ELSE IF file[2] THEN "armed" ELSE "idle"
  /\ dirty' = (file = Torn)
  /\ stops' = None /\ lock' = None /\ fresh' = FALSE
  /\ lost' = FALSE /\ overlapped' = {}
  /\ run' = [r \in Runs |-> NoRun]
  /\ at' = [x \in Actors |-> "idle"]
  /\ got' = [x \in Actors |-> None]
  /\ UNCHANGED <<versions, file>>

Init ==
  /\ config = None /\ disabled = {} /\ versions = 0
  /\ rt = None /\ stops = None
  /\ run = [r \in Runs |-> NoRun]
  /\ at = [x \in Actors |-> "idle"] /\ got = [x \in Actors |-> None]
  /\ lock = None /\ fresh = FALSE
  /\ file = None
  /\ dirty = FALSE /\ lost = FALSE /\ overlapped = {}

Edit(x) ==
  \/ Create(x) \/ Update(x) \/ UpdateArm(x) \/ Delete(x) \/ Remove(x)
  \/ Open(x) \/ Write(x)

Call(x) ==
  \/ Trigger(x) \/ Snooze(x) \/ SnoozeMark(x) \/ SnoozeTimer(x)
  \/ Cancel(x) \/ CancelMark(x)

Next ==
  \/ \E x \in Editors : Edit(x)
  \/ \E x \in Callers : Call(x)
  \/ \E s \in Timers : Wake(s) \/ Resume(s)
  \/ \E x \in Actors : NewRuntime(x) \/ Start(x) \/ Raise(x)
  \/ \E r \in Runs : \/ RunStep(r) \/ RunComplete(r) \/ RunDisable(r)
                     \/ RunWrite(r) \/ RunFailed(r) \/ RunFinally(r)
  \/ SharedPath
  \/ Restart

Spec == Init /\ [][Next]_vars

-----------------------------------------------------------------------------
(* Properties *)

\* Every variable has a value of its kind, and at most one actor is in a section
\* under the lock.
TypeOK ==
  /\ versions \in 0 .. MaxVersions
  /\ config \in (1 .. versions) \cup {None}
  /\ disabled \subseteq OneShot
  /\ rt \in AlarmStates \cup {None}
  /\ stops \in Runs \cup {None} /\ overlapped \subseteq Runs
  /\ \A r \in Runs : (run[r].pc = "none") <=> (run[r].cfg = None)
  /\ \A x \in Actors : (at[x] \in {"arm", "snooze", "cancel"}) <=> (lock = x)
  /\ file \in {None, Torn} \cup ((1 .. versions) \X BOOLEAN)
  /\ {dirty, lost, fresh} \subseteq BOOLEAN

\* An alarm shown as running is being run or started, and a snoozed one will
\* wake up; except that a cancel or a snooze that lost its state to a trigger
\* leaves an alarm shown as running whose run it has stopped, and a snooze that
\* raises before its timer triggers leaves one that sleeps on.
ActiveHasActor ==
  /\ rt = "running" /\ ~lost =>
       \/ \E x \in Actors : at[x] = "start"
       \/ \E r \in Runs : \/ run[r].pc \in {"complete", "failed"}
                          \/ run[r].pc = "step" /\ ~run[r].stopped
  /\ rt = "snoozed" /\ ~lost =>
       \E x \in Actors : at[x] \in {"timer", "sleep", "resume", "runtime"}

\* A run that nobody has stopped can be stopped through the API, unless another
\* run of the alarm overlapped it or the alarm was deleted while it started.
RunReachable ==
  \A r \in Runs \ overlapped :
    run[r].pc = "step" /\ ~run[r].stopped => stops = r /\ config # None

\* While no save is under way the file is what the engine has in memory, unless
\* two saves overlapped, one failed or the removal did, another alarm shares the
\* path, or a one-shot run saved a configuration that had been replaced or
\* deleted meanwhile.
FileIsMemory ==
  Saving = {} /\ ~dirty => file = (IF config = None THEN None ELSE Content(config))
=============================================================================

------------------------- MODULE AutonomyExecutor -------------------------
(***************************************************************************)
(* From a mood to a lamp: threads evaluate the neurons, a change of the    *)
(* dominant mood is published on the integration bus, and the autonomy     *)
(* executor, called by the publisher's own thread, checks the zone's mode, *)
(* the module states and its cooldown before it acts (copilot_core:        *)
(* neurons/manager.py, integration/bus.py, module_registry.py,             *)
(* hub/zone_automation.py, autonomy/executor.py).                          *)
(*                                                                         *)
(* A mood stands for the actions of its table; the actions of a call are   *)
(* abstracted to whether one of them was executed.  The executor's other   *)
(* handler, for presence.changed, is left out: nothing in the repository   *)
(* publishes that event.                                                   *)
(***************************************************************************)
EXTENDS ModuleRegistry, Naturals, Sequences, FiniteSets

CONSTANTS
  Threads,
  Moods,
  Targets,          \* zones with lights or music, <<zone, module>>, in order
  LightTargets,     \* those of them with lights
  Musical,          \* moods whose table plays or pauses music
  NoMood,
  MaxEvaluations,   \* bound on the evaluations of a behaviour
  MaxChanges        \* bound on the configuration changes

Modes == {"off", "learning", "autonomy"}   \* AUTOMATION_MODES

ASSUME NoMoodAssumption == NoMood \notin Moods
ASSUME ThreadsAssumption == IsFiniteSet(Threads)
ASSUME SourceAssumption == "mood" \in Modules
ASSUME TargetsAssumption ==
  /\ Targets \in Seq(Zones \X (Modules \cap {"licht", "musik"}))
  /\ LightTargets \in Seq(Zones \X (Modules \cap {"licht"}))

VARIABLES
  zoneMode,       \* automation_mode of each zone's configuration
  lastMood,       \* dominant_mood of the manager's _last_result
  pc, mood,       \* where each thread is, and the mood it found dominant
  work,           \* the <<zone, module>> its handler has still to decide on
  reads,          \* module states read for the first of them
  done,           \* whether one of its actions was executed
  cooling,        \* keys of _rate_limits younger than 30 s
  stats,          \* _stats
  deadLetters,    \* handlers that raised, as the bus counts them
  evaluations, changes,   \* counters for the bounds
  was,            \* history: roles that were active since its first read
  known,          \* history: the mood a subscriber of mood.changed knows of
  crossed         \* history: evaluations overlapped since known = lastMood

manager == <<lastMood, evaluations, known, crossed>>
config == <<registry, zoneMode, changes>>
thread == <<pc, mood, work, reads, done, was>>
vars == <<config, manager, thread, cooling, stats, deadLetters>>

Source == "mood"
Key(t) == Head(work[t])
Goto(t, l) == pc' = [pc EXCEPT ![t] = l]
Count(c) == stats' = [stats EXCEPT ![c] = @ + 1]
Evaluating == {t \in Threads : pc[t] # "idle"}

\* The module a role stands for in the decision that t is taking.
ModuleOf(t, role) == IF role = "source" THEN Source ELSE Key(t)[2]
\* The roles in force as active, for each zone and target.
InForce == [k \in Zones \X Modules |->
  {role \in {"source", "target"} :
     ZoneState(k[1], IF role = "source" THEN Source ELSE k[2]) = "active"}]
\* Threads that have begun to read module states and have not yet acted.
Deciding == {t \in Threads : pc[t] \in {"read", "global", "limit", "act"}}

-----------------------------------------------------------------------------
(* Configuration through the API *)

Change == changes < MaxChanges /\ changes' = changes + 1

SetModule ==
  /\ Change
  /\ \E m \in Modules, s \in States :
       SetState(m, s) \/ \E z \in Zones : SetZoneState(z, m, s)
  /\ was' = [t \in Threads |->
               IF t \in Deciding THEN was[t] \cup InForce'[Key(t)] ELSE was[t]]
  /\ UNCHANGED <<zoneMode, manager, pc, mood, work, reads, done, cooling, stats, deadLetters>>

SetAutomationMode ==
  /\ Change
  /\ \E z \in Zones, a \in Modes : zoneMode' = [zoneMode EXCEPT ![z] = a]
  /\ UNCHANGED <<registry, manager, thread, cooling, stats, deadLetters>>

-----------------------------------------------------------------------------
(* NeuronManager.evaluate() *)

\* Commands of a mood: the lights of every zone, and the music.
Commands(m) == IF m \in Musical THEN Targets ELSE LightTargets

\* m is dominant: the first result announces nothing, another mood is published
\* and handled before the result is stored.
Evaluate(t, m) ==
  /\ pc[t] = "idle"
  /\ evaluations < MaxEvaluations
  /\ evaluations' = evaluations + 1
  /\ mood' = [mood EXCEPT ![t] = m]
  /\ crossed' = (crossed \/ Evaluating # {})
  /\ IF lastMood # NoMood /\ lastMood # m
     THEN /\ known' = m
          /\ work' = [work EXCEPT ![t] = Commands(m)]
          /\ Goto(t, IF Commands(m) = <<>> THEN "store" ELSE "mode")
     ELSE /\ known' = IF known = NoMood THEN m ELSE known
          /\ Goto(t, "store")
          /\ UNCHANGED work
  /\ UNCHANGED <<config, lastMood, reads, done, was, cooling, stats, deadLetters>>

StoreResult(t) ==
  /\ pc[t] = "store"
  /\ lastMood' = mood[t]
  /\ mood' = [mood EXCEPT ![t] = NoMood]
  /\ Goto(t, "idle")
  /\ crossed' = (crossed /\ (Evaluating # {t} \/ lastMood' # known))
  /\ UNCHANGED <<config, evaluations, known, work, reads, done, was, cooling, stats, deadLetters>>

-----------------------------------------------------------------------------
(* execute_if_allowed() *)

\* Mutant of Return: the first decision also ends the handler.
ReturnEnds(t) ==
  /\ work' = [work EXCEPT ![t] = Tail(@)]
  /\ reads' = [reads EXCEPT ![t] = <<>>]
  /\ done' = [done EXCEPT ![t] = FALSE]
  /\ was' = [was EXCEPT ![t] = {}]
  /\ Goto(t, "store")

\* It returns, and the handler goes on to the next zone or module.
Return(t) ==
  /\ work' = [work EXCEPT ![t] = Tail(@)]
  /\ reads' = [reads EXCEPT ![t] = <<>>]
  /\ done' = [done EXCEPT ![t] = FALSE]
  /\ was' = [was EXCEPT ![t] = {}]
  /\ Goto(t, IF Len(work[t]) = 1 THEN "store" ELSE "mode")

CheckMode(t) ==
  /\ pc[t] = "mode"
  /\ LET mode == zoneMode[Key(t)[1]]
     IN  IF mode = "autonomy"
         THEN /\ Count("total_events")
              /\ Goto(t, "read")
              /\ was' = [was EXCEPT ![t] = InForce[Key(t)]]
              /\ UNCHANGED <<work, reads, done>>
         ELSE /\ stats' = [stats EXCEPT !["total_events"] = @ + 1,
                                        ![IF mode = "off" THEN "skipped" ELSE "suggested"] = @ + 1]
              /\ Return(t)
  /\ UNCHANGED <<config, manager, mood, cooling, deadLetters>>

\* The four get_zone_state() calls: two of execute_if_allowed(), two of
\* should_auto_apply_zone().
Roles == <<"target", "source", "source", "target">>
Reading(t) == ModuleOf(t, Roles[Len(reads[t]) + 1])

\* Mutant of Verdict: the second pair of reads is not made.
VerdictOnce(r) ==
  IF Len(r) < 2 THEN "read"
  ELSE IF \E i \in 1 .. 2 : r[i] = "off" THEN "skipped"
  ELSE IF \E i \in 1 .. 2 : r[i] = "learning" THEN "suggested"
  ELSE "limit"

Verdict(r) ==
  IF Len(r) \in {1, 3} THEN "read"
  ELSE IF \E i \in 1 .. 2 : r[i] = "off" THEN "skipped"
  ELSE IF \E i \in DOMAIN r : r[i] # "active" THEN "suggested"
  ELSE IF Len(r) = 2 THEN "read" ELSE "limit"

Got(t, s) ==
  LET r == Append(reads[t], s)
  IN  IF Verdict(r) \in {"skipped", "suggested"}
      THEN Count(Verdict(r)) /\ Return(t)
      ELSE /\ reads' = [reads EXCEPT ![t] = r]
           /\ Goto(t, Verdict(r))
           /\ UNCHANGED <<stats, work, done, was>>

\* get_zone_state(), under the lock: the zone's row if it has one ...
ReadZoneRow(t) ==
  /\ pc[t] = "read"
  /\ IF zoneRow[Key(t)[1]][Reading(t)] # NoRow
     THEN Got(t, zoneRow[Key(t)[1]][Reading(t)])
     ELSE Goto(t, "global") /\ UNCHANGED <<stats, work, reads, done, was>>
  /\ UNCHANGED <<config, manager, mood, cooling, deadLetters>>

\* ... and else, under the lock again, the module's.
ReadModuleRow(t) ==
  /\ pc[t] = "global"
  /\ Got(t, GlobalState(Reading(t)))
  /\ UNCHANGED <<config, manager, mood, cooling, deadLetters>>

\* Mutant of ReadFails: the bus lets the exception through to evaluate().
ReadFailsThrough(t) ==
  /\ pc[t] \in {"read", "global"}
  /\ deadLetters' = deadLetters + 1
  /\ mood' = [mood EXCEPT ![t] = NoMood]
  /\ work' = [work EXCEPT ![t] = <<>>]
  /\ reads' = [reads EXCEPT ![t] = <<>>]
  /\ was' = [was EXCEPT ![t] = {}]
  /\ Goto(t, "idle")
  /\ UNCHANGED <<config, manager, done, cooling, stats>>

\* The database is locked: the exception leaves the handler, the bus keeps a
\* dead letter, and what the handler had still to do is dropped.
ReadFails(t) ==
  /\ pc[t] \in {"read", "global"}
  /\ deadLetters' = deadLetters + 1
  /\ work' = [work EXCEPT ![t] = <<>>]
  /\ reads' = [reads EXCEPT ![t] = <<>>]
  /\ was' = [was EXCEPT ![t] = {}]
  /\ Goto(t, "store")
  /\ UNCHANGED <<config, manager, mood, done, cooling, stats>>

CheckCooldown(t) ==
  /\ pc[t] = "limit"
  /\ IF Key(t) \in cooling
     THEN Count("skipped") /\ Return(t)
     ELSE Goto(t, "act") /\ UNCHANGED <<stats, work, reads, done, was>>
  /\ UNCHANGED <<config, manager, mood, cooling, deadLetters>>

\* One action: it succeeds, fails, or is of a type the executor ignores.
Act(t) ==
  /\ pc[t] = "act"
  /\ \E executed \in BOOLEAN : done' = [done EXCEPT ![t] = @ \/ executed]
  /\ \/ UNCHANGED <<pc, was>>
     \/ Goto(t, "record") /\ was' = [was EXCEPT ![t] = {}]
  /\ UNCHANGED <<config, manager, mood, work, reads, cooling, stats, deadLetters>>

\* _record_execution(): whatever became of the actions
Record(t) ==
  /\ pc[t] = "record"
  /\ cooling' = cooling \cup {Key(t)}
  /\ Goto(t, "count")
  /\ UNCHANGED <<config, manager, mood, work, reads, done, was, stats, deadLetters>>

\* Mutant of CountOutcome: a call whose actions all failed is not counted.
CountExecuted(t) ==
  /\ pc[t] = "count"
  /\ stats' = [stats EXCEPT !["executed"] = @ + (IF done[t] THEN 1 ELSE 0)]
  /\ Return(t)
  /\ UNCHANGED <<config, manager, mood, cooling, deadLetters>>

\* The outcome, the log, and autonomy.executed for those who subscribe
CountOutcome(t) ==
  /\ pc[t] = "count"
  /\ Count(IF done[t] THEN "executed" ELSE "skipped")
  /\ Return(t)
  /\ UNCHANGED <<config, manager, mood, cooling, deadLetters>>

\* Thirty seconds have passed since an execution was recorded.
CoolDown ==
  /\ \E k \in cooling : cooling' = cooling \ {k}
  /\ UNCHANGED <<config, manager, thread, stats, deadLetters>>

-----------------------------------------------------------------------------
Init ==
  /\ RegistryInit
  /\ zoneMode = [z \in Zones |-> "autonomy"]
  /\ lastMood = NoMood /\ known = NoMood /\ crossed = FALSE
  /\ pc = [t \in Threads |-> "idle"]
  /\ mood = [t \in Threads |-> NoMood]
  /\ work = [t \in Threads |-> <<>>]
  /\ reads = [t \in Threads |-> <<>>]
  /\ done = [t \in Threads |-> FALSE]
  /\ was = [t \in Threads |-> {}]
  /\ cooling = {}
  /\ stats = [c \in {"total_events", "executed", "suggested", "skipped"} |-> 0]
  /\ deadLetters = 0
  /\ evaluations = 0 /\ changes = 0

Step(t) ==
  \/ StoreResult(t)
  \/ CheckMode(t)
  \/ ReadZoneRow(t)
  \/ ReadModuleRow(t)
  \/ ReadFails(t)
  \/ CheckCooldown(t)
  \/ Act(t)
  \/ Record(t)
  \/ CountOutcome(t)

Next ==
  \/ \E t \in Threads : Step(t) \/ \E m \in Moods : Evaluate(t, m)
  \/ SetModule
  \/ SetAutomationMode
  \/ CoolDown

Spec == Init /\ [][Next]_vars

-----------------------------------------------------------------------------
(* Properties *)

\* Every variable has a value of its kind; a thread has work exactly while its
\* handler runs.
TypeOK ==
  /\ moduleRow \in [Modules -> States \cup {NoRow}]
  /\ zoneRow \in [Zones -> [Modules -> States \cup {NoRow}]]
  /\ zoneMode \in [Zones -> Modes]
  /\ lastMood \in Moods \cup {NoMood} /\ known \in Moods \cup {NoMood}
  /\ pc \in [Threads -> {"idle", "store", "mode", "read", "global", "limit",
                         "act", "record", "count"}]
  /\ \A t \in Threads :
       /\ mood[t] \in (IF pc[t] = "idle" THEN {NoMood} ELSE Moods)
       /\ (work[t] # <<>>) <=> (pc[t] \notin {"idle", "store"})
       /\ Len(reads[t]) <= 4 /\ (pc[t] \in {"read", "global"} => Len(reads[t]) < 4)
       /\ done[t] \in BOOLEAN /\ was[t] \subseteq {"source", "target"}
  /\ cooling \subseteq Zones \X Modules
  /\ \A c \in DOMAIN stats : stats[c] \in Nat
  /\ deadLetters \in Nat /\ crossed \in BOOLEAN

\* A call acts only if the source and the target were each in force as active in
\* the zone at some moment of the call.  One pair of reads does not ensure it: an
\* override set between the read of the zone's row and that of the module's row
\* lets a call see a global "active" that never applied to the zone.
ActedOnlyIfWasActive == \A t \in Threads : pc[t] = "act" => was[t] = {"source", "target"}

\* Each call the executor counts is counted as executed, suggested or skipped
\* once it has returned, or left a dead letter.
StatsExact ==
  stats["total_events"] = stats["executed"] + stats["suggested"] + stats["skipped"]
    + deadLetters + Cardinality({t \in Threads : pc[t] \notin {"idle", "store", "mode"}})

\* While no evaluation runs, the mood of the last result, which the API shows,
\* is the one last announced on the bus, unless evaluations have overlapped: two
\* of them compare with the same previous result and store in either order.
MoodAnnounced == Evaluating = {} /\ ~crossed => known = lastMood
=============================================================================

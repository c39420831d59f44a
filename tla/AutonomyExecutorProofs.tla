----------------------- MODULE AutonomyExecutorProofs -----------------------
(***************************************************************************)
(* Proofs about AutonomyExecutor for any threads, zones, modules, moods    *)
(* and number of evaluations and configuration changes.                    *)
(***************************************************************************)
EXTENDS AutonomyExecutor, FiniteSetTheorems, SequenceTheorems, TLAPS

Counters == {"total_events", "executed", "suggested", "skipped"}

\* What TypeOK leaves open of the variables of the threads.
ThreadOK ==
  /\ mood \in [Threads -> Moods \cup {NoMood}]
  /\ work \in [Threads -> Seq(Zones \X Modules)]
  /\ reads \in [Threads -> Seq(States)]
  /\ done \in [Threads -> BOOLEAN]
  /\ was \in [Threads -> SUBSET {"source", "target"}]
  /\ stats \in [Counters -> Nat]
  /\ evaluations \in Nat /\ changes \in Nat
  /\ \A t \in Threads : pc[t] \in {"idle", "store", "mode"} => reads[t] = <<>>

\* Has the role of a first read been in force, or has the zone a row by now?
Explained(t, role) ==
  role \in was[t] \/ zoneRow[Key(t)[1]][ModuleOf(t, role)] # NoRow

\* The roles in force at any moment of a decision are in its history.  An "active"
\* of the first pair of reads was in force unless an override came in between; of
\* the second pair it was in force for certain, for an override that came in
\* between would have been read.
DecisionExplained(t) ==
  /\ InForce[Key(t)] \subseteq was[t]
  /\ \A i \in 1 .. Len(reads[t]) : reads[t][i] = "active" =>
       IF i <= 2 THEN Explained(t, Roles[i]) ELSE Roles[i] \in was[t]
  /\ Len(reads[t]) >= 2 => reads[t][1] = "active" /\ reads[t][2] = "active"
  /\ pc[t] = "global" /\ Len(reads[t]) >= 2 => Roles[Len(reads[t]) + 1] \in was[t]
  /\ pc[t] \in {"limit", "act"} =>
       Len(reads[t]) = 4 /\ \A i \in 1 .. 4 : reads[t][i] = "active"

ReadsExplained == \A t \in Deciding : DecisionExplained(t)

\* Without overlap one evaluation at most runs, with the mood announced last.
OneEvaluation ==
  ~crossed => /\ Evaluating = {} => known = lastMood
              /\ \A t \in Evaluating : Evaluating = {t} /\ mood[t] = known

Types == TypeOK /\ ThreadOK
IInv == Types /\ ReadsExplained /\ StatsExact /\ OneEvaluation

-----------------------------------------------------------------------------
\* The call a thread is at is of a zone and a module.
LEMMA KeyType ==
  ASSUME Types, NEW t \in Threads, pc[t] \notin {"idle", "store"}
  PROVE  /\ work[t] \in Seq(Zones \X Modules) /\ work[t] # <<>>
         /\ Key(t) \in Zones \X Modules
         /\ Tail(work[t]) \in Seq(Zones \X Modules)
         /\ (Tail(work[t]) = <<>>) <=> (Len(work[t]) = 1)
<1>1. work[t] \in Seq(Zones \X Modules) /\ work[t] # <<>>
  BY DEF Types, TypeOK, ThreadOK
<1>2. Len(work[t]) \in Nat \ {0} /\ Head(work[t]) \in Zones \X Modules
      /\ Tail(work[t]) \in Seq(Zones \X Modules)
      /\ Len(Tail(work[t])) = Len(work[t]) - 1
  BY <1>1, EmptySeq, HeadTailProperties
<1>3. (Tail(work[t]) = <<>>) <=> (Len(Tail(work[t])) = 0)
  BY <1>2, EmptySeq
<1>4. QED
  BY <1>1, <1>2, <1>3 DEF Key

\* The modules that a call asks for have states.
LEMMA StatesType ==
  ASSUME Types
  PROVE  /\ \A m \in Modules : GlobalState(m) \in States
         /\ \A t \in Threads : pc[t] \notin {"idle", "store"} =>
              \A role : ModuleOf(t, role) \in Modules
<1>1. \A m \in Modules : GlobalState(m) \in States
  BY DEF Types, TypeOK, GlobalState, States
<1>2. ASSUME NEW t \in Threads, pc[t] \notin {"idle", "store"}, NEW role
      PROVE  ModuleOf(t, role) \in Modules
  BY <1>2, KeyType, SourceAssumption DEF ModuleOf, Source
<1>3. QED
  BY <1>1, <1>2

\* What Return makes of the variables of the thread and leaves of the others.
LEMMA ReturnAt ==
  ASSUME Types, NEW t \in Threads, pc[t] \notin {"idle", "store"}, Return(t)
  PROVE  /\ pc' = [pc EXCEPT ![t] = pc'[t]] /\ pc'[t] \in {"store", "mode"}
         /\ work' \in [Threads -> Seq(Zones \X Modules)]
         /\ (work'[t] # <<>>) <=> (pc'[t] = "mode")
         /\ reads' = [reads EXCEPT ![t] = <<>>]
         /\ done' = [done EXCEPT ![t] = FALSE]
         /\ was' = [was EXCEPT ![t] = {}]
         /\ \A u \in Threads \ {t} : work'[u] = work[u]
BY KeyType DEF Return, Goto, Types, TypeOK, ThreadOK

\* Counting changes one counter of the executor, by one.
LEMMA CountAt ==
  ASSUME Types, NEW c \in Counters, Count(c)
  PROVE  /\ stats' \in [Counters -> Nat]
         /\ stats'[c] = stats[c] + 1
         /\ \A d \in Counters \ {c} : stats'[d] = stats[d]
BY DEF Count, Types, ThreadOK

\* The verdict on what was read, one read more than before.
LEMMA VerdictAt ==
  ASSUME Types, NEW t \in Threads, pc[t] \in {"read", "global"}, NEW s \in States
  PROVE  /\ Append(reads[t], s) \in Seq(States)
         /\ Len(Append(reads[t], s)) = Len(reads[t]) + 1
         /\ Len(reads[t]) \in Nat /\ Len(reads[t]) < 4
         /\ \A i \in 1 .. Len(reads[t]) : Append(reads[t], s)[i] = reads[t][i]
         /\ Append(reads[t], s)[Len(reads[t]) + 1] = s
         /\ Verdict(Append(reads[t], s)) \in {"skipped", "suggested", "read", "limit"}
         /\ Verdict(Append(reads[t], s)) = "read" => Len(reads[t]) < 3
         /\ Verdict(Append(reads[t], s)) = "limit" => Len(reads[t]) = 3
<1>1. reads[t] \in Seq(States) /\ Len(reads[t]) \in Nat /\ Len(reads[t]) < 4
  <2>1. reads[t] \in Seq(States)
    BY DEF Types, ThreadOK
  <2>2. Len(reads[t]) \in Nat
    BY <2>1, LenProperties
  <2>3. Len(reads[t]) < 4
    BY DEF Types, TypeOK
  <2>4. QED
    BY <2>1, <2>2, <2>3
<1> DEFINE r == Append(reads[t], s)
<1>2. /\ r \in Seq(States) /\ Len(r) = Len(reads[t]) + 1
      /\ \A i \in 1 .. Len(reads[t]) : r[i] = reads[t][i]
      /\ r[Len(reads[t]) + 1] = s
  BY <1>1, AppendProperties
<1>3. Verdict(r) \in {"skipped", "suggested", "read", "limit"}
  BY DEF Verdict
<1>4. Verdict(r) = "read" => Len(r) \in {1, 3} \/ Len(r) = 2
  BY DEF Verdict
<1>5. Verdict(r) = "limit" => Len(r) \notin {1, 2, 3}
  BY DEF Verdict
<1> HIDE DEF r
<1>6. (Verdict(r) = "read" => Len(reads[t]) < 3) /\ (Verdict(r) = "limit" => Len(reads[t]) = 3)
  <2>1. ASSUME NEW n \in Nat, n < 4, NEW m, m = n + 1
        PROVE  (m \in {1, 2, 3} => n < 3) /\ (m \notin {1, 2, 3} => n = 3)
    BY <2>1
  <2>2. (Len(r) \in {1, 2, 3} => Len(reads[t]) < 3) /\ (Len(r) \notin {1, 2, 3} => Len(reads[t]) = 3)
    BY <1>1, <1>2, <2>1
  <2>3. QED
    BY <1>4, <1>5, <2>2
<1>7. QED
  BY <1>1, <1>2, <1>3, <1>6 DEF r

\* A state that was read either decides the call or is kept.
LEMMA GotAt ==
  ASSUME Types, NEW t \in Threads, pc[t] \in {"read", "global"}, NEW s \in States, Got(t, s)
  PROVE  \/ /\ \E c \in {"skipped", "suggested"} : Count(c)
            /\ Return(t)
         \/ /\ reads' = [reads EXCEPT ![t] = Append(@, s)]
            /\ pc' = [pc EXCEPT ![t] = Verdict(Append(reads[t], s))]
            /\ Verdict(Append(reads[t], s)) \in {"read", "limit"}
            /\ UNCHANGED <<stats, work, done, was>>
BY VerdictAt DEF Got, Goto

-----------------------------------------------------------------------------
(* Types *)

\* The executor starts well typed.
LEMMA InitType == Init => Types
<1> SUFFICES ASSUME Init PROVE Types
  OBVIOUS
<1>1. /\ moduleRow \in [Modules -> States \cup {NoRow}]
      /\ zoneRow \in [Zones -> [Modules -> States \cup {NoRow}]]
      /\ zoneMode \in [Zones -> Modes]
  BY RowsAssumption DEF Init, RegistryInit, Modes
<1>5. Len(<<>>) = 0
  BY EmptySeq
<1>6. \A t \in Threads :
        /\ mood[t] \in (IF pc[t] = "idle" THEN {NoMood} ELSE Moods)
        /\ (work[t] # <<>>) <=> (pc[t] \notin {"idle", "store"})
        /\ Len(reads[t]) <= 4 /\ (pc[t] \in {"read", "global"} => Len(reads[t]) < 4)
        /\ done[t] \in BOOLEAN /\ was[t] \subseteq {"source", "target"}
  BY <1>5 DEF Init
<1>3. TypeOK
  BY <1>1, <1>6 DEF Init, TypeOK
<1>2. ThreadOK
  BY EmptySeq DEF Init, ThreadOK, Counters
<1>4. QED
  BY <1>2, <1>3 DEF Types

\* A step of a handler that returns from a call.
LEMMA ReturnType ==
  ASSUME Types, NEW t \in Threads, pc[t] \notin {"idle", "store"}, Return(t),
         UNCHANGED <<config, manager, mood, cooling, deadLetters>>,
         stats' \in [Counters -> Nat]
  PROVE  Types'
<1>1. /\ pc' = [pc EXCEPT ![t] = pc'[t]] /\ pc'[t] \in {"store", "mode"}
      /\ work' \in [Threads -> Seq(Zones \X Modules)]
      /\ (work'[t] # <<>>) <=> (pc'[t] = "mode")
      /\ reads' = [reads EXCEPT ![t] = <<>>]
      /\ done' = [done EXCEPT ![t] = FALSE]
      /\ was' = [was EXCEPT ![t] = {}]
      /\ \A u \in Threads \ {t} : work'[u] = work[u]
  BY ReturnAt
<1>2. ThreadOK'
  BY <1>1, EmptySeq DEF Types, TypeOK, ThreadOK, config, manager
<1>3. \A u \in Threads :
        /\ mood'[u] \in (IF pc'[u] = "idle" THEN {NoMood} ELSE Moods)
        /\ (work'[u] # <<>>) <=> (pc'[u] \notin {"idle", "store"})
        /\ Len(reads'[u]) <= 4 /\ (pc'[u] \in {"read", "global"} => Len(reads'[u]) < 4)
        /\ done'[u] \in BOOLEAN /\ was'[u] \subseteq {"source", "target"}
  <2> TAKE u \in Threads
  <2>1. CASE u = t
    BY <1>1, <2>1, EmptySeq DEF Types, TypeOK, ThreadOK
  <2>2. CASE u # t
    BY <1>1, <2>2 DEF Types, TypeOK, ThreadOK
  <2>3. QED
    BY <2>1, <2>2
<1>4. (\A c \in DOMAIN stats' : stats'[c] \in Nat)
      /\ pc' \in [Threads -> {"idle", "store", "mode", "read", "global", "limit",
                              "act", "record", "count"}]
  BY <1>1 DEF Types, TypeOK
<1>5. TypeOK'
  BY <1>3, <1>4 DEF Types, TypeOK, config, registry, manager
<1>6. QED
  BY <1>2, <1>5 DEF Types

\* A step of a handler that reads a state.
LEMMA GotType ==
  ASSUME Types, NEW t \in Threads, pc[t] \in {"read", "global"}, NEW s \in States, Got(t, s),
         UNCHANGED <<config, manager, mood, cooling, deadLetters>>
  PROVE  Types'
<1>1. CASE (\E c \in {"skipped", "suggested"} : Count(c)) /\ Return(t)
  BY <1>1, CountAt, ReturnType DEF Counters
<1>2. CASE /\ reads' = [reads EXCEPT ![t] = Append(@, s)]
           /\ pc' = [pc EXCEPT ![t] = Verdict(Append(reads[t], s))]
           /\ Verdict(Append(reads[t], s)) \in {"read", "limit"}
           /\ UNCHANGED <<stats, work, done, was>>
  <2> DEFINE r == Append(reads[t], s)
  <2>1. /\ r \in Seq(States) /\ Len(r) = Len(reads[t]) + 1 /\ Len(reads[t]) \in Nat /\ Len(reads[t]) < 4
        /\ Verdict(r) = "read" => Len(reads[t]) < 3
    BY VerdictAt
  <2> HIDE DEF r
  <2>2. /\ reads' = [reads EXCEPT ![t] = r]
        /\ pc' = [pc EXCEPT ![t] = Verdict(r)] /\ Verdict(r) \in {"read", "limit"}
    BY <1>2 DEF r
  <2>3. ThreadOK'
    BY <1>2, <2>1, <2>2 DEF Types, TypeOK, ThreadOK, config, manager
  <2>4. TypeOK'
    BY <1>2, <2>1, <2>2 DEF Types, TypeOK, ThreadOK, config, registry, manager
  <2>5. QED
    BY <2>3, <2>4 DEF Types
<1>3. QED
  BY <1>1, <1>2, GotAt

\* A thread that only goes from one place in a call to another.
LEMMA MoveType ==
  ASSUME Types, NEW t \in Threads, pc[t] \notin {"idle", "store", "mode"},
         NEW l \in {"global", "limit", "act", "record", "count"}, Goto(t, l),
         l = "global" => pc[t] \in {"read", "global"},
         UNCHANGED <<config, manager, mood, work, reads, stats, deadLetters>>,
         done' \in [Threads -> BOOLEAN], was' \in [Threads -> SUBSET {"source", "target"}],
         cooling' \subseteq Zones \X Modules
  PROVE  Types'
<1>1. ThreadOK'
  BY DEF Goto, Types, TypeOK, ThreadOK, config, manager
<1>2. TypeOK'
  BY DEF Goto, Types, TypeOK, ThreadOK, config, registry, manager
<1>3. QED
  BY <1>1, <1>2 DEF Types

\* Each step of handlers, evaluations and the API keeps the types.
LEMMA NextType == Types /\ [Next]_vars => Types'
<1> SUFFICES ASSUME Types, [Next]_vars PROVE Types'
  OBVIOUS
<1>1. CASE SetModule
  <2>1. PICK m \in Modules, u \in States :
          SetState(m, u) \/ \E z \in Zones : SetZoneState(z, m, u)
    BY <1>1 DEF SetModule
  <2>2. moduleRow' \in [Modules -> States \cup {NoRow}]
        /\ zoneRow' \in [Zones -> [Modules -> States \cup {NoRow}]]
    <3>1. CASE SetState(m, u)
      BY <3>1 DEF SetState, Types, TypeOK
    <3>2. ASSUME NEW z \in Zones, SetZoneState(z, m, u)
          PROVE  /\ moduleRow' \in [Modules -> States \cup {NoRow}]
                 /\ zoneRow' \in [Zones -> [Modules -> States \cup {NoRow}]]
      BY <3>2 DEF SetZoneState, Types, TypeOK
    <3>3. QED
      BY <2>1, <3>1, <3>2
  <2>3. was' \in [Threads -> SUBSET {"source", "target"}]
    <3>1. \A k \in Zones \X Modules : InForce'[k] \subseteq {"source", "target"}
      BY DEF InForce
    <3>2. \A t \in Deciding : Key(t) \in Zones \X Modules
      BY KeyType DEF Deciding
    <3>3. QED
      BY <1>1, <3>1, <3>2 DEF SetModule, Types, ThreadOK
  <2>4. ThreadOK'
    BY <1>1, <2>3 DEF SetModule, Change, Types, ThreadOK, manager
  <2>5. TypeOK'
    BY <1>1, <2>2, <2>3 DEF SetModule, Types, TypeOK, ThreadOK, manager
  <2>6. QED
    BY <2>4, <2>5 DEF Types
<1>2. CASE SetAutomationMode
  BY <1>2 DEF SetAutomationMode, Change, Types, TypeOK, ThreadOK, registry, manager, thread
<1>3. CASE CoolDown
  BY <1>3 DEF CoolDown, Types, TypeOK, ThreadOK, config, registry, manager, thread
<1>4. ASSUME NEW t \in Threads, NEW m \in Moods, Evaluate(t, m) PROVE Types'
  <2>1. Commands(m) \in Seq(Zones \X Modules)
    BY TargetsAssumption DEF Commands
  <2>5. /\ mood' \in [Threads -> Moods \cup {NoMood}]
        /\ work' \in [Threads -> Seq(Zones \X Modules)]
        /\ evaluations' \in Nat /\ changes' \in Nat
    <3>1. work' \in [Threads -> Seq(Zones \X Modules)]
      BY <1>4, <2>1 DEF Evaluate, Types, ThreadOK
    <3>2. mood' \in [Threads -> Moods \cup {NoMood}] /\ evaluations' \in Nat
      BY <1>4 DEF Evaluate, Types, ThreadOK
    <3>3. changes' \in Nat
      BY <1>4 DEF Evaluate, Types, ThreadOK, config
    <3>4. QED
      BY <3>1, <3>2, <3>3
  <2>6. \A u \in Threads : pc'[u] \in {"idle", "store", "mode"} => reads'[u] = <<>>
    BY <1>4 DEF Evaluate, Goto, Types, TypeOK, ThreadOK
  <2>2. ThreadOK'
    BY <1>4, <2>5, <2>6 DEF Evaluate, Types, ThreadOK
  <2>3. TypeOK'
    BY <1>4, <2>1 DEF Evaluate, Goto, Types, TypeOK, ThreadOK, config, registry
  <2>4. QED
    BY <2>2, <2>3 DEF Types
<1>5. ASSUME NEW t \in Threads, StoreResult(t) PROVE Types'
  BY <1>5 DEF StoreResult, Goto, Types, TypeOK, ThreadOK, config, registry
<1>6. ASSUME NEW t \in Threads, CheckMode(t) PROVE Types'
  <2>1. CASE zoneMode[Key(t)[1]] = "autonomy"
    <3>1. Key(t) \in Zones \X Modules /\ InForce[Key(t)] \subseteq {"source", "target"}
      BY <1>6, KeyType DEF CheckMode, InForce
    <3>2. stats' \in [Counters -> Nat]
      BY <1>6, <2>1, CountAt DEF CheckMode, Counters
    <3>3. /\ pc[t] = "mode" /\ reads[t] = <<>>
          /\ Goto(t, "read") /\ was' = [was EXCEPT ![t] = InForce[Key(t)]]
          /\ UNCHANGED <<config, manager, mood, work, reads, done, cooling, deadLetters>>
      BY <1>6, <2>1 DEF CheckMode, Types, ThreadOK
    <3>4. ThreadOK'
      BY <3>1, <3>2, <3>3 DEF Goto, Types, TypeOK, ThreadOK, config, manager
    <3>5. Len(<<>>) = 0 /\ \A c \in DOMAIN stats' : stats'[c] \in Nat
      BY <3>2, EmptySeq
    <3>6. TypeOK'
      BY <3>1, <3>3, <3>5 DEF Goto, Types, TypeOK, ThreadOK, config, registry, manager
    <3>7. QED
      BY <3>4, <3>6 DEF Types
  <2>2. CASE zoneMode[Key(t)[1]] # "autonomy"
    <3>1. /\ stats' \in [Counters -> Nat]
          /\ Return(t) /\ UNCHANGED <<config, manager, mood, cooling, deadLetters>>
      BY <1>6, <2>2 DEF CheckMode, Types, ThreadOK, Counters
    <3>2. QED
      BY <1>6, <3>1, ReturnType DEF CheckMode
  <2>3. QED
    BY <2>1, <2>2
<1>7. ASSUME NEW t \in Threads, ReadZoneRow(t) PROVE Types'
  <2>1. CASE zoneRow[Key(t)[1]][Reading(t)] # NoRow
    <3>1. Key(t) \in Zones \X Modules /\ Reading(t) \in Modules
      BY <1>7, KeyType, StatesType DEF ReadZoneRow, Reading
    <3>2. zoneRow[Key(t)[1]][Reading(t)] \in States
      BY <2>1, <3>1 DEF Types, TypeOK
    <3>3. QED
      BY <1>7, <2>1, <3>2, GotType DEF ReadZoneRow
  <2>2. CASE zoneRow[Key(t)[1]][Reading(t)] = NoRow
    BY <1>7, <2>2, MoveType DEF ReadZoneRow, Types, TypeOK, ThreadOK
  <2>3. QED
    BY <2>1, <2>2
<1>8. ASSUME NEW t \in Threads, ReadModuleRow(t) PROVE Types'
  BY <1>8, StatesType, GotType DEF ReadModuleRow, Reading
<1>9. ASSUME NEW t \in Threads, ReadFails(t) PROVE Types'
  BY <1>9, EmptySeq DEF ReadFails, Goto, Types, TypeOK, ThreadOK, config, registry, manager
<1>10. ASSUME NEW t \in Threads, CheckCooldown(t) PROVE Types'
  <2>1. CASE Key(t) \in cooling
    BY <1>10, <2>1, CountAt, ReturnType DEF CheckCooldown, Counters
  <2>2. CASE Key(t) \notin cooling
    BY <1>10, <2>2, MoveType DEF CheckCooldown, Types, TypeOK, ThreadOK
  <2>3. QED
    BY <2>1, <2>2
<1>11. ASSUME NEW t \in Threads, Act(t) PROVE Types'
  <2>1. done' \in [Threads -> BOOLEAN]
    BY <1>11 DEF Act, Types, ThreadOK
  <2>2. CASE UNCHANGED <<pc, was>>
    BY <1>11, <2>1, <2>2 DEF Act, Types, TypeOK, ThreadOK, config, registry, manager
  <2>3. CASE Goto(t, "record") /\ was' = [was EXCEPT ![t] = {}]
    BY <1>11, <2>1, <2>3, MoveType DEF Act, Types, TypeOK, ThreadOK
  <2>4. QED
    BY <1>11, <2>2, <2>3 DEF Act
<1>12. ASSUME NEW t \in Threads, Record(t) PROVE Types'
  <2>1. Key(t) \in Zones \X Modules
    BY <1>12, KeyType DEF Record
  <2>2. /\ cooling' \subseteq Zones \X Modules
        /\ done' \in [Threads -> BOOLEAN] /\ was' \in [Threads -> SUBSET {"source", "target"}]
    BY <1>12, <2>1 DEF Record, Types, TypeOK, ThreadOK
  <2>3. QED
    BY <1>12, <2>2, MoveType DEF Record
<1>13. ASSUME NEW t \in Threads, CountOutcome(t) PROVE Types'
  <2>1. (IF done[t] THEN "executed" ELSE "skipped") \in Counters
    BY DEF Counters
  <2>2. stats' \in [Counters -> Nat]
    BY <1>13, <2>1, CountAt DEF CountOutcome
  <2>3. QED
    BY <1>13, <2>2, ReturnType DEF CountOutcome
<1>14. CASE UNCHANGED vars
  BY <1>14 DEF vars, Types, TypeOK, ThreadOK, config, registry, manager, thread
<1>15. QED
  BY <1>1, <1>2, <1>3, <1>4, <1>5, <1>6, <1>7, <1>8, <1>9, <1>10, <1>11, <1>12, <1>13, <1>14
     DEF Next, Step

-----------------------------------------------------------------------------
(* The statistics *)

Running == {t \in Threads : pc[t] \notin {"idle", "store", "mode"}}

\* How many calls run.
LEMMA RunningFinite == IsFiniteSet(Running) /\ Cardinality(Running) \in Nat
BY ThreadsAssumption, FS_Subset, FS_CardinalityType DEF Running

\* A call that passes the mode check is one more that runs.
LEMMA CallBegins ==
  ASSUME Types, NEW t \in Threads, pc[t] = "mode",
         pc' = [pc EXCEPT ![t] = pc'[t]], pc'[t] \notin {"idle", "store", "mode"}
  PROVE  Cardinality(Running') = Cardinality(Running) + 1
<1>1. Running' = Running \cup {t} /\ t \notin Running
  BY DEF Running, Types, TypeOK
<1>2. QED
  BY <1>1, RunningFinite, FS_AddElement

\* A call that returns is one less.
LEMMA CallEnds ==
  ASSUME Types, NEW t \in Running,
         pc' = [pc EXCEPT ![t] = pc'[t]], pc'[t] \in {"store", "mode"}
  PROVE  Cardinality(Running') = Cardinality(Running) - 1
<1>1. Running' = Running \ {t} /\ t \in Running
  BY DEF Running, Types, TypeOK
<1>2. QED
  BY <1>1, RunningFinite, FS_RemoveElement

\* A step within a call, or outside of all, leaves their number.
LEMMA CallGoesOn ==
  ASSUME Types, NEW t \in Threads, pc' = [pc EXCEPT ![t] = pc'[t]],
         (pc'[t] \in {"idle", "store", "mode"}) <=> (pc[t] \in {"idle", "store", "mode"})
  PROVE  Running' = Running
BY DEF Running, Types, TypeOK

\* The sum that the statistics make is kept by a call that is counted as it ends.
LEMMA CountedEnds ==
  ASSUME Types, StatsExact, NEW t \in Running, Return(t), UNCHANGED deadLetters,
         NEW c \in {"executed", "suggested", "skipped"}, Count(c)
  PROVE  StatsExact'
<1>1. Cardinality(Running') = Cardinality(Running) - 1
  BY ReturnAt, CallEnds DEF Running
<1>2. /\ \A d \in Counters : stats[d] \in Nat
      /\ stats'[c] = stats[c] + 1
      /\ \A d \in Counters \ {c} : stats'[d] = stats[d]
      /\ deadLetters \in Nat
  BY CountAt DEF Counters, Types, TypeOK, ThreadOK
<1>3. QED
  BY <1>1, <1>2, RunningFinite DEF StatsExact, Running, Counters

\* At the start nothing was counted and nothing runs.
LEMMA InitStats == Init => StatsExact
<1> SUFFICES ASSUME Init PROVE StatsExact
  OBVIOUS
<1>1. {t \in Threads : pc[t] \notin {"idle", "store", "mode"}} = {}
  BY DEF Init
<1>2. Cardinality({}) = 0
  BY FS_EmptySet
<1>3. Cardinality({t \in Threads : pc[t] \notin {"idle", "store", "mode"}}) = 0
  BY <1>1, <1>2
<1>4. /\ stats["total_events"] = 0 /\ stats["executed"] = 0
      /\ stats["suggested"] = 0 /\ stats["skipped"] = 0 /\ deadLetters = 0
  BY DEF Init
<1>5. QED
  BY <1>3, <1>4 DEF StatsExact

\* Each step keeps the sum of the counters in execute_if_allowed().
LEMMA NextStats == Types /\ StatsExact /\ [Next]_vars => StatsExact'
<1> SUFFICES ASSUME Types, StatsExact, [Next]_vars PROVE StatsExact'
  OBVIOUS
<1> USE RunningFinite
<1>0. ASSUME Running' = Running, UNCHANGED <<stats, deadLetters>> PROVE StatsExact'
  BY <1>0 DEF StatsExact, Running
<1>1. CASE SetModule \/ SetAutomationMode \/ CoolDown \/ UNCHANGED vars
  BY <1>0, <1>1 DEF SetModule, SetAutomationMode, CoolDown, vars, thread, Running
<1>2. ASSUME NEW t \in Threads, NEW m \in Moods, Evaluate(t, m) PROVE StatsExact'
  BY <1>0, <1>2, CallGoesOn DEF Evaluate, Goto, Types, TypeOK
<1>3. ASSUME NEW t \in Threads, StoreResult(t) PROVE StatsExact'
  BY <1>0, <1>3, CallGoesOn DEF StoreResult, Goto, Types, TypeOK
<1>4. ASSUME NEW t \in Threads, CheckMode(t) PROVE StatsExact'
  <2>1. CASE zoneMode[Key(t)[1]] = "autonomy"
    <3>1. Cardinality(Running') = Cardinality(Running) + 1
      BY <1>4, <2>1, CallBegins DEF CheckMode, Goto, Types, TypeOK
    <3>2. /\ \A d \in Counters : stats[d] \in Nat
          /\ stats'["total_events"] = stats["total_events"] + 1
          /\ \A d \in Counters \ {"total_events"} : stats'[d] = stats[d]
          /\ deadLetters \in Nat /\ deadLetters' = deadLetters
      BY <1>4, <2>1, CountAt DEF CheckMode, Counters, Types, TypeOK, ThreadOK
    <3>3. QED
      BY <3>1, <3>2 DEF StatsExact, Running, Counters
  <2>2. CASE zoneMode[Key(t)[1]] # "autonomy"
    <3>1. Running' = Running
      BY <1>4, <2>2, ReturnAt, CallGoesOn DEF CheckMode
    <3>2. PICK c \in {"skipped", "suggested"} :
            stats' = [stats EXCEPT !["total_events"] = @ + 1, ![c] = @ + 1]
      BY <1>4, <2>2 DEF CheckMode
    <3>3. deadLetters \in Nat /\ deadLetters' = deadLetters /\ \A d \in Counters : stats[d] \in Nat
      BY <1>4 DEF CheckMode, Types, TypeOK, ThreadOK
    <3>4. /\ stats'["total_events"] = stats["total_events"] + 1
          /\ stats'[c] = stats[c] + 1
          /\ \A d \in Counters \ {c, "total_events"} : stats'[d] = stats[d]
      BY <3>2 DEF Counters, Types, ThreadOK
    <3>5. stats'["total_events"] - (stats'["executed"] + stats'["suggested"] + stats'["skipped"])
          = stats["total_events"] - (stats["executed"] + stats["suggested"] + stats["skipped"])
      <4>1. CASE c = "skipped"
        BY <3>3, <3>4, <4>1 DEF Counters
      <4>2. CASE c = "suggested"
        BY <3>3, <3>4, <4>2 DEF Counters
      <4>3. QED
        BY <4>1, <4>2
    <3>6. /\ stats["total_events"] \in Nat /\ stats'["total_events"] \in Nat
          /\ stats["executed"] \in Nat /\ stats'["executed"] \in Nat
          /\ stats["suggested"] \in Nat /\ stats'["suggested"] \in Nat
          /\ stats["skipped"] \in Nat /\ stats'["skipped"] \in Nat
      BY <3>3, <3>4 DEF Counters
    <3>7. stats["total_events"] = stats["executed"] + stats["suggested"] + stats["skipped"]
             + deadLetters + Cardinality(Running)
      BY DEF StatsExact, Running
    <3>8. stats'["total_events"] = stats'["executed"] + stats'["suggested"] + stats'["skipped"]
             + deadLetters' + Cardinality(Running')
      BY <3>1, <3>3, <3>5, <3>6, <3>7
    <3>9. QED
      BY <3>8 DEF StatsExact, Running
  <2>3. QED
    BY <2>1, <2>2
<1>5. ASSUME NEW t \in Threads, pc[t] \in {"read", "global"}, NEW s \in States, Got(t, s),
             UNCHANGED deadLetters
      PROVE  StatsExact'
  <2>1. CASE (\E c \in {"skipped", "suggested"} : Count(c)) /\ Return(t)
    BY <1>5, <2>1, CountedEnds DEF Running
  <2>2. CASE /\ pc' = [pc EXCEPT ![t] = Verdict(Append(reads[t], s))]
             /\ Verdict(Append(reads[t], s)) \in {"read", "limit"}
             /\ UNCHANGED stats
    BY <1>0, <1>5, <2>2, CallGoesOn DEF Types, TypeOK
  <2>3. QED
    BY <1>5, <2>1, <2>2, GotAt
<1>6. ASSUME NEW t \in Threads, ReadZoneRow(t) PROVE StatsExact'
  <2>1. CASE zoneRow[Key(t)[1]][Reading(t)] # NoRow
    <3>1. Key(t) \in Zones \X Modules /\ Reading(t) \in Modules
      BY <1>6, KeyType, StatesType DEF ReadZoneRow, Reading
    <3>2. zoneRow[Key(t)[1]][Reading(t)] \in States
      BY <2>1, <3>1 DEF Types, TypeOK
    <3>3. QED
      BY <1>5, <1>6, <2>1, <3>2 DEF ReadZoneRow
  <2>2. CASE zoneRow[Key(t)[1]][Reading(t)] = NoRow
    BY <1>0, <1>6, <2>2, CallGoesOn DEF ReadZoneRow, Goto, Types, TypeOK
  <2>3. QED
    BY <2>1, <2>2
<1>7. ASSUME NEW t \in Threads, ReadModuleRow(t) PROVE StatsExact'
  BY <1>5, <1>7, StatesType DEF ReadModuleRow, Reading
<1>8. ASSUME NEW t \in Threads, ReadFails(t) PROVE StatsExact'
  <2>1. Cardinality(Running') = Cardinality(Running) - 1
    BY <1>8, CallEnds DEF ReadFails, Goto, Running, Types, TypeOK
  <2>2. /\ deadLetters' = deadLetters + 1 /\ stats' = stats
        /\ deadLetters \in Nat /\ \A d \in Counters : stats[d] \in Nat
    BY <1>8 DEF ReadFails, Types, TypeOK, ThreadOK
  <2>3. QED
    BY <2>1, <2>2 DEF StatsExact, Running, Counters
<1>9. ASSUME NEW t \in Threads, CheckCooldown(t) PROVE StatsExact'
  <2>1. CASE Key(t) \in cooling
    BY <1>9, <2>1, CountedEnds DEF CheckCooldown, Running
  <2>2. CASE Key(t) \notin cooling
    BY <1>0, <1>9, <2>2, CallGoesOn DEF CheckCooldown, Goto, Types, TypeOK
  <2>3. QED
    BY <2>1, <2>2
<1>10. ASSUME NEW t \in Threads, Act(t) PROVE StatsExact'
  <2>1. CASE UNCHANGED pc
    BY <1>0, <1>10, <2>1 DEF Act, Running
  <2>2. CASE Goto(t, "record")
    BY <1>0, <1>10, <2>2, CallGoesOn DEF Act, Goto, Types, TypeOK
  <2>3. QED
    BY <1>10, <2>1, <2>2 DEF Act
<1>11. ASSUME NEW t \in Threads, Record(t) PROVE StatsExact'
  BY <1>0, <1>11, CallGoesOn DEF Record, Goto, Types, TypeOK
<1>12. ASSUME NEW t \in Threads, CountOutcome(t) PROVE StatsExact'
  <2>1. PICK c \in {"executed", "skipped"} : Count(c)
    BY <1>12 DEF CountOutcome
  <2>2. QED
    BY <1>12, <2>1, CountedEnds DEF CountOutcome, Running
<1>13. QED
  BY <1>1, <1>2, <1>3, <1>4, <1>6, <1>7, <1>8, <1>9, <1>10, <1>11, <1>12 DEF Next, Step

-----------------------------------------------------------------------------
(* The mood that was announced *)

\* A step that leaves the manager alone, and each thread evaluating or not.
LEMMA SameEvaluations ==
  ASSUME OneEvaluation, UNCHANGED <<mood, lastMood, known, crossed>>,
         \A t \in Threads : (pc'[t] = "idle") <=> (pc[t] = "idle")
  PROVE  OneEvaluation'
<1>1. Evaluating' = Evaluating
  BY DEF Evaluating
<1>2. QED
  BY <1>1 DEF OneEvaluation

\* No evaluation runs at the start, and no mood is known.
LEMMA InitEvaluation == Init => OneEvaluation
BY DEF Init, OneEvaluation, Evaluating

\* Each step keeps the mood of a lone evaluation the one announced.
LEMMA NextEvaluation == Types /\ OneEvaluation /\ [Next]_vars => OneEvaluation'
<1> SUFFICES ASSUME Types, OneEvaluation, [Next]_vars PROVE OneEvaluation'
  OBVIOUS
<1>1. CASE SetModule \/ SetAutomationMode \/ CoolDown \/ UNCHANGED vars
  BY <1>1, SameEvaluations DEF SetModule, SetAutomationMode, CoolDown, vars, thread, manager
<1>2. ASSUME NEW t \in Threads, NEW m \in Moods, Evaluate(t, m) PROVE OneEvaluation'
  <2> SUFFICES ASSUME ~crossed' PROVE OneEvaluation'
    BY DEF OneEvaluation
  <2>1. Evaluating = {} /\ known = lastMood
    BY <1>2 DEF Evaluate, OneEvaluation
  <2>2. Evaluating' = {t}
    BY <1>2, <2>1 DEF Evaluate, Goto, Evaluating, Types, TypeOK
  <2>3. known' = m /\ mood'[t] = m
    BY <1>2, <2>1 DEF Evaluate, Types, ThreadOK
  <2>4. QED
    BY <2>2, <2>3 DEF OneEvaluation
<1>3. ASSUME NEW t \in Threads, StoreResult(t) PROVE OneEvaluation'
  <2> SUFFICES ASSUME ~crossed' PROVE OneEvaluation'
    BY DEF OneEvaluation
  <2>1. t \in Evaluating
    BY <1>3 DEF StoreResult, Evaluating
  <2>2. Evaluating = {t} /\ lastMood' = known
    <3>1. CASE ~crossed
      BY <1>3, <2>1, <3>1 DEF StoreResult, OneEvaluation
    <3>2. CASE crossed
      BY <1>3, <3>2 DEF StoreResult
    <3>3. QED
      BY <3>1, <3>2
  <2>3. Evaluating' = {}
    BY <1>3, <2>2 DEF StoreResult, Goto, Evaluating, Types, TypeOK
  <2>4. QED
    BY <1>3, <2>2, <2>3 DEF StoreResult, OneEvaluation
<1>4. ASSUME NEW t \in Threads, Step(t), ~StoreResult(t) PROVE OneEvaluation'
  <2>1. UNCHANGED <<mood, lastMood, known, crossed>>
    BY <1>4 DEF Step, CheckMode, ReadZoneRow, ReadModuleRow, ReadFails, CheckCooldown, Act,
                Record, CountOutcome, manager
  <2>2. pc[t] \notin {"idle", "store"}
    BY <1>4 DEF Step, CheckMode, ReadZoneRow, ReadModuleRow, ReadFails, CheckCooldown, Act,
                Record, CountOutcome
  <2>3. \/ pc' = pc
        \/ pc' = [pc EXCEPT ![t] = pc'[t]] /\ pc'[t] # "idle"
    <3>1. CASE Return(t)
      BY <2>2, <3>1, ReturnAt
    <3>2. ASSUME NEW l \in {"read", "global", "limit", "act", "record", "count", "store"}, Goto(t, l)
          PROVE  pc' = [pc EXCEPT ![t] = pc'[t]] /\ pc'[t] # "idle"
      BY <3>2 DEF Goto, Types, TypeOK
    <3>3. ASSUME pc[t] \in {"read", "global"}, NEW s, Got(t, s)
          PROVE  \/ Return(t)
                 \/ \E l \in {"read", "limit"} : Goto(t, l)
      BY <3>3 DEF Got, Verdict
    <3>4. QED
      BY <1>4, <3>1, <3>2, <3>3
         DEF Step, CheckMode, ReadZoneRow, ReadModuleRow, ReadFails, CheckCooldown, Act,
             Record, CountOutcome
  <2>4. QED
    BY <2>1, <2>2, <2>3, SameEvaluations DEF Types, TypeOK
<1>5. QED
  BY <1>1, <1>2, <1>3, <1>4 DEF Next

-----------------------------------------------------------------------------
(* What was read *)

\* A role is in force exactly when its module is active in the zone.
LEMMA InForceAt ==
  ASSUME NEW k \in Zones \X Modules, NEW role \in {"source", "target"}
  PROVE  (role \in InForce[k])
           <=> (ZoneState(k[1], IF role = "source" THEN Source ELSE k[2]) = "active")
BY DEF InForce

\* A step that neither touches the registry nor the thread.
LEMMA OtherDecision ==
  ASSUME NEW u, DecisionExplained(u), UNCHANGED registry,
         pc'[u] = pc[u], work'[u] = work[u], reads'[u] = reads[u], was'[u] = was[u]
  PROVE  DecisionExplained(u)'
<1>1. InForce' = InForce
  BY DEF InForce, ZoneState, GlobalState, registry
<1>2. Key(u)' = Key(u)
  BY DEF Key
<1>3. \A role : Explained(u, role)' = Explained(u, role)
  BY <1>2 DEF Explained, ModuleOf, registry
<1>4. QED
  BY <1>1, <1>2, <1>3 DEF DecisionExplained

\* A step of one thread keeps what the others know.
LEMMA OneDecision ==
  ASSUME ReadsExplained, NEW t \in Threads, UNCHANGED registry,
         \A u \in Threads \ {t} :
           pc'[u] = pc[u] /\ work'[u] = work[u] /\ reads'[u] = reads[u] /\ was'[u] = was[u],
         t \in Deciding' => DecisionExplained(t)'
  PROVE  ReadsExplained'
<1>1. ASSUME NEW u \in Deciding', u # t PROVE DecisionExplained(u)'
  BY <1>1, OtherDecision DEF ReadsExplained, Deciding
<1>2. QED
  BY <1>1 DEF ReadsExplained

\* A thread that only moves on within a call.
LEMMA MoveDecision ==
  ASSUME Types, ReadsExplained, NEW t \in Threads, NEW l, Goto(t, l),
         UNCHANGED <<registry, work, reads, was>>,
         pc[t] \in {"read", "limit"},
         l = "global" /\ Len(reads[t]) >= 2 => Roles[Len(reads[t]) + 1] \in was[t],
         l \in {"limit", "act"} => pc[t] = "limit"
  PROVE  ReadsExplained'
<1>1. /\ pc' = [pc EXCEPT ![t] = l] /\ pc \in [Threads -> {"idle", "store", "mode", "read",
            "global", "limit", "act", "record", "count"}]
  BY DEF Goto, Types, TypeOK
<1>2. InForce' = InForce /\ Key(t)' = Key(t)
  BY DEF InForce, ZoneState, GlobalState, registry, Key
<1>3. \A role : Explained(t, role)' = Explained(t, role)
  BY <1>2 DEF Explained, ModuleOf, registry
<1>4. DecisionExplained(t)
  BY DEF ReadsExplained, Deciding
<1>5. DecisionExplained(t)'
  BY <1>1, <1>2, <1>3, <1>4 DEF DecisionExplained
<1>6. QED
  BY <1>1, <1>5, OneDecision

\* A thread whose call is over, or has not begun.
LEMMA NoDecision ==
  ASSUME Types, ReadsExplained, NEW t \in Threads, UNCHANGED registry,
         \A u \in Threads \ {t} :
           pc'[u] = pc[u] /\ work'[u] = work[u] /\ reads'[u] = reads[u] /\ was'[u] = was[u],
         pc'[t] \notin {"read", "global", "limit", "act"}
  PROVE  ReadsExplained'
BY OneDecision DEF Deciding

\* A call that returns takes no decision any more.
LEMMA ReturnDecision ==
  ASSUME Types, ReadsExplained, NEW t \in Threads, pc[t] \notin {"idle", "store"}, Return(t),
         UNCHANGED registry
  PROVE  ReadsExplained'
<1>1. /\ \A u \in Threads \ {t} :
           pc'[u] = pc[u] /\ work'[u] = work[u] /\ reads'[u] = reads[u] /\ was'[u] = was[u]
      /\ pc'[t] \in {"store", "mode"}
  BY ReturnAt DEF Types, TypeOK, ThreadOK
<1>2. QED
  BY <1>1, NoDecision

\* A state that is read is explained like those before it.
LEMMA GotDecision ==
  ASSUME Types, ReadsExplained, NEW t \in Threads, pc[t] \in {"read", "global"},
         NEW s \in States, Got(t, s), UNCHANGED registry,
         s = "active" => IF Len(reads[t]) < 2 THEN Explained(t, Roles[Len(reads[t]) + 1])
                         ELSE Roles[Len(reads[t]) + 1] \in was[t]
  PROVE  ReadsExplained'
<1>1. CASE Return(t)
  BY <1>1, ReturnDecision
<1>2. CASE /\ reads' = [reads EXCEPT ![t] = Append(@, s)]
           /\ pc' = [pc EXCEPT ![t] = Verdict(Append(reads[t], s))]
           /\ Verdict(Append(reads[t], s)) \in {"read", "limit"}
           /\ UNCHANGED <<stats, work, done, was>>
  <2> DEFINE r == Append(reads[t], s)
             n == Len(reads[t])
  <2>1. /\ r \in Seq(States) /\ Len(r) = n + 1 /\ n \in Nat /\ n < 4
        /\ \A i \in 1 .. n : r[i] = reads[t][i]
        /\ r[n + 1] = s
        /\ Verdict(r) = "limit" => n = 3
    BY VerdictAt
  <2>2. Verdict(r) \in {"read", "limit"} /\ Len(r) \notin {1, 3}
          => \A i \in DOMAIN r : r[i] = "active"
    BY DEF Verdict
  <2>3. DOMAIN r = 1 .. Len(r)
    BY <2>1, LenProperties
  <2>4. reads'[t] = r /\ pc'[t] = Verdict(r) /\ Verdict(r) \in {"read", "limit"}
    BY <1>2 DEF Types, TypeOK, ThreadOK
  <2>5. InForce' = InForce /\ Key(t)' = Key(t)
    BY <1>2 DEF InForce, ZoneState, GlobalState, registry, Key
  <2>6. \A role : Explained(t, role)' = Explained(t, role)
    BY <1>2, <2>5 DEF Explained, ModuleOf, registry
  <2>7. DecisionExplained(t)
    BY DEF ReadsExplained, Deciding
  <2> HIDE DEF r, n
  <2>8. Len(r) >= 2 => r[1] = "active" /\ r[2] = "active"
    <3>1. CASE n = 1 \/ n = 3
      <4>1. Len(r) = 2 \/ Len(r) = 4
        BY <2>1, <3>1
      <4>2. 1 \in DOMAIN r /\ 2 \in DOMAIN r /\ Len(r) \notin {1, 3}
        <5>1. CASE Len(r) = 2
          <6>1. DOMAIN r = 1 .. 2
            BY <2>3, <5>1
          <6>2. QED
            BY <5>1, <6>1
        <5>2. CASE Len(r) = 4
          <6>1. DOMAIN r = 1 .. 4
            BY <2>3, <5>2
          <6>2. QED
            BY <5>2, <6>1
        <5>3. QED
          BY <4>1, <5>1, <5>2
      <4>3. \A i \in DOMAIN r : r[i] = "active"
        BY <2>2, <2>4, <4>2
      <4>4. QED
        BY <4>2, <4>3
    <3>2. CASE n = 0
      <4>1. Len(r) = 1
        BY <2>1, <3>2
      <4>2. QED
        BY <4>1
    <3>3. CASE n = 2
      <4>1. r[1] = reads[t][1] /\ r[2] = reads[t][2]
        BY <2>1, <3>3
      <4>2. Len(reads[t]) >= 2
        BY <3>3 DEF n
      <4>3. QED
        BY <2>7, <4>1, <4>2 DEF DecisionExplained
    <3>4. n = 0 \/ n = 1 \/ n = 2 \/ n = 3
      BY <2>1
    <3>5. QED
      BY <3>1, <3>2, <3>3, <3>4
  <2>9. pc'[t] = "limit" => Len(r) = 4 /\ \A i \in 1 .. 4 : r[i] = "active"
    BY <2>1, <2>2, <2>3, <2>4
  <2>10. \A i \in 1 .. Len(r) : r[i] = "active" =>
           IF i <= 2 THEN Explained(t, Roles[i]) ELSE Roles[i] \in was[t]
    <3> TAKE i \in 1 .. Len(r)
    <3>1. CASE i \in 1 .. n
      BY <2>1, <2>7, <3>1 DEF DecisionExplained, n
    <3>2. CASE i = n + 1
      BY <2>1, <3>2 DEF n
    <3>3. QED
      BY <2>1, <3>1, <3>2
  <2>11. DecisionExplained(t)'
    BY <1>2, <2>4, <2>5, <2>6, <2>7, <2>8, <2>9, <2>10 DEF DecisionExplained
  <2>12. QED
    BY <1>2, <2>11, OneDecision DEF Types, TypeOK, ThreadOK
<1>3. QED
  BY <1>1, <1>2, GotAt

\* Each step keeps what was read explained by what was in force.
LEMMA NextReads == Types /\ ReadsExplained /\ [Next]_vars => ReadsExplained'
<1> SUFFICES ASSUME Types, ReadsExplained, [Next]_vars PROVE ReadsExplained'
  OBVIOUS
<1>1. CASE SetModule
  <2> SUFFICES ASSUME NEW t \in Deciding' PROVE DecisionExplained(t)'
    BY DEF ReadsExplained
  <2>1. /\ t \in Deciding /\ DecisionExplained(t) /\ Key(t)' = Key(t)
        /\ UNCHANGED <<pc, work, reads>>
    BY <1>1 DEF SetModule, Deciding, ReadsExplained, Key
  <2>2. was'[t] = was[t] \cup InForce'[Key(t)]
    BY <1>1, <2>1 DEF SetModule, Types, ThreadOK, Deciding
  <2>3. \A z \in Zones, m \in Modules : zoneRow[z][m] # NoRow => zoneRow'[z][m] # NoRow
    <3>1. PICK m \in Modules, u \in States :
            SetState(m, u) \/ \E z \in Zones : SetZoneState(z, m, u)
      BY <1>1 DEF SetModule
    <3>2. CASE SetState(m, u)
      BY <3>2 DEF SetState
    <3>3. ASSUME NEW z \in Zones, SetZoneState(z, m, u)
          PROVE  \A y \in Zones, n \in Modules : zoneRow[y][n] # NoRow => zoneRow'[y][n] # NoRow
      BY <3>3, RowsAssumption DEF SetZoneState, Types, TypeOK
    <3>4. QED
      BY <3>1, <3>2, <3>3
  <2>4. Key(t) \in Zones \X Modules /\ \A role : ModuleOf(t, role) \in Modules
    BY <2>1, KeyType, StatesType DEF Deciding
  <2>5. \A role : Explained(t, role) => Explained(t, role)'
    BY <2>1, <2>2, <2>3, <2>4 DEF Explained, ModuleOf
  <2>6. QED
    BY <2>1, <2>2, <2>5 DEF DecisionExplained
<1>2. CASE SetAutomationMode \/ CoolDown \/ UNCHANGED vars
  BY <1>2, OtherDecision
     DEF SetAutomationMode, CoolDown, vars, thread, config, Deciding, ReadsExplained
<1>3. ASSUME NEW t \in Threads, NEW m \in Moods, Evaluate(t, m) PROVE ReadsExplained'
  BY <1>3, NoDecision DEF Evaluate, Goto, config, Types, TypeOK, ThreadOK
<1>4. ASSUME NEW t \in Threads, StoreResult(t) PROVE ReadsExplained'
  BY <1>4, NoDecision DEF StoreResult, Goto, config, Types, TypeOK
<1>5. ASSUME NEW t \in Threads, CheckMode(t) PROVE ReadsExplained'
  <2>1. CASE zoneMode[Key(t)[1]] = "autonomy"
    <3>1. /\ reads'[t] = <<>> /\ was'[t] = InForce[Key(t)] /\ pc'[t] = "read"
          /\ UNCHANGED <<work, registry>>
      BY <1>5, <2>1 DEF CheckMode, Goto, config, Types, TypeOK, ThreadOK
    <3>2. InForce' = InForce /\ Key(t)' = Key(t)
      BY <3>1 DEF InForce, ZoneState, GlobalState, registry, Key
    <3>3. Len(<<>>) = 0
      BY EmptySeq
    <3>4. DecisionExplained(t)'
      BY <3>1, <3>2, <3>3 DEF DecisionExplained
    <3>5. QED
      BY <1>5, <2>1, <3>1, <3>4, OneDecision DEF CheckMode, Goto, Types, TypeOK, ThreadOK
  <2>2. CASE zoneMode[Key(t)[1]] # "autonomy"
    BY <1>5, <2>2, ReturnDecision DEF CheckMode, config
  <2>3. QED
    BY <2>1, <2>2
<1>6. ASSUME NEW t \in Threads, ReadZoneRow(t) PROVE ReadsExplained'
  <2>1. /\ Key(t) \in Zones \X Modules /\ Reading(t) \in Modules
        /\ Len(reads[t]) \in Nat /\ Len(reads[t]) < 4
        /\ DecisionExplained(t) /\ pc[t] = "read" /\ UNCHANGED registry
    BY <1>6, KeyType, StatesType, LenProperties
       DEF ReadZoneRow, Reading, ReadsExplained, Deciding, config, Types, TypeOK, ThreadOK
  <2>2. Roles[Len(reads[t]) + 1] \in {"source", "target"}
    BY <2>1 DEF Roles
  <2>3. CASE zoneRow[Key(t)[1]][Reading(t)] # NoRow
    <3> DEFINE s == zoneRow[Key(t)[1]][Reading(t)]
    <3>1. s \in States /\ Got(t, s)
      BY <1>6, <2>1, <2>3 DEF ReadZoneRow, Types, TypeOK
    <3>2. s = "active" => Roles[Len(reads[t]) + 1] \in was[t]
      BY <2>1, <2>2, <2>3, InForceAt DEF Reading, ModuleOf, ZoneState, DecisionExplained
    <3>3. QED
      BY <2>1, <3>1, <3>2, GotDecision DEF Explained
  <2>4. CASE zoneRow[Key(t)[1]][Reading(t)] = NoRow
    <3>1. Len(reads[t]) >= 2 => Roles[Len(reads[t]) + 1] \in was[t]
      <4>1. CASE Len(reads[t]) = 2
        BY <2>1, <2>4, <4>1 DEF DecisionExplained, Explained, Reading, Roles
      <4>2. CASE Len(reads[t]) = 3
        BY <2>1, <2>4, <4>2 DEF DecisionExplained, Explained, Reading, Roles
      <4>3. ASSUME NEW n \in Nat, n < 4, n >= 2 PROVE n = 2 \/ n = 3
        BY <4>3
      <4>4. QED
        BY <2>1, <4>1, <4>2, <4>3
    <3>2. QED
      BY <1>6, <2>1, <2>4, <3>1, MoveDecision DEF ReadZoneRow
  <2>5. QED
    BY <2>3, <2>4
<1>7. ASSUME NEW t \in Threads, ReadModuleRow(t) PROVE ReadsExplained'
  <2>1. /\ Key(t) \in Zones \X Modules /\ Reading(t) \in Modules
        /\ Len(reads[t]) \in Nat /\ Len(reads[t]) < 4
        /\ DecisionExplained(t) /\ pc[t] = "global" /\ UNCHANGED registry
    BY <1>7, KeyType, StatesType, LenProperties
       DEF ReadModuleRow, Reading, ReadsExplained, Deciding, config, Types, TypeOK, ThreadOK
  <2>2. Roles[Len(reads[t]) + 1] \in {"source", "target"}
    BY <2>1 DEF Roles
  <2>3. GlobalState(Reading(t)) \in States /\ Got(t, GlobalState(Reading(t)))
    BY <1>7, <2>1, StatesType DEF ReadModuleRow
  <2>4. GlobalState(Reading(t)) = "active" => Explained(t, Roles[Len(reads[t]) + 1])
    BY <2>1, <2>2, InForceAt DEF Reading, ModuleOf, ZoneState, DecisionExplained, Explained
  <2>5. Len(reads[t]) >= 2 => Roles[Len(reads[t]) + 1] \in was[t]
    BY <2>1 DEF DecisionExplained
  <2>6. QED
    BY <2>1, <2>3, <2>4, <2>5, GotDecision
<1>8. ASSUME NEW t \in Threads, ReadFails(t) PROVE ReadsExplained'
  BY <1>8, NoDecision DEF ReadFails, Goto, config, Types, TypeOK, ThreadOK
<1>9. ASSUME NEW t \in Threads, CheckCooldown(t) PROVE ReadsExplained'
  BY <1>9, ReturnDecision, MoveDecision DEF CheckCooldown, config
<1>10. ASSUME NEW t \in Threads, Act(t) PROVE ReadsExplained'
  <2>1. CASE UNCHANGED <<pc, was>>
    BY <1>10, <2>1, OtherDecision DEF Act, config, Deciding, ReadsExplained
  <2>2. CASE Goto(t, "record") /\ was' = [was EXCEPT ![t] = {}]
    BY <1>10, <2>2, NoDecision DEF Act, Goto, config, Types, TypeOK, ThreadOK
  <2>3. QED
    BY <1>10, <2>1, <2>2 DEF Act
<1>11. ASSUME NEW t \in Threads, Record(t) PROVE ReadsExplained'
  BY <1>11, NoDecision DEF Record, Goto, config, Types, TypeOK
<1>12. ASSUME NEW t \in Threads, CountOutcome(t) PROVE ReadsExplained'
  BY <1>12, ReturnDecision DEF CountOutcome, config
<1>13. QED
  BY <1>1, <1>2, <1>3, <1>4, <1>5, <1>6, <1>7, <1>8, <1>9, <1>10, <1>11, <1>12 DEF Next, Step

-----------------------------------------------------------------------------
\* All of it together is inductive.
THEOREM Invariant == Spec => []IInv
<1>1. Init => IInv
  <2>1. Init => ReadsExplained
    BY DEF Init, ReadsExplained, Deciding
  <2>2. QED
    BY <2>1, InitType, InitStats, InitEvaluation DEF IInv
<1>2. IInv /\ [Next]_vars => IInv'
  BY NextType, NextReads, NextStats, NextEvaluation DEF IInv
<1>3. QED
  BY <1>1, <1>2, PTL DEF Spec

\* Every variable has a value of its kind, and a thread has work exactly while its
\* handler runs.
THEOREM TypeCorrect == Spec => []TypeOK
BY Invariant, PTL DEF IInv, Types

\* However the settings change while it decides, the executor acts on a zone only
\* if source and target were both in force as active there during the call.
THEOREM ActsOnlyIfActive == Spec => []ActedOnlyIfWasActive
<1>1. IInv => ActedOnlyIfWasActive
  <2> SUFFICES ASSUME IInv, NEW t \in Threads, pc[t] = "act" PROVE was[t] = {"source", "target"}
    BY DEF ActedOnlyIfWasActive
  <2>1. DecisionExplained(t) /\ was[t] \subseteq {"source", "target"}
    BY DEF IInv, Types, TypeOK, ReadsExplained, Deciding
  <2>2. Len(reads[t]) = 4 /\ reads[t][3] = "active" /\ reads[t][4] = "active"
    BY <2>1 DEF DecisionExplained
  <2>3. Roles[3] \in was[t] /\ Roles[4] \in was[t]
    BY <2>1, <2>2 DEF DecisionExplained
  <2>4. QED
    BY <2>1, <2>3 DEF Roles
<1>2. QED
  BY <1>1, Invariant, PTL

\* The executor's statistics add up, for any number of threads in the middle of a call.
THEOREM EveryCallCounted == Spec => []StatsExact
BY Invariant, PTL DEF IInv

\* Without overlapping evaluations the mood that the API shows is the one that the
\* bus has announced, also when a handler raised.
THEOREM ShownMoodAnnounced == Spec => []MoodAnnounced
<1>1. IInv => MoodAnnounced
  BY DEF IInv, OneEvaluation, MoodAnnounced
<1>2. QED
  BY <1>1, Invariant, PTL
=============================================================================

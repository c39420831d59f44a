-------------------------- MODULE BrainGraphProofs --------------------------
(***************************************************************************)
(* Proofs about BrainGraph for any graph, any threads and all limits.      *)
(***************************************************************************)
EXTENDS BrainGraph, FiniteSetTheorems, TLAPS

\* A thread plans an invalidation or a prune only within the touch that has been
\* accounted for, and has done the invalidation before it prunes.
PlanInv ==
  \A t \in Threads :
    /\ pc[t] \notin {"clear", "prune"} => ahead[t] = NoPlan
    /\ pc[t] = "prune" => ~ahead[t].clear

-----------------------------------------------------------------------------
\* The constructors of plans and of the value of a pc, at every thread.
LEMMA PlanAt ==
  ASSUME TypeOK, NEW t \in Threads, NEW c \in BOOLEAN, NEW p \in BOOLEAN, Plan(t, c, p)
  PROVE  /\ ahead' \in [Threads -> [clear : BOOLEAN, prune : BOOLEAN]]
         /\ ahead'[t].clear = c /\ ahead'[t].prune = p
         /\ ahead'[t] = [clear |-> c, prune |-> p]
         /\ \A u \in Threads \ {t} : ahead'[u] = ahead[u]
BY DEF Plan, TypeOK

\* A prune takes rows away and may outdate what is cached or being read.
LEMMA PruneAt ==
  ASSUME TypeOK, Prune
  PROVE  /\ nodes' \subseteq nodes /\ edges' \subseteq edges /\ loose' \subseteq edges'
         /\ cache' \in {cache, "outdated"} /\ reader' \in {reader, "outdated"}
         /\ forgotten' = 0
         /\ <<nodes', edges'>> = <<nodes, edges>> => UNCHANGED <<cache, reader>>
BY DEF Prune, Outdate, TypeOK

\* The tables and the sets of threads are finite.
LEMMA Finite ==
  ASSUME TypeOK
  PROVE  /\ IsFiniteSet(nodes) /\ Cardinality(nodes) \in Nat
         /\ IsFiniteSet(Uncounted) /\ Cardinality(Uncounted) \in Nat
         /\ IsFiniteSet(DuePrunes) /\ Cardinality(DuePrunes) \in Nat
         /\ PruneInterval * Cardinality(DuePrunes) \in Nat
<1>1. IsFiniteSet(nodes) /\ Cardinality(nodes) \in Nat
  BY GraphAssumption, FS_Subset, FS_CardinalityType DEF TypeOK
<1>2. IsFiniteSet(Uncounted) /\ Cardinality(Uncounted) \in Nat
  BY GraphAssumption, FS_Subset, FS_CardinalityType DEF Uncounted
<1>3. IsFiniteSet(DuePrunes) /\ Cardinality(DuePrunes) \in Nat
  BY GraphAssumption, FS_Subset, FS_CardinalityType DEF DuePrunes
<1>4. ASSUME NEW n \in Nat PROVE PruneInterval * n \in Nat
  BY LimitsAssumption
<1>5. QED
  BY <1>1, <1>2, <1>3, <1>4

\* Sums of naturals.
LEMMA PlusNat ==
  ASSUME NEW a \in Nat, NEW b \in Nat, NEW c \in Nat, NEW d \in Nat
  PROVE  a + b + c + d \in Nat
OBVIOUS

\* The fresh service.
LEMMA InitType == Init => TypeOK /\ PlanInv
<1> SUFFICES ASSUME Init PROVE TypeOK /\ PlanInv
  OBVIOUS
<1>1. NoPlan \in [clear : BOOLEAN, prune : BOOLEAN]
  BY DEF NoPlan
<1>2. opCount \in 0 .. PruneInterval - 1 /\ pending \in Nat
  BY LimitsAssumption DEF Init
<1>3. TypeOK
  BY <1>1, <1>2 DEF Init, TypeOK
<1>4. PlanInv
  BY DEF Init, PlanInv
<1>5. QED
  BY <1>3, <1>4

\* Every step gives each variable a value of its kind.
LEMMA NextType == TypeOK /\ [Next]_vars => TypeOK'
<1> SUFFICES ASSUME TypeOK, [Next]_vars PROVE TypeOK'
  OBVIOUS
<1>1. ASSUME NEW t \in Threads, NEW i \in Nodes \cup Edges, Touch(t, i) PROVE TypeOK'
  BY <1>1, GraphAssumption DEF Touch, TypeOK, Goto, store, batch, view
<1>2. ASSUME NEW t \in Threads, Upsert(t) PROVE TypeOK'
  BY <1>2 DEF Upsert, TypeOK, Goto, Outdate, batch
<1>3. ASSUME NEW t \in Threads, Account(t) PROVE TypeOK'
  <2>1. opCount' \in 0 .. PruneInterval - 1 /\ pending' \in Nat
    BY <1>3, LimitsAssumption DEF Account, TypeOK
  <2>2. ahead' \in [Threads -> [clear : BOOLEAN, prune : BOOLEAN]]
    BY <1>3, PlanAt DEF Account, TypeOK
  <2>3. pc' \in [Threads -> {"idle", "write", "account", "clear", "prune", "commit"}]
        /\ \A u \in Threads : pc'[u] \in {"write", "account"} => item'[u] # NoItem
    BY <1>3 DEF Account, Counted, TypeOK, Goto
  <2>4. item' \in [Threads -> Nodes \cup Edges \cup {NoItem}]
    BY <1>3 DEF Account, Counted, TypeOK
  <2>5. QED
    BY <1>3, <2>1, <2>2, <2>3, <2>4 DEF Account, Counted, TypeOK, store, view
<1>4. ASSUME NEW t \in Threads, TouchClear(t) PROVE TypeOK'
  <2>1. ahead[t].prune \in BOOLEAN
    BY DEF TypeOK
  <2>2. ahead' \in [Threads -> [clear : BOOLEAN, prune : BOOLEAN]]
    BY <1>4, <2>1, PlanAt DEF TouchClear
  <2>3. pc' \in [Threads -> {"idle", "write", "account", "clear", "prune", "commit"}]
        /\ \A u \in Threads : pc'[u] \in {"write", "account"} => item'[u] # NoItem
    BY <1>4 DEF TouchClear, TypeOK, Goto
  <2>4. cache' \in {cache, "empty"} /\ reader' = reader /\ excused' \in BOOLEAN
    BY <1>4 DEF TouchClear, TypeOK, Clear, view
  <2>5. QED
    BY <1>4, <2>2, <2>3, <2>4 DEF TouchClear, TypeOK, store, batch
<1>5. ASSUME NEW t \in Threads, TouchPrune(t) PROVE TypeOK'
  <2>1. ahead' \in [Threads -> [clear : BOOLEAN, prune : BOOLEAN]]
    BY <1>5, PlanAt DEF TouchPrune, Leave
  <2>2. pc' \in [Threads -> {"idle", "write", "account", "clear", "prune", "commit"}]
        /\ \A u \in Threads : pc'[u] \in {"write", "account"} => item'[u] # NoItem
    BY <1>5 DEF TouchPrune, Leave, TypeOK, Goto
  <2>3. /\ nodes' \subseteq Nodes /\ edges' \subseteq Edges /\ loose' \subseteq edges'
        /\ cache' \in {cache, "outdated"} /\ reader' \in {reader, "outdated"}
        /\ excused' \in BOOLEAN /\ forgotten' \in Nat
    BY <1>5, PruneAt DEF TouchPrune, TypeOK, store, view
  <2>4. QED
    BY <1>5, <2>1, <2>2, <2>3 DEF TouchPrune, TypeOK, batch
<1>6. ASSUME NEW t \in Threads, BeginBatch(t) PROVE TypeOK'
  BY <1>6 DEF BeginBatch, TypeOK, store
<1>7. ASSUME NEW t \in Threads, CommitBatch(t) PROVE TypeOK'
  BY <1>7 DEF CommitBatch, EndBatch, TypeOK, Goto, store, view
<1>8. ASSUME NEW t \in Threads, CommitClear(t) PROVE TypeOK'
  BY <1>8 DEF CommitClear, Clear, TypeOK, Goto, store, batch
<1>9. ASSUME NEW t \in Threads, RollbackBatch(t) PROVE TypeOK'
  BY <1>9 DEF RollbackBatch, EndBatch, TypeOK, store
<1>10. CASE PruneNow
  BY <1>10, PruneAt DEF PruneNow, TypeOK, batch, touch
<1>11. CASE PruneScheduled
  BY <1>11, PruneAt DEF PruneScheduled, TypeOK, batch, touch
<1>12. CASE ScheduledClear
  BY <1>12 DEF ScheduledClear, Clear, TypeOK, store, batch, touch
<1>13. CASE Read
  BY <1>13 DEF Read, TypeOK, store, batch, touch
<1>14. CASE Fill
  BY <1>14 DEF Fill, TypeOK, store, batch, touch
<1>15. CASE Expire
  BY <1>15 DEF Expire, Clear, TypeOK, store, batch, touch
<1>16. CASE UNCHANGED vars
  BY <1>16 DEF vars, TypeOK, store, batch, view, touch
<1>17. ASSUME NEW t \in Threads, UpsertFails(t) PROVE TypeOK'
  BY <1>17 DEF UpsertFails, TypeOK, Goto, store, batch, view
<1>18. ASSUME NEW t \in Threads, TouchPruneFails(t) PROVE TypeOK'
  <2>1. ahead' \in [Threads -> [clear : BOOLEAN, prune : BOOLEAN]]
    BY <1>18, PlanAt DEF TouchPruneFails, Leave
  <2>2. pc' \in [Threads -> {"idle", "write", "account", "clear", "prune", "commit"}]
        /\ \A u \in Threads : pc'[u] \in {"write", "account"} => item'[u] # NoItem
    BY <1>18 DEF TouchPruneFails, Leave, TypeOK, Goto
  <2>3. forgotten' \in Nat
    BY <1>18, LimitsAssumption DEF TouchPruneFails, TypeOK
  <2>4. QED
    BY <1>18, <2>1, <2>2, <2>3 DEF TouchPruneFails, TypeOK, batch, view
<1>19. CASE Restart
  <2>1. forgotten' \in Nat
    BY <1>19, Finite, PlusNat DEF Restart, TypeOK
  <2>2. opCount' \in 0 .. PruneInterval - 1 /\ pending' \in Nat
    BY <1>19, LimitsAssumption DEF Restart
  <2>3. NoPlan \in [clear : BOOLEAN, prune : BOOLEAN]
    BY DEF NoPlan
  <2>4. QED
    BY <1>19, <2>1, <2>2, <2>3 DEF Restart, TypeOK
<1>20. QED
  BY <1>1, <1>2, <1>3, <1>4, <1>5, <1>6, <1>7, <1>8, <1>9, <1>10, <1>11, <1>12, <1>13,
     <1>14, <1>15, <1>16, <1>17, <1>18, <1>19 DEF Next, Step

\* Every step keeps the plans within their touch.
LEMMA NextPlan == TypeOK /\ PlanInv /\ [Next]_vars => PlanInv'
<1> SUFFICES ASSUME TypeOK, PlanInv, [Next]_vars PROVE PlanInv'
  OBVIOUS
<1>1. ASSUME NEW t \in Threads, NEW i \in Nodes \cup Edges, Touch(t, i) PROVE PlanInv'
  BY <1>1 DEF Touch, Goto, TypeOK, PlanInv
<1>2. ASSUME NEW t \in Threads, Upsert(t) PROVE PlanInv'
  BY <1>2 DEF Upsert, Goto, TypeOK, PlanInv
<1>3. ASSUME NEW t \in Threads, Account(t) PROVE PlanInv'
  <2>1. pc' = [pc EXCEPT ![t] = "clear"] /\ \A u \in Threads \ {t} : ahead'[u] = ahead[u]
    BY <1>3 DEF Account, Counted, Goto, Plan, TypeOK
  <2>2. QED
    BY <2>1 DEF TypeOK, PlanInv
<1>4. ASSUME NEW t \in Threads, TouchClear(t) PROVE PlanInv'
  <2>1. pc' = [pc EXCEPT ![t] = "prune"] /\ \A u \in Threads \ {t} : ahead'[u] = ahead[u]
    BY <1>4 DEF TouchClear, Goto, Plan, TypeOK
  <2>2. ~ahead'[t].clear
    BY <1>4 DEF TouchClear, Plan, TypeOK
  <2>3. QED
    BY <2>1, <2>2 DEF TypeOK, PlanInv
<1>5. ASSUME NEW t \in Threads, TouchPrune(t) \/ TouchPruneFails(t) PROVE PlanInv'
  <2>1. pc' = [pc EXCEPT ![t] = "idle"] /\ \A u \in Threads \ {t} : ahead'[u] = ahead[u]
    BY <1>5 DEF TouchPrune, TouchPruneFails, Leave, Goto, Plan, TypeOK
  <2>2. ahead'[t] = NoPlan
    BY <1>5 DEF TouchPrune, TouchPruneFails, Leave, Plan, TypeOK, NoPlan
  <2>3. QED
    BY <2>1, <2>2 DEF TypeOK, PlanInv
<1>6. ASSUME NEW t \in Threads, BeginBatch(t) \/ RollbackBatch(t) PROVE PlanInv'
  BY <1>6 DEF BeginBatch, RollbackBatch, PlanInv
<1>7. ASSUME NEW t \in Threads, CommitBatch(t) \/ CommitClear(t) PROVE PlanInv'
  BY <1>7 DEF CommitBatch, EndBatch, CommitClear, Goto, TypeOK, PlanInv
<1>8. CASE UNCHANGED touch
  BY <1>8 DEF touch, PlanInv
<1>9. ASSUME NEW t \in Threads, UpsertFails(t) PROVE PlanInv'
  BY <1>9 DEF UpsertFails, Goto, TypeOK, PlanInv
<1>10. CASE Restart
  BY <1>10 DEF Restart, NoPlan, PlanInv
<1>11. QED
  BY <1>1, <1>2, <1>3, <1>4, <1>5, <1>6, <1>7, <1>8, <1>9, <1>10
  DEF Next, Step, vars, PruneNow, PruneScheduled, ScheduledClear, Read, Fill, Expire

\* Type correctness of the graph service and its cache.
THEOREM TypeCorrect == Spec => []TypeOK
BY InitType, NextType, PTL DEF Spec

-----------------------------------------------------------------------------
\* Every step that outdates the cache, or takes away the invalidation a stale
\* cache was waiting for, has another one on its way or is one of the losses.
LEMMA NextStale ==
  TypeOK /\ PlanInv /\ StaleHasCause /\ [Next]_vars => StaleHasCause'
<1> SUFFICES ASSUME TypeOK, PlanInv, StaleHasCause, [Next]_vars PROVE StaleHasCause'
  OBVIOUS
<1>1. ASSUME NEW t \in Threads, NEW i \in Nodes \cup Edges, Touch(t, i)
      PROVE  StaleHasCause'
  BY <1>1 DEF Touch, Goto, batch, view, TypeOK, StaleHasCause, ClearAhead
<1>2. ASSUME NEW t \in Threads, Upsert(t) PROVE StaleHasCause'
  <2>1. pc'[t] = "account"
    BY <1>2 DEF Upsert, Goto, TypeOK
  <2>2. QED
    BY <2>1 DEF StaleHasCause, ClearAhead
<1>3. ASSUME NEW t \in Threads, Account(t) PROVE StaleHasCause'
  <2>1. batchMode' = batchMode /\ (batchMode => pending' > 0)
    BY <1>3 DEF Account, Counted, TypeOK
  <2>2. ahead'[t].clear = ~batchMode
    BY <1>3 DEF Account, Plan, TypeOK
  <2>3. QED
    BY <2>1, <2>2 DEF TypeOK, StaleHasCause, ClearAhead
<1>4. ASSUME NEW t \in Threads, TouchClear(t) PROVE StaleHasCause'
  <2>1. CASE ahead[t].clear
    BY <1>4, <2>1 DEF TouchClear, Clear, StaleHasCause
  <2>2. CASE ~ahead[t].clear
    <3>1. UNCHANGED <<view, batch, sweeping>>
      BY <1>4, <2>2 DEF TouchClear
    <3>2. \A u \in Threads : pc'[u] = pc[u] \/ pc[u] = "clear"
      BY <1>4 DEF TouchClear, Goto, TypeOK
    <3>3. \A u \in Threads : ahead[u].clear => ahead'[u].clear
      BY <1>4, <2>2 DEF TouchClear, Plan, TypeOK
    <3>4. QED
      BY <3>1, <3>2, <3>3 DEF view, batch, StaleHasCause, ClearAhead
  <2>3. QED
    BY <2>1, <2>2
<1>5. ASSUME NEW t \in Threads, TouchPrune(t) \/ TouchPruneFails(t) PROVE StaleHasCause'
  <2>1. UNCHANGED <<batch, sweeping>> /\ (cache' = cache \/ excused')
        /\ (excused => excused')
    <3>1. CASE TouchPrune(t)
      BY <3>1 DEF TouchPrune, view
    <3>2. CASE TouchPruneFails(t)
      BY <3>2 DEF TouchPruneFails, view
    <3>3. QED
      BY <1>5, <3>1, <3>2
  <2>2. \A u \in Threads : pc'[u] = pc[u] \/ pc[u] = "prune"
    BY <1>5 DEF TouchPrune, TouchPruneFails, Leave, Goto, TypeOK
  <2>3. \A u \in Threads : ahead[u].clear => ahead'[u].clear
    BY <1>5 DEF TouchPrune, TouchPruneFails, Leave, Plan, TypeOK, PlanInv
  <2>4. QED
    BY <2>1, <2>2, <2>3 DEF batch, StaleHasCause, ClearAhead
<1>6. ASSUME NEW t \in Threads, BeginBatch(t) PROVE StaleHasCause'
  BY <1>6 DEF BeginBatch, TypeOK, StaleHasCause, ClearAhead
<1>7. ASSUME NEW t \in Threads, CommitBatch(t) PROVE StaleHasCause'
  <2>1. batchMode /\ pending > 0 => pc'[t] = "commit"
    BY <1>7 DEF CommitBatch, EndBatch, Goto, TypeOK
  <2>2. \A u \in Threads : pc'[u] = pc[u] \/ pc[u] = "idle"
    BY <1>7 DEF CommitBatch, EndBatch, Goto, TypeOK
  <2>3. QED
    BY <1>7, <2>1, <2>2 DEF CommitBatch, view, StaleHasCause, ClearAhead
<1>8. ASSUME NEW t \in Threads, CommitClear(t) PROVE StaleHasCause'
  BY <1>8 DEF CommitClear, Clear, StaleHasCause
<1>9. ASSUME NEW t \in Threads, RollbackBatch(t) PROVE StaleHasCause'
  BY <1>9 DEF RollbackBatch, EndBatch, StaleHasCause, ClearAhead
<1>10. CASE PruneNow
  BY <1>10 DEF PruneNow, batch, touch, StaleHasCause, ClearAhead
<1>11. CASE PruneScheduled
  <2>1. cache' = cache \/ sweeping'
    BY <1>11, PruneAt DEF PruneScheduled
  <2>2. QED
    BY <1>11, <2>1 DEF PruneScheduled, batch, touch, StaleHasCause, ClearAhead
<1>12. CASE ScheduledClear \/ Expire
  BY <1>12 DEF ScheduledClear, Expire, Clear, StaleHasCause
<1>13. CASE Read
  BY <1>13 DEF Read, batch, touch, StaleHasCause, ClearAhead
<1>14. CASE Fill
  BY <1>14 DEF Fill, StaleHasCause
<1>15. CASE UNCHANGED vars
  BY <1>15 DEF vars, batch, view, touch, StaleHasCause, ClearAhead
<1>16. ASSUME NEW t \in Threads, UpsertFails(t) PROVE StaleHasCause'
  <2>1. UNCHANGED <<view, batch, ahead, sweeping>>
    BY <1>16 DEF UpsertFails
  <2>2. \A u \in Threads : pc'[u] = pc[u] \/ pc[u] = "write"
    BY <1>16 DEF UpsertFails, Goto, TypeOK
  <2>3. QED
    BY <2>1, <2>2 DEF view, batch, StaleHasCause, ClearAhead
<1>17. CASE Restart
  BY <1>17 DEF Restart, StaleHasCause
<1>18. QED
  BY <1>1, <1>2, <1>3, <1>4, <1>5, <1>6, <1>7, <1>8, <1>9, <1>10, <1>11, <1>12, <1>13,
     <1>14, <1>15, <1>16, <1>17 DEF Next, Step

\* Whatever threads touch, batch and prune, and however readers interleave: the
\* cache of the graph API is stale only while an invalidation is due or lost.
THEOREM StaleOnlyWithCause == Spec => []StaleHasCause
<1>1. Init => TypeOK /\ PlanInv /\ StaleHasCause
  BY InitType DEF Init, StaleHasCause
<1>2. TypeOK /\ PlanInv /\ StaleHasCause /\ [Next]_vars => (TypeOK /\ PlanInv /\ StaleHasCause)'
  BY NextType, NextPlan, NextStale
<1>3. QED
  BY <1>1, <1>2, PTL DEF Spec

-----------------------------------------------------------------------------
\* A prune takes the edges of every node it takes.
LEMMA PruneDangling == DanglingHasCause /\ Prune => DanglingHasCause'
<1> SUFFICES ASSUME DanglingHasCause, Prune, NEW e \in edges'
             PROVE  Ends(e) \subseteq nodes' \/ e \in loose'
  BY DEF DanglingHasCause
<1>1. PICK topN \in TopNodes, left \in SUBSET edges :
        /\ \A n \in topN \ nodes' : n \notin Ends(e)
        /\ e \in left
        /\ Ends(e) \cap (nodes \ topN) = {}
  BY DEF Prune, PrunedTo
<1>2. CASE Ends(e) \subseteq nodes
  BY <1>1, <1>2
<1>3. CASE e \in loose
  BY <1>3 DEF Prune
<1>4. QED
  BY <1>1, <1>2, <1>3 DEF DanglingHasCause

\* Writes and prunes leave no edge without its nodes but the loose ones.
LEMMA NextDangling == TypeOK /\ DanglingHasCause /\ [Next]_vars => DanglingHasCause'
<1> SUFFICES ASSUME TypeOK, DanglingHasCause, [Next]_vars PROVE DanglingHasCause'
  OBVIOUS
<1>1. ASSUME NEW t \in Threads, Upsert(t) PROVE DanglingHasCause'
  <2>1. CASE nodes' = nodes \cup {item[t]} /\ edges' = edges
             /\ loose' = {e \in loose : ~(Ends(e) \subseteq nodes')}
    BY <2>1 DEF DanglingHasCause
  <2>2. CASE nodes' = nodes /\ edges' = edges \cup {item[t]}
             /\ loose' = loose \cup {e \in {item[t]} : ~(Ends(e) \subseteq nodes)}
    BY <2>2 DEF DanglingHasCause
  <2>3. QED
    BY <1>1, <2>1, <2>2 DEF Upsert
<1>2. ASSUME NEW t \in Threads, TouchPrune(t) PROVE DanglingHasCause'
  <2>1. CASE Prune
    BY <2>1, PruneDangling
  <2>2. CASE UNCHANGED store
    BY <2>2 DEF store, DanglingHasCause
  <2>3. QED
    BY <1>2, <2>1, <2>2 DEF TouchPrune
<1>3. CASE PruneNow \/ PruneScheduled
  BY <1>3, PruneDangling DEF PruneNow, PruneScheduled
<1>4. CASE UNCHANGED <<nodes, edges, loose>>
  BY <1>4 DEF DanglingHasCause
<1>5. QED
  BY <1>1, <1>2, <1>3, <1>4
  DEF Next, Step, vars, store, Touch, UpsertFails, Account, Counted, TouchClear,
      TouchPruneFails, Restart, BeginBatch, CommitBatch, CommitClear,
      RollbackBatch, ScheduledClear, Read, Fill, Expire

\* For any graph and limits: GraphStore.prune_graph leaves no edge behind whose
\* node it takes, and other edges dangle only if they were written so.
THEOREM PruneLeavesNoDangling == Spec => []DanglingHasCause
<1>1. Init => TypeOK /\ DanglingHasCause
  BY InitType DEF Init, DanglingHasCause
<1>2. TypeOK /\ DanglingHasCause /\ [Next]_vars => (TypeOK /\ DanglingHasCause)'
  BY NextType, NextDangling
<1>3. QED
  BY <1>1, <1>2, PTL DEF Spec

-----------------------------------------------------------------------------
\* One more prune is due: one more interval.
LEMMA OneMore ==
  ASSUME NEW n \in Nat
  PROVE  PruneInterval * (n + 1) = PruneInterval * n + PruneInterval
BY LimitsAssumption

\* What adds no node and counts nothing keeps the bound.
LEMMA BoundFrame ==
  ASSUME TypeOK, NodesBounded, nodes' \subseteq nodes, UNCHANGED <<opCount, forgotten>>,
         Uncounted' = Uncounted, DuePrunes' = DuePrunes
  PROVE  NodesBounded'
<1>1. Cardinality(nodes') \in Nat /\ Cardinality(nodes') <= Cardinality(nodes)
  BY Finite, FS_Subset, FS_CardinalityType
<1>2. NodesBounded <=> Cardinality(nodes) <= MaxNodes + opCount + Cardinality(Uncounted)
                          + PruneInterval * Cardinality(DuePrunes) + forgotten
  BY DEF NodesBounded
<1>3. NodesBounded' <=> Cardinality(nodes') <= MaxNodes + opCount' + Cardinality(Uncounted')
                          + PruneInterval * Cardinality(DuePrunes') + forgotten'
  BY DEF NodesBounded
<1>4. QED
  BY <1>1, <1>2, <1>3, Finite, LimitsAssumption DEF TypeOK

\* A prune brings the table back to max_nodes.
LEMMA PruneBound == ASSUME TypeOK, Prune PROVE Cardinality(nodes') <= MaxNodes
<1>1. PICK topN \in TopNodes : nodes' \subseteq topN
  BY DEF Prune, PrunedTo
<1>2. topN \subseteq nodes /\ IsFiniteSet(topN) /\ Cardinality(topN) <= MaxNodes
  BY <1>1, Finite, FS_Subset, LimitsAssumption DEF TopNodes
<1>3. Cardinality(nodes') <= Cardinality(topN) /\ Cardinality(nodes') \in Nat
      /\ Cardinality(topN) \in Nat
  BY <1>1, <1>2, FS_Subset, FS_CardinalityType
<1>4. QED
  BY <1>2, <1>3, LimitsAssumption

\* Every step keeps the bound: a node more is a touch more to count, and a
\* counter that is reset leaves a prune that is due.
LEMMA NextBounded == TypeOK /\ PlanInv /\ NodesBounded /\ [Next]_vars => NodesBounded'
<1> SUFFICES ASSUME TypeOK, PlanInv, NodesBounded, [Next]_vars PROVE NodesBounded'
  OBVIOUS
<1>1. TypeOK'
  BY NextType
<1>2. NodesBounded <=> Cardinality(nodes) <= MaxNodes + opCount + Cardinality(Uncounted)
                          + PruneInterval * Cardinality(DuePrunes) + forgotten
  BY DEF NodesBounded
<1>3. NodesBounded' <=> Cardinality(nodes') <= MaxNodes + opCount' + Cardinality(Uncounted')
                          + PruneInterval * Cardinality(DuePrunes') + forgotten'
  BY DEF NodesBounded
<1>4. /\ Cardinality(nodes') \in Nat /\ Cardinality(Uncounted') \in Nat
      /\ Cardinality(DuePrunes') \in Nat /\ PruneInterval * Cardinality(DuePrunes') \in Nat
  <2>1. IsFiniteSet(nodes') /\ IsFiniteSet(Uncounted') /\ IsFiniteSet(DuePrunes')
    BY <1>1, GraphAssumption, FS_Subset DEF TypeOK, Uncounted, DuePrunes
  <2>2. ASSUME NEW n \in Nat PROVE PruneInterval * n \in Nat
    BY LimitsAssumption
  <2>3. QED
    BY <2>1, <2>2, FS_CardinalityType
<1>5. ASSUME NEW t \in Threads, Upsert(t) PROVE NodesBounded'
  <2>1. DuePrunes' = DuePrunes /\ opCount' = opCount /\ forgotten' = forgotten
    BY <1>5 DEF Upsert, DuePrunes
  <2>2. CASE item[t] \in Nodes /\ nodes' = nodes \cup {item[t]}
    <3>1. Uncounted' = Uncounted \cup {t} /\ t \notin Uncounted
      BY <1>5, <2>2 DEF Upsert, Goto, Uncounted, TypeOK
    <3>2. Cardinality(Uncounted') = Cardinality(Uncounted) + 1
      BY <3>1, Finite, FS_AddElement
    <3>3. Cardinality(nodes') <= Cardinality(nodes) + 1
      <4>1. CASE item[t] \in nodes
        <5>1. nodes' = nodes
          BY <2>2, <4>1
        <5>2. QED
          BY <5>1, Finite
      <4>2. CASE item[t] \notin nodes
        <5>1. Cardinality(nodes \cup {item[t]}) = Cardinality(nodes) + 1
          BY <4>2, Finite, FS_AddElement
        <5>2. QED
          BY <2>2, <5>1, Finite
      <4>3. QED
        BY <4>1, <4>2
    <3>4. QED
      BY <1>2, <1>3, <1>4, <2>1, <3>2, <3>3, Finite, LimitsAssumption DEF TypeOK
  <2>3. CASE item[t] \in Edges /\ nodes' = nodes
    <3>1. Uncounted' = Uncounted
      BY <1>5, <2>3, GraphAssumption DEF Upsert, Goto, Uncounted, TypeOK
    <3>2. QED
      BY <2>1, <2>3, <3>1, BoundFrame
  <2>4. QED
    BY <1>5, <2>2, <2>3 DEF Upsert
<1>6. ASSUME NEW t \in Threads, Account(t) PROVE NodesBounded'
  <2>1. nodes' = nodes /\ Uncounted' = Uncounted \ {t} /\ forgotten' = forgotten
    BY <1>6 DEF Account, Counted, Goto, Uncounted, TypeOK, store
  <2>2. t \notin DuePrunes
    BY <1>6 DEF Account, PlanInv, NoPlan, DuePrunes
  <2>3. CASE item[t] \notin Nodes
    <3>1. Uncounted' = Uncounted
      BY <2>1, <2>3 DEF Uncounted
    <3>2. ~ahead'[t].prune /\ \A u \in Threads \ {t} : ahead'[u] = ahead[u]
      BY <1>6, <2>3 DEF Account, Plan, TypeOK
    <3>3. DuePrunes' = DuePrunes
      BY <2>2, <3>2 DEF DuePrunes
    <3>4. opCount' = opCount
      BY <1>6, <2>3 DEF Account
    <3>5. QED
      BY <2>1, <3>1, <3>3, <3>4, BoundFrame
  <2>4. CASE item[t] \in Nodes /\ opCount + 1 < PruneInterval
    <3>1. t \in Uncounted
      BY <1>6, <2>4 DEF Account, Uncounted
    <3>2. Cardinality(Uncounted') = Cardinality(Uncounted) - 1
      BY <2>1, <3>1, Finite, FS_RemoveElement
    <3>3. ~(opCount + 1 >= PruneInterval)
      BY <2>4, LimitsAssumption DEF TypeOK
    <3>4. ~ahead'[t].prune /\ \A u \in Threads \ {t} : ahead'[u] = ahead[u]
      BY <1>6, <3>3 DEF Account, Plan, TypeOK
    <3>5. DuePrunes' = DuePrunes
      BY <2>2, <3>4 DEF DuePrunes
    <3>6. opCount' = opCount + 1
      BY <1>6, <2>4, <3>3 DEF Account
    <3>7. QED
      BY <1>2, <1>3, <1>4, <2>1, <3>2, <3>5, <3>6, Finite, LimitsAssumption DEF TypeOK
  <2>5. CASE item[t] \in Nodes /\ opCount + 1 >= PruneInterval
    <3>1. t \in Uncounted
      BY <1>6, <2>5 DEF Account, Uncounted
    <3>2. Cardinality(Uncounted') = Cardinality(Uncounted) - 1
      BY <2>1, <3>1, Finite, FS_RemoveElement
    <3>3. ahead'[t].prune /\ \A u \in Threads \ {t} : ahead'[u] = ahead[u]
      BY <1>6, <2>5 DEF Account, Plan, TypeOK
    <3>4. DuePrunes' = DuePrunes \cup {t}
      BY <3>3 DEF DuePrunes
    <3>5. Cardinality(DuePrunes') = Cardinality(DuePrunes) + 1
      BY <2>2, <3>4, Finite, FS_AddElement
    <3>6. PruneInterval * Cardinality(DuePrunes')
            = PruneInterval * Cardinality(DuePrunes) + PruneInterval
      BY <3>5, Finite, OneMore
    <3>7. opCount' = 0 /\ opCount + 1 = PruneInterval
      BY <1>6, <2>5, LimitsAssumption DEF Account, TypeOK
    <3>8. QED
      BY <1>2, <1>3, <1>4, <2>1, <3>2, <3>6, <3>7, Finite, LimitsAssumption DEF TypeOK
  <2>6. QED
    BY <2>3, <2>4, <2>5, LimitsAssumption DEF TypeOK
<1>7. ASSUME NEW t \in Threads, TouchPrune(t) PROVE NodesBounded'
  <2>1. CASE ahead[t].prune
    <3>1. Cardinality(nodes') <= MaxNodes
      BY <1>7, <2>1, PruneBound DEF TouchPrune
    <3>2. QED
      BY <1>1, <1>3, <1>4, <3>1, LimitsAssumption DEF TypeOK
  <2>2. CASE ~ahead[t].prune
    <3>1. nodes' = nodes /\ opCount' = opCount /\ forgotten' = forgotten
      BY <1>7, <2>2 DEF TouchPrune, store
    <3>2. Uncounted' = Uncounted
      BY <1>7 DEF TouchPrune, Leave, Goto, Uncounted, TypeOK
    <3>3. ~ahead'[t].prune /\ \A u \in Threads \ {t} : ahead'[u] = ahead[u]
      BY <1>7 DEF TouchPrune, Leave, Plan, TypeOK
    <3>4. DuePrunes' = DuePrunes
      BY <2>2, <3>3 DEF DuePrunes
    <3>5. QED
      BY <3>1, <3>2, <3>4, BoundFrame
  <2>3. QED
    BY <2>1, <2>2
<1>8. ASSUME NEW t \in Threads, TouchClear(t) PROVE NodesBounded'
  <2>1. Uncounted' = Uncounted
    BY <1>8 DEF TouchClear, Goto, Uncounted, TypeOK
  <2>2. \A u \in Threads : ahead'[u].prune = ahead[u].prune
    BY <1>8 DEF TouchClear, Plan, TypeOK
  <2>3. DuePrunes' = DuePrunes
    BY <2>2 DEF DuePrunes
  <2>4. QED
    BY <1>8, <2>1, <2>3, BoundFrame DEF TouchClear, store
<1>9. ASSUME NEW t \in Threads, NEW i \in Nodes \cup Edges, Touch(t, i) PROVE NodesBounded'
  <2>1. Uncounted' = Uncounted
    BY <1>9 DEF Touch, Goto, Uncounted, TypeOK
  <2>2. QED
    BY <1>9, <2>1, BoundFrame DEF Touch, store, DuePrunes
<1>10. ASSUME NEW t \in Threads, CommitBatch(t) \/ CommitClear(t) PROVE NodesBounded'
  <2>1. Uncounted' = Uncounted
    BY <1>10 DEF CommitBatch, EndBatch, CommitClear, Goto, Uncounted, TypeOK
  <2>2. QED
    BY <1>10, <2>1, BoundFrame DEF CommitBatch, CommitClear, store, DuePrunes
<1>11. CASE UNCHANGED <<nodes, forgotten, opCount, pc, item, ahead>>
  BY <1>11, BoundFrame DEF Uncounted, DuePrunes
<1>12. CASE PruneNow \/ PruneScheduled
  <2>1. Cardinality(nodes') <= MaxNodes
    BY <1>12, PruneBound DEF PruneNow, PruneScheduled
  <2>2. QED
    BY <1>1, <1>3, <1>4, <2>1, LimitsAssumption DEF TypeOK
<1>13. ASSUME NEW t \in Threads, UpsertFails(t) PROVE NodesBounded'
  <2>1. Uncounted' = Uncounted
    BY <1>13 DEF UpsertFails, Goto, Uncounted, TypeOK
  <2>2. QED
    BY <1>13, <2>1, BoundFrame DEF UpsertFails, store, DuePrunes
<1>14. ASSUME NEW t \in Threads, TouchPruneFails(t) PROVE NodesBounded'
  <2>1. nodes' = nodes /\ opCount' = opCount /\ forgotten' = forgotten + PruneInterval
    BY <1>14 DEF TouchPruneFails
  <2>2. Uncounted' = Uncounted
    BY <1>14 DEF TouchPruneFails, Leave, Goto, Uncounted, TypeOK
  <2>3. ~ahead'[t].prune /\ \A u \in Threads \ {t} : ahead'[u] = ahead[u]
    BY <1>14 DEF TouchPruneFails, Leave, Plan, TypeOK
  <2>4. ahead[t].prune
    BY <1>14 DEF TouchPruneFails
  <2>5. Cardinality(DuePrunes) = Cardinality(DuePrunes') + 1
    <3>1. t \in DuePrunes /\ DuePrunes' = DuePrunes \ {t}
      BY <2>3, <2>4 DEF DuePrunes
    <3>2. Cardinality(DuePrunes') = Cardinality(DuePrunes) - 1
      BY <3>1, Finite, FS_RemoveElement
    <3>3. QED
      BY <3>2, <1>4, Finite
  <2>6. PruneInterval * Cardinality(DuePrunes)
          = PruneInterval * Cardinality(DuePrunes') + PruneInterval
    BY <1>4, <2>5, OneMore
  <2>7. QED
    BY <1>2, <1>3, <1>4, <2>1, <2>2, <2>6, Finite, LimitsAssumption DEF TypeOK
<1>15. CASE Restart
  <2>1. nodes' = nodes /\ opCount' = 0
        /\ forgotten' = forgotten + opCount + Cardinality(Uncounted)
                          + PruneInterval * Cardinality(DuePrunes)
    BY <1>15 DEF Restart
  <2>2. QED
    BY <1>1, <1>2, <1>3, <1>4, <2>1, Finite, LimitsAssumption DEF TypeOK
<1>16. QED
  BY <1>5, <1>6, <1>7, <1>8, <1>9, <1>10, <1>11, <1>12, <1>13, <1>14, <1>15
  DEF Next, Step, vars, store, touch, BeginBatch, RollbackBatch, ScheduledClear, Read,
      Fill, Expire

\* For any number of threads and any interval, across restarts and prunes that
\* raise: the node table outgrows max_nodes by the touches not yet counted, an
\* interval for each prune that is due, and what has been forgotten since.
THEOREM TableBounded == Spec => []NodesBounded
<1>1. Init => NodesBounded
  <2> SUFFICES ASSUME Init PROVE NodesBounded
    OBVIOUS
  <2>1. TypeOK
    BY InitType
  <2>2. Cardinality(nodes) = 0
    BY FS_EmptySet DEF Init
  <2>3. QED
    BY <2>1, <2>2, Finite, PlusNat, LimitsAssumption DEF NodesBounded, TypeOK
<1>2. Init => TypeOK /\ PlanInv /\ NodesBounded
  BY <1>1, InitType
<1>3. TypeOK /\ PlanInv /\ NodesBounded /\ [Next]_vars => (TypeOK /\ PlanInv /\ NodesBounded)'
  BY NextType, NextPlan, NextBounded
<1>4. QED
  BY <1>2, <1>3, PTL DEF Spec
=============================================================================

---------------------------- MODULE BrainGraph ----------------------------
(***************************************************************************)
(* The brain graph: threads touch nodes and edges, alone or in a batch,    *)
(* over a SQLite store that is pruned every so many touches, by a daemon   *)
(* thread and from the API, with a cache of graph states in front of the   *)
(* readers (copilot_core/brain_graph/service.py, store.py, api.py, and the *)
(* callers in ingest/event_processor.py and integration/feedback.py).      *)
(*                                                                         *)
(* A score or weight is abstracted to whether its row exists: it decays    *)
(* with time, so a prune may find any row too weak and rank the rows in    *)
(* any order.  The cache is abstracted to one entry, which is "outdated"   *)
(* once the store was written after the entry's reading began.  The store  *)
(* may raise, and the process may end at any step: rows stay, all else     *)
(* starts anew.                                                            *)
(***************************************************************************)
EXTENDS Naturals, FiniteSets

CONSTANTS
  Nodes,
  Edges,           \* pairs of nodes
  Threads,
  MaxNodes, MaxEdges,
  PruneInterval,   \* _prune_interval
  MaxPending,      \* bound: no touch starts with more invalidations pending
  MaxForgotten,    \* bound: no restart and no failing prune over it
  NoItem

ASSUME LimitsAssumption ==
  /\ MaxNodes \in Nat /\ MaxEdges \in Nat /\ MaxPending \in Nat
  /\ MaxForgotten \in Nat
  /\ PruneInterval \in Nat \ {0}
ASSUME GraphAssumption ==
  /\ IsFiniteSet(Nodes) /\ IsFiniteSet(Threads)
  /\ Edges \subseteq Nodes \X Nodes
  /\ Nodes \cap Edges = {}
  /\ NoItem \notin Nodes \cup Edges

VARIABLES
  nodes, edges,     \* rows of the two tables
  batchMode,        \* _batch_mode
  pending,          \* _pending_invalidations
  opCount,          \* _operation_count
  cache,            \* brain_graph_cache
  pc,               \* where each thread is in a touch or at the end of a batch
  item,             \* the node or edge it touches, until it is counted
  inBatch,          \* whether it is between begin_batch and the end
  ahead,            \* its should_invalidate and should_prune
  sweeping,         \* the daemon has pruned and not yet invalidated
  reader,           \* what a request for the graph state has read
  excused,          \* history: an invalidation was lost in a way the code has
  loose,            \* history: edges written while an end of theirs was missing
  forgotten         \* history: touches since the last prune that no counter and
                    \* no prune still stands for

store == <<nodes, edges, loose, forgotten>>
batch == <<batchMode, pending>>
view == <<cache, reader, excused>>
touch == <<pc, item, inBatch, ahead>>
vars == <<store, batch, opCount, view, touch, sweeping>>

NoPlan == [clear |-> FALSE, prune |-> FALSE]
Goto(t, l) == pc' = [pc EXCEPT ![t] = l]
Plan(t, c, p) == ahead' = [ahead EXCEPT ![t] = [clear |-> c, prune |-> p]]
Ends(e) == {e[1], e[2]}

\* A write to the store: what is cached or being read may not contain it.
Outdate ==
  /\ cache' = IF cache = "current" THEN "outdated" ELSE cache
  /\ reader' = IF reader = "current" THEN "outdated" ELSE reader

\* _invalidate_graph_cache(), and POST /cache/clear
Clear == cache' = "empty" /\ excused' = FALSE /\ UNCHANGED reader

-----------------------------------------------------------------------------
(* touch_node() and touch_edge() *)

\* get_node() or get_edges(): what is read changes only the score written.
Touch(t, i) ==
  /\ pc[t] = "idle"
  /\ pending < MaxPending
  /\ item' = [item EXCEPT ![t] = i]
  /\ Goto(t, "write")
  /\ UNCHANGED <<store, batch, opCount, view, inBatch, ahead, sweeping>>

\* upsert_node(), upsert_edge(): foreign keys are declared but not enforced.
Upsert(t) ==
  /\ pc[t] = "write"
  /\ \/ /\ item[t] \in Nodes
        /\ nodes' = nodes \cup {item[t]}
        /\ loose' = {e \in loose : ~(Ends(e) \subseteq nodes')}
        /\ UNCHANGED edges
     \/ /\ item[t] \in Edges
        /\ edges' = edges \cup {item[t]}
        /\ loose' = loose \cup {e \in {item[t]} : ~(Ends(e) \subseteq nodes)}
        /\ UNCHANGED nodes
  /\ Outdate
  /\ Goto(t, "account")
  /\ UNCHANGED <<forgotten, batch, opCount, excused, item, inBatch, ahead, sweeping>>

\* The store raises before the row is written, and the touch with it.
UpsertFails(t) ==
  /\ pc[t] = "write"
  /\ item' = [item EXCEPT ![t] = NoItem]
  /\ Goto(t, "idle")
  /\ UNCHANGED <<store, batch, opCount, view, inBatch, ahead, sweeping>>

Counted(t) ==
  /\ item' = [item EXCEPT ![t] = NoItem]
  /\ Goto(t, "clear")
  /\ UNCHANGED <<store, batchMode, view, inBatch, sweeping>>

\* Mutant of Account: inside a batch an edge is not counted as pending.
AccountNodes(t) ==
  /\ pc[t] = "account"
  /\ LET node == item[t] \in Nodes
         full == node /\ opCount + 1 >= PruneInterval
     IN  /\ pending' = IF batchMode /\ node THEN pending + 1 ELSE pending
         /\ opCount' = IF full THEN 0 ELSE IF node THEN opCount + 1 ELSE opCount
         /\ Plan(t, ~batchMode, full)
  /\ Counted(t)

\* Mutant of Account: the prune comes one operation late.
AccountLate(t) ==
  /\ pc[t] = "account"
  /\ LET node == item[t] \in Nodes
         full == node /\ opCount + 1 > PruneInterval
     IN  /\ pending' = IF batchMode THEN pending + 1 ELSE pending
         /\ opCount' = IF full THEN 0 ELSE IF node THEN opCount + 1 ELSE opCount
         /\ Plan(t, ~batchMode, full)
  /\ Counted(t)

\* Mutant of Account: the counter is reset without a prune.
AccountUnpruned(t) ==
  /\ pc[t] = "account"
  /\ LET node == item[t] \in Nodes
         full == node /\ opCount + 1 >= PruneInterval
     IN  /\ pending' = IF batchMode THEN pending + 1 ELSE pending
         /\ opCount' = IF full THEN 0 ELSE IF node THEN opCount + 1 ELSE opCount
         /\ Plan(t, ~batchMode, FALSE)
  /\ Counted(t)

\* Under the lock: the batch flag counts whichever thread set it; nodes are
\* counted towards the next prune, edges are not.
Account(t) ==
  /\ pc[t] = "account"
  /\ LET node == item[t] \in Nodes
         full == node /\ opCount + 1 >= PruneInterval
     IN  /\ pending' = IF batchMode THEN pending + 1 ELSE pending
         /\ opCount' = IF full THEN 0 ELSE IF node THEN opCount + 1 ELSE opCount
         /\ Plan(t, ~batchMode, full)
  /\ Counted(t)

TouchClear(t) ==
  /\ pc[t] = "clear"
  /\ IF ahead[t].clear THEN Clear ELSE UNCHANGED view
  /\ Plan(t, FALSE, ahead[t].prune)
  /\ Goto(t, "prune")
  /\ UNCHANGED <<store, batch, opCount, item, inBatch, sweeping>>

-----------------------------------------------------------------------------
(* prune_graph(): one transaction *)

\* The nodes of the highest scores, as many as may stay.
TopNodes ==
  IF Cardinality(nodes) <= MaxNodes
  THEN {nodes} ELSE {topN \in SUBSET nodes : Cardinality(topN) = MaxNodes}

\* Mutant of PrunedTo: the edges of nodes over the limit are left.
PrunedToEdgesLeft(ns, es) ==
  \E topN \in TopNodes :
    /\ ns \subseteq topN
    /\ Cardinality(es) <= MaxEdges
    /\ \A n \in topN \ ns, e \in es : n \notin Ends(e)

\* The strongest edges stay, MaxEdges at most; then weak nodes without edges
\* go, and the nodes over the limit with the edges they have.
PrunedTo(ns, es) ==
  \E topN \in TopNodes :
    /\ ns \subseteq topN
    /\ \E left \in SUBSET edges :
         /\ Cardinality(left) <= MaxEdges
         /\ \A n \in topN \ ns, e \in left : n \notin Ends(e)
         /\ es = {e \in left : Ends(e) \cap (nodes \ topN) = {}}

Prune ==
  \E ns \in SUBSET nodes, es \in SUBSET edges :
    /\ PrunedTo(ns, es)
    /\ nodes' = ns
    /\ edges' = es
    /\ loose' = loose \cap es
    /\ forgotten' = 0
    /\ IF ns = nodes /\ es = edges THEN UNCHANGED <<cache, reader>> ELSE Outdate

\* The touch ends, by returning or by an exception.
Leave(t) ==
  /\ Plan(t, FALSE, FALSE)
  /\ Goto(t, "idle")

\* The touch prunes after it has invalidated; then it broadcasts and returns.
TouchPrune(t) ==
  /\ pc[t] = "prune"
  /\ IF ahead[t].prune
     THEN Prune /\ excused' = (excused \/ cache' # cache)
     ELSE UNCHANGED <<store, view>>
  /\ Leave(t)
  /\ UNCHANGED <<batch, opCount, item, inBatch, sweeping>>

\* The prune raises and is rolled back: the counter has been reset, and the next
\* prune is a whole interval away.
TouchPruneFails(t) ==
  /\ pc[t] = "prune" /\ ahead[t].prune
  /\ forgotten' = forgotten + PruneInterval
  /\ forgotten' <= MaxForgotten
  /\ Leave(t)
  /\ UNCHANGED <<nodes, edges, loose, batch, opCount, view, item, inBatch, sweeping>>

\* prune_now(), for POST /prune: nothing is invalidated.  When it raises, or
\* the daemon's prune does, nothing has changed.
PruneNow ==
  /\ Prune
  /\ excused' = (excused \/ cache' # cache)
  /\ UNCHANGED <<batch, opCount, touch, sweeping>>

\* The daemon invalidates only if the prune removed something.
PruneScheduled ==
  /\ ~sweeping
  /\ Prune
  /\ sweeping' = (<<nodes', edges'>> # <<nodes, edges>>)
  /\ UNCHANGED <<batch, opCount, touch, excused>>

ScheduledClear ==
  /\ sweeping
  /\ sweeping' = FALSE
  /\ Clear
  /\ UNCHANGED <<store, batch, opCount, touch>>

-----------------------------------------------------------------------------
(* begin_batch(), commit_batch(), rollback_batch() *)

\* What other threads have pending is forgotten: their commit may find nothing.
BeginBatch(t) ==
  /\ pc[t] = "idle" /\ ~inBatch[t]
  /\ batchMode' = TRUE
  /\ pending' = 0
  /\ inBatch' = [inBatch EXCEPT ![t] = TRUE]
  /\ excused' = (excused \/ (pending > 0 /\ cache = "outdated"))
  /\ UNCHANGED <<store, opCount, cache, reader, pc, item, ahead, sweeping>>

EndBatch(t) ==
  /\ pc[t] = "idle" /\ inBatch[t]
  /\ batchMode' = FALSE
  /\ pending' = 0
  /\ inBatch' = [inBatch EXCEPT ![t] = FALSE]

CommitBatch(t) ==
  /\ EndBatch(t)
  /\ IF batchMode /\ pending > 0
     THEN Goto(t, "commit") ELSE UNCHANGED pc
  /\ UNCHANGED <<store, opCount, view, item, ahead, sweeping>>

CommitClear(t) ==
  /\ pc[t] = "commit"
  /\ Clear
  /\ Goto(t, "idle")
  /\ UNCHANGED <<store, batch, opCount, item, inBatch, ahead, sweeping>>

\* The touches stay in the store.
RollbackBatch(t) ==
  /\ EndBatch(t)
  /\ excused' = (excused \/ (pending > 0 /\ cache = "outdated"))
  /\ UNCHANGED <<store, opCount, cache, reader, pc, item, ahead, sweeping>>

-----------------------------------------------------------------------------
(* GET /state and the cache *)

\* A miss, or nocache=1; a hit changes nothing.
Read ==
  /\ reader = "none"
  /\ reader' = "current"
  /\ UNCHANGED <<store, batch, opCount, cache, excused, touch, sweeping>>

Fill ==
  /\ reader # "none"
  /\ cache' = reader
  /\ reader' = "none"
  /\ excused' = (reader = "outdated")
  /\ UNCHANGED <<store, batch, opCount, touch, sweeping>>

\* The entry's TTL has passed, or it was evicted.
Expire ==
  /\ cache # "empty"
  /\ Clear
  /\ UNCHANGED <<store, batch, opCount, touch, sweeping>>

-----------------------------------------------------------------------------
(* The life of the process *)

\* The touches that are written and not counted, and the prunes that are due.
Uncounted == {t \in Threads : pc[t] = "account" /\ item[t] \in Nodes}
DuePrunes == {t \in Threads : ahead[t].prune}

\* The rows persist; the counter starts at 0 and no prune is due any more.
Restart ==
  /\ forgotten' = forgotten + opCount + Cardinality(Uncounted)
                   + PruneInterval * Cardinality(DuePrunes)
  /\ forgotten' <= MaxForgotten
  /\ batchMode' = FALSE /\ pending' = 0
  /\ opCount' = 0
  /\ cache' = "empty" /\ reader' = "none" /\ excused' = FALSE
  /\ pc' = [t \in Threads |-> "idle"]
  /\ item' = [t \in Threads |-> NoItem]
  /\ inBatch' = [t \in Threads |-> FALSE]
  /\ ahead' = [t \in Threads |-> NoPlan]
  /\ sweeping' = FALSE
  /\ UNCHANGED <<nodes, edges, loose>>

Init ==
  /\ nodes = {} /\ edges = {} /\ loose = {} /\ forgotten = 0
  /\ batchMode = FALSE /\ pending = 0
  /\ opCount = 0
  /\ cache = "empty" /\ reader = "none" /\ excused = FALSE
  /\ pc = [t \in Threads |-> "idle"]
  /\ item = [t \in Threads |-> NoItem]
  /\ inBatch = [t \in Threads |-> FALSE]
  /\ ahead = [t \in Threads |-> NoPlan]
  /\ sweeping = FALSE

Step(t) ==
  \/ \E i \in Nodes \cup Edges : Touch(t, i)
  \/ Upsert(t)
  \/ UpsertFails(t)
  \/ Account(t)
  \/ TouchClear(t)
  \/ TouchPrune(t)
  \/ TouchPruneFails(t)
  \/ BeginBatch(t)
  \/ CommitBatch(t)
  \/ CommitClear(t)
  \/ RollbackBatch(t)

Next ==
  \/ \E t \in Threads : Step(t)
  \/ PruneNow
  \/ PruneScheduled
  \/ ScheduledClear
  \/ Read
  \/ Fill
  \/ Expire
  \/ Restart

Spec == Init /\ [][Next]_vars

-----------------------------------------------------------------------------
(* Properties *)

\* Every variable has a value of its kind, and the counter stays below the
\* interval at which the service prunes.
TypeOK ==
  /\ nodes \subseteq Nodes /\ edges \subseteq Edges /\ loose \subseteq edges
  /\ batchMode \in BOOLEAN /\ pending \in Nat /\ forgotten \in Nat
  /\ opCount \in 0 .. PruneInterval - 1
  /\ cache \in {"empty", "current", "outdated"}
  /\ reader \in {"none", "current", "outdated"}
  /\ pc \in [Threads -> {"idle", "write", "account", "clear", "prune", "commit"}]
  /\ item \in [Threads -> Nodes \cup Edges \cup {NoItem}]
  /\ \A t \in Threads : pc[t] \in {"write", "account"} => item[t] # NoItem
  /\ inBatch \in [Threads -> BOOLEAN]
  /\ ahead \in [Threads -> [clear : BOOLEAN, prune : BOOLEAN]]
  /\ sweeping \in BOOLEAN /\ excused \in BOOLEAN

\* An invalidation is still on its way.
ClearAhead ==
  \/ \E t \in Threads : pc[t] \in {"account", "commit"} \/ ahead[t].clear
  \/ batchMode /\ pending > 0
  \/ sweeping

\* The API serves an outdated graph state only while an invalidation is on its
\* way, or after one of the losses the code has: a rolled back batch, a batch
\* begun over the pending invalidations of another, a prune by a touch or from
\* the API, or a request that read before a write and filled the cache after
\* its invalidation.  A touch by itself never leaves the cache stale.
StaleHasCause == cache = "outdated" => ClearAhead \/ excused

\* No prune leaves an edge without its nodes: an edge whose end is missing was
\* written when that end was already missing.
DanglingHasCause == \A e \in edges : Ends(e) \subseteq nodes \/ e \in loose

\* Touched node by node the table stays within max_nodes, the touches counted
\* since the counter was reset, those not yet counted, those of a full interval
\* for every thread that is still to prune, and those forgotten since the last
\* prune: a restart forgets all of these, a touch's prune that raises forgets an
\* interval.  Whichever prune comes next, the touches', the API's or the
\* daemon's, brings the table back to max_nodes.
NodesBounded ==
  Cardinality(nodes) <= MaxNodes + opCount + Cardinality(Uncounted)
    + PruneInterval * Cardinality(DuePrunes) + forgotten
=============================================================================

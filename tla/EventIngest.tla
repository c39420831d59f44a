----------------------------- MODULE EventIngest -----------------------------
(***************************************************************************)
(* The path of a Home Assistant event through the Core: the event store    *)
(* with its window of known keys, its ring and its JSONL file              *)
(* (copilot_core/ingest/event_store.py), and the processor that feeds the  *)
(* brain graph and collects events for habitus mining                      *)
(* (copilot_core/ingest/event_processor.py), run by the handlers of        *)
(* POST /api/v1/events.                                                    *)
(*                                                                         *)
(* Store and processor each have a lock; between the two, and before the   *)
(* mining buffer, other handlers run.  An event is its dedup key.          *)
(***************************************************************************)
EXTENDS Naturals, Sequences, FiniteSets, SequencesExt

CONSTANTS
  Threads,          \* handlers of POST /api/v1/events
  Key,              \* dedup keys of valid state changes
  Batches,          \* batches the forwarder may post: sequences of keys
  MaxEvents,        \* _max
  Ttl,              \* _dedup_ttl
  PruneEvery,       \* 100 in _is_duplicate
  MaxProcessedIds,
  MineThreshold,    \* HABITUS_AUTO_MINE_EVENT_THRESHOLD
  MineInterval,     \* HABITUS_AUTO_MINE_INTERVAL_S
  Failures,         \* sets of events some processor may raise for
  MaxPosts, MaxTime, MaxIOErrors, MaxRestarts  \* bounds

ASSUME IngestAssumption ==
  /\ Batches \subseteq Seq(Key) \ {<<>>}
  /\ Failures \subseteq SUBSET Key
  \* with a maximum of 1 the quarter that is evicted is empty
  /\ MaxEvents \in Nat \ {0, 1}
  /\ Ttl \in Nat \ {0} /\ PruneEvery \in Nat \ {0}
  /\ MaxProcessedIds \in Nat /\ MineThreshold \in Nat \ {0} /\ MineInterval \in Nat
  /\ MaxPosts \in Nat /\ MaxTime \in Nat /\ MaxIOErrors \in Nat /\ MaxRestarts \in Nat

VARIABLES
  seen,       \* _seen: keys with their expiry, in the order of the OrderedDict
  ring,       \* _ring
  file,       \* the JSONL file
  accepted,   \* accepted_total
  processed,  \* _processed_ids
  buffer,     \* _habitus_event_buffer
  since,      \* _events_since_last_mine
  lastMine,   \* _last_mine_ts
  mining,     \* _mining_in_progress
  mineBatch,  \* the batch of the mining thread
  pc, items, batch,  \* each handler: where it is, what is left to ingest, what was accepted
  now, posts, ioErrors, restarts,
  acceptedAt, \* history: when each key was last accepted
  dropped,    \* history: keys evicted from seen before they expired
  applied,    \* history: how often each event passed the processors
  resets,     \* history: how often _processed_ids was emptied
  collected,  \* history: how many events were buffered,
  mined,      \* how many of them were mined,
  unmined     \* and how many were given to a miner that raised

store == <<seen, ring, file, accepted>>
miner == <<buffer, since, lastMine, mining, mineBatch>>
handlers == <<pc, items, batch>>
bounds == <<now, posts, ioErrors, restarts>>
history == <<acceptedAt, dropped, applied, resets, collected, mined, unmined>>
vars == <<store, processed, miner, handlers, bounds, history>>

Never == MaxTime + 1

Goto(th, l) == pc' = [pc EXCEPT ![th] = l]

LastN(s, n) == IF Len(s) > n THEN SubSeq(s, Len(s) - n + 1, Len(s)) ELSE s

\* Mutant of LoadTail: the whole file is loaded.
LoadAll == file

LoadTail == LastN(file, MaxEvents)

-----------------------------------------------------------------------------
(* EventStore.ingest_batch *)

Entry == [key : Key, expiry : Nat]

\* How many of the positions I there are up to i.
Rank(I, i) == Cardinality({j \in I : j <= i})

\* The entries of seen at the positions I, in their order.
EntriesAt(I) ==
  [n \in 1 .. Cardinality(I) |-> seen[CHOOSE i \in I : Rank(I, i) = n]]

\* Mutant of Pruned: the live keys are dropped, the expired ones kept.
PrunedLive ==
  IF accepted % PruneEvery = 0
  THEN EntriesAt({i \in DOMAIN seen : seen[i].expiry <= now})
  ELSE seen

\* _prune_seen, called when accepted_total is a multiple of PruneEvery.
Pruned ==
  IF accepted % PruneEvery = 0
  THEN EntriesAt({i \in DOMAIN seen : seen[i].expiry > now})
  ELSE seen

Duplicate(k) == \E i \in DOMAIN Pruned : Pruned[i].key = k /\ Pruned[i].expiry > now

\* An expired key that was not pruned keeps its place in the OrderedDict.
Registered(k) ==
  LET e == [key |-> k, expiry |-> now + Ttl]
  IN  IF \E i \in DOMAIN Pruned : Pruned[i].key = k
      THEN [i \in DOMAIN Pruned |-> IF Pruned[i].key = k THEN e ELSE Pruned[i]]
      ELSE Append(Pruned, e)

\* Mutant of EvictCount: the limit is off by one.
EvictCountLate(s) == IF Len(s) > 2 * MaxEvents + 1 THEN (2 * MaxEvents) \div 4 ELSE 0

\* How many entries at the front are evicted from s.
EvictCount(s) == IF Len(s) > 2 * MaxEvents THEN (2 * MaxEvents) \div 4 ELSE 0

\* A handler takes the lock of the store for the whole batch.
Post(th, b) ==
  /\ pc[th] = "idle"
  /\ \A u \in Threads : pc[u] # "store"
  /\ posts < MaxPosts
  /\ posts' = posts + 1
  /\ Goto(th, "store")
  /\ items' = [items EXCEPT ![th] = b]
  /\ batch' = [batch EXCEPT ![th] = <<>>]
  /\ UNCHANGED <<store, processed, miner, now, ioErrors, restarts, history>>

\* The last item is followed by the callback, if any item was accepted.
NextItem(th, accepts) ==
  /\ items' = [items EXCEPT ![th] = Tail(@)]
  /\ batch' = [batch EXCEPT ![th] = @ \o accepts]
  /\ Goto(th, IF Len(items[th]) > 1 THEN "store"
              ELSE IF batch[th] \o accepts # <<>> THEN "process" ELSE "idle")

Skip(th) ==
  /\ pc[th] = "store"
  /\ Duplicate(Head(items[th]))
  /\ seen' = Pruned
  /\ NextItem(th, <<>>)
  /\ UNCHANGED <<ring, file, accepted, processed, miner, bounds, history>>

\* Persisting is best effort: an OSError leaves the file without the event.
Accept(th) ==
  /\ pc[th] = "store"
  /\ ~Duplicate(Head(items[th]))
  /\ LET k == Head(items[th])
         s == Registered(k)
         n == EvictCount(s)
         lost == {s[i].key : i \in {j \in 1..n : s[j].expiry > now}}
     IN  /\ seen' = SubSeq(s, n + 1, Len(s))
         /\ ring' = LastN(Append(ring, k), MaxEvents)
         /\ \/ file' = Append(file, k) /\ UNCHANGED ioErrors
            \/ ioErrors < MaxIOErrors /\ ioErrors' = ioErrors + 1 /\ UNCHANGED file
         /\ NextItem(th, <<k>>)
         /\ acceptedAt' = [acceptedAt EXCEPT ![k] = now]
         /\ dropped' = (dropped \ {k}) \cup lost
  /\ accepted' = accepted + 1
  /\ UNCHANGED <<processed, miner, now, posts, restarts, applied, resets, collected, mined, unmined>>

-----------------------------------------------------------------------------
(* EventProcessor.process_events *)

Occurrences(k, b) == Cardinality({i \in DOMAIN b : b[i] = k})

\* Mutant of Process: the processed ids are filled, but not looked at.
ProcessAll(th) ==
  /\ pc[th] = "process"
  /\ LET all == ToSet(batch[th]) IN
       \E failing \in Failures :
          LET successful == all \ failing
              ids == processed \cup successful
              full == Cardinality(ids) > MaxProcessedIds
          IN  /\ applied' = [k \in Key |-> applied[k] +
                   IF k \in successful THEN Occurrences(k, batch[th]) ELSE 0]
              /\ processed' = IF full THEN {} ELSE ids
              /\ resets' = IF full THEN resets + 1 ELSE resets
              /\ Goto(th, IF successful = {} THEN "idle" ELSE "buffer")
  /\ UNCHANGED <<store, miner, items, batch, bounds, acceptedAt, dropped, collected, mined, unmined>>

\* The part under the lock: every event not processed before goes through the
\* processors, and those none raised for are remembered.
Process(th) ==
  /\ pc[th] = "process"
  /\ LET unique == {k \in ToSet(batch[th]) : k \notin processed} IN
       IF unique = {}
       THEN Goto(th, "idle") /\ UNCHANGED <<processed, applied, resets>>
       ELSE \E failing \in Failures :
              LET successful == unique \ failing
                  ids == processed \cup successful
                  full == Cardinality(ids) > MaxProcessedIds
              IN  /\ applied' = [k \in Key |-> applied[k] +
                       IF k \in successful THEN Occurrences(k, batch[th]) ELSE 0]
                  /\ processed' = IF full THEN {} ELSE ids
                  /\ resets' = IF full THEN resets + 1 ELSE resets
                  /\ Goto(th, IF successful = {} THEN "idle" ELSE "buffer")
  /\ UNCHANGED <<store, miner, items, batch, bounds, acceptedAt, dropped, collected, mined, unmined>>

\* _buffer_for_mining is given the whole batch, not what was processed of it.
BufferForMining(th) ==
  /\ pc[th] = "buffer"
  /\ buffer' = buffer \o batch[th]
  /\ since' = since + Len(batch[th])
  /\ collected' = collected + Len(batch[th])
  /\ Goto(th, "trigger")
  /\ UNCHANGED <<store, processed, lastMine, mining, mineBatch, items, batch, bounds,
                 acceptedAt, dropped, applied, resets, mined, unmined>>

ShouldMine == since >= MineThreshold \/ (since > 0 /\ now >= lastMine + MineInterval)

\* Mutant of MaybeTriggerMining: the batch is the buffer, not a copy of it, and
\* is cleared with it.
TriggerAliases(th) ==
  /\ pc[th] = "trigger"
  /\ Goto(th, "idle")
  /\ IF ~mining /\ ShouldMine
     THEN /\ mineBatch' = <<>>
          /\ buffer' = <<>>
          /\ since' = 0
          /\ lastMine' = now
          /\ mining' = TRUE
     ELSE UNCHANGED miner
  /\ UNCHANGED <<store, processed, items, batch, bounds, history>>

\* Mutant of MaybeTriggerMining: the threshold is subtracted, not the count reset.
TriggerSubtracts(th) ==
  /\ pc[th] = "trigger"
  /\ Goto(th, "idle")
  /\ IF ~mining /\ ShouldMine
     THEN /\ mineBatch' = buffer
          /\ buffer' = <<>>
          /\ since' = since - MineThreshold
          /\ lastMine' = now
          /\ mining' = TRUE
     ELSE UNCHANGED miner
  /\ UNCHANGED <<store, processed, items, batch, bounds, history>>

MaybeTriggerMining(th) ==
  /\ pc[th] = "trigger"
  /\ Goto(th, "idle")
  /\ IF ~mining /\ ShouldMine
     THEN /\ mineBatch' = buffer
          /\ buffer' = <<>>
          /\ since' = 0
          /\ lastMine' = now
          /\ mining' = TRUE
     ELSE UNCHANGED miner
  /\ UNCHANGED <<store, processed, items, batch, bounds, history>>

\* The mining thread ends with rules, or with an exception that is logged: then
\* the batch, which the buffer has given away, is gone.
RunMining ==
  /\ mining
  /\ mining' = FALSE
  /\ mineBatch' = <<>>
  /\ \/ mined' = mined + Len(mineBatch) /\ UNCHANGED unmined
     \/ unmined' = unmined + Len(mineBatch) /\ UNCHANGED mined
  /\ UNCHANGED <<store, processed, buffer, since, lastMine, handlers, bounds,
                 acceptedAt, dropped, applied, resets, collected>>

-----------------------------------------------------------------------------
Tick ==
  /\ now < MaxTime
  /\ now' = now + 1
  /\ UNCHANGED <<store, processed, miner, handlers, posts, ioErrors, restarts, history>>

\* The Core is restarted: the file is all that is left of store and processor.
Restart ==
  /\ restarts < MaxRestarts
  /\ restarts' = restarts + 1
  /\ seen' = <<>>
  /\ ring' = LoadTail
  /\ accepted' = 0
  /\ processed' = {}
  /\ buffer' = <<>> /\ since' = 0 /\ mining' = FALSE /\ mineBatch' = <<>>
  /\ lastMine' = now
  /\ pc' = [th \in Threads |-> "idle"]
  /\ items' = [th \in Threads |-> <<>>]
  /\ batch' = [th \in Threads |-> <<>>]
  /\ acceptedAt' = [k \in Key |-> Never]
  /\ dropped' = {}
  /\ collected' = 0 /\ mined' = 0 /\ unmined' = 0
  /\ UNCHANGED <<file, now, posts, ioErrors, applied, resets>>

Init ==
  /\ seen = <<>> /\ ring = <<>> /\ file = <<>> /\ accepted = 0
  /\ processed = {}
  /\ buffer = <<>> /\ since = 0 /\ lastMine = 0 /\ mining = FALSE /\ mineBatch = <<>>
  /\ pc = [th \in Threads |-> "idle"]
  /\ items = [th \in Threads |-> <<>>]
  /\ batch = [th \in Threads |-> <<>>]
  /\ now = 0 /\ posts = 0 /\ ioErrors = 0 /\ restarts = 0
  /\ acceptedAt = [k \in Key |-> Never]
  /\ dropped = {}
  /\ applied = [k \in Key |-> 0]
  /\ resets = 0 /\ collected = 0 /\ mined = 0 /\ unmined = 0

Handle(th) ==
  \/ Skip(th) \/ Accept(th)
  \/ Process(th) \/ BufferForMining(th) \/ MaybeTriggerMining(th)

Next ==
  \/ \E th \in Threads : Handle(th) \/ \E b \in Batches : Post(th, b)
  \/ RunMining
  \/ Tick
  \/ Restart

Spec == Init /\ [][Next]_vars

-----------------------------------------------------------------------------
(* Properties *)

\* Every variable has a value of its kind.
TypeOK ==
  /\ seen \in Seq(Entry)
  /\ ring \in Seq(Key) /\ file \in Seq(Key) /\ accepted \in Nat
  /\ processed \subseteq Key
  /\ buffer \in Seq(Key) /\ mineBatch \in Seq(Key) /\ mining \in BOOLEAN
  /\ since \in Nat /\ lastMine \in Nat
  /\ pc \in [Threads -> {"idle", "store", "process", "buffer", "trigger"}]
  /\ items \in [Threads -> Seq(Key)] /\ batch \in [Threads -> Seq(Key)]
  /\ now \in 0..MaxTime /\ posts \in 0..MaxPosts
  /\ ioErrors \in 0..MaxIOErrors /\ restarts \in 0..MaxRestarts
  /\ acceptedAt \in [Key -> 0..Never] /\ dropped \subseteq Key
  /\ applied \in [Key -> Nat] /\ resets \in Nat
  /\ collected \in Nat /\ mined \in Nat /\ unmined \in Nat

\* While every append succeeds, the ring is the tail of the file: a restart
\* shows the clients the very events they saw before.
RingIsTail == ioErrors = 0 => ring = LastN(file, MaxEvents)

\* The window of known keys holds each key once and at most 2 * MaxEvents of them.
SeenBounded ==
  /\ Len(seen) <= 2 * MaxEvents
  /\ \A i, j \in DOMAIN seen : seen[i].key = seen[j].key => i = j

\* An event is not accepted twice within the window, whatever was pruned in
\* between: only the eviction of a live key, or a restart, makes that happen.
DedupWindow ==
  [][\A th \in Threads : \A k \in Key :
       /\ pc[th] = "store" /\ k = Head(items[th])
       /\ accepted' = accepted + 1
       => k \in dropped \/ acceptedAt[k] = Never \/ now >= acceptedAt[k] + Ttl]_vars

\* Idempotence: although handlers run concurrently and the store forgets, an
\* event passes the processors once, and once more for every time the processor
\* has lost its memory.  (process_events looks a batch up before it records any of
\* it, so this is for batches too small to push their own keys out of the window.)
AppliedOnce == \A k \in Key : applied[k] <= 1 + resets + restarts

\* No buffered event is given to two minings or falls between them: it was mined,
\* or lost with a miner that raised, or is with the one that runs, or waits; and
\* the count that triggers the next mining is that of those that wait.
MiningExact ==
  /\ collected = mined + unmined + Len(mineBatch) + Len(buffer)
  /\ since = Len(buffer)
  /\ mining <=> mineBatch # <<>>

\* _is_duplicate: "remove oldest 25% when exceeding 2x max".  Evicted keys are
\* no younger than those that stay.
EvictsOldest ==
  [][\A i, j \in DOMAIN seen :
       LET kept == {seen'[l].key : l \in DOMAIN seen'} IN
       /\ seen[i].expiry > now /\ seen[i].key \notin kept
       /\ seen[j].key \in kept /\ restarts' = restarts
       => seen[i].expiry <= seen[j].expiry]_vars

=============================================================================

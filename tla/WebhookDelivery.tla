-------------------------- MODULE WebhookDelivery --------------------------
(***************************************************************************)
(* The webhook delivery queue: callers put envelopes in a bounded queue    *)
(* under a backpressure policy, a pool of workers sends them with retries  *)
(* under a limit per destination, and stop() drains the queue and gives    *)
(* the pool up (copilot_core/webhook_delivery.py).                         *)
(*                                                                         *)
(* Time is abstracted: a wait that the code bounds by a deadline may end   *)
(* either way.                                                             *)
(***************************************************************************)
EXTENDS Naturals, Sequences, FiniteSets

CONSTANTS
  Envelopes,      \* numbered in the order they are offered
  Destinations,
  DestOf,         \* _get_destination_key of each envelope
  Callers,        \* threads that enqueue
  WorkerIds,      \* threads that can exist: a bound on overlapping pools
  WorkerCount,
  QueueSizes,     \* the values of max_queue_size to consider
  Policies,       \* the backpressure policies to consider
  SlotLimit,      \* destination_max_concurrency
  MaxRetries,
  HasDeadline,    \* whether delivery_deadline_seconds is set
  DrainForever,   \* whether stop() is called with drain_timeout=None
  NoEnvelope,
  MaxStops        \* bound on calls of stop

SupportedPolicies == {"drop_newest", "drop_oldest", "block_timeout"}

ASSUME SizesAssumption ==
  /\ WorkerCount \in Nat \ {0} /\ SlotLimit \in Nat \ {0}
  /\ MaxRetries \in Nat /\ MaxStops \in Nat
  /\ HasDeadline \in BOOLEAN /\ DrainForever \in BOOLEAN
ASSUME SetsAssumption ==
  /\ IsFiniteSet(WorkerIds) /\ IsFiniteSet(Callers) /\ IsFiniteSet(Envelopes)
  /\ DestOf \in [Envelopes -> Destinations]
  /\ Policies \subseteq SupportedPolicies /\ QueueSizes \subseteq Nat \ {0}
  /\ Envelopes \subseteq Nat /\ NoEnvelope \notin Envelopes

VARIABLES
  policy,
  maxSize,      \* max_queue_size
  queue,        \* _queue
  unfinished,   \* _queue.unfinished_tasks
  started,      \* _started
  stopEvent,    \* _stop_event
  wpc,          \* where each worker thread is
  wenv,         \* the envelope it delivers
  retries,      \* its retries_done
  slots,        \* free slots of each destination's semaphore
  cpc, cenv,    \* where each caller is in enqueue(), and with what
  spc,          \* where stop() is
  stops,
  fate,         \* history: what became of each envelope
  sends         \* history: calls of send_func for each envelope

settings == <<policy, maxSize>>
wvars == <<wpc, wenv, retries, slots>>
cvars == <<cpc, cenv>>
pool == <<started, stopEvent, spc, stops>>
vars == <<settings, queue, unfinished, wvars, cvars, pool, fate, sends>>

Dead == {"none", "exited"}
\* A worker that waits for a slot or the rate limit, sends or backs off has an
\* envelope to settle; all but the first of them have a slot.
Using == {"rate", "send", "backoff"}
Holding == Using \cup {"slot"}
Delivering == Holding \cup {"done"}
Final == {"delivered", "failed", "evicted", "refused"}

Alive == {w \in WorkerIds : wpc[w] \notin Dead}
\* Mutant of Full: the limit is off by one.
FullLate == Len(queue) > maxSize

Full == Len(queue) >= maxSize
Dest(w) == DestOf[wenv[w]]

WGoto(w, l) == wpc' = [wpc EXCEPT ![w] = l]
\* enqueue() returns.
Return(c) ==
  /\ cpc' = [cpc EXCEPT ![c] = "idle"]
  /\ cenv' = [cenv EXCEPT ![c] = NoEnvelope]

CGoto(c, l) == cpc' = [cpc EXCEPT ![c] = l]
Settle(e, f) == fate' = [fate EXCEPT ![e] = f]
Release(w) == slots' = [slots EXCEPT ![Dest(w)] = @ + 1]

-----------------------------------------------------------------------------
(* enqueue() *)

\* The first test of _started is made without the lock.
Enqueue(c, e) ==
  /\ cpc[c] = "idle"
  /\ fate[e] = "new"
  /\ \A f \in Envelopes : f < e => fate[f] # "new"
  /\ Settle(e, "offered")
  /\ cenv' = [cenv EXCEPT ![c] = e]
  /\ CGoto(c, IF started THEN "put" ELSE "start")
  /\ UNCHANGED <<settings, queue, unfinished, wvars, pool, sends>>

\* Mutant of Start: the event of the last stop is not cleared.
StartStopped(c) ==
  /\ cpc[c] = "start"
  /\ CGoto(c, "put")
  /\ UNCHANGED stopEvent
  /\ IF started
     THEN UNCHANGED <<started, wpc>>
     ELSE /\ Cardinality(WorkerIds \ Alive) >= WorkerCount
          /\ started' = TRUE
          /\ LET new == CHOOSE S \in SUBSET (WorkerIds \ Alive) : Cardinality(S) = WorkerCount
             IN  wpc' = [w \in WorkerIds |-> IF w \in new THEN "loop" ELSE wpc[w]]
  /\ UNCHANGED <<settings, queue, unfinished, wenv, retries, slots, cenv, spc, stops, fate, sends>>

\* start(): the pool of a former start is forgotten, not awaited.
Start(c) ==
  /\ cpc[c] = "start"
  /\ CGoto(c, "put")
  /\ IF started
     THEN UNCHANGED <<started, stopEvent, wpc>>
     ELSE /\ Cardinality(WorkerIds \ Alive) >= WorkerCount
          /\ started' = TRUE
          /\ stopEvent' = FALSE
          /\ LET new == CHOOSE S \in SUBSET (WorkerIds \ Alive) : Cardinality(S) = WorkerCount
             IN  wpc' = [w \in WorkerIds |-> IF w \in new THEN "loop" ELSE wpc[w]]
  /\ UNCHANGED <<settings, queue, unfinished, wenv, retries, slots, cenv, spc, stops, fate, sends>>

Put(c) ==
  /\ cpc[c] \in {"put", "reput"}
  /\ ~Full
  /\ queue' = Append(queue, cenv[c])
  /\ unfinished' = unfinished + 1
  /\ Settle(cenv[c], "queued")
  /\ Return(c)
  /\ UNCHANGED <<settings, wvars, pool, sends>>

\* queue.Full: at once, after block_timeout, or after the oldest was evicted
\* and somebody else took the room.
Refuse(c) ==
  /\ Full
  /\ cpc[c] = "reput" \/ (cpc[c] = "put" /\ policy # "drop_oldest")
  /\ Settle(cenv[c], "refused")
  /\ Return(c)
  /\ UNCHANGED <<settings, queue, unfinished, wvars, pool, sends>>

FullDropOldest(c) ==
  /\ cpc[c] = "put"
  /\ Full /\ policy = "drop_oldest"
  /\ CGoto(c, "evict")
  /\ UNCHANGED <<settings, queue, unfinished, wvars, cenv, pool, fate, sends>>

\* Mutant of Evict: the oldest envelope is looked at, not taken.
EvictPeeks(c) ==
  /\ cpc[c] = "evict"
  /\ IF queue = <<>>
     THEN CGoto(c, "reput") /\ UNCHANGED fate
     ELSE /\ Settle(Head(queue), "evicted")
          /\ CGoto(c, "evicted")
  /\ UNCHANGED <<settings, queue, unfinished, wvars, cenv, pool, sends>>

\* get_nowait(); by now the workers may have emptied the queue.
Evict(c) ==
  /\ cpc[c] = "evict"
  /\ IF queue = <<>>
     THEN CGoto(c, "reput") /\ UNCHANGED <<queue, fate>>
     ELSE /\ queue' = Tail(queue)
          /\ Settle(Head(queue), "evicted")
          /\ CGoto(c, "evicted")
  /\ UNCHANGED <<settings, unfinished, wvars, cenv, pool, sends>>

\* Mutant of EvictDone: no task_done() for the evicted envelope.
EvictForgets(c) ==
  /\ cpc[c] = "evicted"
  /\ CGoto(c, "reput")
  /\ UNCHANGED <<settings, queue, unfinished, wvars, cenv, pool, fate, sends>>

EvictDone(c) ==
  /\ cpc[c] = "evicted"
  /\ unfinished' = unfinished - 1
  /\ CGoto(c, "reput")
  /\ UNCHANGED <<settings, queue, wvars, cenv, pool, fate, sends>>

-----------------------------------------------------------------------------
(* _worker_loop() *)

TestStop(w) ==
  /\ wpc[w] = "loop"
  /\ WGoto(w, IF stopEvent THEN "stopping" ELSE "get")
  /\ UNCHANGED <<settings, queue, unfinished, wenv, retries, slots, cvars, pool, fate, sends>>

TestEmpty(w) ==
  /\ wpc[w] = "stopping"
  /\ WGoto(w, IF queue = <<>> THEN "exited" ELSE "get")
  /\ UNCHANGED <<settings, queue, unfinished, wenv, retries, slots, cvars, pool, fate, sends>>

\* Mutant of Get: the newest envelope is taken.
GetNewest(w) ==
  /\ wpc[w] = "get"
  /\ queue # <<>>
  /\ queue' = SubSeq(queue, 1, Len(queue) - 1)
  /\ wenv' = [wenv EXCEPT ![w] = queue[Len(queue)]]
  /\ retries' = [retries EXCEPT ![w] = 0]
  /\ WGoto(w, "slot")
  /\ UNCHANGED <<settings, unfinished, slots, cvars, pool, fate, sends>>

Get(w) ==
  /\ wpc[w] = "get"
  /\ queue # <<>>
  /\ queue' = Tail(queue)
  /\ wenv' = [wenv EXCEPT ![w] = Head(queue)]
  /\ retries' = [retries EXCEPT ![w] = 0]
  /\ WGoto(w, "slot")
  /\ UNCHANGED <<settings, unfinished, slots, cvars, pool, fate, sends>>

\* queue.Empty after 0.1 s.
GetTimeout(w) ==
  /\ wpc[w] = "get"
  /\ queue = <<>>
  /\ WGoto(w, "loop")
  /\ UNCHANGED <<settings, queue, unfinished, wenv, retries, slots, cvars, pool, fate, sends>>

-----------------------------------------------------------------------------
(* _deliver_with_retry() *)

\* _acquire_destination_slot
AcquireSlot(w) ==
  /\ wpc[w] = "slot"
  /\ slots[Dest(w)] > 0
  /\ slots' = [slots EXCEPT ![Dest(w)] = @ - 1]
  /\ WGoto(w, "rate")
  /\ UNCHANGED <<settings, queue, unfinished, wenv, retries, cvars, pool, fate, sends>>

\* Mutant of SlotDeadline: the failure is recorded, and the wait goes on.
SlotDeadlineGoesOn(w) ==
  /\ wpc[w] = "slot"
  /\ HasDeadline
  /\ Settle(wenv[w], "failed")
  /\ UNCHANGED <<settings, queue, unfinished, wvars, cvars, pool, sends>>

\* The deadline passes while waiting for a slot: sem is None.
SlotDeadline(w) ==
  /\ wpc[w] = "slot"
  /\ HasDeadline
  /\ Settle(wenv[w], "failed")
  /\ WGoto(w, "done")
  /\ UNCHANGED <<settings, queue, unfinished, wenv, retries, slots, cvars, pool, sends>>

\* _wait_for_rate_limit returns True, and send_func is called.
RateAllowed(w) ==
  /\ wpc[w] = "rate"
  /\ WGoto(w, "send")
  /\ sends' = [sends EXCEPT ![wenv[w]] = @ + 1]
  /\ UNCHANGED <<settings, queue, unfinished, wenv, retries, slots, cvars, pool, fate>>

\* Mutant of RateDenied: the attempt returns before the try whose finally gives
\* the slot back.
RateDeniedKeepsSlot(w) ==
  /\ wpc[w] = "rate"
  /\ HasDeadline
  /\ Settle(wenv[w], "failed")
  /\ WGoto(w, "done")
  /\ UNCHANGED <<settings, queue, unfinished, wenv, retries, slots, cvars, pool, sends>>

\* The deadline passes, or would, while the rate limit denies: the slot that was
\* taken for the attempt is given back.
RateDenied(w) ==
  /\ wpc[w] = "rate"
  /\ HasDeadline
  /\ Settle(wenv[w], "failed")
  /\ Release(w)
  /\ WGoto(w, "done")
  /\ UNCHANGED <<settings, queue, unfinished, wenv, retries, cvars, pool, sends>>

SendOk(w) ==
  /\ wpc[w] = "send"
  /\ Settle(wenv[w], "delivered")
  /\ Release(w)
  /\ WGoto(w, "done")
  /\ UNCHANGED <<settings, queue, unfinished, wenv, retries, cvars, pool, sends>>

\* send_func raises: a 4xx, an error that is not transient, the last retry, or
\* no time for another one.
SendFails(w) ==
  /\ wpc[w] = "send"
  /\ Settle(wenv[w], "failed")
  /\ Release(w)
  /\ WGoto(w, "done")
  /\ UNCHANGED <<settings, queue, unfinished, wenv, retries, cvars, pool, sends>>

\* Mutant of SendTransient: one retry too many.
SendTransientOnce(w) ==
  /\ wpc[w] = "send"
  /\ retries[w] <= MaxRetries
  /\ retries' = [retries EXCEPT ![w] = @ + 1]
  /\ WGoto(w, "backoff")
  /\ UNCHANGED <<settings, queue, unfinished, wenv, slots, cvars, pool, fate, sends>>

\* A transient error: the back-off is slept inside the try, with the slot held.
SendTransient(w) ==
  /\ wpc[w] = "send"
  /\ retries[w] < MaxRetries
  /\ retries' = [retries EXCEPT ![w] = @ + 1]
  /\ WGoto(w, "backoff")
  /\ UNCHANGED <<settings, queue, unfinished, wenv, slots, cvars, pool, fate, sends>>

BackoffOver(w) ==
  /\ wpc[w] = "backoff"
  /\ Release(w)
  /\ WGoto(w, "slot")
  /\ UNCHANGED <<settings, queue, unfinished, wenv, retries, cvars, pool, fate, sends>>

TaskDone(w) ==
  /\ wpc[w] = "done"
  /\ unfinished' = unfinished - 1
  /\ wenv' = [wenv EXCEPT ![w] = NoEnvelope]
  /\ retries' = [retries EXCEPT ![w] = 0]
  /\ WGoto(w, "loop")
  /\ UNCHANGED <<settings, queue, slots, cvars, pool, fate, sends>>

-----------------------------------------------------------------------------
(* stop() *)

StopBegin ==
  /\ spc = "idle"
  /\ started
  /\ stops < MaxStops
  /\ stops' = stops + 1
  /\ stopEvent' = TRUE
  /\ spc' = "drain"
  /\ UNCHANGED <<settings, queue, unfinished, started, wvars, cvars, fate, sends>>

\* Drained, or the drain deadline; then each worker is joined for 0.2 s at most.
StopDrained ==
  /\ spc = "drain"
  /\ unfinished = 0 \/ ~DrainForever
  /\ spc' = "clear"
  /\ UNCHANGED <<settings, queue, unfinished, started, stopEvent, stops, wvars, cvars, fate, sends>>

StopClear ==
  /\ spc = "clear"
  /\ started' = FALSE
  /\ spc' = "idle"
  /\ UNCHANGED <<settings, queue, unfinished, stopEvent, stops, wvars, cvars, fate, sends>>

-----------------------------------------------------------------------------
Init ==
  /\ policy \in Policies
  /\ maxSize \in QueueSizes
  /\ queue = <<>>
  /\ unfinished = 0
  /\ started = FALSE
  /\ stopEvent = FALSE
  /\ wpc = [w \in WorkerIds |-> "none"]
  /\ wenv = [w \in WorkerIds |-> NoEnvelope]
  /\ retries = [w \in WorkerIds |-> 0]
  /\ slots = [d \in Destinations |-> SlotLimit]
  /\ cpc = [c \in Callers |-> "idle"]
  /\ cenv = [c \in Callers |-> NoEnvelope]
  /\ spc = "idle"
  /\ stops = 0
  /\ fate = [e \in Envelopes |-> "new"]
  /\ sends = [e \in Envelopes |-> 0]

Deliver(w) ==
  \/ AcquireSlot(w) \/ SlotDeadline(w) \/ RateAllowed(w) \/ RateDenied(w)
  \/ SendOk(w) \/ SendFails(w) \/ SendTransient(w)
  \/ BackoffOver(w) \/ TaskDone(w)

Worker(w) == TestStop(w) \/ TestEmpty(w) \/ Get(w) \/ GetTimeout(w) \/ Deliver(w)

Caller(c) ==
  \/ Start(c) \/ Put(c) \/ Refuse(c) \/ FullDropOldest(c) \/ Evict(c) \/ EvictDone(c)

Stopper == StopBegin \/ StopDrained \/ StopClear

Next ==
  \/ \E c \in Callers : Caller(c) \/ \E e \in Envelopes : Enqueue(c, e)
  \/ \E w \in WorkerIds : Worker(w)
  \/ Stopper

Spec == Init /\ [][Next]_vars

\* Threads that can run do, and stop() goes on once it is called.
FairSpec ==
  /\ Spec
  /\ \A w \in WorkerIds : WF_vars(Worker(w))
  /\ \A c \in Callers : WF_vars(Caller(c))
  /\ WF_vars(StopDrained \/ StopClear)

-----------------------------------------------------------------------------
(* Properties *)

\* Every variable has a value of its kind; the queue stays within its maximum.
TypeOK ==
  /\ policy \in SupportedPolicies /\ maxSize \in QueueSizes
  /\ queue \in Seq(Envelopes) /\ Len(queue) <= maxSize
  /\ unfinished \in Nat
  /\ started \in BOOLEAN /\ stopEvent \in BOOLEAN
  /\ wpc \in [WorkerIds -> Dead \cup Delivering \cup {"loop", "stopping", "get"}]
  /\ wenv \in [WorkerIds -> Envelopes \cup {NoEnvelope}]
  /\ retries \in [WorkerIds -> 0..MaxRetries]
  /\ slots \in [Destinations -> 0..SlotLimit]
  /\ cpc \in [Callers -> {"idle", "start", "put", "evict", "evicted", "reput"}]
  /\ cenv \in [Callers -> Envelopes \cup {NoEnvelope}]
  /\ spc \in {"idle", "drain", "clear"}
  /\ stops \in 0..MaxStops
  /\ fate \in [Envelopes -> Final \cup {"new", "offered", "queued"}]
  /\ sends \in [Envelopes -> Nat]

\* What stop() drains by: the count of unfinished tasks is that of the envelopes
\* in the queue, in the hands of a worker, or just evicted by a caller, in every
\* interleaving of callers, workers, old workers and stop.
UnfinishedExact ==
  unfinished = Len(queue) + Cardinality({w \in WorkerIds : wpc[w] \in Delivering})
                          + Cardinality({c \in Callers : cpc[c] = "evicted"})

\* An accepted envelope that is not settled is in one place, queue or worker,
\* and a settled one in none: it is never sent by two workers, not even by one
\* of a former pool.
HeldOnce ==
  \A e \in Envelopes :
    Cardinality({i \in DOMAIN queue : queue[i] = e})
      + Cardinality({w \in WorkerIds : wenv[w] = e /\ wpc[w] \in Holding})
    = IF fate[e] = "queued" THEN 1 ELSE 0

\* Slots are neither lost nor gained over retries, failures, a denying rate limit
\* and deadlines: those not free are held by the deliveries that wait for the
\* rate limit, send or back off.
SlotsExact ==
  \A d \in Destinations :
    slots[d] + Cardinality({w \in WorkerIds : wpc[w] \in Using /\ Dest(w) = d}) = SlotLimit

\* No envelope is sent more often than once and its retries, by all pools.
SendsBounded == \A e \in Envelopes : sends[e] <= MaxRetries + 1

\* The queue implements its abstract specification: to a caller the workers, old
\* and new, with their retries, slots and deadlines are a bounded queue that takes
\* envelopes in the order they were accepted, refuses only when full, drops only
\* the oldest, and gives each envelope one outcome that never changes.
Abstract == INSTANCE DeliveryQueueSpec WITH
  capacity <- maxSize,
  evicts <- (policy = "drop_oldest"),
  waiting <- queue,
  working <- {wenv[w] : w \in {v \in WorkerIds : wpc[v] \in Holding}},
  outcome <- [e \in Envelopes |-> IF fate[e] \in Final THEN fate[e] ELSE "open"]

ImplementsAbstract == Abstract!Spec

\* An accepted envelope is delivered, failed or evicted, or else the queue has
\* been stopped.
AcceptedSettles == \A e \in Envelopes : fate[e] = "queued" ~> fate[e] # "queued" \/ ~started

\* stop(None) waits until all tasks that were enqueued are finished: they do
\* get finished.
StopFinishesAll == spc = "drain" ~> \A e \in Envelopes : fate[e] # "queued"

=============================================================================

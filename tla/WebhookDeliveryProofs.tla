----------------------- MODULE WebhookDeliveryProofs -----------------------
(***************************************************************************)
(* Proofs about WebhookDelivery for any envelopes, callers, workers, pools *)
(* and limits: where each envelope is, the counts that hang on it, and the *)
(* refinement of DeliveryQueueSpec.                                        *)
(***************************************************************************)
EXTENDS WebhookDelivery, FiniteSetTheorems, SequenceTheorems, TLAPS

\* The envelopes in the queue, where none is twice.
Queued == {queue[i] : i \in DOMAIN queue}
NoRepeats == \A i, j \in DOMAIN queue : queue[i] = queue[j] => i = j

\* Where a worker holds an envelope nobody else does.
WorkersHold ==
  \A w \in WorkerIds :
    /\ wpc[w] \in Delivering => wenv[w] \in Envelopes
    /\ wpc[w] \in Holding =>
         /\ fate[wenv[w]] = "queued"
         /\ wenv[w] \notin Queued
         /\ \A v \in WorkerIds : wpc[v] \in Holding /\ wenv[v] = wenv[w] => v = w

\* A caller brings an envelope that no other caller has; it evicts only under
\* drop_oldest.
CallersHold ==
  \A c \in Callers :
    /\ cpc[c] # "idle" =>
         /\ cenv[c] \in Envelopes
         /\ fate[cenv[c]] = "offered"
         /\ \A d \in Callers : cpc[d] # "idle" /\ cenv[d] = cenv[c] => d = c
    /\ cpc[c] \in {"evict", "evicted", "reput"} => policy = "drop_oldest"

\* What is accepted and not settled is somewhere.
NoneLost ==
  \A e \in Envelopes :
    fate[e] = "queued" =>
      e \in Queued \/ \E w \in WorkerIds : wpc[w] \in Holding /\ wenv[w] = e

PlaceInv ==
  /\ NoRepeats
  /\ \A e \in Queued : fate[e] = "queued"
  /\ WorkersHold /\ CallersHold /\ NoneLost

\* The sends of an envelope are the attempts of the one worker that had it.
SendInv ==
  /\ \A e \in Envelopes : fate[e] \in {"new", "offered"} \/ e \in Queued => sends[e] = 0
  /\ \A w \in WorkerIds :
       /\ wpc[w] \in {"slot", "rate", "backoff"} => sends[wenv[w]] = retries[w]
       /\ wpc[w] = "send" => sends[wenv[w]] = retries[w] + 1

IInv == TypeOK /\ PlaceInv /\ UnfinishedExact /\ SlotsExact /\ SendInv /\ SendsBounded

-----------------------------------------------------------------------------
\* A finite set has subsets of every smaller size: a pool of workers can start.
LEMMA SomeSubset ==
  ASSUME NEW S, IsFiniteSet(S), NEW n \in Nat, n <= Cardinality(S)
  PROVE  \E T \in SUBSET S : Cardinality(T) = n
<1>1. Cardinality(S) \in Nat
  BY FS_CardinalityType
<1>2. PICK f : f \in Bijection(1 .. Cardinality(S), S)
  BY FS_CardinalityType DEF ExistsBijection
<1> DEFINE T == {f[i] : i \in 1 .. n}
           g == [i \in 1 .. n |-> f[i]]
<1>3. /\ f \in [1 .. Cardinality(S) -> S]
      /\ \A i, j \in 1 .. Cardinality(S) : f[i] = f[j] => i = j
  BY <1>2 DEF Bijection, Injection, IsInjective
<1>4. T \in SUBSET S
  BY <1>1, <1>3
<1>5. g \in Bijection(1 .. n, T)
  BY <1>1, <1>3 DEF Bijection, Injection, IsInjective, Surjection
<1>6. IsFiniteSet(1 .. n) /\ Cardinality(1 .. n) = n
  BY FS_Interval
<1>7. Cardinality(T) = n
  BY <1>5, <1>6, FS_Bijection DEF ExistsBijection
<1>8. QED
  BY <1>4, <1>7

\* An accepted envelope that was not in the queue is now.
LEMMA AppendQueue ==
  ASSUME queue \in Seq(Envelopes), NoRepeats,
         NEW e \in Envelopes, e \notin Queued, queue' = Append(queue, e)
  PROVE  /\ queue' \in Seq(Envelopes) /\ Len(queue') = Len(queue) + 1
         /\ NoRepeats' /\ Queued' = Queued \cup {e}
<1>1. /\ queue' \in Seq(Envelopes) /\ Len(queue') = Len(queue) + 1 /\ Len(queue) \in Nat
      /\ DOMAIN queue' = 1 .. Len(queue) + 1 /\ DOMAIN queue = 1 .. Len(queue)
      /\ \A i \in DOMAIN queue : queue'[i] = queue[i]
      /\ queue'[Len(queue) + 1] = e
  OBVIOUS
<1>2. Queued' = Queued \cup {e}
  BY <1>1 DEF Queued
<1>3. NoRepeats'
  BY <1>1 DEF NoRepeats, Queued
<1>4. QED
  BY <1>1, <1>2, <1>3

\* Of a queue without repetitions the tail is all but the head.
LEMMA TailQueue ==
  ASSUME queue \in Seq(Envelopes), NoRepeats, queue # <<>>, queue' = Tail(queue)
  PROVE  /\ queue' \in Seq(Envelopes) /\ Len(queue) > 0 /\ Len(queue') = Len(queue) - 1
         /\ Head(queue) \in Queued /\ Head(queue) \in Envelopes
         /\ NoRepeats' /\ Queued' = Queued \ {Head(queue)}
<1>1. /\ queue' \in Seq(Envelopes) /\ Len(queue) \in Nat \ {0} /\ Len(queue') = Len(queue) - 1
      /\ DOMAIN queue = 1 .. Len(queue) /\ DOMAIN queue' = 1 .. Len(queue) - 1
      /\ Head(queue) = queue[1] /\ Head(queue) \in Envelopes
      /\ \A i \in 1 .. Len(queue) - 1 : queue'[i] = queue[i + 1]
  OBVIOUS
<1>2. Head(queue) \in Queued
  BY <1>1 DEF Queued
<1>3. NoRepeats'
  BY <1>1 DEF NoRepeats
<1>4. ASSUME NEW e \in Queued' PROVE e \in Queued \ {Head(queue)}
  BY <1>1, <1>4 DEF NoRepeats, Queued
<1>5. ASSUME NEW e \in Queued \ {Head(queue)} PROVE e \in Queued'
  <2>1. PICK i \in 1 .. Len(queue) : e = queue[i]
    BY <1>1 DEF Queued
  <2>2. i - 1 \in 1 .. Len(queue) - 1 /\ queue'[i - 1] = e
    BY <1>1, <1>5, <2>1
  <2>3. QED
    BY <1>1, <2>2 DEF Queued
<1>6. QED
  BY <1>1, <1>2, <1>3, <1>4, <1>5

\* Only an empty queue has no elements.
LEMMA QueuedType ==
  ASSUME TypeOK
  PROVE  Queued \subseteq Envelopes /\ Len(queue) \in Nat
BY DEF TypeOK, Queued

\* start() sets threads going that were not, and leaves the others alone.
LEMMA StartWorkers ==
  ASSUME TypeOK, NEW c \in Callers, Start(c)
  PROVE  /\ wpc' \in [WorkerIds -> Dead \cup Delivering \cup {"loop", "stopping", "get"}]
         /\ \A w \in WorkerIds : wpc'[w] = wpc[w] \/ (wpc[w] \in Dead /\ wpc'[w] = "loop")
         /\ started' \in BOOLEAN /\ stopEvent' \in BOOLEAN
<1>1. CASE started
  BY <1>1 DEF Start, TypeOK
<1>2. CASE ~started
  <2> DEFINE idle == WorkerIds \ Alive
             new == CHOOSE S \in SUBSET idle : Cardinality(S) = WorkerCount
  <2>1. IsFiniteSet(idle) /\ Cardinality(idle) >= WorkerCount
    BY <1>2, SetsAssumption, FS_Subset DEF Start
  <2>2. \E S \in SUBSET idle : Cardinality(S) = WorkerCount
    BY <2>1, SizesAssumption, SomeSubset, FS_CardinalityType
  <2>3. new \subseteq idle
    BY <2>2
  <2>4. wpc' = [w \in WorkerIds |-> IF w \in new THEN "loop" ELSE wpc[w]]
        /\ started' = TRUE /\ stopEvent' = FALSE
    BY <1>2 DEF Start
  <2>5. \A w \in idle : wpc[w] \in Dead
    BY DEF Alive
  <2>6. QED
    BY <2>3, <2>4, <2>5 DEF TypeOK
<1>3. QED
  BY <1>1, <1>2

-----------------------------------------------------------------------------
\* The threads that the counts are about.
Busy == {w \in WorkerIds : wpc[w] \in Delivering}
Evicting == {c \in Callers : cpc[c] = "evicted"}
Users(d) == {w \in WorkerIds : wpc[w] \in Using /\ Dest(w) = d}

\* They are finitely many.
LEMMA FiniteThreads ==
  /\ IsFiniteSet(Busy) /\ Cardinality(Busy) \in Nat
  /\ IsFiniteSet(Evicting) /\ Cardinality(Evicting) \in Nat
  /\ \A d : IsFiniteSet(Users(d)) /\ Cardinality(Users(d)) \in Nat
<1>1. Busy \subseteq WorkerIds /\ Evicting \subseteq Callers /\ \A d : Users(d) \subseteq WorkerIds
  BY DEF Busy, Evicting, Users
<1>2. QED
  BY <1>1, SetsAssumption, FS_Subset, FS_CardinalityType

\* The invariants of the counts, about these threads.
LEMMA CountsOf ==
  /\ UnfinishedExact <=> unfinished = Len(queue) + Cardinality(Busy) + Cardinality(Evicting)
  /\ SlotsExact <=> \A d \in Destinations : slots[d] + Cardinality(Users(d)) = SlotLimit
BY DEF UnfinishedExact, SlotsExact, Busy, Evicting, Users, Using

\* Whoever has a task to finish is counted, and whoever uses a slot has taken it.
LEMMA CountsBound ==
  ASSUME TypeOK, UnfinishedExact, SlotsExact
  PROVE  /\ Busy \cup Evicting # {} => unfinished - 1 \in Nat
         /\ \A d \in Destinations : Users(d) # {} => slots[d] + 1 \in 0 .. SlotLimit
<1>1. /\ Busy # {} => Cardinality(Busy) # 0
      /\ Evicting # {} => Cardinality(Evicting) # 0
      /\ \A d : Users(d) # {} => Cardinality(Users(d)) # 0
  BY FiniteThreads, FS_EmptySet
<1>2. Busy \cup Evicting # {} => unfinished - 1 \in Nat
  BY <1>1, FiniteThreads, CountsOf, QueuedType DEF TypeOK
<1>3. ASSUME NEW d \in Destinations, Users(d) # {} PROVE slots[d] + 1 \in 0 .. SlotLimit
  <2>1. slots[d] \in 0 .. SlotLimit /\ slots[d] + Cardinality(Users(d)) = SlotLimit
    BY CountsOf DEF TypeOK
  <2>2. Cardinality(Users(d)) \in Nat /\ Cardinality(Users(d)) # 0
    BY <1>1, <1>3, FiniteThreads
  <2>3. QED
    BY <2>1, <2>2, SizesAssumption
<1>4. QED
  BY <1>2, <1>3

\* A delivery holds an envelope, which has a destination; it gives a slot back
\* that it has taken.
LEMMA DestType ==
  ASSUME IInv, NEW w \in WorkerIds, wpc[w] \in Delivering
  PROVE  /\ wenv[w] \in Envelopes /\ Dest(w) \in Destinations
         /\ wpc[w] \in Using => slots[Dest(w)] + 1 \in 0 .. SlotLimit
<1>1. wenv[w] \in Envelopes /\ Dest(w) \in Destinations
  BY SetsAssumption DEF IInv, PlaceInv, WorkersHold, Dest
<1>2. wpc[w] \in Using => w \in Users(Dest(w))
  BY DEF Users
<1>3. QED
  BY <1>1, <1>2, CountsBound DEF IInv

-----------------------------------------------------------------------------
\* Nothing has happened yet.
LEMMA InitIInv == Init => IInv
<1> SUFFICES ASSUME Init PROVE IInv
  OBVIOUS
<1>1. queue = <<>> /\ queue \in Seq(Envelopes) /\ Len(queue) = 0 /\ DOMAIN queue = {}
  BY DEF Init
<1>2. TypeOK
  <2>1. policy \in SupportedPolicies /\ maxSize \in QueueSizes /\ Len(queue) <= maxSize
    BY <1>1, SetsAssumption DEF Init
  <2>2. 0 \in 0 .. MaxRetries /\ 0 \in 0 .. MaxStops /\ SlotLimit \in 0 .. SlotLimit
    BY SizesAssumption
  <2>3. /\ retries \in [WorkerIds -> 0 .. MaxRetries] /\ stops \in 0 .. MaxStops
        /\ slots \in [Destinations -> 0 .. SlotLimit]
    BY <2>2 DEF Init
  <2>4. QED
    BY <1>1, <2>1, <2>3 DEF Init, TypeOK, Dead
<1>3. Queued = {} /\ NoRepeats
  BY <1>1 DEF Queued, NoRepeats
<1>4. PlaceInv
  BY <1>3 DEF Init, PlaceInv, WorkersHold, CallersHold, NoneLost, Delivering, Holding, Using
<1>5. Busy = {} /\ Evicting = {} /\ \A d : Users(d) = {}
  BY DEF Init, Busy, Evicting, Users, Delivering, Using, Holding
<1>6. UnfinishedExact /\ SlotsExact
  <2>1. Cardinality(Busy) = 0 /\ Cardinality(Evicting) = 0
    BY <1>5, FS_EmptySet
  <2>2. \A d \in Destinations : Cardinality(Users(d)) = 0 /\ slots[d] = SlotLimit
    BY <1>5, FS_EmptySet DEF Init
  <2>3. QED
    BY <1>1, <2>1, <2>2, CountsOf, SizesAssumption DEF Init
<1>7. SendInv
  BY DEF Init, SendInv
<1>8. SendsBounded
  <2>1. 0 <= MaxRetries + 1
    BY SizesAssumption
  <2>2. QED
    BY <2>1 DEF Init, SendsBounded
<1>9. QED
  BY <1>2, <1>4, <1>6, <1>7, <1>8 DEF IInv

\* Every step of a caller gives each variable a value of its kind.
LEMMA CallerType ==
  ASSUME IInv, NEW c \in Callers, Caller(c) \/ \E e \in Envelopes : Enqueue(c, e)
  PROVE  TypeOK'
<1>0. TypeOK
  BY DEF IInv
<1>1. ASSUME NEW e \in Envelopes, Enqueue(c, e) PROVE TypeOK'
  BY <1>0, <1>1 DEF Enqueue, TypeOK, Settle, CGoto, settings, wvars, pool
<1>2. CASE Start(c)
  BY <1>0, <1>2, StartWorkers DEF Start, TypeOK, CGoto, settings
<1>3. CASE Put(c)
  <2>1. cenv[c] \in Envelopes
    BY <1>3 DEF Put, IInv, PlaceInv, CallersHold
  <2>2. Len(queue) \in Nat /\ maxSize \in Nat /\ Len(queue) < maxSize
    BY <1>0, <1>3, QueuedType, SetsAssumption DEF Put, Full, TypeOK
  <2>3. queue' \in Seq(Envelopes) /\ Len(queue') <= maxSize'
    BY <1>0, <1>3, <2>1, <2>2 DEF Put, TypeOK, settings
  <2>4. QED
    BY <1>0, <1>3, <2>1, <2>3 DEF Put, TypeOK, Settle, Return, settings, wvars, pool
<1>4. CASE Refuse(c)
  <2>1. cenv[c] \in Envelopes
    BY <1>4 DEF Refuse, IInv, PlaceInv, CallersHold
  <2>2. QED
    BY <1>0, <1>4, <2>1 DEF Refuse, TypeOK, Settle, Return, Final, settings, wvars, pool
<1>5. CASE FullDropOldest(c)
  BY <1>0, <1>5 DEF FullDropOldest, TypeOK, CGoto, settings, wvars, pool
<1>6. CASE Evict(c)
  <2>1. CASE queue = <<>>
    BY <1>0, <1>6, <2>1 DEF Evict, TypeOK, CGoto, settings, wvars, pool
  <2>2. CASE queue # <<>>
    <3>1. queue' \in Seq(Envelopes) /\ Len(queue') <= maxSize /\ Head(queue) \in Envelopes
      BY <1>0, <1>6, <2>2, TailQueue, SetsAssumption DEF Evict, IInv, PlaceInv, TypeOK
    <3>2. QED
      BY <1>0, <1>6, <2>2, <3>1 DEF Evict, TypeOK, CGoto, Settle, Final, settings, wvars, pool
  <2>3. QED
    BY <2>1, <2>2
<1>7. CASE EvictDone(c)
  <2>1. c \in Evicting
    BY <1>7 DEF EvictDone, Evicting
  <2>2. unfinished' \in Nat
    BY <1>7, <2>1, CountsBound DEF EvictDone, IInv
  <2>3. QED
    BY <1>0, <1>7, <2>2 DEF EvictDone, TypeOK, CGoto, settings, wvars, pool
<1>8. QED
  BY <1>1, <1>2, <1>3, <1>4, <1>5, <1>6, <1>7 DEF Caller

\* Every step of a worker does.
LEMMA WorkerType ==
  ASSUME IInv, NEW w \in WorkerIds, Worker(w)
  PROVE  TypeOK'
<1>0. TypeOK
  BY DEF IInv
<1>1. CASE TestStop(w) \/ TestEmpty(w) \/ GetTimeout(w)
  BY <1>0, <1>1 DEF TestStop, TestEmpty, GetTimeout, TypeOK, WGoto, Dead, settings, cvars, pool
<1>2. CASE Get(w)
  <2>1. queue' \in Seq(Envelopes) /\ Len(queue') <= maxSize /\ Head(queue) \in Envelopes
    BY <1>0, <1>2, TailQueue, SetsAssumption DEF Get, IInv, PlaceInv, TypeOK
  <2>2. 0 \in 0 .. MaxRetries
    BY SizesAssumption
  <2>3. QED
    BY <1>0, <1>2, <2>1, <2>2 DEF Get, TypeOK, WGoto, Delivering, settings, cvars, pool, Holding,
                                  Using
<1>3. CASE AcquireSlot(w)
  <2>1. wenv[w] \in Envelopes /\ Dest(w) \in Destinations
    BY <1>3, DestType DEF AcquireSlot, Delivering, Holding, Using
  <2>2. slots[Dest(w)] - 1 \in 0 .. SlotLimit
    BY <1>0, <1>3, <2>1, SizesAssumption DEF AcquireSlot, TypeOK
  <2>3. slots' \in [Destinations -> 0 .. SlotLimit]
    BY <1>0, <1>3, <2>2 DEF AcquireSlot, TypeOK
  <2>4. QED
    BY <1>0, <1>3, <2>3 DEF AcquireSlot, TypeOK, WGoto, Delivering, settings, cvars, pool,
                            Holding, Using
<1>4. CASE SlotDeadline(w)
  <2>1. wenv[w] \in Envelopes
    BY <1>4, DestType DEF SlotDeadline, Delivering, Holding, Using
  <2>2. QED
    BY <1>0, <1>4, <2>1 DEF SlotDeadline, TypeOK, WGoto, Settle, Delivering, Final, settings,
                            cvars, pool, Holding, Using
<1>5. CASE RateDenied(w) \/ SendOk(w) \/ SendFails(w) \/ BackoffOver(w)
  <2>1. wenv[w] \in Envelopes /\ slots[Dest(w)] + 1 \in 0 .. SlotLimit
    BY <1>5, DestType DEF SendOk, SendFails, BackoffOver, Delivering, Using, Holding, RateDenied
  <2>2. slots' \in [Destinations -> 0 .. SlotLimit]
    BY <1>0, <1>5, <2>1 DEF SendOk, SendFails, BackoffOver, Release, TypeOK, RateDenied
  <2>3. fate' \in [Envelopes -> Final \cup {"new", "offered", "queued"}]
    BY <1>0, <1>5, <2>1 DEF SendOk, SendFails, BackoffOver, Settle, Final, TypeOK, RateDenied
  <2>4. wpc' \in [WorkerIds -> Dead \cup Delivering \cup {"loop", "stopping", "get"}]
    BY <1>0, <1>5 DEF SendOk, SendFails, BackoffOver, WGoto, Delivering, TypeOK, Holding, Using,
                      RateDenied
  <2>5. QED
    BY <1>0, <1>5, <2>2, <2>3, <2>4
    DEF SendOk, SendFails, BackoffOver, TypeOK, settings, cvars, pool, RateDenied
<1>6. CASE SendTransient(w)
  <2>1. retries[w] + 1 \in 0 .. MaxRetries
    BY <1>0, <1>6, SizesAssumption DEF SendTransient, TypeOK
  <2>2. QED
    BY <1>0, <1>6, <2>1 DEF SendTransient, TypeOK, WGoto, Delivering, settings, cvars, pool,
                            Holding, Using
<1>7. CASE TaskDone(w)
  <2>1. w \in Busy
    BY <1>7 DEF TaskDone, Busy, Delivering, Holding, Using
  <2>2. unfinished' \in Nat
    BY <1>7, <2>1, CountsBound DEF TaskDone, IInv
  <2>3. 0 \in 0 .. MaxRetries
    BY SizesAssumption
  <2>4. QED
    BY <1>0, <1>7, <2>2, <2>3 DEF TaskDone, TypeOK, WGoto, settings, cvars, pool
<1>8. CASE RateAllowed(w)
  <2>1. wenv[w] \in Envelopes
    BY <1>8, DestType DEF RateAllowed, Delivering, Holding, Using
  <2>2. sends' \in [Envelopes -> Nat]
    BY <1>0, <1>8, <2>1 DEF RateAllowed, TypeOK
  <2>3. QED
    BY <1>0, <1>8, <2>2 DEF RateAllowed, TypeOK, WGoto, Delivering, Holding, Using, settings,
                            cvars, pool
<1>9. QED
  BY <1>1, <1>2, <1>3, <1>4, <1>5, <1>6, <1>7, <1>8 DEF Worker, Deliver

\* So does stop(), and so does no step at all.
LEMMA NextType == IInv /\ [Next]_vars => TypeOK'
<1> SUFFICES ASSUME IInv, [Next]_vars PROVE TypeOK'
  OBVIOUS
<1>0. TypeOK
  BY DEF IInv
<1>1. CASE StopBegin
  <2>1. stops' \in 0 .. MaxStops
    BY <1>0, <1>1, SizesAssumption DEF StopBegin, TypeOK
  <2>2. QED
    BY <1>0, <1>1, <2>1 DEF StopBegin, TypeOK, settings, wvars, cvars
<1>2. CASE StopDrained \/ StopClear
  BY <1>0, <1>2 DEF StopDrained, StopClear, TypeOK, settings, wvars, cvars
<1>3. CASE UNCHANGED vars
  BY <1>0, <1>3 DEF vars, TypeOK, settings, wvars, cvars, pool
<1>4. QED
  BY <1>1, <1>2, <1>3, CallerType, WorkerType DEF Next, Stopper

-----------------------------------------------------------------------------
\* What moves no envelope: the queue, the fates and what the workers and callers
\* hold stay.
LEMMA PlaceFrame ==
  ASSUME PlaceInv, UNCHANGED <<queue, fate, wenv, cenv, policy>>,
         \A w \in WorkerIds : /\ wpc'[w] \in Holding <=> wpc[w] \in Holding
                              /\ wpc'[w] \in Delivering => wpc[w] \in Delivering,
         \A c \in Callers : /\ cpc'[c] # "idle" => cpc[c] # "idle"
                            /\ cpc'[c] \in {"evict", "evicted", "reput"} => policy = "drop_oldest"
  PROVE  PlaceInv'
<1>1. Queued' = Queued /\ NoRepeats'
  BY DEF PlaceInv, Queued, NoRepeats
<1>2. WorkersHold'
  BY <1>1 DEF PlaceInv, WorkersHold
<1>3. CallersHold'
  BY DEF PlaceInv, CallersHold
<1>4. NoneLost'
  BY <1>1 DEF PlaceInv, NoneLost
<1>5. QED
  BY <1>1, <1>2, <1>3, <1>4 DEF PlaceInv

\* The steps of a caller take its envelope from it to the queue or its end, and
\* evict nothing but the head.
LEMMA CallerPlace ==
  ASSUME IInv, NEW c \in Callers, Caller(c) \/ \E e \in Envelopes : Enqueue(c, e)
  PROVE  PlaceInv'
<1>0. TypeOK /\ PlaceInv
  BY DEF IInv
<1>1. ASSUME NEW e \in Envelopes, Enqueue(c, e) PROVE PlaceInv'
  <2>1. Queued' = Queued /\ NoRepeats' /\ e \notin Queued
    BY <1>0, <1>1 DEF Enqueue, PlaceInv, Queued, NoRepeats
  <2>3. WorkersHold'
    BY <1>0, <1>1, <2>1
    DEF Enqueue, Settle, wvars, TypeOK, PlaceInv, WorkersHold, Delivering, Holding, Using
  <2>4. CallersHold'
    BY <1>0, <1>1 DEF Enqueue, Settle, CGoto, settings, TypeOK, PlaceInv, CallersHold
  <2>5. NoneLost'
    BY <1>0, <1>1, <2>1 DEF Enqueue, Settle, wvars, TypeOK, PlaceInv, NoneLost
  <2>6. \A f \in Queued' : fate'[f] = "queued"
    BY <1>0, <1>1, <2>1 DEF Enqueue, Settle, TypeOK, PlaceInv
  <2>7. QED
    BY <2>1, <2>3, <2>4, <2>5, <2>6 DEF PlaceInv
<1>2. CASE Start(c)
  <2>1. \A w \in WorkerIds : wpc'[w] = wpc[w] \/ (wpc[w] \in Dead /\ wpc'[w] = "loop")
    BY <1>0, <1>2, StartWorkers
  <2>2. \A w \in WorkerIds : /\ wpc'[w] \in Holding <=> wpc[w] \in Holding
                             /\ wpc'[w] \in Delivering => wpc[w] \in Delivering
    BY <2>1 DEF Dead, Holding, Delivering, Using
  <2>3. QED
    BY <1>0, <1>2, <2>2, PlaceFrame DEF Start, CGoto, settings, TypeOK, PlaceInv, CallersHold
<1>3. CASE Put(c)
  <2>1. cenv[c] \in Envelopes /\ fate[cenv[c]] = "offered" /\ cenv[c] \notin Queued
    BY <1>0, <1>3 DEF Put, PlaceInv, CallersHold
  <2>2. Queued' = Queued \cup {cenv[c]} /\ NoRepeats'
    BY <1>0, <1>3, <2>1, AppendQueue DEF Put, TypeOK, PlaceInv
  <2>3. WorkersHold'
    BY <1>0, <1>3, <2>1, <2>2
    DEF Put, Settle, wvars, TypeOK, PlaceInv, WorkersHold, Delivering, Holding, Using
  <2>4. CallersHold'
    BY <1>0, <1>3, <2>1 DEF Put, Settle, Return, settings, TypeOK, PlaceInv, CallersHold
  <2>5. NoneLost'
    BY <1>0, <1>3, <2>2 DEF Put, Settle, wvars, TypeOK, PlaceInv, NoneLost
  <2>6. \A f \in Queued' : fate'[f] = "queued"
    BY <1>0, <1>3, <2>1, <2>2, QueuedType DEF Put, Settle, TypeOK, PlaceInv
  <2>7. QED
    BY <2>2, <2>3, <2>4, <2>5, <2>6 DEF PlaceInv
<1>4. CASE Refuse(c)
  <2>1. cenv[c] \in Envelopes /\ fate[cenv[c]] = "offered" /\ cenv[c] \notin Queued
    BY <1>0, <1>4 DEF Refuse, PlaceInv, CallersHold
  <2>2. Queued' = Queued /\ NoRepeats'
    BY <1>0, <1>4 DEF Refuse, PlaceInv, Queued, NoRepeats
  <2>3. WorkersHold'
    BY <1>0, <1>4, <2>1, <2>2
    DEF Refuse, Settle, wvars, TypeOK, PlaceInv, WorkersHold, Delivering, Holding, Using
  <2>4. CallersHold'
    BY <1>0, <1>4, <2>1 DEF Refuse, Settle, Return, settings, TypeOK, PlaceInv, CallersHold
  <2>5. NoneLost'
    BY <1>0, <1>4, <2>1, <2>2 DEF Refuse, Settle, wvars, TypeOK, PlaceInv, NoneLost
  <2>6. \A f \in Queued' : fate'[f] = "queued"
    BY <1>0, <1>4, <2>1, <2>2, QueuedType DEF Refuse, Settle, TypeOK, PlaceInv
  <2>7. QED
    BY <2>2, <2>3, <2>4, <2>5, <2>6 DEF PlaceInv
<1>5. CASE FullDropOldest(c) \/ EvictDone(c) \/ (Evict(c) /\ queue = <<>>)
  <2>1. UNCHANGED <<queue, fate, wpc, wenv, cenv, policy>>
    BY <1>5 DEF FullDropOldest, EvictDone, Evict, settings, wvars
  <2>2. policy = "drop_oldest" /\ cpc[c] # "idle"
    BY <1>0, <1>5 DEF FullDropOldest, EvictDone, Evict, PlaceInv, CallersHold
  <2>3. \A d \in Callers : d # c => cpc'[d] = cpc[d]
    BY <1>0, <1>5 DEF FullDropOldest, EvictDone, Evict, CGoto, TypeOK
  <2>4. QED
    BY <1>0, <2>1, <2>2, <2>3, PlaceFrame
<1>6. CASE Evict(c) /\ queue # <<>>
  <2>1. /\ Head(queue) \in Queued /\ Head(queue) \in Envelopes /\ NoRepeats'
        /\ Queued' = Queued \ {Head(queue)} /\ fate[Head(queue)] = "queued"
    BY <1>0, <1>6, TailQueue DEF Evict, TypeOK, PlaceInv
  <2>2. fate' = [fate EXCEPT ![Head(queue)] = "evicted"]
    BY <1>6 DEF Evict, Settle
  <2>3. WorkersHold'
    BY <1>0, <1>6, <2>1, <2>2
    DEF Evict, wvars, TypeOK, PlaceInv, WorkersHold, Delivering, Holding, Using
  <2>4. CallersHold'
    BY <1>0, <1>6, <2>1, <2>2 DEF Evict, CGoto, settings, TypeOK, PlaceInv, CallersHold
  <2>5. NoneLost'
    BY <1>0, <1>6, <2>1, <2>2 DEF Evict, wvars, TypeOK, PlaceInv, NoneLost
  <2>6. \A f \in Queued' : fate'[f] = "queued"
    BY <1>0, <2>1, <2>2, QueuedType DEF TypeOK, PlaceInv
  <2>7. QED
    BY <2>1, <2>3, <2>4, <2>5, <2>6 DEF PlaceInv
<1>7. QED
  BY <1>1, <1>2, <1>3, <1>4, <1>5, <1>6 DEF Caller

\* The steps of a worker: one at a time takes an envelope, and only from the
\* queue; it settles what it holds and nothing else.
LEMMA WorkerPlace ==
  ASSUME IInv, NEW w \in WorkerIds, Worker(w)
  PROVE  PlaceInv'
<1>0. TypeOK /\ PlaceInv
  BY DEF IInv
<1>1. CASE \/ TestStop(w) \/ TestEmpty(w) \/ GetTimeout(w)
           \/ AcquireSlot(w) \/ RateAllowed(w) \/ SendTransient(w) \/ BackoffOver(w)
  <2>1. UNCHANGED <<queue, fate, wenv, cpc, cenv, policy>>
    BY <1>1 DEF TestStop, TestEmpty, GetTimeout, AcquireSlot, SendTransient, BackoffOver,
                settings, cvars, RateAllowed
  <2>2. /\ wpc'[w] \in Holding <=> wpc[w] \in Holding
        /\ wpc'[w] \in Delivering => wpc[w] \in Delivering
        /\ \A v \in WorkerIds : v # w => wpc'[v] = wpc[v]
    BY <1>0, <1>1 DEF TestStop, TestEmpty, GetTimeout, AcquireSlot, SendTransient, BackoffOver,
                      WGoto, TypeOK, Holding, Delivering, Using, RateAllowed
  <2>3. QED
    BY <1>0, <2>1, <2>2, PlaceFrame DEF PlaceInv, CallersHold
<1>2. CASE Get(w)
  <2>1. /\ Head(queue) \in Queued /\ Head(queue) \in Envelopes /\ NoRepeats'
        /\ Queued' = Queued \ {Head(queue)} /\ fate[Head(queue)] = "queued"
    BY <1>0, <1>2, TailQueue DEF Get, TypeOK, PlaceInv
  <2>2. /\ wenv'[w] = Head(queue) /\ wpc'[w] = "slot" /\ wpc[w] = "get"
        /\ \A v \in WorkerIds : v # w => wpc'[v] = wpc[v] /\ wenv'[v] = wenv[v]
    BY <1>0, <1>2 DEF Get, WGoto, TypeOK
  <2>3. WorkersHold'
    BY <1>0, <1>2, <2>1, <2>2 DEF Get, PlaceInv, WorkersHold, Holding, Delivering, Using
  <2>4. CallersHold'
    BY <1>0, <1>2 DEF Get, cvars, settings, PlaceInv, CallersHold
  <2>5. NoneLost'
    BY <1>0, <1>2, <2>1, <2>2 DEF Get, PlaceInv, NoneLost, Holding, Using
  <2>6. \A e \in Queued' : fate'[e] = "queued"
    BY <1>0, <1>2, <2>1 DEF Get, PlaceInv
  <2>7. QED
    BY <2>1, <2>3, <2>4, <2>5, <2>6 DEF PlaceInv
<1>3. CASE SlotDeadline(w) \/ RateDenied(w) \/ SendOk(w) \/ SendFails(w)
  <2>1. /\ wpc[w] \in Holding /\ wenv[w] \in Envelopes
        /\ fate[wenv[w]] = "queued" /\ wenv[w] \notin Queued
    BY <1>0, <1>3
    DEF SlotDeadline, SendOk, SendFails, PlaceInv, WorkersHold, Holding, Delivering, Using,
        RateDenied
  <2>2. fate' = [fate EXCEPT ![wenv[w]] = fate'[wenv[w]]] /\ fate'[wenv[w]] \in Final
    BY <1>0, <1>3, <2>1 DEF SlotDeadline, SendOk, SendFails, Settle, Final, TypeOK, RateDenied
  <2>3. /\ wenv' = wenv /\ queue' = queue /\ wpc'[w] = "done"
        /\ \A v \in WorkerIds : v # w => wpc'[v] = wpc[v]
    BY <1>0, <1>3 DEF SlotDeadline, SendOk, SendFails, WGoto, TypeOK, RateDenied
  <2>4. Queued' = Queued /\ NoRepeats'
    BY <1>0, <2>3 DEF PlaceInv, Queued, NoRepeats
  <2>5. \A e \in Envelopes : e # wenv[w] => fate'[e] = fate[e]
    BY <1>0, <2>2 DEF TypeOK
  <2>6. WorkersHold'
    BY <1>0, <2>1, <2>3, <2>4, <2>5 DEF PlaceInv, WorkersHold, Holding, Delivering, Using
  <2>7. CallersHold'
    <3>1. UNCHANGED <<cpc, cenv, policy>>
      BY <1>3 DEF SlotDeadline, SendOk, SendFails, cvars, settings, RateDenied
    <3>2. \A c \in Callers : cpc[c] # "idle" => fate'[cenv[c]] = "offered"
      BY <1>0, <2>1, <2>5 DEF PlaceInv, CallersHold
    <3>3. QED
      BY <1>0, <3>1, <3>2 DEF PlaceInv, CallersHold
  <2>8. NoneLost'
    BY <1>0, <2>2, <2>3, <2>4, <2>5 DEF PlaceInv, NoneLost, Final, Holding, Using
  <2>9. \A e \in Queued' : fate'[e] = "queued"
    BY <1>0, <2>1, <2>4, <2>5, QueuedType DEF PlaceInv
  <2>10. QED
    BY <2>4, <2>6, <2>7, <2>8, <2>9 DEF PlaceInv
<1>4. CASE TaskDone(w)
  <2>1. Queued' = Queued /\ NoRepeats'
    BY <1>0, <1>4 DEF TaskDone, PlaceInv, Queued, NoRepeats
  <2>2. /\ wpc[w] = "done" /\ wpc'[w] = "loop"
        /\ \A v \in WorkerIds : v # w => wpc'[v] = wpc[v] /\ wenv'[v] = wenv[v]
    BY <1>0, <1>4 DEF TaskDone, WGoto, TypeOK
  <2>3. WorkersHold'
    BY <1>0, <1>4, <2>1, <2>2 DEF TaskDone, PlaceInv, WorkersHold, Holding, Delivering, Using
  <2>4. CallersHold'
    BY <1>0, <1>4 DEF TaskDone, cvars, settings, PlaceInv, CallersHold
  <2>5. NoneLost'
    BY <1>0, <1>4, <2>1, <2>2 DEF TaskDone, PlaceInv, NoneLost, Holding, Using
  <2>6. QED
    BY <1>0, <1>4, <2>1, <2>3, <2>4, <2>5 DEF TaskDone, PlaceInv
<1>5. QED
  BY <1>1, <1>2, <1>3, <1>4 DEF Worker, Deliver

\* Stopping moves nothing.
LEMMA NextPlace == IInv /\ [Next]_vars => PlaceInv'
<1> SUFFICES ASSUME IInv, [Next]_vars PROVE PlaceInv'
  OBVIOUS
<1>1. CASE Stopper \/ UNCHANGED vars
  <2>1. UNCHANGED <<queue, fate, wpc, wenv, cpc, cenv, policy>>
    BY <1>1 DEF Stopper, StopBegin, StopDrained, StopClear, vars, settings, wvars, cvars
  <2>2. QED
    BY <2>1, PlaceFrame DEF IInv, PlaceInv, CallersHold
<1>2. QED
  BY <1>1, CallerPlace, WorkerPlace DEF Next

-----------------------------------------------------------------------------
\* A thread that comes in is one more, one that goes is one less.
LEMMA OneThread ==
  /\ \A w : w \notin Busy => Cardinality(Busy \cup {w}) = Cardinality(Busy) + 1
  /\ \A w : w \in Busy => Cardinality(Busy \ {w}) = Cardinality(Busy) - 1
  /\ \A c : c \notin Evicting => Cardinality(Evicting \cup {c}) = Cardinality(Evicting) + 1
  /\ \A c : c \in Evicting => Cardinality(Evicting \ {c}) = Cardinality(Evicting) - 1
  /\ \A d, w : w \notin Users(d) => Cardinality(Users(d) \cup {w}) = Cardinality(Users(d)) + 1
  /\ \A d, w : w \in Users(d) => Cardinality(Users(d) \ {w}) = Cardinality(Users(d)) - 1
BY FiniteThreads, FS_AddElement, FS_RemoveElement

\* The count of unfinished tasks, primed.
LEMMA UnfinishedNext ==
  UnfinishedExact' <=> unfinished' = Len(queue') + Cardinality(Busy') + Cardinality(Evicting')
BY DEF UnfinishedExact, Busy, Evicting

\* Each caller counts what it puts, and uncounts what it has evicted.
LEMMA CallerUnfinished ==
  ASSUME IInv, NEW c \in Callers, Caller(c) \/ \E e \in Envelopes : Enqueue(c, e)
  PROVE  UnfinishedExact'
<1>0. /\ TypeOK /\ Len(queue) \in Nat /\ unfinished \in Nat
      /\ Cardinality(Busy) \in Nat /\ Cardinality(Evicting) \in Nat
      /\ unfinished = Len(queue) + Cardinality(Busy) + Cardinality(Evicting)
  BY QueuedType, FiniteThreads, CountsOf DEF IInv, TypeOK
<1>1. CASE (\E e \in Envelopes : Enqueue(c, e)) \/ Refuse(c) \/ FullDropOldest(c)
           \/ (Evict(c) /\ queue = <<>>)
  <2>1. UNCHANGED <<queue, unfinished, wpc>>
    BY <1>1 DEF Enqueue, Refuse, FullDropOldest, Evict, wvars
  <2>2. Busy' = Busy
    BY <2>1 DEF Busy
  <2>3. Evicting' = Evicting
    BY <1>0, <1>1
    DEF Enqueue, Refuse, FullDropOldest, Evict, CGoto, Return, Evicting, TypeOK
  <2>4. QED
    BY <1>0, <2>1, <2>2, <2>3, UnfinishedNext
<1>2. CASE Start(c)
  <2>1. \A w \in WorkerIds : wpc'[w] = wpc[w] \/ (wpc[w] \in Dead /\ wpc'[w] = "loop")
    BY <1>0, <1>2, StartWorkers
  <2>2. Busy' = Busy
    BY <2>1 DEF Busy, Dead, Delivering, Holding, Using
  <2>3. Evicting' = Evicting
    BY <1>0, <1>2 DEF Start, CGoto, Evicting, TypeOK
  <2>4. QED
    BY <1>0, <1>2, <2>2, <2>3, UnfinishedNext DEF Start
<1>3. CASE Put(c)
  <2>1. Busy' = Busy
    BY <1>3 DEF Put, wvars, Busy
  <2>2. Evicting' = Evicting
    BY <1>0, <1>3 DEF Put, Return, Evicting, TypeOK
  <2>3. Len(queue') = Len(queue) + 1 /\ unfinished' = unfinished + 1
    <3>1. cenv[c] \in Envelopes /\ queue \in Seq(Envelopes)
      BY <1>0, <1>3 DEF Put, IInv, PlaceInv, CallersHold, TypeOK
    <3>2. QED
      BY <1>3, <3>1 DEF Put
  <2>4. QED
    BY <1>0, <2>1, <2>2, <2>3, UnfinishedNext
<1>4. CASE Evict(c) /\ queue # <<>>
  <2>1. Busy' = Busy
    BY <1>4 DEF Evict, wvars, Busy
  <2>2. Evicting' = Evicting \cup {c} /\ c \notin Evicting
    BY <1>0, <1>4 DEF Evict, CGoto, Evicting, TypeOK
  <2>3. Len(queue') = Len(queue) - 1 /\ unfinished' = unfinished
    BY <1>0, <1>4, TailQueue DEF Evict, IInv, PlaceInv, TypeOK
  <2>4. QED
    BY <1>0, <2>1, <2>2, <2>3, OneThread, UnfinishedNext
<1>5. CASE EvictDone(c)
  <2>1. Busy' = Busy
    BY <1>5 DEF EvictDone, wvars, Busy
  <2>2. Evicting' = Evicting \ {c} /\ c \in Evicting
    BY <1>0, <1>5 DEF EvictDone, CGoto, Evicting, TypeOK
  <2>3. Cardinality(Evicting') = Cardinality(Evicting) - 1
    BY <2>2, OneThread
  <2>4. queue' = queue /\ unfinished' = unfinished - 1
    BY <1>5 DEF EvictDone
  <2>5. QED
    BY <1>0, <2>1, <2>3, <2>4, UnfinishedNext
<1>6. QED
  BY <1>1, <1>2, <1>3, <1>4, <1>5 DEF Caller

\* Each worker keeps what it has taken counted until it is done with it.
LEMMA WorkerUnfinished ==
  ASSUME IInv, NEW w \in WorkerIds, Worker(w)
  PROVE  UnfinishedExact'
<1>0. /\ TypeOK /\ Len(queue) \in Nat /\ unfinished \in Nat
      /\ Cardinality(Busy) \in Nat /\ Cardinality(Evicting) \in Nat
      /\ unfinished = Len(queue) + Cardinality(Busy) + Cardinality(Evicting)
  BY QueuedType, FiniteThreads, CountsOf DEF IInv, TypeOK
<1>1. Evicting' = Evicting
  BY DEF Worker, Deliver, TestStop, TestEmpty, Get, GetTimeout, AcquireSlot, SlotDeadline,
         SendOk, SendFails, SendTransient, BackoffOver, TaskDone, cvars, Evicting, RateAllowed,
         RateDenied
<1>2. CASE Get(w)
  <2>1. Busy' = Busy \cup {w} /\ w \notin Busy
    BY <1>0, <1>2 DEF Get, WGoto, Busy, Delivering, TypeOK, Holding, Using
  <2>2. Len(queue') = Len(queue) - 1 /\ unfinished' = unfinished
    BY <1>0, <1>2, TailQueue DEF Get, IInv, PlaceInv, TypeOK
  <2>3. QED
    BY <1>0, <1>1, <2>1, <2>2, OneThread, UnfinishedNext
<1>3. CASE TaskDone(w)
  <2>1. Busy' = Busy \ {w} /\ w \in Busy
    BY <1>0, <1>3 DEF TaskDone, WGoto, Busy, Delivering, TypeOK, Holding, Using
  <2>2. Cardinality(Busy') = Cardinality(Busy) - 1
    BY <2>1, OneThread
  <2>3. queue' = queue /\ unfinished' = unfinished - 1
    BY <1>3 DEF TaskDone
  <2>4. QED
    BY <1>0, <1>1, <2>2, <2>3, UnfinishedNext
<1>4. CASE \/ TestStop(w) \/ TestEmpty(w) \/ GetTimeout(w) \/ AcquireSlot(w) \/ SlotDeadline(w)
           \/ RateAllowed(w) \/ RateDenied(w) \/ SendOk(w) \/ SendFails(w)
           \/ SendTransient(w) \/ BackoffOver(w)
  <2>1. UNCHANGED <<queue, unfinished>>
    BY <1>4 DEF TestStop, TestEmpty, GetTimeout, AcquireSlot, SlotDeadline, SendOk, SendFails,
                SendTransient, BackoffOver, RateAllowed, RateDenied
  <2>2. Busy' = Busy
    BY <1>0, <1>4 DEF TestStop, TestEmpty, GetTimeout, AcquireSlot, SlotDeadline, SendOk,
                      SendFails, SendTransient, BackoffOver, WGoto, Busy, Delivering, TypeOK,
                      Holding, Using, RateAllowed, RateDenied
  <2>3. QED
    BY <1>0, <1>1, <2>1, <2>2, UnfinishedNext
<1>5. QED
  BY <1>2, <1>3, <1>4 DEF Worker, Deliver

\* Stopping finishes nothing.
LEMMA NextUnfinished == IInv /\ [Next]_vars => UnfinishedExact'
<1> SUFFICES ASSUME IInv, [Next]_vars PROVE UnfinishedExact'
  OBVIOUS
<1>1. CASE Stopper \/ UNCHANGED vars
  BY <1>1 DEF IInv, UnfinishedExact, Stopper, StopBegin, StopDrained, StopClear, vars, wvars, cvars
<1>2. QED
  BY <1>1, CallerUnfinished, WorkerUnfinished DEF Next

-----------------------------------------------------------------------------
\* A step that moves nobody in or out of the users of slots keeps their count.
LEMMA SlotsFrame ==
  ASSUME SlotsExact, UNCHANGED slots,
         \A w \in WorkerIds :
           /\ wpc'[w] \in Using <=> wpc[w] \in Using
           /\ wpc[w] \in Using => wenv'[w] = wenv[w]
  PROVE  SlotsExact'
<1>1. \A d : Users(d)' = Users(d)
  BY DEF Users, Dest
<1>2. SlotsExact' <=> \A d \in Destinations : slots'[d] + Cardinality(Users(d)') = SlotLimit
  BY DEF SlotsExact, Users, Using
<1>3. QED
  BY <1>1, <1>2, CountsOf

\* A worker that changes the free slots of its destination by one and itself
\* becomes a user or ceases to be one keeps their sum.
LEMMA SlotsMove ==
  ASSUME IInv, NEW w \in WorkerIds, Dest(w) \in Destinations, wenv' = wenv,
         \A v \in WorkerIds : v # w => wpc'[v] = wpc[v],
         \/ /\ wpc[w] \notin Using /\ wpc'[w] \in Using
            /\ slots' = [slots EXCEPT ![Dest(w)] = @ - 1]
         \/ /\ wpc[w] \in Using /\ wpc'[w] \notin Using
            /\ slots' = [slots EXCEPT ![Dest(w)] = @ + 1]
  PROVE  SlotsExact'
<1>1. SlotsExact' <=> \A d \in Destinations : slots'[d] + Cardinality(Users(d)') = SlotLimit
  BY DEF SlotsExact, Users, Using
<1>2. SUFFICES ASSUME NEW d \in Destinations
               PROVE  slots'[d] + Cardinality(Users(d)') = SlotLimit
  BY <1>1
<1>3. /\ slots \in [Destinations -> 0 .. SlotLimit] /\ slots[d] \in Nat
      /\ Cardinality(Users(d)) \in Nat /\ slots[d] + Cardinality(Users(d)) = SlotLimit
  BY FiniteThreads, CountsOf, SizesAssumption DEF IInv, TypeOK
<1>4. CASE d # Dest(w)
  <2>1. Users(d)' = Users(d)
    BY <1>4 DEF Users, Dest
  <2>2. slots'[d] = slots[d]
    BY <1>3, <1>4
  <2>3. QED
    BY <1>3, <2>1, <2>2
<1>5. CASE /\ d = Dest(w) /\ wpc[w] \notin Using /\ wpc'[w] \in Using
           /\ slots' = [slots EXCEPT ![Dest(w)] = @ - 1]
  <2>1. Users(d)' = Users(d) \cup {w} /\ w \notin Users(d)
    BY <1>5 DEF Users, Dest
  <2>2. Cardinality(Users(d)') = Cardinality(Users(d)) + 1
    BY <2>1, OneThread
  <2>3. slots'[d] = slots[d] - 1
    BY <1>3, <1>5
  <2>4. QED
    BY <1>3, <2>2, <2>3, SizesAssumption
<1>6. CASE /\ d = Dest(w) /\ wpc[w] \in Using /\ wpc'[w] \notin Using
           /\ slots' = [slots EXCEPT ![Dest(w)] = @ + 1]
  <2>1. Users(d)' = Users(d) \ {w} /\ w \in Users(d)
    BY <1>6 DEF Users, Dest
  <2>2. Cardinality(Users(d)') = Cardinality(Users(d)) - 1
    BY <2>1, OneThread
  <2>3. slots'[d] = slots[d] + 1
    BY <1>3, <1>6
  <2>4. QED
    BY <1>3, <2>2, <2>3, SizesAssumption
<1>7. QED
  BY <1>4, <1>5, <1>6

\* Slots change hands in five steps of a worker, and in no other.
LEMMA NextSlots == IInv /\ [Next]_vars => SlotsExact'
<1> SUFFICES ASSUME IInv, [Next]_vars PROVE SlotsExact'
  OBVIOUS
<1>0. TypeOK /\ SlotsExact
  BY DEF IInv
<1>1. ASSUME NEW w \in WorkerIds, AcquireSlot(w) PROVE SlotsExact'
  <2>1. Dest(w) \in Destinations
    BY <1>1, DestType DEF AcquireSlot, Delivering, Holding, Using
  <2>2. /\ wpc[w] \notin Using /\ wpc'[w] \in Using
        /\ \A v \in WorkerIds : v # w => wpc'[v] = wpc[v]
    BY <1>0, <1>1 DEF AcquireSlot, WGoto, Using, TypeOK
  <2>3. QED
    BY <1>1, <2>1, <2>2, SlotsMove DEF AcquireSlot
<1>2. ASSUME NEW w \in WorkerIds, RateDenied(w) \/ SendOk(w) \/ SendFails(w) \/ BackoffOver(w)
      PROVE  SlotsExact'
  <2>1. Dest(w) \in Destinations
    BY <1>2, DestType DEF SendOk, SendFails, BackoffOver, Delivering, Holding, Using, RateDenied
  <2>2. /\ wpc[w] \in Using /\ wpc'[w] \notin Using
        /\ \A v \in WorkerIds : v # w => wpc'[v] = wpc[v]
    BY <1>0, <1>2 DEF SendOk, SendFails, BackoffOver, WGoto, Using, TypeOK, RateDenied
  <2>3. slots' = [slots EXCEPT ![Dest(w)] = @ + 1] /\ wenv' = wenv
    BY <1>2 DEF SendOk, SendFails, BackoffOver, Release, RateDenied
  <2>4. QED
    BY <2>1, <2>2, <2>3, SlotsMove
<1>3. ASSUME NEW w \in WorkerIds,
             \/ TestStop(w) \/ TestEmpty(w) \/ Get(w) \/ GetTimeout(w) \/ SlotDeadline(w)
             \/ RateAllowed(w) \/ SendTransient(w) \/ TaskDone(w)
      PROVE  SlotsExact'
  <2>1. slots' = slots
    BY <1>3 DEF TestStop, TestEmpty, Get, GetTimeout, SlotDeadline, SendTransient, TaskDone,
                RateAllowed
  <2>2. /\ wpc'[w] \in Using <=> wpc[w] \in Using
        /\ wpc[w] \in Using => wenv'[w] = wenv[w]
        /\ \A v \in WorkerIds : v # w => wpc'[v] = wpc[v] /\ wenv'[v] = wenv[v]
    BY <1>0, <1>3 DEF TestStop, TestEmpty, Get, GetTimeout, SlotDeadline, SendTransient,
                      TaskDone, WGoto, Using, TypeOK, RateAllowed
  <2>3. QED
    BY <1>0, <2>1, <2>2, SlotsFrame
<1>4. ASSUME NEW c \in Callers, Start(c) PROVE SlotsExact'
  <2>1. \A w \in WorkerIds : wpc'[w] = wpc[w] \/ (wpc[w] \in Dead /\ wpc'[w] = "loop")
    BY <1>0, <1>4, StartWorkers
  <2>2. \A w \in WorkerIds : wpc'[w] \in Using <=> wpc[w] \in Using
    BY <2>1 DEF Dead, Using
  <2>3. QED
    BY <1>0, <1>4, <2>2, SlotsFrame DEF Start
<1>5. CASE UNCHANGED wvars
  BY <1>0, <1>5, SlotsFrame DEF wvars
<1>6. QED
  BY <1>1, <1>2, <1>3, <1>4, <1>5
  DEF Next, Caller, Worker, Deliver, Stopper, vars, Enqueue, Put, Refuse, FullDropOldest,
      Evict, EvictDone, StopBegin, StopDrained, StopClear

-----------------------------------------------------------------------------
\* The sends of an envelope move with it: none before a worker has it, one for
\* each attempt while it has.
LEMMA SendFrame ==
  ASSUME SendInv, UNCHANGED sends,
         \A e \in Envelopes : fate'[e] \in {"new", "offered"} \/ e \in Queued' =>
                                fate[e] \in {"new", "offered"} \/ e \in Queued,
         \A w \in WorkerIds : wpc'[w] \in Holding =>
                                UNCHANGED <<wpc[w], wenv[w], retries[w]>>
  PROVE  SendInv'
BY DEF SendInv, Holding, Using

\* No step of a caller sends, or takes an envelope back to where none was sent.
LEMMA CallerSends ==
  ASSUME IInv, NEW c \in Callers, Caller(c) \/ \E e \in Envelopes : Enqueue(c, e)
  PROVE  SendInv'
<1>0. TypeOK /\ PlaceInv /\ SendInv
  BY DEF IInv
<1>1. UNCHANGED <<sends, wenv, retries>>
  BY DEF Caller, Enqueue, Start, Put, Refuse, FullDropOldest, Evict, EvictDone, wvars
<1>2. \A w \in WorkerIds : wpc'[w] \in Holding => wpc'[w] = wpc[w]
  <2>1. CASE Start(c)
    BY <1>0, <2>1, StartWorkers DEF Dead, Holding, Using
  <2>2. CASE wpc' = wpc
    BY <2>2
  <2>3. QED
    BY <2>1, <2>2 DEF Caller, Enqueue, Put, Refuse, FullDropOldest, Evict, EvictDone, wvars
<1>3. ASSUME NEW e \in Envelopes, fate'[e] \in {"new", "offered"} \/ e \in Queued'
      PROVE  fate[e] \in {"new", "offered"} \/ e \in Queued
  <2>1. CASE \E f \in Envelopes : Enqueue(c, f)
    <3>1. Queued' = Queued
      BY <2>1 DEF Enqueue, Queued
    <3>2. QED
      BY <1>0, <1>3, <2>1, <3>1 DEF Enqueue, Settle, TypeOK
  <2>2. CASE Start(c) \/ FullDropOldest(c) \/ EvictDone(c) \/ (Evict(c) /\ queue = <<>>)
    BY <1>3, <2>2 DEF Start, FullDropOldest, EvictDone, Evict, Queued
  <2>3. CASE Put(c)
    <3>1. cenv[c] \in Envelopes /\ fate[cenv[c]] = "offered" /\ cenv[c] \notin Queued
      BY <1>0, <2>3 DEF Put, PlaceInv, CallersHold
    <3>2. Queued' = Queued \cup {cenv[c]}
      BY <1>0, <2>3, <3>1, AppendQueue DEF Put, TypeOK, PlaceInv
    <3>3. QED
      BY <1>0, <1>3, <2>3, <3>1, <3>2 DEF Put, Settle, TypeOK
  <2>4. CASE Refuse(c)
    <3>1. Queued' = Queued
      BY <2>4 DEF Refuse, Queued
    <3>2. QED
      BY <1>0, <1>3, <2>4, <3>1 DEF Refuse, Settle, TypeOK
  <2>5. CASE Evict(c) /\ queue # <<>>
    <3>1. Queued' \subseteq Queued
      BY <1>0, <2>5, TailQueue DEF Evict, TypeOK, PlaceInv
    <3>2. QED
      BY <1>0, <1>3, <2>5, <3>1 DEF Evict, Settle, TypeOK
  <2>6. QED
    BY <2>1, <2>2, <2>3, <2>4, <2>5 DEF Caller
<1>4. QED
  BY <1>0, <1>1, <1>2, <1>3, SendFrame

\* A worker begins with an envelope that was never sent, and counts each retry.
LEMMA WorkerSends ==
  ASSUME IInv, NEW w \in WorkerIds, Worker(w)
  PROVE  SendInv'
<1>0. TypeOK /\ PlaceInv /\ SendInv
  BY DEF IInv
<1>1. CASE Get(w)
  <2>1. /\ Head(queue) \in Queued /\ Head(queue) \in Envelopes /\ Queued' \subseteq Queued
    BY <1>0, <1>1, TailQueue DEF Get, TypeOK, PlaceInv
  <2>2. sends[Head(queue)] = 0
    BY <1>0, <2>1 DEF SendInv
  <2>3. /\ wenv'[w] = Head(queue) /\ wpc'[w] = "slot" /\ retries'[w] = 0
        /\ \A v \in WorkerIds :
             v # w => wpc'[v] = wpc[v] /\ wenv'[v] = wenv[v] /\ retries'[v] = retries[v]
    BY <1>0, <1>1 DEF Get, WGoto, TypeOK
  <2>4. QED
    BY <1>0, <1>1, <2>1, <2>2, <2>3 DEF Get, SendInv
<1>2. CASE RateAllowed(w)
  <2>1. /\ wpc[w] \in Holding /\ wenv[w] \in Envelopes
        /\ fate[wenv[w]] = "queued" /\ wenv[w] \notin Queued
        /\ \A v \in WorkerIds : wpc[v] \in Holding /\ v # w => wenv[v] # wenv[w]
    BY <1>0, <1>2 DEF RateAllowed, PlaceInv, WorkersHold, Holding, Delivering, Using
  <2>2. /\ wpc[w] = "rate" /\ wpc'[w] = "send" /\ sends'[wenv[w]] = sends[wenv[w]] + 1
        /\ \A v \in WorkerIds : v # w => wpc'[v] = wpc[v]
        /\ \A e \in Envelopes : e # wenv[w] => sends'[e] = sends[e]
    BY <1>0, <1>2, <2>1 DEF RateAllowed, WGoto, TypeOK
  <2>3. UNCHANGED <<queue, fate, wenv, retries>> /\ Queued' = Queued
    BY <1>2 DEF RateAllowed, Queued
  <2>4. \A e \in Envelopes : fate'[e] \in {"new", "offered"} \/ e \in Queued' => sends'[e] = 0
    BY <1>0, <2>1, <2>2, <2>3 DEF SendInv
  <2>5. ASSUME NEW v \in WorkerIds, v # w, wpc[v] \in Holding PROVE sends'[wenv[v]] = sends[wenv[v]]
    BY <1>0, <2>1, <2>2, <2>5 DEF PlaceInv, WorkersHold, Holding, Delivering, Using
  <2>6. sends[wenv[w]] = retries[w]
    BY <1>0, <2>2 DEF SendInv
  <2>7. QED
    BY <1>0, <2>2, <2>3, <2>4, <2>5, <2>6 DEF SendInv, Holding, Using
<1>3. CASE AcquireSlot(w) \/ SendTransient(w) \/ BackoffOver(w)
  <2>1. UNCHANGED <<queue, fate, wenv, sends>> /\ Queued' = Queued
    BY <1>3 DEF AcquireSlot, SendTransient, BackoffOver, Queued
  <2>2. \A v \in WorkerIds : v # w => wpc'[v] = wpc[v] /\ retries'[v] = retries[v]
    BY <1>0, <1>3 DEF AcquireSlot, SendTransient, BackoffOver, WGoto, TypeOK
  <2>3. \/ wpc[w] = "send" /\ wpc'[w] = "backoff" /\ retries'[w] = retries[w] + 1
        \/ wpc[w] = "slot" /\ wpc'[w] = "rate" /\ retries'[w] = retries[w]
        \/ wpc[w] = "backoff" /\ wpc'[w] = "slot" /\ retries'[w] = retries[w]
    BY <1>0, <1>3 DEF AcquireSlot, SendTransient, BackoffOver, WGoto, TypeOK
  <2>4. QED
    BY <1>0, <2>1, <2>2, <2>3 DEF SendInv
<1>4. CASE \/ TestStop(w) \/ TestEmpty(w) \/ GetTimeout(w)
           \/ SlotDeadline(w) \/ RateDenied(w) \/ SendOk(w) \/ SendFails(w) \/ TaskDone(w)
  <2>1. UNCHANGED <<queue, sends>> /\ Queued' = Queued
    BY <1>4 DEF TestStop, TestEmpty, GetTimeout, SlotDeadline, SendOk, SendFails, TaskDone,
                Queued, RateDenied
  <2>2. \A e \in Envelopes : fate'[e] = fate[e] \/ fate'[e] \in Final
    BY <1>0, <1>4 DEF TestStop, TestEmpty, GetTimeout, SlotDeadline, SendOk, SendFails, TaskDone,
                      Settle, Final, TypeOK, RateDenied
  <2>3. /\ wpc'[w] \notin Holding
        /\ \A v \in WorkerIds :
             v # w => wpc'[v] = wpc[v] /\ wenv'[v] = wenv[v] /\ retries'[v] = retries[v]
    BY <1>0, <1>4 DEF TestStop, TestEmpty, GetTimeout, SlotDeadline, SendOk, SendFails, TaskDone,
                      WGoto, Holding, TypeOK, Using, RateDenied
  <2>4. QED
    BY <1>0, <2>1, <2>2, <2>3, SendFrame DEF Final
<1>5. QED
  BY <1>1, <1>2, <1>3, <1>4 DEF Worker, Deliver

\* Stopping sends nothing.
LEMMA NextSends == IInv /\ [Next]_vars => SendInv'
<1> SUFFICES ASSUME IInv, [Next]_vars PROVE SendInv'
  OBVIOUS
<1>1. CASE Stopper \/ UNCHANGED vars
  <2>1. UNCHANGED <<queue, fate, wpc, wenv, retries, sends>> /\ Queued' = Queued
    BY <1>1 DEF Stopper, StopBegin, StopDrained, StopClear, vars, wvars, Queued
  <2>2. QED
    BY <2>1, SendFrame DEF IInv
<1>2. QED
  BY <1>1, CallerSends, WorkerSends DEF Next

\* The last retry is the last send.
LEMMA NextBounded == IInv /\ [Next]_vars => SendsBounded'
<1> SUFFICES ASSUME IInv, [Next]_vars PROVE SendsBounded'
  OBVIOUS
<1>1. ASSUME NEW w \in WorkerIds, RateAllowed(w) PROVE SendsBounded'
  <2>1. sends[wenv[w]] = retries[w] /\ retries[w] \in 0 .. MaxRetries
    BY <1>1 DEF RateAllowed, IInv, SendInv, TypeOK
  <2>2. sends[wenv[w]] + 1 <= MaxRetries + 1
    BY <2>1, SizesAssumption
  <2>3. \A e \in Envelopes : sends'[e] = IF e = wenv[w] THEN sends[e] + 1 ELSE sends[e]
    BY <1>1 DEF RateAllowed, IInv, TypeOK
  <2>4. QED
    BY <2>2, <2>3 DEF IInv, SendsBounded
<1>2. CASE UNCHANGED sends
  BY <1>2 DEF IInv, SendsBounded
<1>3. QED
  BY <1>1, <1>2
  DEF Next, Caller, Worker, Deliver, Stopper, vars, Enqueue, Start, Put, Refuse, FullDropOldest,
      Evict, EvictDone, TestStop, TestEmpty, Get, GetTimeout, SlotDeadline, SendOk, SendFails,
      SendTransient, BackoffOver, TaskDone, StopBegin, StopDrained, StopClear, AcquireSlot,
      RateDenied

-----------------------------------------------------------------------------
\* The inductive invariant holds of every behaviour.
THEOREM Invariant == Spec => []IInv
<1>1. IInv /\ [Next]_vars => IInv'
  BY NextType, NextPlace, NextUnfinished, NextSlots, NextSends, NextBounded DEF IInv
<1>2. QED
  BY <1>1, InitIInv, PTL DEF Spec

\* Type correctness of the queue, its workers and its callers.
THEOREM TypeCorrect == Spec => []TypeOK
BY Invariant, PTL DEF IInv

\* For any number of callers, workers and stops: the count by which stop() drains
\* is that of the envelopes queued, being delivered or just evicted.
THEOREM DrainCountExact == Spec => []UnfinishedExact
BY Invariant, PTL DEF IInv

\* For any concurrency limit and any retries: a destination's semaphore has as
\* many free slots as its limit leaves after the deliveries that hold one.
THEOREM NoSlotLost == Spec => []SlotsExact
BY Invariant, PTL DEF IInv

\* Whatever pools overlap: send_func is called for an envelope once, and once
\* more for each of its retries.
THEOREM AttemptsBounded == Spec => []SendsBounded
BY Invariant, PTL DEF IInv

\* An envelope is in one place if it is accepted and not settled, else in none.
LEMMA PlacesCount == ASSUME TypeOK, PlaceInv PROVE HeldOnce
<1> SUFFICES ASSUME NEW e \in Envelopes
             PROVE  Cardinality({i \in DOMAIN queue : queue[i] = e})
                      + Cardinality({w \in WorkerIds : wenv[w] = e /\ wpc[w] \in Holding})
                    = IF fate[e] = "queued" THEN 1 ELSE 0
  BY DEF HeldOnce, Holding, Using
<1> DEFINE places == {i \in DOMAIN queue : queue[i] = e}
           holders == {w \in WorkerIds : wenv[w] = e /\ wpc[w] \in Holding}
<1>1. CASE e \in Queued
  <2>1. PICK i \in DOMAIN queue : queue[i] = e
    BY <1>1 DEF Queued
  <2>2. places = {i}
    BY <2>1 DEF PlaceInv, NoRepeats
  <2>3. holders = {} /\ fate[e] = "queued"
    BY <1>1 DEF PlaceInv, WorkersHold
  <2>4. Cardinality(places) = 1 /\ Cardinality(holders) = 0
    BY <2>2, <2>3, FS_Singleton, FS_EmptySet
  <2>5. QED
    BY <2>3, <2>4
<1>2. CASE e \notin Queued /\ holders # {}
  <2>1. PICK w \in WorkerIds : wenv[w] = e /\ wpc[w] \in Holding
    BY <1>2
  <2>2. holders = {w} /\ fate[e] = "queued"
    BY <2>1 DEF PlaceInv, WorkersHold
  <2>3. places = {}
    BY <1>2 DEF Queued
  <2>4. Cardinality(places) = 0 /\ Cardinality(holders) = 1
    BY <2>2, <2>3, FS_Singleton, FS_EmptySet
  <2>5. QED
    BY <2>2, <2>4
<1>3. CASE e \notin Queued /\ holders = {}
  <2>1. fate[e] # "queued"
    BY <1>3 DEF PlaceInv, NoneLost
  <2>2. places = {}
    BY <1>3 DEF Queued
  <2>3. Cardinality(places) = 0 /\ Cardinality(holders) = 0
    BY <1>3, <2>2, FS_EmptySet
  <2>4. QED
    BY <2>1, <2>3
<1>4. QED
  BY <1>1, <1>2, <1>3

\* For any pools and envelopes: no two workers, nor a worker and the queue, ever
\* have the same envelope, and none that was accepted is lost.
THEOREM OneHolder == Spec => []HeldOnce
BY Invariant, PlacesCount, PTL DEF IInv

-----------------------------------------------------------------------------
\* What the abstract queue sees of the workers and of the fates.
Working == {wenv[w] : w \in {v \in WorkerIds : wpc[v] \in Holding}}
Outcome == [e \in Envelopes |-> IF fate[e] \in Final THEN fate[e] ELSE "open"]

\* The variables of the abstract queue stand still when these do.
LEMMA Stutter ==
  ASSUME UNCHANGED <<maxSize, policy, queue>>, Working' = Working, Outcome' = Outcome
  PROVE  UNCHANGED Abstract!dvars
BY DEF Working, Outcome, Abstract!dvars, Abstract!settings

\* The empty queue is the empty abstract queue.
LEMMA InitAbstract == Init => Abstract!Init
<1> SUFFICES ASSUME Init PROVE Abstract!Init
  OBVIOUS
<1>1. maxSize \in Nat \ {0} /\ (policy = "drop_oldest") \in BOOLEAN
  BY SetsAssumption DEF Init
<1>2. Working = {}
  BY DEF Init, Working, Holding, Using
<1>3. Outcome = [e \in Envelopes |-> "open"]
  BY DEF Init, Outcome, Final
<1>4. QED
  BY <1>1, <1>2, <1>3 DEF Init, Abstract!Init, Working, Outcome

\* A caller's steps are the acceptance or the refusal of its envelope, or the
\* drop of the oldest, or nothing to the abstract queue.
LEMMA CallerAbstract ==
  ASSUME IInv, NEW c \in Callers, Caller(c) \/ \E e \in Envelopes : Enqueue(c, e)
  PROVE  Abstract!Next \/ UNCHANGED Abstract!dvars
<1>0. TypeOK /\ PlaceInv
  BY DEF IInv
<1>1. Working' = Working
  <2>1. UNCHANGED wenv
    BY DEF Caller, Enqueue, Start, Put, Refuse, FullDropOldest, Evict, EvictDone, wvars
  <2>2. \A w \in WorkerIds : wpc'[w] \in Holding <=> wpc[w] \in Holding
    <3>1. CASE Start(c)
      BY <1>0, <3>1, StartWorkers DEF Dead, Holding, Using
    <3>2. CASE wpc' = wpc
      BY <3>2
    <3>3. QED
      BY <3>1, <3>2 DEF Caller, Enqueue, Put, Refuse, FullDropOldest, Evict, EvictDone, wvars
  <2>3. QED
    BY <2>1, <2>2 DEF Working, Holding, Using
<1>2. ASSUME NEW e \in Envelopes, Enqueue(c, e) PROVE UNCHANGED Abstract!dvars
  <2>1. Outcome' = Outcome
    BY <1>0, <1>2 DEF Enqueue, Settle, Outcome, Final, TypeOK
  <2>2. QED
    BY <1>1, <1>2, <2>1, Stutter DEF Enqueue, settings
<1>3. CASE Start(c) \/ FullDropOldest(c) \/ EvictDone(c) \/ (Evict(c) /\ queue = <<>>)
  <2>1. UNCHANGED <<maxSize, policy, queue, fate>>
    BY <1>3 DEF Start, FullDropOldest, EvictDone, Evict, settings
  <2>2. Outcome' = Outcome
    BY <2>1 DEF Outcome
  <2>3. QED
    BY <1>1, <2>1, <2>2, Stutter
<1>4. ASSUME cpc[c] # "idle"
      PROVE  /\ cenv[c] \in Envelopes /\ Outcome[cenv[c]] = "open"
             /\ cenv[c] \notin Queued /\ cenv[c] \notin Working
  <2>1. cenv[c] \in Envelopes /\ fate[cenv[c]] = "offered"
    BY <1>0, <1>4 DEF PlaceInv, CallersHold
  <2>2. QED
    BY <1>0, <2>1 DEF PlaceInv, WorkersHold, Working, Holding, Outcome, Final, Using
<1>5. CASE Put(c)
  <2>1. Outcome' = Outcome
    BY <1>0, <1>4, <1>5 DEF Put, Settle, Outcome, Final, TypeOK
  <2>2. cpc[c] # "idle" /\ ~Full /\ queue' = Append(queue, cenv[c])
        /\ UNCHANGED <<maxSize, policy>>
    BY <1>5 DEF Put, settings
  <2>3. Len(queue) < maxSize
    BY <1>0, <2>2, QueuedType, SetsAssumption DEF Full, TypeOK
  <2>4. Abstract!Offered(cenv[c])
    BY <1>4, <2>2 DEF Abstract!Offered, Abstract!Waiting, Queued, Working, Outcome
  <2>5. Abstract!Accept(cenv[c])
    BY <1>1, <2>1, <2>2, <2>3, <2>4 DEF Abstract!Accept, Abstract!settings, Working, Outcome
  <2>6. QED
    BY <1>4, <2>2, <2>5 DEF Abstract!Next
<1>6. CASE Refuse(c)
  <2>1. cpc[c] # "idle" /\ Full /\ UNCHANGED <<maxSize, policy, queue>>
        /\ fate' = [fate EXCEPT ![cenv[c]] = "refused"]
    BY <1>6 DEF Refuse, Settle, settings
  <2>2. Len(queue) = maxSize
    BY <1>0, <2>1, QueuedType, SetsAssumption DEF Full, TypeOK
  <2>3. PICK e \in Envelopes : e = cenv[c]
    BY <1>4, <2>1
  <2>4. Abstract!Offered(e)
    BY <1>4, <2>1, <2>3 DEF Abstract!Offered, Abstract!Waiting, Queued, Working, Outcome
  <2>5. Outcome' = [Outcome EXCEPT ![e] = "refused"]
    BY <1>0, <2>1, <2>3 DEF Outcome, Final, TypeOK
  <2>6. Abstract!Reject(e)
    BY <1>1, <2>1, <2>2, <2>4, <2>5
    DEF Abstract!Reject, Abstract!Decide, Abstract!settings, Working, Outcome
  <2>7. QED
    BY <2>6 DEF Abstract!Next
<1>7. CASE Evict(c) /\ queue # <<>>
  <2>1. queue' = Tail(queue) /\ fate' = [fate EXCEPT ![Head(queue)] = "evicted"]
        /\ UNCHANGED <<maxSize, policy>>
    BY <1>7 DEF Evict, Settle, settings
  <2>2. policy = "drop_oldest"
    BY <1>0, <1>7 DEF Evict, PlaceInv, CallersHold
  <2>3. Head(queue) \in Envelopes
    BY <1>0, <1>7, <2>1, TailQueue DEF PlaceInv, TypeOK
  <2>4. Outcome' = [Outcome EXCEPT ![Head(queue)] = "evicted"]
    BY <1>0, <2>1, <2>3 DEF Outcome, Final, TypeOK
  <2>5. Abstract!DropOldest
    BY <1>1, <1>7, <2>1, <2>2, <2>4
    DEF Abstract!DropOldest, Abstract!Decide, Abstract!settings, Working, Outcome
  <2>6. QED
    BY <2>5 DEF Abstract!Next
<1>8. QED
  BY <1>2, <1>3, <1>5, <1>6, <1>7 DEF Caller

\* A worker's steps are the taking of the oldest envelope or the outcome of one
\* that was taken, or nothing to the abstract queue.
LEMMA WorkerAbstract ==
  ASSUME IInv, NEW w \in WorkerIds, Worker(w)
  PROVE  Abstract!Next \/ UNCHANGED Abstract!dvars
<1>0. TypeOK /\ PlaceInv
  BY DEF IInv
<1>1. CASE \/ TestStop(w) \/ TestEmpty(w) \/ GetTimeout(w)
           \/ AcquireSlot(w) \/ RateAllowed(w) \/ SendTransient(w) \/ BackoffOver(w) \/ TaskDone(w)
  <2>1. UNCHANGED <<maxSize, policy, queue, fate>>
    BY <1>1 DEF TestStop, TestEmpty, GetTimeout, AcquireSlot, SendTransient, BackoffOver,
                TaskDone, settings, RateAllowed
  <2>2. /\ wpc'[w] \in Holding <=> wpc[w] \in Holding
        /\ wpc[w] \in Holding => wenv'[w] = wenv[w]
        /\ \A v \in WorkerIds : v # w => wpc'[v] = wpc[v] /\ wenv'[v] = wenv[v]
    BY <1>0, <1>1 DEF TestStop, TestEmpty, GetTimeout, AcquireSlot, SendTransient, BackoffOver,
                      TaskDone, WGoto, TypeOK, Holding, Using, RateAllowed
  <2>3. Working' = Working
    BY <2>2 DEF Working, Holding, Using
  <2>4. Outcome' = Outcome
    BY <2>1 DEF Outcome
  <2>5. QED
    BY <2>1, <2>3, <2>4, Stutter
<1>2. CASE Get(w)
  <2>1. /\ queue # <<>> /\ queue' = Tail(queue)
        /\ UNCHANGED <<maxSize, policy, fate>>
    BY <1>2 DEF Get, settings
  <2>2. /\ wpc[w] = "get" /\ wpc'[w] = "slot" /\ wenv'[w] = Head(queue)
        /\ \A v \in WorkerIds : v # w => wpc'[v] = wpc[v] /\ wenv'[v] = wenv[v]
    BY <1>0, <1>2 DEF Get, WGoto, TypeOK
  <2>3. Working' = Working \cup {Head(queue)}
    BY <2>2 DEF Working, Holding, Using
  <2>4. Outcome' = Outcome
    BY <2>1 DEF Outcome
  <2>5. Abstract!Take
    BY <2>1, <2>3, <2>4 DEF Abstract!Take, Abstract!settings, Working, Outcome
  <2>6. QED
    BY <2>5 DEF Abstract!Next
<1>3. CASE SlotDeadline(w) \/ RateDenied(w) \/ SendOk(w) \/ SendFails(w)
  <2>1. /\ wpc[w] \in Holding /\ wenv[w] \in Envelopes
        /\ \A v \in WorkerIds : wpc[v] \in Holding /\ wenv[v] = wenv[w] => v = w
    BY <1>0, <1>3
    DEF SlotDeadline, SendOk, SendFails, PlaceInv, WorkersHold, Holding, Delivering, Using,
        RateDenied
  <2>2. PICK o \in {"delivered", "failed"} : fate' = [fate EXCEPT ![wenv[w]] = o]
    BY <1>3 DEF SlotDeadline, SendOk, SendFails, Settle, RateDenied
  <2>3. /\ UNCHANGED <<maxSize, policy, queue, wenv>> /\ wpc'[w] = "done"
        /\ \A v \in WorkerIds : v # w => wpc'[v] = wpc[v]
    BY <1>0, <1>3 DEF SlotDeadline, SendOk, SendFails, WGoto, settings, TypeOK, RateDenied
  <2>4. wenv[w] \in Working /\ Working' = Working \ {wenv[w]}
    BY <2>1, <2>3 DEF Working, Holding, Using
  <2>5. PICK e \in Envelopes : e = wenv[w]
    BY <2>1
  <2>6. Outcome' = [Outcome EXCEPT ![e] = o]
    BY <1>0, <2>2, <2>5 DEF Outcome, Final, TypeOK
  <2>7. Abstract!Finish(e, o)
    BY <2>3, <2>4, <2>5, <2>6
    DEF Abstract!Finish, Abstract!Decide, Abstract!settings, Working, Outcome
  <2>8. QED
    BY <2>7 DEF Abstract!Next
<1>4. QED
  BY <1>1, <1>2, <1>3 DEF Worker, Deliver

\* For any threads, pools, limits and policies: the delivery queue implements its
\* abstract specification.
THEOREM Refinement == Spec => ImplementsAbstract
<1>1. IInv /\ [Next]_vars => [Abstract!Next]_(Abstract!dvars)
  <2> SUFFICES ASSUME IInv, [Next]_vars PROVE [Abstract!Next]_(Abstract!dvars)
    OBVIOUS
  <2>1. CASE Stopper \/ UNCHANGED vars
    <3>1. UNCHANGED <<maxSize, policy, queue, wpc, wenv, fate>>
      BY <2>1 DEF Stopper, StopBegin, StopDrained, StopClear, vars, settings, wvars
    <3>2. Working' = Working /\ Outcome' = Outcome
      BY <3>1 DEF Working, Outcome
    <3>3. QED
      BY <3>1, <3>2, Stutter
  <2>2. QED
    BY <2>1, CallerAbstract, WorkerAbstract DEF Next
<1>2. QED
  BY <1>1, InitAbstract, Invariant, PTL DEF Spec, ImplementsAbstract, Abstract!Spec
=============================================================================

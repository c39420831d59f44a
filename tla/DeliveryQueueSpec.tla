------------------------- MODULE DeliveryQueueSpec -------------------------
(***************************************************************************)
(* What the webhook delivery queue promises to its callers, without        *)
(* threads, locks, slots or retries: a bounded first-in first-out queue of *)
(* envelopes, each of which is offered once and gets one final outcome.    *)
(* WebhookDelivery implements it.                                          *)
(***************************************************************************)
EXTENDS Naturals, Sequences

CONSTANT Envelopes

VARIABLES
  capacity,
  evicts,    \* whether the backpressure policy is drop_oldest
  waiting,   \* envelopes accepted, oldest first
  working,   \* envelopes a worker has taken
  outcome    \* what became of each envelope, "open" until then

settings == <<capacity, evicts>>
dvars == <<settings, waiting, working, outcome>>

Waiting(e) == \E i \in DOMAIN waiting : waiting[i] = e
Offered(e) == outcome[e] = "open" /\ ~Waiting(e) /\ e \notin working
Decide(e, o) == outcome' = [outcome EXCEPT ![e] = o]

Init ==
  /\ capacity \in Nat \ {0}
  /\ evicts \in BOOLEAN
  /\ waiting = <<>>
  /\ working = {}
  /\ outcome = [e \in Envelopes |-> "open"]

Accept(e) ==
  /\ Offered(e)
  /\ Len(waiting) < capacity
  /\ waiting' = Append(waiting, e)
  /\ UNCHANGED <<settings, working, outcome>>

\* Only a full queue refuses.
Reject(e) ==
  /\ Offered(e)
  /\ Len(waiting) = capacity
  /\ Decide(e, "refused")
  /\ UNCHANGED <<settings, waiting, working>>

\* Only the oldest is dropped, and only if the policy says so.
DropOldest ==
  /\ evicts
  /\ waiting # <<>>
  /\ Decide(Head(waiting), "evicted")
  /\ waiting' = Tail(waiting)
  /\ UNCHANGED <<settings, working>>

Take ==
  /\ waiting # <<>>
  /\ working' = working \cup {Head(waiting)}
  /\ waiting' = Tail(waiting)
  /\ UNCHANGED <<settings, outcome>>

Finish(e, o) ==
  /\ e \in working
  /\ working' = working \ {e}
  /\ Decide(e, o)
  /\ UNCHANGED <<settings, waiting>>

Next ==
  \/ \E e \in Envelopes : Accept(e) \/ Reject(e)
  \/ DropOldest
  \/ Take
  \/ \E e \in Envelopes, o \in {"delivered", "failed"} : Finish(e, o)

Spec == Init /\ [][Next]_dvars

=============================================================================

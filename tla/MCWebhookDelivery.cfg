\* Two callers, a pool of one worker that may outlive a stop, one slot.
CONSTANTS
  Envelopes = {1, 2, 3}
  d1 = d1
  Destinations = {d1}
  DestOf <- MCDestOf
  Callers = {c1, c2}
  WorkerIds = {w1, w2}
  WorkerCount = 1
  QueueSizes = {1, 2}
  Policies = {"drop_newest", "drop_oldest"}
  SlotLimit = 1
  MaxRetries = 1
  HasDeadline = TRUE
  DrainForever = FALSE
  NoEnvelope = NoEnvelope
  MaxStops = 1

SPECIFICATION FairSpec

INVARIANTS
  TypeOK
  UnfinishedExact
  HeldOnce
  SlotsExact
  SendsBounded

PROPERTIES
  ImplementsAbstract
  AcceptedSettles

\* the callers stop when every envelope is used
CHECK_DEADLOCK FALSE

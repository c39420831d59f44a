\* stop(None), with a caller that enqueues while the workers leave.
CONSTANTS
  Envelopes = {1, 2}
  d1 = d1
  Destinations = {d1}
  DestOf <- MCDestOf
  Callers = {c1}
  WorkerIds = {w1, w2}
  WorkerCount = 1
  QueueSizes = {1}
  Policies = {"drop_newest"}
  SlotLimit = 1
  MaxRetries = 1
  HasDeadline = TRUE
  DrainForever = TRUE
  NoEnvelope = NoEnvelope
  MaxStops = 1

SPECIFICATION FairSpec

PROPERTY StopFinishesAll

CHECK_DEADLOCK FALSE

\* Two HABridge threads and a conversation thread.
CONSTANTS
  c1 = c1  c2 = c2  g1 = g1
  Callers <- MCCallers
  Gated <- MCGated
  FailureThreshold = 2
  RecoveryTimeout = 3
  CallTimeout = 2
  MaxTime = 9
  MaxUnheard = 2

SYMMETRY Symmetry
SPECIFICATION Spec

INVARIANTS
  ClosedBelowThreshold
  OpenEnds
  FailuresBounded

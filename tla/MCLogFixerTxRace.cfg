\* Two threads of the pool, a crash that may tear the last line, a failing append.
CONSTANTS
  Threads = {t1, t2}
  Tx = {1, 2}
  a = a  b = b  c = c  m = m  md = md  x = x  y = y
  Path <- MCPath
  Allowed <- MCAllowed
  Content = {x, y}
  Blank = Blank
  None = None
  Requests <- MCRaceRequests
  InitFs <- MCRaceFs
  TornWrites = TRUE
  MaxCrashes = 1
  MaxIOErrors = 0
  MaxCalls = 1

SYMMETRY Symmetry
SPECIFICATION Spec

INVARIANTS
  IntentBeforeOutcome
  AppliedPrefix
  InFlightTouchesOneOp

\* the clients stop when the bounds are reached
CHECK_DEADLOCK FALSE

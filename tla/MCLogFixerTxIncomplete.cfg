\* A crash between two operations of a transaction, then recovery.
CONSTANTS
  Threads = {t1}
  Tx = {1, 2}
  a = a  b = b  c = c  m = m  md = md  x = x  y = y
  Path <- MCPath
  Allowed <- MCAllowed
  Content = {x, y}
  Blank = Blank
  None = None
  Requests <- MCRequests
  InitFs <- MCInitFs
  TornWrites = FALSE
  MaxCrashes = 1
  MaxIOErrors = 0
  MaxCalls = 1

SPECIFICATION Spec

INVARIANT IncompleteIsInFlight

CHECK_DEADLOCK FALSE

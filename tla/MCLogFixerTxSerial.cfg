\* One request at a time, with crashes and failing appends.
CONSTANTS
  Threads = {t1}
  Tx = {1, 2}
  a = a  b = b  c = c  m = m  md = md  x = x  y = y
  Path <- MCPath
  Allowed <- MCAllowed
  Content = {x, y}
  Blank = Blank
  None = None
  Requests <- MCRequests
  InitFs <- MCInitFs
  TornWrites = FALSE
  MaxCrashes = 2
  MaxIOErrors = 1
  MaxCalls = 2

SPECIFICATION Spec

INVARIANTS
  TypeOK
  OkMeansApplied
  RollbackOnce
  UndoneFromEnd
  RollbackRestores

PROPERTIES
  RecoverClears
  OnlyEnableReplaces

\* the clients stop when the bounds are reached
CHECK_DEADLOCK FALSE

\* Two requests that rename two files to one path.
CONSTANTS
  Threads = {t1, t2}
  Tx = {1, 2}
  a = a  b = b  c = c  m = m  md = md  x = x  y = y
  Path <- MCPath
  Allowed <- MCAllowed
  Content = {x, y}
  Blank = Blank
  None = None
  Requests <- MCRaceRequests
  InitFs <- MCRaceFs
  TornWrites = FALSE
  MaxCrashes = 0
  MaxIOErrors = 0
  MaxCalls = 0

SPECIFICATION Spec

PROPERTY RenameReplacesNoFile

CHECK_DEADLOCK FALSE

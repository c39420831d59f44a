CONSTANTS
  Editors = {c1}
  Callers = {c2}
  Timers = {s1}
  Runs = {r1, r2}
  MaxVersions = 2
  OneShot = {1}
  Off = {2}
  None = None
  Torn = Torn
  Candidates = {k1, k2}
  States = {"pending", "accepted"}
  NoFile = NoFile
  Tokens = {d1, d2}
SPECIFICATION StoresSpec
SYMMETRY MCSymmetry
INVARIANTS
  StoresTypeOK
  ActiveHasActor
  RunReachable
  FileIsMemory
  AcknowledgedOnDisk
PROPERTIES
  AnswersOnlyAdvance
CHECK_DEADLOCK FALSE

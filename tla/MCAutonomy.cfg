CONSTANTS
  t1 = t1
  t2 = t2
  NoRow = NoRow
  NoMood = NoMood
  Threads <- MCThreads
  StoredRows <- MCStoredRows
  Zones <- MCZones
  Modules <- MCModules
  Moods <- MCMoods
  Musical <- MCMusical
  Targets <- MCTargets
  LightTargets <- MCLightTargets
  MaxEvaluations = 3
  MaxChanges = 2
SPECIFICATION Spec
SYMMETRY MCSymmetry
INVARIANTS
  TypeOK
  ActedOnlyIfWasActive
  StatsExact
  MoodAnnounced
CHECK_DEADLOCK FALSE

SPECIFICATION JobSpec
CONSTANTS
  NTasks = 2
  Target <- MCTarget
  Therm <- MCTherm
  MaxLaunches = 2
  RuntimeLimited = TRUE
  MayCrash = TRUE
  MaxMerges = 0
  KillsJoining = FALSE
INVARIANT MergedMeansCurrent

SPECIFICATION Spec
CONSTANTS
  s1 = s1
  s2 = s2
  s3 = s3
  Slaves = {s1, s2, s3}
  NTasks = 1
  Target <- MCTarget
  Therm <- MCTherm
  MaxLaunches = 1
  RuntimeLimited = TRUE
  MayCrash = FALSE
SYMMETRY SlaveSymmetry
INVARIANTS
  NoSharedRun
  ScheduledExact
  MergeExclusive
PROPERTY ImplementsLeases

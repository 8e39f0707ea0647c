SPECIFICATION FairSpec
CONSTANTS
  s1 = s1
  s2 = s2
  Slaves = {s1, s2}
  NTasks = 2
  Target <- MCTarget
  Therm <- MCTherm
  MaxLaunches = 2
  RuntimeLimited = TRUE
  MayCrash = TRUE
INVARIANTS
  TypeOK
  CountedOnDisk
  FilesAgree
  QuietBarrier
  ExitCodeExact
  FreshResults
PROPERTIES
  NoRollback
  LaunchEnds
  Completes

SPECIFICATION FairJobSpec
CONSTANTS
  NTasks = 2
  Target <- MCTarget
  Therm <- MCTherm
  MaxLaunches = 3
  RuntimeLimited = TRUE
  MayCrash = TRUE
  MaxMerges = 2
  KillsJoining = TRUE
INVARIANTS
  CountTracksSamples
  EndsMerged
  MergedIfCalm
  AsksForRestart
PROPERTIES
  MergeCommandWorks
  LaunchEnds

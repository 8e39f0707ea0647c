SPECIFICATION FairSpec
CONSTANTS
  ChainLen = 3
  NChains = 1
  NSets = 1
  Target <- MCTarget
  Therm <- MCTherm
  Spgu <- MCSpgu
  MaxLaunches = 2
  RuntimeLimited = TRUE
  MayCrash = TRUE
  CrashWindows = {"master"}
INVARIANTS PositionsAgree MessagesFit CollectivesMatch WeightsForPairs
  FilesAgree ConsistentDumps
PROPERTIES NoRollback LaunchEnds Completes

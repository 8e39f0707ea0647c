SPECIFICATION Spec
CONSTANTS
  ChainLen = 2
  NChains = 2
  NSets = 2
  Target <- MCShort
  Therm <- MCNoTherm
  Spgu <- MCSpgu
  MaxLaunches = 1
  RuntimeLimited = TRUE
  MayCrash = FALSE
  CrashWindows = {}
INVARIANTS NoSharedFiles LateRenamesOnly
PROPERTY ImplementsLeases

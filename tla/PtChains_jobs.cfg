SPECIFICATION Spec
CONSTANTS
  NTasks = 4
  ChainIds <- MCChainIds
  Positions <- MCPositions
  Settings <- MCSettings
  MaxRanks = 4
INVARIANT DecidesRight

SPECIFICATION Spec
CONSTANTS
  NFiles = 2
  Obs = {"vector", "scalar"}
  VectorLength <- MCVectorLength
  Contents <- MCContents
  Skips = {0, 1}
  RebinLengths = {0, 2, 3}
  MinBinCount = 2
  MaxReplaced = 2
INVARIANTS
  SamplesInBlocks
  BinsFilled
  BinsCoverSamples
  JackknifeParts

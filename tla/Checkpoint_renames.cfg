SPECIFICATION Spec
CONSTANTS
  BinLength = 2
  VectorLength = 2
  Therm = 1
  MaxSweep = 7
  MaxLaunches = 3
  None = None
  Corrupt = Corrupt
  InitialCheckpoint = TRUE
  CrashPoints = {"run", "copy_meas", "append_meas", "write_dump", "rename_dump", "rename_meas"}
INVARIANT FilesConsistent
CHECK_DEADLOCK FALSE

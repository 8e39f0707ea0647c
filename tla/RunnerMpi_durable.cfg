SPECIFICATION Spec
CONSTANTS
  s1 = s1
  s2 = s2
  Slaves = {s1, s2}
  NTasks = 2
  Target <- MCTarget
  Therm <- MCTherm
  MaxLaunches = 1
  RuntimeLimited = FALSE
  MayCrash = FALSE
SYMMETRY SlaveSymmetry
INVARIANT CompletionIsDurable

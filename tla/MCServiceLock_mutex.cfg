SPECIFICATION Spec
CONSTANTS
  Jobs = {j1, j2, j3}
  Services = {"zookeeper"}
  Absent = Absent
  AutoUnlock = TRUE
  Cleaner = "never"
  FailAt = {}
  Staggered = FALSE
  CrashAt = {}
INVARIANT MutualExclusion
SYMMETRY Permutation

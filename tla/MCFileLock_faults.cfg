SPECIFICATION Spec
CONSTANTS
  Jobs = {j1, j2, j3, j4}
  Absent = Absent
  Empty = Empty
  None = None
  AutoUnlock = TRUE
  KillLockPid = {TRUE, FALSE}
  Expire = 0
  Cleaner = TRUE
  WriteMayFail = TRUE
  PidReuse = FALSE
  OtherUsers = TRUE
  Staggered = FALSE
  CrashAt = {"exists", "read", "probe", "kill", "remove", "open", "write", "inside", "finally", "leaving"}
INVARIANT TypeOK
PROPERTY AbandonedOnlyByKill
PROPERTY RefusedOnlyByEntrant
PROPERTY OnlyEntrantsAreKilled
SYMMETRY Permutation

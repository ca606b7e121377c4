SPECIFICATION LiveSpec
CONSTANTS
  Jobs = {j1, j2, j3}
  Absent = Absent
  Empty = Empty
  None = None
  AutoUnlock = TRUE
  KillLockPid = {TRUE, FALSE}
  Expire = 1
  Cleaner = FALSE
  WriteMayFail = FALSE
  PidReuse = FALSE
  OtherUsers = FALSE
  Staggered = TRUE
  CrashAt = {"open", "inside", "finally", "leaving"}
PROPERTY ImplementsMutex
PROPERTY AbandonedIsRecovered

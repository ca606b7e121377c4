SPECIFICATION Spec
CONSTANTS
  Jobs = {j1, j2, j3, j4}
  Services = {"zookeeper", "redis"}
  Absent = Absent
  AutoUnlock = TRUE
  Cleaner = "idle"
  FailAt = {"connect", "exists", "create", "finally", "cleanup"}
  Staggered = TRUE
  CrashAt = {"connect", "exists", "create", "finally", "cleanup", "inside"}
INVARIANT TypeOK
PROPERTY ImplementsMutex
PROPERTY AbandonedOnlyByFault

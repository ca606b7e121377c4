SPECIFICATION LiveSpec
CONSTANTS
  h1 = h1
  h2 = h2
  q1 = q1
  q2 = q2
  q3 = q3
  Requests = {q1, q2, q3}
  Hosts = {h1}
  HostOf <- OneHost
  None = None
  Faults = TRUE
  MayClose = TRUE
  Closers = {"close_host"}
INVARIANT ExclusiveUse
INVARIANT ReadyIsIdle
PROPERTY SweepCloses
PROPERTY RequestsEnd
CHECK_DEADLOCK FALSE

SPECIFICATION Spec
CONSTANTS
  h1 = h1
  h2 = h2
  q1 = q1
  q2 = q2
  q3 = q3
  Requests = {q1, q2, q3}
  Hosts = {h1, h2}
  HostOf <- TwoHosts
  None = None
  Faults = TRUE
  MayClose = TRUE
  Closers = {"close_connection", "close_host", "close_all"}
INVARIANT TypeOK
INVARIANT OnePool
CHECK_DEADLOCK FALSE

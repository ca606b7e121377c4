CONSTANTS
  None = None
  new = new
  old = old
  older = older
  Hosts = {new, old, older}
  MaxCalls = 3
  Served <- MCServed
SPECIFICATION LiveSpec
INVARIANTS
  CallsAreAnswered
  FailsOnlyIfAllFail
PROPERTY
  CallsEnd
CHECK_DEADLOCK FALSE

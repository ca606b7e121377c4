CONSTANTS
  MaxCalls = 3
  h1 = h1
  h2 = h2
  Handlers = {h1, h2}
  Bytes <- MCBytes
  RecvSize = 2
  Losses = 2
  ShortSends = TRUE
  MaxRetry = 2
  Hold = 3
  MaxDownloads = 5
  Settings <- MCSettings
  Horizon = 6
  MaxItems = 5
  BackSteps = 1
  ForwardSteps = 1
  MaxBody = 5
  RBufSize = 2
SPECIFICATION LiveSpec
INVARIANTS
  TunnelIsFaithful
  PageIsAsAsked
  RateIsKept
  BodyIsGiven
PROPERTY
  RecoversAndEnds
CHECK_DEADLOCK FALSE

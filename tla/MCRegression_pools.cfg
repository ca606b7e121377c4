SPECIFICATION LiveSpec
CONSTANTS
  Runs = {a, b}
  Rows = 2
  Cols = 2
  Workers = 2
  RemoveTmp = TRUE
  UsePca = TRUE
INVARIANT TypeOK
INVARIANT ReturnLeavesNothing
INVARIANT ReturnHasResult
INVARIANT DirStays
INVARIANT RemovalsSucceed
PROPERTY NeededFilesStay
PROPERTY RunsEnd
CHECK_DEADLOCK FALSE

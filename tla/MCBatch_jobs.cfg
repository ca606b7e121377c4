CONSTANTS
  Unset = Unset
  Hashes = {"h1", "h2"}
  MaxLines = 3
  Kinds = {"lg", "noweight", "svd", "old"}
  SampleLists <- MCSamples
  Parts <- MCParts
  Base = 3
  MaxNegatives = 1
  MaxTrainings = 2
  None = None
  Trees <- MCTrees
  MaxLost = 1
  Tables <- MCTables
  Addresses <- MCAddresses
  Named <- MCNamed
  BigAreas <- MCBigAreas
  Databases <- MCDatabases
  Ips = {0, 1, 3, 4, 7, 8, 10, 13}
  MaxLookups = 2
SPECIFICATION Spec
INVARIANTS
  ReportIsExact
  WeightIsOwn
  DiffIsExact
  LookupFindsOwn
CHECK_DEADLOCK FALSE

CONSTANTS
  Requests <- MCRequests
  Limit = 2
  MaxChildren = 3
  Timeout = 2
  MaxRounds = 3
  MaxCalls = 2
  ToolTime = 1
  Hanging = {"b"}
SPECIFICATION Spec
INVARIANTS ResultsInPlace SpawnInTime
PROPERTY SpawnEnds

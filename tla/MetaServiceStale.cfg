SPECIFICATION Spec
CONSTANTS
  MaxRequests = 3
  Metrics <- MCMetrics
  Definable <- OnlyA
  Handles <- MCHandles
  Zero = 0
  Nothing = Nothing
  Threads = 2
  MaxTimeouts = 1
  MaxFailures = 1
CHECK_DEADLOCK FALSE
INVARIANT DefinitionIsTheQuerys

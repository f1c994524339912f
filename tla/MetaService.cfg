SPECIFICATION Spec
CONSTANTS
  MaxRequests = 3
  Metrics <- MCMetrics
  Definable <- MCMetrics
  Handles <- MCHandles
  Zero = 0
  Nothing = Nothing
  Threads = 2
  MaxTimeouts = 1
  MaxFailures = 1
CHECK_DEADLOCK FALSE
INVARIANT TypeOK
INVARIANT SharedFileNeedsRace
INVARIANT HandleIsStable
INVARIANT DefinitionIsOwn
PROPERTY RequestsEnd

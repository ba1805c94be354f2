SPECIFICATION Spec
CONSTANTS
  t1 = t1
  t2 = t2
  Threads <- MCThreads
  Searches <- MCSearches
  FAILURE_THRESHOLD = 3
  OPEN_DURATION = 2
INVARIANT OutageCostsFewQueries
PROPERTIES CircuitClosesAgain KeepsThePromise

CONSTANTS
  ToLower <- MCToLower
  Number <- MCNumber
  BadNumber = BadNumber
  NoValue = NoValue
  CommandLines <- MCCommandLines
  MaxFiles = 3
  MaxThreads = 3
  MainThread = main
  NoThread = nobody
SPECIFICATION Spec
INVARIANTS
  SuccessMeansGraph
CHECK_DEADLOCK FALSE

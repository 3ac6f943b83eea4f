CONSTANTS
  ToLower <- MCToLower
  Number <- MCNumber
  BadNumber = BadNumber
  NoValue = NoValue
  CommandLines <- MCCommandLines
  MaxFiles = 3
  MaxThreads = 3
  MainThread = main
  NoThread = nobody
SPECIFICATION FairSpec
INVARIANTS
  TypeOK
  SuccessIsComplete
  NoThreadOutlivesMain
  OutputAsAsked
  DetectorSafe
PROPERTIES
  Ends
CHECK_DEADLOCK FALSE

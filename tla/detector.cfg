CONSTANTS
  Workers = {w1, w2, w3}
  MainThread = main
  NoThread = nobody
  NumJobs = 4
SPECIFICATION FairSpec
INVARIANTS
  TypeOK
  EachJobOnce
  NoJobAbandoned
  NoLostWakeup
  NeverStuck
  JoinedAfterAllJobs
PROPERTIES
  ImplementsJobPool
CHECK_DEADLOCK FALSE

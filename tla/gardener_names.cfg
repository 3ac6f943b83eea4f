CONSTANTS
  Workers = {w1, w2}
  MainThread = main
  NoThread = nobody
  NumJobs = 2
  NoPath = ""
  Paths <- MCPaths
  Names <- MCNames
  input_files <- MCInputFiles2
  Idx = {0, 1}
  Reports <- MCReports
  Resolve <- resolve
  Follows <- FollowsSearchList
  Lookup <- MCLookup
  ParentDir <- MCParentDir
  include_paths <- MCIncludePaths
SPECIFICATION GardenerSpec
INVARIANTS
  NamesIndependentOfThreads
CHECK_DEADLOCK FALSE

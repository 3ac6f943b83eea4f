CONSTANTS
  Workers = {w1, w2}
  MainThread = main
  NoThread = nobody
  NumJobs = 2
  NoPath = ""
  Paths <- MCPaths
  Names <- MCNames
  input_files <- MCInputFiles
  Idx = {0, 1}
  Reports <- MCReports
  Resolve <- resolve
  Follows <- FollowsSearchList
  replace_extension <- MCReplaceExtension
  starts_with_dot <- MCStartsWithDot
  Lookup <- MCLookup
  ParentDir <- MCParentDir
  include_paths <- MCIncludePaths
SPECIFICATION FairGardenerSpec
INVARIANTS
  EdgesFollowSearchList
PROPERTIES
  GraphIsWritten
  ImplementsDetector
CHECK_DEADLOCK FALSE

CONSTANTS
  Workers = {w1, w2}
  MainThread = main
  NoThread = nobody
  NumJobs = 3
  NoPath = ""
  Paths <- MCPaths
  Names <- MCNames
  input_files <- MCInputFiles
  Idx = {0, 1}
  Reports <- MCReportsWithPath
  Resolve <- resolve
  Follows <- FollowsSearchList
  Lookup <- MCLookup
  ParentDir <- MCParentDir
  include_paths <- MCIncludePaths
SPECIFICATION GardenerSpec
SYMMETRY WorkerSymmetry
INVARIANTS
  GardenerTypeOK
  LabelsKnown
  VertexesExact
  OutEdgesInFileOrder
  EdgesCounted
  VertexNames
  WrittenGraphIsComplete
  EdgesFollowSearchList
PROPERTIES
  GraphGrows
CHECK_DEADLOCK FALSE

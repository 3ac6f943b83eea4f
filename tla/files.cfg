CONSTANTS
  Dirs = {"top", "sub"}
  NoDir = "no directory"
  NoPath = ""
  MaxLinks = 2
  Paths <- MCPaths
  Names <- MCNames
  FileSystems <- MCFileSystems
  ProcessPaths <- MCProcessPaths
  Limits <- MCLimits
  exclude <- MCExclude
  NoRegex = NoRegex
  language = "c"
  Extension <- MCExtension
  IsIdentifier <- MCIsIdentifier
SPECIFICATION FairSpec
INVARIANTS
  TypeOK
  FindsWhatIsReachable
  FilesHaveVertexes
PROPERTIES
  ImplementsInputFiles
CHECK_DEADLOCK FALSE

CONSTANTS
  Workers = {w1, w2}
  NoPath <- MCNoPath
  Files <- MCFiles2
  job_file <- MCJobFile2
  Reports <- MCSameEdgeReports
  process_path <- MCProcessPath
  ParentDir <- MCParentDir
  ModuleFile <- MCModuleFile
  PackageFile <- MCPackageFile
SPECIFICATION Spec
INVARIANTS
  SkippedIfThere
CHECK_DEADLOCK FALSE

CONSTANTS
  Workers = {w1, w2}
  NoPath <- MCNoPath
  Files <- MCFiles
  job_file <- MCJobFile
  Reports <- MCListReports
  process_path <- MCProcessPath
  ParentDir <- MCParentDir
  ModuleFile <- MCModuleFile
  PackageFile <- MCPackageFile
SPECIFICATION Spec
INVARIANTS
  ListsAsMeant
CHECK_DEADLOCK FALSE

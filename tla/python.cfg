CONSTANTS
  Workers = {w1, w2}
  NoPath <- MCNoPath
  Files <- MCFiles
  job_file <- MCJobFile
  Reports <- MCReports
  process_path <- MCProcessPath
  ParentDir <- MCParentDir
  ModuleFile <- MCModuleFile
  PackageFile <- MCPackageFile
SPECIFICATION FairSpec
INVARIANTS
  TypeOK
  NothingLost
  FirstLineWins
  TwiceIsOnce
  ImportsAsMeant
PROPERTIES
  AllFilesDone
CHECK_DEADLOCK FALSE

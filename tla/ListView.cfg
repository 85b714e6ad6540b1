CONSTANTS
  Places = {"a", "b"}
  Names = {"x", "n"}
  Modes = {"all", "icons"}
  FirstMode = "all"
  NULL = NULL
  Contents <- MCContents
  FileJobs <- MCFileJobs
  Columns = {"icons"}
  MaxLoads = 2
  MaxModes = 1
  MaxFileJobs = 1
SPECIFICATION Spec
INVARIANTS
  TypeOK
  BusyHasJob
  OneScan
  ListFresh
PROPERTIES
  ShowsRequested
CHECK_DEADLOCK FALSE

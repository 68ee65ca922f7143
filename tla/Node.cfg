SPECIFICATION Spec
CONSTANTS
  Process = {p1, p2}
  Path <- MCPath
  Inode = {1, 2}
  Pid = {1, 12, 13}
  Foreign = {1}
  MaxLaunches = 2
  MaxFaults = 1
  Component <- MCComponent
  Files <- MCFiles
  Links <- MCLinks
  Exe <- MCExe
  PATH_CAPACITY = 6
  RunRootOption <- MCMissing
  LogRootOption <- MCMissing
  RunRootVariable <- MCMissing
  LogRootVariable <- MCMissing
  Config <- MCConfig
  Working <- MCWorking
  ConfigNames <- MCConfigNames
  Obstacles <- MCObstacles
  MaxSignals = 2
INVARIANTS PublishedNamesOwner NothingLeftBehind OneInstance DirectoriesShared HangupNotLost
PROPERTIES ImplementsLock TerminationCompletes
CHECK_DEADLOCK FALSE

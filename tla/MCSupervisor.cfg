CONSTANTS
  Launches <- TwoLaunches
  MaxWindows = 2
  MaxCrashes = 2
  MaxFaults = 1
SPECIFICATION FairSpec
INVARIANTS StopHasRequester OneOfEach MarkerIsTrue
PROPERTIES NoAbandonedWorker WindowCloses ControllerReturns
CHECK_DEADLOCK FALSE

CONSTANTS
  Pids <- MCPids
  Exes <- ThreeExes
  Ignored <- Shell
  Candidates <- Game
  BaselineReused = FALSE
  MaxBirths = 2
  MaxSpurious = 2
  MaxMisread = 1
  MaxFaults = 1
SPECIFICATION FairSpec
INVARIANTS ExitMeansGone NeverRecordedTwice
PROPERTIES NewGamePreferred ImplementsRole StopIsHonoured ExitIsNoticed NoEndlessWait NewGameAttached
CHECK_DEADLOCK FALSE

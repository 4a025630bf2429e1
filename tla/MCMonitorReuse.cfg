CONSTANTS
  Pids <- MCPids
  Exes <- TwoExes
  Ignored <- NoExe
  Candidates <- Game
  BaselineReused = TRUE
  MaxBirths = 3
  MaxSpurious = 0
  MaxMisread = 0
  MaxFaults = 0
SPECIFICATION Spec
PROPERTY NewGamePreferred
CHECK_DEADLOCK FALSE

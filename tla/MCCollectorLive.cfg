CONSTANTS
  Sids <- MCSids
  Foreign <- MCForeign
  Unanchored <- FirstSession
  MaxFaults = 1
  MaxInterrupts = 0
SPECIFICATION FairSpec
PROPERTIES HostTerminates SafetyNet
CHECK_DEADLOCK FALSE

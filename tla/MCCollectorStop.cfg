CONSTANTS
  Sids <- MCSids
  Foreign <- MCForeign
  Unanchored <- NoSession
  MaxFaults = 0
  MaxInterrupts = 0
SPECIFICATION Spec
PROPERTY StopIsVetoed
CHECK_DEADLOCK FALSE

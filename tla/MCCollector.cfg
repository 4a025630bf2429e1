CONSTANTS
  Sids <- MCSids
  Foreign <- MCForeign
  Unanchored <- NoSession
  MaxFaults = 1
  MaxInterrupts = 1
SPECIFICATION Spec
INVARIANTS NothingForgotten ReturnIsTruthful OneFailureKeepsReturn NoGameExcludesGames
CHECK_DEADLOCK FALSE

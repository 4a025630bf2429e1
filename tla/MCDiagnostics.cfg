CONSTANTS
  Sids = {s1, s2}
  Limit = 1
  MaxFaults = 1
  MaxInterrupts = 1
SPECIFICATION Spec
SYMMETRY Symmetry
INVARIANTS TypeOK NothingLeftRunning GapsAreReported CapturedIsArchived 
CHECK_DEADLOCK FALSE

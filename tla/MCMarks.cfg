CONSTANTS
  MaxSessions = 3
  MaxPresses = 2
  MaxToggles = 3
  MaxDeaths = 1
  MaxFaults = 1
SPECIFICATION Spec
INVARIANTS MarksNameTheirSession MarksAreKept DeepIsFollowed
CHECK_DEADLOCK FALSE

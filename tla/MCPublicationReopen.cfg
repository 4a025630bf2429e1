CONSTANTS
  p1 = p1
  p2 = p2
  c1 = c1
  c2 = c2
  Nobody = Nobody
  NoData = NoData
  Publishers <- MCPublishers
  Contents <- MCContents
  LinkOutcomes <- OnlyRefused
  OpenMayFail = TRUE
  MaxFaults = 1
  MaxKills = 0
SPECIFICATION Spec
PROPERTY ArchiveStays
CHECK_DEADLOCK FALSE

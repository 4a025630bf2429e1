CONSTANTS
  p1 = p1
  p2 = p2
  c1 = c1
  c2 = c2
  Nobody = Nobody
  NoData = NoData
  Publishers <- MCPublishers
  Contents <- MCContents
  LinkOutcomes <- BothLinkOutcomes
  OpenMayFail = FALSE
  MaxFaults = 2
  MaxKills = 1
SPECIFICATION FairSpec
INVARIANT SuccessMeansPublished
PROPERTIES NoPartialLeftBehind ImplementsWriteOnce EventuallyPublished
CHECK_DEADLOCK FALSE

SPECIFICATION Spec
CONSTANTS
  Locations = {l1}
  Blocks = {"a", "b", "x"}
  Good <- MCGood
  Contents <- MCContents
  Bases = 2
  RetrySeconds = 4
  MaxSeconds = 2
  DiskMayFail = TRUE
  none = none
  Nobody = Nobody
  Absent = none
INVARIANTS
  TypeOK
  VerifiedDataIsExpected
  CleanRequestSucceeds
  SleepWithinPeriod
PROPERTIES
  GoodFileKept
  ImplementsFetch

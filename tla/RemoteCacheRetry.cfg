SPECIFICATION Spec
CONSTANTS
  Locations = {l1}
  Blocks = {"a", "b", "x"}
  Good <- MCGood
  Contents <- MCContents
  Bases = 2
  RetrySeconds = 3
  MaxSeconds = 2
  DiskMayFail = FALSE
  none = none
  Nobody = Nobody
  Absent = none
INVARIANT DownloadFaithful

SPECIFICATION BundleSpec
CONSTANTS
  Entries <- MCEntries
  MaxEntries = 2
  MaxLength = 3
  ChunkSizes = {1, 2}
  ReadSize = 2
  DiskMayFail = TRUE
  NoChunk = NoChunk
  Bundles <- MCBundles
  SourceTypes = {"LOCAL_CDN"}
  MaxExcess = 1
INVARIANTS
  ChunkChecksummed
CHECK_DEADLOCK FALSE

\* Parallel I/O jobs: who owns which buffer and message.
CONSTANTS
  NBuffers = 3
  MaxDataSize = 2
  Sizes = {1, 2}
  MaxItems = 3
  AsyncIO = TRUE
  DiskMayFail = TRUE
SPECIFICATION Spec
INVARIANTS TypeOK PoolPartition FreeBuffersEmpty NoLossNoDup
CHECK_DEADLOCK FALSE

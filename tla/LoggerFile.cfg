\* Inline I/O on a disk whose writes and flushes may fail.
CONSTANTS
  NBuffers = 3
  MaxDataSize = 3
  Sizes = {1, 2}
  MaxItems = 5
  AsyncIO = FALSE
  DiskMayFail = TRUE
SPECIFICATION FairSpec
INVARIANTS UnflushedPending
PROPERTIES ImplementsFifoLog ReleasedComplete EventuallyDurable
CHECK_DEADLOCK FALSE

\* Inline I/O on a disk whose writes and flushes may fail.
CONSTANTS
  NBuffers = 3
  MaxDataSize = 3
  Sizes = {1, 2}
  MaxItems = 4
  AsyncIO = FALSE
  DiskMayFail = TRUE
SPECIFICATION Spec
INVARIANTS DequeueGetsMessage
CHECK_DEADLOCK FALSE

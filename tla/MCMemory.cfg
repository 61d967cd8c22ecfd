SPECIFICATION Spec
CONSTANTS
  NFrames = 2
  Pids = {0, 2, 3}
  Pages = {0, 1}
  NSlots = 2
  DiskSlots = 1
  ApiRequests <- MCApi
  MaxInbox = 4
  MaxTimeouts = 1
INVARIANTS MemTypeOK FramesPartition SlotsPartition SwappedPagesKept PrivateFrames ExitReturnsFrames
CHECK_DEADLOCK FALSE

SPECIFICATION KernelSpec
CONSTANTS
  Threads = {t1, t2}
  MaxRequests = 2
  MaxDrain = 2
  NFrames = 2
  Pids = {0, 2, 3}
  TablePages = {0, 1}
  OneWaySlots = 1
  IpcPids = {2, 3}
  MaxShm = 1
  MaxSent = 2
  MaxRefs = 3
  SemThreads = {2, 3}
  U32Max = 2
  MaxUnits = 2
  Tids = {1, 2, 3}
  Signals = {9}
  MaxSignals = 1
  MaxPcbFd = 4
  DevNames = {"a", "b"}
  DevTypes = {"block"}
  DevPids = {2, 3}
  DriverNames = {"drv"}
  PortNames = {"keyboard", "serial", "network"}
  MaxDevice = 2
  MaxOpens = 2
  MaxArrivals = 2
  Sources <- MCSources
  Stray <- MCStray
  NRegs = 3
  PageWords = 8
  NPages = 2
  U64 = 24
  U32 = 16
  U8 = 4
  Vector = 3
  ArgWord = 4
  BufWord = 8
  Texts <- MCTexts
  Results = {1}
  OldPages <- MCOldPages
INVARIANTS AnsweredFaultIsMapped
CHECK_DEADLOCK FALSE

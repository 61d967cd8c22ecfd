SPECIFICATION FairSpec
CONSTANTS
    Pid = {1, 2, 3, 4}
    CPU = {0, 1}
    NoPid = NoPid
    Quantum = 2
    SyncId = {0, 1}
    SemIds = {0}
    LockIds = {1}
    StepsPerSlot = 2
    Program = {"plain", "sem", "lock", "create"}
    Requests = {"spawn", "create"}
    Disciplined = TRUE
    MaxQueue = 3
    MaxSem = 1
    MaxWaits = 0
INVARIANTS MutualExclusion WaitersHaveHolder
PROPERTIES WaitersMoveOn
CHECK_DEADLOCK FALSE

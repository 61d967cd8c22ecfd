SPECIFICATION Spec
CONSTANTS
    Pid = {1, 2, 3, 4}
    CPU = {0, 1}
    NoPid = NoPid
    Quantum = 2
    SyncId = {0}
    SemIds = {0}
    LockIds = {0}
    StepsPerSlot = 1
    Program = {"plain", "sem"}
    Requests = {"spawn", "sync"}
    Disciplined = FALSE
    MaxQueue = 4
    MaxSem = 1
    MaxWaits = 0
INVARIANTS SchedulerExact

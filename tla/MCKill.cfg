SPECIFICATION Spec
CONSTANTS
    Pid = {1, 2, 3, 4}
    CPU = {0, 1}
    NoPid = NoPid
    Quantum = 2
    SyncId = {0}
    SemIds = {0}
    LockIds = {0}
    StepsPerSlot = 1
    Program = {"plain", "sem"}
    Requests = {"spawn", "kill"}
    Disciplined = TRUE
    MaxQueue = 4
    MaxSem = 1
    MaxWaits = 1
INVARIANTS MutualExclusion

SPECIFICATION Spec
CONSTANTS
    Pid = {1, 2}
    CPU = {0, 1}
    NoPid = NoPid
    Quantum = 2
    SyncId = {0}
    SemIds = {0}
    LockIds = {0}
    StepsPerSlot = 1
    Program = {"plain", "exit"}
    Requests = {"fork", "exec", "wait"}
    Disciplined = FALSE
    MaxQueue = 4
    MaxSem = 2
    MaxWaits = 1
INVARIANTS DeadChildrenAnswered

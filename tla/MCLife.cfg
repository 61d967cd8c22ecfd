SPECIFICATION Spec
CONSTANTS
    Pid = {1, 2, 3, 4}
    CPU = {0, 1}
    NoPid = NoPid
    Quantum = 2
    SyncId = {0}
    SemIds = {0}
    LockIds = {0}
    StepsPerSlot = 2
    Program = {"plain", "halt", "exit", "sem"}
    Requests = {"fork", "exec", "spawn", "wait"}
    Disciplined = FALSE
    MaxQueue = 4
    MaxSem = 2
    MaxWaits = 1
INVARIANTS SchedulerExact StatesMatchScheduler

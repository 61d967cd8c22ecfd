SPECIFICATION Spec
CONSTANTS
    Pid = {1, 2}
    CPU = {0, 1}
    NoPid = NoPid
    Quantum = 2
    SyncId = {0}
    SemIds = {0}
    LockIds = {0}
    StepsPerSlot = 1
    Program = {"halt", "exit", "sem", "fork", "exec"}
    Requests = {"fork", "exec", "reexec", "spawn", "wait", "kill", "stop", "continue", "block", "schedule"}
    Disciplined = FALSE
    MaxQueue = 2
    MaxSem = 1
    MaxWaits = 1
INVARIANTS TypeOK ExecutesOncePerTick InitStaysInTable TableHasCpu
CHECK_DEADLOCK FALSE

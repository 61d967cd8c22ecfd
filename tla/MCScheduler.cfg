SPECIFICATION FairSpec
CONSTANTS
    Pid = {p1, p2, p3}
    CPU = {c1, c2}
    NoPid = NoPid
    Quantum = 3
    MaxQueue = 4
INVARIANTS TypeOK OneCpuPerPid
PROPERTIES NoOvertaking DecisionsConserveEntries NeverIdleWithWork QueuedPidsRun RefinesRunSet

------------------------ MODULE ProcessServiceProofs ------------------------
(***************************************************************************)
(* Theorems about the process service for every number of processes, CPUs, *)
(* semaphores and queue entries, every program and every kind of request.  *)
(***************************************************************************)
EXTENDS ProcessService, SchedulerOpsProofs

\* The slot being served belongs to a pid, and the CPU that executes is live.
SlotSound == /\ tick.phase \in {"exec", "halt"} => tick.pid \in Pid
             /\ tick.phase = "exec" => cpu[tick.pid] = "live"

\* Pids are handed out upwards from init, and init is nobody's child: so no
\* wait can reap it.
InitIsRoot == /\ next_pid > InitPid
              /\ \A p \in Pid : InitPid \notin children[p]

\* The inductive invariant.
IInv == /\ TypeOK
        /\ OneCpuPerPid
        /\ InitStaysInTable
        /\ TableHasCpu
        /\ SlotSound
        /\ InitIsRoot

\* What the assumptions on the constants say about pids, CPUs and ids.
LEMMA Constants ==
    /\ LastPid \in Nat /\ Pid = 1 .. LastPid /\ InitPid \in Pid
    /\ 0 \in CPU /\ CPU \subseteq Nat
    /\ SyncId \subseteq Nat /\ 0 \in SyncId
    /\ NoPid \notin Pid
<1>1. IsFiniteSet(Pid)
  BY ServiceAssumption
<1>2. LastPid \in Nat
  BY <1>1, FS_CardinalityType DEF LastPid
<1>3. IsFiniteSet(CPU) /\ CPU = 0 .. Cardinality(CPU) - 1
  BY ServiceAssumption
<1>4. CPU \subseteq Nat
  <2>1. Cardinality(CPU) \in Nat
    BY <1>3, FS_CardinalityType
  <2> QED
    BY <1>3, <2>1
<1> QED
  BY <1>2, <1>4, ServiceAssumption, SchedulerAssumption

\* A service that has just started satisfies the invariant.
LEMMA InitIInv == Init => IInv
<1> SUFFICES ASSUME Init
             PROVE  IInv
  OBVIOUS
<1> USE Constants DEF Init
<1>1. sched \in SchedulerState /\ Exclusive(sched)
  BY SchedulerAssumption DEF NewScheduler, SchedulerState, Exclusive
<1>2. next_pid \in Pid \cup {LastPid + 1}
  BY DEF InitPid
<1>3. TypeOK
  BY <1>1, <1>2 DEF TypeOK, Status, Phase, Outside, IdleTick, CpuState, Section, TickState
<1>4. TableHasCpu
  BY DEF TableHasCpu, InTable, InitPid
<1> QED
  BY <1>1, <1>3, <1>4
     DEF IInv, OneCpuPerPid, InitStaysInTable, InTable, SlotSound, InitIsRoot, IdleTick, InitPid

-----------------------------------------------------------------------------
(* What every step owes *)

\* A step that creates and reaps nobody keeps IInv if it keeps the types,
\* the exclusivity of the CPUs and the soundness of the slot, and if no entry
\* of the table or of cpus appears or goes.
LEMMA Keeps ==
    ASSUME IInv,
           pstate' \in [Pid -> Status], lock_addr' \in [Pid -> SyncId], cpu' \in [Pid -> CpuState],
           sched' \in SchedulerState, Exclusive(sched'),
           last' \in [CPU -> Pid \cup {NoPid}], loaded' \subseteq Pid, waiting' \in [Pid -> Nat],
           sem' \in [SyncId -> Nat], nsem' \in Nat,
           mutex' \in [SyncId -> Pid \cup {NoPid}], nmutex' \in Nat,
           cs' \in [Pid -> Section], tick' \in TickState, ran' \in [CPU -> Pid \cup {NoPid}],
           UNCHANGED <<next_pid, children>>,
           SlotSound',
           \A p \in Pid : pstate'[p] = "Free" <=> pstate[p] = "Free",
           \A p \in Pid : cpu'[p] = "none" <=> cpu[p] = "none"
    PROVE  IInv'
<1>1. TypeOK'
  BY DEF IInv, TypeOK
<1>2. InitStaysInTable'
  BY Constants DEF IInv, InitStaysInTable, InTable
<1>3. TableHasCpu'
  <2>1. \A p \in Pid : InTable(p)' <=> InTable(p)
    BY DEF InTable
  <2> QED
    BY <2>1 DEF IInv, TableHasCpu
<1>4. InitIsRoot'
  BY DEF IInv, InitIsRoot
<1> QED
  BY <1>1, <1>2, <1>3, <1>4 DEF IInv, OneCpuPerPid

-----------------------------------------------------------------------------
(* The timer interrupt *)

\* The decision for a CPU keeps the scheduler well formed and exclusive.
LEMMA DecisionSound ==
    ASSUME IInv
    PROVE  /\ Decision \in SchedulerState
           /\ Exclusive(Decision)
           /\ Decision.current[tick.c] \in Pid \cup {NoPid}
<1> DEFINE s == schedule(sched, tick.c)
<1>1. sched \in SchedulerState /\ Exclusive(sched) /\ tick.c \in CPU
  BY DEF IInv, TypeOK, OneCpuPerPid, TickState
<1>2. s \in SchedulerState /\ Exclusive(s)
  BY <1>1, ScheduleType, ScheduleExclusive
<1>3. Decision = s \/ Decision = yield_current(s, tick.c)
  BY DEF Decision
<1> HIDE DEF s
<1>4. Decision \in SchedulerState /\ Exclusive(Decision)
  BY <1>1, <1>2, <1>3, YieldType, ScheduleExclusive
<1> QED
  BY <1>1, <1>4 DEF SchedulerState

\* Switching to p never frees a table entry.
LEMMA SwitchedSound ==
    ASSUME pstate \in [Pid -> Status], NEW p \in Pid
    PROVE  /\ Switched(p) \in [Pid -> Status]
           /\ \A q \in Pid : Switched(p)[q] = "Free" <=> pstate[q] = "Free"
  BY DEF Switched, Status

\* The decision and the switch of one CPU keep the invariant.
LEMMA SlotIInv == IInv /\ Slot => IInv'
<1> SUFFICES ASSUME IInv, Slot
             PROVE  IInv'
  OBVIOUS
<1> DEFINE p == Decision.current[tick.c]
<1>1. /\ sched' = Decision /\ last' = [last EXCEPT ![tick.c] = p]
      /\ sched' \in SchedulerState /\ Exclusive(sched') /\ p \in Pid \cup {NoPid}
  BY DecisionSound DEF Slot
<1>2. \/ /\ p = NoPid
         /\ tick' = [tick EXCEPT !.phase = "reap", !.pid = NoPid]
         /\ UNCHANGED <<pstate, cpu>>
      \/ /\ p # NoPid
         /\ pstate' = Switched(p)
         /\ cpu' = IF cpu[p] = "halted" /\ Switched(p)[p] \in {"Ready", "Running"}
                   THEN [cpu EXCEPT ![p] = "live"] ELSE cpu
         /\ tick' = [tick EXCEPT !.phase = IF cpu'[p] = "live" THEN "exec" ELSE "halt",
                                 !.pid = p, !.steps = 0, !.scheduled = @ \cup {p}]
  BY DEF Slot
<1>3. UNCHANGED <<lock_addr, treeVars, waiting, syncVars, cs, ran>>
  BY DEF Slot
<1> HIDE DEF p
<1>4. pstate \in [Pid -> Status] /\ cpu \in [Pid -> CpuState] /\ tick \in TickState
  BY DEF IInv, TypeOK
<1>5. /\ pstate' \in [Pid -> Status]
      /\ \A q \in Pid : pstate'[q] = "Free" <=> pstate[q] = "Free"
  BY <1>1, <1>2, <1>4, SwitchedSound
<1>6. /\ cpu' \in [Pid -> CpuState]
      /\ \A q \in Pid : cpu'[q] = "none" <=> cpu[q] = "none"
  BY <1>1, <1>2, <1>4 DEF CpuState
<1>7. tick' \in TickState /\ SlotSound'
  <2>1. CASE p = NoPid
    BY <1>2, <1>4, <2>1 DEF TickState, Phase, SlotSound
  <2>2. CASE p # NoPid
    <3>1. p \in Pid
      BY <1>1, <2>2
    <3>2. tick' = [tick EXCEPT !.phase = IF cpu'[p] = "live" THEN "exec" ELSE "halt",
                               !.pid = p, !.steps = 0, !.scheduled = tick.scheduled \cup {p}]
      BY <1>2, <2>2
    <3>3. tick' \in TickState
      BY <1>4, <3>1, <3>2 DEF TickState, Phase
    <3>4. tick'.pid = p /\ (tick'.phase = "exec" => cpu'[p] = "live")
      BY <1>4, <3>2 DEF TickState
    <3> QED
      BY <3>1, <3>3, <3>4 DEF SlotSound
  <2> QED
    BY <2>1, <2>2
<1>8. last' \in [CPU -> Pid \cup {NoPid}]
  BY <1>1, <1>4 DEF IInv, TypeOK, TickState
<1>9. /\ lock_addr' \in [Pid -> SyncId] /\ loaded' \subseteq Pid /\ waiting' \in [Pid -> Nat]
      /\ sem' \in [SyncId -> Nat] /\ nsem' \in Nat
      /\ mutex' \in [SyncId -> Pid \cup {NoPid}] /\ nmutex' \in Nat
      /\ cs' \in [Pid -> Section] /\ ran' \in [CPU -> Pid \cup {NoPid}]
      /\ UNCHANGED <<next_pid, children>>
  BY <1>3 DEF IInv, TypeOK, treeVars, syncVars
<1> QED
  BY <1>1, <1>5, <1>6, <1>7, <1>8, <1>9, Keeps

\* Ending a halted process keeps its table entry: only the reaper drops it.
LEMMA HaltCheckIInv == IInv /\ HaltCheck => IInv'
<1> SUFFICES ASSUME IInv, HaltCheck
             PROVE  IInv'
  OBVIOUS
<1> DEFINE p == tick.pid
<1>1. p \in Pid /\ sched \in SchedulerState /\ Exclusive(sched)
  BY DEF HaltCheck, IInv, TypeOK, OneCpuPerPid, SlotSound
<1>2. sched' = sched \/ sched' = remove(sched, p)
  BY Zenon DEF HaltCheck
<1>3. sched' \in SchedulerState /\ Exclusive(sched')
  BY <1>1, <1>2, RemoveType, RemoveExclusive
<1>4. /\ pstate' = pstate \/ (InTable(p) /\ pstate' = [pstate EXCEPT ![p] = "Zombie"])
      /\ cpu' = cpu \/ (cpu[p] = "halted" /\ cpu' = [cpu EXCEPT ![p] = "live"])
  BY Zenon DEF HaltCheck
<1>5. sem' = sem \/ sem' = ReleaseSem0
  BY Zenon DEF HaltCheck
<1>6. mutex' = mutex \/ mutex' = ReleaseMutex0(p)
  BY Zenon DEF HaltCheck
<1>7. waiting' = waiting \/ (waiting[p] > 0 /\ waiting' = [waiting EXCEPT ![p] = @ - 1])
  BY Zenon DEF HaltCheck
<1>8. /\ tick' = [tick EXCEPT !.phase = "reap", !.pid = NoPid, !.steps = 0]
      /\ UNCHANGED <<lock_addr, last, treeVars, nsem, nmutex, cs, ran>>
  BY DEF HaltCheck
<1>9. /\ pstate \in [Pid -> Status] /\ cpu \in [Pid -> CpuState] /\ tick \in TickState
      /\ sem \in [SyncId -> Nat] /\ mutex \in [SyncId -> Pid \cup {NoPid}]
      /\ waiting \in [Pid -> Nat]
  BY DEF IInv, TypeOK
<1> HIDE DEF p
<1>10. /\ pstate' \in [Pid -> Status]
       /\ \A q \in Pid : pstate'[q] = "Free" <=> pstate[q] = "Free"
  BY <1>1, <1>4, <1>9 DEF Status, InTable
<1>11. /\ cpu' \in [Pid -> CpuState]
       /\ \A q \in Pid : cpu'[q] = "none" <=> cpu[q] = "none"
  BY <1>1, <1>4, <1>9 DEF CpuState
<1>12. sem' \in [SyncId -> Nat]
  BY <1>5, <1>9 DEF ReleaseSem0
<1>13. mutex' \in [SyncId -> Pid \cup {NoPid}]
  BY <1>6, <1>9 DEF ReleaseMutex0
<1>14. waiting' \in [Pid -> Nat]
  BY <1>1, <1>7, <1>9
<1>15. tick' \in TickState /\ SlotSound'
  BY <1>8, <1>9 DEF TickState, Phase, SlotSound
<1>16. /\ lock_addr' \in [Pid -> SyncId] /\ loaded' \subseteq Pid
       /\ last' \in [CPU -> Pid \cup {NoPid}] /\ nsem' \in Nat /\ nmutex' \in Nat
       /\ cs' \in [Pid -> Section] /\ ran' \in [CPU -> Pid \cup {NoPid}]
       /\ UNCHANGED <<next_pid, children>>
  BY <1>8 DEF IInv, TypeOK, treeVars
<1> QED
  BY <1>3, <1>10, <1>11, <1>12, <1>13, <1>14, <1>15, <1>16, Keeps

\* The reaper takes table entry and CPU together, and never those of init.
LEMMA ReapIInv == IInv /\ Reap => IInv'
<1> SUFFICES ASSUME IInv, Reap
             PROVE  IInv'
  OBVIOUS
<1>1. /\ \/ UNCHANGED <<pstate, cpu>>
         \/ \E z \in Pid \ {InitPid} : /\ pstate' = [pstate EXCEPT ![z] = "Free"]
                                       /\ cpu' = [cpu EXCEPT ![z] = "none"]
      /\ UNCHANGED <<lock_addr, sched, last, treeVars, waiting, syncVars, cs>>
  BY DEF Reap, ReapProcess, Zombies
<1>2. pstate \in [Pid -> Status] /\ cpu \in [Pid -> CpuState] /\ tick \in TickState
  BY DEF IInv, TypeOK
<1>3. tick' \in TickState /\ tick'.phase \notin {"exec", "halt"} /\ ran' \in [CPU -> Pid \cup {NoPid}]
  <2>1. CASE tick.c + 1 \in CPU
    <3>1. tick' = [tick EXCEPT !.phase = "slot", !.c = tick.c + 1] /\ ran' = ran
      BY <2>1 DEF Reap
    <3> QED
      BY <1>2, <2>1, <3>1 DEF IInv, TypeOK, TickState, Phase
  <2>2. CASE tick.c + 1 \notin CPU
    <3>1. tick' = IdleTick /\ ran' = [c \in CPU |-> NoPid]
      BY <2>2 DEF Reap
    <3> QED
      BY <3>1, Constants DEF TickState, Phase, IdleTick
  <2> QED
    BY <2>1, <2>2
<1>4. pstate' \in [Pid -> Status] /\ cpu' \in [Pid -> CpuState]
  BY <1>1, <1>2 DEF Status, CpuState
<1>5. TypeOK'
  BY <1>1, <1>3, <1>4 DEF IInv, TypeOK, treeVars, syncVars
<1>6. TableHasCpu' /\ InitStaysInTable'
  <2>1. CASE UNCHANGED <<pstate, cpu>>
    BY <1>1, <2>1 DEF IInv, TableHasCpu, InitStaysInTable, InTable, treeVars
  <2>2. ASSUME NEW z \in Pid \ {InitPid},
               pstate' = [pstate EXCEPT ![z] = "Free"], cpu' = [cpu EXCEPT ![z] = "none"]
        PROVE  TableHasCpu' /\ InitStaysInTable'
    <3>1. /\ \A q \in Pid \ {z} : pstate'[q] = pstate[q] /\ cpu'[q] = cpu[q]
          /\ pstate'[z] = "Free" /\ cpu'[z] = "none"
      BY <1>2, <2>2
    <3>2. next_pid' = next_pid
      BY <1>1 DEF treeVars
    <3>3. InitStaysInTable'
      BY <3>1, Constants DEF IInv, InitStaysInTable, InTable
    <3>4. TableHasCpu'
      BY <3>1, <3>2 DEF IInv, TableHasCpu, InTable
    <3> QED
      BY <3>3, <3>4
  <2> QED
    BY <1>1, <2>1, <2>2
<1> QED
  BY <1>1, <1>3, <1>5, <1>6 DEF IInv, OneCpuPerPid, InitIsRoot, SlotSound, treeVars

\* Every part of the timer interrupt keeps the invariant.
LEMMA TimerIInv == IInv /\ Timer => IInv'
<1>1. ASSUME IInv, StartTick
      PROVE  IInv'
  <2>1. tick' = [IdleTick EXCEPT !.phase = "slot"]
    BY <1>1 DEF StartTick
  <2>2. tick' \in TickState /\ SlotSound'
    BY <2>1, Constants DEF IdleTick, TickState, Phase, SlotSound
  <2>3. UNCHANGED <<procVars, sched, last, treeVars, waiting, syncVars, cs, ran>>
    BY <1>1 DEF StartTick
  <2> QED
    BY <1>1, <2>2, <2>3, Keeps DEF IInv, TypeOK, OneCpuPerPid, procVars, treeVars, syncVars
<1> QED
  BY <1>1, SlotIInv, HaltCheckIInv, ReapIInv DEF Timer

-----------------------------------------------------------------------------
(* Instructions *)

\* What every instruction does to the slot.
LEMMA SteppedSound ==
    ASSUME IInv, NEW p \in Pid, NEW k, Executing(p, k), NEW h \in BOOLEAN, Stepped(p, h)
    PROVE  /\ tick' \in TickState /\ ran' \in [CPU -> Pid \cup {NoPid}]
           /\ tick'.pid = p /\ tick.pid = p /\ cpu[p] = "live"
           /\ tick'.phase = "exec" => ~ h
<1>1. tick \in TickState /\ ran \in [CPU -> Pid \cup {NoPid}]
  BY DEF IInv, TypeOK
<1>2. tick.phase = "exec" /\ tick.pid = p
  BY DEF Executing
<1>3. /\ \/ tick' = [tick EXCEPT !.phase = "halt"]
         \/ ~ h /\ tick' = [tick EXCEPT !.steps = tick.steps + 1]
      /\ ran' = [ran EXCEPT ![tick.c] = p]
  BY DEF Stepped
<1>4. cpu[p] = "live"
  BY <1>2 DEF IInv, SlotSound
<1> QED
  BY <1>1, <1>2, <1>3, <1>4 DEF TickState, Phase

\* A slot that never ends.
LEMMA HangSound ==
    ASSUME IInv, Hang
    PROVE  tick' \in TickState /\ ran' \in [CPU -> Pid \cup {NoPid}] /\ SlotSound'
  BY DEF Hang, IInv, TypeOK, TickState, Phase, SlotSound

\* Instructions that change only the slot.
LEMMA SlotOnly ==
    ASSUME IInv, tick' \in TickState, ran' \in [CPU -> Pid \cup {NoPid}], SlotSound',
           UNCHANGED <<procVars, sched, last, treeVars, waiting, syncVars, cs>>
    PROVE  IInv'
  BY Keeps DEF IInv, TypeOK, OneCpuPerPid, procVars, treeVars, syncVars

\* Instructions that touch nothing but the slot, or hang it.
LEMMA PlainIInv ==
    ASSUME IInv, NEW p \in Pid, Plain(p) \/ SyscallExec(p) \/ (p = InitPid /\ FaultInit)
    PROVE  IInv'
<1>1. UNCHANGED <<procVars, sched, last, treeVars, waiting, syncVars, cs>>
  BY DEF Plain, SyscallExec, FaultInit
<1>2. CASE Hang
  BY <1>1, <1>2, HangSound, SlotOnly
<1>3. ASSUME NEW k, NEW h \in BOOLEAN, Executing(p, k), Stepped(p, h)
      PROVE  IInv'
  <2>1. cpu' = cpu
    BY <1>1 DEF procVars
  <2>2. /\ tick' \in TickState /\ ran' \in [CPU -> Pid \cup {NoPid}]
        /\ tick'.pid = p /\ cpu[p] = "live"
    BY <1>3, SteppedSound
  <2>3. SlotSound'
    BY <2>1, <2>2 DEF SlotSound
  <2> QED
    BY <1>1, <2>2, <2>3, SlotOnly
<1> QED
  BY <1>2, <1>3 DEF Plain, SyscallExec, FaultInit

\* HALT and exit(): the process stops, but its table entry and CPU stay.
LEMMA StopIInv ==
    ASSUME IInv, NEW p \in Pid, Halt(p) \/ SyscallExit(p)
    PROVE  IInv'
<1>1. PICK k : Executing(p, k) /\ Stepped(p, TRUE)
  BY DEF Halt, SyscallExit
<1>2. /\ tick' \in TickState /\ ran' \in [CPU -> Pid \cup {NoPid}]
      /\ tick'.pid = p /\ cpu[p] = "live" /\ tick'.phase # "exec"
  BY <1>1, SteppedSound
<1>3. SlotSound'
  BY <1>2 DEF SlotSound
<1>4. /\ cpu' = [cpu EXCEPT ![p] = "halted"]
      /\ pstate' = pstate \/ pstate' = WithState(p, "Zombie")
      /\ lock_addr' = lock_addr \/ lock_addr' = WithAddr(p, 0)
      /\ sched' = sched \/ sched' = remove(sched, p)
      /\ sem' = sem \/ sem' = ReleaseSem0
      /\ UNCHANGED <<last, treeVars, waiting, nsem, mutex, nmutex, cs>>
  BY DEF Halt, SyscallExit, Halted, syncVars
<1>5. /\ pstate \in [Pid -> Status] /\ cpu \in [Pid -> CpuState] /\ lock_addr \in [Pid -> SyncId]
      /\ sem \in [SyncId -> Nat] /\ sched \in SchedulerState /\ Exclusive(sched)
  BY DEF IInv, TypeOK, OneCpuPerPid
<1>6. /\ pstate' \in [Pid -> Status]
      /\ \A q \in Pid : pstate'[q] = "Free" <=> pstate[q] = "Free"
  BY <1>4, <1>5 DEF WithState, InTable, Status
<1>7. cpu' \in [Pid -> CpuState] /\ \A q \in Pid : cpu'[q] = "none" <=> cpu[q] = "none"
  BY <1>2, <1>4, <1>5 DEF CpuState
<1>8. lock_addr' \in [Pid -> SyncId] /\ sem' \in [SyncId -> Nat]
  BY <1>4, <1>5, Constants DEF WithAddr, ReleaseSem0
<1>9. sched' \in SchedulerState /\ Exclusive(sched')
  BY <1>4, <1>5, RemoveType, RemoveExclusive
<1>10. /\ last' \in [CPU -> Pid \cup {NoPid}] /\ loaded' \subseteq Pid /\ waiting' \in [Pid -> Nat]
       /\ nsem' \in Nat /\ mutex' \in [SyncId -> Pid \cup {NoPid}] /\ nmutex' \in Nat
       /\ cs' \in [Pid -> Section] /\ UNCHANGED <<next_pid, children>>
  BY <1>4 DEF IInv, TypeOK, treeVars
<1> QED
  BY <1>2, <1>3, <1>6, <1>7, <1>8, <1>9, <1>10, Keeps

\* The critical-section variable keeps its type.
LEMMA SectionSound ==
    ASSUME IInv, NEW p \in Pid, NEW i \in SyncId, NEW k \in {"sem", "lock"},
           Enters(p, k, i) \/ Leaves(p, k, i)
    PROVE  cs' \in [Pid -> Section]
<1>1. cs \in [Pid -> Section]
  BY DEF IInv, TypeOK
<1>2. cs' = cs \/ cs' = [cs EXCEPT ![p] = <<k, i>>] \/ cs' = [cs EXCEPT ![p] = <<"none", 0>>]
  BY DEF Enters, Leaves, Outside
<1>3. <<k, i>> \in Section /\ <<"none", 0>> \in Section
  BY Constants DEF Section
<1> QED
  BY <1>1, <1>2, <1>3

\* Assigning the state of a process never makes or removes a table entry.
LEMMA Assigned ==
    ASSUME IInv, NEW p \in Pid, NEW st \in Status \ {"Free"}, NEW i \in SyncId
    PROVE  /\ WithState(p, st) \in [Pid -> Status]
           /\ \A q \in Pid : WithState(p, st)[q] = "Free" <=> pstate[q] = "Free"
           /\ WithAddr(p, i) \in [Pid -> SyncId]
<1>1. pstate \in [Pid -> Status] /\ lock_addr \in [Pid -> SyncId]
  BY DEF IInv, TypeOK
<1> QED
  BY <1>1 DEF WithState, WithAddr, InTable

\* sem_wait and lock_acquire, passing or blocking.
LEMMA AcquireIInv ==
    ASSUME IInv, NEW p \in Pid, NEW i \in SyncId, SyscallSemWait(p, i) \/ SyscallLockAcquire(p, i)
    PROVE  IInv'
<1>1. PICK k : Executing(p, k)
  BY DEF SyscallSemWait, SyscallLockAcquire
<1>2. (Stepped(p, FALSE) /\ UNCHANGED <<procVars, sched>>) \/ BlockOn(p, i)
  BY DEF SyscallSemWait, SyscallLockAcquire
<1>3. /\ pstate \in [Pid -> Status] /\ cpu \in [Pid -> CpuState] /\ lock_addr \in [Pid -> SyncId]
      /\ sem \in [SyncId -> Nat] /\ mutex \in [SyncId -> Pid \cup {NoPid}]
      /\ sched \in SchedulerState /\ Exclusive(sched)
  BY DEF IInv, TypeOK, OneCpuPerPid
<1>4. sem' \in [SyncId -> Nat]
  <2>1. sem[i] \in Nat
    BY <1>3
  <2>2. sem' = sem \/ (sem[i] > 0 /\ sem' = [sem EXCEPT ![i] = sem[i] - 1])
    BY DEF SyscallSemWait, SyscallLockAcquire
  <2>3. sem[i] > 0 => sem[i] - 1 \in Nat
    BY <2>1
  <2> QED
    BY <1>3, <2>2, <2>3
<1>5. mutex' \in [SyncId -> Pid \cup {NoPid}]
  <2>1. mutex' = mutex \/ mutex' = [mutex EXCEPT ![i] = p]
    BY DEF SyscallSemWait, SyscallLockAcquire
  <2> QED
    BY <1>3, <2>1
<1>6. cs' \in [Pid -> Section]
  <2>1. Enters(p, "sem", i) \/ Enters(p, "lock", i)
    BY DEF SyscallSemWait, SyscallLockAcquire
  <2> QED
    BY <2>1, SectionSound
<1>7. UNCHANGED <<last, treeVars, waiting, nsem, nmutex>>
  BY DEF SyscallSemWait, SyscallLockAcquire
<1>8. /\ last' \in [CPU -> Pid \cup {NoPid}] /\ loaded' \subseteq Pid /\ waiting' \in [Pid -> Nat]
      /\ nsem' \in Nat /\ nmutex' \in Nat /\ UNCHANGED <<next_pid, children>>
  BY <1>7 DEF IInv, TypeOK, treeVars
<1>9. CASE Stepped(p, FALSE) /\ UNCHANGED <<procVars, sched>>
  <2>1. /\ tick' \in TickState /\ ran' \in [CPU -> Pid \cup {NoPid}]
        /\ tick'.pid = p /\ cpu[p] = "live"
    BY <1>1, <1>9, SteppedSound
  <2>2. SlotSound'
    BY <1>9, <2>1 DEF SlotSound, procVars
  <2> QED
    BY <1>3, <1>4, <1>5, <1>6, <1>8, <1>9, <2>1, <2>2, Keeps DEF procVars
<1>10. CASE BlockOn(p, i)
  <2>1. Stepped(p, TRUE)
    BY <1>10 DEF BlockOn
  <2>2. /\ tick' \in TickState /\ ran' \in [CPU -> Pid \cup {NoPid}]
        /\ tick'.pid = p /\ cpu[p] = "live" /\ tick'.phase # "exec"
    BY <1>1, <2>1, SteppedSound
  <2>3. SlotSound'
    BY <2>2 DEF SlotSound
  <2>4. cpu' \in [Pid -> CpuState] /\ \A q \in Pid : cpu'[q] = "none" <=> cpu[q] = "none"
    BY <1>3, <1>10, <2>2 DEF BlockOn, Halted, CpuState
  <2>5. /\ pstate' \in [Pid -> Status] /\ lock_addr' \in [Pid -> SyncId]
        /\ \A q \in Pid : pstate'[q] = "Free" <=> pstate[q] = "Free"
    BY <1>10, Assigned DEF BlockOn, Status
  <2>6. sched' \in SchedulerState /\ Exclusive(sched')
    BY <1>3, <1>10, RemoveType, RemoveExclusive DEF BlockOn
  <2> QED
    BY <1>4, <1>5, <1>6, <1>8, <2>2, <2>3, <2>4, <2>5, <2>6, Keeps
<1> QED
  BY <1>2, <1>9, <1>10


\* A pid handed to the scheduler leaves it well formed and exclusive.
LEMMA ReadySound ==
    ASSUME NEW s \in SchedulerState, NEW p \in Pid, Exclusive(s)
    PROVE  ready(s, p) \in SchedulerState /\ Exclusive(ready(s, p))
<1>1. ready(s, p) \in SchedulerState /\ ready(s, p).current = s.current
  BY ReadyType, ReadyKnown
<1> QED
  BY <1>1 DEF Exclusive

\* sem_signal and lock_release: a waiter is woken or the unit given back.
LEMMA ReleaseIInv ==
    ASSUME IInv, NEW p \in Pid, NEW i \in SyncId,
           SyscallSemSignal(p, i) \/ SyscallLockRelease(p, i)
    PROVE  IInv'
<1>1. PICK k : Executing(p, k)
  BY DEF SyscallSemSignal, SyscallLockRelease
<1>2. /\ pstate \in [Pid -> Status] /\ cpu \in [Pid -> CpuState] /\ lock_addr \in [Pid -> SyncId]
      /\ sem \in [SyncId -> Nat] /\ mutex \in [SyncId -> Pid \cup {NoPid}]
      /\ sched \in SchedulerState /\ Exclusive(sched)
  BY DEF IInv, TypeOK, OneCpuPerPid
<1>3. Stepped(p, FALSE) \/ Hang
  BY DEF SyscallSemSignal, SyscallLockRelease
<1>4. cpu' = cpu
  BY DEF SyscallSemSignal, SyscallLockRelease
<1>5. tick' \in TickState /\ ran' \in [CPU -> Pid \cup {NoPid}] /\ SlotSound'
  <2>1. CASE Stepped(p, FALSE)
    <3>1. /\ tick' \in TickState /\ ran' \in [CPU -> Pid \cup {NoPid}]
          /\ tick'.pid = p /\ cpu[p] = "live"
      BY <1>1, <2>1, SteppedSound
    <3> QED
      BY <1>4, <3>1 DEF SlotSound
  <2>2. CASE Hang
    BY <2>2, HangSound
  <2> QED
    BY <1>3, <2>1, <2>2
<1>6. sem' \in [SyncId -> Nat]
  <2>1. sem' = sem \/ sem' = [sem EXCEPT ![i] = sem[i] + 1]
    BY DEF SyscallSemSignal, SyscallLockRelease
  <2>2. sem[i] + 1 \in Nat
    BY <1>2
  <2> QED
    BY <1>2, <2>1, <2>2
<1>7. mutex' \in [SyncId -> Pid \cup {NoPid}]
  <2>1. mutex' = mutex \/ mutex' = [mutex EXCEPT ![i] = NoPid]
    BY DEF SyscallSemSignal, SyscallLockRelease, Released
  <2> QED
    BY <1>2, <2>1
<1>8. cs' \in [Pid -> Section]
  <2>1. Leaves(p, "sem", i) \/ Leaves(p, "lock", i)
    BY DEF SyscallSemSignal, SyscallLockRelease
  <2> QED
    BY <2>1, SectionSound
<1>9. UNCHANGED <<last, treeVars, waiting, nsem, nmutex>>
  BY DEF SyscallSemSignal, SyscallLockRelease
<1>10. /\ last' \in [CPU -> Pid \cup {NoPid}] /\ loaded' \subseteq Pid /\ waiting' \in [Pid -> Nat]
       /\ nsem' \in Nat /\ nmutex' \in Nat /\ UNCHANGED <<next_pid, children>>
  BY <1>9 DEF IInv, TypeOK, treeVars
<1>11. \/ UNCHANGED <<pstate, lock_addr, sched>>
       \/ \E w \in Pid : pstate[w] = "WaitLock" /\ WakeUp(w)
  BY DEF SyscallSemSignal, SyscallLockRelease, Waiters
<1>12. /\ pstate' \in [Pid -> Status] /\ lock_addr' \in [Pid -> SyncId]
       /\ \A q \in Pid : pstate'[q] = "Free" <=> pstate[q] = "Free"
       /\ sched' \in SchedulerState /\ Exclusive(sched')
  <2>1. CASE UNCHANGED <<pstate, lock_addr, sched>>
    BY <1>2, <2>1
  <2>2. ASSUME NEW w \in Pid, pstate[w] = "WaitLock", WakeUp(w)
        PROVE  /\ pstate' \in [Pid -> Status] /\ lock_addr' \in [Pid -> SyncId]
               /\ \A q \in Pid : pstate'[q] = "Free" <=> pstate[q] = "Free"
               /\ sched' \in SchedulerState /\ Exclusive(sched')
    <3>1. sched' \in SchedulerState /\ Exclusive(sched')
      BY <1>2, <2>2, ReadySound DEF WakeUp
    <3>2. pstate' = [pstate EXCEPT ![w] = "Ready"] /\ lock_addr' = [lock_addr EXCEPT ![w] = 0]
      BY <2>2 DEF WakeUp
    <3> QED
      BY <1>2, <2>2, <3>1, <3>2, Constants DEF Status
  <2> QED
    BY <1>11, <2>1, <2>2
<1> QED
  BY <1>2, <1>4, <1>5, <1>6, <1>7, <1>8, <1>10, <1>12, Keeps

\* Semaphores and mutexes that are created get a place in their maps.
LEMMA CreateSound ==
    ASSUME IInv, (\E v \in Nat : CreateSemaphore(v)) \/ CreateMutex
    PROVE  /\ sem' \in [SyncId -> Nat] /\ nsem' \in Nat
           /\ mutex' \in [SyncId -> Pid \cup {NoPid}] /\ nmutex' \in Nat
<1>1. /\ sem \in [SyncId -> Nat] /\ nsem \in Nat
      /\ mutex \in [SyncId -> Pid \cup {NoPid}] /\ nmutex \in Nat
  BY DEF IInv, TypeOK
<1> QED
  BY <1>1 DEF CreateSemaphore, CreateMutex

\* sem_create and lock_create.
LEMMA SyscallCreateIInv ==
    ASSUME IInv, NEW p \in Pid, SyscallCreate(p)
    PROVE  IInv'
<1>1. Executing(p, "create") /\ Stepped(p, FALSE)
  BY DEF SyscallCreate
<1>2. UNCHANGED <<procVars, sched, last, treeVars, waiting, cs>>
  BY DEF SyscallCreate
<1>3. /\ tick' \in TickState /\ ran' \in [CPU -> Pid \cup {NoPid}]
      /\ tick'.pid = p /\ cpu[p] = "live"
  BY <1>1, SteppedSound
<1>4. SlotSound'
  BY <1>2, <1>3 DEF SlotSound, procVars
<1>5. /\ sem' \in [SyncId -> Nat] /\ nsem' \in Nat
      /\ mutex' \in [SyncId -> Pid \cup {NoPid}] /\ nmutex' \in Nat
  BY CreateSound DEF SyscallCreate
<1> QED
  BY <1>2, <1>3, <1>4, <1>5, Keeps DEF IInv, TypeOK, OneCpuPerPid, procVars, treeVars

-----------------------------------------------------------------------------
(* Steps that hand out pids *)

\* A step that hands out the pids from next_pid on keeps IInv if it leaves
\* the older entries alone and gives each new process its CPU.
LEMMA Grows ==
    ASSUME IInv,
           pstate' \in [Pid -> Status], cpu' \in [Pid -> CpuState],
           sched' \in SchedulerState, Exclusive(sched'), loaded' \subseteq Pid,
           cs' \in [Pid -> Section], tick' \in TickState, ran' \in [CPU -> Pid \cup {NoPid}],
           UNCHANGED <<lock_addr, last, waiting, syncVars>>,
           next_pid' \in Pid \cup {LastPid + 1}, next_pid' > next_pid,
           children' \in [Pid -> SUBSET Pid], \A p \in Pid : InitPid \notin children'[p],
           SlotSound',
           \A p \in Pid : p < next_pid => pstate'[p] = pstate[p] /\ cpu'[p] = cpu[p],
           \A p \in Pid : p >= next_pid /\ pstate'[p] # "Free" => cpu'[p] # "none",
           \A p \in Pid : p >= next_pid' => pstate'[p] = "Free" /\ cpu'[p] = "none"
    PROVE  IInv'
<1>1. TypeOK'
  BY DEF IInv, TypeOK, syncVars
<1>2. InitPid \in Pid /\ InitPid < next_pid /\ InTable(InitPid)
  BY Constants DEF IInv, InitIsRoot, InitStaysInTable, InitPid
<1>3. InitStaysInTable'
  BY <1>2 DEF InitStaysInTable, InTable
<1>4. next_pid \in Nat /\ next_pid' \in Nat /\ Pid \subseteq Nat
  BY Constants DEF IInv, TypeOK
<1>5. TableHasCpu'
  <2> SUFFICES ASSUME NEW p \in Pid
               PROVE  /\ pstate'[p] # "Free" => cpu'[p] # "none"
                      /\ p >= next_pid' => pstate'[p] = "Free" /\ cpu'[p] = "none"
    BY DEF TableHasCpu, InTable
  <2>1. CASE p < next_pid
    <3>1. pstate[p] # "Free" => cpu[p] # "none"
      BY DEF IInv, TableHasCpu, InTable
    <3> QED
      BY <2>1, <3>1
  <2>2. CASE p >= next_pid
    BY <2>2
  <2> QED
    BY <1>4, <2>1, <2>2
<1>6. InitIsRoot'
  BY <1>2, <1>4 DEF InitIsRoot, InitPid
<1> QED
  BY <1>1, <1>3, <1>5, <1>6 DEF IInv, OneCpuPerPid

\* The pid to be handed out next has neither table entry nor CPU.
LEMMA NextPidFresh ==
    ASSUME IInv, next_pid \in Pid
    PROVE  /\ next_pid + 1 \in Pid \cup {LastPid + 1}
           /\ next_pid \in Nat /\ Pid \subseteq Nat
           /\ next_pid # InitPid
           /\ \A p \in Pid : p >= next_pid => pstate[p] = "Free" /\ cpu[p] = "none"
<1>1. next_pid + 1 \in Pid \cup {LastPid + 1} /\ next_pid \in Nat /\ Pid \subseteq Nat
  BY Constants
<1>2. next_pid # InitPid
  BY <1>1 DEF IInv, InitIsRoot, InitPid
<1>3. \A p \in Pid : p >= next_pid => pstate[p] = "Free" /\ cpu[p] = "none"
  BY DEF IInv, TableHasCpu, InTable
<1> QED
  BY <1>1, <1>2, <1>3

\* A pid handed out and nothing else: a fork that hangs or fails.
LEMMA SpentPidIInv ==
    ASSUME IInv, next_pid \in Pid, next_pid' = next_pid + 1,
           tick' \in TickState, ran' \in [CPU -> Pid \cup {NoPid}], SlotSound',
           UNCHANGED <<procVars, sched, last, loaded, children, waiting, syncVars, cs>>
    PROVE  IInv'
<1>1. /\ pstate' = pstate /\ cpu' = cpu /\ children' = children
      /\ UNCHANGED <<lock_addr, last, waiting, syncVars>>
  BY DEF procVars
<1>2. /\ pstate' \in [Pid -> Status] /\ cpu' \in [Pid -> CpuState]
      /\ sched' \in SchedulerState /\ Exclusive(sched') /\ loaded' \subseteq Pid
      /\ cs' \in [Pid -> Section] /\ children' \in [Pid -> SUBSET Pid]
      /\ \A p \in Pid : InitPid \notin children'[p]
  BY <1>1 DEF IInv, TypeOK, OneCpuPerPid, InitIsRoot
<1>3. next_pid' \in Pid \cup {LastPid + 1} /\ next_pid' > next_pid
  BY NextPidFresh
<1>4. /\ \A p \in Pid : p >= next_pid /\ pstate'[p] # "Free" => cpu'[p] # "none"
      /\ \A p \in Pid : p >= next_pid' => pstate'[p] = "Free" /\ cpu'[p] = "none"
  <2>1. \A p \in Pid : p >= next_pid' => p >= next_pid
    BY NextPidFresh
  <2> QED
    BY <1>1, <2>1, NextPidFresh
<1> QED
  BY <1>1, <1>2, <1>3, <1>4, Grows

\* The fork system call spends a pid and hangs, or returns.
LEMMA SyscallForkIInv ==
    ASSUME IInv, NEW p \in Pid, SyscallFork(p)
    PROVE  IInv'
<1>1. Executing(p, "fork")
  BY DEF SyscallFork
<1>2. UNCHANGED <<procVars, sched, last, loaded, children, waiting, syncVars, cs>>
  BY DEF SyscallFork
<1>3. Hang \/ Stepped(p, FALSE)
  BY DEF SyscallFork
<1>4. tick' \in TickState /\ ran' \in [CPU -> Pid \cup {NoPid}] /\ SlotSound'
  <2>1. CASE Stepped(p, FALSE)
    <3>1. /\ tick' \in TickState /\ ran' \in [CPU -> Pid \cup {NoPid}]
          /\ tick'.pid = p /\ cpu[p] = "live"
      BY <1>1, <2>1, SteppedSound
    <3> QED
      BY <1>2, <3>1 DEF SlotSound, procVars
  <2>2. CASE Hang
    BY <2>2, HangSound
  <2> QED
    BY <1>3, <2>1, <2>2
<1>5. (next_pid \in Pid /\ next_pid' = next_pid + 1) \/ next_pid' = next_pid
  BY DEF SyscallFork
<1>6. CASE next_pid' = next_pid
  BY <1>2, <1>4, <1>6, SlotOnly DEF treeVars
<1> QED
  BY <1>2, <1>4, <1>5, <1>6, SpentPidIInv

\* Every instruction keeps the invariant.
LEMMA InstructionIInv == IInv /\ Instruction => IInv'
<1> SUFFICES ASSUME IInv, Instruction
             PROVE  IInv'
  OBVIOUS
<1>1. SemIds \subseteq SyncId /\ LockIds \subseteq SyncId
  BY ServiceAssumption
<1>2. PICK p \in Pid :
        \/ Plain(p) \/ Halt(p) \/ SyscallExit(p) \/ SyscallCreate(p)
        \/ SyscallFork(p) \/ SyscallExec(p) \/ (p = InitPid /\ FaultInit)
        \/ \E i \in SemIds : SyscallSemWait(p, i) \/ SyscallSemSignal(p, i)
        \/ \E i \in LockIds : SyscallLockAcquire(p, i) \/ SyscallLockRelease(p, i)
  BY DEF Instruction
<1>3. CASE Plain(p) \/ SyscallExec(p) \/ (p = InitPid /\ FaultInit)
  BY <1>3, PlainIInv
<1>4. CASE Halt(p) \/ SyscallExit(p)
  BY <1>4, StopIInv
<1>5. CASE SyscallCreate(p)
  BY <1>5, SyscallCreateIInv
<1>6. CASE SyscallFork(p)
  BY <1>6, SyscallForkIInv
<1>7. ASSUME NEW i \in SyncId, SyscallSemWait(p, i) \/ SyscallLockAcquire(p, i)
      PROVE  IInv'
  BY <1>7, AcquireIInv
<1>8. ASSUME NEW i \in SyncId, SyscallSemSignal(p, i) \/ SyscallLockRelease(p, i)
      PROVE  IInv'
  BY <1>8, ReleaseIInv
<1> QED
  BY <1>1, <1>2, <1>3, <1>4, <1>5, <1>6, <1>7, <1>8

-----------------------------------------------------------------------------
(* Requests *)

\* A request leaves the slot of the timer interrupt alone.
LEMMA ServingSound ==
    ASSUME IInv, NEW k, Serving(k)
    PROVE  /\ tick' \in TickState /\ ran' \in [CPU -> Pid \cup {NoPid}]
           /\ last' \in [CPU -> Pid \cup {NoPid}] /\ last' = last
           /\ SlotSound'
<1>1. tick' = tick /\ ran' = ran /\ last' = last /\ tick.phase = "idle"
  BY DEF Serving, Idle
<1> QED
  BY <1>1 DEF IInv, TypeOK, SlotSound

\* Requests that assign a state, wake or block a process, or only schedule:
\* table, scheduler and synchronisation objects change, entries do not.
LEMMA RequestKeeps ==
    ASSUME IInv, NEW k, Serving(k),
           pstate' \in [Pid -> Status], lock_addr' \in [Pid -> SyncId], cpu' \in [Pid -> CpuState],
           sched' \in SchedulerState, Exclusive(sched'),
           loaded' \subseteq Pid, waiting' \in [Pid -> Nat],
           sem' \in [SyncId -> Nat], nsem' \in Nat,
           mutex' \in [SyncId -> Pid \cup {NoPid}], nmutex' \in Nat,
           cs' \in [Pid -> Section],
           UNCHANGED <<next_pid, children>>,
           \A p \in Pid : pstate'[p] = "Free" <=> pstate[p] = "Free",
           \A p \in Pid : cpu'[p] = "none" <=> cpu[p] = "none"
    PROVE  IInv'
  BY ServingSound, Keeps

\* Kill, Stop and Continue: a new state for a process of the table, and for
\* Kill the release of semaphore 0 and mutex 0.
LEMMA SignalIInv ==
    ASSUME IInv, NEW p \in Pid, Kill(p) \/ Stop(p) \/ Continue(p)
    PROVE  IInv'
<1>1. PICK k : Serving(k)
  BY DEF Kill, Stop, Continue
<1>2. /\ pstate \in [Pid -> Status] /\ cpu \in [Pid -> CpuState] /\ lock_addr \in [Pid -> SyncId]
      /\ sched \in SchedulerState /\ Exclusive(sched) /\ loaded \subseteq Pid
      /\ waiting \in [Pid -> Nat] /\ sem \in [SyncId -> Nat] /\ nsem \in Nat
      /\ mutex \in [SyncId -> Pid \cup {NoPid}] /\ nmutex \in Nat /\ cs \in [Pid -> Section]
  BY DEF IInv, TypeOK, OneCpuPerPid
<1>3. /\ pstate[p] # "Free"
      /\ \/ pstate' = [pstate EXCEPT ![p] = "Zombie"]
         \/ pstate' = [pstate EXCEPT ![p] = "WaitIo"]
         \/ pstate' = [pstate EXCEPT ![p] = "Ready"]
      /\ lock_addr' = [lock_addr EXCEPT ![p] = 0]
  BY DEF Kill, Stop, Continue, InTable
<1>4. /\ UNCHANGED <<cpu, sched, treeVars, waiting, nsem, nmutex, cs>>
      /\ sem' = sem \/ sem' = [sem EXCEPT ![0] = 1]
      /\ mutex' = mutex \/ mutex' = [mutex EXCEPT ![0] = NoPid]
  BY DEF Kill, Stop, Continue, ReleaseSem0, ReleaseMutex0, syncVars
<1>5. /\ pstate' \in [Pid -> Status] /\ lock_addr' \in [Pid -> SyncId]
      /\ \A q \in Pid : pstate'[q] = "Free" <=> pstate[q] = "Free"
  BY <1>2, <1>3, Constants DEF Status
<1>6. sem' \in [SyncId -> Nat] /\ mutex' \in [SyncId -> Pid \cup {NoPid}]
  <2>1. 0 \in SyncId /\ 1 \in Nat
    BY Constants
  <2>2. sem' \in [SyncId -> Nat]
    BY <1>2, <1>4, <2>1
  <2>3. mutex' \in [SyncId -> Pid \cup {NoPid}]
    BY <1>2, <1>4, <2>1
  <2> QED
    BY <2>2, <2>3
<1> QED
  BY <1>1, <1>2, <1>4, <1>5, <1>6, RequestKeeps DEF treeVars

\* Block, Unblock, Schedule and ContextSwitch.
LEMMA ScheduleRequestIInv ==
    ASSUME IInv, NEW p \in Pid, NEW to \in Pid,
           Block(p) \/ Unblock(p) \/ Schedule(p) \/ ContextSwitch(p, to)
    PROVE  IInv'
<1>1. PICK k : Serving(k)
  BY DEF Block, Unblock, Schedule, ContextSwitch
<1>2. /\ pstate \in [Pid -> Status] /\ cpu \in [Pid -> CpuState] /\ lock_addr \in [Pid -> SyncId]
      /\ sched \in SchedulerState /\ Exclusive(sched) /\ loaded \subseteq Pid
      /\ waiting \in [Pid -> Nat] /\ sem \in [SyncId -> Nat] /\ nsem \in Nat
      /\ mutex \in [SyncId -> Pid \cup {NoPid}] /\ nmutex \in Nat /\ cs \in [Pid -> Section]
  BY DEF IInv, TypeOK, OneCpuPerPid
<1>3. UNCHANGED <<cpu, treeVars, waiting, syncVars, cs>>
  BY DEF Block, Unblock, Schedule, ContextSwitch, procVars
<1>4. \/ sched' = remove(sched, p)
      \/ sched' = ready(sched, p)
      \/ sched' = ready(remove(sched, p), to)
  BY DEF Block, Blocked, Unblock, Schedule, ContextSwitch
<1>5. sched' \in SchedulerState /\ Exclusive(sched')
  <2>1. remove(sched, p) \in SchedulerState /\ Exclusive(remove(sched, p))
    BY <1>2, RemoveType, RemoveExclusive
  <2> QED
    BY <1>2, <1>4, <2>1, ReadySound
<1>6. /\ pstate' = pstate \/ pstate' = WithState(p, "WaitIo") \/ pstate' = WithState(p, "Ready")
      /\ lock_addr' = lock_addr \/ lock_addr' = WithAddr(p, 0)
  BY DEF Block, Blocked, Unblock, Schedule, ContextSwitch, procVars
<1>7. /\ pstate' \in [Pid -> Status] /\ lock_addr' \in [Pid -> SyncId]
      /\ \A q \in Pid : pstate'[q] = "Free" <=> pstate[q] = "Free"
  <2>1. /\ "WaitIo" \in Status \ {"Free"} /\ "Ready" \in Status \ {"Free"}
        /\ 0 \in SyncId
    BY Constants DEF Status
  <2>2. /\ WithState(p, "WaitIo") \in [Pid -> Status] /\ WithAddr(p, 0) \in [Pid -> SyncId]
        /\ \A q \in Pid : WithState(p, "WaitIo")[q] = "Free" <=> pstate[q] = "Free"
    BY <2>1, Assigned
  <2>3. /\ WithState(p, "Ready") \in [Pid -> Status]
        /\ \A q \in Pid : WithState(p, "Ready")[q] = "Free" <=> pstate[q] = "Free"
    BY <2>1, Assigned
  <2> QED
    BY <1>2, <1>6, <2>2, <2>3
<1> QED
  BY <1>1, <1>2, <1>3, <1>5, <1>7, RequestKeeps DEF treeVars, syncVars

\* The semaphore and lock requests.
LEMMA SyncRequestIInv ==
    ASSUME IInv, NEW p \in Pid, NEW i \in SyncId,
           \/ RequestSemWait(p, i) \/ RequestSemSignal(i)
           \/ RequestLockAcquire(p, i) \/ RequestLockRelease(p, i)
    PROVE  IInv'
<1>1. PICK k : Serving(k)
  BY DEF RequestSemWait, RequestSemSignal, RequestLockAcquire, RequestLockRelease
<1>2. /\ pstate \in [Pid -> Status] /\ cpu \in [Pid -> CpuState] /\ lock_addr \in [Pid -> SyncId]
      /\ sched \in SchedulerState /\ Exclusive(sched) /\ loaded \subseteq Pid
      /\ waiting \in [Pid -> Nat] /\ sem \in [SyncId -> Nat] /\ nsem \in Nat
      /\ mutex \in [SyncId -> Pid \cup {NoPid}] /\ nmutex \in Nat /\ cs \in [Pid -> Section]
  BY DEF IInv, TypeOK, OneCpuPerPid
<1>3. UNCHANGED <<cpu, treeVars, waiting, nsem, nmutex, cs>>
  BY DEF RequestSemWait, RequestSemSignal, RequestLockAcquire, RequestLockRelease, procVars
<1>4. Blocked(p) \/ UNCHANGED <<sched, pstate, lock_addr>>
  BY DEF RequestSemWait, RequestSemSignal, RequestLockAcquire, RequestLockRelease, procVars
<1>5. sched' \in SchedulerState /\ Exclusive(sched')
  BY <1>2, <1>4, RemoveType, RemoveExclusive DEF Blocked
<1>6. /\ pstate' \in [Pid -> Status] /\ lock_addr' \in [Pid -> SyncId]
      /\ \A q \in Pid : pstate'[q] = "Free" <=> pstate[q] = "Free"
  <2>1. "WaitIo" \in Status \ {"Free"} /\ 0 \in SyncId
    BY Constants DEF Status
  <2>2. /\ WithState(p, "WaitIo") \in [Pid -> Status] /\ WithAddr(p, 0) \in [Pid -> SyncId]
        /\ \A q \in Pid : WithState(p, "WaitIo")[q] = "Free" <=> pstate[q] = "Free"
    BY <2>1, Assigned
  <2>3. \/ UNCHANGED <<pstate, lock_addr>>
        \/ pstate' = WithState(p, "WaitIo") /\ lock_addr' = WithAddr(p, 0)
    BY <1>4 DEF Blocked
  <2> QED
    BY <1>2, <2>2, <2>3
<1>7. sem' \in [SyncId -> Nat]
  <2>1. \/ sem' = sem
        \/ sem[i] > 0 /\ sem' = [sem EXCEPT ![i] = sem[i] - 1]
        \/ sem' = [sem EXCEPT ![i] = sem[i] + 1]
    BY DEF RequestSemWait, RequestSemSignal, RequestLockAcquire, RequestLockRelease
  <2>2. sem[i] + 1 \in Nat /\ (sem[i] > 0 => sem[i] - 1 \in Nat)
    BY <1>2
  <2> QED
    BY <1>2, <2>1, <2>2
<1>8. mutex' \in [SyncId -> Pid \cup {NoPid}]
  <2>1. \/ mutex' = mutex
        \/ mutex' = [mutex EXCEPT ![i] = p]
        \/ mutex' = [mutex EXCEPT ![i] = NoPid]
    BY DEF RequestSemWait, RequestSemSignal, RequestLockAcquire, RequestLockRelease, Released
  <2> QED
    BY <1>2, <2>1
<1> QED
  BY <1>1, <1>2, <1>3, <1>5, <1>6, <1>7, <1>8, RequestKeeps DEF treeVars

\* The two Create requests.
LEMMA RequestCreateIInv == IInv /\ RequestCreate => IInv'
<1> SUFFICES ASSUME IInv, RequestCreate
             PROVE  IInv'
  OBVIOUS
<1>1. Serving("create") /\ UNCHANGED <<procVars, sched, treeVars, waiting, cs>>
  BY DEF RequestCreate
<1>2. (\E v \in Nat : CreateSemaphore(v)) \/ CreateMutex
  BY ServiceAssumption DEF RequestCreate
<1>3. /\ sem' \in [SyncId -> Nat] /\ nsem' \in Nat
      /\ mutex' \in [SyncId -> Pid \cup {NoPid}] /\ nmutex' \in Nat
  BY <1>2, CreateSound
<1> QED
  BY <1>1, <1>3, RequestKeeps DEF IInv, TypeOK, OneCpuPerPid, procVars, treeVars


\* Exec: the process restarts with a fresh CPU.
LEMMA ExecIInv ==
    ASSUME IInv, NEW p \in Pid, Exec(p)
    PROVE  IInv'
<1>1. PICK k : Serving(k)
  BY DEF Exec
<1>2. /\ pstate \in [Pid -> Status] /\ cpu \in [Pid -> CpuState] /\ lock_addr \in [Pid -> SyncId]
      /\ sched \in SchedulerState /\ Exclusive(sched) /\ loaded \subseteq Pid
      /\ waiting \in [Pid -> Nat] /\ sem \in [SyncId -> Nat] /\ nsem \in Nat
      /\ mutex \in [SyncId -> Pid \cup {NoPid}] /\ nmutex \in Nat /\ cs \in [Pid -> Section]
  BY DEF IInv, TypeOK, OneCpuPerPid
<1>3. /\ pstate' = [pstate EXCEPT ![p] = "Ready"] /\ lock_addr' = [lock_addr EXCEPT ![p] = 0]
      /\ cpu' = [cpu EXCEPT ![p] = "live"] /\ sched' = ready(sched, p)
      /\ loaded' = loaded \cup {p} /\ cs' = [cs EXCEPT ![p] = Outside]
      /\ UNCHANGED <<next_pid, children, waiting, syncVars>>
  BY DEF Exec
<1>4. pstate[p] # "Free" /\ cpu[p] # "none"
  BY DEF Exec, InTable, IInv, TableHasCpu
<1>5. sched' \in SchedulerState /\ Exclusive(sched')
  BY <1>2, <1>3, ReadySound
<1>6. /\ pstate' \in [Pid -> Status] /\ cpu' \in [Pid -> CpuState]
      /\ \A q \in Pid : pstate'[q] = "Free" <=> pstate[q] = "Free"
      /\ \A q \in Pid : cpu'[q] = "none" <=> cpu[q] = "none"
  BY <1>2, <1>3, <1>4 DEF Status, CpuState
<1>7. lock_addr' \in [Pid -> SyncId] /\ cs' \in [Pid -> Section] /\ loaded' \subseteq Pid
  BY <1>2, <1>3, Constants DEF Section, Outside
<1> QED
  BY <1>1, <1>2, <1>3, <1>5, <1>6, <1>7, RequestKeeps DEF syncVars

\* Wait: the zombie it takes out of the table is not init, because init is
\* nobody's child.
LEMMA WaitChildIInv ==
    ASSUME IInv, NEW p \in Pid, WaitChild(p)
    PROVE  IInv'
<1>1. Serving("wait") /\ UNCHANGED <<lock_addr, cpu, treeVars, syncVars, cs>>
  BY DEF WaitChild
<1>2. /\ pstate \in [Pid -> Status] /\ cpu \in [Pid -> CpuState] /\ lock_addr \in [Pid -> SyncId]
      /\ sched \in SchedulerState /\ Exclusive(sched) /\ loaded \subseteq Pid
      /\ waiting \in [Pid -> Nat] /\ sem \in [SyncId -> Nat] /\ nsem \in Nat
      /\ mutex \in [SyncId -> Pid \cup {NoPid}] /\ nmutex \in Nat /\ cs \in [Pid -> Section]
  BY DEF IInv, TypeOK, OneCpuPerPid
<1>3. p # InitPid
  BY DEF WaitChild, IInv, InitIsRoot
<1>4. CASE waiting' = [waiting EXCEPT ![p] = waiting[p] + 1] /\ UNCHANGED <<sched, pstate>>
  <2>1. waiting[p] + 1 \in Nat
    BY <1>2
  <2>2. waiting' \in [Pid -> Nat]
    BY <1>2, <1>4, <2>1
  <2> QED
    BY <1>1, <1>2, <1>4, <2>2, RequestKeeps DEF treeVars, syncVars
<1>5. CASE sched' = remove(sched, p) /\ pstate' = [pstate EXCEPT ![p] = "Free"] /\ UNCHANGED waiting
  <2>1. sched' \in SchedulerState /\ Exclusive(sched')
    BY <1>2, <1>5, RemoveType, RemoveExclusive
  <2>2. pstate' \in [Pid -> Status]
    BY <1>2, <1>5 DEF Status
  <2>3. tick' \in TickState /\ ran' \in [CPU -> Pid \cup {NoPid}] /\ last' = last /\ SlotSound'
    BY <1>1, ServingSound
  <2>4. TypeOK'
    BY <1>1, <1>5, <2>1, <2>2, <2>3 DEF IInv, TypeOK, treeVars, syncVars
  <2>5. \A q \in Pid : pstate'[q] = pstate[q] \/ pstate'[q] = "Free"
    BY <1>2, <1>5
  <2>6. TableHasCpu'
    BY <1>1, <2>5 DEF IInv, TableHasCpu, InTable, treeVars
  <2>7. InitStaysInTable'
    BY <1>2, <1>3, <1>5, Constants DEF IInv, InitStaysInTable, InTable
  <2> QED
    BY <1>1, <2>1, <2>3, <2>4, <2>6, <2>7 DEF IInv, OneCpuPerPid, InitIsRoot, treeVars
<1> QED
  BY <1>4, <1>5 DEF WaitChild

\* One new process: fork, spawn, and a spawn whose program cannot be loaded.
LEMMA OneProcessIInv ==
    ASSUME IInv, Spawn \/ SpawnFails \/ \E parent \in Pid : Fork(parent)
    PROVE  IInv'
<1> DEFINE n == next_pid
<1>1. PICK k : Serving(k)
  BY DEF Spawn, SpawnFails, Fork
<1>2. n \in Pid /\ (NewProcess(n, "Ready") \/ NewProcess(n, "Creating"))
  BY DEF Spawn, SpawnFails, Fork
<1>3. /\ pstate \in [Pid -> Status] /\ cpu \in [Pid -> CpuState]
      /\ sched \in SchedulerState /\ Exclusive(sched) /\ loaded \subseteq Pid
      /\ children \in [Pid -> SUBSET Pid] /\ cs \in [Pid -> Section]
  BY DEF IInv, TypeOK, OneCpuPerPid
<1>4. /\ n + 1 \in Pid \cup {LastPid + 1} /\ n \in Nat /\ Pid \subseteq Nat /\ n # InitPid
      /\ \A p \in Pid : p >= n => pstate[p] = "Free" /\ cpu[p] = "none"
  BY <1>2, NextPidFresh
<1>5. /\ pstate' = [pstate EXCEPT ![n] = "Ready"] \/ pstate' = [pstate EXCEPT ![n] = "Creating"]
      /\ cpu' = [cpu EXCEPT ![n] = "live"] /\ next_pid' = n + 1
  BY <1>2 DEF NewProcess
<1>6. /\ sched' = sched \/ sched' = ready(sched, n)
      /\ loaded' = loaded \/ loaded' = loaded \cup {n}
      /\ UNCHANGED <<lock_addr, waiting, syncVars>>
  BY DEF Spawn, SpawnFails, Fork
<1>7. sched' \in SchedulerState /\ Exclusive(sched') /\ loaded' \subseteq Pid
  BY <1>2, <1>3, <1>6, ReadySound
<1>8. pstate' \in [Pid -> Status] /\ cpu' \in [Pid -> CpuState]
  BY <1>2, <1>3, <1>5 DEF Status, CpuState
<1>9. \/ UNCHANGED <<children, cs>>
      \/ \E parent \in Pid : /\ children' = [children EXCEPT ![parent] = @ \cup {n}]
                             /\ cs' = [cs EXCEPT ![n] = cs[parent]]
  BY DEF Spawn, SpawnFails, Fork
<1>10. /\ cs' \in [Pid -> Section] /\ children' \in [Pid -> SUBSET Pid]
       /\ \A p \in Pid : InitPid \notin children'[p]
  <2>1. \A p \in Pid : InitPid \notin children[p]
    BY DEF IInv, InitIsRoot
  <2>2. CASE UNCHANGED <<children, cs>>
    BY <1>3, <2>1, <2>2
  <2>3. ASSUME NEW parent \in Pid, children' = [children EXCEPT ![parent] = @ \cup {n}],
               cs' = [cs EXCEPT ![n] = cs[parent]]
        PROVE  /\ cs' \in [Pid -> Section] /\ children' \in [Pid -> SUBSET Pid]
               /\ \A p \in Pid : InitPid \notin children'[p]
    <3>1. cs' \in [Pid -> Section]
      BY <1>3, <2>3
    <3>2. children' \in [Pid -> SUBSET Pid]
      BY <1>2, <1>3, <2>3
    <3>3. \A p \in Pid : children'[p] \subseteq children[p] \cup {n}
      BY <1>3, <2>3
    <3> QED
      BY <1>4, <2>1, <3>1, <3>2, <3>3
  <2> QED
    BY <1>9, <2>2, <2>3
<1>11. \A p \in Pid : p # n => pstate'[p] = pstate[p] /\ cpu'[p] = cpu[p]
  BY <1>3, <1>5
<1>12. cpu'[n] = "live"
  BY <1>2, <1>3, <1>5
<1>13. /\ \A p \in Pid : p < n => pstate'[p] = pstate[p] /\ cpu'[p] = cpu[p]
       /\ \A p \in Pid : p >= n /\ pstate'[p] # "Free" => cpu'[p] # "none"
       /\ \A p \in Pid : p >= next_pid' => pstate'[p] = "Free" /\ cpu'[p] = "none"
  <2>1. \A p \in Pid : (p < n => p # n) /\ (p >= next_pid' => p >= n /\ p # n)
    BY <1>4, <1>5
  <2> QED
    BY <1>4, <1>11, <1>12, <2>1
<1>14. next_pid' > next_pid
  BY <1>4, <1>5
<1>15. tick' \in TickState /\ ran' \in [CPU -> Pid \cup {NoPid}] /\ last' = last /\ SlotSound'
  BY <1>1, ServingSound
<1> QED
  BY <1>4, <1>5, <1>6, <1>7, <1>8, <1>10, <1>13, <1>14, <1>15, Grows


\* The memory service does not answer a fork in time.
LEMMA ForkTimesOutIInv ==
    ASSUME IInv, NEW p \in Pid, ForkTimesOut(p)
    PROVE  IInv'
<1>1. /\ Serving("fork") /\ next_pid \in Pid /\ next_pid' = next_pid + 1
      /\ UNCHANGED <<procVars, sched, loaded, children, waiting, syncVars, cs>>
  BY DEF ForkTimesOut
<1>2. tick' \in TickState /\ ran' \in [CPU -> Pid \cup {NoPid}] /\ last' = last /\ SlotSound'
  BY <1>1, ServingSound
<1> QED
  BY <1>1, <1>2, SpentPidIInv

\* Two new processes in one request.
LEMMA SpawnDualIInv == IInv /\ SpawnDual => IInv'
<1> SUFFICES ASSUME IInv, SpawnDual
             PROVE  IInv'
  OBVIOUS
<1> DEFINE n == next_pid
<1>1. Serving("spawn") /\ n \in Pid /\ n + 1 \in Pid
  BY DEF SpawnDual
<1>2. /\ pstate' = [pstate EXCEPT ![n] = "Ready", ![n + 1] = "Ready"]
      /\ cpu' = [cpu EXCEPT ![n] = "live", ![n + 1] = "live"]
      /\ next_pid' = n + 2
      /\ sched' = ready(ready(sched, n), n + 1)
      /\ loaded' = loaded \cup {n, n + 1}
      /\ UNCHANGED <<lock_addr, children, waiting, syncVars, cs>>
  BY DEF SpawnDual
<1>3. /\ pstate \in [Pid -> Status] /\ cpu \in [Pid -> CpuState]
      /\ sched \in SchedulerState /\ Exclusive(sched) /\ loaded \subseteq Pid
      /\ children \in [Pid -> SUBSET Pid] /\ cs \in [Pid -> Section]
      /\ \A p \in Pid : InitPid \notin children[p]
  BY DEF IInv, TypeOK, OneCpuPerPid, InitIsRoot
<1>4. /\ n \in Nat /\ Pid \subseteq Nat
      /\ \A p \in Pid : p >= n => pstate[p] = "Free" /\ cpu[p] = "none"
  BY <1>1, NextPidFresh
<1>5. n + 2 \in Pid \cup {LastPid + 1} /\ next_pid' > next_pid
  BY <1>1, <1>2, <1>4, Constants
<1>6. sched' \in SchedulerState /\ Exclusive(sched')
  <2>1. ready(sched, n) \in SchedulerState /\ Exclusive(ready(sched, n))
    BY <1>1, <1>3, ReadySound
  <2> QED
    BY <1>1, <1>2, <2>1, ReadySound
<1>7. pstate' \in [Pid -> Status] /\ cpu' \in [Pid -> CpuState] /\ loaded' \subseteq Pid
  BY <1>1, <1>2, <1>3 DEF Status, CpuState
<1>8. /\ \A p \in Pid : p # n /\ p # n + 1 => pstate'[p] = pstate[p] /\ cpu'[p] = cpu[p]
      /\ cpu'[n] = "live" /\ cpu'[n + 1] = "live"
  BY <1>1, <1>2, <1>3
<1>9. /\ \A p \in Pid : p < n => pstate'[p] = pstate[p] /\ cpu'[p] = cpu[p]
      /\ \A p \in Pid : p >= n /\ pstate'[p] # "Free" => cpu'[p] # "none"
      /\ \A p \in Pid : p >= next_pid' => pstate'[p] = "Free" /\ cpu'[p] = "none"
  <2>1. \A p \in Pid : /\ p < n => p # n /\ p # n + 1
                       /\ p >= next_pid' => p >= n /\ p # n /\ p # n + 1
    BY <1>2, <1>4
  <2> QED
    BY <1>4, <1>8, <2>1
<1>10. tick' \in TickState /\ ran' \in [CPU -> Pid \cup {NoPid}] /\ last' = last /\ SlotSound'
  BY <1>1, ServingSound
<1> QED
  BY <1>2, <1>3, <1>5, <1>6, <1>7, <1>9, <1>10, Grows

\* Every request keeps the invariant.
LEMMA RequestIInv == IInv /\ Request => IInv'
<1> SUFFICES ASSUME IInv, Request
             PROVE  IInv'
  OBVIOUS
<1>1. CASE Spawn \/ SpawnFails \/ \E p \in Pid : Fork(p)
  BY <1>1, OneProcessIInv
<1>2. CASE SpawnDual \/ RequestCreate
  BY <1>2, SpawnDualIInv, RequestCreateIInv
<1>3. ASSUME NEW p \in Pid, ForkTimesOut(p) \/ Exec(p) \/ WaitChild(p)
      PROVE  IInv'
  BY <1>3, ForkTimesOutIInv, ExecIInv, WaitChildIInv
<1>4. ASSUME NEW p \in Pid, Kill(p) \/ Stop(p) \/ Continue(p)
      PROVE  IInv'
  BY <1>4, SignalIInv
<1>5. ASSUME NEW p \in Pid, NEW to \in Pid,
             Block(p) \/ Unblock(p) \/ Schedule(p) \/ ContextSwitch(p, to)
      PROVE  IInv'
  BY <1>5, ScheduleRequestIInv
<1>6. ASSUME NEW p \in Pid, NEW i \in SyncId,
             \/ RequestSemWait(p, i) \/ RequestSemSignal(i)
             \/ RequestLockAcquire(p, i) \/ RequestLockRelease(p, i)
      PROVE  IInv'
  BY <1>6, SyncRequestIInv
<1>7. InitPid \in Pid
  BY Constants
<1> QED
  BY <1>1, <1>2, <1>3, <1>4, <1>5, <1>6, <1>7 DEF Request

-----------------------------------------------------------------------------
(* The theorems *)

\* IInv is inductive.
LEMMA NextIInv == IInv /\ [Next]_vars => IInv'
<1> SUFFICES ASSUME IInv, [Next]_vars
             PROVE  IInv'
  OBVIOUS
<1>1. CASE Next
  BY <1>1, TimerIInv, InstructionIInv, RequestIInv DEF Next
<1>2. CASE UNCHANGED vars
  <2>1. SlotSound'
    BY <1>2 DEF IInv, SlotSound, vars
  <2> QED
    BY <1>2, <2>1, SlotOnly DEF IInv, TypeOK, vars, procVars, treeVars, syncVars
<1> QED
  BY <1>1, <1>2

\* The invariant holds throughout every behaviour of the service.
LEMMA AlwaysIInv == Spec => []IInv
  BY InitIInv, NextIInv, PTL DEF Spec

\* The state of the process service keeps its types: in particular no request
\* or instruction pushes a semaphore below zero, a pid past the table or a
\* CPU's tick count past its quantum.
THEOREM ServiceTypeCorrect == Spec => []TypeOK
<1>1. IInv => TypeOK
  BY DEF IInv
<1> QED
  BY <1>1, AlwaysIInv, PTL

\* Whatever clients and programs do, no pid is current on two virtual CPUs
\* (docs/scheduler.md, invariant 1), however many CPUs and processes exist.
THEOREM ServiceNeverOnTwoCpus == Spec => []OneCpuPerPid
<1>1. IInv => OneCpuPerPid
  BY DEF IInv
<1> QED
  BY <1>1, AlwaysIInv, PTL

\* "Init (PID 1) must never die": neither the reaper nor a wait ever takes
\* init out of the process table, not even after a kill has made it a zombie.
THEOREM InitNeverDies == Spec => []InitStaysInTable
<1>1. IInv => InitStaysInTable
  BY DEF IInv
<1> QED
  BY <1>1, AlwaysIInv, PTL

\* Process table and CPU map stay in step through fork, spawn, failed spawns,
\* exec, wait and the reaper: every entry has its CPU, and pids not yet handed
\* out have neither.
THEOREM EveryProcessHasCpu == Spec => []TableHasCpu
<1>1. IInv => TableHasCpu
  BY DEF IInv
<1> QED
  BY <1>1, AlwaysIInv, PTL

-----------------------------------------------------------------------------
(* The scheduler holds exactly the runnable processes *)

\* The requests of well-behaved clients: those that create and load
\* processes, wait for them and use semaphores and mutexes.  (Kill, Stop,
\* Continue, Block, Unblock, Schedule, ContextSwitch and a second exec change
\* a state without the scheduler or the scheduler without the state.)
WellBehaved == Requests \subseteq {"fork", "exec", "spawn", "wait", "sync", "create"}

Awake == {"Ready", "Running"}

\* Process table st, loaded pids ld and scheduler s agree: one entry for each
\* process that can run, none for the others; queued ones are Ready, those on
\* a CPU Running.
Once(st, ld, s) == \A p \in Pid : Entries(s, p) = IF p \in ld /\ st[p] \in Awake THEN 1 ELSE 0
Matched(st, s) == /\ \A p \in InQueue(s) : st[p] = "Ready"
                  /\ \A p \in OnCpu(s) : st[p] = "Running"

\* The CPU whose slot comes next in this interrupt; after the last slot and
\* between two interrupts, the number of CPUs.
Upcoming == IF tick.phase = "idle" THEN Cardinality(CPU)
            ELSE IF tick.phase = "slot" THEN tick.c ELSE tick.c + 1

\* A loaded pid has been handed out; only processes with a program block on a lock.
LoadedKnown == /\ \A p \in loaded : p < next_pid
               /\ \A p \in Pid : pstate[p] = "WaitLock" => p \in loaded

\* The process that executes is the one its CPU runs.
SlotHeld == tick.phase = "exec" => sched.current[tick.c] = tick.pid

\* last_running is the pid a CPU runs, until that pid is taken off it.
LastCurrent == \A c \in CPU : sched.current[c] \in {NoPid, last[c]}

\* A process that blocked on CPU d and now runs on c is still in last[d], but
\* only until the next slot of d, which comes before the next slot of c.
StaleLast ==
    \A c, d \in CPU : c # d /\ sched.current[c] # NoPid /\ last[d] = sched.current[c] =>
        \/ c < Upcoming /\ (d < c \/ d >= Upcoming)
        \/ c >= Upcoming /\ d >= Upcoming /\ d < c

ExactParts == /\ Once(pstate, loaded, sched)
              /\ Matched(pstate, sched)
              /\ LoadedKnown /\ SlotHeld /\ LastCurrent /\ StaleLast

\* The inductive invariant; a service that has hung owes nothing.
ExactInv == tick.phase # "hung" => ExactParts

\* What Once says of the pids the scheduler knows.
LEMMA OnceKnown ==
    ASSUME NEW s \in SchedulerState, NEW st, NEW ld, Once(st, ld, s)
    PROVE  /\ Known(s) \subseteq Pid
           /\ \A p \in Pid : p \in Known(s) <=> p \in ld /\ st[p] \in Awake
           /\ \A p \in OnCpu(s) : p \notin InQueue(s)
<1>1. Known(s) \subseteq Pid /\ OnCpu(s) \subseteq Pid
  BY DEF Known, InQueue, OnCpu, SchedulerState
<1>2. ASSUME NEW p \in Pid
      PROVE  p \in Known(s) <=> p \in ld /\ st[p] \in Awake
  BY <1>2, EntriesKnown DEF Once
<1>3. ASSUME NEW p \in OnCpu(s)
      PROVE  p \notin InQueue(s)
  <2>1. p \in Pid /\ p \in Known(s)
    BY <1>1 DEF Known
  <2>2. Entries(s, p) = 1
    BY <1>2, <2>1 DEF Once
  <2> QED
    BY <2>1, <2>2, EntriesKnown
<1> QED
  BY <1>1, <1>2, <1>3

\* A process that stops being runnable is taken off the scheduler.
LEMMA TakenOff ==
    ASSUME NEW s \in SchedulerState, NEW st, NEW st2, NEW ld, NEW p \in Pid,
           Once(st, ld, s), Matched(st, s),
           st2[p] \notin Awake, \A q \in Pid : q # p => st2[q] = st[q]
    PROVE  Once(st2, ld, remove(s, p)) /\ Matched(st2, remove(s, p))
<1> DEFINE r == remove(s, p)
<1>1. r \in SchedulerState
  BY RemoveType
<1>2. Once(st2, ld, r)
  <2> SUFFICES ASSUME NEW q \in Pid
               PROVE  Entries(r, q) = IF q \in ld /\ st2[q] \in Awake THEN 1 ELSE 0
    BY DEF Once
  <2>1. CASE q = p
    <3>1. Entries(s, p) <= 1
      BY DEF Once
    <3> QED
      BY <2>1, <3>1, RemoveEntries
  <2>2. CASE q # p
    BY <2>2, RemoveEntries DEF Once
  <2> QED
    BY <2>1, <2>2
<1> HIDE DEF r
<1>3. p \notin Known(r)
  BY <1>1, <1>2, OnceKnown
<1>4. r.current = [c \in CPU |-> IF s.current[c] = p THEN NoPid ELSE s.current[c]]
  BY DEF r, remove
<1>5. OnCpu(r) \subseteq OnCpu(s) /\ OnCpu(r) \subseteq Known(r) /\ OnCpu(r) \subseteq Pid
  BY <1>1, <1>4 DEF OnCpu, Known, SchedulerState
<1>6. InQueue(r) \subseteq InQueue(s) /\ InQueue(r) \subseteq Known(r) /\ InQueue(r) \subseteq Pid
  <2>1. s.queue \in Seq(Pid) /\ DOMAIN s.queue = 1 .. Len(s.queue) /\ r.queue \in Seq(Pid)
    BY <1>1 DEF SchedulerState
  <2>2. \/ r.queue = s.queue
        \/ \E i \in 1 .. Len(s.queue) : r.queue = WithoutIndex(s.queue, i)
    BY RemoveCases DEF r
  <2>3. ASSUME NEW i \in 1 .. Len(s.queue), r.queue = WithoutIndex(s.queue, i)
        PROVE  InQueue(r) \subseteq InQueue(s)
    <3> DEFINE v == WithoutIndex(s.queue, i)
    <3>1. {v[k] : k \in DOMAIN v} = {s.queue[k] : k \in 1 .. Len(s.queue) \ {i}}
      BY <2>1, WithoutIndexEntries
    <3>2. r.queue = v
      BY <2>3
    <3> HIDE DEF v
    <3>3. InQueue(r) = {s.queue[k] : k \in 1 .. Len(s.queue) \ {i}}
      BY <3>1, <3>2 DEF InQueue
    <3>4. \A k \in 1 .. Len(s.queue) \ {i} : s.queue[k] \in InQueue(s)
      BY <2>1 DEF InQueue
    <3> QED
      BY <3>3, <3>4
  <2>4. InQueue(r) \subseteq InQueue(s)
    BY <2>2, <2>3 DEF InQueue
  <2>5. InQueue(r) \subseteq Pid
    BY <2>1 DEF InQueue
  <2> QED
    BY <2>4, <2>5 DEF Known
<1>7. Matched(st2, r)
  BY <1>3, <1>5, <1>6 DEF Matched
<1> QED
  BY <1>2, <1>7 DEF r

\* A process that becomes runnable goes into the queue.
LEMMA PutOn ==
    ASSUME NEW s \in SchedulerState, NEW st, NEW st2, NEW ld, NEW p \in Pid,
           Once(st, ld, s), Matched(st, s), p \notin ld \/ st[p] \notin Awake,
           st2[p] = "Ready", \A q \in Pid : q # p => st2[q] = st[q]
    PROVE  Once(st2, ld \cup {p}, ready(s, p)) /\ Matched(st2, ready(s, p))
<1> DEFINE r == ready(s, p)
<1>1. r \in SchedulerState /\ r.current = s.current
  BY ReadyType, ReadyKnown
<1>2. Once(st2, ld \cup {p}, r)
  <2> SUFFICES ASSUME NEW q \in Pid
               PROVE  Entries(r, q) = IF q \in ld \cup {p} /\ st2[q] \in Awake THEN 1 ELSE 0
    BY DEF Once
  <2>1. Entries(r, q) = Entries(s, q) + (IF p = q THEN 1 ELSE 0)
    BY ReadyEntries
  <2> HIDE DEF r
  <2> QED
    BY <2>1 DEF Once, Awake
<1>3. p \notin Known(s) /\ Known(s) \subseteq Pid
  BY OnceKnown
<1>4. OnCpu(r) = OnCpu(s) /\ InQueue(r) \subseteq InQueue(s) \cup {p}
  <2>1. s.queue \in Seq(Pid) /\ DOMAIN s.queue = 1 .. Len(s.queue) /\ r.queue = Append(s.queue, p)
    BY DEF SchedulerState, ready
  <2> HIDE DEF r
  <2>2. \A k \in DOMAIN r.queue : r.queue[k] = p \/ (k \in DOMAIN s.queue /\ r.queue[k] = s.queue[k])
    BY <2>1
  <2> QED
    BY <1>1, <2>2 DEF OnCpu, InQueue
<1> HIDE DEF r
<1>5. Matched(st2, r)
  BY <1>3, <1>4 DEF Matched, Known
<1> QED
  BY <1>2, <1>5 DEF r

\* Steps that leave the scheduler, and the states of those it knows, alone.
LEMMA Undisturbed ==
    ASSUME NEW s \in SchedulerState, NEW st, NEW st2, NEW ld,
           Once(st, ld, s), Matched(st, s),
           \A q \in Pid : q \in ld => st2[q] = st[q] \/ (st[q] \notin Awake /\ st2[q] \notin Awake)
    PROVE  Once(st2, ld, s) /\ Matched(st2, s)
<1>1. Once(st2, ld, s)
  BY DEF Once
<1>2. \A p \in Known(s) : p \in Pid /\ p \in ld /\ st[p] \in Awake
  BY OnceKnown
<1>3. \A p \in Known(s) : st2[p] = st[p]
  BY <1>2
<1> QED
  BY <1>1, <1>3 DEF Matched, Known

\* A service that has just started: init is not scheduled.
LEMMA InitExact == Init => ExactInv
<1> SUFFICES ASSUME Init
             PROVE  ExactParts
  BY DEF ExactInv
<1>1. sched = NewScheduler /\ loaded = {} /\ last = [c \in CPU |-> NoPid] /\ tick = IdleTick
  BY DEF Init
<1>2. sched \in SchedulerState /\ sched.current = [c \in CPU |-> NoPid] /\ sched.queue = <<>>
  BY <1>1, SchedulerAssumption DEF NewScheduler, SchedulerState
<1>3. InQueue(sched) = {} /\ OnCpu(sched) = {}
  BY <1>2 DEF InQueue, OnCpu
<1>4. Once(pstate, loaded, sched)
  BY <1>1, <1>2, <1>3, EntriesKnown DEF Once, Known
<1>5. Matched(pstate, sched)
  BY <1>3 DEF Matched
<1>6. LoadedKnown
  BY <1>1 DEF LoadedKnown, Init
<1> QED
  BY <1>1, <1>2, <1>4, <1>5, <1>6 DEF ExactParts, SlotHeld, LastCurrent, StaleLast, IdleTick

\* A step outside Slot changes no CPU but to take its pid off it.
LEMMA ExactKeeps ==
    ASSUME ExactParts,
           Once(pstate', loaded', sched'), Matched(pstate', sched'), LoadedKnown', SlotHeld',
           \A c \in CPU : sched'.current[c] \in {NoPid, sched.current[c]},
           last' = last, Upcoming' = Upcoming
    PROVE  ExactParts'
<1>1. LastCurrent'
  BY DEF ExactParts, LastCurrent
<1>2. StaleLast'
  <2> SUFFICES ASSUME NEW c \in CPU, NEW d \in CPU, c # d, sched'.current[c] # NoPid,
                      last'[d] = sched'.current[c]
               PROVE  \/ c < Upcoming /\ (d < c \/ d >= Upcoming)
                      \/ c >= Upcoming /\ d >= Upcoming /\ d < c
    BY DEF StaleLast
  <2>1. sched'.current[c] = sched.current[c]
    OBVIOUS
  <2> QED
    BY <2>1 DEF ExactParts, StaleLast
<1> QED
  BY <1>1, <1>2 DEF ExactParts

\* The scheduler's methods outside decisions, with the same conclusion.
LEMMA CurrentKept ==
    ASSUME NEW s \in SchedulerState, NEW p \in Pid, NEW c \in CPU
    PROVE  /\ remove(s, p).current[c] \in {NoPid, s.current[c]}
           /\ ready(s, p).current[c] = s.current[c]
  BY ReadyKnown DEF remove

\* The process that executes is loaded, Running, and on its CPU.
LEMMA ExecutorRuns ==
    ASSUME IInv, ExactParts, tick.phase = "exec"
    PROVE  /\ tick.c \in CPU /\ tick.pid \in Pid /\ tick.pid \in OnCpu(sched)
           /\ tick.pid \in loaded /\ pstate[tick.pid] = "Running"
<1>1. sched \in SchedulerState /\ tick \in TickState /\ tick.pid \in Pid /\ tick.c \in CPU
  BY DEF IInv, TypeOK, SlotSound, TickState
<1>2. tick.pid \in OnCpu(sched)
  BY <1>1, SchedulerAssumption DEF ExactParts, SlotHeld, OnCpu
<1>3. tick.pid \in Known(sched)
  BY <1>2 DEF Known
<1>4. tick.pid \in loaded
  BY <1>1, <1>3, OnceKnown DEF ExactParts
<1> QED
  BY <1>1, <1>2, <1>4 DEF ExactParts, Matched

\* An instruction stays in its slot, unless it hangs the service.
LEMMA SteppedExact ==
    ASSUME IInv, NEW p \in Pid, NEW k, Executing(p, k), NEW h \in BOOLEAN, Stepped(p, h)
    PROVE  /\ Upcoming' = Upcoming /\ tick'.c = tick.c /\ tick'.pid = p /\ tick.pid = p
           /\ tick.phase = "exec" /\ tick.phase # "hung" /\ (h => tick'.phase # "exec")
<1>1. tick \in TickState
  BY DEF IInv, TypeOK
<1>2. tick.phase = "exec" /\ tick.pid = p
  BY DEF Executing
<1>3. \/ tick' = [tick EXCEPT !.phase = "halt"]
      \/ ~h /\ tick' = [tick EXCEPT !.steps = tick.steps + 1]
  BY DEF Stepped
<1>4. tick'.c = tick.c /\ tick'.pid = tick.pid /\ tick'.phase \in {"exec", "halt"} /\ (h => tick'.phase # "exec")
  BY <1>1, <1>2, <1>3 DEF TickState
<1> QED
  BY <1>2, <1>4 DEF Upcoming

\* Instructions that change neither table nor scheduler.
LEMMA QuietInstruction ==
    ASSUME IInv, ExactParts, NEW p \in Pid, NEW k, Executing(p, k), NEW h \in BOOLEAN, Stepped(p, h),
           UNCHANGED <<pstate, loaded, sched, last>>, next_pid' >= next_pid, next_pid' \in Nat
    PROVE  ExactParts'
<1>1. /\ Upcoming' = Upcoming /\ tick'.c = tick.c /\ tick'.pid = p /\ tick.pid = p
      /\ tick.phase = "exec"
  BY SteppedExact
<1>2. SlotHeld'
  BY <1>1 DEF ExactParts, SlotHeld
<1>3. LoadedKnown'
  <2>1. next_pid \in Nat /\ Pid \subseteq Nat /\ loaded \subseteq Pid
    BY Constants DEF IInv, TypeOK
  <2> QED
    BY <2>1 DEF ExactParts, LoadedKnown
<1>4. Once(pstate', loaded', sched') /\ Matched(pstate', sched')
  BY DEF ExactParts
<1> QED
  BY <1>1, <1>2, <1>3, <1>4, ExactKeeps

\* Instructions that end the process or block it.
LEMMA LeavingInstruction ==
    ASSUME IInv, ExactParts, NEW p \in Pid, NEW k, Executing(p, k), Stepped(p, TRUE),
           sched' = remove(sched, p), UNCHANGED <<loaded, last, next_pid>>,
           NEW z \in {"Zombie", "WaitLock"}, pstate' = WithState(p, z)
    PROVE  ExactParts'
<1> DEFINE yes == TRUE
<1>0. yes \in BOOLEAN /\ Stepped(p, yes)
  OBVIOUS
<1> HIDE DEF yes
<1>1. /\ Upcoming' = Upcoming /\ tick.pid = p /\ tick.phase = "exec" /\ (yes => tick'.phase # "exec")
  BY <1>0, SteppedExact
<1>2. SlotHeld'
  BY <1>1 DEF SlotHeld, yes
<1>3. p \in loaded /\ pstate[p] = "Running"
  BY <1>1, ExecutorRuns
<1>4. pstate \in [Pid -> Status] /\ sched \in SchedulerState
  BY DEF IInv, TypeOK
<1>5. pstate' = [pstate EXCEPT ![p] = z]
  BY <1>3 DEF WithState, InTable
<1>6. pstate'[p] \notin Awake /\ \A q \in Pid : q # p => pstate'[q] = pstate[q]
  BY <1>4, <1>5 DEF Awake
<1>7. Once(pstate', loaded', sched') /\ Matched(pstate', sched')
  BY <1>4, <1>6, TakenOff DEF ExactParts
<1>8. LoadedKnown'
  BY <1>3, <1>6 DEF ExactParts, LoadedKnown
<1>9. \A c \in CPU : sched'.current[c] \in {NoPid, sched.current[c]}
  BY <1>4, CurrentKept
<1> QED
  BY <1>1, <1>2, <1>7, <1>8, <1>9, ExactKeeps

\* Instructions that wake a process.
LEMMA WakingInstruction ==
    ASSUME IInv, ExactParts, NEW p \in Pid, NEW k, Executing(p, k), NEW h \in BOOLEAN, Stepped(p, h),
           NEW w \in Pid, pstate[w] = "WaitLock", WakeUp(w), UNCHANGED <<loaded, last, next_pid>>
    PROVE  ExactParts'
<1>1. /\ Upcoming' = Upcoming /\ tick'.c = tick.c /\ tick'.pid = p /\ tick.pid = p
      /\ tick.phase = "exec"
  BY SteppedExact
<1>2. pstate \in [Pid -> Status] /\ sched \in SchedulerState /\ tick.c \in CPU
  BY DEF IInv, TypeOK, TickState
<1>3. pstate' = [pstate EXCEPT ![w] = "Ready"] /\ sched' = ready(sched, w)
  BY DEF WakeUp
<1>4. \A c \in CPU : sched'.current[c] = sched.current[c]
  BY <1>2, <1>3, CurrentKept
<1>5. SlotHeld'
  BY <1>1, <1>2, <1>4 DEF ExactParts, SlotHeld
<1>6. w \in loaded /\ loaded \cup {w} = loaded
  BY DEF ExactParts, LoadedKnown
<1>7. pstate[w] \notin Awake /\ pstate'[w] = "Ready" /\ \A q \in Pid : q # w => pstate'[q] = pstate[q]
  BY <1>2, <1>3 DEF Awake
<1>8. Once(pstate', loaded \cup {w}, sched') /\ Matched(pstate', sched')
  BY <1>2, <1>3, <1>7, PutOn DEF ExactParts
<1>9. LoadedKnown'
  BY <1>7 DEF ExactParts, LoadedKnown
<1>10. Once(pstate', loaded', sched')
  BY <1>6, <1>8
<1> QED
  BY <1>1, <1>4, <1>5, <1>8, <1>9, <1>10, ExactKeeps

\* Every instruction keeps table and scheduler in step.
LEMMA InstructionExact ==
    ASSUME IInv, ExactParts, NEW p \in Pid,
           \/ Plain(p) \/ Halt(p) \/ SyscallExit(p) \/ SyscallCreate(p)
           \/ SyscallFork(p) \/ SyscallExec(p) \/ (p = InitPid /\ FaultInit)
           \/ \E i \in SemIds : SyscallSemWait(p, i) \/ SyscallSemSignal(p, i)
           \/ \E i \in LockIds : SyscallLockAcquire(p, i) \/ SyscallLockRelease(p, i)
    PROVE  ExactInv'
<1> DEFINE yes == TRUE
           no  == FALSE
           stop  == "Zombie"
           block == "WaitLock"
<1>a. next_pid \in Nat /\ next_pid >= next_pid /\ next_pid + 1 >= next_pid /\ next_pid + 1 \in Nat
  BY Constants DEF IInv, TypeOK
<1>c. yes \in BOOLEAN /\ no \in BOOLEAN /\ stop \in {"Zombie", "WaitLock"} /\ block \in {"Zombie", "WaitLock"}
  OBVIOUS
<1>d. Hang => tick'.phase = "hung"
  BY DEF Hang, IInv, TypeOK, TickState
<1>e. SUFFICES ExactParts' \/ tick'.phase = "hung"
  BY DEF ExactInv
<1>1. CASE Plain(p) \/ Halt(p) \/ SyscallCreate(p) \/ SyscallExec(p) \/ (p = InitPid /\ FaultInit)
  <2>1. UNCHANGED <<pstate, loaded, sched, last, next_pid>>
    BY <1>1 DEF Plain, Halt, SyscallCreate, SyscallExec, FaultInit, procVars, treeVars
  <2>2. Hang \/ \E k : Executing(p, k) /\ (Stepped(p, yes) \/ Stepped(p, no))
    BY <1>1 DEF Plain, Halt, SyscallCreate, SyscallExec, FaultInit
  <2> HIDE DEF yes, no
  <2> QED
    BY <1>a, <1>c, <1>d, <2>1, <2>2, QuietInstruction
<1>2. CASE SyscallFork(p)
  <2>1. UNCHANGED <<pstate, loaded, sched, last>> /\ next_pid' \in {next_pid, next_pid + 1}
    BY <1>2 DEF SyscallFork, procVars
  <2>2. Hang \/ \E k : Executing(p, k) /\ Stepped(p, no)
    BY <1>2 DEF SyscallFork
  <2>3. next_pid' >= next_pid /\ next_pid' \in Nat
    BY <1>a, <2>1
  <2> HIDE DEF no
  <2> QED
    BY <1>c, <1>d, <2>1, <2>2, <2>3, QuietInstruction
<1>3. CASE SyscallExit(p)
  <2>1. /\ sched' = remove(sched, p) /\ UNCHANGED <<loaded, last, next_pid>>
        /\ pstate' = WithState(p, stop) /\ \E k : Executing(p, k) /\ Stepped(p, TRUE)
    BY <1>3 DEF SyscallExit, treeVars
  <2> HIDE DEF stop
  <2> QED
    BY <1>c, <2>1, LeavingInstruction
<1>4. ASSUME NEW i, SyscallSemWait(p, i) \/ SyscallLockAcquire(p, i)
      PROVE  ExactParts'
  <2>1. UNCHANGED <<loaded, last, next_pid>> /\ \E k : Executing(p, k)
    BY <1>4 DEF SyscallSemWait, SyscallLockAcquire, treeVars
  <2>2. \/ Stepped(p, no) /\ UNCHANGED <<pstate, sched>>
        \/ Stepped(p, TRUE) /\ sched' = remove(sched, p) /\ pstate' = WithState(p, block)
    BY <1>4 DEF SyscallSemWait, SyscallLockAcquire, BlockOn, procVars
  <2> HIDE DEF no, block
  <2>3. CASE Stepped(p, no) /\ UNCHANGED <<pstate, sched>>
    BY <1>a, <1>c, <2>1, <2>3, QuietInstruction
  <2>4. CASE Stepped(p, TRUE) /\ sched' = remove(sched, p) /\ pstate' = WithState(p, block)
    BY <1>c, <2>1, <2>4, LeavingInstruction
  <2> QED
    BY <2>2, <2>3, <2>4
<1>5. ASSUME NEW i, SyscallSemSignal(p, i) \/ SyscallLockRelease(p, i)
      PROVE  ExactParts' \/ tick'.phase = "hung"
  <2>1. UNCHANGED <<loaded, last, next_pid>> /\ \E k : Executing(p, k)
    BY <1>5 DEF SyscallSemSignal, SyscallLockRelease, treeVars
  <2>2. \/ Hang
        \/ Stepped(p, no) /\ UNCHANGED <<pstate, sched>>
        \/ Stepped(p, no) /\ \E w \in Waiters(i) : WakeUp(w)
    BY <1>5 DEF SyscallSemSignal, SyscallLockRelease
  <2> HIDE DEF no
  <2>3. CASE Stepped(p, no) /\ UNCHANGED <<pstate, sched>>
    BY <1>a, <1>c, <2>1, <2>3, QuietInstruction
  <2>4. CASE Stepped(p, no) /\ \E w \in Waiters(i) : WakeUp(w)
    <3>1. PICK w \in Pid : pstate[w] = "WaitLock" /\ WakeUp(w)
      BY <2>4 DEF Waiters
    <3> QED
      BY <1>c, <2>1, <2>4, <3>1, WakingInstruction
  <2> QED
    BY <1>d, <2>2, <2>3, <2>4
<1> QED
  BY <1>1, <1>2, <1>3, <1>4, <1>5

\* A request leaves the slots alone.
LEMMA ServingExact ==
    ASSUME IInv, NEW k, Serving(k)
    PROVE  /\ tick' = tick /\ last' = last /\ Upcoming' = Upcoming /\ SlotHeld'
           /\ tick.phase = "idle" /\ k \in Requests
<1>1. tick' = tick /\ last' = last /\ tick.phase = "idle" /\ k \in Requests
  BY DEF Serving, Idle
<1> QED
  BY <1>1 DEF Upcoming, SlotHeld

\* The requests that change neither the scheduler nor a loaded process: fork
\* (the child waits for its exec), a spawn without a program, and those that
\* only touch semaphores, mutexes and waiting parents.
LEMMA QuietRequest ==
    ASSUME IInv, ExactParts, NEW k, Serving(k), UNCHANGED <<sched, loaded>>,
           next_pid' >= next_pid, next_pid' \in Nat,
           \A q \in Pid : q < next_pid => pstate'[q] = pstate[q],
           \A q \in Pid : pstate'[q] = "WaitLock" => pstate[q] = "WaitLock"
    PROVE  ExactParts'
<1>1. last' = last /\ Upcoming' = Upcoming /\ SlotHeld'
  BY ServingExact
<1>2. sched \in SchedulerState /\ next_pid \in Nat /\ Pid \subseteq Nat /\ loaded \subseteq Pid
  BY Constants DEF IInv, TypeOK
<1>3. \A q \in Pid : q \in loaded => pstate'[q] = pstate[q]
  BY DEF ExactParts, LoadedKnown
<1>4. Once(pstate', loaded', sched') /\ Matched(pstate', sched')
  BY <1>2, <1>3, Undisturbed DEF ExactParts
<1>5. LoadedKnown'
  BY <1>2 DEF ExactParts, LoadedKnown
<1>6. \A c \in CPU : sched'.current[c] \in {NoPid, sched.current[c]}
  OBVIOUS
<1> QED
  BY <1>1, <1>4, <1>5, <1>6, ExactKeeps

\* The requests that load a program into a process without one: exec and
\* spawn.
LEMMA LoadingRequest ==
    ASSUME IInv, ExactParts, NEW k, Serving(k), NEW p \in Pid,
           p \notin loaded \/ pstate[p] \notin Awake,
           sched' = ready(sched, p), loaded' = loaded \cup {p},
           pstate' = [pstate EXCEPT ![p] = "Ready"],
           next_pid' >= next_pid, next_pid' \in Nat, p < next_pid'
    PROVE  ExactParts'
<1>1. last' = last /\ Upcoming' = Upcoming /\ SlotHeld'
  BY ServingExact
<1>2. /\ sched \in SchedulerState /\ pstate \in [Pid -> Status]
      /\ next_pid \in Nat /\ Pid \subseteq Nat /\ loaded \subseteq Pid
  BY Constants DEF IInv, TypeOK
<1>3. pstate'[p] = "Ready" /\ \A q \in Pid : q # p => pstate'[q] = pstate[q]
  BY <1>2
<1>4. Once(pstate', loaded', sched') /\ Matched(pstate', sched')
  BY <1>2, <1>3, PutOn DEF ExactParts
<1>5. LoadedKnown'
  BY <1>2, <1>3 DEF ExactParts, LoadedKnown
<1>6. \A c \in CPU : sched'.current[c] \in {NoPid, sched.current[c]}
  BY <1>2, CurrentKept
<1> QED
  BY <1>1, <1>4, <1>5, <1>6, ExactKeeps

\* The requests that take a process off the scheduler: a wait that reaps a
\* zombie, and those on a semaphore or mutex that block.
LEMMA LeavingRequest ==
    ASSUME IInv, ExactParts, NEW k, Serving(k), NEW p \in Pid,
           sched' = remove(sched, p), UNCHANGED <<loaded, next_pid>>,
           pstate'[p] \notin Awake \cup {"WaitLock"}, \A q \in Pid : q # p => pstate'[q] = pstate[q]
    PROVE  ExactParts'
<1>1. last' = last /\ Upcoming' = Upcoming /\ SlotHeld'
  BY ServingExact
<1>2. sched \in SchedulerState
  BY DEF IInv, TypeOK
<1>3. pstate'[p] \notin Awake
  OBVIOUS
<1>4. Once(pstate', loaded', sched') /\ Matched(pstate', sched')
  BY <1>2, <1>3, TakenOff DEF ExactParts
<1>5. LoadedKnown'
  BY DEF ExactParts, LoadedKnown
<1>6. \A c \in CPU : sched'.current[c] \in {NoPid, sched.current[c]}
  BY <1>2, CurrentKept
<1> QED
  BY <1>1, <1>4, <1>5, <1>6, ExactKeeps

\* A "dual" program: two processes, one after the other.
LEMMA SpawnDualExact ==
    ASSUME IInv, ExactParts, SpawnDual
    PROVE  ExactParts'
<1> DEFINE n  == next_pid
           m  == next_pid + 1
           s  == ready(sched, n)
           st == [pstate EXCEPT ![n] = "Ready"]
<1>0. n \in Pid /\ m \in Pid
  BY DEF SpawnDual
<1>1. /\ pstate' = [pstate EXCEPT ![n] = "Ready", ![m] = "Ready"]
      /\ sched' = ready(s, m) /\ loaded' = loaded \cup {n, m} /\ next_pid' = n + 2
      /\ Serving("spawn")
  BY DEF SpawnDual
<1>2. /\ sched \in SchedulerState /\ pstate \in [Pid -> Status]
      /\ n \in Nat /\ Pid \subseteq Nat /\ loaded \subseteq Pid
  BY Constants DEF IInv, TypeOK
<1>3. pstate[n] = "Free" /\ pstate[m] = "Free" /\ n # m /\ n < n + 2 /\ m < n + 2
  <2>1. \A p \in Pid : p >= next_pid => pstate[p] = "Free" /\ cpu[p] = "none"
    BY <1>0, NextPidFresh
  <2> QED
    BY <1>0, <1>2, <2>1
<1>4. s \in SchedulerState
  BY <1>0, <1>2, ReadyType
<1>5. /\ st[n] = "Ready" /\ st[m] = "Free" /\ \A q \in Pid : q # n => st[q] = pstate[q]
      /\ pstate'[m] = "Ready" /\ \A q \in Pid : q # m => pstate'[q] = st[q]
      /\ pstate[n] \notin Awake /\ st[m] \notin Awake
  BY <1>0, <1>1, <1>2, <1>3 DEF Awake
<1>6. last' = last /\ Upcoming' = Upcoming /\ SlotHeld'
  BY <1>1, ServingExact
<1>7. \A c \in CPU : sched'.current[c] \in {NoPid, sched.current[c]}
  BY <1>0, <1>1, <1>2, <1>4, CurrentKept
<1>8. loaded' = (loaded \cup {n}) \cup {m}
  BY <1>1
<1>9. LoadedKnown'
  <2>1. \A q \in Pid : pstate'[q] = "WaitLock" => q # n /\ q # m /\ pstate[q] = "WaitLock"
    BY <1>5
  <2>2. \A q \in loaded' : q \in loaded \/ q = n \/ q = m
    BY <1>8
  <2> HIDE DEF n, m
  <2>3. \A q \in loaded : q < n
    BY DEF ExactParts, LoadedKnown, n
  <2>4. ASSUME NEW q \in loaded'
        PROVE  q < n + 2
    <3>1. q \in loaded => q < n /\ q \in Nat
      BY <1>2, <2>3
    <3>2. q \in loaded => q < n + 2
      BY <1>2, <3>1
    <3> QED
      BY <1>3, <2>2, <3>2
  <2> QED
    BY <1>1, <1>8, <2>1, <2>4 DEF ExactParts, LoadedKnown
<1> HIDE DEF n, m, s, st
<1>10. Once(st, loaded \cup {n}, s) /\ Matched(st, s)
  BY <1>0, <1>2, <1>5, PutOn DEF ExactParts, s
<1>11. Once(pstate', (loaded \cup {n}) \cup {m}, sched') /\ Matched(pstate', sched')
  BY <1>0, <1>1, <1>4, <1>5, <1>10, PutOn
<1>12. Once(pstate', loaded', sched')
  BY <1>8, <1>11
<1> QED
  BY <1>6, <1>7, <1>9, <1>11, <1>12, ExactKeeps

\* Every request of a well-behaved client keeps table and scheduler in step.
LEMMA RequestExact ==
    ASSUME WellBehaved, IInv, ExactParts, Request
    PROVE  ExactParts'
<1>a. next_pid \in Nat /\ next_pid >= next_pid /\ next_pid + 1 >= next_pid /\ next_pid + 1 \in Nat
      /\ next_pid < next_pid + 1
  BY Constants DEF IInv, TypeOK
<1>b. /\ "reexec" \notin Requests /\ "kill" \notin Requests /\ "stop" \notin Requests
      /\ "continue" \notin Requests /\ "block" \notin Requests /\ "schedule" \notin Requests
  BY DEF WellBehaved
<1>c. pstate \in [Pid -> Status] /\ Pid \subseteq Nat
  BY Constants DEF IInv, TypeOK
<1>1. CASE SpawnDual
  BY <1>1, SpawnDualExact
<1>2. CASE Spawn
  <2>1. /\ next_pid \in Pid /\ sched' = ready(sched, next_pid) /\ loaded' = loaded \cup {next_pid}
        /\ pstate' = [pstate EXCEPT ![next_pid] = "Ready"] /\ next_pid' = next_pid + 1
        /\ Serving("spawn")
    BY <1>2 DEF Spawn, NewProcess
  <2>2. pstate[next_pid] \notin Awake
    <3>1. \A p \in Pid : p >= next_pid => pstate[p] = "Free"
      BY <2>1, NextPidFresh
    <3> QED
      BY <1>a, <2>1, <3>1 DEF Awake
  <2> QED
    BY <1>a, <2>1, <2>2, LoadingRequest
<1>3. CASE SpawnFails \/ \E p \in Pid : Fork(p)
  <2>1. /\ next_pid \in Pid /\ UNCHANGED <<sched, loaded>> /\ next_pid' = next_pid + 1
        /\ \/ pstate' = [pstate EXCEPT ![next_pid] = "Ready"]
           \/ pstate' = [pstate EXCEPT ![next_pid] = "Creating"]
        /\ \E k : Serving(k)
    BY <1>3 DEF SpawnFails, Fork, NewProcess
  <2>2. /\ \A q \in Pid : q < next_pid => pstate'[q] = pstate[q]
        /\ \A q \in Pid : pstate'[q] = "WaitLock" => pstate[q] = "WaitLock"
    BY <1>a, <1>c, <2>1
  <2> QED
    BY <1>a, <2>1, <2>2, QuietRequest
<1>4. CASE RequestCreate \/ \E p \in Pid : ForkTimesOut(p)
  <2>1. /\ UNCHANGED <<sched, loaded, pstate>> /\ next_pid' \in {next_pid, next_pid + 1}
        /\ \E k : Serving(k)
    BY <1>4 DEF RequestCreate, ForkTimesOut, procVars, treeVars
  <2>2. next_pid' >= next_pid /\ next_pid' \in Nat
    BY <1>a, <2>1
  <2> QED
    BY <2>1, <2>2, QuietRequest
<1>5. ASSUME NEW p \in Pid, Exec(p)
      PROVE  ExactParts'
  <2>1. /\ sched' = ready(sched, p) /\ loaded' = loaded \cup {p} /\ next_pid' = next_pid
        /\ pstate' = [pstate EXCEPT ![p] = "Ready"] /\ Serving("exec") /\ p \notin loaded
        /\ pstate[p] # "Free"
    BY <1>b, <1>5 DEF Exec, Serving, InTable
  <2>2. p < next_pid
    BY <1>a, <1>c, <2>1 DEF IInv, TableHasCpu, InTable
  <2> QED
    BY <1>a, <2>1, <2>2, LoadingRequest
<1>6. ASSUME NEW p \in Pid, WaitChild(p)
      PROVE  ExactParts'
  <2>1. Serving("wait") /\ UNCHANGED <<loaded, next_pid>>
    BY <1>6 DEF WaitChild, treeVars
  <2>2. CASE UNCHANGED <<sched, pstate>>
    BY <1>a, <2>1, <2>2, QuietRequest
  <2>3. CASE sched' = remove(sched, p) /\ pstate' = [pstate EXCEPT ![p] = "Free"]
    <3>1. pstate'[p] \notin Awake \cup {"WaitLock"} /\ \A q \in Pid : q # p => pstate'[q] = pstate[q]
      BY <1>c, <2>3 DEF Awake
    <3> QED
      BY <2>1, <2>3, <3>1, LeavingRequest
  <2> QED
    BY <1>6, <2>2, <2>3 DEF WaitChild
<1>7. ASSUME NEW p \in Pid, NEW i \in SyncId,
             \/ RequestSemWait(p, i) \/ RequestSemSignal(i)
             \/ RequestLockAcquire(p, i) \/ RequestLockRelease(p, i)
      PROVE  ExactParts'
  <2>1. Serving("sync") /\ UNCHANGED <<loaded, next_pid>> /\ (Blocked(p) \/ UNCHANGED <<sched, pstate>>)
    BY <1>7 DEF RequestSemWait, RequestSemSignal, RequestLockAcquire, RequestLockRelease, procVars, treeVars
  <2>2. CASE UNCHANGED <<sched, pstate>>
    BY <1>a, <2>1, <2>2, QuietRequest
  <2>3. CASE Blocked(p)
    <3>1. sched' = remove(sched, p) /\ pstate' = WithState(p, "WaitIo")
      BY <2>3 DEF Blocked
    <3>2. pstate'[p] \notin Awake \cup {"WaitLock"} /\ \A q \in Pid : q # p => pstate'[q] = pstate[q]
      BY <1>c, <3>1 DEF Awake, WithState, InTable
    <3> QED
      BY <2>1, <3>1, <3>2, LeavingRequest
  <2> QED
    BY <2>1, <2>2, <2>3
<1>8. ASSUME NEW p \in Pid, NEW to \in Pid,
             \/ Kill(p) \/ Stop(p) \/ Continue(p) \/ Block(p) \/ Unblock(p) \/ Schedule(p)
             \/ ContextSwitch(p, to)
      PROVE  FALSE
  BY <1>b, <1>8 DEF Kill, Stop, Continue, Block, Unblock, Schedule, ContextSwitch, Serving
<1>9. InitPid \in Pid
  BY Constants
<1> QED
  BY <1>1, <1>2, <1>3, <1>4, <1>5, <1>6, <1>7, <1>8, <1>9 DEF Request

\* The CPUs are numbered from 0.
LEMMA CpuRange ==
    /\ Cardinality(CPU) \in Nat /\ CPU = 0 .. Cardinality(CPU) - 1
    /\ \A c \in CPU : c \in Nat /\ c < Cardinality(CPU) /\ (c + 1 \notin CPU => c + 1 = Cardinality(CPU))
<1>1. Cardinality(CPU) \in Nat
  BY ServiceAssumption, FS_CardinalityType
<1> QED
  BY <1>1, ServiceAssumption

\* A new interrupt: the stale entries of last_running are those of CPUs whose
\* slot comes first.
LEMMA StartTickExact ==
    ASSUME IInv, ExactParts, StartTick
    PROVE  ExactParts'
<1>1. /\ tick' = [IdleTick EXCEPT !.phase = "slot"] /\ tick.phase = "idle"
      /\ UNCHANGED <<pstate, sched, last, next_pid, loaded>>
  BY DEF StartTick, Idle, procVars, treeVars
<1>2. Upcoming = Cardinality(CPU) /\ Upcoming' = 0
  BY <1>1 DEF Upcoming, IdleTick
<1>3. StaleLast'
  <2> SUFFICES ASSUME NEW c \in CPU, NEW d \in CPU, c # d, sched.current[c] # NoPid,
                      last[d] = sched.current[c]
               PROVE  c >= 0 /\ d >= 0 /\ d < c
    BY <1>1, <1>2 DEF StaleLast
  <2>1. \/ c < Cardinality(CPU) /\ (d < c \/ d >= Cardinality(CPU))
        \/ c >= Cardinality(CPU)
    BY <1>2 DEF ExactParts, StaleLast
  <2> QED
    BY <2>1, CpuRange
<1>4. SlotHeld'
  BY <1>1 DEF SlotHeld, IdleTick
<1>5. LoadedKnown' /\ LastCurrent'
  BY <1>1 DEF ExactParts, LoadedKnown, LastCurrent
<1> QED
  BY <1>1, <1>3, <1>4, <1>5 DEF ExactParts

\* The halt check takes off the scheduler whoever it finds stopped.
LEMMA HaltCheckExact ==
    ASSUME IInv, ExactParts, HaltCheck
    PROVE  ExactParts'
<1> DEFINE p == tick.pid
           halted == p # InitPid /\ ~IsBlocked(p) /\ cpu[p] = "halted"
           stops  == halted /\ pstate[p] # "Ready"
           dies   == stops /\ InTable(p) /\ pstate[p] # "Zombie"
<1>1. /\ sched' = IF stops THEN remove(sched, p) ELSE sched
      /\ pstate' = IF dies THEN [pstate EXCEPT ![p] = "Zombie"] ELSE pstate
      /\ tick' = [tick EXCEPT !.phase = "reap", !.pid = NoPid, !.steps = 0]
      /\ tick.phase = "halt" /\ UNCHANGED <<last, next_pid, loaded>>
  BY DEF HaltCheck, treeVars
<1>2. /\ pstate \in [Pid -> Status] /\ sched \in SchedulerState /\ tick \in TickState
      /\ p \in Pid
  BY <1>1 DEF IInv, TypeOK, SlotSound
<1>3. Upcoming' = Upcoming /\ SlotHeld'
  BY <1>1, <1>2 DEF Upcoming, SlotHeld, TickState
<1>4. dies => stops
  OBVIOUS
<1>5. stops /\ ~dies => pstate[p] \notin Awake
  BY DEF InTable, Awake
<1> HIDE DEF p, halted, stops, dies
<1>6. CASE ~stops
  <2>1. UNCHANGED <<pstate, sched>>
    BY <1>1, <1>4, <1>6
  <2>2. Once(pstate', loaded', sched') /\ Matched(pstate', sched') /\ LoadedKnown'
    BY <1>1, <2>1 DEF ExactParts, LoadedKnown
  <2> QED
    BY <1>1, <1>3, <2>1, <2>2, ExactKeeps
<1>7. CASE stops
  <2>1. sched' = remove(sched, p)
    BY <1>1, <1>7
  <2>2. pstate'[p] \notin Awake /\ \A q \in Pid : q # p => pstate'[q] = pstate[q]
    BY <1>1, <1>2, <1>5, <1>7 DEF Awake
  <2>3. Once(pstate', loaded', sched') /\ Matched(pstate', sched')
    <3>1. loaded' = loaded /\ Once(pstate, loaded, sched) /\ Matched(pstate, sched)
      BY <1>1 DEF ExactParts
    <3> QED
      BY <1>2, <2>1, <2>2, <3>1, TakenOff
  <2>4. LoadedKnown'
    <3>1. \A q \in Pid : pstate'[q] = "WaitLock" => pstate[q] = "WaitLock"
      BY <1>1, <1>2
    <3> QED
      BY <1>1, <3>1 DEF ExactParts, LoadedKnown
  <2>5. \A c \in CPU : sched'.current[c] \in {NoPid, sched.current[c]}
    BY <1>2, <2>1, CurrentKept
  <2> QED
    BY <1>1, <1>3, <2>3, <2>4, <2>5, ExactKeeps
<1> QED
  BY <1>6, <1>7

\* The reaper takes only zombies, which the scheduler does not know.
LEMMA ReapExact ==
    ASSUME IInv, ExactParts, Reap
    PROVE  ExactParts'
<1>1. /\ tick.phase = "reap" /\ UNCHANGED <<sched, last, next_pid, loaded>>
      /\ pstate' = pstate \/ \E z \in Pid : pstate[z] = "Zombie" /\ pstate' = [pstate EXCEPT ![z] = "Free"]
  BY DEF Reap, ReapProcess, Zombies, treeVars
<1>2. pstate \in [Pid -> Status] /\ sched \in SchedulerState /\ tick \in TickState /\ tick.c \in CPU
  BY DEF IInv, TypeOK, TickState
<1>3. Upcoming' = Upcoming /\ SlotHeld'
  <2>1. CASE tick.c + 1 \in CPU
    <3>1. tick' = [tick EXCEPT !.phase = "slot", !.c = tick.c + 1]
      BY <2>1 DEF Reap
    <3> QED
      BY <1>1, <1>2, <3>1 DEF Upcoming, SlotHeld, TickState
  <2>2. CASE tick.c + 1 \notin CPU
    <3>1. tick' = IdleTick
      BY <2>2 DEF Reap
    <3>2. tick.c + 1 = Cardinality(CPU)
      BY <1>2, <2>2, CpuRange
    <3> QED
      BY <1>1, <3>1, <3>2 DEF Upcoming, SlotHeld, IdleTick
  <2> QED
    BY <2>1, <2>2
<1>4. \A q \in Pid : /\ pstate'[q] = pstate[q] \/ (pstate[q] \notin Awake /\ pstate'[q] \notin Awake)
                     /\ pstate'[q] = "WaitLock" => pstate[q] = "WaitLock"
  BY <1>1, <1>2 DEF Awake
<1>5. Once(pstate', loaded', sched') /\ Matched(pstate', sched')
  BY <1>1, <1>2, <1>4, Undisturbed DEF ExactParts
<1>6. LoadedKnown'
  BY <1>1, <1>4 DEF ExactParts, LoadedKnown
<1> QED
  BY <1>1, <1>3, <1>5, <1>6, ExactKeeps

\* What the decision for a CPU changes: that CPU, and the order of the queue.
LEMMA DecisionExact ==
    ASSUME NEW s \in SchedulerState, NEW c \in CPU, Exclusive(s),
           NEW r, r = schedule(s, c) \/ r = yield_current(s, c)
    PROVE  /\ r \in SchedulerState /\ Exclusive(r) /\ Known(r) = Known(s)
           /\ r.current = [s.current EXCEPT ![c] = r.current[c]]
           /\ \A q \in Pid : Entries(r, q) = Entries(s, q)
           /\ r.current[c] = NoPid => InQueue(r) \subseteq OnCpu(r)
<1>1. r \in SchedulerState /\ Exclusive(r)
  BY ScheduleType, YieldType, ScheduleExclusive
<1>2. \A q \in Pid : Entries(r, q) = Entries(s, q)
  BY DecisionConserves
<1>3. /\ Known(r) = Known(s)
      /\ \E p : r.current = [s.current EXCEPT ![c] = p]
  <2>1. /\ Known(r) = Known(s)
        /\ \/ Known(s) \subseteq Busy(s, c) /\ r.current = [s.current EXCEPT ![c] = NoPid]
           \/ \E p \in Known(s) \ Busy(s, c) : r.current = [s.current EXCEPT ![c] = p]
    BY DecisionDispatches
  <2> QED
    BY <2>1
<1>4. r.current = [s.current EXCEPT ![c] = r.current[c]]
  BY <1>3 DEF SchedulerState
<1>5. r.current[c] = NoPid => InQueue(r) \subseteq OnCpu(r)
  BY IdleDecision
<1> QED
  BY <1>1, <1>2, <1>3, <1>4, <1>5

\* The same after the yield that keeps a process from a second slot.
LEMMA SlotDecision ==
    ASSUME IInv
    PROVE  /\ Decision \in SchedulerState /\ Exclusive(Decision) /\ Known(Decision) = Known(sched)
           /\ Decision.current = [sched.current EXCEPT ![tick.c] = Decision.current[tick.c]]
           /\ \A q \in Pid : Entries(Decision, q) = Entries(sched, q)
           /\ Decision.current[tick.c] = NoPid => InQueue(Decision) \subseteq OnCpu(Decision)
<1> DEFINE c == tick.c
           s == schedule(sched, c)
           t == yield_current(s, c)
           D == Decision
<1>1. sched \in SchedulerState /\ Exclusive(sched) /\ c \in CPU
  BY DEF IInv, TypeOK, OneCpuPerPid, TickState
<1>2. D = s \/ D = t
  BY DEF Decision
<1>3. /\ s \in SchedulerState /\ Exclusive(s) /\ Known(s) = Known(sched)
      /\ s.current = [sched.current EXCEPT ![c] = s.current[c]]
      /\ \A q \in Pid : Entries(s, q) = Entries(sched, q)
      /\ s.current[c] = NoPid => InQueue(s) \subseteq OnCpu(s)
  <2>1. s = schedule(sched, c) \/ s = yield_current(sched, c)
    OBVIOUS
  <2> HIDE DEF s, c
  <2> QED
    BY <1>1, <2>1, DecisionExact
<1>4. t = schedule(s, c) \/ t = yield_current(s, c)
  OBVIOUS
<1> HIDE DEF s, t, c, D
<1>5. /\ t \in SchedulerState /\ Exclusive(t) /\ Known(t) = Known(s)
      /\ t.current = [s.current EXCEPT ![c] = t.current[c]]
      /\ \A q \in Pid : Entries(t, q) = Entries(s, q)
      /\ t.current[c] = NoPid => InQueue(t) \subseteq OnCpu(t)
  BY <1>1, <1>3, <1>4, DecisionExact
<1>6. t.current = [sched.current EXCEPT ![c] = t.current[c]]
  BY <1>1, <1>3, <1>5 DEF SchedulerState
<1>7. /\ D \in SchedulerState /\ Exclusive(D) /\ Known(D) = Known(sched)
      /\ D.current = [sched.current EXCEPT ![c] = D.current[c]]
      /\ \A q \in Pid : Entries(D, q) = Entries(sched, q)
      /\ D.current[c] = NoPid => InQueue(D) \subseteq OnCpu(D)
  BY <1>2, <1>3, <1>5, <1>6
<1> QED
  BY <1>7 DEF D, c

\* The switch of the states when CPU tick.c goes from the pid it ran to p.
LEMMA SwitchedStates ==
    ASSUME IInv, NEW p \in Pid, pstate[p] \in Awake,
           NEW x, x = last[tick.c]
    PROVE  /\ Switched(p)[p] = "Running"
           /\ \A q \in Pid \ {p, x} : Switched(p)[q] = pstate[q]
           /\ x \in Pid /\ x # p =>
                 Switched(p)[x] = IF pstate[x] = "Running" /\ \A d \in CPU \ {tick.c} : last[d] # x
                                  THEN "Ready" ELSE pstate[x]
<1> DEFINE demote == /\ x # NoPid /\ x # p
                     /\ \A d \in CPU \ {tick.c} : last[d] # x
                     /\ pstate[x] = "Running"
           st == IF demote THEN [pstate EXCEPT ![x] = "Ready"] ELSE pstate
<1>1. pstate \in [Pid -> Status] /\ x \in Pid \cup {NoPid} /\ NoPid \notin Pid
  BY Constants DEF IInv, TypeOK, TickState
<1>2. Switched(p) = IF st[p] \in {"Ready", "Creating"} THEN [st EXCEPT ![p] = "Running"] ELSE st
  BY DEF Switched
<1>3. demote => x \in Pid \ {p}
  BY <1>1
<1>4. st \in [Pid -> Status] /\ st[p] = pstate[p] /\ \A q \in Pid \ {x} : st[q] = pstate[q]
  BY <1>1, <1>3 DEF Status
<1>5. x \in Pid /\ x # p => st[x] = IF demote THEN "Ready" ELSE pstate[x]
  BY <1>1
<1>6. x \in Pid => x # NoPid
  BY <1>1
<1> HIDE DEF st
<1>7. Switched(p)[p] = "Running" /\ \A q \in Pid \ {p} : Switched(p)[q] = st[q]
  BY <1>2, <1>4 DEF Awake
<1> QED
  BY <1>4, <1>5, <1>6, <1>7

\* The slot of a CPU: it switches to a runnable process, the one it ran goes
\* back to Ready, and table and scheduler stay in step.
LEMMA SlotMatched ==
    ASSUME IInv, ExactParts, Slot, tick.phase = "slot"
    PROVE  Once(pstate', loaded', sched') /\ Matched(pstate', sched')
<1> DEFINE c == tick.c
           D == Decision
           p == D.current[c]
           x == last[c]
<1>0. c \in CPU /\ sched' = D /\ loaded' = loaded
      /\ sched \in SchedulerState /\ Exclusive(sched) /\ pstate \in [Pid -> Status]
      /\ sched.current \in [CPU -> Pid \cup {NoPid}] /\ NoPid \notin Pid
  BY Constants DEF Slot, treeVars, IInv, TypeOK, TickState, OneCpuPerPid, SchedulerState
<1>1. /\ D \in SchedulerState /\ Exclusive(D) /\ Known(D) = Known(sched)
      /\ D.current = [sched.current EXCEPT ![c] = p]
      /\ \A q \in Pid : Entries(D, q) = Entries(sched, q)
      /\ D.current[c] = NoPid => InQueue(D) \subseteq OnCpu(D)
  BY SlotDecision
<1>2. Once(pstate, loaded, D)
  BY <1>1 DEF ExactParts, Once
<1>3. (p = NoPid /\ pstate' = pstate) \/ (p # NoPid /\ pstate' = Switched(p))
  BY DEF Slot
<1> HIDE DEF D, c
<1>4. /\ Known(D) \subseteq Pid /\ \A q \in OnCpu(D) : q \notin InQueue(D)
      /\ \A q \in Known(D) : q \in loaded /\ pstate[q] \in Awake
  BY <1>1, <1>2, OnceKnown
<1>5. p \in Pid \cup {NoPid} /\ (p # NoPid => p \in OnCpu(D) /\ p \in Known(D))
  BY <1>0, <1>1 DEF OnCpu, Known, SchedulerState
<1>6. \A q \in OnCpu(D) : q = p \/ \E d \in CPU \ {c} : sched.current[d] = q /\ q # NoPid
  BY <1>0, <1>1 DEF OnCpu
<1>7. ASSUME NEW d \in CPU \ {c}, sched.current[d] # NoPid
      PROVE  /\ sched.current[d] \in OnCpu(sched) /\ sched.current[d] \in OnCpu(D)
             /\ last[d] = sched.current[d] /\ sched.current[d] # p
  <2>1. D.current[d] = sched.current[d]
    BY <1>0, <1>1
  <2>2. p = D.current[c] /\ D.current[d] # D.current[c]
    BY <1>0, <1>1, <1>7, <2>1 DEF Exclusive
  <2>3. last[d] = sched.current[d]
    BY <1>7 DEF ExactParts, LastCurrent
  <2> QED
    BY <1>7, <2>1, <2>2, <2>3 DEF OnCpu
<1>8. \A q \in InQueue(D) : /\ q \in Pid /\ q # p
                            /\ q \in InQueue(sched) \/ (q # NoPid /\ q = sched.current[c])
  <2> SUFFICES ASSUME NEW q \in InQueue(D)
               PROVE  q \in Pid /\ q # p /\ (q \in InQueue(sched) \/ (q # NoPid /\ q = sched.current[c]))
    OBVIOUS
  <2>1. q \in Known(D) /\ q \in Pid /\ q # NoPid
    BY <1>0, <1>4 DEF Known
  <2>2. q # p
    BY <1>4, <1>5, <2>1
  <2>3. CASE q \in InQueue(sched)
    BY <2>1, <2>2, <2>3
  <2>4. CASE q \in OnCpu(sched)
    <3>1. PICK d \in CPU : sched.current[d] = q
      BY <2>4 DEF OnCpu
    <3>2. d = c
      BY <1>4, <1>7, <2>1, <3>1
    <3> QED
      BY <2>1, <2>2, <3>1, <3>2
  <2> QED
    BY <1>1, <2>1, <2>3, <2>4 DEF Known
<1>9. CASE p = NoPid
  <2>1. InQueue(D) = {}
    BY <1>1, <1>4, <1>9
  <2>2. pstate' = pstate /\ OnCpu(D) \subseteq OnCpu(sched)
    BY <1>3, <1>6, <1>7, <1>9 DEF OnCpu
  <2>3. Matched(pstate, D)
    BY <2>1, <2>2 DEF ExactParts, Matched
  <2> QED
    BY <1>0, <1>2, <2>2, <2>3
<1>10. CASE p # NoPid
  <2>1. p \in Pid /\ pstate[p] \in Awake /\ pstate' = Switched(p)
    BY <1>3, <1>4, <1>5, <1>10
  <2>2. /\ pstate'[p] = "Running"
        /\ \A q \in Pid \ {p, x} : pstate'[q] = pstate[q]
        /\ x \in Pid /\ x # p =>
              pstate'[x] = IF pstate[x] = "Running" /\ \A d \in CPU \ {c} : last[d] # x
                           THEN "Ready" ELSE pstate[x]
    BY <2>1, SwitchedStates DEF c
  <2> HIDE DEF p, x
  <2>3. Once(pstate', loaded, D)
    <3>1. \A q \in Pid : pstate'[q] \in Awake <=> pstate[q] \in Awake
      BY <2>1, <2>2 DEF Awake
    <3> QED
      BY <1>2, <3>1 DEF Once
  <2>4. \A q \in OnCpu(D) : pstate'[q] = "Running"
    <3> SUFFICES ASSUME NEW q \in OnCpu(D), q # p
                 PROVE  pstate'[q] = "Running"
      BY <2>2
    <3>1. PICK d \in CPU \ {c} : sched.current[d] = q /\ q # NoPid
      BY <1>6
    <3>2. q \in OnCpu(sched) /\ last[d] = q /\ q \in Pid
      BY <1>4, <1>7, <3>1 DEF Known
    <3>3. pstate[q] = "Running"
      BY <3>2 DEF ExactParts, Matched
    <3> QED
      BY <2>2, <3>2, <3>3
  <2>5. \A q \in InQueue(D) : pstate'[q] = "Ready"
    <3> SUFFICES ASSUME NEW q \in InQueue(D)
                 PROVE  pstate'[q] = "Ready"
      OBVIOUS
    <3>1. q \in Pid /\ q # p
      BY <1>8
    <3>2. CASE q \in InQueue(sched)
      <4>1. pstate[q] = "Ready"
        BY <3>2 DEF ExactParts, Matched
      <4> QED
        BY <2>2, <3>1, <4>1
    <3>3. CASE q # NoPid /\ q = sched.current[c]
      <4>1. q = x /\ q \in OnCpu(sched)
        BY <1>0, <3>3 DEF ExactParts, LastCurrent, OnCpu, x
      <4>2. pstate[x] = "Running"
        BY <4>1 DEF ExactParts, Matched
      <4>3. ASSUME NEW d \in CPU \ {c}
            PROVE  last[d] # x
        <5>1. Upcoming = c /\ c \in Nat /\ d \in Nat
          BY <1>0, CpuRange DEF Upcoming, c
        <5>2. ~ (c < c) /\ ~ (d < c /\ d >= c)
          BY <5>1
        <5>3. c # d /\ sched.current[c] # NoPid /\ last[d] = sched.current[c] =>
                \/ c < c /\ (d < c \/ d >= c)
                \/ c >= c /\ d >= c /\ d < c
          BY <1>0, <5>1 DEF ExactParts, StaleLast
        <5> QED
          BY <3>3, <4>1, <5>2, <5>3
      <4> QED
        BY <2>2, <3>1, <4>1, <4>2, <4>3
    <3> QED
      BY <1>8, <3>2, <3>3
  <2> QED
    BY <1>0, <2>3, <2>4, <2>5 DEF Matched
<1> QED
  BY <1>9, <1>10

\* The slot as a whole.  Its CPU may now run a process that other CPUs ran
\* last; the entries of last_running it was stale in itself are gone.
LEMMA SlotExact ==
    ASSUME IInv, ExactParts, Slot
    PROVE  ExactParts'
<1> DEFINE c == tick.c
           p == Decision.current[c]
<1>0. /\ tick.phase = "slot" /\ c \in CPU /\ sched' = Decision /\ last' = [last EXCEPT ![c] = p]
      /\ UNCHANGED <<loaded, next_pid>> /\ tick \in TickState /\ sched \in SchedulerState
      /\ last \in [CPU -> Pid \cup {NoPid}] /\ pstate \in [Pid -> Status]
  BY DEF Slot, treeVars, IInv, TypeOK, TickState
<1>1. Once(pstate', loaded', sched') /\ Matched(pstate', sched')
  BY <1>0, SlotMatched
<1>2. /\ sched' \in SchedulerState /\ Exclusive(sched')
      /\ sched'.current = [sched.current EXCEPT ![c] = p]
  BY <1>0, SlotDecision
<1>3. /\ p = NoPid /\ tick' = [tick EXCEPT !.phase = "reap", !.pid = NoPid] /\ pstate' = pstate
      \/ /\ p # NoPid /\ pstate' = Switched(p)
         /\ \E ph \in {"exec", "halt"} :
               tick' = [tick EXCEPT !.phase = ph, !.pid = p, !.steps = 0,
                                    !.scheduled = tick.scheduled \cup {p}]
  BY DEF Slot
<1> HIDE DEF p
<1>4. tick'.c = c /\ tick'.phase \notin {"idle", "slot"} /\ (tick'.phase = "exec" => tick'.pid = p)
  BY <1>0, <1>3 DEF TickState
<1>5. Upcoming = c /\ Upcoming' = c + 1
  BY <1>0, <1>4 DEF Upcoming
<1>6. SlotHeld'
  BY <1>0, <1>2, <1>4 DEF SlotHeld, SchedulerState
<1>7. LastCurrent'
  BY <1>0, <1>2 DEF ExactParts, LastCurrent, SchedulerState
<1>8. StaleLast'
  <2> SUFFICES ASSUME NEW a \in CPU, NEW d \in CPU, a # d, sched'.current[a] # NoPid,
                      last'[d] = sched'.current[a]
               PROVE  \/ a < c + 1 /\ (d < a \/ d >= c + 1)
                      \/ a >= c + 1 /\ d >= c + 1 /\ d < a
    BY <1>5 DEF StaleLast
  <2>1. a \in Nat /\ d \in Nat /\ c \in Nat
    BY <1>0, CpuRange
  <2>2. d # c
    <3> SUFFICES ASSUME d = c
                 PROVE  FALSE
      OBVIOUS
    <3>1. last'[d] = p /\ sched'.current[d] = p
      BY <1>0, <1>2 DEF SchedulerState
    <3> QED
      BY <1>2, <3>1 DEF Exclusive
  <2>3. CASE a = c
    BY <2>1, <2>2, <2>3
  <2>4. CASE a # c
    <3>1. sched'.current[a] = sched.current[a] /\ last'[d] = last[d]
      BY <1>0, <1>2, <2>2, <2>4 DEF SchedulerState
    <3>2. \/ a < c /\ (d < a \/ d >= c)
          \/ a >= c /\ d >= c /\ d < a
      BY <1>5, <3>1 DEF ExactParts, StaleLast
    <3> QED
      BY <2>1, <2>2, <2>4, <3>2
  <2> QED
    BY <2>3, <2>4
<1>9. LoadedKnown'
  <2>1. \A q \in Pid : pstate'[q] = "WaitLock" => pstate[q] = "WaitLock"
    BY <1>0, <1>3 DEF Switched
  <2> QED
    BY <1>0, <2>1 DEF ExactParts, LoadedKnown
<1> QED
  BY <1>1, <1>6, <1>7, <1>8, <1>9 DEF ExactParts

\* Every step keeps ExactInv.
LEMMA NextExact ==
    ASSUME WellBehaved, IInv, ExactInv, [Next]_vars
    PROVE  ExactInv'
<1>1. CASE UNCHANGED vars
  BY <1>1 DEF vars, ExactInv, ExactParts, Once, Matched, LoadedKnown, SlotHeld, LastCurrent, StaleLast, Upcoming
<1>2. CASE Next
  <2>1. CASE Timer
    <3>1. tick.phase # "hung"
      BY <2>1 DEF Timer, StartTick, Slot, HaltCheck, Reap, Idle
    <3> QED
      BY <2>1, <3>1, StartTickExact, SlotExact, HaltCheckExact, ReapExact DEF Timer, ExactInv
  <2>2. CASE Instruction
    <3>1. PICK p \in Pid :
              \/ Plain(p) \/ Halt(p) \/ SyscallExit(p) \/ SyscallCreate(p)
              \/ SyscallFork(p) \/ SyscallExec(p) \/ (p = InitPid /\ FaultInit)
              \/ \E i \in SemIds : SyscallSemWait(p, i) \/ SyscallSemSignal(p, i)
              \/ \E i \in LockIds : SyscallLockAcquire(p, i) \/ SyscallLockRelease(p, i)
      BY <2>2 DEF Instruction
    <3>2. tick.phase # "hung"
      BY <3>1 DEF Plain, Halt, SyscallExit, SyscallCreate, SyscallFork, SyscallExec, FaultInit,
                  SyscallSemWait, SyscallSemSignal, SyscallLockAcquire, SyscallLockRelease, Executing
    <3>3. ExactParts
      BY <3>2 DEF ExactInv
    <3> QED
      BY <3>1, <3>3, InstructionExact
  <2>3. CASE Request
    <3>1. tick.phase # "hung"
      BY <2>3 DEF Request, Spawn, SpawnFails, SpawnDual, RequestCreate, Fork, ForkTimesOut, Exec,
                  WaitChild, Kill, Stop, Continue, Block, Unblock, Schedule, ContextSwitch,
                  RequestSemWait, RequestSemSignal, RequestLockAcquire, RequestLockRelease, Serving, Idle
    <3> QED
      BY <2>3, <3>1, RequestExact DEF ExactInv
  <2> QED
    BY <1>2, <2>1, <2>2, <2>3 DEF Next
<1> QED
  BY <1>1, <1>2

\* ExactInv holds throughout.
LEMMA AlwaysExact ==
    ASSUME WellBehaved
    PROVE  Spec => []ExactInv
<1>1. IInv /\ ExactInv /\ [Next]_vars => ExactInv'
  BY NextExact
<1> QED
  BY <1>1, InitExact, AlwaysIInv, PTL DEF Spec

\* The scheduler and the process table never drift apart: with well-behaved
\* clients and any programs, any number of CPUs and processes, the scheduler
\* holds between two slots exactly the processes that can run, each once.
\* No blocked, finished or reaped one keeps a place, no woken one is forgotten.
THEOREM SchedulerHoldsTheRunnable ==
    ASSUME WellBehaved
    PROVE  Spec => []SchedulerExact
<1>1. IInv /\ ExactInv => SchedulerExact
  <2> SUFFICES ASSUME IInv, ExactInv, tick.phase \in {"idle", "slot"}, NEW p \in Pid
               PROVE  IF Runnable(p) THEN Copies(sched, p) = 1 ELSE Copies(sched, p) = 0
    BY DEF SchedulerExact
  <2>1. sched \in SchedulerState /\ Exclusive(sched)
    BY DEF IInv, TypeOK, OneCpuPerPid
  <2>2. Copies(sched, p) = Entries(sched, p)
    BY <2>1, CpusOf DEF Copies, Entries
  <2> QED
    BY <2>2 DEF ExactInv, ExactParts, Once, Runnable, Awake
<1> QED
  BY <1>1, AlwaysExact, AlwaysIInv, PTL

\* docs/scheduler.md, invariant 2, for any number of CPUs: between two
\* interrupts a queued process is Ready and one on a CPU Running, whichever
\* CPU it blocked on, was woken by and ran last.
THEOREM StatesFollowScheduler ==
    ASSUME WellBehaved
    PROVE  Spec => []StatesMatchScheduler
<1>1. ExactInv => StatesMatchScheduler
  BY DEF ExactInv, ExactParts, Matched, StatesMatchScheduler, Idle
<1> QED
  BY <1>1, AlwaysExact, PTL

-----------------------------------------------------------------------------
(* Mutual exclusion and no lost wake-up *)

\* Programs that pair their calls and do not end, clients that leave their
\* semaphores alone, and no id both for a semaphore and a mutex.  (A death
\* gives semaphore 0 back whoever holds it, Signal and Fork requests make up
\* a unit or a holder, and a signal wakes whoever waits on its id.)
ByTheBook ==
    /\ Disciplined
    /\ Program \subseteq {"plain", "sem", "lock", "create", "fork", "exec"}
    /\ Requests \subseteq {"spawn", "exec", "create"}
    /\ "create" \in Requests => SemIds \subseteq {0}
    /\ SemIds \cap LockIds = {}

Past(p, kind, i) == cs[p] = <<kind, i>>

\* Nobody dies, and only a process with a program is past a sem_wait or
\* lock_acquire: it got in, or it is blocked on the id it asked for.
Alive == \A p \in Pid :
    /\ pstate[p] # "Zombie"
    /\ cs[p] # Outside => p \in loaded /\ pstate[p] \in Awake \cup {"WaitLock"}
    /\ pstate[p] = "WaitLock" => Past(p, "sem", lock_addr[p]) \/ Past(p, "lock", lock_addr[p])

\* Programs get only into what exists.
Existing == /\ nsem >= 1
            /\ \A p \in Pid, i \in SyncId : /\ Past(p, "sem", i) => i \in SemIds /\ i < nsem
                                            /\ Past(p, "lock", i) => i \in LockIds

\* A unit is free and nobody asked for it, or one process has it.
SemOwned == \A i \in SemIds : i < nsem =>
    \/ sem[i] = 1 /\ \A p \in Pid : ~Past(p, "sem", i)
    \/ sem[i] = 0 /\ \E h \in Pid : Inside("sem", i) = {h}

LockOwned == \A i \in LockIds :
    \/ mutex[i] = NoPid /\ \A p \in Pid : ~Past(p, "lock", i)
    \/ mutex[i] # NoPid /\ Inside("lock", i) = {mutex[i]}

\* A CPU that halted in its slot belongs to a blocked process.
HaltedBlocks == tick.phase = "halt" /\ cpu[tick.pid] = "halted" => pstate[tick.pid] = "WaitLock"

SyncParts == Alive /\ Existing /\ SemOwned /\ LockOwned /\ HaltedBlocks

\* At most one process inside.
Alone == \A i \in SyncId, k \in {"sem", "lock"} : \A p, q \in Inside(k, i) : p = q

\* The inductive invariant; of a service that has hung, exclusion is left.
SyncInv == IF tick.phase = "hung" THEN Alone ELSE SyncParts

\* The ids programs use, and where they are.
LEMMA Ids == /\ SemIds \subseteq SyncId /\ LockIds \subseteq SyncId
             /\ SemIds \subseteq Nat /\ LockIds \subseteq Nat
             /\ \A i : Outside # <<"sem", i>> /\ Outside # <<"lock", i>>
             /\ \A i, j : <<"sem", i>> # <<"lock", j>>
<1>1. SemIds \cup LockIds \subseteq SyncId
  BY ServiceAssumption
<1>2. \A i : Outside # <<"sem", i>> /\ Outside # <<"lock", i>>
  BY DEF Outside
<1> QED
  BY <1>1, <1>2, Constants

\* Owners are alone.
LEMMA OwnersAlone ==
    ASSUME IInv, SyncParts
    PROVE  Alone
<1> SUFFICES ASSUME NEW i \in SyncId, NEW k \in {"sem", "lock"}, NEW p \in Inside(k, i), NEW q \in Inside(k, i)
             PROVE  p = q
  BY DEF Alone
<1>1. p \in Pid /\ Past(p, k, i)
  BY DEF Inside, Past
<1>2. CASE k = "sem"
  <2>1. i \in SemIds /\ i < nsem
    BY <1>1, <1>2 DEF SyncParts, Existing
  <2> QED
    BY <1>1, <1>2, <2>1 DEF SyncParts, SemOwned
<1>3. CASE k = "lock"
  <2>1. i \in LockIds
    BY <1>1, <1>3 DEF SyncParts, Existing
  <2> QED
    BY <1>1, <1>3, <2>1 DEF SyncParts, LockOwned
<1> QED
  BY <1>2, <1>3

\* A service that has just started: nobody has asked for anything.
LEMMA InitSync == Init => SyncInv
<1> SUFFICES ASSUME Init
             PROVE  SyncParts
  BY DEF Init, IdleTick, SyncInv
<1>1. /\ \A p \in Pid : pstate[p] \in {"Creating", "Free"} /\ cs[p] = Outside
      /\ nsem = 1 /\ \A i \in SyncId : mutex[i] = NoPid
      /\ tick.phase = "idle" /\ sem[0] = 1
  BY Constants DEF Init, IdleTick
<1>2. \A i \in SemIds : i < 1 => i = 0
  BY Ids
<1> QED
  BY <1>1, <1>2, Ids DEF SyncParts, Alive, Existing, SemOwned, LockOwned, HaltedBlocks, Past

\* Steps that leave semaphores and mutexes alone: who asked for one, and who
\* got in, stays the same.
LEMMA SyncKept ==
    ASSUME SyncParts, HaltedBlocks', UNCHANGED <<sem, nsem, mutex>>, loaded \subseteq loaded',
           \A p \in Pid : cs'[p] = cs[p],
           \A p \in Pid : \/ pstate'[p] = pstate[p] /\ lock_addr'[p] = lock_addr[p]
                          \/ pstate[p] \in Awake /\ pstate'[p] \in Awake
                          \/ cs[p] = Outside /\ pstate'[p] \notin {"Zombie", "WaitLock"}
    PROVE  SyncParts'
<1>1. Alive'
  BY DEF SyncParts, Alive, Past, Awake
<1>2. Existing'
  BY DEF SyncParts, Existing, Past
<1>3. \A i \in SyncId, k \in {"sem", "lock"} : Inside(k, i)' = Inside(k, i)
  BY Ids DEF Inside, Awake
<1>4. SemOwned'
  <2> SUFFICES ASSUME NEW i \in SemIds, i < nsem
               PROVE  \/ sem'[i] = 1 /\ \A p \in Pid : ~Past(p, "sem", i)'
                      \/ sem'[i] = 0 /\ \E h \in Pid : Inside("sem", i)' = {h}
    BY DEF SemOwned
  <2>1. \A p \in Pid : Past(p, "sem", i)' = Past(p, "sem", i)
    BY DEF Past
  <2> QED
    BY <1>3, <2>1, Ids DEF SyncParts, SemOwned
<1>5. LockOwned'
  <2> SUFFICES ASSUME NEW i \in LockIds
               PROVE  \/ mutex'[i] = NoPid /\ \A p \in Pid : ~Past(p, "lock", i)'
                      \/ mutex'[i] # NoPid /\ Inside("lock", i)' = {mutex'[i]}
    BY DEF LockOwned
  <2>1. \A p \in Pid : Past(p, "lock", i)' = Past(p, "lock", i)
    BY DEF Past
  <2> QED
    BY <1>3, <2>1, Ids DEF SyncParts, LockOwned
<1> QED
  BY <1>1, <1>2, <1>4, <1>5 DEF SyncParts

\* StartTick, a slot, the halt check and the reaper let everybody be.
LEMMA TimerSync ==
    ASSUME IInv, ExactParts, ExactParts', SyncParts, Timer
    PROVE  SyncParts'
<1>0. /\ pstate \in [Pid -> Status] /\ cpu \in [Pid -> CpuState] /\ tick \in TickState
      /\ last \in [CPU -> Pid \cup {NoPid}] /\ NoPid \notin Pid
  BY Constants DEF IInv, TypeOK
<1>1. CASE StartTick
  <2>1. UNCHANGED <<pstate, lock_addr, sem, nsem, mutex, loaded, cs>> /\ tick'.phase = "slot"
    BY <1>1 DEF StartTick, procVars, syncVars, treeVars, IdleTick
  <2> QED
    BY <2>1, SyncKept DEF HaltedBlocks
<1>2. CASE Slot
  <2>1. UNCHANGED <<lock_addr, sem, nsem, mutex, loaded, cs>>
    BY <1>2 DEF Slot, syncVars, treeVars
  <2>2. \A q \in Pid : \/ pstate'[q] = pstate[q]
                       \/ pstate[q] \in Awake /\ pstate'[q] \in Awake
                       \/ pstate[q] = "Creating" /\ pstate'[q] = "Running"
    BY <1>0, <1>2, SMTT(30) DEF Slot, Switched, Awake
  <2>3. \A q \in Pid : pstate[q] = "Creating" => cs[q] = Outside
    BY DEF SyncParts, Alive, Awake
  <2>4. HaltedBlocks'
    <3> SUFFICES ASSUME tick'.phase = "halt"
                 PROVE  cpu'[tick'.pid] # "halted"
      BY DEF HaltedBlocks
    <3>1. PICK p \in Pid : /\ p = Decision.current[tick.c] /\ sched' = Decision /\ tick'.pid = p
                           /\ pstate' = Switched(p)
                           /\ cpu' = IF cpu[p] = "halted" /\ Switched(p)[p] \in {"Ready", "Running"}
                                     THEN [cpu EXCEPT ![p] = "live"] ELSE cpu
      <4>1. Decision \in SchedulerState /\ tick.c \in CPU
        BY <1>0, SlotDecision DEF TickState
      <4>2. Decision.current[tick.c] # NoPid
        BY <1>0, <1>2 DEF Slot, TickState
      <4>3. Decision.current[tick.c] \in Pid
        BY <4>1, <4>2 DEF SchedulerState
      <4> QED
        BY <1>0, <1>2, <4>2, <4>3 DEF Slot, TickState
    <3>2. tick.c \in CPU /\ p \in OnCpu(sched')
      BY <1>0, <3>1 DEF TickState, OnCpu
    <3>3. pstate'[p] = "Running"
      BY <3>2 DEF ExactParts, Matched
    <3> QED
      BY <1>0, <3>1, <3>3
  <2> QED
    BY <2>1, <2>2, <2>3, <2>4, SyncKept
<1>3. CASE HaltCheck
  <2>1. tick.pid \in Pid /\ tick.phase = "halt"
    BY <1>3 DEF HaltCheck, IInv, SlotSound
  <2>2. cpu[tick.pid] = "halted" => IsBlocked(tick.pid)
    BY <2>1 DEF SyncParts, HaltedBlocks, IsBlocked
  <2>3. UNCHANGED <<pstate, lock_addr, sem, nsem, mutex, loaded, cs>> /\ tick'.phase = "reap"
    BY <1>0, <1>3, <2>2 DEF HaltCheck, treeVars, TickState
  <2> QED
    BY <2>3, SyncKept DEF HaltedBlocks
<1>4. CASE Reap
  <2>1. Zombies = {}
    BY DEF Zombies, SyncParts, Alive
  <2>2. UNCHANGED <<pstate, lock_addr, sem, nsem, mutex, loaded, cs>>
    BY <1>4, <2>1 DEF Reap, syncVars, treeVars
  <2>3. tick'.phase # "halt"
    <3>1. tick' = [tick EXCEPT !.phase = "slot", !.c = @ + 1] \/ tick' = IdleTick
      BY <1>4 DEF Reap
    <3>2. [tick EXCEPT !.phase = "slot", !.c = @ + 1].phase = "slot"
      BY <1>0 DEF TickState
    <3>3. IdleTick.phase = "idle"
      BY DEF IdleTick
    <3> QED
      BY <3>1, <3>2, <3>3
  <2> QED
    BY <2>2, <2>3, SyncKept DEF HaltedBlocks
<1> QED
  BY <1>1, <1>2, <1>3, <1>4 DEF Timer

\* Semaphores come with one unit, mutexes free.
LEMMA CreateSync ==
    ASSUME IInv, SyncParts, HaltedBlocks', UNCHANGED <<pstate, lock_addr, loaded, cs>>,
           \/ CreateSemaphore(1) \/ CreateMutex
           \/ SemIds \subseteq {0} /\ \E v \in 0 .. MaxSem : CreateSemaphore(v)
    PROVE  SyncParts'
<1>0. nsem \in Nat /\ nsem >= 1 /\ sem \in [SyncId -> Nat]
  BY DEF IInv, TypeOK, SyncParts, Existing
<1>1. CASE CreateMutex
  BY <1>1, SyncKept DEF CreateMutex
<1>2. CASE \E v \in Nat : CreateSemaphore(v) /\ (v = 1 \/ SemIds \subseteq {0})
  <2>1. PICK v \in Nat : CreateSemaphore(v) /\ (v = 1 \/ SemIds \subseteq {0})
    BY <1>2
  <2>2. /\ nsem' = nsem + 1 /\ mutex' = mutex /\ nsem \in SyncId
        /\ sem'[nsem] = v /\ \A i \in SyncId \ {nsem} : sem'[i] = sem[i]
    BY <1>0, <2>1 DEF CreateSemaphore
  <2>3. \A i \in SyncId, k \in {"sem", "lock"} : Inside(k, i)' = Inside(k, i)
    BY DEF Inside
  <2>4. \A p \in Pid : \A i, k : Past(p, k, i)' = Past(p, k, i)
    BY DEF Past
  <2>5. Alive'
    BY DEF SyncParts, Alive, Past
  <2>6. Existing'
    BY <1>0, <2>2, <2>4, Constants DEF SyncParts, Existing
  <2>7. ASSUME NEW i \in SemIds, i < nsem'
        PROVE  \/ sem'[i] = 1 /\ \A p \in Pid : ~Past(p, "sem", i)'
               \/ sem'[i] = 0 /\ \E h \in Pid : Inside("sem", i)' = {h}
    <3>1. i \in SyncId /\ i \in Nat
      BY Ids
    <3>2. CASE i = nsem
      <4>1. sem'[i] = 1
        BY <1>0, <2>1, <2>2, <3>2
      <4>2. \A p \in Pid : ~Past(p, "sem", i)
        BY <1>0, <3>1, <3>2 DEF SyncParts, Existing
      <4> QED
        BY <2>4, <4>1, <4>2
    <3>3. CASE i # nsem
      <4>1. i < nsem /\ sem'[i] = sem[i]
        BY <1>0, <2>2, <2>7, <3>1, <3>3
      <4> QED
        BY <2>3, <2>4, <3>1, <4>1 DEF SyncParts, SemOwned
    <3> QED
      BY <3>2, <3>3
  <2>8. SemOwned'
    BY <2>7 DEF SemOwned
  <2>9. LockOwned'
    BY <2>2, <2>3, <2>4, Ids DEF SyncParts, LockOwned
  <2> QED
    BY <2>5, <2>6, <2>8, <2>9 DEF SyncParts
<1>3. MaxSem \in Nat
  BY ServiceAssumption
<1>4. \A v \in 0 .. MaxSem : v \in Nat
  BY <1>3
<1> QED
  BY <1>1, <1>2, <1>4

\* The CPU of an instruction that does not halt stays live.
LEMMA SteppedSync ==
    ASSUME IInv, NEW p \in Pid, NEW k, Executing(p, k), Stepped(p, FALSE), cpu' = cpu
    PROVE  HaltedBlocks' /\ tick'.phase # "hung"
<1>1. tick \in TickState /\ tick.pid = p /\ tick.phase = "exec" /\ cpu[p] = "live"
  BY DEF IInv, TypeOK, Executing, SlotSound
<1>2. tick'.pid = p /\ tick'.phase \in {"exec", "halt"}
  BY <1>1 DEF Stepped, TickState
<1> QED
  BY <1>1, <1>2 DEF HaltedBlocks

\* A process that must wait is blocked before its slot ends.
LEMMA BlockedSync ==
    ASSUME IInv, ExactParts, NEW p \in Pid, NEW k, Executing(p, k), NEW i \in SyncId, BlockOn(p, i)
    PROVE  /\ HaltedBlocks' /\ tick'.phase # "hung"
           /\ pstate' = [pstate EXCEPT ![p] = "WaitLock"]
           /\ lock_addr' = [lock_addr EXCEPT ![p] = i]
<1>1. /\ tick \in TickState /\ tick.pid = p /\ tick.phase = "exec"
      /\ pstate \in [Pid -> Status] /\ pstate[p] = "Running"
  BY ExecutorRuns DEF IInv, TypeOK, Executing
<1>2. tick'.pid = p /\ tick'.phase = "halt"
  BY <1>1 DEF BlockOn, Stepped, TickState
<1>3. /\ pstate' = [pstate EXCEPT ![p] = "WaitLock"]
      /\ lock_addr' = [lock_addr EXCEPT ![p] = i]
  BY <1>1 DEF BlockOn, WithState, WithAddr, InTable
<1>4. pstate'[p] = "WaitLock"
  BY <1>1, <1>3
<1> QED
  BY <1>2, <1>3, <1>4 DEF HaltedBlocks

\* sem_wait: the free unit, or a place among those blocked.
LEMMA SemWaitSync ==
    ASSUME IInv, ExactParts, SyncParts, Disciplined, NEW p \in Pid, NEW i \in SemIds, SyscallSemWait(p, i)
    PROVE  SyncParts' /\ tick'.phase # "hung"
<1>0. /\ pstate \in [Pid -> Status] /\ sem \in [SyncId -> Nat] /\ lock_addr \in [Pid -> SyncId]
      /\ cs \in [Pid -> Section] /\ nsem \in Nat /\ i \in SyncId
  BY Ids DEF IInv, TypeOK
<1>1. /\ Executing(p, "sem") /\ i < nsem /\ cs[p] = Outside /\ cs' = [cs EXCEPT ![p] = <<"sem", i>>]
      /\ UNCHANGED <<nsem, mutex, loaded>>
  BY DEF SyscallSemWait, Enters, treeVars
<1>2. p \in loaded /\ pstate[p] = "Running"
  BY <1>1, ExecutorRuns DEF Executing
<1>3. /\ HaltedBlocks' /\ tick'.phase # "hung"
      /\ \/ sem[i] = 1 /\ sem' = [sem EXCEPT ![i] = 0] /\ pstate' = pstate /\ lock_addr' = lock_addr
         \/ /\ sem[i] = 0 /\ sem' = sem
            /\ pstate' = [pstate EXCEPT ![p] = "WaitLock"]
            /\ lock_addr' = [lock_addr EXCEPT ![p] = i]
  <2>1. CASE sem[i] > 0 /\ sem' = [sem EXCEPT ![i] = @ - 1] /\ Stepped(p, FALSE) /\ UNCHANGED procVars
    <3>1. sem[i] = 1
      BY <1>0, <1>1, <2>1 DEF SyncParts, SemOwned
    <3>2. sem' = [sem EXCEPT ![i] = 0]
      BY <2>1, <3>1
    <3>3. HaltedBlocks' /\ tick'.phase # "hung"
      BY <1>1, <2>1, SteppedSync DEF procVars
    <3> QED
      BY <2>1, <3>1, <3>2, <3>3 DEF procVars
  <2>2. CASE sem[i] = 0 /\ BlockOn(p, i) /\ UNCHANGED sem
    BY <1>0, <1>1, <2>2, BlockedSync
  <2> QED
    BY <2>1, <2>2 DEF SyscallSemWait
<1>4. /\ cs'[p] = <<"sem", i>> /\ \A q \in Pid \ {p} : cs'[q] = cs[q] /\ pstate'[q] = pstate[q] /\ lock_addr'[q] = lock_addr[q]
      /\ \A j \in SyncId \ {i} : sem'[j] = sem[j]
      /\ \/ sem[i] = 1 /\ sem'[i] = 0 /\ pstate'[p] = "Running"
         \/ sem[i] = 0 /\ sem'[i] = 0 /\ pstate'[p] = "WaitLock" /\ lock_addr'[p] = i
  BY <1>0, <1>1, <1>2, <1>3
<1>5. Alive'
  BY <1>1, <1>2, <1>4 DEF SyncParts, Alive, Past, Awake
<1>6. Existing'
  BY <1>1, <1>4, Ids DEF SyncParts, Existing, Past
<1>7. \A j \in SyncId, k \in {"sem", "lock"} : k = "lock" \/ j # i => Inside(k, j)' = Inside(k, j)
  BY <1>1, <1>4, Ids DEF Inside
<1>8. ASSUME NEW j \in SemIds, j < nsem'
      PROVE  \/ sem'[j] = 1 /\ \A q \in Pid : ~Past(q, "sem", j)'
             \/ sem'[j] = 0 /\ \E h \in Pid : Inside("sem", j)' = {h}
  <2>1. CASE j # i
    <3>1. \A q \in Pid : Past(q, "sem", j)' => Past(q, "sem", j)
      BY <1>4, <2>1 DEF Past
    <3> QED
      BY <1>1, <1>4, <1>7, <1>8, <2>1, <3>1, Ids DEF SyncParts, SemOwned
  <2>2. CASE j = i /\ sem[i] = 1
    <3>1. \A q \in Pid : ~Past(q, "sem", i)
      BY <1>1, <2>2 DEF SyncParts, SemOwned
    <3>2. Inside("sem", i)' = {p}
      BY <1>4, <2>2, <3>1 DEF Inside, Past
    <3> QED
      BY <1>4, <2>2, <3>2
  <2>3. CASE j = i /\ sem[i] = 0
    <3>1. Inside("sem", i)' = Inside("sem", i)
      BY <1>1, <1>4, <2>3, Ids DEF Inside
    <3> QED
      BY <1>1, <1>4, <2>3, <3>1 DEF SyncParts, SemOwned
  <2> QED
    BY <1>4, <2>1, <2>2, <2>3
<1>9. SemOwned'
  BY <1>8 DEF SemOwned
<1>10. LockOwned'
  <2> SUFFICES ASSUME NEW j \in LockIds
               PROVE  \/ mutex'[j] = NoPid /\ \A q \in Pid : ~Past(q, "lock", j)'
                      \/ mutex'[j] # NoPid /\ Inside("lock", j)' = {mutex'[j]}
    BY DEF LockOwned
  <2>1. \A q \in Pid : Past(q, "lock", j)' => Past(q, "lock", j)
    BY <1>4, Ids DEF Past
  <2> QED
    BY <1>1, <1>7, <2>1, Ids DEF SyncParts, LockOwned
<1> QED
  BY <1>3, <1>5, <1>6, <1>9, <1>10 DEF SyncParts

\* lock_acquire: the free mutex, or a place among those blocked.
LEMMA LockAcquireSync ==
    ASSUME IInv, ExactParts, SyncParts, Disciplined, NEW p \in Pid, NEW i \in LockIds, SyscallLockAcquire(p, i)
    PROVE  SyncParts' /\ tick'.phase # "hung"
<1>0. /\ pstate \in [Pid -> Status] /\ mutex \in [SyncId -> Pid \cup {NoPid}] /\ lock_addr \in [Pid -> SyncId]
      /\ cs \in [Pid -> Section] /\ nsem \in Nat /\ i \in SyncId /\ NoPid \notin Pid
  BY Ids, Constants DEF IInv, TypeOK
<1>1. /\ Executing(p, "lock") /\ cs[p] = Outside /\ cs' = [cs EXCEPT ![p] = <<"lock", i>>]
      /\ UNCHANGED <<sem, nsem, loaded>>
  BY DEF SyscallLockAcquire, Enters, treeVars
<1>2. p \in loaded /\ pstate[p] = "Running"
  BY <1>1, ExecutorRuns DEF Executing
<1>3. /\ HaltedBlocks' /\ tick'.phase # "hung"
      /\ \/ mutex[i] = NoPid /\ mutex' = [mutex EXCEPT ![i] = p] /\ pstate' = pstate /\ lock_addr' = lock_addr
         \/ /\ mutex[i] # NoPid /\ mutex' = mutex
            /\ pstate' = [pstate EXCEPT ![p] = "WaitLock"]
            /\ lock_addr' = [lock_addr EXCEPT ![p] = i]
  <2>1. CASE mutex[i] = NoPid /\ mutex' = [mutex EXCEPT ![i] = p] /\ Stepped(p, FALSE) /\ UNCHANGED procVars
    <3>1. HaltedBlocks' /\ tick'.phase # "hung"
      BY <1>1, <2>1, SteppedSync DEF procVars
    <3> QED
      BY <2>1, <3>1 DEF procVars
  <2>2. CASE mutex[i] # NoPid /\ BlockOn(p, i) /\ UNCHANGED mutex
    BY <1>0, <1>1, <2>2, BlockedSync
  <2> QED
    BY <2>1, <2>2 DEF SyscallLockAcquire
<1>4. /\ cs'[p] = <<"lock", i>> /\ \A q \in Pid \ {p} : cs'[q] = cs[q] /\ pstate'[q] = pstate[q] /\ lock_addr'[q] = lock_addr[q]
      /\ \A j \in SyncId \ {i} : mutex'[j] = mutex[j]
      /\ \/ mutex[i] = NoPid /\ mutex'[i] = p /\ pstate'[p] = "Running"
         \/ mutex[i] # NoPid /\ mutex'[i] = mutex[i] /\ pstate'[p] = "WaitLock" /\ lock_addr'[p] = i
  BY <1>0, <1>1, <1>2, <1>3
<1>5. Alive'
  BY <1>1, <1>2, <1>4 DEF SyncParts, Alive, Past, Awake
<1>6. Existing'
  BY <1>1, <1>4, Ids DEF SyncParts, Existing, Past
<1>7. \A j \in SyncId, k \in {"sem", "lock"} : k = "sem" \/ j # i => Inside(k, j)' = Inside(k, j)
  BY <1>1, <1>4, Ids DEF Inside
<1>8. ASSUME NEW j \in LockIds
      PROVE  \/ mutex'[j] = NoPid /\ \A q \in Pid : ~Past(q, "lock", j)'
             \/ mutex'[j] # NoPid /\ Inside("lock", j)' = {mutex'[j]}
  <2>1. CASE j # i
    <3>1. \A q \in Pid : Past(q, "lock", j)' => Past(q, "lock", j)
      BY <1>4, <2>1 DEF Past
    <3> QED
      BY <1>1, <1>4, <1>7, <2>1, <3>1, Ids DEF SyncParts, LockOwned
  <2>2. CASE j = i /\ mutex[i] = NoPid
    <3>1. \A q \in Pid : ~Past(q, "lock", i)
      BY <2>2 DEF SyncParts, LockOwned
    <3>2. Inside("lock", i)' = {p}
      BY <1>4, <2>2, <3>1 DEF Inside, Past
    <3> QED
      BY <1>0, <1>4, <2>2, <3>2
  <2>3. CASE j = i /\ mutex[i] # NoPid
    <3>1. Inside("lock", i)' = Inside("lock", i)
      BY <1>1, <1>4, <2>3, Ids DEF Inside
    <3> QED
      BY <1>4, <2>3, <3>1 DEF SyncParts, LockOwned
  <2> QED
    BY <2>1, <2>2, <2>3
<1>9. LockOwned'
  BY <1>8 DEF LockOwned
<1>10. SemOwned'
  <2> SUFFICES ASSUME NEW j \in SemIds, j < nsem
               PROVE  \/ sem'[j] = 1 /\ \A q \in Pid : ~Past(q, "sem", j)'
                      \/ sem'[j] = 0 /\ \E h \in Pid : Inside("sem", j)' = {h}
    BY <1>1 DEF SemOwned
  <2>1. \A q \in Pid : Past(q, "sem", j)' => Past(q, "sem", j)
    BY <1>4, Ids DEF Past
  <2> QED
    BY <1>1, <1>7, <2>1, Ids DEF SyncParts, SemOwned
<1> QED
  BY <1>3, <1>5, <1>6, <1>9, <1>10 DEF SyncParts

\* p leaves i, and may wake one of those blocked on it.
Vacates(p, k, i) ==
    /\ Past(p, k, i) /\ pstate[p] = "Running" /\ cs' = [cs EXCEPT ![p] = Outside]
    /\ UNCHANGED <<loaded, nsem>>
    /\ \/ pstate' = pstate /\ lock_addr' = lock_addr
       \/ \E w \in Waiters(i) : /\ Past(w, k, i)
                                /\ pstate' = [pstate EXCEPT ![w] = "Ready"]
                                /\ lock_addr' = [lock_addr EXCEPT ![w] = 0]

\* Semaphore or mutex j has the same processes inside and blocked.
Untouched(k, j) == /\ Inside(k, j)' = Inside(k, j)
                   /\ \A q \in Pid : Past(q, k, j)' = Past(q, k, j)

\* A process that leaves touches no other semaphore or mutex.
LEMMA LeavingSync ==
    ASSUME IInv, SyncParts, NEW p \in Pid, NEW k \in {"sem", "lock"}, NEW i \in SyncId, Vacates(p, k, i)
    PROVE  /\ Alive' /\ Existing'
           /\ \A j \in SyncId, kind \in {"sem", "lock"} : <<kind, j>> # <<k, i>> => Untouched(kind, j)
<1> USE DEF Vacates
<1>0. /\ pstate \in [Pid -> Status] /\ lock_addr \in [Pid -> SyncId] /\ cs \in [Pid -> Section]
  BY DEF IInv, TypeOK
<1>1. cs'[p] = Outside /\ cs[p] = <<k, i>> /\ \A q \in Pid \ {p} : cs'[q] = cs[q]
  BY <1>0 DEF Past
<1>2. \A q \in Pid : \/ pstate'[q] = pstate[q] /\ lock_addr'[q] = lock_addr[q]
                     \/ pstate'[q] = "Ready" /\ pstate[q] = "WaitLock" /\ cs[q] = <<k, i>>
  BY <1>0 DEF Waiters, Past
<1>3. Alive'
  BY <1>1, <1>2 DEF SyncParts, Alive, Past, Awake
<1>4. Existing'
  BY <1>1, Ids DEF SyncParts, Existing, Past
<1>5. ASSUME NEW j \in SyncId, NEW kind \in {"sem", "lock"}, <<kind, j>> # <<k, i>>
      PROVE  Untouched(kind, j)
  <2>1. Outside # <<kind, j>>
    BY Ids
  <2>2. \A q \in Pid : (cs'[q] = <<kind, j>>) <=> (cs[q] = <<kind, j>>)
    BY <1>1, <1>5, <2>1
  <2>3. \A q \in Pid : cs[q] = <<kind, j>> => pstate'[q] = pstate[q]
    BY <1>2, <1>5
  <2> QED
    BY <2>2, <2>3 DEF Inside, Past, Untouched
<1> QED
  BY <1>3, <1>4, <1>5

\* Past its sem_wait or lock_acquire, a process is inside or blocked.
LEMMA InsideOrBlocked ==
    ASSUME SyncParts, NEW k \in {"sem", "lock"}, NEW i \in SyncId, NEW q \in Pid, Past(q, k, i)
    PROVE  q \in Inside(k, i) \/ q \in Waiters(i)
<1>1. cs[q] = <<k, i>> /\ cs[q] # Outside
  BY Ids DEF Past
<1>2. CASE pstate[q] \in Awake
  BY <1>1, <1>2 DEF Inside, Awake
<1>3. CASE pstate[q] = "WaitLock"
  <2>1. cs[q] = <<"sem", lock_addr[q]>> \/ cs[q] = <<"lock", lock_addr[q]>>
    BY <1>3 DEF SyncParts, Alive, Past
  <2>2. lock_addr[q] = i
    BY <1>1, <2>1
  <2> QED
    BY <1>3, <2>2 DEF Waiters
<1> QED
  BY <1>1, <1>2, <1>3 DEF SyncParts, Alive

\* Who holds i and executes: the one inside.
LEMMA HolderLeaves ==
    ASSUME IInv, ExactParts, SyncParts, NEW p \in Pid, NEW kind, Executing(p, kind),
           NEW k \in {"sem", "lock"}, NEW i \in SyncId, Past(p, k, i)
    PROVE  /\ pstate[p] = "Running" /\ p \in Inside(k, i)
           /\ k = "sem" => i \in SemIds /\ i < nsem /\ sem[i] = 0 /\ Inside(k, i) = {p}
           /\ k = "lock" => i \in LockIds /\ mutex[i] = p /\ Inside(k, i) = {p}
<1>1. pstate[p] = "Running"
  BY ExecutorRuns DEF Executing
<1>2. p \in Inside(k, i)
  BY <1>1 DEF Inside, Past
<1>3. CASE k = "sem"
  <2>1. i \in SemIds /\ i < nsem
    BY <1>3 DEF SyncParts, Existing
  <2>2. sem[i] = 0 /\ \E h \in Pid : Inside(k, i) = {h}
    BY <1>3, <2>1 DEF SyncParts, SemOwned
  <2> QED
    BY <1>1, <1>2, <1>3, <2>1, <2>2
<1>4. CASE k = "lock"
  <2>1. i \in LockIds
    BY <1>4 DEF SyncParts, Existing
  <2>2. Inside(k, i) = {mutex[i]}
    BY <1>4, <2>1 DEF SyncParts, LockOwned
  <2> QED
    BY <1>1, <1>2, <1>4, <2>1, <2>2
<1> QED
  BY <1>3, <1>4

\* The place p leaves goes to the one it wakes,
LEMMA HandedOver ==
    ASSUME IInv, NEW p \in Pid, NEW k \in {"sem", "lock"}, NEW i \in SyncId, Vacates(p, k, i),
           Inside(k, i) = {p}, NEW w \in Waiters(i), Past(w, k, i), pstate' = [pstate EXCEPT ![w] = "Ready"]
    PROVE  Inside(k, i)' = {w}
<1>0. /\ pstate \in [Pid -> Status] /\ cs \in [Pid -> Section] /\ cs' = [cs EXCEPT ![p] = Outside]
      /\ pstate[p] = "Running"
  BY DEF IInv, TypeOK, Vacates
<1>1. w \in Pid /\ w # p /\ cs[w] = <<k, i>>
  BY <1>0 DEF Past, Waiters
<1>2. cs'[w] = <<k, i>> /\ pstate'[w] = "Ready" /\ cs'[p] = Outside
  BY <1>0, <1>1
<1>3. \A q \in Pid \ {w, p} : cs'[q] = cs[q] /\ pstate'[q] = pstate[q]
  BY <1>0, <1>1
<1>4. \A q \in Pid \ {p} : ~(cs[q] = <<k, i>> /\ pstate[q] \in {"Ready", "Running"})
  BY DEF Inside
<1>5. <<k, i>> # Outside
  BY Ids
<1> QED
  BY <1>1, <1>2, <1>3, <1>4, <1>5 DEF Inside

\* and to nobody if nobody is blocked.
LEMMA GivenBack ==
    ASSUME IInv, SyncParts, NEW p \in Pid, NEW k \in {"sem", "lock"}, NEW i \in SyncId, Vacates(p, k, i),
           Inside(k, i) = {p}, Waiters(i) = {}
    PROVE  \A q \in Pid : ~Past(q, k, i)'
<1>1. cs \in [Pid -> Section] /\ cs' = [cs EXCEPT ![p] = Outside]
  BY DEF IInv, TypeOK, Vacates
<1>2. \A q \in Pid : Past(q, k, i) => q = p
  BY InsideOrBlocked
<1>3. <<k, i>> # Outside
  BY Ids
<1> QED
  BY <1>1, <1>2, <1>3 DEF Past

\* sem_signal: the unit goes to one of those blocked, or is free again.
LEMMA SemSignalSync ==
    ASSUME IInv, ExactParts, SyncParts, ByTheBook, NEW p \in Pid, NEW i \in SemIds, SyscallSemSignal(p, i)
    PROVE  SyncParts' /\ tick'.phase # "hung"
<1> DEFINE k == "sem"
<1>0. /\ pstate \in [Pid -> Status] /\ sem \in [SyncId -> Nat] /\ lock_addr \in [Pid -> SyncId]
      /\ cs \in [Pid -> Section] /\ nsem \in Nat /\ i \in SyncId /\ k \in {"sem", "lock"} /\ i \notin LockIds
  BY Ids DEF IInv, TypeOK, ByTheBook
<1>1. /\ Executing(p, "sem") /\ Past(p, k, i) /\ cs' = [cs EXCEPT ![p] = Outside]
      /\ UNCHANGED <<nsem, mutex, loaded>>
  BY DEF SyscallSemSignal, Leaves, treeVars, ByTheBook, Past
<1>2. HaltedBlocks' /\ tick'.phase # "hung"
  BY <1>1, SteppedSync DEF SyscallSemSignal
<1>3. pstate[p] = "Running" /\ i < nsem /\ sem[i] = 0 /\ Inside("sem", i) = {p}
  BY <1>0, <1>1, HolderLeaves
<1>4. \A w \in Waiters(i) : w \in Pid /\ Past(w, k, i) /\ pstate[w] = "WaitLock"
  BY <1>0, Ids DEF Waiters, SyncParts, Alive, Existing
<1>5. \/ /\ Waiters(i) = {} /\ sem' = [sem EXCEPT ![i] = 1]
         /\ pstate' = pstate /\ lock_addr' = lock_addr
      \/ /\ sem' = sem
         /\ \E w \in Waiters(i) : /\ Past(w, k, i)
                                  /\ pstate' = [pstate EXCEPT ![w] = "Ready"]
                                  /\ lock_addr' = [lock_addr EXCEPT ![w] = 0]
  BY <1>0, <1>3, <1>4 DEF SyscallSemSignal, WakeUp
<1>a. Vacates(p, k, i)
  BY <1>1, <1>3, <1>5 DEF Vacates
<1> HIDE DEF k
<1>6. /\ Alive' /\ Existing'
      /\ \A j \in SyncId, kind \in {"sem", "lock"} : <<kind, j>> # <<k, i>> => Untouched(kind, j)
  BY <1>0, <1>a, LeavingSync
<1> USE DEF k
<1>7. \A j \in SyncId \ {i} : sem'[j] = sem[j]
  BY <1>0, <1>5
<1>8. ASSUME NEW j \in SemIds, j < nsem'
      PROVE  \/ sem'[j] = 1 /\ \A q \in Pid : ~Past(q, "sem", j)'
             \/ sem'[j] = 0 /\ \E h \in Pid : Inside("sem", j)' = {h}
  <2>1. CASE j # i
    BY <1>1, <1>6, <1>7, <1>8, <2>1, Ids DEF SyncParts, SemOwned, Untouched
  <2>2. CASE j = i /\ Waiters(i) = {} /\ sem' = [sem EXCEPT ![i] = 1] /\ pstate' = pstate
    <3>1. \A q \in Pid : ~Past(q, k, i)'
      BY <1>0, <1>3, <1>a, <2>2, GivenBack
    <3> QED
      BY <1>0, <2>2, <3>1
  <2>3. ASSUME j = i, sem' = sem, NEW w \in Waiters(i), pstate' = [pstate EXCEPT ![w] = "Ready"]
        PROVE  sem'[j] = 0 /\ \E h \in Pid : Inside("sem", j)' = {h}
    <3>1. Inside(k, i)' = {w} /\ w \in Pid
      BY <1>0, <1>3, <1>4, <1>a, <2>3, HandedOver
    <3> QED
      BY <1>3, <2>3, <3>1
  <2> QED
    BY <1>5, <2>1, <2>2, <2>3
<1>9. SemOwned'
  BY <1>8 DEF SemOwned
<1>10. LockOwned'
  <2>1. \A j \in LockIds : /\ Inside("lock", j)' = Inside("lock", j)
                           /\ \A q \in Pid : Past(q, "lock", j)' = Past(q, "lock", j)
    BY <1>6, Ids DEF Untouched
  <2> QED
    BY <1>1, <2>1 DEF SyncParts, LockOwned
<1> QED
  BY <1>2, <1>6, <1>9, <1>10 DEF SyncParts

\* lock_release: the mutex is free again; with somebody blocked on it the
\* service wakes one and hangs, that one alone inside.
LEMMA LockReleaseSync ==
    ASSUME IInv, ExactParts, SyncParts, ByTheBook, NEW p \in Pid, NEW i \in LockIds, SyscallLockRelease(p, i)
    PROVE  IF tick'.phase = "hung" THEN Alone' ELSE SyncParts'
<1> DEFINE k == "lock"
<1>0. /\ pstate \in [Pid -> Status] /\ mutex \in [SyncId -> Pid \cup {NoPid}] /\ lock_addr \in [Pid -> SyncId]
      /\ cs \in [Pid -> Section] /\ i \in SyncId /\ k \in {"sem", "lock"} /\ i \notin SemIds
      /\ NoPid \notin Pid /\ tick \in TickState
  BY Ids, Constants DEF IInv, TypeOK, ByTheBook
<1>1. /\ Executing(p, "lock") /\ Past(p, k, i) /\ cs' = [cs EXCEPT ![p] = Outside]
      /\ UNCHANGED <<sem, nsem, loaded, cpu>>
  BY DEF SyscallLockRelease, Leaves, treeVars, ByTheBook, Past
<1>2. pstate[p] = "Running" /\ mutex[i] = p /\ Inside(k, i) = {p}
  BY <1>0, <1>1, HolderLeaves
<1>3. \A w \in Waiters(i) : w \in Pid /\ Past(w, k, i) /\ pstate[w] = "WaitLock"
  BY <1>0, Ids DEF Waiters, SyncParts, Alive, Existing
<1>4. \/ /\ Waiters(i) = {} /\ mutex' = [mutex EXCEPT ![i] = NoPid] /\ Stepped(p, FALSE)
         /\ pstate' = pstate /\ lock_addr' = lock_addr
      \/ /\ Hang
         /\ \E w \in Waiters(i) : /\ Past(w, k, i)
                                  /\ pstate' = [pstate EXCEPT ![w] = "Ready"]
                                  /\ lock_addr' = [lock_addr EXCEPT ![w] = 0]
  BY <1>0, <1>2, <1>3 DEF SyscallLockRelease, WakeUp, Released
<1>5. Vacates(p, k, i)
  BY <1>1, <1>2, <1>4 DEF Vacates
<1> HIDE DEF k
<1>6. /\ Alive' /\ Existing'
      /\ \A j \in SyncId, kind \in {"sem", "lock"} : <<kind, j>> # <<k, i>> => Untouched(kind, j)
  BY <1>0, <1>5, LeavingSync
<1> USE DEF k
<1>7. ASSUME Hang, NEW w \in Waiters(i), Past(w, k, i), pstate' = [pstate EXCEPT ![w] = "Ready"]
      PROVE  tick'.phase = "hung" /\ Alone'
  <2>a. i \in SyncId /\ k \in {"sem", "lock"} /\ Inside(k, i) = {p}
    BY <1>0, <1>2
  <2>b. w \in Waiters(i) /\ Past(w, k, i) /\ pstate' = [pstate EXCEPT ![w] = "Ready"]
    BY <1>7
  <2>1. Inside(k, i)' = {w}
    BY <1>5, <2>a, <2>b, HandedOver
  <2>2. \A j \in SyncId, kind \in {"sem", "lock"} : <<kind, j>> # <<k, i>> => Inside(kind, j)' = Inside(kind, j)
    BY <1>6 DEF Untouched
  <2>3. Alone
    BY OwnersAlone
  <2>4. \A j \in SyncId, kind \in {"sem", "lock"} : \A q, r \in Inside(kind, j)' : q = r
    <3> TAKE j \in SyncId, kind \in {"sem", "lock"}
    <3>1. CASE <<kind, j>> = <<k, i>>
      <4>1. kind = k /\ j = i
        BY <3>1
      <4> QED
        BY <2>1, <4>1
    <3>2. CASE <<kind, j>> # <<k, i>>
      BY <2>2, <2>3, <3>2 DEF Alone
    <3> QED
      BY <3>1, <3>2
  <2> QED
    BY <1>0, <1>7, <2>4 DEF Alone, Hang, TickState
<1>8. ASSUME Waiters(i) = {}, mutex' = [mutex EXCEPT ![i] = NoPid], Stepped(p, FALSE)
      PROVE  SyncParts' /\ tick'.phase # "hung"
  <2>1. HaltedBlocks' /\ tick'.phase # "hung"
    BY <1>1, <1>8, SteppedSync
  <2>2. \A q \in Pid : ~Past(q, k, i)'
    BY <1>0, <1>2, <1>5, <1>8, GivenBack
  <2>3. mutex'[i] = NoPid /\ \A j \in SyncId \ {i} : mutex'[j] = mutex[j]
    BY <1>0, <1>8
  <2>4. ASSUME NEW j \in LockIds
        PROVE  \/ mutex'[j] = NoPid /\ \A q \in Pid : ~Past(q, "lock", j)'
               \/ mutex'[j] # NoPid /\ Inside("lock", j)' = {mutex'[j]}
    <3>1. CASE j = i
      BY <2>2, <2>3, <3>1
    <3>2. CASE j # i
      <4>1. Untouched("lock", j) /\ mutex'[j] = mutex[j]
        BY <1>6, <2>3, <3>2, Ids
      <4> QED
        BY <4>1 DEF SyncParts, LockOwned, Untouched
    <3> QED
      BY <3>1, <3>2
  <2>5. LockOwned'
    BY <2>4 DEF LockOwned
  <2>6. SemOwned'
    <3>1. \A j \in SemIds : Untouched("sem", j)
      BY <1>6, Ids
    <3> QED
      BY <1>1, <3>1 DEF SyncParts, SemOwned, Untouched
  <2> QED
    BY <1>6, <2>1, <2>5, <2>6 DEF SyncParts
<1> QED
  BY <1>4, <1>7, <1>8

\* A step that hangs the service without touching a semaphore or a mutex.
LEMMA HangSync ==
    ASSUME IInv, SyncParts, UNCHANGED <<pstate, cs>>
    PROVE  Alone'
<1>1. Alone
  BY OwnersAlone
<1>2. \A i \in SyncId, k \in {"sem", "lock"} : Inside(k, i)' = Inside(k, i)
  BY DEF Inside
<1> QED
  BY <1>1, <1>2 DEF Alone

\* Every instruction keeps the invariant.
LEMMA InstructionSync ==
    ASSUME IInv, ExactParts, SyncParts, ByTheBook, Instruction
    PROVE  SyncInv'
<1>0. PICK p \in Pid :
        \/ Plain(p) \/ Halt(p) \/ SyscallExit(p) \/ SyscallCreate(p)
        \/ SyscallFork(p) \/ SyscallExec(p) \/ (p = InitPid /\ FaultInit)
        \/ \E i \in SemIds : SyscallSemWait(p, i) \/ SyscallSemSignal(p, i)
        \/ \E i \in LockIds : SyscallLockAcquire(p, i) \/ SyscallLockRelease(p, i)
  BY DEF Instruction
<1>1. ~Halt(p) /\ ~SyscallExit(p) /\ ~FaultInit
  BY DEF ByTheBook, Halt, SyscallExit, FaultInit, Executing
<1>2. CASE Plain(p) \/ SyscallFork(p) \/ SyscallExec(p)
  <2>1. UNCHANGED <<pstate, lock_addr, cpu, sem, nsem, mutex, loaded, cs>>
    BY <1>2 DEF Plain, SyscallFork, SyscallExec, procVars, treeVars, syncVars
  <2>2. Hang \/ \E k : Executing(p, k) /\ Stepped(p, FALSE)
    BY <1>2 DEF Plain, SyscallFork, SyscallExec
  <2>3. CASE Hang
    <3>1. tick'.phase = "hung"
      BY <2>3 DEF Hang, IInv, TypeOK, TickState
    <3> QED
      BY <2>1, <3>1, HangSync DEF SyncInv
  <2>4. CASE \E k : Executing(p, k) /\ Stepped(p, FALSE)
    <3>1. HaltedBlocks' /\ tick'.phase # "hung"
      BY <2>1, <2>4, SteppedSync
    <3> QED
      BY <2>1, <3>1, SyncKept DEF SyncInv
  <2> QED
    BY <2>2, <2>3, <2>4
<1>3. CASE SyscallCreate(p)
  <2>1. HaltedBlocks' /\ tick'.phase # "hung"
    BY <1>3, SteppedSync DEF SyscallCreate, procVars
  <2>2. UNCHANGED <<pstate, lock_addr, loaded, cs>> /\ (CreateSemaphore(1) \/ CreateMutex)
    BY <1>3 DEF SyscallCreate, procVars, treeVars
  <2> QED
    BY <2>1, <2>2, CreateSync DEF SyncInv
<1>4. ASSUME NEW i \in SemIds, SyscallSemWait(p, i) \/ SyscallSemSignal(p, i)
      PROVE  SyncInv'
  BY <1>4, SemWaitSync, SemSignalSync DEF ByTheBook, SyncInv
<1>5. ASSUME NEW i \in LockIds, SyscallLockAcquire(p, i) \/ SyscallLockRelease(p, i)
      PROVE  SyncInv'
  BY <1>5, LockAcquireSync, LockReleaseSync DEF ByTheBook, SyncInv
<1> QED
  BY <1>0, <1>1, <1>2, <1>3, <1>4, <1>5

\* Requests that create processes, give them a program, or create semaphores
\* and mutexes nobody uses yet.
LEMMA RequestSync ==
    ASSUME IInv, SyncParts, ByTheBook, Request
    PROVE  SyncInv'
<1>0. /\ "fork" \notin Requests /\ "wait" \notin Requests /\ "kill" \notin Requests /\ "stop" \notin Requests
      /\ "continue" \notin Requests /\ "block" \notin Requests /\ "schedule" \notin Requests
      /\ "sync" \notin Requests /\ "reexec" \notin Requests
  BY DEF ByTheBook
<1>1. \/ Spawn \/ SpawnFails \/ SpawnDual \/ RequestCreate \/ \E p \in Pid : Exec(p)
  BY <1>0 DEF Request, Fork, ForkTimesOut, WaitChild, Kill, Stop, Continue, Block, Unblock, Schedule,
              ContextSwitch, RequestSemWait, RequestLockAcquire, RequestLockRelease, RequestSemSignal, Serving
<1>2. tick.phase = "idle" /\ tick' = tick
  BY <1>1 DEF Spawn, SpawnFails, SpawnDual, RequestCreate, Exec, Serving, Idle
<1>3. HaltedBlocks' /\ tick'.phase # "hung"
  BY <1>2 DEF HaltedBlocks
<1>4. /\ pstate \in [Pid -> Status] /\ lock_addr \in [Pid -> SyncId] /\ cs \in [Pid -> Section]
      /\ loaded \subseteq Pid /\ next_pid \in Nat /\ Pid \subseteq Nat
  BY Constants DEF IInv, TypeOK
<1>5. \A q \in Pid : q >= next_pid => cs[q] = Outside
  BY DEF IInv, TableHasCpu, InTable, SyncParts, Alive, Awake
<1>6. CASE RequestCreate
  <2>1. UNCHANGED <<pstate, lock_addr, loaded, cs>>
    BY <1>6 DEF RequestCreate, procVars, treeVars
  <2>2. \/ CreateMutex
        \/ SemIds \subseteq {0} /\ \E v \in 0 .. MaxSem : CreateSemaphore(v)
    BY <1>6 DEF RequestCreate, Serving, ByTheBook
  <2> QED
    BY <1>3, <2>1, <2>2, CreateSync DEF SyncInv
<1>7. ASSUME NEW p \in Pid, Exec(p)
      PROVE  SyncInv'
  <2>1. /\ UNCHANGED <<sem, nsem, mutex>> /\ loaded' = loaded \cup {p} /\ p \notin loaded
        /\ pstate' = [pstate EXCEPT ![p] = "Ready"] /\ lock_addr' = [lock_addr EXCEPT ![p] = 0]
        /\ cs' = [cs EXCEPT ![p] = Outside]
    BY <1>0, <1>7 DEF Exec, Serving, syncVars
  <2>2. cs[p] = Outside
    BY <2>1 DEF SyncParts, Alive
  <2>3. \A q \in Pid : cs'[q] = cs[q]
    BY <1>4, <2>1, <2>2
  <2>4. \A q \in Pid : \/ pstate'[q] = pstate[q] /\ lock_addr'[q] = lock_addr[q]
                       \/ pstate[q] \in Awake /\ pstate'[q] \in Awake
                       \/ cs[q] = Outside /\ pstate'[q] \notin {"Zombie", "WaitLock"}
    BY <1>4, <2>1, <2>2
  <2>5. loaded \subseteq loaded'
    BY <2>1
  <2> QED
    BY <1>3, <2>1, <2>3, <2>4, <2>5, SyncKept DEF SyncInv
<1>8. CASE Spawn \/ SpawnFails \/ SpawnDual
  <2>1. UNCHANGED <<sem, nsem, mutex, lock_addr, cs>> /\ loaded \subseteq loaded'
    BY <1>8 DEF Spawn, SpawnFails, SpawnDual, syncVars
  <2>2. \A q \in Pid : \/ pstate'[q] = pstate[q]
                       \/ q >= next_pid /\ pstate'[q] \in {"Ready", "Creating"}
    BY <1>4, <1>8 DEF Spawn, SpawnFails, SpawnDual, NewProcess
  <2>3. \A q \in Pid : \/ pstate'[q] = pstate[q] /\ lock_addr'[q] = lock_addr[q]
                       \/ pstate[q] \in Awake /\ pstate'[q] \in Awake
                       \/ cs[q] = Outside /\ pstate'[q] \notin {"Zombie", "WaitLock"}
    BY <1>5, <2>1, <2>2
  <2> QED
    BY <1>3, <2>1, <2>3, SyncKept DEF SyncInv
<1> QED
  BY <1>1, <1>6, <1>7, <1>8

\* Every step keeps the invariant.
LEMMA NextSync ==
    ASSUME IInv, ExactInv, ExactInv', SyncInv, ByTheBook, [Next]_vars
    PROVE  SyncInv'
<1>1. CASE UNCHANGED vars
  <2>1. UNCHANGED <<pstate, lock_addr, cpu, loaded, sem, nsem, mutex, cs, tick>>
    BY <1>1 DEF vars
  <2>2. CASE tick.phase = "hung"
    <3>1. \A i \in SyncId, k \in {"sem", "lock"} : Inside(k, i)' = Inside(k, i)
      BY <2>1 DEF Inside
    <3> QED
      BY <2>1, <2>2, <3>1 DEF SyncInv, Alone
  <2>3. CASE tick.phase # "hung"
    <3>1. SyncParts /\ HaltedBlocks'
      BY <2>1, <2>3 DEF SyncInv, SyncParts, HaltedBlocks
    <3>2. SyncParts'
      BY <2>1, <3>1, SyncKept
    <3> QED
      BY <2>1, <2>3, <3>2 DEF SyncInv
  <2> QED
    BY <2>2, <2>3
<1>2. CASE Next
  <2>1. tick.phase # "hung"
    BY <1>2 DEF Next, Timer, StartTick, Slot, HaltCheck, Reap, Instruction, Executing,
                Plain, Halt, SyscallExit, SyscallCreate, SyscallFork, SyscallExec, FaultInit,
                SyscallSemWait, SyscallSemSignal, SyscallLockAcquire, SyscallLockRelease, Request,
                Spawn, SpawnFails, SpawnDual, RequestCreate, Fork, ForkTimesOut, Exec,
                WaitChild, Kill, Stop, Continue, Block, Unblock, Schedule, ContextSwitch,
                RequestSemWait, RequestSemSignal, RequestLockAcquire, RequestLockRelease, Serving, Idle
  <2>2. ExactParts /\ SyncParts
    BY <2>1 DEF ExactInv, SyncInv
  <2>3. CASE Timer
    <3>1. tick'.phase # "hung"
      <4>0. tick \in TickState
        BY DEF IInv, TypeOK
      <4>1. IdleTick.phase = "idle" /\ [IdleTick EXCEPT !.phase = "slot"].phase = "slot"
        BY DEF IdleTick
      <4>2. CASE StartTick
        BY <4>1, <4>2 DEF StartTick
      <4>3. CASE Slot
        BY <4>0, <4>3 DEF Slot, TickState
      <4>4. CASE HaltCheck
        BY <4>0, <4>4 DEF HaltCheck, TickState
      <4>5. CASE Reap
        <5>1. tick' = [tick EXCEPT !.phase = "slot", !.c = @ + 1] \/ tick' = IdleTick
          BY <4>5 DEF Reap
        <5>2. [tick EXCEPT !.phase = "slot", !.c = @ + 1].phase = "slot"
          BY <4>0 DEF TickState
        <5> QED
          BY <4>1, <5>1, <5>2
      <4> QED
        BY <2>3, <4>2, <4>3, <4>4, <4>5 DEF Timer
    <3> QED
      BY <2>2, <2>3, <3>1, TimerSync DEF ExactInv, SyncInv
  <2>4. CASE Instruction
    BY <2>2, <2>4, InstructionSync
  <2>5. CASE Request
    BY <2>2, <2>5, RequestSync
  <2> QED
    BY <1>2, <2>3, <2>4, <2>5 DEF Next
<1> QED
  BY <1>1, <1>2

\* SyncInv holds throughout.
LEMMA AlwaysSync ==
    ASSUME ByTheBook
    PROVE  Spec => []SyncInv
<1>1. WellBehaved
  BY DEF ByTheBook, WellBehaved
<1>2. Spec => []ExactInv
  BY <1>1, AlwaysExact
<1>3. IInv /\ ExactInv /\ ExactInv' /\ SyncInv /\ [Next]_vars => SyncInv'
  BY NextSync
<1> QED
  BY <1>2, <1>3, InitSync, AlwaysIInv, PTL DEF Spec

\* docs/syncdemo.md: programs that pair their sem_wait and sem_signal, acquire
\* and release, and do not die in between, are never two inside, for any number
\* of processes, CPUs, semaphores and mutexes, and whichever waiter is woken.
THEOREM OneAtATime ==
    ASSUME ByTheBook
    PROVE  Spec => []MutualExclusion
<1>1. IInv /\ SyncInv => MutualExclusion
  <2> SUFFICES ASSUME IInv, SyncInv, NEW i \in SyncId, NEW k \in {"sem", "lock"}
               PROVE  Cardinality(Inside(k, i)) <= 1
    BY DEF MutualExclusion
  <2>1. Alone
    BY OwnersAlone DEF SyncInv
  <2>2. CASE Inside(k, i) = {}
    BY <2>2, FS_EmptySet
  <2>3. CASE \E p : p \in Inside(k, i)
    <3>1. PICK p : p \in Inside(k, i)
      BY <2>3
    <3>2. Inside(k, i) = {p}
      BY <2>1, <3>1 DEF Alone
    <3> QED
      BY <3>2, FS_Singleton
  <2> QED
    BY <2>2, <2>3
<1> QED
  BY <1>1, AlwaysSync, AlwaysIInv, PTL

\* No wake-up is lost (syscalls 201 to 205): as long as the service runs,
\* whoever is blocked has somebody inside who will wake it.
THEOREM NoLostWakeUp ==
    ASSUME ByTheBook
    PROVE  Spec => []WaitersHaveHolder
<1>1. IInv /\ SyncInv => WaitersHaveHolder
  <2> SUFFICES ASSUME IInv, SyncParts, NEW w \in Pid, pstate[w] = "WaitLock"
               PROVE  \/ Inside("sem", lock_addr[w]) # {} /\ sem[lock_addr[w]] = 0
                      \/ Inside("lock", lock_addr[w]) # {} /\ mutex[lock_addr[w]] # NoPid
    BY DEF SyncInv, WaitersHaveHolder
  <2> DEFINE i == lock_addr[w]
  <2>1. i \in SyncId
    BY DEF IInv, TypeOK
  <2>2. CASE Past(w, "sem", i)
    <3>1. i \in SemIds /\ i < nsem
      BY <2>1, <2>2 DEF SyncParts, Existing
    <3>2. sem[i] = 0 /\ \E h \in Pid : Inside("sem", i) = {h}
      BY <2>2, <3>1 DEF SyncParts, SemOwned
    <3> QED
      BY <3>2
  <2>3. CASE Past(w, "lock", i)
    <3>1. i \in LockIds
      BY <2>1, <2>3 DEF SyncParts, Existing
    <3>2. mutex[i] # NoPid /\ Inside("lock", i) = {mutex[i]}
      BY <2>3, <3>1 DEF SyncParts, LockOwned
    <3> QED
      BY <3>2
  <2> QED
    BY <2>2, <2>3 DEF SyncParts, Alive
<1> QED
  BY <1>1, AlwaysSync, AlwaysIInv, PTL

-----------------------------------------------------------------------------
(* One slot per process and interrupt, on the two CPUs the service has *)

\* p cannot execute: it is not runnable, and its CPU is halted or gone.
Inert(p) == cpu[p] # "live" /\ pstate[p] \in {"Free", "WaitIo", "WaitLock", "Zombie"}

\* What CPU 0 executed is still on it or cannot execute, even if the queue
\* has another entry of it, until CPU 1 has been given its process.
TickInv ==
    /\ ran[0] = NoPid \/ ran[0] # ran[1]
    /\ tick.phase = "idle" => ran[0] = NoPid /\ ran[1] = NoPid
    /\ tick.phase = "slot" => ran[1] = NoPid /\ (tick.c = 0 => ran[0] = NoPid)
    /\ tick.phase = "exec" => sched.current[tick.c] = tick.pid
    /\ tick.phase \in {"exec", "halt"} => ran[tick.c] \in {NoPid, tick.pid}
    /\ tick.phase \in {"exec", "halt", "reap"} /\ tick.c = 0 => ran[1] = NoPid
    /\ \/ tick.phase \in {"exec", "halt", "reap"} /\ tick.c = 0
       \/ tick.phase = "slot" /\ tick.c = 1
       => ran[0] = NoPid \/ sched.current[0] = ran[0] \/ Inert(ran[0])
    /\ tick.phase = "exec" /\ tick.c = 1 => tick.pid # ran[0]

\* A service that has just started has executed nothing.
LEMMA InitTick ==
    ASSUME CPU = {0, 1}
    PROVE  Init => TickInv
<1> SUFFICES ASSUME Init
             PROVE  TickInv
  OBVIOUS
<1>1. ran[0] = NoPid /\ ran[1] = NoPid /\ tick.phase = "idle"
  BY DEF Init, IdleTick
<1> QED
  BY <1>1 DEF TickInv

\* What an instruction of p does to its slot: it ends the slot with p off
\* the CPU and unable to execute, or leaves the CPU as it is.
Executed(p) ==
    \/ tick' = [tick EXCEPT !.phase = "hung"] /\ ran' = ran
    \/ /\ tick' = [tick EXCEPT !.phase = "halt"] /\ ran' = [ran EXCEPT ![tick.c] = p]
       /\ sched'.current = sched.current \/ Inert(p)'
    \/ /\ tick' = [tick EXCEPT !.steps = @ + 1] /\ ran' = [ran EXCEPT ![tick.c] = p]
       /\ sched'.current = sched.current

\* Instructions that stop the process.
LEMMA StoppedInert ==
    ASSUME IInv, NEW p \in Pid, NEW st \in {"Zombie", "WaitLock"},
           Stepped(p, TRUE), pstate' = WithState(p, st), cpu' = Halted(p)
    PROVE  Executed(p)
<1>1. pstate \in [Pid -> Status] /\ cpu \in [Pid -> CpuState]
  BY DEF IInv, TypeOK
<1>2. pstate'[p] \in {"Free", "Zombie", "WaitLock"} /\ cpu'[p] = "halted"
  BY <1>1 DEF WithState, InTable, Halted
<1> QED
  BY <1>2 DEF Stepped, Executed, Inert

\* Instructions that let the process go on.
LEMMA StaysOn ==
    ASSUME NEW p \in Pid, Hang \/ Stepped(p, FALSE) \/ Stepped(p, TRUE), sched'.current = sched.current
    PROVE  Executed(p)
  BY DEF Hang, Stepped, Executed

\* Every instruction is of one kind or the other.
LEMMA InstructionExecutes ==
    ASSUME IInv, Instruction
    PROVE  \E p \in Pid : tick.phase = "exec" /\ tick.pid = p /\ Executed(p)
<1>0. PICK p \in Pid :
        \/ Plain(p) \/ Halt(p) \/ SyscallExit(p) \/ SyscallCreate(p)
        \/ SyscallFork(p) \/ SyscallExec(p) \/ (p = InitPid /\ FaultInit)
        \/ \E i \in SemIds : SyscallSemWait(p, i) \/ SyscallSemSignal(p, i)
        \/ \E i \in LockIds : SyscallLockAcquire(p, i) \/ SyscallLockRelease(p, i)
  BY DEF Instruction
<1>1. tick.phase = "exec" /\ tick.pid = p
  BY <1>0 DEF Plain, Halt, SyscallExit, SyscallCreate, SyscallFork, SyscallExec, FaultInit,
              SyscallSemWait, SyscallSemSignal, SyscallLockAcquire, SyscallLockRelease, Executing
<1>2. sched \in SchedulerState /\ \A w \in Pid : ready(sched, w).current = sched.current
  BY ReadyKnown DEF IInv, TypeOK
<1>3. \A i : \A w \in Waiters(i) : w \in Pid
  BY DEF Waiters
<1>4. CASE Plain(p) \/ Halt(p) \/ SyscallCreate(p) \/ SyscallFork(p) \/ SyscallExec(p) \/ (p = InitPid /\ FaultInit)
  <2>1. sched' = sched /\ (Hang \/ Stepped(p, FALSE) \/ Stepped(p, TRUE))
    BY <1>4 DEF Plain, Halt, SyscallCreate, SyscallFork, SyscallExec, FaultInit, procVars
  <2> QED
    BY <1>1, <2>1, StaysOn
<1>5. CASE SyscallExit(p)
  <2> DEFINE st == "Zombie"
  <2>1. st \in {"Zombie", "WaitLock"} /\ Stepped(p, TRUE) /\ pstate' = WithState(p, st) /\ cpu' = Halted(p)
    BY <1>5 DEF SyscallExit
  <2> HIDE DEF st
  <2> QED
    BY <1>1, <2>1, StoppedInert
<1>6. ASSUME NEW i, BlockOn(p, i)
      PROVE  Executed(p)
  <2> DEFINE st == "WaitLock"
  <2>1. st \in {"Zombie", "WaitLock"} /\ Stepped(p, TRUE) /\ pstate' = WithState(p, st) /\ cpu' = Halted(p)
    BY <1>6 DEF BlockOn
  <2> HIDE DEF st
  <2> QED
    BY <2>1, StoppedInert
<1>7. ASSUME NEW i, \/ SyscallSemWait(p, i) \/ SyscallSemSignal(p, i)
                    \/ SyscallLockAcquire(p, i) \/ SyscallLockRelease(p, i)
      PROVE  Executed(p)
  <2>1. \/ BlockOn(p, i)
        \/ (Hang \/ Stepped(p, FALSE)) /\ (sched' = sched \/ \E w \in Waiters(i) : sched' = ready(sched, w))
    BY <1>7 DEF SyscallSemWait, SyscallSemSignal, SyscallLockAcquire, SyscallLockRelease, WakeUp
  <2>2. CASE BlockOn(p, i)
    BY <1>6, <2>2
  <2>3. CASE (Hang \/ Stepped(p, FALSE)) /\ (sched' = sched \/ \E w \in Waiters(i) : sched' = ready(sched, w))
    <3>1. sched'.current = sched.current
      BY <1>2, <1>3, <2>3
    <3> QED
      BY <2>3, <3>1, StaysOn
  <2> QED
    BY <2>1, <2>2, <2>3
<1> QED
  BY <1>0, <1>1, <1>4, <1>5, <1>7

\* An instruction is the only one of its process in this interrupt.
LEMMA InstructionTick ==
    ASSUME CPU = {0, 1}, IInv, TickInv, Instruction
    PROVE  TickInv'
<1>0. PICK p \in Pid : tick.phase = "exec" /\ tick.pid = p /\ Executed(p)
  BY InstructionExecutes
<1>1. /\ tick \in TickState /\ tick.c \in {0, 1} /\ ran \in [{0, 1} -> Pid \cup {NoPid}] /\ NoPid \notin Pid
  BY Constants DEF IInv, TypeOK, TickState
<1>2. /\ sched.current[tick.c] = p /\ ran[tick.c] \in {NoPid, p}
      /\ tick.c = 0 => ran[1] = NoPid
      /\ tick.c = 1 => p # ran[0]
  BY <1>0 DEF TickInv
<1>3. CASE tick' = [tick EXCEPT !.phase = "hung"] /\ ran' = ran
  <2>1. tick'.phase = "hung"
    BY <1>1, <1>3 DEF TickState
  <2> QED
    BY <1>3, <2>1 DEF TickInv
<1>4. CASE ran' = [ran EXCEPT ![tick.c] = p] /\ tick'.phase \in {"exec", "halt"}
           /\ tick'.c = tick.c /\ tick'.pid = p
           /\ (tick'.phase = "exec" => sched'.current = sched.current)
           /\ (sched'.current = sched.current \/ Inert(p)')
  <2>1. CASE tick.c = 0
    <3>1. ran'[0] = p /\ ran'[1] = NoPid
      BY <1>1, <1>2, <1>4, <2>1
    <3>2. sched'.current[0] = p \/ Inert(p)'
      BY <1>2, <1>4, <2>1
    <3> QED
      BY <1>1, <1>2, <1>4, <2>1, <3>1, <3>2 DEF TickInv, Inert
  <2>2. CASE tick.c = 1
    <3>1. ran'[1] = p /\ ran'[0] = ran[0]
      BY <1>1, <1>4, <2>2
    <3> QED
      BY <1>1, <1>2, <1>4, <2>2, <3>1 DEF TickInv
  <2> QED
    BY <1>1, <2>1, <2>2
<1>5. CASE /\ tick' = [tick EXCEPT !.phase = "halt"] /\ ran' = [ran EXCEPT ![tick.c] = p]
           /\ sched'.current = sched.current \/ Inert(p)'
  BY <1>0, <1>1, <1>4, <1>5 DEF TickState
<1>6. CASE /\ tick' = [tick EXCEPT !.steps = @ + 1] /\ ran' = [ran EXCEPT ![tick.c] = p]
           /\ sched'.current = sched.current
  BY <1>0, <1>1, <1>4, <1>6 DEF TickState
<1> QED
  BY <1>0, <1>3, <1>5, <1>6 DEF Executed

\* The switch of CPU 1 does not bring a process back that cannot execute.
LEMMA InertStays ==
    ASSUME IInv, NEW p \in Pid, Inert(p)
    PROVE  Switched(p)[p] = pstate[p]
<1>1. pstate \in [Pid -> Status]
  BY DEF IInv, TypeOK
<1> DEFINE prev == last[tick.c]
           demote == /\ prev # NoPid /\ prev # p
                     /\ \A d \in CPU \ {tick.c} : last[d] # prev
                     /\ pstate[prev] = "Running"
           st == IF demote THEN [pstate EXCEPT ![prev] = "Ready"] ELSE pstate
<1>2. st[p] = pstate[p]
  BY <1>1
<1>3. Switched(p) = IF st[p] \in {"Ready", "Creating"} THEN [st EXCEPT ![p] = "Running"] ELSE st
  BY DEF Switched
<1> HIDE DEF st
<1> QED
  BY <1>2, <1>3 DEF Inert

\* CPU 1 may be given what CPU 0 executed, but does not execute it.
LEMMA SlotTick ==
    ASSUME CPU = {0, 1}, IInv, TickInv, Slot
    PROVE  TickInv'
<1> DEFINE p == Decision.current[tick.c]
<1>1. /\ tick \in TickState /\ tick.c \in {0, 1} /\ tick.phase = "slot" /\ ran' = ran /\ NoPid \notin Pid
      /\ cpu \in [Pid -> CpuState] /\ sched' = Decision
  BY Constants DEF IInv, TypeOK, TickState, Slot
<1>2. ran[1] = NoPid /\ (tick.c = 0 => ran[0] = NoPid)
  BY <1>1 DEF TickInv
<1>3. /\ sched' \in SchedulerState /\ Exclusive(sched')
      /\ sched'.current = [sched.current EXCEPT ![tick.c] = p] /\ sched'.current[tick.c] = p
      /\ sched.current \in [{0, 1} -> Pid \cup {NoPid}]
  BY <1>1, SlotDecision DEF IInv, TypeOK, SchedulerState
<1>4. CASE p = NoPid
  <2>1. tick'.phase = "reap" /\ tick'.c = tick.c
    BY <1>1, <1>4 DEF Slot, TickState
  <2>2. CASE tick.c = 0
    BY <1>1, <1>2, <2>1, <2>2 DEF TickInv
  <2>3. CASE tick.c = 1
    BY <1>1, <1>2, <2>1, <2>3 DEF TickInv
  <2> QED
    BY <1>1, <2>2, <2>3
<1>5. CASE p # NoPid
  <2>1. /\ p \in Pid
        /\ cpu' = IF cpu[p] = "halted" /\ Switched(p)[p] \in {"Ready", "Running"}
                  THEN [cpu EXCEPT ![p] = "live"] ELSE cpu
    BY <1>1, <1>3, <1>5 DEF Slot, SchedulerState
  <2>2. tick' = [tick EXCEPT !.phase = IF cpu'[p] = "live" THEN "exec" ELSE "halt",
                             !.pid = p, !.steps = 0, !.scheduled = @ \cup {p}]
    BY <1>5 DEF Slot
  <2> HIDE DEF p
  <2>3. tick'.phase = (IF cpu'[p] = "live" THEN "exec" ELSE "halt") /\ tick'.c = tick.c /\ tick'.pid = p
    BY <1>1, <2>2 DEF TickState
  <2>4. CASE tick.c = 0
    BY <1>1, <1>2, <1>3, <2>3, <2>4 DEF TickInv
  <2>5. CASE tick.c = 1
    <3>1. ASSUME p = ran[0]
          PROVE  cpu'[p] # "live"
      <4>1. sched'.current[0] = sched.current[0] /\ sched'.current[1] = p
        BY <1>3, <2>5
      <4>2. sched.current[0] # p
        BY <1>3, <1>5, <4>1 DEF Exclusive
      <4>3. Inert(p)
        BY <1>1, <1>5, <2>5, <3>1, <4>2 DEF TickInv
      <4>4. Switched(p)[p] = pstate[p]
        BY <2>1, <4>3, InertStays
      <4> QED
        BY <1>1, <2>1, <4>3, <4>4 DEF Inert
    <3>2. tick'.phase = "exec" => p # ran[0]
      BY <2>3, <3>1
    <3> QED
      BY <1>1, <1>2, <1>3, <2>3, <2>5, <3>2 DEF TickInv
  <2> QED
    BY <1>1, <2>4, <2>5
<1> QED
  BY <1>4, <1>5

\* A process taken off CPU 0 by the halt check cannot execute.
LEMMA HaltCheckTick ==
    ASSUME CPU = {0, 1}, IInv, TickInv, HaltCheck
    PROVE  TickInv'
<1>0. PICK p \in Pid : p = tick.pid
  BY DEF IInv, HaltCheck, SlotSound
<1> DEFINE halted == p # InitPid /\ ~IsBlocked(p) /\ cpu[p] = "halted"
           stops == halted /\ pstate[p] # "Ready"
           dies == stops /\ InTable(p) /\ pstate[p] # "Zombie"
<1>1. /\ tick \in TickState /\ tick.c \in {0, 1} /\ tick.phase = "halt" /\ ran' = ran /\ NoPid \notin Pid
      /\ cpu \in [Pid -> CpuState] /\ pstate \in [Pid -> Status]
  BY Constants DEF IInv, TypeOK, TickState, HaltCheck
<1>2. tick'.phase = "reap" /\ tick'.c = tick.c
  BY <1>1 DEF HaltCheck, TickState
<1>3. CASE tick.c = 1
  BY <1>1, <1>2, <1>3 DEF TickInv
<1>4. CASE tick.c = 0
  <2>1. ran[1] = NoPid /\ ran[0] \in {NoPid, p} /\ (ran[0] = NoPid \/ sched.current[0] = ran[0] \/ Inert(ran[0]))
    BY <1>0, <1>1, <1>4 DEF TickInv
  <2>2. /\ sched' = IF stops THEN remove(sched, p) ELSE sched
        /\ cpu' = IF halted /\ ~stops THEN [cpu EXCEPT ![p] = "live"] ELSE cpu
        /\ pstate' = IF dies THEN [pstate EXCEPT ![p] = "Zombie"] ELSE pstate
    BY <1>0 DEF HaltCheck
  <2>3. ran[0] = p => sched'.current[0] = p \/ Inert(p)'
    <3> SUFFICES ASSUME ran[0] = p
                 PROVE  sched'.current[0] = p \/ Inert(p)'
      OBVIOUS
    <3>1. CASE stops
      <4>1. cpu'[p] = "halted" /\ pstate[p] \notin {"Ready", "WaitIo", "WaitLock"}
        BY <1>1, <2>2, <3>1 DEF IsBlocked
      <4>2. pstate'[p] \in {"Free", "Zombie"}
        BY <1>1, <2>2, <3>1 DEF InTable
      <4> QED
        BY <4>1, <4>2 DEF Inert
    <3>2. CASE ~stops
      <4>1. sched' = sched /\ pstate' = pstate
        BY <2>2, <3>2
      <4>2. Inert(p) => cpu'[p] = cpu[p]
        BY <1>1, <2>2 DEF Inert
      <4> QED
        BY <1>1, <2>1, <4>1, <4>2 DEF Inert
    <3> QED
      BY <3>1, <3>2
  <2> QED
    BY <1>1, <1>2, <1>4, <2>1, <2>3 DEF TickInv, Inert
<1> QED
  BY <1>1, <1>3, <1>4

\* The reaper leaves what cannot execute unable to.
LEMMA ReapTick ==
    ASSUME CPU = {0, 1}, IInv, TickInv, Reap
    PROVE  TickInv'
<1>1. /\ tick \in TickState /\ tick.c \in {0, 1} /\ tick.phase = "reap" /\ sched' = sched
      /\ cpu \in [Pid -> CpuState] /\ pstate \in [Pid -> Status] /\ ran \in [{0, 1} -> Pid \cup {NoPid}]
  BY DEF IInv, TypeOK, TickState, Reap
<1>2. CASE tick.c = 1
  <2>1. tick' = IdleTick /\ ran'[0] = NoPid /\ ran'[1] = NoPid
    BY <1>2 DEF Reap
  <2>2. tick'.phase = "idle"
    BY <2>1 DEF IdleTick
  <2> QED
    BY <2>1, <2>2 DEF TickInv
<1>3. CASE tick.c = 0
  <2>1. tick' = [tick EXCEPT !.phase = "slot", !.c = @ + 1] /\ ran' = ran
    BY <1>3 DEF Reap
  <2>2. tick'.phase = "slot" /\ tick'.c = 1
    BY <1>1, <1>3, <2>1 DEF TickState
  <2>3. \A q \in Pid : Inert(q) => Inert(q)'
    BY <1>1 DEF Reap, ReapProcess, Zombies, Inert
  <2>4. ran[1] = NoPid /\ (ran[0] = NoPid \/ sched.current[0] = ran[0] \/ Inert(ran[0]))
    BY <1>1, <1>3 DEF TickInv
  <2>5. ran[0] = NoPid \/ sched'.current[0] = ran[0] \/ Inert(ran[0])'
    BY <1>1, <2>1, <2>3, <2>4 DEF Inert
  <2> QED
    BY <2>1, <2>2, <2>4, <2>5 DEF TickInv, Inert
<1> QED
  BY <1>1, <1>2, <1>3

\* Every step keeps TickInv; requests are served between two interrupts.
LEMMA NextTick ==
    ASSUME CPU = {0, 1}, IInv, TickInv, [Next]_vars
    PROVE  TickInv'
<1>1. CASE UNCHANGED vars
  BY <1>1 DEF vars, TickInv, Inert
<1>2. CASE StartTick
  <2>1. tick' = [IdleTick EXCEPT !.phase = "slot"] /\ ran' = ran /\ ran[0] = NoPid /\ ran[1] = NoPid
    BY <1>2 DEF StartTick, Idle, TickInv
  <2>2. tick'.phase = "slot" /\ tick'.c = 0
    BY <2>1 DEF IdleTick
  <2> QED
    BY <2>1, <2>2 DEF TickInv
<1>3. CASE Request
  <2>1. tick.phase = "idle" /\ tick' = tick /\ ran' = ran
    BY <1>3 DEF Request, Spawn, SpawnFails, SpawnDual, RequestCreate, Fork, ForkTimesOut, Exec,
                WaitChild, Kill, Stop, Continue, Block, Unblock, Schedule, ContextSwitch,
                RequestSemWait, RequestSemSignal, RequestLockAcquire, RequestLockRelease, Serving, Idle
  <2> QED
    BY <2>1 DEF TickInv
<1> QED
  BY <1>1, <1>2, <1>3, InstructionTick, SlotTick, HaltCheckTick, ReapTick DEF Next, Timer

\* "SMP: schedule one unique process per vCPU each tick" (service.rs), for the
\* two CPUs the service is built with: whatever requests duplicated in the
\* queue, killed or stopped, no process executes in both slots of a tick.
THEOREM OneSlotPerTick ==
    ASSUME CPU = {0, 1}
    PROVE  Spec => []ExecutesOncePerTick
<1>1. Init => TickInv
  BY InitTick
<1>2. IInv /\ TickInv /\ [Next]_vars => TickInv'
  BY NextTick
<1>3. TickInv => ExecutesOncePerTick
  BY DEF TickInv, ExecutesOncePerTick
<1> QED
  BY <1>1, <1>2, <1>3, AlwaysIInv, PTL DEF Spec
=============================================================================

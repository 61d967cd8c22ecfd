--------------------------- MODULE ProcessService ---------------------------
(***************************************************************************)
(* The process service (services/process/service.rs): one thread that      *)
(* serves timer interrupts and requests, one at a time, over the process   *)
(* table, the scheduler, the virtual CPUs of the processes, the            *)
(* semaphores and mutexes, and the parents waiting for a child.            *)
(*                                                                         *)
(* A timer interrupt runs every virtual CPU for one slot: schedule, up to  *)
(* StepsPerSlot instructions of the chosen process, the check for a halted *)
(* CPU, the reaper.  No request is served in between, so each part is a    *)
(* step of its own and tick.phase says which comes next.                   *)
(*                                                                         *)
(* Memory, file and device services are not part of this module: what a    *)
(* process does through them leaves the state below unchanged.             *)
(***************************************************************************)
EXTENDS SchedulerOps, FiniteSets

CONSTANTS
    SyncId,        \* ids of semaphores and of mutexes, 0 .. n
    SemIds,        \* the semaphores programs use
    LockIds,       \* the mutexes programs use
    StepsPerSlot,  \* instructions per slot (3 in the code)
    Program,       \* the instructions processes execute, see Instruction
    Requests,      \* the requests clients send, see Request
    Disciplined,   \* do processes pair sem_wait/sem_signal and acquire/release?
    MaxQueue,      \* bound: queue length below which requests may add an entry
    MaxSem,        \* bound on a semaphore's value
    MaxWaits       \* bound on unanswered WaitChild requests of one child

InitPid == 1
LastPid == Cardinality(Pid)
Status  == {"Free", "Creating", "Ready", "Running", "WaitIo", "WaitLock", "Zombie"}
Phase   == {"idle", "slot", "exec", "halt", "reap", "hung"}
Outside == <<"none", 0>>

ASSUME ServiceAssumption ==
    /\ IsFiniteSet(Pid) /\ Pid = 1 .. LastPid /\ InitPid \in Pid
    /\ IsFiniteSet(CPU) /\ CPU = 0 .. Cardinality(CPU) - 1 /\ 0 \in CPU
    /\ SyncId \subseteq Nat /\ 0 \in SyncId
    /\ \A i \in SyncId : 0 .. i \subseteq SyncId
    /\ SemIds \cup LockIds \subseteq SyncId
    /\ StepsPerSlot \in Nat \ {0}
    /\ Disciplined \in BOOLEAN
    /\ MaxQueue \in Nat /\ MaxSem \in Nat \ {0} /\ MaxWaits \in Nat

VARIABLES
    pstate,    \* process_table: PCB state; "Free" when the table has no entry
    lock_addr, \* the id a "WaitLock" process waits for (0 otherwise)
    cpu,       \* cpus: "none", or whether the process's CPU is "live" or "halted"
    sched,     \* scheduler
    last,      \* last_running
    next_pid,
    loaded,    \* the pids whose PCB exec_impl has given a program
    children,  \* parent_children
    waiting,   \* waiting_parents: unanswered WaitChild requests, by child
    sem,       \* semaphore values; ids below nsem exist
    nsem,
    mutex,     \* mutex owners; ids below nmutex exist
    nmutex,
    cs,        \* where a disciplined program is: Outside, or inside <<kind, id>>
    tick,      \* the timer interrupt being handled
    ran        \* history: the pid that executed in each slot of this interrupt

vars == <<pstate, lock_addr, cpu, sched, last, next_pid, loaded, children, waiting,
          sem, nsem, mutex, nmutex, cs, tick, ran>>

procVars == <<pstate, lock_addr, cpu>>
syncVars == <<sem, nsem, mutex, nmutex>>
treeVars == <<next_pid, loaded, children>>

-----------------------------------------------------------------------------
InTable(p)   == pstate[p] # "Free"
IsBlocked(p) == pstate[p] \in {"WaitIo", "WaitLock"}

\* The table entry of p after a handler assigns its state; no entry, no change.
WithState(p, st) == IF InTable(p) THEN [pstate EXCEPT ![p] = st] ELSE pstate
WithAddr(p, i)   == IF InTable(p) THEN [lock_addr EXCEPT ![p] = i] ELSE lock_addr

Idle == tick.phase = "idle"
IdleTick == [phase |-> "idle", c |-> 0, pid |-> NoPid, steps |-> 0, scheduled |-> {}]

\* ProcessService::new and the first lines of run(): semaphore 0 (value 1)
\* and mutex 0 exist, and init, PID 1, has been created but not scheduled.
Init ==
    /\ pstate = [p \in Pid |-> IF p = InitPid THEN "Creating" ELSE "Free"]
    /\ lock_addr = [p \in Pid |-> 0]
    /\ cpu = [p \in Pid |-> IF p = InitPid THEN "live" ELSE "none"]
    /\ sched = NewScheduler
    /\ last = [c \in CPU |-> NoPid]
    /\ next_pid = InitPid + 1
    /\ loaded = {}
    /\ children = [p \in Pid |-> {}]
    /\ waiting = [p \in Pid |-> 0]
    /\ sem = [i \in SyncId |-> IF i = 0 THEN 1 ELSE 0]
    /\ nsem = 1
    /\ mutex = [i \in SyncId |-> NoPid]
    /\ nmutex = 1
    /\ cs = [p \in Pid |-> Outside]
    /\ tick = IdleTick
    /\ ran = [c \in CPU |-> NoPid]

-----------------------------------------------------------------------------
(* Timer interrupt *)

StartTick ==
    /\ Idle
    /\ tick' = [IdleTick EXCEPT !.phase = "slot"]
    /\ UNCHANGED <<procVars, sched, last, treeVars, waiting, syncVars, cs, ran>>

\* The decision for this CPU: schedule(), and when that pid already had a
\* slot in this interrupt, yield_current() once.
Decision ==
    LET s == schedule(sched, tick.c)
        p == s.current[tick.c]
    IN  IF p # NoPid /\ p \in tick.scheduled THEN yield_current(s, tick.c) ELSE s

\* Mutant of Switched: the preempted process is left Running.
SwitchedWithoutDemotion(p) ==
    IF pstate[p] \in {"Ready", "Creating"} THEN [pstate EXCEPT ![p] = "Running"] ELSE pstate

\* The PCB states once CPU c switches to p: the pid it ran before goes back
\* to Ready unless another CPU ran it last, and p becomes Running.
Switched(p) ==
    LET prev   == last[tick.c]
        demote == /\ prev # NoPid /\ prev # p
                  /\ \A d \in CPU \ {tick.c} : last[d] # prev
                  /\ pstate[prev] = "Running"
        st     == IF demote THEN [pstate EXCEPT ![prev] = "Ready"] ELSE pstate
    IN  IF st[p] \in {"Ready", "Creating"} THEN [st EXCEPT ![p] = "Running"] ELSE st

Slot ==
    /\ tick.phase = "slot"
    /\ sched' = Decision
    /\ LET p == Decision.current[tick.c]
       IN  /\ last' = [last EXCEPT ![tick.c] = p]
           /\ \/ /\ p = NoPid
                 /\ tick' = [tick EXCEPT !.phase = "reap", !.pid = NoPid]
                 /\ UNCHANGED <<pstate, cpu>>
              \/ /\ p # NoPid
                 /\ pstate' = Switched(p)
                 /\ cpu' = IF cpu[p] = "halted" /\ Switched(p)[p] \in {"Ready", "Running"}
                           THEN [cpu EXCEPT ![p] = "live"] ELSE cpu
                 /\ tick' = [tick EXCEPT !.phase = IF cpu'[p] = "live" THEN "exec" ELSE "halt",
                                         !.pid = p, !.steps = 0,
                                         !.scheduled = @ \cup {p}]
    /\ UNCHANGED <<lock_addr, treeVars, waiting, syncVars, cs, ran>>

\* A process that stops without exit() gives back semaphore 0 if its value
\* is 0, whoever holds it, and mutex 0 if it owns it.
ReleaseSem0  == IF sem[0] = 0 THEN [sem EXCEPT ![0] = 1] ELSE sem
ReleaseMutex0(p) == IF mutex[0] = p THEN [mutex EXCEPT ![0] = NoPid] ELSE mutex

\* "xv6-style: halt -> Zombie": after the slot, a halted CPU that is not
\* blocked ends its process and answers the first parent waiting for it.
\* A process that is a zombie already (exit) or gone is only taken off the
\* scheduler.
HaltCheck ==
    LET p      == tick.pid
        halted == p # InitPid /\ ~IsBlocked(p) /\ cpu[p] = "halted"
        stops  == halted /\ pstate[p] # "Ready"
        dies   == stops /\ InTable(p) /\ pstate[p] # "Zombie"
    IN  /\ tick.phase = "halt"
        /\ sched' = IF stops THEN remove(sched, p) ELSE sched
        /\ cpu' = IF halted /\ ~stops THEN [cpu EXCEPT ![p] = "live"] ELSE cpu
        /\ pstate' = IF dies THEN [pstate EXCEPT ![p] = "Zombie"] ELSE pstate
        /\ sem' = IF dies THEN ReleaseSem0 ELSE sem
        /\ mutex' = IF dies THEN ReleaseMutex0(p) ELSE mutex
        /\ waiting' = IF dies /\ waiting[p] > 0 THEN [waiting EXCEPT ![p] = @ - 1] ELSE waiting
        /\ tick' = [tick EXCEPT !.phase = "reap", !.pid = NoPid, !.steps = 0]
        /\ UNCHANGED <<lock_addr, last, treeVars, nsem, nmutex, cs, ran>>

\* Mutants of ReapProcess: the check for init, or the removal of the table
\* entry, is forgotten.
ReapAnyone(z) == /\ pstate' = [pstate EXCEPT ![z] = "Free"]
                 /\ cpu' = [cpu EXCEPT ![z] = "none"]
ReapCpuOnly(z) == /\ cpu' = IF z = InitPid THEN cpu ELSE [cpu EXCEPT ![z] = "none"]
                  /\ UNCHANGED pstate

\* reap_process(): everything but init leaves the table and loses its CPU.
\* The scheduler is not told.
ReapProcess(z) ==
    IF z = InitPid
    THEN UNCHANGED <<pstate, cpu>>
    ELSE /\ pstate' = [pstate EXCEPT ![z] = "Free"]
         /\ cpu' = [cpu EXCEPT ![z] = "none"]

\* The reaper: at most one zombie per slot, whichever the hash map yields.
Zombies == {z \in Pid : pstate[z] = "Zombie"}

Reap ==
    /\ tick.phase = "reap"
    /\ \/ Zombies = {} /\ UNCHANGED <<pstate, cpu>>
       \/ \E z \in Zombies : ReapProcess(z)
    /\ IF tick.c + 1 \in CPU
       THEN /\ tick' = [tick EXCEPT !.phase = "slot", !.c = @ + 1]
            /\ UNCHANGED ran
       ELSE /\ tick' = IdleTick
            /\ ran' = [c \in CPU |-> NoPid]
    /\ UNCHANGED <<lock_addr, sched, last, treeVars, waiting, syncVars, cs>>

-----------------------------------------------------------------------------
(* Instructions *)

Executing(p, kind) == tick.phase = "exec" /\ tick.pid = p /\ kind \in Program

\* After an instruction: on to the next one, or to the halt check when the
\* CPU has halted or the slot is used up.
Stepped(p, halts) ==
    /\ tick' = IF halts \/ tick.steps + 1 = StepsPerSlot
               THEN [tick EXCEPT !.phase = "halt"]
               ELSE [tick EXCEPT !.steps = @ + 1]
    /\ ran' = [ran EXCEPT ![tick.c] = p]

Halted(p) == [cpu EXCEPT ![p] = "halted"]

\* Anything that does not touch the service's state, page faults included.
Plain(p) ==
    /\ Executing(p, "plain")
    /\ Stepped(p, FALSE)
    /\ UNCHANGED <<procVars, sched, last, treeVars, waiting, syncVars, cs>>

\* The HALT instruction, or an instruction that fails.
Halt(p) ==
    /\ Executing(p, "halt")
    /\ Stepped(p, TRUE)
    /\ cpu' = Halted(p)
    /\ UNCHANGED <<pstate, lock_addr, sched, last, treeVars, waiting, syncVars, cs>>

\* A failing instruction only ends the slot of init.
FaultInit ==
    /\ Executing(InitPid, "halt")
    /\ Stepped(InitPid, TRUE)
    /\ UNCHANGED <<procVars, sched, last, treeVars, waiting, syncVars, cs>>

\* syscall 0.  exit() of init does nothing.
SyscallExit(p) ==
    /\ Executing(p, "exit")
    /\ p # InitPid
    /\ Stepped(p, TRUE)
    /\ pstate' = WithState(p, "Zombie")
    /\ lock_addr' = WithAddr(p, 0)
    /\ sem' = ReleaseSem0
    /\ sched' = remove(sched, p)
    /\ cpu' = Halted(p)
    /\ UNCHANGED <<last, treeVars, waiting, nsem, mutex, nmutex, cs>>

\* Mutant of BlockOn: cpu.halt() is forgotten.
BlockOnWithoutHalt(p, i) ==
    /\ Stepped(p, TRUE)
    /\ pstate' = WithState(p, "WaitLock")
    /\ lock_addr' = WithAddr(p, i)
    /\ sched' = remove(sched, p)
    /\ UNCHANGED cpu

\* Common end of sem_wait and lock_acquire when the process must wait.
BlockOn(p, i) ==
    /\ Stepped(p, TRUE)
    /\ pstate' = WithState(p, "WaitLock")
    /\ lock_addr' = WithAddr(p, i)
    /\ sched' = remove(sched, p)
    /\ cpu' = Halted(p)

\* A disciplined program enters and leaves its critical section by the book.
Enters(p, kind, i) == /\ Disciplined => cs[p] = Outside
                      /\ cs' = IF Disciplined THEN [cs EXCEPT ![p] = <<kind, i>>] ELSE cs
Leaves(p, kind, i) == /\ Disciplined => cs[p] = <<kind, i>>
                      /\ cs' = IF Disciplined THEN [cs EXCEPT ![p] = Outside] ELSE cs

\* syscall 201
SyscallSemWait(p, i) ==
    /\ Executing(p, "sem")
    /\ i < nsem
    /\ Enters(p, "sem", i)
    /\ \/ /\ sem[i] > 0
          /\ sem' = [sem EXCEPT ![i] = @ - 1]
          /\ Stepped(p, FALSE)
          /\ UNCHANGED <<procVars, sched>>
       \/ /\ sem[i] = 0
          /\ BlockOn(p, i)
          /\ UNCHANGED sem
    /\ UNCHANGED <<last, treeVars, waiting, nsem, mutex, nmutex>>

\* Whoever is blocked on this id, semaphore or mutex, in any order.
Waiters(i) == {w \in Pid : pstate[w] = "WaitLock" /\ lock_addr[w] = i}

\* Mutant of WakeUp: the state is set, the scheduler is not told.
WakeUpUnscheduled(w) ==
    /\ pstate' = [pstate EXCEPT ![w] = "Ready"]
    /\ lock_addr' = [lock_addr EXCEPT ![w] = 0]
    /\ UNCHANGED sched

WakeUp(w) ==
    /\ pstate' = [pstate EXCEPT ![w] = "Ready"]
    /\ lock_addr' = [lock_addr EXCEPT ![w] = 0]
    /\ sched' = ready(sched, w)

\* Mutants of SyscallSemSignal: the value is raised besides the hand-over to
\* a waiter, or instead of it.
SignalAndHandOver(p, i) ==
    /\ Executing(p, "sem")
    /\ Leaves(p, "sem", i)
    /\ Stepped(p, FALSE)
    /\ i < nsem /\ sem[i] < MaxSem
    /\ sem' = [sem EXCEPT ![i] = @ + 1]
    /\ \/ \E w \in Waiters(i) : WakeUp(w)
       \/ Waiters(i) = {} /\ UNCHANGED <<pstate, lock_addr, sched>>
    /\ UNCHANGED <<cpu, last, treeVars, waiting, nsem, mutex, nmutex>>

SignalIgnoringWaiters(p, i) ==
    /\ Executing(p, "sem")
    /\ Leaves(p, "sem", i)
    /\ Stepped(p, FALSE)
    /\ i < nsem /\ sem[i] < MaxSem
    /\ sem' = [sem EXCEPT ![i] = @ + 1]
    /\ UNCHANGED <<pstate, lock_addr, sched, cpu, last, treeVars, waiting, nsem, mutex, nmutex>>

\* syscall 202: hand the unit to a waiter, or raise the value.  The waiter's
\* CPU is unhalted only when it is next scheduled: the cpus mutex is held.
SyscallSemSignal(p, i) ==
    /\ Executing(p, "sem")
    /\ Leaves(p, "sem", i)
    /\ Stepped(p, FALSE)
    /\ \/ /\ Waiters(i) # {}
          /\ \E w \in Waiters(i) : WakeUp(w)
          /\ UNCHANGED sem
       \/ /\ Waiters(i) = {}
          /\ i < nsem /\ sem[i] < MaxSem
          /\ sem' = [sem EXCEPT ![i] = @ + 1]
          /\ UNCHANGED <<pstate, lock_addr, sched>>
    /\ UNCHANGED <<cpu, last, treeVars, waiting, nsem, mutex, nmutex>>

\* syscall 204: not Acquired (held by another, or by p itself) means blocked.
SyscallLockAcquire(p, i) ==
    /\ Executing(p, "lock")
    /\ i < nmutex
    /\ Enters(p, "lock", i)
    /\ \/ /\ mutex[i] = NoPid
          /\ mutex' = [mutex EXCEPT ![i] = p]
          /\ Stepped(p, FALSE)
          /\ UNCHANGED <<procVars, sched>>
       \/ /\ mutex[i] # NoPid
          /\ BlockOn(p, i)
          /\ UNCHANGED mutex
    /\ UNCHANGED <<last, treeVars, waiting, sem, nsem, nmutex>>

Released(p, i) == IF mutex[i] = p THEN [mutex EXCEPT ![i] = NoPid] ELSE mutex

\* The service thread locks the cpus mutex it already holds.
Hang == tick' = [tick EXCEPT !.phase = "hung"] /\ UNCHANGED ran

\* syscall 205.  With a waiter the handler wakes it and then locks cpus,
\* which handle_timer_interrupt holds: the service thread never returns.
SyscallLockRelease(p, i) ==
    /\ Executing(p, "lock")
    /\ Leaves(p, "lock", i)
    /\ \/ /\ Waiters(i) # {}
          /\ \E w \in Waiters(i) : WakeUp(w)
          /\ Hang
          /\ UNCHANGED mutex
       \/ /\ Waiters(i) = {}
          /\ i < nmutex
          /\ mutex' = Released(p, i)
          /\ Stepped(p, FALSE)
          /\ UNCHANGED <<pstate, lock_addr, sched>>
    /\ UNCHANGED <<cpu, last, treeVars, waiting, sem, nsem, nmutex>>

\* syscalls 200 and 203
CreateSemaphore(v) == /\ nsem \in SyncId
                      /\ sem' = [sem EXCEPT ![nsem] = v]
                      /\ nsem' = nsem + 1
                      /\ UNCHANGED <<mutex, nmutex>>
CreateMutex == /\ nmutex \in SyncId
               /\ nmutex' = nmutex + 1
               /\ UNCHANGED <<sem, nsem, mutex>>

SyscallCreate(p) ==
    /\ Executing(p, "create")
    /\ Stepped(p, FALSE)
    /\ CreateSemaphore(1) \/ CreateMutex
    /\ UNCHANGED <<procVars, sched, last, treeVars, waiting, cs>>

\* syscall 100.  fork_impl takes a pid, copies the pages and then locks
\* cpus: it returns only if the memory service lets it time out before.
SyscallFork(p) ==
    /\ Executing(p, "fork")
    /\ IF InTable(p)
       THEN /\ next_pid \in Pid
            /\ next_pid' = next_pid + 1
            /\ Hang \/ Stepped(p, FALSE)
       ELSE Stepped(p, FALSE) /\ UNCHANGED next_pid
    /\ UNCHANGED <<procVars, sched, last, loaded, children, waiting, syncVars, cs>>

\* syscall 101.  exec_impl locks cpus once the new program is in memory; it
\* returns before that if there is no such program or no memory.
SyscallExec(p) ==
    /\ Executing(p, "exec")
    /\ (InTable(p) /\ Hang) \/ Stepped(p, FALSE)
    /\ UNCHANGED <<procVars, sched, last, treeVars, waiting, syncVars, cs>>

Instruction ==
    \E p \in Pid :
        \/ Plain(p) \/ Halt(p) \/ SyscallExit(p) \/ SyscallCreate(p)
        \/ SyscallFork(p) \/ SyscallExec(p) \/ (p = InitPid /\ FaultInit)
        \/ \E i \in SemIds : SyscallSemWait(p, i) \/ SyscallSemSignal(p, i)
        \/ \E i \in LockIds : SyscallLockAcquire(p, i) \/ SyscallLockRelease(p, i)
-----------------------------------------------------------------------------
(* Requests *)

Serving(kind) == Idle /\ kind \in Requests /\ UNCHANGED <<tick, ran, last>>

RoomInQueue(n) == Len(sched.queue) + n <= MaxQueue

\* fork_impl(0): a fresh process without parent, and fork_impl(parent): a
\* copy of the parent's CPU.  Neither is scheduled before exec.
NewProcess(p, st) ==
    /\ pstate' = [pstate EXCEPT ![p] = st]
    /\ cpu' = [cpu EXCEPT ![p] = "live"]
    /\ next_pid' = p + 1

Fork(parent) ==
    /\ Serving("fork")
    /\ InTable(parent)
    /\ next_pid \in Pid
    /\ NewProcess(next_pid, "Ready")
    /\ children' = [children EXCEPT ![parent] = @ \cup {next_pid}]
    /\ cs' = [cs EXCEPT ![next_pid] = cs[parent]]
    /\ UNCHANGED <<lock_addr, sched, loaded, waiting, syncVars>>

\* The memory service does not answer in time: the pid is spent.
ForkTimesOut(parent) ==
    /\ Serving("fork")
    /\ InTable(parent)
    /\ next_pid \in Pid
    /\ next_pid' = next_pid + 1
    /\ UNCHANGED <<procVars, sched, loaded, children, waiting, syncVars, cs>>

\* exec_impl() once the program is loaded.  The shell's fork_exec_* run it
\* once per child; its exec command runs it on any pid of the table.
Exec(p) ==
    /\ \/ Serving("exec") /\ p \notin loaded \cup {InitPid}
       \/ Serving("reexec")
    /\ InTable(p)
    /\ RoomInQueue(1)
    /\ pstate' = [pstate EXCEPT ![p] = "Ready"]
    /\ lock_addr' = [lock_addr EXCEPT ![p] = 0]
    /\ cpu' = [cpu EXCEPT ![p] = "live"]
    /\ sched' = ready(sched, p)
    /\ loaded' = loaded \cup {p}
    /\ cs' = [cs EXCEPT ![p] = Outside]
    /\ UNCHANGED <<next_pid, children, waiting, syncVars>>

\* Spawn and CreateProcess: fork_impl(0) and exec_impl in one request, twice
\* for the "dual" programs.
Spawn ==
    /\ Serving("spawn")
    /\ next_pid \in Pid
    /\ RoomInQueue(1)
    /\ NewProcess(next_pid, "Ready")
    /\ sched' = ready(sched, next_pid)
    /\ loaded' = loaded \cup {next_pid}
    /\ UNCHANGED <<lock_addr, children, waiting, syncVars, cs>>

\* The program does not exist, or memory runs out: the fresh process stays.
\* ForkProcess with parent 0 leaves the same.
SpawnFails ==
    /\ Serving("spawn")
    /\ next_pid \in Pid
    /\ NewProcess(next_pid, "Creating")
    /\ UNCHANGED <<lock_addr, sched, loaded, children, waiting, syncVars, cs>>

SpawnDual ==
    /\ Serving("spawn")
    /\ {next_pid, next_pid + 1} \subseteq Pid
    /\ RoomInQueue(2)
    /\ pstate' = [pstate EXCEPT ![next_pid] = "Ready", ![next_pid + 1] = "Ready"]
    /\ cpu' = [cpu EXCEPT ![next_pid] = "live", ![next_pid + 1] = "live"]
    /\ next_pid' = next_pid + 2
    /\ sched' = ready(ready(sched, next_pid), next_pid + 1)
    /\ loaded' = loaded \cup {next_pid, next_pid + 1}
    /\ UNCHANGED <<lock_addr, children, waiting, syncVars, cs>>

\* handle_wait_child_with_response(), for a child of the caller: a reaped
\* child is answered at once, a zombie is reaped here (table and scheduler,
\* not its CPU), and a live child leaves the request waiting.
WaitChild(p) ==
    /\ Serving("wait")
    /\ \E parent \in Pid : p \in children[parent]
    /\ \/ /\ pstate[p] = "Zombie"
          /\ sched' = remove(sched, p)
          /\ pstate' = [pstate EXCEPT ![p] = "Free"]
          /\ UNCHANGED waiting
       \/ /\ pstate[p] \notin {"Zombie", "Free"}
          /\ waiting[p] < MaxWaits
          /\ waiting' = [waiting EXCEPT ![p] = @ + 1]
          /\ UNCHANGED <<sched, pstate>>
    /\ UNCHANGED <<lock_addr, cpu, treeVars, syncVars, cs>>

\* Kill and Terminate: the process is a zombie from now on, but the
\* scheduler, its CPU and the parents waiting for it are not told.
Kill(p) ==
    /\ Serving("kill")
    /\ InTable(p)
    /\ sem' = ReleaseSem0
    /\ mutex' = ReleaseMutex0(p)
    /\ pstate' = [pstate EXCEPT ![p] = "Zombie"]
    /\ lock_addr' = [lock_addr EXCEPT ![p] = 0]
    /\ UNCHANGED <<cpu, sched, treeVars, waiting, nsem, nmutex, cs>>

\* Stop and Continue assign the PCB state and nothing else.
Stop(p) ==
    /\ Serving("stop")
    /\ InTable(p)
    /\ pstate' = [pstate EXCEPT ![p] = "WaitIo"]
    /\ lock_addr' = [lock_addr EXCEPT ![p] = 0]
    /\ UNCHANGED <<cpu, sched, treeVars, waiting, syncVars, cs>>

Continue(p) ==
    /\ Serving("continue")
    /\ InTable(p)
    /\ pstate' = [pstate EXCEPT ![p] = "Ready"]
    /\ lock_addr' = [lock_addr EXCEPT ![p] = 0]
    /\ UNCHANGED <<cpu, sched, treeVars, waiting, syncVars, cs>>

\* Mutant of Blocked: the scheduler is not told.
BlockedStillScheduled(p) ==
    /\ pstate' = WithState(p, "WaitIo")
    /\ lock_addr' = WithAddr(p, 0)
    /\ UNCHANGED sched

\* handle_block(): the reason is dropped, the state is WaitIo whatever the
\* process waits for.  Used by Block, by WaitChild without a response
\* channel, by a blocking ReceiveMessage and by the two requests below.
Blocked(p) ==
    /\ sched' = remove(sched, p)
    /\ pstate' = WithState(p, "WaitIo")
    /\ lock_addr' = WithAddr(p, 0)

Block(p) ==
    /\ Serving("block")
    /\ Blocked(p)
    /\ UNCHANGED <<cpu, treeVars, waiting, syncVars, cs>>

Unblock(p) ==
    /\ Serving("block")
    /\ RoomInQueue(1)
    /\ pstate' = WithState(p, "Ready")
    /\ lock_addr' = WithAddr(p, 0)
    /\ sched' = ready(sched, p)
    /\ UNCHANGED <<cpu, treeVars, waiting, syncVars, cs>>

Schedule(p) ==
    /\ Serving("schedule")
    /\ RoomInQueue(1)
    /\ sched' = ready(sched, p)
    /\ UNCHANGED <<procVars, treeVars, waiting, syncVars, cs>>

ContextSwitch(from, to) ==
    /\ Serving("schedule")
    /\ RoomInQueue(1)
    /\ sched' = ready(remove(sched, from), to)
    /\ UNCHANGED <<procVars, treeVars, waiting, syncVars, cs>>

\* WaitSemaphore, SignalSemaphore, AcquireLock, ReleaseLock and the two
\* Create requests.  SignalSemaphore raises the value and wakes nobody.
RequestSemWait(p, i) ==
    /\ Serving("sync")
    /\ i < nsem
    /\ \/ /\ sem[i] > 0
          /\ sem' = [sem EXCEPT ![i] = @ - 1]
          /\ UNCHANGED <<sched, pstate, lock_addr>>
       \/ /\ sem[i] = 0
          /\ Blocked(p)
          /\ UNCHANGED sem
    /\ UNCHANGED <<cpu, treeVars, waiting, nsem, mutex, nmutex, cs>>

RequestSemSignal(i) ==
    /\ Serving("sync")
    /\ i < nsem /\ sem[i] < MaxSem
    /\ sem' = [sem EXCEPT ![i] = @ + 1]
    /\ UNCHANGED <<procVars, sched, treeVars, waiting, nsem, mutex, nmutex, cs>>

\* A lock the process holds itself is reported as a deadlock, not waited for.
RequestLockAcquire(p, i) ==
    /\ Serving("sync")
    /\ i < nmutex
    /\ \/ /\ mutex[i] = NoPid
          /\ mutex' = [mutex EXCEPT ![i] = p]
          /\ UNCHANGED <<sched, pstate, lock_addr>>
       \/ /\ mutex[i] \notin {NoPid, p}
          /\ Blocked(p)
          /\ UNCHANGED mutex
    /\ UNCHANGED <<cpu, treeVars, waiting, sem, nsem, nmutex, cs>>

RequestLockRelease(p, i) ==
    /\ Serving("sync")
    /\ i < nmutex
    /\ mutex' = Released(p, i)
    /\ UNCHANGED <<procVars, sched, treeVars, waiting, sem, nsem, nmutex, cs>>

RequestCreate ==
    /\ Serving("create")
    /\ (\E v \in 0 .. MaxSem : CreateSemaphore(v)) \/ CreateMutex
    /\ UNCHANGED <<procVars, sched, treeVars, waiting, cs>>

Request ==
    \/ Spawn \/ SpawnFails \/ SpawnDual \/ RequestCreate
    \/ \E p \in Pid :
         \/ Fork(p) \/ ForkTimesOut(p) \/ Exec(p) \/ WaitChild(p)
         \/ Kill(p) \/ Stop(p) \/ Continue(p)
         \/ Block(p) \/ Unblock(p) \/ Schedule(p)
         \/ \E to \in Pid : ContextSwitch(p, to)
         \/ \E i \in SyncId : \/ RequestSemWait(p, i) \/ RequestLockAcquire(p, i)
                              \/ RequestLockRelease(p, i)
    \/ \E i \in SyncId : RequestSemSignal(i)

Timer == StartTick \/ Slot \/ HaltCheck \/ Reap

Next == Timer \/ Instruction \/ Request

Spec == Init /\ [][Next]_vars

-----------------------------------------------------------------------------
CpuState  == {"none", "live", "halted"}
Section   == {"none", "sem", "lock"} \X SyncId
TickState == [phase : Phase, c : CPU, pid : Pid \cup {NoPid},
              steps : Nat, scheduled : SUBSET Pid]

TypeOK ==
    /\ pstate \in [Pid -> Status]
    /\ lock_addr \in [Pid -> SyncId]
    /\ cpu \in [Pid -> CpuState]
    /\ sched \in SchedulerState
    /\ last \in [CPU -> Pid \cup {NoPid}]
    /\ next_pid \in Pid \cup {LastPid + 1}
    /\ loaded \subseteq Pid
    /\ children \in [Pid -> SUBSET Pid]
    /\ waiting \in [Pid -> Nat]
    /\ sem \in [SyncId -> Nat] /\ nsem \in Nat
    /\ mutex \in [SyncId -> Pid \cup {NoPid}] /\ nmutex \in Nat
    /\ cs \in [Pid -> Section]
    /\ tick \in TickState
    /\ ran \in [CPU -> Pid \cup {NoPid}]

\* docs/scheduler.md, invariant 1: a pid is current on at most one CPU.
OneCpuPerPid == Exclusive(sched)

\* "SMP: schedule one unique process per vCPU each tick": whatever requests
\* duplicated in the queue, no process executes in two slots of one tick.
ExecutesOncePerTick ==
    \A c, d \in CPU : c # d /\ ran[c] # NoPid => ran[c] # ran[d]

\* "Init (PID 1) must never die": no sequence of requests, signals and
\* instructions gets init out of the process table.
InitStaysInTable == InTable(InitPid)

\* Every process of the table has a virtual CPU, and a pid not yet handed
\* out has none: fork and the two ways of reaping keep both maps in step.
TableHasCpu ==
    \A p \in Pid : /\ InTable(p) => cpu[p] # "none"
                   /\ p >= next_pid => ~InTable(p) /\ cpu[p] = "none"

\* Between two slots, the scheduler holds exactly the processes that can
\* run, each once: none is lost, none is doubled, no ghost of a dead or
\* blocked one keeps a place.  (A forked child waits for its exec.)
Runnable(p) == p \in loaded /\ pstate[p] \in {"Ready", "Running"}
Copies(s, p) == Cardinality({i \in DOMAIN s.queue : s.queue[i] = p})
                    + Cardinality({c \in CPU : s.current[c] = p})
SchedulerExact ==
    tick.phase \in {"idle", "slot"} =>
        \A p \in Pid : IF Runnable(p) THEN Copies(sched, p) = 1 ELSE Copies(sched, p) = 0

\* docs/scheduler.md, invariant 2: a queued process is Ready.  Likewise the
\* process on a CPU, once that CPU had its slot, is Running.
StatesMatchScheduler ==
    Idle => /\ \A p \in InQueue(sched) : pstate[p] = "Ready"
            /\ \A p \in OnCpu(sched) : pstate[p] = "Running"

\* Inside the critical section of semaphore or mutex i: past sem_wait or
\* lock_acquire, not blocked, and alive.
Inside(kind, i) == {p \in Pid : cs[p] = <<kind, i>> /\ pstate[p] \in {"Ready", "Running"}}

\* docs/syncdemo.md: only one process at a time is between sem_wait and
\* sem_signal; and so for the mutexes.
MutualExclusion ==
    \A i \in SyncId : /\ Cardinality(Inside("sem", i)) <= 1
                      /\ Cardinality(Inside("lock", i)) <= 1

\* No lost wake-up: whoever is blocked on an id has somebody inside to wake
\* it, and no free unit is left lying while it waits.
WaitersHaveHolder ==
    \A w \in Pid : pstate[w] = "WaitLock" /\ tick.phase # "hung" =>
        \/ Inside("sem", lock_addr[w]) # {} /\ sem[lock_addr[w]] = 0
        \/ Inside("lock", lock_addr[w]) # {} /\ mutex[lock_addr[w]] # NoPid

\* Once a child is gone, no WaitChild request for it is left unanswered:
\* waiting_parents, "respond later" (service.rs), docs/process.md 3.2.
DeadChildrenAnswered ==
    Idle => \A p \in Pid : ~InTable(p) => waiting[p] = 0

\* docs/PROCESS_SERVICE.md, the lock hierarchy is there "to avoid deadlock":
\* the service thread never waits for a mutex it holds itself.
ServiceKeepsRunning == tick.phase # "hung"

\* The timer never stops ticking and the service thread keeps running; a
\* program does not stay in its critical section for ever.
FairSpec == /\ Spec
            /\ WF_vars(Timer)
            /\ WF_vars(Instruction)
            /\ \A p \in Pid, i \in SemIds : SF_vars(SyscallSemSignal(p, i))

\* No set of waiters of a semaphore is stuck: again and again one of them
\* gets in or another one joins, so in particular a process that waits alone
\* gets in.  (Which waiter is woken is up to the hash map's order, so one of
\* several may starve.)  The exception is a service that has hung.
WaitersMoveOn ==
    \A i \in SemIds, S \in SUBSET Pid \ {{}} :
        []<>(Waiters(i) # S \/ tick.phase = "hung")
=============================================================================

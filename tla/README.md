# Verification of genshin-os

TLA+ models of the simulated operating system in this repository (Rust, `src/`),
checked with TLC on small instances and, for a large part, proved with TLAPS for
every value of the parameters. Paths below are relative to the repository; "service.rs"
alone is `src/services/process/service.rs`.

## 1. The system

Every service is one thread. Threads talk over a broadcast bus (`messaging/bus.rs`);
the kernel router (`services/kernel.rs`) forwards requests to the service they are
for, the timer (`hardware/timer.rs`) broadcasts an interrupt every 10 ms. A request
may carry a response channel, on which its sender waits with a timeout.

| Component | State | Operations | Module |
|---|---|---|---|
| Scheduler (`process/scheduler.rs`) | ready queue, pid and tick count of each virtual CPU | ready, remove/block, schedule, yield_current, dequeue_next | `SchedulerOps`, `Scheduler` |
| Process service (`process/service.rs`) | process table, CPU map, parent/child map, waiting parents, last_running, next_pid | timer interrupt (schedule, execute, halt check, reap), system calls, about 25 requests | `ProcessService`; its requests to the memory service in `MemoryService`, its IPC requests in `Ipc` |
| Process control block (`process/pcb.rs`) | state, threads, signals, descriptors | add/remove thread, block, unblock, terminate, signals, descriptors | `Pcb` |
| Semaphores, mutexes (`process/sync.rs`) | values, owners, wait counts | create, wait, signal, acquire, release, reset, destroy | `SyncPrimitives` (alone), `ProcessService` (in use) |
| IPC (`process/ipc.rs`) | message queues, shared segments | send, receive, create, attach, detach, delete | `Ipc` |
| Memory service (`services/memory/*`), MMU (`hardware/mmu.rs`) | frames and owners, two sets of page tables, swap slots, swapped pages | alloc/free frame, map/unmap, page fault, swap in/out | `FrameAllocator`, `SwapSpace`, `MemoryService`, `PageTables` |
| File service (`services/file/*`), disk (`hardware/disk.rs`) | inode tree, cached files, descriptors, sector bitmap, saved tree | open, close, read, write, mkdir, unlink, stat, list, save, load | `FileTree`, `VirtualDisk`, `FileService` |
| Device service (`services/device/*`), input devices (`hardware/device.rs`) | devices, names, types, drivers, clipboard, receive buffers | register, open, close, load driver, clipboard, input | `Devices` |
| Timer (`hardware/timer.rs`) | state, its threads, tick count | start, stop, pause, resume, reset | `Timer` |
| Bus, envelopes, kernel router (`messaging/*`, `services/kernel.rs`) | subscribers, channels, response channels | subscribe, send, send_request, route, respond, recv_timeout | `MessageBus` |
| Virtual CPU, assembler, translation (`hardware/cpu.rs`, `mmu.rs`, `memory.rs`, `process/assembler.rs`) | registers, zero flag, pc, halted, interrupt, memory | assemble, load, fetch, decode, execute, fault | `Cpu` |
| Shell, monitor, error types, vector table | none that outlives a command | | only the shell's requests and waits, in `MessageBus` |

How they interact: the timer's tick makes the process service run each virtual CPU
for one slot, in which the chosen process executes up to three instructions. System
calls are handled inside the slot, with the `cpus` mutex held. Page faults, fork,
exec and exit send requests to the memory service and wait for some of them. The
shell sends fork/exec/spawn/wait/signal requests. Between two interrupts the process
service handles one request.

What is hard here:

- one queue serves two CPUs, may hold a pid several times, and is rotated past pids
  that run elsewhere;
- five pieces of state (table, CPU map, scheduler, last_running, waiting parents) say
  whether a process runs, and each way to block, wake or die updates some of them;
- a slot ends with a halt check that must tell "halted because blocked" from "halted
  because finished" from "just woken, not yet unhalted";
- a child may die before, while or after its parent waits;
- a semaphore unit is handed over directly to a waiter, and given back when a process
  dies;
- system calls run while the service holds a mutex that some of them lock again;
- a client waits for an answer with a timeout, and the request it gave up on still
  takes effect, while exit and exec send requests they do not wait for at all;
- frames, slots and sectors are each kept in two or three structures that change
  together, on paths that run out of them half-way;
- a file lives in a cache, in the tree, in the bitmap and in a JSON file, which are
  written one after the other;
- a timer thread is told to stop by a state that may have changed back before it looks.

PROJECT.json lists these and the others, line by line, under "hazards".

## 2. Modules

| Module | Models |
|---|---|
| `SchedulerOps` | the scheduler's methods as operators on its state, with the source's names |
| `RunSet` | the abstract scheduler: a set of known pids, a pid per CPU |
| `Scheduler` | the scheduler alone, called by any client in any order; implements `RunSet` |
| `ProcessService` | the process service thread: timer interrupt, instructions, requests |
| `FrameAllocator` | the frame allocator's operations as operators on its record |
| `SwapSpace` | the swap manager's, the same way |
| `MemoryService` | the memory service and the process service as its client, over the bus |
| `PageTables` | the memory service's second page tables, which only requests without a response reach |
| `VirtualDisk`, `FileTree` | sector bitmap and inode tree as operators |
| `FileService` | the file service, with crashes and restarts |
| `Timer`, `MessageBus`, `Ipc`, `SyncPrimitives`, `Pcb`, `Devices`, `Cpu` | one part of the kernel each, with its own variables, Init and Next |
| `MCScheduler`, `MCProcessService`, `MCMemory`, `MCFiles` | instances for TLC |
| `MCKernel` | the sum of the single parts: `focus` chooses one at the start, the others stay |
| `SchedulerOpsProofs`, `SchedulerProofs`, `ProcessServiceProofs`, `FrameProofs`, `MemoryProofs`, `OwnershipProofs`, `FileProofs`, `KernelProofs` | the proofs |

**Scheduler.** `SchedulerState` is `Scheduler`'s `ready_queue`, `cpu_current` and
`cpu_ticks`. Thread ids are left out (always 1), and so are priorities, which no
round-robin decision reads. `remove` drops only the oldest entry of a pid, as the
code does; `dequeue_next` rotates busy entries to the back; an idle CPU keeps its tick
count. `Remove` in the module `Scheduler` is offered only for known pids, because for
others it is the identity.

**Process service.** The service is one thread, so a request is one atomic action. A
timer interrupt is several: `StartTick`, then for each CPU `Slot` (schedule, the
de-duplicating yield, Running/Ready bookkeeping, unhalting), up to `StepsPerSlot`
instruction actions, `HaltCheck`, `Reap`. No request is served in between
(`tick.phase` is not `"idle"`). `run()` serves up to ten interrupts and then one
request; the model allows any alternation.

| State | Code |
|---|---|
| `pstate`, `lock_addr` | `process_table`: `PCB.state`, and the address in `WaitingForLock`; `"Free"` is no entry |
| `cpu` | `cpus`: no entry, live, or halted |
| `sched`, `last`, `next_pid`, `children`, `waiting` | `scheduler`, `last_running`, `next_pid`, `parent_children`, `waiting_parents` (a count for each child) |
| `loaded` | the pids exec_impl has given a program (PCB name and code) |
| `sem`, `nsem`, `mutex`, `nmutex` | `sync_manager`; ids are handed out upwards from 1, 0 exists from the start |
| `cs` | where a program is that pairs wait with signal; a history variable of programs, not of the service |
| `ran` | history: who executed in which slot of this interrupt |

Points where the model follows the code rather than its documentation: `exit()` and
kill do not answer waiting parents; kill, Stop and Continue only assign the PCB state;
kill and exit give back semaphore 0 whoever holds it; semaphores and locks share the
`WaitingForLock` reason, so a signal may wake a process that waits for a lock of the
same number; a WaitSemaphore request blocks as WaitingForIo and a SignalSemaphore
request wakes nobody; `handle_wait_child` removes a zombie from the table but leaves
its CPU. `Hang` is the relocking of `cpus`: std's `Mutex` is not reentrant, and on
Linux the second `lock()` waits for ever. In `sem_signal` the code uses `try_lock`,
which fails inside a slot, so the waiter's CPU stays halted until its next `Slot`.

Abstracted: what memory, files and devices return (a fork may time out, an exec or a
spawn may find no program or no memory), exit codes, process names, registers and
program counters (any process may execute any instruction in `Program` at any time,
which includes every real program). A request that fails without changing state is a
stuttering step. A `dual:` spawn in which only one of the two processes starts is
`Spawn` followed by `SpawnFails` with no tick in between; an rwlock spawn is two
`RequestCreate` and a `Spawn`. `QueryState`, `GetProcessInfo`, `ListProcesses`,
`GetStats`, `GetMemoryMap`, message and shared-memory requests do not touch the
state modelled here, except that a blocking receive blocks its process: `Block`.

**Memory.** `MemoryService` composes two threads. The service takes a request from
`inbox`, handles it whole and answers; the process service is a client that sends a
request and waits (`client.at`), gives up (`ClientTimesOut`), or does not wait: exit and
exec only queue their UnmapPage and FreeFrame requests, computed from the page table as
it is when they are sent. Both read the same MMU, which is where the interleavings come
from. The fault handler is four actions: swap-in, which maps the page and then waits for
the lock its own thread holds (`hung`); a free frame; a victim swapped out; nothing left.
A slot is taken before the write to the disk can fail, and stays taken. A page is a page
number, a frame a frame number; contents and mapping flags are left out. `swappedIn` and
`replaced` are history: they name the processes for which the code is known to break a
property, so that it can be stated of the others. `PageTables` is separate because the
two sets of tables share nothing but the allocator, whose operators both use.

**Files.** A request is one step, except a write, which first changes the bitmap (on the
disk at once), then the node, then saves the tree: `phase` is where a crash may hit. The
JSON file is truncated before it is written, so a crash in the save leaves none. All
requests come from process 0, so there is one descriptor table. mkdir of "/" makes a directory
of that name in the root, as `split_path` has it; no path leads to it. `damaged` collects the
files an allocation failure or a crash in the middle has hurt. Deleting a node leaves its
sectors allocated, as in the code. Sizes are in sectors.

**Timer.** Each thread is at one point of its loop: check, sleep, check, send. `start`
spawns a thread whatever the old ones do, `stop` and `pause` only assign the state, and
`resume` spawns nothing.

**Message bus.** Envelopes are a class and a request id. A broadcast is a copy per
subscriber; the kernel forwards by class, the device service reads its own copy. Requests
sent before the device service subscribed are lost. A service may answer twice, as the
handlers that answer an error themselves do. The process service is its own loop: it takes up
to `MaxDrain` interrupts (ten in the code; `drained` counts them), then looks at its requests
once. While it is at an interrupt or a request (`busy`) it may ask the other services, any
number of times: a tick does for its faults and for the file and device calls of the programs
it runs. Two services may hang: the memory service in its swap-in, and the process service in
a tick that locks `cpus` again (finding `hang`).

**CPU.** From the source lines through their encoding to memory, execution a word at a
time, with pages taken away at any time (`space`) and faults answered the way the timer
interrupt does it. The property compares with `Meaning`, which says what a line does
without opcodes, bytes or pc: a reference definition of the instruction set. u64, u32 and
u8 are small moduli in the right order, so truncation and wrap-around happen. `Lines` are
the accepted lines by rank (`Upto` counts them), which says what the assembler's loop computes
without a recursion; `MCKernel` compares it with `SelectSeq`. Which byte is which opcode is
left out: `BytesAt` lets a read of an instruction return any byte but 0, and `Fetches` lets
data that is executed decode to any instruction of `Stray`.

exec maps frames as their last owners left them (`OldPages`), writes the code and then the
arguments at `ArgWord` and `BufWord` (0x100 and 0x200), which lie inside a program of more
than 32 or 64 instructions. A system call leaves nothing, an id in register 1, a 0 in
register 0 (a fork that failed), or a text at `BufWord` and its length in register 2 (read,
listdir, tree, device_read); or it halts the CPU. Forks that succeed, execs, and releases that
wake a waiter do not return: the service hangs. A halted CPU may be resumed, and goes on where
it stopped; which processes are is `ProcessService`'s. An execution error halts the CPU of any
process but init. `intact` is history: it falls when a fault is answered, which replaces a page
of the program (finding `fault`), when a page is unmapped, and when a STORE, an argument or a
text that was read hits the program itself; from then on the source no longer says what is
executed. A jump into the middle of an instruction is allowed and executes whatever words are
there, but the property says nothing of it.

Abstracted: texts are whole words long; the initial state is an exec whose pages were mapped in
time, in a new process or in init; an exec by request that replaces the program of a running
process is left to `ProcessService` and `MemoryService`.

**Devices.** A device keeps `open_count`, not who opened it: anybody may close it, and the last
close of somebody else leaves it exclusive with nobody in it, for its owner alone to open again.
`users` is history, who has got into it since it was last neither open nor exclusive. A driver
takes any device id, registered or not. Unregistering a device removes its name even if the
name leads to a newer device by then, which is left without one.

**Semaphores and mutexes.** `units` is history: the units taken, the signals that reported
Released, and those of them that found the value at u32::MAX and added nothing.

**The others** follow their source method by method; the header of each module says what
is left out.

## 3. What TLC checks

Two CPUs throughout, as in the code (`cpu_count: 2`).

| Run | Bounds | Shows |
|---|---|---|
| scheduler | 3 pids, quantum 3, clients queue up to 4 entries | `OneCpuPerPid`; `NoOvertaking`; `DecisionsConserveEntries`; `NeverIdleWithWork`; `QueuedPidsRun` (liveness); `RefinesRunSet` |
| lifecycle | init and 3 processes, 2 instructions per slot, fork/exec/spawn/wait, programs that halt, exit and use a semaphore | `SchedulerExact`, `StatesMatchScheduler` |
| any_request | init and one process, all lifecycle, signal and scheduling requests, queue up to 2 entries added by requests | `ExecutesOncePerTick`, `InitStaysInTable`, `TableHasCpu` |
| sync_request | init and 3 processes, semaphore and lock requests next to semaphore system calls | `SchedulerExact` |
| sync | init and 3 processes, a semaphore and a mutex, programs that pair their calls, objects created on the way | `MutualExclusion`, `WaitersHaveHolder`, `WaitersMoveOn` (liveness) |
| memory | 2 processes and the client, 2 frames, 2 pages, 2 slots of which 1 is on the disk, inbox of 4, one wait given up; 2.4 million states | `FramesPartition`, `SlotsPartition`, `SwappedPagesKept`, `PrivateFrames`, `ExitReturnsFrames` |
| files | 3 sectors, 5 paths over 3 names, 3 inodes, 3 descriptors, files of up to 2 sectors, one crash; 835 thousand states | `TreeExact`, `SectorsOwned`, `CacheClean`, `FdNotReused`, `RestartKeepsTree` |
| kernel | 2 timer threads, 2 requests, 2 frames and pages, 2 processes, 3 threads of a process, 2 units of a semaphore and levels of a mutex, 2 devices, 1 driver, 6 sources; 332 thousand states | `AnswerMatchesRequest`, `HandledOnceInOrder`, `EveryRequestServed` (liveness), `StartedTimerTicks` (liveness), `IpcExact`, `UnitsConserved`, `ThreadIdsLead`, `DevicesExact`, `MappingsStay`, `ExecutionMatchesSource` |
| wait, kill, hang, fault | small | violations, below |

Why the bounds are enough for the interesting cases: three pids on two CPUs are the
least with somebody waiting while both CPUs are busy, four queue entries allow a pid
to be queued twice behind a busy one, and quantum 2 or 3 lets a process be preempted
in the middle and at the end of its time. Three user processes allow one holder, one
waiter and one bystander. One process besides init is enough in `any_request` because
its hazards are duplicates and ghosts of the *same* pid on two CPUs and the confusion
of init with another process; the queue bound leaves room for a pid on a CPU and twice
in the queue. Two processes over two frames are the least in which one process's fault
takes the other's frame, and two pages each the least in which memory is over-committed;
one slot beyond the disk makes the write to swap fail. Three sectors let a file of two
find only one, or two that are not contiguous. Two requests are the least for a late
answer to meet a newer request, and for a tick of the process service to ask while the
shell does; two interrupts to a loop let further ones wait behind the requests. Two units let
one thread take while another holds an old value, and a u32::MAX of 2 be reached; two levels
let a recursive mutex be taken twice and another process find it taken. Integers below 24, 16
and 4 make values wrap and truncate; pages of eight words hold four instructions, so a program
goes over its page, argument and buffer lie inside the longer programs and behind the shorter
ones, and one of the programs reads its own code, overwrites an instruction and executes
what it stored. The theorems of section 5 have no such bounds: they state every
property of this table but the four liveness properties.

The properties, beyond the comments at their definitions:

- `SchedulerExact` is the statement the process service is about: between two slots
  the scheduler holds exactly the runnable processes, each once. It is checked with
  the requests a well-behaved client sends. Kill, Stop, Schedule, Unblock and repeated
  exec break it by design of the code (ghosts and duplicates), so `any_request` asks
  what survives them.
- `ExecutesOncePerTick` holds because there are two CPUs: after the single
  de-duplicating yield a second CPU cannot be given the pid of the first again unless
  that pid left its CPU, and then it is halted or gone. With a third CPU a process
  woken within the interrupt could run twice.
- `WaitersHaveHolder` and `MutualExclusion` need disciplined programs (`Disciplined`)
  and runs without deaths: a death gives semaphore 0 back (see the finding `kill`).
- `PrivateFrames` and `ExitReturnsFrames` say `timeouts = 0`: once a client gives up on
  an allocation, the frame is granted to a page nobody maps, and stays with it. That one
  frame lost per timeout is what the code does; `FramesPartition` holds regardless.
  Exec and a fault on a page that is present replace a mapping without freeing the frame
  behind it (`replaced`).
- `SwappedPagesKept` excepts pages an explicit SwapIn was served for, which frees the
  slot and leaves `swapped_pages` pointing to it. No part of the program sends SwapIn.
- `SectorsOwned` and `CacheClean` hold as long as nothing is `damaged`: a write frees the
  old sectors before it asks for new ones, so a full disk, or a crash between bitmap and
  tree, leaves a node that names free sectors. `TreeExact` and `RestartKeepsTree` hold
  with both.
- `StartedTimerTicks` is about start, not resume: a resume that comes after the thread
  saw Paused leaves a Running timer without a thread.
- `EveryRequestServed` holds although the memory service may hang for ever, because
  every client has a timeout, and although interrupts keep coming, because the loop takes
  only so many before it looks at its requests. It excepts a process service that waits for
  itself: what is sent to it then is never served, but whoever waits for it still gives up.
- `WaitersMoveOn` speaks of sets of waiters: which one is woken depends on the hash
  map's order, so one of several may starve.

**Fairness.** `Scheduler!FairSpec`: weak fairness of `Schedule(c)`; the timer ticks
for ever and asks for every CPU. `ProcessService!FairSpec`: weak fairness of the timer
interrupt's steps and of instruction execution (the service thread runs), and strong
fairness of `SyscallSemSignal(p, i)`: a program does not stay in its critical section
for ever. The last one is an assumption on programs (the repository's rwlock and sync
demos satisfy it), not on the service. Nothing is assumed of clients. `TimerFairness`:
a thread's sleep ends and the operating system runs it. `BusFairness`: every service
thread loops for ever, every wait has a timeout, and a handler asks only finitely often (a tick
runs three instructions on each CPU); nothing is assumed of a service once it hangs, nor of
anyone sending a request or an interrupt.

**Deadlock** is checked except in `any_request` and `sync`, where the hang is reachable, in
`memory`, where the hang of the fault handler is, and in `kernel`, where a halted CPU or a
part at its bounds has nothing more to do.

**Mutants.** Each property of each passing run has a mutant, a plausible mistake in one
mapped definition (kept next to it and named in its comment) that TLC shows to violate
the property.

## 4. Disagreements found

- **wait** (`DeadChildrenAnswered`): a parent blocked in WaitChild is answered only if
  the child ends by HALT. A child that calls `exit()` is a zombie before the halt
  check, which then skips the notification; so is a killed one. The reaper removes it
  and the request stays unanswered.
- **kill** (`MutualExclusion`): killing any process while semaphore 0 is held raises
  it, and a second process enters.
- **hang** (`ServiceKeepsRunning`): `lock_release` with a waiter locks `cpus`, which the
  timer interrupt handler holds. Fork and exec system calls do so as well.

- **fault** (`AnsweredFaultIsMapped`): the timer interrupt reports the pc as the faulting
  address, so a load or store that misses a page gets the instruction's page replaced and
  misses again.

Seen while modelling, without a run of their own:

- docs/presentation.md:1144 says that saving after each operation keeps the file system
  consistent over a crash; the JSON file is truncated first, and the bitmap is ahead of
  it. `SectorsOwned` therefore excepts what a crash damaged.
- docs/presentation.md:1137 has unlink free the sectors; the code never does.
- docs/scheduler.md:214 says that a Blocked process is in no queue; Stop only assigns the
  state. Line 213 says that init is never reaped; `kill 1` makes it a zombie
  (`InitStaysInTable` is what holds).
- MapPage and faults without a response go to a second set of page tables that nothing
  translates through.
- Nobody sends `ProcessRequest::Spawn`. Its path for rwlock2 and rwlock3 (service.rs:281)
  maps a frame of process 0 into two processes on purpose; it is outside `PrivateFrames`
  and outside `ApiKindsAssumption`.
- Exec is modelled for programs of one page. For more, `alloc_frames` (service.rs:1427)
  counts on from the first frame's address, although the frames the allocator hands out
  need not be contiguous.

Each run is quoted with the document it contradicts under "findings" in PROJECT.json.

## 5. What is proved

All for arbitrary `Pid`, `CPU`, `Quantum`, queue lengths, programs and sets of requests
unless a theorem says otherwise, from `SchedulerAssumption` (`NoPid` is no pid, the quantum
is positive) and `ServiceAssumption` (pids are 1..n, CPUs 0..m-1, ids 0..k, semaphore and
lock ids among them). Each inductive invariant below was checked by TLC before the proof.

*Scheduler* (`SchedulerProofs`): `TypeCorrect`, `NeverOnTwoCpus`, `ImplementsRunSet`,
`WorkConserving`, `FirstComeFirstServed`, `NoEntryLost`. The invariant
`TypeOK /\ OneCpuPerPid` is inductive: a CPU takes only a pid that is not busy.
`SchedulerOpsProofs` says what each method does to types, to exclusivity, to the set of
known pids and to the number of entries of each. The refinement needs exclusivity too: only
then does requeueing the running pid leave everybody else's eligibility unchanged. For
`FirstComeFirstServed` the central lemma is that `dequeue_next` on an entry behind the
chosen one moves it forward by the chosen one's place, and that entries in front of the
chosen one are busy, so not among those the property protects. `NoEntryLost` counts: the
indices of a pid before and after a rotation, an append or a removal are in bijection, but
for the one entry that moves between queue and CPU; exclusivity is needed so that a pid
put back into the queue no longer counts as running.

*Process service* (`ProcessServiceProofs`), in four layers, each resting on the one before:

- `ServiceTypeCorrect`, `ServiceNeverOnTwoCpus`, `InitNeverDies`, `EveryProcessHasCpu`, for
  every set of requests. The invariant `IInv` adds `SlotSound` (the process that executes
  has a live CPU; without it an instruction could halt a CPU that does not exist) and
  `InitIsRoot` (init is nobody's child and pids are handed out above it; without it a wait
  could reap init, and a fork could overwrite it). Two lemmas carry most actions: `Keeps`
  for steps that create and remove no entry, `Grows` for steps that hand out pids.
- `SchedulerHoldsTheRunnable` (`SchedulerExact`) and `StatesFollowScheduler`
  (`StatesMatchScheduler`), for requests that are `WellBehaved`: fork, exec, spawn, wait,
  create, and the semaphore and lock requests; the others break the properties by design
  of the code (section 3). The invariant `ExactInv` holds at every step of an interrupt,
  not only between slots: one entry for each runnable process (`Once`), queued ones Ready
  and those on a CPU Running (`Matched`), the executing process on its CPU (`SlotHeld`).
  The difficulty is `last_running`: a process that blocked on CPU d and was woken keeps its
  old entry there, and when it runs on c the check "busy on another CPU" would keep it
  Running once c preempts it. `StaleLast` says that the stale entry of d is overwritten by
  the next slot of d, which comes before the next slot of c (`Upcoming` counts the slots),
  for any number of CPUs. A hung service is exempt.
- `OneAtATime` (`MutualExclusion`) and `NoLostWakeUp` (`WaitersHaveHolder`), for systems that
  are `ByTheBook`: programs pair their calls and do not end, requests spawn, exec and create,
  and no id is used for a semaphore and for a mutex. Each part excludes something the code
  really does: a death gives semaphore 0 back, a fork inside a critical section copies the
  holder, a signal wakes whoever waits on the same number, a request creates a semaphore
  with any value (so programs then use only semaphore 0). `SyncInv` says that a unit is free
  and nobody has asked for it, or exactly one process is inside, and that whoever is blocked
  asked for the id it is blocked on. That nobody dies needs `HaltedBlocks`: a CPU found
  halted at the end of its slot belongs to a blocked process, which rests on `Matched`. A
  release that hangs the service still leaves one process inside.
- `OneSlotPerTick` (`ExecutesOncePerTick`), for every set of requests and `CPU = {0, 1}`, the
  `cpu_count` of the code. `TickInv`: until CPU 1 has its process, what CPU 0 executed is
  still on it, or is `Inert`, with a CPU that is not live and a state no switch revives. So
  CPU 1 may be given it through a duplicate entry but does not execute it.

*Memory* (`MemoryProofs` over `FrameProofs`): `MemoryTypeCorrect`, `FramesNeverLost`,
`SlotsNeverLost`, `SwappedPagesNeverLost`, for any processes, frames, pages, slots and
requests, from `NFramesAssumption`, `PidsAssumption`, `MemoryAssumption` (process 0 and page 0
exist, pages are finite) and `ApiAssumption` (other clients send well-formed requests).
`FrameProofs` shows that an allocation and a free keep the allocator `Sound`, whatever frame
is named: an allocation takes a prefix of the queue, so what is left is still
duplicate-free, and a free is refused for a frame in the queue. The invariant `MemInv` adds
that what is queued is well-formed, which in turn needs the types of the page tables and of
the client's state the requests are made from. That the frame in a FreeFrame request may be
stale by the time it is served needs no strengthening: that is the point of the check in
`free`. The slots are the same with a bitmap.

*Ownership* (`OwnershipProofs`): `FramesStayPrivate` (`PrivateFrames`) and `ExitLeaksNoFrame`
(`ExitReturnsFrames`), with `ApiKindsAssumption` as well: other clients ask for allocations
and swapping, not for a mapping or a free of frames they do not own. Both are about
requests that were computed from a page table which has changed by the time they are
served. `PrivInv`: the queue holds at most one request somebody waits for, behind those
nobody waits for; a frame on its way to a page (in an answer, or in a MapPage) is in no
page table yet; and a FreeFrame that is not waited for comes after the UnmapPage of the
same page, so a frame is never freed while mapped. `OwnInv`: each frame of a live process is
behind one of its pages or promised to one, and each frame of a dead one is named by a
FreeFrame still in the queue; so an empty queue leaves it none.

*Files* (`FileProofs`), from `NSectorsAssumption` and `FileAssumption`: `FileTypeCorrect`,
`NamesAlwaysLead` (`TreeExact`), `ClosedStaysClosed` (`FdNotReused`), `SectorsStayOwned`,
`CacheStaysClean`, `RestartsKeepTheTree` (`RestartKeepsTree`). A path leads to at most one
node because two walks along it agree at the least index where they could differ, which
takes no induction. `FileInv` says that the tree and what was saved of one are sound, that
cached files belong to inodes handed out and descriptors to cached files. `DiskInv` says,
while nothing is damaged, that what a node or a cached file holds is in use and nobody
else's, and that the same is true of the saved tree whenever a crash would do no damage:
without the second half the first would not survive a restart. `RestartsKeepTheTree` follows
the load, which puts the saved nodes over a new tree and keeps its root.

*Kernel parts* (`KernelProofs`), each for its own specification (`TimerSpec`, `SyncSpec`,
`BusSpec`, `IpcSpec`, `PcbSpec`, `TablesSpec`, `DevSpec`, `CpuSpec`), whose steps are those
`MCKernel` composes:

- `NoUnitLost`: `UnitsConserved` is inductive together with types. What a thread loaded
  may be old; the compare-exchange makes it current when it is used, so the value moves by one
  with each unit taken or given, and by none exactly when the signal is counted in `full`.
- `NoAnswerMistaken`: the channel of a request only ever holds that request's id, and a
  client reads the channel of the request it waits for.
- `RequestsHandledOnceInOrder`: a request has one class for ever, so one service; on each
  hop the ids in a channel increase and are above those handled (`OrderInv`).
- `IpcNeverLoses`: a queue is the interval between received and sent; a region's count is
  at least its set of processes, because a second attach counts and a second detach does not.
- `StartedTimerHasThread`: what the liveness property of the timer rests on, a live thread.
- `ThreadIdsNeverDangle`: needs that 0 is no thread.
- `MappingsNeverReplaced`: an action property, from `Sound` of the allocator: the frame a
  fault takes was free.
- `DeviceTablesAgree` (`DevicesExact`): names, type lists, exclusive access, drivers and
  receive buffers. What is added to make it inductive: types; ids in the tables are below
  `nextDevice`, so a new device is the largest of its type's list and appending keeps the order,
  and the newest of its name; and nobody is in a device that is neither open nor exclusive, so
  the first to open it exclusively is its only user. Removing an id shifts the entries behind it
  by one, which keeps order and injectivity.
- `SourceIsExecuted` (`ExecutionMatchesSource`): an action property from the invariant `CpuInv`.
  While `intact`, a page of the program that is present still holds the words the assembler
  made (`WordsKept`), and a page of the program that is absent was swapped out (`CodeEvicted`);
  without the last part a MapPage could put something else where the program was. A STORE
  outside the program is outside all of its words because an address is its page and its
  offset, and so is a text that is written elsewhere (`FilledKeeps`, `CodeLoaded`). Then the two
  words at an even pc are the header and the value of the line `LineNo` (`FetchLine`), and each
  class of instructions is compared with `Meaning`: the machine's `% U64` with one addition or
  subtraction of 2^64 (`ResultIs`), the register number that survives the cut to 32 bits, the
  failed division that stops the CPU behind the instruction and changes nothing else.

The run `kernel` evaluates the assumptions `SyncAssumption`, `BusAssumption` and
`PcbAssumption` (bounds are numbers, u32::MAX is positive, 0 is no thread id),
`DevicesAssumption` (0 is no process), `CpuAssumption` (there are pages and at least three
registers, a register number fits a byte, u8 is no wider than u32 and u32 than u64, and a u32 is
whole bytes), `SourcesAssumption` (a program is a sequence of lines, an immediate a number) and
`DataAssumption` (texts, results and reused frames are words, ids and words).

Only model-checked: the liveness properties `QueuedPidsRun`, `WaitersMoveOn`,
`StartedTimerTicks` and `EveryRequestServed`, which need fairness and are out of the prover's
reach. What they rest on is proved: `FirstComeFirstServed` and `WorkConserving`, `NoLostWakeUp`,
`StartedTimerHasThread`. The four runs with a violation state what
does not hold. The parts `MCKernel` puts together share no state, so nothing is lost by
proving them one at a time.

## 6. Not modelled, and what is left

Not modelled: page, sector and message contents, process names and exit codes, mapping
flags of the MMU, permissions and times of files (never read); the block layer and
partitions (`hardware/block.rs`), `DirectBus` and the network and serial transmit side,
which have no user; the vector table (`hardware/ivt.rs`), error types and the start-up
sequence beyond the order of subscriptions, which keep no state; the shell's parser,
builtins and monitor, which turn text into the requests modelled here and print answers;
the bytes of the built-in programs (`gen_builtin_program`); Dup, Dup2 and the device
requests that only answer. Commands of the shell are single requests; a pipeline of them
is any sequence of requests.

The process service and the memory service are composed through the requests they
exchange (`MemoryService`), not as one specification: the product of `ProcessService` with
frames and pages is beyond TLC, and what one needs of the other is there as
nondeterminism (a fork, exec or spawn may fail; a process may fault at any page).

Every invariant and action property of the passing runs is a theorem. Left: the liveness
properties, for which the proof system has no rule, and the hazards PROJECT.json lists
without a property, which are faults the code has rather than promises it makes.

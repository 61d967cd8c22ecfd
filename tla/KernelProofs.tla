---------------------------- MODULE KernelProofs ----------------------------
(***************************************************************************)
(* The parts of the kernel that work on state of their own, for any        *)
(* threads, processes, pages, frames and requests: the timer, semaphores   *)
(* and mutexes, response channels, process control blocks, the memory      *)
(* service's second set of page tables, devices with their drivers, and    *)
(* the way from assembler source to what the CPU executes.                 *)
(***************************************************************************)
EXTENDS Timer, SyncPrimitives, MessageBus, Ipc, Pcb, PageTables, Devices, Cpu, FrameProofs,
        FiniteSetTheorems

------------------------------------------------------------------------------
(* The timer.                                                                *)

\* A timer that start made Running has a thread that will find it Running.
HasThread == timer = "Running" /\ started => \E t \in Threads : ticker[t] # "none"

TimerInv == TimerTypeOK /\ HasThread

\* What ticks never runs out: start, stop, pause and resume in any order, with threads of
\* earlier starts anywhere in their loops, leave a timer that start made Running with a
\* live thread, because a thread ends only at a check that finds the timer not Running and
\* start spawns one whatever the others do (Timer::start, timer.rs).  After resume there
\* may be none: resume spawns nothing.
THEOREM StartedTimerHasThread == TimerSpec => []TimerInv
<1>1. TimerInit => TimerInv
    BY DEF TimerInit, TimerInv, TimerTypeOK, HasThread, Steps
<1>2. TimerInv /\ [TimerNext]_timerVars => TimerInv'
    <2> SUFFICES ASSUME TimerInv, [TimerNext]_timerVars PROVE TimerInv'
        OBVIOUS
    <2>0. TimerTypeOK /\ HasThread
        BY DEF TimerInv
    <2>1. CASE UNCHANGED timerVars
        BY <2>0, <2>1 DEF timerVars, TimerInv, TimerTypeOK, HasThread
    <2>2. CASE TimerStop \/ TimerPause \/ TimerResume \/ TimerReset
        <3>1. /\ timer' \in {"Stopped", "Running", "Paused"} /\ ticker' = ticker
              /\ timer' = "Running" /\ started' => timer = "Running" /\ started
            BY <2>0, <2>2 DEF TimerStop, TimerPause, TimerResume, TimerReset, TimerTypeOK
        <3>2. started' \in BOOLEAN /\ beat' \in BOOLEAN /\ counted' \in BOOLEAN
            BY <2>0, <2>2, Zenon
                DEF TimerStop, TimerPause, TimerResume, TimerReset, TimerTypeOK
        <3> QED
            BY <2>0, <3>1, <3>2 DEF TimerInv, TimerTypeOK, HasThread
    <2>3. ASSUME NEW t \in Threads, TimerStart(t) PROVE TimerInv'
        <3>1. ticker' = [ticker EXCEPT ![t] = "check"] /\ timer' = "Running" /\ started' = TRUE
              /\ beat' = beat /\ counted' = counted
            BY <2>3 DEF TimerStart
        <3>2. ticker' \in [Threads -> Steps] /\ ticker'[t] = "check"
            BY <2>0, <3>1 DEF TimerTypeOK, Steps
        <3> QED
            BY <2>0, <3>1, <3>2 DEF TimerInv, TimerTypeOK, HasThread
    <2>4. ASSUME NEW t \in Threads, ThreadChecks(t) PROVE TimerInv'
        <3> DEFINE x == CASE timer # "Running" -> "none"
                          [] timer = "Running" /\ ticker[t] = "check" -> "sleep"
                          [] OTHER -> "send"
        <3>1. ticker' = [ticker EXCEPT ![t] = x] /\ timer' = timer /\ started' = started
              /\ beat' = beat /\ counted' = counted
            BY <2>4 DEF ThreadChecks
        <3>2. x \in Steps /\ (timer = "Running" => x # "none")
            BY DEF Steps
        <3> HIDE DEF x
        <3>3. ticker' \in [Threads -> Steps] /\ ticker'[t] = x
            BY <2>0, <3>1, <3>2 DEF TimerTypeOK
        <3> QED
            BY <2>0, <3>1, <3>2, <3>3 DEF TimerInv, TimerTypeOK, HasThread
    <2>5. ASSUME NEW t \in Threads, ThreadWakes(t) \/ ThreadSends(t) PROVE TimerInv'
        <3>1. PICK x \in {"recheck", "check"} : ticker' = [ticker EXCEPT ![t] = x]
            BY <2>5 DEF ThreadWakes, ThreadSends
        <3>2. ticker' \in [Threads -> Steps] /\ ticker'[t] # "none"
            BY <2>0, <3>1 DEF TimerTypeOK, Steps
        <3>3. timer' = timer /\ started' = started /\ beat' \in BOOLEAN /\ counted' \in BOOLEAN
            BY <2>0, <2>5 DEF ThreadWakes, ThreadSends, TimerTypeOK
        <3> QED
            BY <2>0, <3>2, <3>3 DEF TimerInv, TimerTypeOK, HasThread
    <2> QED
        BY <2>1, <2>2, <2>3, <2>4, <2>5 DEF TimerNext, ThreadStep
<1> QED
    BY <1>1, <1>2, PTL DEF TimerSpec

------------------------------------------------------------------------------
(* Semaphores and mutexes.                                                   *)

SemType ==
    sem \in [value : Nat, initial : Nat, max : {1, U32Max}, waits : Nat, valid : BOOLEAN]

CallType ==
    call \in [SemThreads -> [op : {"none", "wait", "try_wait", "signal"}, seen : Nat]]

UnitsType == units \in [taken : Nat, given : Nat, full : Nat, start : Nat]

LockType ==
    lock \in [owner : Nat, count : Nat, recursive : BOOLEAN, waits : Nat, valid : BOOLEAN]

\* UnitsConserved is inductive once what a thread has loaded is known to be a number.
SyncInv == SemType /\ CallType /\ UnitsType /\ LockType /\ UnitsConserved

\* Wrapping and saturating arithmetic stay among the u32.
LEMMA U32Arithmetic ==
    \A n \in Nat : WrapInc(n) \in Nat /\ WrapDec(n) \in Nat /\ SatInc(n) \in Nat
                   /\ SatInc(n) = (IF n = U32Max THEN n ELSE n + 1)
                   /\ (n < U32Max => WrapInc(n) = n + 1)
    BY SyncAssumption DEF WrapInc, WrapDec, SatInc

\* A semaphore that nobody has called has the units it was created with.
LEMMA SyncInvInit == SyncInit => SyncInv
<1> SUFFICES ASSUME SyncInit PROVE SyncInv
    OBVIOUS
<1>0. U32Max \in Nat \ {0}
    BY SyncAssumption
<1>1. PICK initial \in 0 .. U32Max, max \in {1, U32Max} : sem = NewSemaphore(initial, max)
    BY DEF SyncInit
<1>2. SemType /\ sem.initial = initial /\ sem.max = max /\ sem.value <= max
    BY <1>0, <1>1 DEF NewSemaphore, SemType
<1>3. CallType
    BY DEF SyncInit, CallType, NotCalling
<1>4. UnitsType /\ units.taken = 0 /\ units.given = 0 /\ units.full = 0 /\ units.start = sem.value
    BY <1>2 DEF SyncInit, UnitsType, SemType
<1>5. LockType /\ lock.owner = 0 /\ lock.count = 0
    BY DEF SyncInit, LockType, NewMutex
<1>6. UnitsConserved
    BY <1>0, <1>2, <1>4, <1>5 DEF UnitsConserved, SemType
<1> QED
    BY <1>2, <1>3, <1>4, <1>5, <1>6 DEF SyncInv

\* Every atomic step of a semaphore call, and every call of a mutex, keeps SyncInv.
LEMMA SyncInvNext == SyncInv /\ [SyncNext]_syncVars => SyncInv'
<1> SUFFICES ASSUME SyncInv, [SyncNext]_syncVars PROVE SyncInv'
    OBVIOUS
<1>0. SemType /\ CallType /\ UnitsType /\ LockType /\ UnitsConserved
    BY DEF SyncInv
<1>a. U32Max \in Nat \ {0}
    BY SyncAssumption
<1>b. sem.value \in Nat /\ sem.initial \in Nat /\ (sem.max = 1 \/ sem.max = U32Max)
      /\ sem.waits \in Nat
    BY <1>0 DEF SemType
<1>c. /\ units.taken \in Nat /\ units.given \in Nat
      /\ units.full \in Nat /\ units.start \in Nat
    BY <1>0 DEF UnitsType
<1>d. \A t \in SemThreads : call[t].seen \in Nat
    BY <1>0 DEF CallType
<1>e. \A t \in SemThreads : Return(t) \/ Reload(t) => CallType'
    BY <1>0, <1>b DEF CallType, Return, Reload, NotCalling
<1>1. CASE UNCHANGED syncVars
    BY <1>0, <1>1 DEF syncVars, SyncInv, SemType, CallType, UnitsType, LockType, UnitsConserved
<1>2. CASE SemReset
    <2>1. sem' = [sem EXCEPT !.value = sem.initial] /\ call' = call /\ lock' = lock
          /\ units' = [taken |-> 0, given |-> 0, full |-> 0, start |-> sem.initial]
        BY <1>2 DEF SemReset
    <2>2. SemType' /\ CallType' /\ UnitsType' /\ LockType'
        BY <2>1, <1>0 DEF SemType, CallType, UnitsType, LockType
    <2>3. sem'.value = sem.initial /\ sem'.initial = sem.initial /\ sem'.max = sem.max
        BY <2>1, <1>0 DEF SemType
    <2>4. UnitsConserved'
        BY <2>1, <2>3, <1>0, <1>a, <1>b DEF UnitsConserved
    <2> QED
        BY <2>2, <2>4 DEF SyncInv
<1>3. CASE SemDestroy \/ LockDestroy
    <2>1. /\ sem' = sem \/ sem' = [sem EXCEPT !.valid = FALSE]
          /\ lock' = lock \/ lock' = [lock EXCEPT !.valid = FALSE]
          /\ call' = call /\ units' = units
        BY <1>3 DEF SemDestroy, LockDestroy
    <2>2. SemType' /\ CallType' /\ UnitsType' /\ LockType'
        BY <2>1, <1>0 DEF SemType, CallType, UnitsType, LockType
    <2>3. /\ sem'.value = sem.value /\ sem'.initial = sem.initial /\ sem'.max = sem.max
          /\ lock'.owner = lock.owner /\ lock'.count = lock.count
          /\ lock'.recursive = lock.recursive
        BY <2>1, <1>0 DEF SemType, LockType
    <2>4. UnitsConserved'
        BY <2>1, <2>3, <1>0 DEF UnitsConserved
    <2> QED
        BY <2>2, <2>4 DEF SyncInv
<1>4. ASSUME NEW t \in SemThreads, NEW op \in {"wait", "try_wait", "signal"}, SemCall(t, op)
      PROVE  SyncInv'
    <2>1. call' = [call EXCEPT ![t] = [op |-> op, seen |-> sem.value]]
          /\ sem' = sem /\ units' = units /\ lock' = lock
        BY <1>4 DEF SemCall
    <2>2. CallType'
        BY <2>1, <1>0, <1>b DEF CallType
    <2> QED
        BY <2>1, <2>2, <1>0 DEF SyncInv, SemType, UnitsType, LockType, UnitsConserved
<1>5. ASSUME NEW t \in SemThreads, WouldBlock(t) PROVE SyncInv'
    <2>1. units' = units /\ lock' = lock /\ Return(t)
          /\ sem' = IF call[t].op = "wait" THEN [sem EXCEPT !.waits = WrapInc(@)] ELSE sem
        BY <1>5 DEF WouldBlock
    <2>2. SemType' /\ sem'.value = sem.value /\ sem'.initial = sem.initial /\ sem'.max = sem.max
        <3>1. WrapInc(sem.waits) \in Nat
            BY <1>b, U32Arithmetic
        <3> QED
            BY <3>1, <2>1, <1>0 DEF SemType
    <2>3. CallType'
        BY <2>1, <1>e
    <2> QED
        BY <2>1, <2>2, <2>3, <1>0 DEF SyncInv, UnitsType, LockType, UnitsConserved
<1>6. ASSUME NEW t \in SemThreads, TakeUnit(t) PROVE SyncInv'
    <2>1. lock' = lock /\ CallType'
        BY <1>6, <1>e DEF TakeUnit
    <2>2. CASE sem' = sem /\ units' = units
        BY <2>1, <2>2, <1>0 DEF SyncInv, SemType, UnitsType, LockType, UnitsConserved
    <2>3. CASE /\ call[t].seen > 0 /\ sem.value = call[t].seen
               /\ sem' = [sem EXCEPT !.value = call[t].seen - 1]
               /\ units' = [units EXCEPT !.taken = @ + 1]
        <3>1. sem.value - 1 \in Nat /\ sem' = [sem EXCEPT !.value = sem.value - 1]
            BY <2>3, <1>b
        <3>2. SemType' /\ sem'.value = sem.value - 1 /\ sem'.initial = sem.initial
              /\ sem'.max = sem.max
            BY <3>1, <1>0 DEF SemType
        <3>3. UnitsType' /\ units'.taken = units.taken + 1 /\ units'.given = units.given
              /\ units'.start = units.start /\ units'.full = units.full
            BY <2>3, <1>0 DEF UnitsType
        <3>4. UnitsConserved'
            BY <3>2, <3>3, <2>1, <1>0, <1>a, <1>b, <1>c DEF UnitsConserved
        <3> QED
            BY <3>2, <3>3, <3>4, <2>1, <1>0 DEF SyncInv, LockType
    <2> QED
        BY <2>2, <2>3, <1>6 DEF TakeUnit
<1>7. ASSUME NEW t \in SemThreads, GiveUnit(t) PROVE SyncInv'
    <2>1. lock' = lock /\ CallType'
        BY <1>7, <1>e DEF GiveUnit
    <2>2. CASE sem' = sem /\ units' = units
        BY <2>1, <2>2, <1>0 DEF SyncInv, SemType, UnitsType, LockType, UnitsConserved
    <2>3. CASE /\ SatInc(call[t].seen) <= sem.max /\ sem.value = call[t].seen
               /\ sem' = [sem EXCEPT !.value = SatInc(call[t].seen), !.waits = WrapDec(@)]
               /\ units' = [units EXCEPT !.given = @ + 1,
                                         !.full = IF call[t].seen = U32Max THEN @ + 1 ELSE @]
        <3> DEFINE n == SatInc(sem.value)
                   k == IF sem.value = U32Max THEN units.full + 1 ELSE units.full
        <3>1. n \in Nat /\ n + k = sem.value + units.full + 1 /\ k \in Nat
              /\ WrapDec(sem.waits) \in Nat
            BY <1>b, <1>c, U32Arithmetic
        <3>2. n <= sem.max /\ sem' = [sem EXCEPT !.value = n, !.waits = WrapDec(@)]
              /\ units' = [units EXCEPT !.given = @ + 1, !.full = k]
            BY <2>3
        <3> HIDE DEF n, k
        <3>3. SemType' /\ sem'.value = n /\ sem'.initial = sem.initial /\ sem'.max = sem.max
            BY <3>1, <3>2, <1>0 DEF SemType
        <3>4. UnitsType' /\ units'.given = units.given + 1 /\ units'.taken = units.taken
              /\ units'.start = units.start /\ units'.full = k
            <4>1. units.given + 1 \in Nat /\ k \in Nat
                BY <1>c, <3>1
            <4>2. units' = [units EXCEPT !.given = units.given + 1, !.full = k]
                BY <3>2
            <4> QED
                BY <4>1, <4>2, <1>0 DEF UnitsType
        <3>5. UnitsConserved'
            BY <3>1, <3>2, <3>3, <3>4, <2>1, <1>0, <1>a, <1>b, <1>c DEF UnitsConserved
        <3> QED
            BY <3>3, <3>4, <3>5, <2>1, <1>0 DEF SyncInv, LockType
    <2> QED
        BY <2>2, <2>3, <1>7 DEF GiveUnit
<1>8. ASSUME NEW p \in 1 .. Cardinality(SemThreads), LockCall(p) PROVE SyncInv'
    <2>1. sem' = sem /\ call' = call /\ units' = units
          /\ \/ /\ lock.recursive /\ lock.owner = p => lock.count < MaxUnits
                /\ lock' = Acquire(lock, p)
             \/ lock' = Release(lock, p)
        BY <1>8 DEF LockCall
    <2>2. p \in Nat /\ p > 0
        OBVIOUS
    <2>3. WrapInc(lock.waits) \in Nat /\ lock.waits \in Nat /\ lock.count \in Nat
        BY <1>0, U32Arithmetic DEF LockType
    <2>4. (lock.owner # 0 <=> lock.count > 0) /\ (lock.count > 1 => lock.recursive)
        BY <1>0 DEF UnitsConserved
    <2> DEFINE Held(l) == (l.owner # 0 <=> l.count > 0) /\ (l.count > 1 => l.recursive)
    <2>5. LockType' /\ Held(lock')
        <3>0. lock.owner \in Nat /\ lock.recursive \in BOOLEAN
            BY <1>0 DEF LockType
        <3>a. CASE lock' = lock
            BY <3>a, <2>4, <1>0 DEF LockType
        <3>1. CASE /\ lock.recursive /\ lock.owner = p => lock.count < MaxUnits
                   /\ lock' = Acquire(lock, p)
            <4>1. CASE lock.owner = 0 /\ lock' = [lock EXCEPT !.owner = p, !.count = 1]
                <5>1. LockType'
                    BY <4>1, <2>2, <1>0 DEF LockType
                <5>2. lock'.owner = p /\ lock'.count = 1
                    BY <4>1, <1>0 DEF LockType
                <5> QED
                    BY <5>1, <5>2, <2>2
            <4>2. CASE lock.owner = p /\ lock.recursive /\ lock' = [lock EXCEPT !.count = WrapInc(@)]
                <5>0. WrapInc(lock.count) = lock.count + 1
                    BY <2>3, <3>1, <4>2, SyncAssumption, U32Arithmetic
                <5>1. LockType'
                    BY <4>2, <5>0, <2>3, <1>0 DEF LockType
                <5>2. lock'.owner = p /\ lock'.count = lock.count + 1
                      /\ lock'.recursive = lock.recursive
                    BY <4>2, <5>0, <1>0 DEF LockType
                <5>3. lock'.owner # 0 /\ lock'.count > 0
                    BY <5>2, <2>2, <2>3
                <5>4. lock'.recursive
                    BY <5>2, <4>2
                <5> QED
                    BY <5>1, <5>3, <5>4
            <4>3. CASE lock' = [lock EXCEPT !.waits = WrapInc(@)]
                <5>1. LockType'
                    BY <4>3, <2>3, <1>0 DEF LockType
                <5>2. lock'.owner = lock.owner /\ lock'.count = lock.count
                      /\ lock'.recursive = lock.recursive
                    BY <4>3, <1>0 DEF LockType
                <5> QED
                    BY <5>1, <5>2, <2>4
            <4> QED
                BY <3>1, <3>a, <4>1, <4>2, <4>3 DEF Acquire
        <3>2. CASE lock' = Release(lock, p)
            <4>1. CASE /\ lock.owner = p /\ lock.count # 1
                       /\ lock' = [lock EXCEPT !.count = @ - 1]
                <5>1. lock.count > 1 /\ lock.count - 1 \in Nat
                    BY <4>1, <2>2, <2>3, <2>4
                <5>2. LockType'
                    BY <4>1, <5>1, <1>0 DEF LockType
                <5>3. lock'.owner = p /\ lock'.count = lock.count - 1
                      /\ lock'.recursive = lock.recursive
                    BY <4>1, <1>0 DEF LockType
                <5>4. lock'.owner # 0 /\ lock'.count > 0
                    BY <5>1, <5>3, <2>2, <2>3
                <5>5. lock'.recursive
                    BY <5>1, <5>3, <2>4
                <5> QED
                    BY <5>2, <5>4, <5>5
            <4>2. CASE lock' = [lock EXCEPT !.count = 0, !.owner = 0,
                                            !.waits = IF @ > 0 THEN @ - 1 ELSE @]
                <5>1. (IF lock.waits > 0 THEN lock.waits - 1 ELSE lock.waits) \in Nat
                    BY <2>3
                <5>2. LockType'
                    BY <4>2, <5>1, <1>0 DEF LockType
                <5>3. lock'.owner = 0 /\ lock'.count = 0
                    BY <4>2, <1>0 DEF LockType
                <5> QED
                    BY <5>2, <5>3
            <4> QED
                BY <3>2, <3>a, <4>1, <4>2 DEF Release
        <3> QED
            BY <2>1, <3>1, <3>2
    <2> QED
        BY <2>1, <2>5, <1>0 DEF SyncInv, SemType, CallType, UnitsType, UnitsConserved
<1> QED
    BY <1>1, <1>2, <1>3, <1>4, <1>5, <1>6, <1>7, <1>8 DEF SyncNext, SemNext, LockNext

\* No interleaving of the compare-exchange loops of Semaphore::wait, try_wait and
\* signal (sync.rs) loses or makes up a unit, for any threads and any width of the
\* counter; and a mutex has an owner exactly while it is counted as held.
THEOREM NoUnitLost == SyncSpec => []UnitsConserved
<1>1. SyncInv => UnitsConserved
    BY DEF SyncInv
<1> QED
    BY <1>1, SyncInvInit, SyncInvNext, PTL DEF SyncSpec

------------------------------------------------------------------------------
(* Response channels.                                                        *)

\* The channel of a request holds answers to that request only, and what a client
\* waits for is a request.
BusInv ==
    /\ nextId \in 1 .. MaxRequests + 1
    /\ waiting \in [BusClients -> 0 .. MaxRequests]
    /\ DOMAIN replies = RequestIds /\ replies = [r \in RequestIds |-> replies[r]]
    /\ \A r \in RequestIds : replies[r] \in Seq({r})
    /\ AnswerMatchesRequest

RepliesInv(q) ==
    /\ DOMAIN q = RequestIds /\ q = [r \in RequestIds |-> q[r]]
    /\ \A r \in RequestIds : q[r] \in Seq({r})

\* A response goes to the channel of its own request.
LEMMA RespondKeeps ==
    ASSUME RepliesInv(replies), NEW id, NEW n \in 0 .. 2, Respond(id, n)
    PROVE  RepliesInv(replies)'
<1>1. CASE replies' = replies
    BY <1>1 DEF RepliesInv
<1>2. CASE replies' # replies
    <2>1. replies' = [replies EXCEPT ![id] = @ \o [i \in 1 .. n |-> id]]
        BY <1>2 DEF Respond, ResponseChannel
    <2>2. [i \in 1 .. n |-> id] \in Seq({id})
        OBVIOUS
    <2>3. id \in RequestIds => replies[id] \o [i \in 1 .. n |-> id] \in Seq({id})
        BY <2>2 DEF RepliesInv
    <2> HIDE DEF RequestIds
    <2>4. \A r \in RequestIds :
            replies'[r] = IF r = id THEN replies[id] \o [i \in 1 .. n |-> id] ELSE replies[r]
        BY <2>1 DEF RepliesInv
    <2>5. DOMAIN replies' = RequestIds /\ replies' = [r \in RequestIds |-> replies'[r]]
        BY <2>1 DEF RepliesInv
    <2>6. \A r \in RequestIds : replies'[r] \in Seq({r})
        BY <2>3, <2>4 DEF RepliesInv
    <2> QED
        BY <2>5, <2>6 DEF RepliesInv
<1> QED
    BY <1>1, <1>2

\* Nothing is asked and every channel is empty at the start.
LEMMA BusInvInit == BusInit => BusInv
    BY BusAssumption DEF BusInit, BusInv, AnswerMatchesRequest, BusClients, RequestIds

\* Every step of the bus, the kernel, the services and the clients keeps BusInv.
LEMMA BusInvNext == BusInv /\ [BusNext]_busVars => BusInv'
<1> SUFFICES ASSUME BusInv, [BusNext]_busVars PROVE BusInv'
    OBVIOUS
<1>0. /\ nextId \in 1 .. MaxRequests + 1 /\ waiting \in [BusClients -> 0 .. MaxRequests]
      /\ RepliesInv(replies) /\ AnswerMatchesRequest
    BY DEF BusInv, RepliesInv
<1>a. MaxRequests \in Nat
    BY BusAssumption
<1> DEFINE Waits == nextId \in 1 .. MaxRequests + 1 /\ waiting \in [BusClients -> 0 .. MaxRequests]
<1>b. Waits' /\ RepliesInv(replies)' /\ AnswerMatchesRequest' => BusInv'
    BY DEF BusInv, RepliesInv
<1>c. ASSUME NEW c \in BusClients, NEW class, CanRequest(c), Requested(c, class) PROVE Waits'
    BY <1>0, <1>a, <1>c DEF CanRequest, Requested
<1>d. ASSUME NEW c \in BusClients, waiting' = [waiting EXCEPT ![c] = 0], nextId' = nextId
      PROVE  Waits'
    BY <1>0, <1>a, <1>d
<1>e. replies' = replies => RepliesInv(replies)'
    BY <1>0 DEF RepliesInv
<1>f. got' = got => AnswerMatchesRequest'
    BY <1>0 DEF AnswerMatchesRequest
<1>g. nextId' = nextId /\ waiting' = waiting => Waits'
    BY <1>0
<1> HIDE DEF Waits
<1>1. CASE UNCHANGED busVars
    BY <1>1, <1>b, <1>e, <1>f, <1>g DEF busVars
<1>2. CASE \/ DeviceSubscribes \/ InterruptSent \/ KernelRoutes \/ MemoryHangs \/ ProcessHangs
           \/ ProcessTicks \/ ProcessLooks
    BY <1>2, <1>b, <1>e, <1>f, <1>g
       DEF DeviceSubscribes, InterruptSent, KernelRoutes, MemoryHangs, ProcessHangs, ProcessTicks,
           ProcessLooks, UnchangedByLoop
<1>3. CASE DeviceServes
    <2>1. replies' = replies \/ \E id : Respond(id, 1)
        BY <1>3 DEF DeviceServes
    <2>2. RepliesInv(replies)'
        BY <2>1, <1>0, <1>e, RespondKeeps
    <2> QED
        BY <2>2, <1>3, <1>b, <1>f, <1>g DEF DeviceServes
<1>4. ASSUME NEW class, ShellRequests(class) PROVE BusInv'
    <2>1. Waits'
        BY <1>4, <1>c DEF ShellRequests, BusClients
    <2> QED
        BY <2>1, <1>4, <1>b, <1>e, <1>f DEF ShellRequests
<1>5. ASSUME NEW s, NEW n \in 1 .. 2, ServiceServes(s, n) PROVE BusInv'
    <2>1. Respond(Head(chan[s]).id, n)
        BY <1>5 DEF ServiceServes
    <2>2. RepliesInv(replies)'
        BY <2>1, <1>0, RespondKeeps
    <2> QED
        BY <2>2, <1>5, <1>b, <1>f, <1>g DEF ServiceServes
<1>6. ASSUME NEW class, ProcessAsks(class) PROVE BusInv'
    <2>1. Waits'
        BY <1>6, <1>c DEF ProcessAsks, BusClients
    <2> QED
        BY <2>1, <1>6, <1>b, <1>e, <1>f DEF ProcessAsks
<1>7. ASSUME NEW n \in 0 .. 2, ProcessEnds(n) PROVE BusInv'
    <2>1. RepliesInv(replies)'
        BY <1>7, <1>0, RespondKeeps DEF ProcessEnds
    <2> QED
        BY <2>1, <1>7, <1>b, <1>f, <1>g DEF ProcessEnds, UnchangedByLoop
<1>8. ASSUME NEW c \in BusClients, ClientTakes(c) PROVE BusInv'
    <2>1. waiting[c] \in RequestIds
        BY <1>0, <1>a, <1>8 DEF ClientTakes, RequestIds
    <2>2. replies[waiting[c]] \in Seq({waiting[c]}) /\ replies[waiting[c]] # <<>>
        BY <2>1, <1>0, <1>8 DEF ClientTakes, RepliesInv, ResponseChannel
    <2>3. Head(replies[waiting[c]]) = waiting[c]
        BY <2>2
    <2>4. AnswerMatchesRequest'
        BY <2>3, <1>8 DEF ClientTakes, AnswerMatchesRequest, ResponseChannel
    <2>5. Waits'
        BY <1>8, <1>d DEF ClientTakes
    <2> QED
        BY <2>4, <2>5, <1>8, <1>b, <1>e DEF ClientTakes
<1>9. ASSUME NEW c \in BusClients, ClientGivesUp(c) PROVE BusInv'
    BY <1>9, <1>b, <1>d, <1>e, <1>f DEF ClientGivesUp
<1> QED
    BY <1>1, <1>2, <1>3, <1>4, <1>5, <1>6, <1>7, <1>8, <1>9 DEF BusNext, ProcessRuns

\* A client never takes a late answer to a request it gave up on for the answer to
\* the one it waits for (send_request, recv_timeout), however many requests there are.
THEOREM NoAnswerMistaken == BusSpec => []AnswerMatchesRequest
<1>1. BusInv => AnswerMatchesRequest
    BY DEF BusInv
<1> QED
    BY <1>1, BusInvInit, BusInvNext, PTL DEF BusSpec

\* The service that handles a class of envelopes.
Home(class) ==
    CASE class = "Memory" -> "memory" [] class = "File" -> "file"
      [] class = "Device" -> "device" [] OTHER -> "process"

Envelopes == [class : Classes, id : 0 .. MaxRequests]

RoutedServices == {"process", "memory", "file"}

\* The requests that wait in a queue of envelopes, and those a service has handled.
Ids(q)     == {q[i].id : i \in DOMAIN q} \ {0}
Handed(q)  == {q[i] : i \in DOMAIN q}
Below(A, B) == \A a \in A, b \in B : a < b

\* The requests of a queue are in the order in which they were sent.
Ascending(q) == \A i, j \in DOMAIN q :
                    i < j /\ q[i].id # 0 /\ q[j].id # 0 => q[i].id < q[j].id

Increasing(q) == \A i, j \in DOMAIN q : i < j => q[i] < q[j]

BusTyped(b, ch, n, sv) ==
    /\ n \in 1 .. MaxRequests + 1
    /\ "kernel" \in DOMAIN b /\ DOMAIN b \subseteq {"kernel", "device"}
    /\ b \in [DOMAIN b -> Seq(Envelopes)]
    /\ ch \in [Channels -> Seq(Envelopes)]
    /\ sv \in [Services -> Seq(RequestIds)]

\* Every request has one class: its copies agree on it, and only the service of
\* that class has it in its channel or has handled it.
AreOf(q, cls) == \A i \in DOMAIN q : q[i].id # 0 => q[i].class = cls[q[i].id]

ForService(q, s) == \A i \in DOMAIN q : Home(q[i].class) = s

OneClass(cls, b, ch, sv) ==
    /\ \A k \in DOMAIN b : AreOf(b[k], cls)
    /\ \A s \in RoutedServices : AreOf(ch[s], cls) /\ ForService(ch[s], s)
    /\ \A s \in Services : \A r \in Handed(sv[s]) : Home(cls[r]) = s

\* What a service has handled was sent before what it has in its channel, that
\* before what the kernel has not routed yet, and that before the next request.
SentInOrder(b, ch, n, sv) ==
    /\ \A k \in DOMAIN b : Ascending(b[k]) /\ Below(Ids(b[k]), {n})
    /\ \A s \in RoutedServices :
          /\ Ascending(ch[s]) /\ Below(Ids(ch[s]), {n})
          /\ Below(Ids(ch[s]), Ids(b["kernel"]))
          /\ Below(Handed(sv[s]), Ids(ch[s]))
          /\ Below(Handed(sv[s]), Ids(b["kernel"]))
    /\ "device" \in DOMAIN b => Below(Handed(sv["device"]), Ids(b["device"]))
    /\ \A s \in Services : Increasing(sv[s]) /\ Below(Handed(sv[s]), {n})

InOrder(b, ch, n, sv) ==
    /\ BusTyped(b, ch, n, sv) /\ SentInOrder(b, ch, n, sv)
    /\ \E cls \in [RequestIds -> Classes] : OneClass(cls, b, ch, sv)

OrderInv == InOrder(bus, chan, nextId, served)

\* An envelope that is sent or routed goes behind the others.
LEMMA AppendedIds ==
    ASSUME NEW q \in Seq(Envelopes), NEW e \in Envelopes
    PROVE  /\ Append(q, e) \in Seq(Envelopes)
           /\ Ids(Append(q, e)) = Ids(q) \cup ({e.id} \ {0})
           /\ Ascending(q) /\ Below(Ids(q), {e.id} \ {0}) => Ascending(Append(q, e))
<1> DEFINE r == Append(q, e)
<1>1. r \in Seq(Envelopes) /\ Len(r) = Len(q) + 1 /\ Len(q) \in Nat
    OBVIOUS
<1>2. \A i \in 1 .. Len(q) : r[i] = q[i]
    OBVIOUS
<1>3. r[Len(q) + 1] = e
    OBVIOUS
<1>4. DOMAIN q = 1 .. Len(q) /\ DOMAIN r = 1 .. Len(q) + 1
    BY <1>1
<1> HIDE DEF r
<1>5. \A i \in DOMAIN r : (i \in DOMAIN q /\ r[i] = q[i]) \/ (i = Len(q) + 1 /\ r[i] = e)
    BY <1>1, <1>2, <1>3, <1>4
<1>6. Ids(r) = Ids(q) \cup ({e.id} \ {0})
    BY <1>1, <1>2, <1>3, <1>4, <1>5 DEF Ids
<1>7. ASSUME Ascending(q), Below(Ids(q), {e.id} \ {0}) PROVE Ascending(r)
    <2> SUFFICES ASSUME NEW i \in DOMAIN r, NEW j \in DOMAIN r, i < j, r[i].id # 0, r[j].id # 0
                 PROVE  r[i].id < r[j].id
        BY DEF Ascending
    <2>1. i \in DOMAIN q /\ r[i] = q[i]
        BY <1>1, <1>4, <1>5
    <2>2. CASE j \in DOMAIN q
        BY <2>1, <2>2, <1>2, <1>4, <1>7 DEF Ascending
    <2>3. CASE j = Len(q) + 1 /\ r[j] = e
        <3>1. q[i].id \in Ids(q)
            BY <2>1 DEF Ids
        <3> QED
            BY <3>1, <2>1, <2>3, <1>7 DEF Below
    <2> QED
        BY <2>2, <2>3, <1>5
<1> QED
    BY <1>1, <1>6, <1>7 DEF r

\* An envelope that is taken was sent before those that stay.
LEMMA TakenIds ==
    ASSUME NEW q \in Seq(Envelopes), q # <<>>
    PROVE  /\ Head(q) \in Envelopes /\ Head(q) = q[1] /\ 1 \in DOMAIN q
           /\ Tail(q) \in Seq(Envelopes)
           /\ \A i \in DOMAIN Tail(q) : i + 1 \in DOMAIN q /\ Tail(q)[i] = q[i + 1]
           /\ Ids(Tail(q)) \subseteq Ids(q) /\ {Head(q).id} \ {0} \subseteq Ids(q)
           /\ Ascending(q) => Ascending(Tail(q)) /\ Below({Head(q).id} \ {0}, Ids(Tail(q)))
<1> DEFINE r == Tail(q)
<1>1. Len(q) \in Nat \ {0} /\ Head(q) \in Envelopes /\ Head(q) = q[1] /\ r \in Seq(Envelopes)
      /\ Len(r) = Len(q) - 1 /\ DOMAIN q = 1 .. Len(q) /\ DOMAIN r = 1 .. Len(r)
    OBVIOUS
<1>2. \A i \in 1 .. Len(r) : r[i] = q[i + 1]
    OBVIOUS
<1> HIDE DEF r
<1>3. \A i \in DOMAIN r : i \in Nat \ {0} /\ i + 1 \in DOMAIN q /\ r[i] = q[i + 1]
    BY <1>1, <1>2
<1>4. 1 \in DOMAIN q
    BY <1>1
<1>5. Ids(r) \subseteq Ids(q) /\ {Head(q).id} \ {0} \subseteq Ids(q)
    BY <1>1, <1>3, <1>4 DEF Ids
<1>6. ASSUME Ascending(q) PROVE Ascending(r)
    <2> SUFFICES ASSUME NEW i \in DOMAIN r, NEW j \in DOMAIN r, i < j, r[i].id # 0, r[j].id # 0
                 PROVE  r[i].id < r[j].id
        BY DEF Ascending
    <2>1. i + 1 \in DOMAIN q /\ j + 1 \in DOMAIN q /\ i + 1 < j + 1
          /\ r[i] = q[i + 1] /\ r[j] = q[j + 1]
        BY <1>3
    <2> QED
        BY <2>1, <1>6 DEF Ascending
<1>7. ASSUME Ascending(q) PROVE Below({Head(q).id} \ {0}, Ids(r))
    <2> SUFFICES ASSUME Head(q).id # 0, NEW j \in DOMAIN r, r[j].id # 0
                 PROVE  Head(q).id < r[j].id
        BY DEF Below, Ids
    <2>1. j + 1 \in DOMAIN q /\ 1 < j + 1 /\ r[j] = q[j + 1]
        BY <1>3
    <2> QED
        BY <2>1, <1>1, <1>4, <1>7 DEF Ascending
<1> QED
    BY <1>1, <1>3, <1>4, <1>5, <1>6, <1>7 DEF r

\* A service that handles a request later than all those it handled before.
LEMMA HandedGrows ==
    ASSUME NEW q \in Seq(RequestIds), NEW n \in RequestIds
    PROVE  /\ Append(q, n) \in Seq(RequestIds)
           /\ Handed(Append(q, n)) = Handed(q) \cup {n}
           /\ Increasing(q) /\ Below(Handed(q), {n}) => Increasing(Append(q, n))
<1> DEFINE r == Append(q, n)
<1>1. r \in Seq(RequestIds) /\ Len(r) = Len(q) + 1 /\ Len(q) \in Nat
    OBVIOUS
<1>2. \A i \in 1 .. Len(q) : r[i] = q[i]
    OBVIOUS
<1>3. r[Len(q) + 1] = n
    OBVIOUS
<1>4. DOMAIN q = 1 .. Len(q) /\ DOMAIN r = 1 .. Len(q) + 1
    BY <1>1
<1> HIDE DEF r
<1>5. \A i \in DOMAIN r : (i \in DOMAIN q /\ r[i] = q[i]) \/ (i = Len(q) + 1 /\ r[i] = n)
    BY <1>1, <1>2, <1>3, <1>4
<1>6. Handed(r) = Handed(q) \cup {n}
    BY <1>1, <1>2, <1>3, <1>4, <1>5 DEF Handed
<1>7. ASSUME Increasing(q), Below(Handed(q), {n}) PROVE Increasing(r)
    <2> SUFFICES ASSUME NEW i \in DOMAIN r, NEW j \in DOMAIN r, i < j PROVE r[i] < r[j]
        BY DEF Increasing
    <2>1. i \in DOMAIN q /\ r[i] = q[i]
        BY <1>1, <1>4, <1>5
    <2> QED
        BY <2>1, <1>2, <1>4, <1>5, <1>7 DEF Increasing, Below, Handed
<1> QED
    BY <1>1, <1>6, <1>7 DEF r

\* Sending an envelope, with the next request id or with none, keeps the order.
LEMMA SendKeepsOrder ==
    ASSUME NEW b, NEW ch, NEW n, NEW sv, InOrder(b, ch, n, sv), NEW e \in Envelopes, NEW m,
           \/ e.id = 0 /\ m = n
           \/ e.id = n /\ m = n + 1 /\ n <= MaxRequests
    PROVE  InOrder(Broadcast(b, e), ch, m, sv)
<1> DEFINE B == Broadcast(b, e)
<1>0. BusTyped(b, ch, n, sv) /\ SentInOrder(b, ch, n, sv) /\ MaxRequests \in Nat
    BY BusAssumption DEF InOrder
<1>1. PICK cls \in [RequestIds -> Classes] : OneClass(cls, b, ch, sv)
    BY DEF InOrder
<1>2. m \in 1 .. MaxRequests + 1 /\ n \in 1 .. MaxRequests + 1 /\ n <= m
    BY <1>0 DEF BusTyped
<1>3. DOMAIN B = DOMAIN b /\ \A k \in DOMAIN b : B[k] = Append(b[k], e) /\ b[k] \in Seq(Envelopes)
    BY <1>0 DEF Broadcast, BusTyped
<1>k. "kernel" \in DOMAIN b
    BY <1>0 DEF BusTyped
<1>4. BusTyped(B, ch, m, sv)
    <2>1. B \in [DOMAIN B -> Seq(Envelopes)]
        BY <1>3 DEF Broadcast
    <2> QED
        BY <2>1, <1>0, <1>2, <1>3 DEF BusTyped
<1> HIDE DEF B
<1>5. \A k \in DOMAIN b : Ids(B[k]) = Ids(b[k]) \cup ({e.id} \ {0})
    BY <1>3, AppendedIds
<1>6. e.id # 0 => e.id = n /\ n < m
    BY <1>2
<1>n. \A A : Below(A, {n}) => Below(A, {e.id} \ {0})
    BY <1>6 DEF Below
<1>7. \A k \in DOMAIN b : Ascending(B[k])
    BY <1>0, <1>3, <1>n, AppendedIds DEF SentInOrder
<1>8. \A A \in SUBSET (0 .. MaxRequests) : Below(A, {n}) => Below(A, {m})
    BY <1>2 DEF Below
<1>9. \A A, k : k \in DOMAIN b /\ Below(A, {n}) /\ Below(A, Ids(b[k])) => Below(A, Ids(B[k]))
    BY <1>5, <1>6 DEF Below
<1>10. \A q \in Seq(Envelopes) : Ids(q) \in SUBSET (0 .. MaxRequests)
    <2> SUFFICES ASSUME NEW q \in Seq(Envelopes), NEW i \in DOMAIN q PROVE q[i].id \in 0 .. MaxRequests
        BY DEF Ids
    <2>1. q[i] \in Envelopes
        OBVIOUS
    <2> QED
        BY <2>1 DEF Envelopes
<1>11. \A q \in Seq(RequestIds) : Handed(q) \in SUBSET (0 .. MaxRequests)
    <2> SUFFICES ASSUME NEW q \in Seq(RequestIds), NEW i \in DOMAIN q PROVE q[i] \in 0 .. MaxRequests
        BY DEF Handed
    <2>1. q[i] \in RequestIds
        OBVIOUS
    <2> QED
        BY <2>1, <1>0 DEF RequestIds
<1>12. \A k \in DOMAIN b : Below(Ids(B[k]), {m})
    BY <1>0, <1>2, <1>3, <1>5, <1>6, <1>8, <1>10 DEF Below, SentInOrder
<1>13. \A s \in RoutedServices : ch[s] \in Seq(Envelopes)
    BY <1>0 DEF BusTyped, RoutedServices, Channels
<1>14. \A s \in Services : sv[s] \in Seq(RequestIds)
    BY <1>0 DEF BusTyped
<1>s. \A s \in RoutedServices : s \in Services
    BY DEF RoutedServices, Services
<1>15. SentInOrder(B, ch, m, sv)
    <2>1. ASSUME NEW s \in RoutedServices
          PROVE  /\ Below(Ids(ch[s]), {m}) /\ Below(Ids(ch[s]), Ids(B["kernel"]))
                 /\ Below(Handed(sv[s]), Ids(B["kernel"])) /\ Ascending(ch[s])
                 /\ Below(Handed(sv[s]), Ids(ch[s]))
        BY <1>0, <1>k, <1>8, <1>9, <1>10, <1>13, <1>s DEF SentInOrder
    <2>2. \A s \in Services : Increasing(sv[s]) /\ Below(Handed(sv[s]), {m})
        BY <1>0, <1>8, <1>11, <1>14 DEF SentInOrder
    <2>3. "device" \in DOMAIN B => Below(Handed(sv["device"]), Ids(B["device"]))
        BY <1>0, <1>3, <1>9 DEF SentInOrder, Services
    <2> QED
        BY <2>1, <2>2, <2>3, <1>3, <1>7, <1>12 DEF SentInOrder
<1> DEFINE c == [r \in RequestIds |-> IF r = e.id THEN e.class ELSE cls[r]]
<1>16. c \in [RequestIds -> Classes] /\ (e.id # 0 => c[e.id] = e.class)
    BY <1>2, <1>6 DEF Envelopes, RequestIds
<1>17. \A r \in RequestIds : r < n => c[r] = cls[r]
    BY <1>0, <1>2, <1>6 DEF RequestIds
<1> HIDE DEF c
<1>18. \A q \in Seq(Envelopes) : Below(Ids(q), {n}) /\ AreOf(q, cls) => AreOf(q, c)
    <2> SUFFICES ASSUME NEW q \in Seq(Envelopes), Below(Ids(q), {n}), AreOf(q, cls),
                        NEW i \in DOMAIN q, q[i].id # 0
                 PROVE  q[i].class = c[q[i].id]
        BY DEF AreOf
    <2>1. q[i] \in Envelopes
        OBVIOUS
    <2>2. q[i].id \in RequestIds /\ q[i].id < n
        BY <2>1, <1>0 DEF Envelopes, Below, Ids, RequestIds
    <2> QED
        BY <2>2, <1>17 DEF AreOf
<1>19. \A k \in DOMAIN B : AreOf(B[k], c)
    <2> SUFFICES ASSUME NEW k \in DOMAIN b, NEW i \in DOMAIN B[k], B[k][i].id # 0
                 PROVE  B[k][i].class = c[B[k][i].id]
        BY <1>3 DEF AreOf
    <2>1. AreOf(b[k], c) /\ B[k] = Append(b[k], e) /\ b[k] \in Seq(Envelopes)
        BY <1>0, <1>1, <1>3, <1>18 DEF OneClass, SentInOrder
    <2>2. CASE i \in DOMAIN b[k]
        BY <2>1, <2>2 DEF AreOf
    <2>3. CASE i = Len(b[k]) + 1
        BY <2>1, <2>3, <1>16
    <2> QED
        BY <2>1, <2>2, <2>3
<1>20. \A s \in RoutedServices : AreOf(ch[s], c) /\ ForService(ch[s], s)
    BY <1>0, <1>1, <1>13, <1>18 DEF OneClass, SentInOrder
<1>21. \A s \in Services : \A r \in Handed(sv[s]) : Home(c[r]) = s
    <2> SUFFICES ASSUME NEW s \in Services, NEW r \in Handed(sv[s]) PROVE Home(c[r]) = s
        OBVIOUS
    <2>1. r \in RequestIds /\ r < n
        BY <1>0, <1>14 DEF Handed, SentInOrder, Below
    <2> QED
        BY <2>1, <1>1, <1>17 DEF OneClass
<1> QED
    BY <1>4, <1>15, <1>16, <1>19, <1>20, <1>21 DEF InOrder, OneClass, B
\* The kernel's copy of an envelope goes from the bus to the channel of its class.
LEMMA RouteKeepsOrder ==
    ASSUME NEW b, NEW ch, NEW n, NEW sv, InOrder(b, ch, n, sv), b["kernel"] # <<>>,
           NEW C, C = [c \in Channels |-> IF c \in Route(Head(b["kernel"]).class)
                                          THEN Append(ch[c], Head(b["kernel"])) ELSE ch[c]]
    PROVE  InOrder([b EXCEPT !["kernel"] = Tail(@)], C, n, sv)
<1> DEFINE q == b["kernel"]
           e == Head(q)
           B == [b EXCEPT !["kernel"] = Tail(@)]
<1>0. BusTyped(b, ch, n, sv) /\ SentInOrder(b, ch, n, sv) /\ MaxRequests \in Nat
    BY BusAssumption DEF InOrder
<1>1. PICK cls \in [RequestIds -> Classes] : OneClass(cls, b, ch, sv)
    BY DEF InOrder
<1>2. q \in Seq(Envelopes) /\ q # <<>> /\ "kernel" \in DOMAIN b
    BY <1>0 DEF BusTyped
<1>3. DOMAIN B = DOMAIN b /\ \A k \in DOMAIN b : B[k] = IF k = "kernel" THEN Tail(q) ELSE b[k]
    BY <1>0, <1>2 DEF BusTyped
<1>4. /\ e \in Envelopes /\ e = q[1] /\ 1 \in DOMAIN q
      /\ Tail(q) \in Seq(Envelopes)
      /\ \A i \in DOMAIN Tail(q) : i + 1 \in DOMAIN q /\ Tail(q)[i] = q[i + 1]
      /\ Ids(Tail(q)) \subseteq Ids(q) /\ {e.id} \ {0} \subseteq Ids(q)
      /\ Ascending(Tail(q)) /\ Below({e.id} \ {0}, Ids(Tail(q)))
    BY <1>0, <1>2, TakenIds DEF SentInOrder
<1>5. \A c \in Channels : ch[c] \in Seq(Envelopes)
    BY <1>0 DEF BusTyped
<1>6. \A c \in Channels : C[c] = IF c \in Route(e.class) THEN Append(ch[c], e) ELSE ch[c]
    OBVIOUS
<1>r. \A s \in RoutedServices : s \in Channels /\ s \in Services
    BY DEF RoutedServices, Channels, Services
<1>7. BusTyped(B, C, n, sv)
    <2>1. C \in [Channels -> Seq(Envelopes)]
        BY <1>4, <1>5
    <2>2. B \in [DOMAIN B -> Seq(Envelopes)]
        BY <1>0, <1>2, <1>4 DEF BusTyped
    <2> QED
        BY <2>1, <2>2, <1>0, <1>3 DEF BusTyped
<1>8. \A s \in RoutedServices : s \in Route(e.class) => Home(e.class) = s
    BY <1>4 DEF RoutedServices, Route, Home, Envelopes, Classes
<1> HIDE DEF B, e, q
<1>9. \A s \in RoutedServices : /\ Ids(C[s]) \subseteq Ids(ch[s]) \cup ({e.id} \ {0})
                                /\ Ascending(C[s])
    <2> SUFFICES ASSUME NEW s \in RoutedServices
                 PROVE  Ids(C[s]) \subseteq Ids(ch[s]) \cup ({e.id} \ {0}) /\ Ascending(C[s])
        OBVIOUS
    <2>1. Ascending(ch[s]) /\ Below(Ids(ch[s]), {e.id} \ {0}) /\ ch[s] \in Seq(Envelopes)
        BY <1>0, <1>4, <1>5, <1>r DEF SentInOrder, Below, q
    <2>2. C[s] = ch[s] \/ C[s] = Append(ch[s], e)
        BY <1>6, <1>r
    <2> QED
        BY <2>1, <2>2, <1>4, AppendedIds, ZenonT(60)
<1>10. Ascending(B["kernel"]) /\ Ids(B["kernel"]) \subseteq Ids(q)
       /\ Below({e.id} \ {0}, Ids(B["kernel"]))
    BY <1>2, <1>3, <1>4
<1>11. SentInOrder(B, C, n, sv)
    <2>1. ASSUME NEW s \in RoutedServices
          PROVE  /\ Below(Ids(C[s]), {n}) /\ Below(Ids(C[s]), Ids(B["kernel"]))
                 /\ Below(Handed(sv[s]), Ids(B["kernel"]))
                 /\ Below(Handed(sv[s]), Ids(C[s]))
        <3>1. /\ Below(Ids(ch[s]), {n}) /\ Below(Ids(ch[s]), Ids(q)) /\ Below(Ids(q), {n})
              /\ Below(Handed(sv[s]), Ids(ch[s])) /\ Below(Handed(sv[s]), Ids(q))
            BY <1>0, <1>2 DEF SentInOrder, q
        <3> QED
            BY <3>1, <1>4, <1>9, <1>10 DEF Below
    <2>2. \A k \in DOMAIN B : Ascending(B[k]) /\ Below(Ids(B[k]), {n})
        BY <1>0, <1>2, <1>3, <1>4 DEF SentInOrder, Below, q
    <2>3. "device" \in DOMAIN B => Below(Handed(sv["device"]), Ids(B["device"]))
        BY <1>0, <1>3 DEF SentInOrder
    <2> QED
        BY <2>1, <2>2, <2>3, <1>0, <1>9 DEF SentInOrder
<1>12. AreOf(q, cls) /\ (e.id # 0 => e.class = cls[e.id])
    BY <1>1, <1>2, <1>4 DEF OneClass, AreOf, q
<1>13. \A k \in DOMAIN B : AreOf(B[k], cls)
    <2>1. AreOf(Tail(q), cls)
        BY <1>4, <1>12 DEF AreOf
    <2> QED
        BY <2>1, <1>1, <1>3 DEF OneClass
<1>14. ASSUME NEW s \in RoutedServices PROVE AreOf(C[s], cls) /\ ForService(C[s], s)
    <2>1. AreOf(ch[s], cls) /\ ForService(ch[s], s) /\ ch[s] \in Seq(Envelopes)
        BY <1>1, <1>5, <1>r DEF OneClass
    <2>2. CASE C[s] = ch[s]
        BY <2>1, <2>2
    <2>3. CASE C[s] = Append(ch[s], e) /\ s \in Route(e.class)
        <3> SUFFICES ASSUME NEW i \in DOMAIN C[s]
                     PROVE  Home(C[s][i].class) = s /\ (C[s][i].id # 0 => C[s][i].class = cls[C[s][i].id])
            BY DEF AreOf, ForService
        <3>0. (i \in DOMAIN ch[s] /\ C[s][i] = ch[s][i]) \/ C[s][i] = e
            BY <2>1, <2>3
        <3>1. CASE i \in DOMAIN ch[s] /\ C[s][i] = ch[s][i]
            BY <2>1, <3>1 DEF AreOf, ForService
        <3>2. CASE C[s][i] = e
            BY <2>3, <3>2, <1>8, <1>12
        <3> QED
            BY <3>0, <3>1, <3>2
    <2> QED
        BY <2>2, <2>3, <1>6, <1>r
<1>15. OneClass(cls, B, C, sv)
    BY <1>1, <1>13, <1>14 DEF OneClass
<1> QED
    BY <1>7, <1>11, <1>15 DEF InOrder, B

\* The records that Handled keeps.
HandledBy(sv, s, e) == IF e.id = 0 THEN sv ELSE [sv EXCEPT ![s] = Append(@, e.id)]

\* A service takes an envelope of its channel, and handles it or drops it.
LEMMA ServeKeepsOrder ==
    ASSUME NEW b, NEW ch, NEW n, NEW sv, InOrder(b, ch, n, sv),
           NEW s \in RoutedServices, ch[s] # <<>>,
           NEW C \in [Channels -> Seq(Envelopes)], C[s] = Tail(ch[s]),
           \A c \in RoutedServices : c # s => C[c] = ch[c],
           NEW S, S = sv \/ S = HandledBy(sv, s, Head(ch[s]))
    PROVE  InOrder(b, C, n, S)
<1> DEFINE q == ch[s]
           e == Head(q)
<1>0. BusTyped(b, ch, n, sv) /\ SentInOrder(b, ch, n, sv) /\ MaxRequests \in Nat
    BY BusAssumption DEF InOrder
<1>1. PICK cls \in [RequestIds -> Classes] : OneClass(cls, b, ch, sv)
    BY DEF InOrder
<1>r. \A c \in RoutedServices : c \in Channels /\ c \in Services
    BY DEF RoutedServices, Channels, Services
<1>2. q \in Seq(Envelopes) /\ q # <<>> /\ "kernel" \in DOMAIN b
    BY <1>0, <1>r DEF BusTyped
<1>3. /\ e \in Envelopes /\ e = q[1] /\ 1 \in DOMAIN q
      /\ Tail(q) \in Seq(Envelopes)
      /\ \A i \in DOMAIN Tail(q) : i + 1 \in DOMAIN q /\ Tail(q)[i] = q[i + 1]
      /\ Ids(Tail(q)) \subseteq Ids(q) /\ {e.id} \ {0} \subseteq Ids(q)
      /\ Ascending(Tail(q)) /\ Below({e.id} \ {0}, Ids(Tail(q)))
    BY <1>0, <1>2, TakenIds DEF SentInOrder
<1>4. S = sv \/ (e.id # 0 /\ S = [sv EXCEPT ![s] = Append(@, e.id)])
    BY DEF HandledBy
<1>5. \A t \in Services : sv[t] \in Seq(RequestIds) /\ Increasing(sv[t])
    BY <1>0 DEF BusTyped, SentInOrder
<1>6. e.id # 0 => e.id \in RequestIds /\ e.id \in Ids(q)
    BY <1>0, <1>3 DEF Envelopes, RequestIds
<1>7. sv \in [Services -> Seq(RequestIds)] /\ s \in Services
    BY <1>0, <1>r DEF BusTyped
<1>8. /\ Below(Handed(sv[s]), Ids(q)) /\ Below(Ids(q), {n}) /\ Below(Ids(q), Ids(b["kernel"]))
      /\ C[s] = Tail(q) /\ Home(e.class) = s /\ (e.id # 0 => e.class = cls[e.id])
    <2>1. Below(Handed(sv[s]), Ids(q)) /\ Below(Ids(q), {n}) /\ Below(Ids(q), Ids(b["kernel"]))
        BY <1>0 DEF SentInOrder
    <2>2. AreOf(q, cls) /\ ForService(q, s)
        BY <1>1 DEF OneClass
    <2> HIDE DEF e
    <2>3. Home(e.class) = s /\ (e.id # 0 => e.class = cls[e.id])
        BY <2>2, <1>3 DEF AreOf, ForService
    <2> QED
        BY <2>1, <2>3
<1> HIDE DEF e, q
<1>9. Below(Handed(sv[s]), {e.id} \ {0})
    BY <1>3, <1>8 DEF Below
<1>10. S \in [Services -> Seq(RequestIds)]
       /\ \A t \in Services : /\ Increasing(S[t])
                              /\ t # s => S[t] = sv[t]
                              /\ Handed(S[t]) \subseteq Handed(sv[t]) \cup ({e.id} \ {0})
    <2>1. CASE S = sv
        BY <2>1, <1>5, <1>7
    <2>2. CASE e.id # 0 /\ S = [sv EXCEPT ![s] = Append(@, e.id)]
        <3>1. /\ Append(sv[s], e.id) \in Seq(RequestIds) /\ Increasing(Append(sv[s], e.id))
              /\ Handed(Append(sv[s], e.id)) = Handed(sv[s]) \cup {e.id}
            <4>1. Below(Handed(sv[s]), {e.id}) /\ e.id \in RequestIds /\ sv[s] \in Seq(RequestIds)
                  /\ Increasing(sv[s])
                BY <2>2, <1>5, <1>6, <1>7, <1>9 DEF Below
            <4> QED
                BY <4>1, HandedGrows
        <3>2. \A t \in Services : S[t] = IF t = s THEN Append(sv[s], e.id) ELSE sv[t]
            BY <2>2, <1>7
        <3>3. S \in [Services -> Seq(RequestIds)]
            BY <2>2, <3>1, <1>7
        <3> QED
            BY <2>2, <3>1, <3>2, <3>3, <1>5
    <2> QED
        BY <2>1, <2>2, <1>4
<1>11. BusTyped(b, C, n, S)
    BY <1>0, <1>10 DEF BusTyped
<1>12. SentInOrder(b, C, n, S)
    <2>1. ASSUME NEW t \in RoutedServices
          PROVE  /\ Ascending(C[t]) /\ Below(Ids(C[t]), {n}) /\ Below(Ids(C[t]), Ids(b["kernel"]))
                 /\ Below(Handed(S[t]), Ids(b["kernel"])) /\ Below(Handed(S[t]), Ids(C[t]))
        <3>1. /\ Ascending(ch[t]) /\ Below(Ids(ch[t]), {n}) /\ Below(Ids(ch[t]), Ids(b["kernel"]))
              /\ Below(Handed(sv[t]), Ids(b["kernel"])) /\ Below(Handed(sv[t]), Ids(ch[t]))
            BY <1>0 DEF SentInOrder
        <3>2. CASE t # s
            BY <3>1, <3>2, <1>10, <1>r
        <3>3. CASE t = s
            BY <3>1, <3>3, <1>3, <1>8, <1>10, <1>r, ZenonT(60) DEF Below, q
        <3> QED
            BY <3>2, <3>3
    <2>2. \A t \in Services : Below(Handed(S[t]), {n})
        <3>1. \A t \in Services : Below(Handed(sv[t]), {n})
            BY <1>0 DEF SentInOrder
        <3> QED
            BY <3>1, <1>3, <1>8, <1>10 DEF Below
    <2>3. "device" \in DOMAIN b => Below(Handed(S["device"]), Ids(b["device"]))
        BY <1>0, <1>10 DEF SentInOrder, RoutedServices, Services
    <2> QED
        BY <2>1, <2>2, <2>3, <1>0, <1>10 DEF SentInOrder
<1>13. OneClass(cls, b, C, S)
    <2>1. AreOf(Tail(q), cls) /\ ForService(Tail(q), s)
        BY <1>1, <1>3 DEF OneClass, AreOf, ForService, q
    <2>2. \A t \in RoutedServices : AreOf(C[t], cls) /\ ForService(C[t], t)
        BY <2>1, <1>1, <1>8 DEF OneClass
    <2>3. \A t \in Services : \A r \in Handed(S[t]) : Home(cls[r]) = t
        BY <1>1, <1>8, <1>10 DEF OneClass
    <2> QED
        BY <2>2, <2>3, <1>1 DEF OneClass
<1> QED
    BY <1>11, <1>12, <1>13 DEF InOrder
\* The device service takes its own copy of an envelope from the bus.
LEMMA DeviceKeepsOrder ==
    ASSUME NEW b, NEW ch, NEW n, NEW sv, InOrder(b, ch, n, sv),
           "device" \in DOMAIN b, b["device"] # <<>>,
           NEW S, \/ S = sv
                  \/ /\ Head(b["device"]).class = "Device"
                     /\ S = HandledBy(sv, "device", Head(b["device"]))
    PROVE  InOrder([b EXCEPT !["device"] = Tail(@)], ch, n, S)
<1> DEFINE q == b["device"]
           e == Head(q)
           B == [b EXCEPT !["device"] = Tail(@)]
<1>0. BusTyped(b, ch, n, sv) /\ SentInOrder(b, ch, n, sv) /\ MaxRequests \in Nat
    BY BusAssumption DEF InOrder
<1>1. PICK cls \in [RequestIds -> Classes] : OneClass(cls, b, ch, sv)
    BY DEF InOrder
<1>2. q \in Seq(Envelopes) /\ q # <<>> /\ "kernel" \in DOMAIN b /\ "device" \in DOMAIN b
    BY <1>0 DEF BusTyped
<1>3. /\ e \in Envelopes /\ e = q[1] /\ 1 \in DOMAIN q
      /\ Tail(q) \in Seq(Envelopes)
      /\ \A i \in DOMAIN Tail(q) : i + 1 \in DOMAIN q /\ Tail(q)[i] = q[i + 1]
      /\ Ids(Tail(q)) \subseteq Ids(q) /\ {e.id} \ {0} \subseteq Ids(q)
      /\ Ascending(Tail(q)) /\ Below({e.id} \ {0}, Ids(Tail(q)))
    BY <1>0, <1>2, TakenIds DEF SentInOrder
<1>b. DOMAIN B = DOMAIN b /\ \A k \in DOMAIN b : B[k] = IF k = "device" THEN Tail(q) ELSE b[k]
    BY <1>0, <1>2 DEF BusTyped
<1>c. B \in [DOMAIN B -> Seq(Envelopes)]
    BY <1>0, <1>2, <1>3 DEF BusTyped
<1>4. S = sv \/ (e.id # 0 /\ e.class = "Device" /\ S = [sv EXCEPT !["device"] = Append(@, e.id)])
    BY DEF HandledBy
<1>5. \A t \in Services : sv[t] \in Seq(RequestIds) /\ Increasing(sv[t])
    BY <1>0 DEF BusTyped, SentInOrder
<1>6. e.id # 0 => e.id \in RequestIds /\ e.id \in Ids(q)
    BY <1>0, <1>3 DEF Envelopes, RequestIds
<1>7. sv \in [Services -> Seq(RequestIds)] /\ "device" \in Services
    BY <1>0 DEF BusTyped, Services
<1>8. /\ Below(Handed(sv["device"]), Ids(q)) /\ Below(Ids(q), {n})
      /\ (e.id # 0 => e.class = cls[e.id])
    <2>1. Below(Handed(sv["device"]), Ids(q)) /\ Below(Ids(q), {n})
        BY <1>0, <1>2 DEF SentInOrder
    <2>2. AreOf(q, cls)
        BY <1>1, <1>2 DEF OneClass
    <2> HIDE DEF e
    <2> QED
        BY <2>1, <2>2, <1>3 DEF AreOf
<1> HIDE DEF e, q, B
<1>9. Below(Handed(sv["device"]), {e.id} \ {0})
    BY <1>3, <1>8 DEF Below
<1>10. S \in [Services -> Seq(RequestIds)]
       /\ \A t \in Services : /\ Increasing(S[t])
                              /\ t # "device" => S[t] = sv[t]
                              /\ \A r \in Handed(S[t]) :
                                    \/ r \in Handed(sv[t])
                                    \/ r = e.id /\ r # 0 /\ e.class = "Device"
    <2>1. CASE S = sv
        BY <2>1, <1>5, <1>7
    <2>2. CASE e.id # 0 /\ e.class = "Device" /\ S = [sv EXCEPT !["device"] = Append(@, e.id)]
        <3>1. /\ Append(sv["device"], e.id) \in Seq(RequestIds)
              /\ Increasing(Append(sv["device"], e.id))
              /\ Handed(Append(sv["device"], e.id)) = Handed(sv["device"]) \cup {e.id}
            <4>1. Below(Handed(sv["device"]), {e.id}) /\ e.id \in RequestIds
                  /\ sv["device"] \in Seq(RequestIds) /\ Increasing(sv["device"])
                BY <2>2, <1>5, <1>6, <1>7, <1>9 DEF Below
            <4> QED
                BY <4>1, HandedGrows
        <3>2. \A t \in Services : S[t] = IF t = "device" THEN Append(sv["device"], e.id) ELSE sv[t]
            BY <2>2, <1>7
        <3>3. S \in [Services -> Seq(RequestIds)]
            BY <2>2, <3>1, <1>7
        <3> QED
            BY <2>2, <3>1, <3>2, <3>3, <1>5
    <2> QED
        BY <2>1, <2>2, <1>4
<1>r. \A t \in RoutedServices : t # "device" /\ t \in Services
    BY DEF RoutedServices, Services
<1>k. B["kernel"] = b["kernel"] /\ B["device"] = Tail(q)
    BY <1>2, <1>b
<1>11. BusTyped(B, ch, n, S)
    BY <1>0, <1>10, <1>b, <1>c DEF BusTyped
<1>12. SentInOrder(B, ch, n, S)
    <2>1. \A t \in RoutedServices :
             /\ Ascending(ch[t]) /\ Below(Ids(ch[t]), {n}) /\ Below(Ids(ch[t]), Ids(B["kernel"]))
             /\ Below(Handed(S[t]), Ids(B["kernel"])) /\ Below(Handed(S[t]), Ids(ch[t]))
        BY <1>0, <1>10, <1>r, <1>k DEF SentInOrder
    <2>2. \A t \in Services : Below(Handed(S[t]), {n})
        <3>1. \A t \in Services : Below(Handed(sv[t]), {n})
            BY <1>0 DEF SentInOrder
        <3> QED
            BY <3>1, <1>3, <1>8, <1>10 DEF Below
    <2>3. Below(Handed(S["device"]), Ids(B["device"]))
        <3>1. \A r \in Handed(S["device"]) : r \in Handed(sv["device"]) \/ (r = e.id /\ r # 0)
            BY <1>7, <1>10
        <3> QED
            BY <3>1, <1>3, <1>8, <1>k DEF Below
    <2>4. \A k \in DOMAIN B : Ascending(B[k]) /\ Below(Ids(B[k]), {n})
        <3>1. \A k \in DOMAIN b : Ascending(b[k]) /\ Below(Ids(b[k]), {n})
            BY <1>0 DEF SentInOrder
        <3>2. Ascending(Tail(q)) /\ Below(Ids(Tail(q)), {n})
            BY <1>3, <1>8 DEF Below
        <3> QED
            BY <3>1, <3>2, <1>b
    <2> QED
        BY <2>1, <2>2, <2>3, <2>4, <1>10 DEF SentInOrder
<1>13. OneClass(cls, B, ch, S)
    <2>1. AreOf(Tail(q), cls)
        BY <1>1, <1>2, <1>3 DEF OneClass, AreOf, q
    <2>2. \A k \in DOMAIN B : AreOf(B[k], cls)
        BY <2>1, <1>1, <1>b DEF OneClass
    <2>3. Home("Device") = "device"
        BY DEF Home
    <2>4. \A t \in Services : \A r \in Handed(S[t]) : Home(cls[r]) = t
        <3> SUFFICES ASSUME NEW t \in Services, NEW r \in Handed(S[t]) PROVE Home(cls[r]) = t
            OBVIOUS
        <3>1. CASE r \in Handed(sv[t])
            BY <3>1, <1>1 DEF OneClass
        <3>2. CASE r \notin Handed(sv[t])
            BY <3>2, <2>3, <1>8, <1>10
        <3> QED
            BY <3>1, <3>2
    <2> QED
        BY <2>2, <2>4, <1>1 DEF OneClass
<1> QED
    BY <1>11, <1>12, <1>13 DEF InOrder, B

\* The device service comes late and starts with nothing to read.
LEMMA SubscribeKeepsOrder ==
    ASSUME NEW b, NEW ch, NEW n, NEW sv, InOrder(b, ch, n, sv), "device" \notin DOMAIN b
    PROVE  InOrder(Subscribed(b, "device"), ch, n, sv)
<1> DEFINE B == Subscribed(b, "device")
<1>0. BusTyped(b, ch, n, sv) /\ SentInOrder(b, ch, n, sv)
    BY DEF InOrder
<1>1. PICK cls \in [RequestIds -> Classes] : OneClass(cls, b, ch, sv)
    BY DEF InOrder
<1>2. /\ DOMAIN B = DOMAIN b \cup {"device"} /\ B["device"] = <<>>
      /\ \A k \in DOMAIN b : B[k] = b[k] /\ B[k] \in Seq(Envelopes)
    BY <1>0 DEF Subscribed, BusTyped
<1>3. B \in [DOMAIN B -> Seq(Envelopes)]
    BY <1>2 DEF Subscribed
<1> HIDE DEF B
<1>4. BusTyped(B, ch, n, sv) /\ B["kernel"] = b["kernel"]
    BY <1>0, <1>2, <1>3 DEF BusTyped
<1>5. Ids(<<>>) = {} /\ Ascending(<<>>) /\ AreOf(<<>>, cls)
    BY DEF Ids, Ascending, AreOf
<1>6. SentInOrder(B, ch, n, sv)
    BY <1>0, <1>2, <1>4, <1>5 DEF SentInOrder, Below
<1>7. OneClass(cls, B, ch, sv)
    BY <1>1, <1>2, <1>5 DEF OneClass
<1> QED
    BY <1>4, <1>6, <1>7 DEF InOrder, B

\* Nothing has been sent at the start.
LEMMA OrderInvInit == BusInit => OrderInv
<1> SUFFICES ASSUME BusInit PROVE OrderInv
    OBVIOUS
<1>0. MaxRequests \in Nat
    BY BusAssumption
<1>1. BusTyped(bus, chan, nextId, served)
    BY <1>0 DEF BusInit, BusTyped, Envelopes
<1>2. Ids(<<>>) = {} /\ Handed(<<>>) = {} /\ Ascending(<<>>) /\ Increasing(<<>>)
    BY DEF Ids, Handed, Ascending, Increasing
<1>3. /\ DOMAIN bus = {"kernel"} /\ bus["kernel"] = <<>>
      /\ \A s \in RoutedServices : chan[s] = <<>>
      /\ \A s \in Services : served[s] = <<>>
      /\ \A s \in RoutedServices : s \in Services
    BY DEF BusInit, RoutedServices, Channels, Services
<1>4. SentInOrder(bus, chan, nextId, served)
    BY <1>2, <1>3 DEF SentInOrder, Below
<1>5. OneClass([r \in RequestIds |-> "Memory"], bus, chan, served)
    BY <1>2, <1>3 DEF OneClass, AreOf, ForService
<1>6. [r \in RequestIds |-> "Memory"] \in [RequestIds -> Classes]
    BY DEF Classes
<1> QED
    BY <1>1, <1>4, <1>5, <1>6 DEF OrderInv, InOrder

\* Every step of the bus, the kernel, the services and the clients keeps the order.
LEMMA OrderInvNext == OrderInv /\ [BusNext]_busVars => OrderInv'
<1> SUFFICES ASSUME OrderInv, [BusNext]_busVars PROVE OrderInv'
    OBVIOUS
<1>0. InOrder(bus, chan, nextId, served) /\ BusTyped(bus, chan, nextId, served)
      /\ MaxRequests \in Nat
    BY BusAssumption DEF OrderInv, InOrder
<1>c. chan \in [Channels -> Seq(Envelopes)] /\ nextId \in 1 .. MaxRequests + 1
    BY <1>0 DEF BusTyped
<1>1. CASE UNCHANGED <<bus, chan, nextId, served>>
    BY <1>1, <1>0 DEF OrderInv
<1>2. CASE DeviceSubscribes
    BY <1>2, <1>0, SubscribeKeepsOrder DEF DeviceSubscribes, OrderInv
<1>3. CASE InterruptSent
    <2>1. Envelope("Interrupt", 0) \in Envelopes /\ Envelope("Interrupt", 0).id = 0
        BY <1>0 DEF Envelope, Envelopes, Classes
    <2> QED
        BY <2>1, <1>3, <1>0, SendKeepsOrder DEF InterruptSent, OrderInv
<1>4. CASE KernelRoutes
    <2>1. /\ bus["kernel"] # <<>> /\ nextId' = nextId /\ served' = served
          /\ bus' = [bus EXCEPT !["kernel"] = Tail(@)]
          /\ chan' = [c \in Channels |-> IF c \in Route(Head(bus["kernel"]).class)
                                         THEN Append(chan[c], Head(bus["kernel"])) ELSE chan[c]]
        BY <1>4 DEF KernelRoutes
    <2> QED
        BY <2>1, <1>0, RouteKeepsOrder DEF OrderInv
<1>d. \A s \in RoutedServices : chan[s] # <<>> => Tail(chan[s]) \in Seq(Envelopes)
    BY <1>c DEF RoutedServices, Channels
<1>5. CASE MemoryHangs
    <2>1. /\ chan["memory"] # <<>> /\ chan' = [chan EXCEPT !["memory"] = Tail(@)]
          /\ bus' = bus /\ nextId' = nextId /\ served' = served /\ "memory" \in RoutedServices
        BY <1>5 DEF MemoryHangs, RoutedServices
    <2>2. chan' \in [Channels -> Seq(Envelopes)] /\ chan'["memory"] = Tail(chan["memory"])
          /\ \A c \in RoutedServices : c # "memory" => chan'[c] = chan[c]
        BY <2>1, <1>c, <1>d DEF RoutedServices, Channels
    <2> QED
        BY <2>1, <2>2, <1>0, ServeKeepsOrder DEF OrderInv
<1>6. CASE DeviceServes
    <2>1. /\ "device" \in DOMAIN bus /\ bus["device"] # <<>>
          /\ bus' = [bus EXCEPT !["device"] = Tail(@)] /\ chan' = chan /\ nextId' = nextId
          /\ \/ served' = served
             \/ /\ Head(bus["device"]).class = "Device"
                /\ served' = HandledBy(served, "device", Head(bus["device"]))
        BY <1>6 DEF DeviceServes, Handled, HandledBy
    <2> QED
        BY <2>1, <1>0, DeviceKeepsOrder DEF OrderInv
<1>7. CASE ProcessTicks
    <2>1. /\ bus' = bus /\ nextId' = nextId /\ served' = served
          /\ chan["intr"] # <<>> /\ chan' = [chan EXCEPT !["intr"] = Tail(@)]
        BY <1>7 DEF ProcessTicks, UnchangedByLoop
    <2>2. "intr" \in Channels /\ Tail(chan["intr"]) \in Seq(Envelopes)
        BY <2>1, <1>c DEF Channels
    <2>3. chan' \in [Channels -> Seq(Envelopes)] /\ \A s \in RoutedServices : chan'[s] = chan[s]
        BY <2>1, <2>2, <1>c DEF RoutedServices, Channels
    <2> QED
        BY <2>1, <2>3, <1>0 DEF OrderInv, InOrder, BusTyped, SentInOrder, OneClass
<1>8. ASSUME NEW class \in {"Process", "Memory", "File", "Device"}, nextId <= MaxRequests
      PROVE  Envelope(class, nextId) \in Envelopes /\ Envelope(class, nextId).id = nextId
    BY <1>8, <1>c DEF Envelope, Envelopes, Classes
<1>9. ASSUME NEW class, ShellRequests(class) PROVE OrderInv'
    <2>1. /\ class \in {"Process", "Memory", "File", "Device"} /\ nextId <= MaxRequests
          /\ bus' = Broadcast(bus, Envelope(class, nextId)) /\ nextId' = nextId + 1
          /\ chan' = chan /\ served' = served
        BY <1>9 DEF ShellRequests, CanRequest, Requested
    <2> QED
        BY <2>1, <1>0, <1>8, SendKeepsOrder DEF OrderInv
<1>10. ASSUME NEW s, NEW n, ServiceServes(s, n) PROVE OrderInv'
    <2>1. /\ s \in RoutedServices /\ chan[s] # <<>> /\ chan' = [chan EXCEPT ![s] = Tail(@)]
          /\ bus' = bus /\ nextId' = nextId /\ served' = HandledBy(served, s, Head(chan[s]))
        BY <1>10 DEF ServiceServes, RoutedServices, Handled, HandledBy
    <2>2. chan' \in [Channels -> Seq(Envelopes)] /\ chan'[s] = Tail(chan[s])
          /\ \A c \in RoutedServices : c # s => chan'[c] = chan[c]
        BY <2>1, <1>c, <1>d DEF RoutedServices, Channels
    <2> QED
        BY <2>1, <2>2, <1>0, ServeKeepsOrder DEF OrderInv
<1>11. CASE ProcessLooks /\ chan["process"] # <<>>
    <2>1. /\ "process" \in RoutedServices /\ chan' = [chan EXCEPT !["process"] = Tail(@)]
          /\ bus' = bus /\ nextId' = nextId
          /\ served' = HandledBy(served, "process", Head(chan["process"]))
        BY <1>11 DEF ProcessLooks, UnchangedByLoop, RoutedServices, Handled, HandledBy
    <2>2. chan' \in [Channels -> Seq(Envelopes)] /\ chan'["process"] = Tail(chan["process"])
          /\ \A c \in RoutedServices : c # "process" => chan'[c] = chan[c]
        BY <2>1, <1>11, <1>c, <1>d DEF RoutedServices, Channels
    <2> QED
        BY <2>1, <2>2, <1>11, <1>0, ServeKeepsOrder DEF OrderInv
<1>12. ASSUME NEW class \in {"Memory", "File", "Device"}, ProcessAsks(class) PROVE OrderInv'
    <2>1. /\ nextId <= MaxRequests /\ chan' = chan /\ served' = served
          /\ bus' = Broadcast(bus, Envelope(class, nextId)) /\ nextId' = nextId + 1
        BY <1>12 DEF ProcessAsks, CanRequest, Requested
    <2> QED
        BY <2>1, <1>0, <1>8, SendKeepsOrder DEF OrderInv
<1>13. ASSUME \/ ProcessLooks /\ chan["process"] = <<>>
              \/ ProcessHangs
              \/ \E n \in 0 .. 2 : ProcessEnds(n)
              \/ \E c \in BusClients : ClientTakes(c) \/ ClientGivesUp(c)
       PROVE  OrderInv'
    BY <1>13, <1>1 DEF ProcessLooks, ProcessHangs, ProcessEnds, UnchangedByLoop, ClientTakes,
                       ClientGivesUp
<1>14. CASE UNCHANGED busVars
    BY <1>14, <1>1 DEF busVars
<1> QED
    BY <1>2, <1>3, <1>4, <1>5, <1>6, <1>7, <1>9, <1>10, <1>11, <1>12, <1>13, <1>14
       DEF BusNext, ProcessRuns

\* A value occurs at most once in an increasing sequence.
LEMMA CountedOnce ==
    ASSUME NEW q \in Seq(RequestIds), Increasing(q), NEW r
    PROVE  /\ Count(r, q) \in {0, 1}
           /\ r \notin Handed(q) => Count(r, q) = 0
<1> DEFINE T == {i \in DOMAIN q : q[i] = r}
<1>1. \A i, j \in T : i = j
    <2> SUFFICES ASSUME NEW i \in T, NEW j \in T, i # j PROVE FALSE
        OBVIOUS
    <2>1. i \in Nat /\ j \in Nat /\ q[i] = r /\ q[j] = r /\ r \in Nat
        BY BusAssumption DEF RequestIds
    <2>2. i < j \/ j < i
        BY <2>1
    <2> QED
        BY <2>1, <2>2 DEF Increasing
<1>2. CASE T = {}
    BY <1>2, FS_EmptySet DEF Count
<1>3. CASE T # {}
    <2>1. PICK i : T = {i}
        BY <1>1, <1>3
    <2>2. Cardinality(T) = 1
        BY <2>1, FS_Singleton
    <2>3. r \in Handed(q)
        BY <1>3 DEF Handed
    <2> QED
        BY <2>2, <2>3 DEF Count
<1> QED
    BY <1>2, <1>3

\* For any number of requests: however many clients give up and whatever the
\* services answer, no request is handled twice or by two services, and every
\* service handles its requests in the order in which they were sent
\* (LockedBus::send_request, Kernel::route).
THEOREM RequestsHandledOnceInOrder == BusSpec => []HandledOnceInOrder
<1>1. OrderInv => HandledOnceInOrder
    <2> SUFFICES ASSUME OrderInv PROVE HandledOnceInOrder
        OBVIOUS
    <2>1. PICK cls \in [RequestIds -> Classes] : OneClass(cls, bus, chan, served)
        BY DEF OrderInv, InOrder
    <2>2. \A s \in Services : served[s] \in Seq(RequestIds) /\ Increasing(served[s])
        BY DEF OrderInv, InOrder, BusTyped, SentInOrder
    <2>3. ASSUME NEW r \in RequestIds, NEW s \in Services, NEW t \in Services
          PROVE  Count(r, served[s]) + (IF s = t THEN 0 ELSE Count(r, served[t])) <= 1
        <3>1. Count(r, served[s]) \in {0, 1} /\ Count(r, served[t]) \in {0, 1}
            BY <2>2, CountedOnce
        <3>2. CASE s = t
            BY <3>1, <3>2
        <3>3. CASE s # t
            <4>1. r \notin Handed(served[s]) \/ r \notin Handed(served[t])
                BY <3>3, <2>1 DEF OneClass
            <4>2. Count(r, served[s]) = 0 \/ Count(r, served[t]) = 0
                BY <4>1, <2>2, CountedOnce
            <4> QED
                BY <3>1, <3>3, <4>2
        <3> QED
            BY <3>2, <3>3
    <2> QED
        BY <2>2, <2>3 DEF HandledOnceInOrder, Increasing
<1> QED
    BY <1>1, OrderInvInit, OrderInvNext, PTL DEF BusSpec
------------------------------------------------------------------------------
(* Message queues and shared memory.                                         *)

QueueType == [messages : Seq(Nat), sent : Nat, received : Nat]

RegionType == [refs : Nat, attached : SUBSET IpcPids, marked : BOOLEAN]

\* A queue holds what was sent and not received, in order.
QueueRight(q) ==
    /\ q \in QueueType
    /\ q.received <= q.sent
    /\ q.messages = [i \in 1 .. q.sent - q.received |-> q.received + i]

\* A region counts at least as many references as it has processes.
RegionRight(r) ==
    /\ r \in RegionType
    /\ IsFiniteSet(r.attached) /\ r.refs >= Cardinality(r.attached)

IpcInv ==
    /\ \A p \in DOMAIN mailbox : QueueRight(mailbox[p])
    /\ \A r \in DOMAIN region : RegionRight(region[r])

\* A message that is sent goes behind the others.
LEMMA SentRight == \A q : QueueRight(q) => QueueRight(Sent(q))
<1> SUFFICES ASSUME NEW q, QueueRight(q) PROVE QueueRight(Sent(q))
    OBVIOUS
<1> DEFINE n == q.sent
           k == q.received
           s == q.messages
<1>1. n \in Nat /\ k \in Nat /\ k <= n /\ s \in Seq(Nat)
      /\ s = [i \in 1 .. n - k |-> k + i]
    BY DEF QueueRight, QueueType
<1>2. /\ Sent(q).messages = Append(s, n + 1) /\ Sent(q).sent = n + 1 /\ Sent(q).received = k
      /\ Sent(q) \in QueueType
    <2>1. q \in QueueType
        BY DEF QueueRight
    <2> DEFINE m == Append(q.messages, q.sent + 1)
    <2>2. m \in Seq(Nat) /\ q.sent + 1 \in Nat
        BY <2>1 DEF QueueType
    <2>3. Sent(q) = [q EXCEPT !.messages = m, !.sent = q.sent + 1]
        BY DEF Sent
    <2> HIDE DEF m
    <2> QED
        BY <2>1, <2>2, <2>3 DEF QueueType, m
<1> HIDE DEF n, k, s
<1>3. n - k \in Nat /\ (n + 1) - k = (n - k) + 1
    BY <1>1
<1>4. Len(s) = n - k /\ \A i \in 1 .. n - k : s[i] = k + i
    BY <1>1, <1>3
<1>5. Append(s, n + 1) \in Seq(Nat) /\ Len(Append(s, n + 1)) = (n - k) + 1
    BY <1>1, <1>4
<1>6. \A i \in 1 .. (n - k) + 1 : Append(s, n + 1)[i] = k + i
    BY <1>1, <1>3, <1>4
<1>7. Append(s, n + 1) = [i \in 1 .. (n + 1) - k |-> k + i]
    BY <1>3, <1>5, <1>6
<1> QED
    BY <1>1, <1>2, <1>7 DEF QueueRight

\* The message that is received is the oldest.
LEMMA ReceivedRight == \A q : QueueRight(q) /\ q.messages # <<>> => QueueRight(Received(q))
<1> SUFFICES ASSUME NEW q, QueueRight(q), q.messages # <<>> PROVE QueueRight(Received(q))
    OBVIOUS
<1> DEFINE n == q.sent
           k == q.received
           s == q.messages
<1>1. n \in Nat /\ k \in Nat /\ k <= n /\ s \in Seq(Nat) /\ s # <<>>
      /\ s = [i \in 1 .. n - k |-> k + i]
    BY DEF QueueRight, QueueType
<1>2. /\ Received(q).messages = Tail(s) /\ Received(q).sent = n /\ Received(q).received = k + 1
      /\ Received(q) \in QueueType
    <2>1. q \in QueueType /\ q.messages # <<>>
        BY DEF QueueRight
    <2> DEFINE m == Tail(q.messages)
    <2>2. m \in Seq(Nat) /\ q.received + 1 \in Nat
        BY <2>1 DEF QueueType
    <2>3. Received(q) = [q EXCEPT !.messages = m, !.received = q.received + 1]
        BY DEF Received
    <2> HIDE DEF m
    <2> QED
        BY <2>1, <2>2, <2>3 DEF QueueType, m
<1> HIDE DEF n, k, s
<1>3. n - k \in Nat
    BY <1>1
<1>4. Len(s) = n - k /\ \A i \in 1 .. n - k : s[i] = k + i
    BY <1>1, <1>3
<1>5. n - k > 0 /\ n - (k + 1) = (n - k) - 1
    BY <1>1, <1>3, <1>4
<1>6. Tail(s) \in Seq(Nat) /\ Len(Tail(s)) = (n - k) - 1
      /\ \A i \in 1 .. (n - k) - 1 : Tail(s)[i] = s[i + 1]
    BY <1>1, <1>4, SMTT(20)
<1>7. \A i \in 1 .. (n - k) - 1 : i + 1 \in 1 .. n - k /\ k + (i + 1) = (k + 1) + i
    BY <1>1, <1>3
<1>8. \A i \in 1 .. (n - k) - 1 : Tail(s)[i] = (k + 1) + i
    BY <1>4, <1>6, <1>7
<1>9. Tail(s) = [i \in 1 .. n - (k + 1) |-> (k + 1) + i]
    <2> DEFINE m == Tail(s)
    <2>1. m \in Seq(Nat) /\ Len(m) = (n - k) - 1
        BY <1>6
    <2>2. \A i \in 1 .. (n - k) - 1 : m[i] = (k + 1) + i
        BY <1>8
    <2> HIDE DEF m
    <2>3. m = [i \in 1 .. Len(m) |-> m[i]]
        BY <2>1
    <2>4. m = [i \in 1 .. (n - k) - 1 |-> (k + 1) + i]
        BY <2>1, <2>2, <2>3
    <2> QED
        BY <2>4, <1>5 DEF m
<1>10. k + 1 <= n
    BY <1>1, <1>5
<1> QED
    BY <1>2, <1>9, <1>10 DEF QueueRight

\* Attaching counts at least the new process, detaching at most the old one.
LEMMA RefsRight ==
    \A r : \A p \in IpcPids : RegionRight(r) => RegionRight(Attached(r, p)) /\ RegionRight(Detached(r, p))
<1> SUFFICES ASSUME NEW r, NEW p \in IpcPids, RegionRight(r)
             PROVE  RegionRight(Attached(r, p)) /\ RegionRight(Detached(r, p))
    OBVIOUS
<1> DEFINE n == Cardinality(r.attached)
<1>1. n \in Nat /\ r.refs \in Nat /\ r.refs >= n /\ IsFiniteSet(r.attached)
    BY FS_CardinalityType DEF RegionRight, RegionType
<1>2. r \in RegionType
    BY DEF RegionRight
<1>3. RegionRight(Attached(r, p))
    <2>1. Attached(r, p).refs = r.refs + 1 /\ Attached(r, p).attached = r.attached \cup {p}
          /\ Attached(r, p) \in RegionType
        <3> DEFINE m == r.attached \cup {p}
        <3>1. m \in SUBSET IpcPids /\ r.refs + 1 \in Nat
            BY <1>1, <1>2 DEF RegionType
        <3>2. Attached(r, p) = [r EXCEPT !.attached = m, !.refs = r.refs + 1]
            BY DEF Attached
        <3> HIDE DEF m
        <3>3. Attached(r, p).attached = m /\ Attached(r, p).refs = r.refs + 1
              /\ Attached(r, p) \in RegionType
            BY <3>1, <3>2, <1>2 DEF RegionType
        <3> QED
            BY <3>3 DEF m
    <2>2. IsFiniteSet(r.attached \cup {p})
          /\ (Cardinality(r.attached \cup {p}) = n \/ Cardinality(r.attached \cup {p}) = n + 1)
        BY <1>1, FS_AddElement
    <2>3. r.refs + 1 \in Nat /\ r.refs + 1 >= Cardinality(r.attached \cup {p})
        BY <1>1, <2>2
    <2> QED
        BY <2>1, <2>2, <2>3 DEF RegionRight
<1>4. RegionRight(Detached(r, p))
    <2>1. CASE p \notin r.attached
        BY <2>1 DEF Detached
    <2>2. CASE p \in r.attached
        <3>2. IsFiniteSet(r.attached \ {p}) /\ Cardinality(r.attached \ {p}) = n - 1
            BY <1>1, <2>2, FS_RemoveElement
        <3>3. Cardinality(r.attached \ {p}) \in Nat
            BY <3>2, FS_CardinalityType
        <3>4. r.refs - 1 \in Nat /\ r.refs - 1 >= Cardinality(r.attached \ {p})
            BY <1>1, <3>2, <3>3
        <3>5. Detached(r, p).refs = r.refs - 1 /\ Detached(r, p).attached = r.attached \ {p}
              /\ Detached(r, p) \in RegionType
            BY <1>2, <2>2, <3>4 DEF RegionType, Detached
        <3> QED
            BY <3>2, <3>4, <3>5 DEF RegionRight
    <2> QED
        BY <2>1, <2>2
<1> QED
    BY <1>3, <1>4

\* New queues and regions are right.
LEMMA NewRight == QueueRight(NewMailbox) /\ RegionRight(NewRegion)
<1>1. QueueRight(NewMailbox)
    BY DEF QueueRight, QueueType, NewMailbox
<1>2. RegionRight(NewRegion)
    BY FS_EmptySet DEF RegionRight, RegionType, NewRegion
<1> QED
    BY <1>1, <1>2

\* Every request and every manager call keeps IpcInv.
LEMMA IpcInvNext == IpcInv /\ [IpcNext]_ipcVars => IpcInv'
<1> SUFFICES ASSUME IpcInv, [IpcNext]_ipcVars PROVE IpcInv'
    OBVIOUS
<1> DEFINE Queues  == \A p \in DOMAIN mailbox : QueueRight(mailbox[p])
           Regions == \A r \in DOMAIN region : RegionRight(region[r])
<1>0. Queues /\ Regions
    BY DEF IpcInv
<1>a. mailbox' = mailbox => Queues'
    BY <1>0
<1>b. region' = region => Regions'
    BY <1>0
<1>c. \A p : QueueRight(MailboxOf(p))
    BY <1>0, NewRight DEF MailboxOf
<1>1. CASE UNCHANGED ipcVars
    BY <1>1, <1>a, <1>b DEF ipcVars, IpcInv
<1>2. CASE HandleCreateSharedMemory
    <2>1. Regions'
        BY <1>0, <1>2, NewRight DEF HandleCreateSharedMemory
    <2> QED
        BY <2>1, <1>2, <1>a DEF HandleCreateSharedMemory, IpcInv
<1>3. CASE CleanupSharedMemory
    <2>1. Regions'
        BY <1>0, <1>3 DEF CleanupSharedMemory
    <2> QED
        BY <2>1, <1>3, <1>a DEF CleanupSharedMemory, IpcInv
<1>4. ASSUME NEW p, IpcUnblock(p) \/ IpcExit(p) PROVE IpcInv'
    BY <1>4, <1>a, <1>b DEF IpcUnblock, IpcExit, IpcInv
<1>5. ASSUME NEW p, NEW q, HandleSendMessage(p, q) PROVE IpcInv'
    <2>1. QueueRight(Sent(MailboxOf(q)))
        BY <1>c, SentRight
    <2>2. Queues'
        BY <2>1, <1>0, <1>5 DEF HandleSendMessage
    <2> QED
        BY <2>2, <1>5, <1>b DEF HandleSendMessage, IpcInv
<1>6. ASSUME NEW p, NEW blocking, HandleReceiveMessage(p, blocking) PROVE IpcInv'
    <2>1. CASE mailbox' = mailbox
        BY <2>1, <1>6, <1>a, <1>b DEF HandleReceiveMessage, IpcInv
    <2>2. CASE MailboxOf(p).messages # <<>> /\ mailbox' = [mailbox EXCEPT ![p] = Received(@)]
        <3>1. p \in DOMAIN mailbox /\ mailbox[p].messages # <<>>
            BY <2>2 DEF MailboxOf, NewMailbox
        <3>2. QueueRight(Received(mailbox[p]))
            BY <3>1, <1>0, ReceivedRight
        <3>3. Queues'
            BY <3>2, <2>2, <1>0
        <3> QED
            BY <3>3, <1>6, <1>b DEF HandleReceiveMessage, IpcInv
    <2> QED
        BY <2>1, <2>2, <1>6 DEF HandleReceiveMessage
<1>7. ASSUME NEW p \in IpcPids, NEW r, HandleAttachSharedMemory(p, r) \/ HandleDetachSharedMemory(p, r)
      PROVE  IpcInv'
    <2>1. r \in DOMAIN region /\ (region' = [region EXCEPT ![r] = Attached(@, p)]
                                   \/ region' = [region EXCEPT ![r] = Detached(@, p)])
        BY <1>7 DEF HandleAttachSharedMemory, HandleDetachSharedMemory
    <2>2. RegionRight(Attached(region[r], p)) /\ RegionRight(Detached(region[r], p))
        BY <2>1, <1>0, RefsRight
    <2>3. Regions'
        BY <2>1, <2>2, <1>0
    <2> QED
        BY <2>3, <1>7, <1>a DEF HandleAttachSharedMemory, HandleDetachSharedMemory, IpcInv
<1>8. ASSUME NEW r, MarkForDeletion(r) PROVE IpcInv'
    <2>1. r \in DOMAIN region /\ region' = [region EXCEPT ![r] = [region[r] EXCEPT !.marked = TRUE]]
        BY <1>8 DEF MarkForDeletion
    <2>2. RegionRight(region[r])
        BY <2>1, <1>0
    <2>3. RegionRight([region[r] EXCEPT !.marked = TRUE])
        <3> DEFINE m == [region[r] EXCEPT !.marked = TRUE]
        <3>1. m \in RegionType /\ m.refs = region[r].refs /\ m.attached = region[r].attached
            BY <2>2 DEF RegionRight, RegionType
        <3> HIDE DEF m
        <3>2. RegionRight(m)
            BY <3>1, <2>2 DEF RegionRight
        <3> QED
            BY <3>2 DEF m
    <2>4. Regions'
        BY <2>1, <2>3, <1>0
    <2> QED
        BY <2>4, <1>8, <1>a DEF MarkForDeletion, IpcInv
<1> QED
    BY <1>1, <1>2, <1>3, <1>4, <1>5, <1>6, <1>7, <1>8 DEF IpcNext

\* Messages leave every queue in the order they were sent, none lost and none twice,
\* and shared memory somebody is attached to is never deleted (ipc.rs), for any
\* processes and any number of messages, regions and attachments.
THEOREM IpcNeverLoses == IpcSpec => []IpcExact
<1>1. IpcInit => IpcInv
    BY DEF IpcInit, IpcInv
<1>2. IpcInv => IpcExact
    <2> SUFFICES ASSUME IpcInv PROVE IpcExact
        OBVIOUS
    <2>1. \A r \in DOMAIN region : CanDeleteRegion(region[r]) => region[r].attached = {}
        <3> SUFFICES ASSUME NEW r \in DOMAIN region, region[r].refs = 0
                     PROVE  region[r].attached = {}
            BY DEF CanDeleteRegion
        <3>1. IsFiniteSet(region[r].attached) /\ 0 >= Cardinality(region[r].attached)
            BY DEF IpcInv, RegionRight
        <3>2. Cardinality(region[r].attached) \in Nat
            BY <3>1, FS_CardinalityType
        <3>3. Cardinality(region[r].attached) = 0
            BY <3>1, <3>2
        <3> QED
            BY <3>1, <3>3, FS_EmptySet
    <2> QED
        BY <2>1 DEF IpcInv, QueueRight, RegionRight, IpcExact
<1> QED
    BY <1>1, <1>2, IpcInvNext, PTL DEF IpcSpec

------------------------------------------------------------------------------
(* Process control blocks.                                                   *)

\* A thread's id is never the 0 that stands for no thread, and descriptors are numbers.
PcbInv ==
    /\ thread = [t \in DOMAIN thread |-> thread[t]] /\ DOMAIN thread \subseteq Tids
    /\ nextPcbFd \in Nat /\ pcbFds \subseteq Nat
    /\ ThreadIdsLead

\* A process control block begins without threads and descriptors.
LEMMA PcbInvInit == PcbInit => PcbInv
    BY DEF PcbInit, PcbInv, ThreadIdsLead, ProcStates, ThreadStates

\* Every method of the process control block keeps PcbInv.
LEMMA PcbInvNext == PcbInv /\ [PcbNext]_pcbVars => PcbInv'
<1> SUFFICES ASSUME PcbInv, [PcbNext]_pcbVars PROVE PcbInv'
    OBVIOUS
<1> DEFINE Named  == /\ mainTid # 0 => mainTid \in DOMAIN thread
                     /\ curTid # 0 => curTid \in DOMAIN thread
                     /\ DOMAIN thread # {} => mainTid # 0
           Typed  == /\ thread \in [DOMAIN thread -> ThreadStates]
                     /\ thread = [t \in DOMAIN thread |-> thread[t]]
                     /\ DOMAIN thread \subseteq Tids
           Numbers == nextPcbFd \in Nat /\ pcbFds \subseteq Nat /\ \A fd \in pcbFds : fd < nextPcbFd
<1>0. Named /\ Typed /\ Numbers /\ proc \in ProcStates /\ 0 \notin Tids
    BY PcbAssumption DEF PcbInv, ThreadIdsLead
<1>a. Named' /\ Typed' /\ Numbers' /\ proc' \in ProcStates => PcbInv'
    BY DEF PcbInv, ThreadIdsLead
<1>b. UNCHANGED <<pcbFds, nextPcbFd>> => Numbers'
    BY <1>0
<1>c. UNCHANGED <<thread, mainTid, curTid>> => Named' /\ Typed'
    BY <1>0
<1>1. CASE UNCHANGED pcbVars
    BY <1>0, <1>1, <1>a, <1>b, <1>c DEF pcbVars
<1>2. CASE BlockProcess
    <2>1. Named' /\ Typed'
        BY <1>2, <1>0 DEF BlockProcess, BlockedThread, ThreadStates
    <2> QED
        BY <2>1, <1>2, <1>a, <1>b DEF BlockProcess, ProcStates
<1>3. CASE UnblockProcess
    <2>1. Named' /\ Typed'
        BY <1>3, <1>0 DEF UnblockProcess, UnblockedThread, ThreadStates
    <2> QED
        BY <2>1, <1>3, <1>a, <1>b DEF UnblockProcess, ProcStates
<1>4. CASE TerminateProcess
    <2>1. Named' /\ Typed'
        BY <1>4, <1>0 DEF TerminateProcess, ThreadStates
    <2> QED
        BY <2>1, <1>4, <1>a, <1>b DEF TerminateProcess, ProcStates
<1>5. CASE TakeSignal \/ \E s \in Signals : AddSignal(s)
    BY <1>0, <1>5, <1>a, <1>b, <1>c DEF TakeSignal, AddSignal
<1>6. CASE OpenPcbFd
    <2>1. pcbFds' = pcbFds \cup {nextPcbFd} /\ nextPcbFd' = nextPcbFd + 1
        BY <1>6 DEF OpenPcbFd
    <2>2. Numbers'
        BY <2>1, <1>0
    <2> QED
        BY <2>2, <1>0, <1>6, <1>a, <1>c DEF OpenPcbFd
<1>7. ASSUME NEW fd, ClosePcbFd(fd) PROVE PcbInv'
    <2>1. Numbers'
        BY <1>0, <1>7 DEF ClosePcbFd
    <2> QED
        BY <2>1, <1>0, <1>7, <1>a, <1>c DEF ClosePcbFd
<1>8. ASSUME NEW s \in {"Ready", "Running", "Zombie"}, SetState(s) PROVE PcbInv'
    BY <1>8, <1>a, <1>b, <1>c DEF SetState, ProcStates
<1>9. ASSUME NEW t \in Tids, AddThread(t) PROVE PcbInv'
    <2>1. thread' = [u \in DOMAIN thread \cup {t} |-> IF u = t THEN "Creating" ELSE thread[u]]
          /\ mainTid' = (IF mainTid = 0 THEN t ELSE mainTid)
          /\ (curTid' = curTid \/ curTid' = t)
        BY <1>9 DEF AddThread
    <2>2. DOMAIN thread' = DOMAIN thread \cup {t} /\ t # 0
        BY <2>1, <1>0
    <2>3. Typed'
        BY <2>1, <2>2, <1>0 DEF ThreadStates
    <2>4. Named'
        BY <2>1, <2>2, <1>0
    <2> QED
        BY <2>3, <2>4, <1>0, <1>9, <1>a, <1>b DEF AddThread
<1>10. ASSUME NEW t \in Tids, RemoveThread(t) PROVE PcbInv'
    <2> DEFINE left == DOMAIN thread \ {t}
    <2>1. t \in DOMAIN thread /\ thread' = [u \in left |-> thread[u]]
          /\ Successor(left, mainTid, t, mainTid') /\ Successor(left, curTid, t, curTid')
        BY <1>10 DEF RemoveThread
    <2>2. DOMAIN thread' = left /\ 0 \notin left
        BY <2>1, <1>0
    <2>3. Typed'
        BY <2>1, <2>2, <1>0
    <2>4. Named'
        BY <2>1, <2>2, <1>0 DEF Successor
    <2> QED
        BY <2>3, <2>4, <1>0, <1>10, <1>a, <1>b DEF RemoveThread
<1> QED
    BY <1>1, <1>2, <1>3, <1>4, <1>5, <1>6, <1>7, <1>8, <1>9, <1>10 DEF PcbNext

\* main_tid and current_tid never name a thread that was removed (PCB::remove_thread),
\* a process with threads has a main one, and allocate_fd never returns a descriptor
\* in use, for any threads and any number of descriptors.
THEOREM ThreadIdsNeverDangle == PcbSpec => []ThreadIdsLead
<1>1. PcbInv => ThreadIdsLead
    BY DEF PcbInv
<1> QED
    BY <1>1, PcbInvInit, PcbInvNext, PTL DEF PcbSpec

------------------------------------------------------------------------------
(* The second set of page tables.                                            *)

\* PageTable::map adds one entry and replaces none.
LEMMA MappedAdds ==
    ASSUME NEW t, NEW p, NEW v, NEW e,
           NEW q \in DOMAIN Mapped(t, p, v, e), NEW u \in DOMAIN Mapped(t, p, v, e)[q]
    PROVE  IF IsMapped(t, q, u) THEN Mapped(t, p, v, e)[q][u] = t[q][u]
           ELSE q = p /\ u = v /\ Mapped(t, p, v, e)[q][u] = e
<1> DEFINE m == Mapped(t, p, v, e)
           old == TableOf(t, p)
<1>1. DOMAIN m = DOMAIN t \cup {p} /\ \A x \in DOMAIN t : x # p => m[x] = t[x]
    BY DEF Mapped
<1>2. m[p] = [x \in DOMAIN old \cup {v} |-> IF x \in DOMAIN old THEN old[x] ELSE e]
    BY DEF Mapped
<1>3. \A x \in DOMAIN t : TableOf(t, x) = t[x]
    BY DEF TableOf
<1>4. p \notin DOMAIN t => DOMAIN old = {}
    BY DEF TableOf
<1> HIDE DEF m, old
<1>5. CASE q # p
    BY <1>1, <1>3, <1>5 DEF IsMapped, m
<1>6. CASE q = p
    <2>1. IsMapped(t, p, u) <=> u \in DOMAIN old
        BY DEF IsMapped, old
    <2>2. u \in DOMAIN old => p \in DOMAIN t /\ old = t[p]
        BY <1>3, <1>4 DEF old
    <2>3. u \in DOMAIN old \cup {v}
        BY <1>2, <1>6 DEF m
    <2> QED
        BY <2>1, <2>2, <2>3, <1>2, <1>6 DEF m
<1> QED
    BY <1>5, <1>6

\* The frame of an allocation was free and is then its process's.
LEMMA FirstFrameGranted ==
    ASSUME NEW a, Sound(a), NEW p \in Pids, CanAllocate(a, 1)
    PROVE  a.owner[FirstFrame(a)] = None /\ AllocateFrames(a, p, 1).owner[FirstFrame(a)] = p
<1>1. a.free \in Seq(Frames) /\ Len(a.free) >= 1
    BY DEF Sound, AllocatorType, CanAllocate
<1>2. 1 \in 1 .. Len(a.free) /\ a.free[1] \in Frames /\ a.free[1] \in FirstFree(a, 1)
    BY <1>1 DEF FirstFree
<1>3. a.owner[a.free[1]] = None
    BY <1>2 DEF Sound, QueueExact
<1>4. AllocateFrames(a, p, 1).owner[a.free[1]] = p
    BY <1>2 DEF AllocateFrames
<1> QED
    BY <1>3, <1>4 DEF FirstFrame

\* The allocator behind the second page tables stays sound as well.
LEMMA TablesSound == Sound(frames) /\ [TablesNext]_tableVars => Sound(frames)'
<1> SUFFICES ASSUME Sound(frames), [TablesNext]_tableVars PROVE Sound(frames')
    BY DEF Sound, AllocatorType, QueueExact, CountsExact
<1>1. \A p \in Owners : p \in Pids
    BY DEF Owners
<1>2. frames' = frames \/ (\E p \in Pids, n \in Nat : frames' = AllocateFrames(frames, p, n))
      \/ (\E f \in Frames : frames' = FreeFrame(frames, f))
    BY <1>1 DEF TablesNext, OneWayFree, OneWayAlloc, OneWayFault, OneWayMap, tableVars
<1> QED
    BY <1>2, AllocateSound, FreeSound

\* A page of the second tables keeps its frame and its rights whatever maps and faults
\* follow (PageTable::map), and a frame a fault allocates is the one it maps, taken
\* from nobody (handle_page_fault), for any processes, pages and frames.
THEOREM MappingsNeverReplaced == TablesSpec => MappingsStay
<1> DEFINE Kept == \A p \in DOMAIN tables' : \A v \in DOMAIN tables'[p] :
         IF IsMapped(tables, p, v) THEN tables'[p][v] = tables[p][v]
         ELSE frames' # frames => /\ frames.owner[tables'[p][v].frame] = None
                                  /\ frames'.owner[tables'[p][v].frame] = p
<1>1. TablesInit => Sound(frames)
    BY NewAllocatorSound DEF TablesInit
<1>2. Sound(frames) /\ [TablesNext]_tableVars => [Kept]_tableVars
    <2> SUFFICES ASSUME Sound(frames), TablesNext PROVE Kept
        OBVIOUS
    <2>1. CASE tables' = tables
        <3>1. \A p \in DOMAIN tables : \A v \in DOMAIN tables[p] : IsMapped(tables, p, v)
            BY DEF IsMapped, TableOf
        <3> QED
            BY <2>1, <3>1
    <2>2. ASSUME NEW p \in Owners, NEW v, NEW f, NEW access, OneWayMap(p, v, f, access)
          PROVE  Kept
        <3>1. tables' = Mapped(tables, p, v, FromProt(f, access)) /\ frames' = frames
            BY <2>2 DEF OneWayMap
        <3> QED
            BY <3>1, MappedAdds
    <2>3. ASSUME NEW p \in Owners, NEW v, NEW access, OneWayFault(p, v, access), tables' # tables
          PROVE  Kept
        <3>1. /\ CanAllocate(frames, 1) /\ frames' = AllocateFrames(frames, p, 1)
              /\ tables' = Mapped(tables, p, v, FromProt(FirstFrame(frames), access))
            BY <2>3 DEF OneWayFault, tableVars
        <3>2. frames.owner[FirstFrame(frames)] = None /\ frames'.owner[FirstFrame(frames)] = p
            BY <3>1, FirstFrameGranted DEF Owners
        <3>3. FromProt(FirstFrame(frames), access).frame = FirstFrame(frames)
            BY DEF FromProt
        <3> QED
            BY <3>1, <3>2, <3>3, MappedAdds
    <2> QED
        BY <2>1, <2>2, <2>3 DEF TablesNext, OneWayFree, OneWayAlloc
<1>3. TablesSpec => []Sound(frames)
    BY <1>1, TablesSound, PTL DEF TablesSpec
<1> QED
    BY <1>2, <1>3, PTL DEF TablesSpec, MappingsStay

------------------------------------------------------------------------------
(* Devices, drivers and hardware buffers.                                    *)

DeviceRecords ==
    [name : DevNames, type : DevTypes, ready : BOOLEAN, opens : Nat, exclusive : BOOLEAN,
     owner : DevPids \cup {NoPid}, users : SUBSET DevPids]

DriverRecords == [loaded : BOOLEAN, refs : Nat, devices : Seq(Nat)]

PortRecords == [online : BOOLEAN, buffer : Seq(Nat), arrived : Nat, taken : Nat]

DevTyped ==
    /\ nextDevice \in Nat \ {0}
    /\ devices \in [DOMAIN devices -> DeviceRecords]
    /\ DOMAIN devices \subseteq 1 .. nextDevice - 1
    /\ nameMap \in [DOMAIN nameMap -> Nat]
    /\ typeMap \in [DevTypes -> Seq(Nat)]
    /\ drivers \in [DOMAIN drivers -> DriverRecords]
    /\ port \in [PortNames -> PortRecords]

\* An exclusive device is its owner's alone; of one that is neither open nor exclusive
\* nobody is a user any more, so that it can be opened exclusively.
OwnerOnly(d) ==
    /\ ExclusivelyOpen(d)
    /\ ~d.exclusive /\ d.opens = 0 => d.users = {}

\* What was read was there to read.
TakenArrived == \A q \in PortNames : port[q].taken <= port[q].arrived

DevInv ==
    /\ DevTyped /\ NamesLead /\ TypesListed /\ DriversCount /\ InputInOrder /\ TakenArrived
    /\ \A d \in DOMAIN devices : OwnerOnly(devices[d])

\* Registering, setting operations, opening and closing keep a device well-formed
\* and an exclusive one its owner's, whoever opens and closes.
LEMMA NewDeviceOwned ==
    ASSUME NEW n \in DevNames, NEW t \in DevTypes
    PROVE  NewDevice(n, t) \in DeviceRecords /\ OwnerOnly(NewDevice(n, t))
    BY DEF NewDevice, DeviceRecords, OwnerOnly, ExclusivelyOpen

LEMMA ReadyOwned ==
    ASSUME NEW d \in DeviceRecords, OwnerOnly(d)
    PROVE  /\ [d EXCEPT !.ready = TRUE] \in DeviceRecords
           /\ OwnerOnly([d EXCEPT !.ready = TRUE])
    BY DEF DeviceRecords, OwnerOnly, ExclusivelyOpen

LEMMA OpenedOwned ==
    ASSUME NEW d \in DeviceRecords, OwnerOnly(d), NEW p \in DevPids, NEW x \in BOOLEAN,
           CanOpen(d, p, x)
    PROVE  /\ Opened(d, p, x) \in DeviceRecords /\ OwnerOnly(Opened(d, p, x))
           /\ Opened(d, p, x).name = d.name /\ Opened(d, p, x).type = d.type
<1>1. /\ d.opens \in Nat /\ d.exclusive \in BOOLEAN /\ d.owner \in DevPids \cup {NoPid}
      /\ d.users \in SUBSET DevPids
    BY DEF DeviceRecords
<1> DEFINE e == Opened(d, p, x)
           k == d.opens + 1
           y == d.exclusive \/ x
           w == IF ~d.exclusive /\ x THEN p ELSE d.owner
           u == d.users \cup {p}
<1>2. k \in Nat /\ k > 0
    BY <1>1
<1>3. y \in BOOLEAN /\ w \in DevPids \cup {NoPid} /\ u \in SUBSET DevPids
    BY <1>1
<1>4. e = [d EXCEPT !.opens = k, !.exclusive = y, !.owner = w, !.users = u]
    BY DEF Opened
<1>5. IF y THEN u = {w} ELSE w = NoPid
    <2>1. CASE d.exclusive
        BY <2>1 DEF CanOpen, OwnerOnly, ExclusivelyOpen
    <2>2. CASE ~d.exclusive /\ x
        BY <2>2 DEF CanOpen, OwnerOnly, ExclusivelyOpen
    <2>3. CASE ~d.exclusive /\ ~x
        BY <2>3 DEF OwnerOnly, ExclusivelyOpen
    <2> QED
        BY <2>1, <2>2, <2>3
<1> HIDE DEF e, k, y, w, u
<1>6. /\ e \in DeviceRecords /\ e.name = d.name /\ e.type = d.type
      /\ e.opens = k /\ e.exclusive = y /\ e.owner = w /\ e.users = u
    BY <1>2, <1>3, <1>4 DEF DeviceRecords
<1>7. OwnerOnly(e)
    BY <1>2, <1>5, <1>6 DEF OwnerOnly, ExclusivelyOpen
<1> QED
    BY <1>6, <1>7 DEF e

LEMMA ClosedOwned ==
    ASSUME NEW d \in DeviceRecords, OwnerOnly(d), NEW p \in DevPids, d.opens > 0
    PROVE  /\ Closed(d, p) \in DeviceRecords /\ OwnerOnly(Closed(d, p))
           /\ Closed(d, p).name = d.name /\ Closed(d, p).type = d.type
<1>1. /\ d.opens \in Nat /\ d.exclusive \in BOOLEAN /\ d.owner \in DevPids \cup {NoPid}
      /\ d.users \in SUBSET DevPids
    BY DEF DeviceRecords
<1> DEFINE e == Closed(d, p)
           k == d.opens - 1
           y == d.exclusive /\ ~(d.owner = p /\ d.opens = 1)
           w == IF y THEN d.owner ELSE NoPid
           u == IF d.opens = 1 /\ ~y THEN {} ELSE d.users
<1>2. k \in Nat /\ (k = 0 <=> d.opens = 1)
    BY <1>1
<1>3. y \in BOOLEAN /\ w \in DevPids \cup {NoPid} /\ u \in SUBSET DevPids
    BY <1>1
<1>4. e = [d EXCEPT !.opens = k, !.exclusive = y, !.owner = w, !.users = u]
    BY DEF Closed
<1>5. IF y THEN u = {w} ELSE w = NoPid
    BY DEF OwnerOnly, ExclusivelyOpen
<1>6. ~y /\ k = 0 => u = {}
    BY <1>2
<1> HIDE DEF e, k, y, w, u
<1>7. /\ e \in DeviceRecords /\ e.name = d.name /\ e.type = d.type
      /\ e.opens = k /\ e.exclusive = y /\ e.owner = w /\ e.users = u
    BY <1>2, <1>3, <1>4 DEF DeviceRecords
<1>8. OwnerOnly(e)
    BY <1>5, <1>6, <1>7 DEF OwnerOnly, ExclusivelyOpen
<1> QED
    BY <1>7, <1>8 DEF e

\* A list without one of its entries: the places behind it move up by one.
LEMMA RemoveFirstAt ==
    ASSUME NEW q \in Seq(Nat), NEW k \in 1 .. Len(q), 
           \A i, j \in 1 .. Len(q) : q[i] = q[j] => i = j
    PROVE  /\ RemoveFirst(q, q[k]) \in Seq(Nat)
           /\ Len(RemoveFirst(q, q[k])) = Len(q) - 1
           /\ \A i \in 1 .. Len(q) - 1 : RemoveFirst(q, q[k])[i] = IF i < k THEN q[i] ELSE q[i + 1]
<1> DEFINE I == {i \in 1 .. Len(q) : q[i] = q[k]}
           a == SubSeq(q, 1, k - 1)
           b == SubSeq(q, k + 1, Len(q))
<1>1. Len(q) \in Nat /\ I = {k}
    OBVIOUS
<1>2. SelectInSeq(q, LAMBDA v : v = q[k]) = IF I # {} THEN Min(I) ELSE 0
    BY DEF SelectInSeq
<1>3. Min({k}) = k
    BY DEF Min
<1>4. SelectInSeq(q, LAMBDA v : v = q[k]) = k
    BY <1>1, <1>2, <1>3
<1>5. RemoveFirst(q, q[k]) = RemoveAt(q, k)
    BY <1>4 DEF RemoveFirst
<1>6. RemoveAt(q, k) = a \o b
    BY DEF RemoveAt
<1>7. a \in Seq(Nat) /\ Len(a) = k - 1 /\ \A i \in 1 .. k - 1 : a[i] = q[i]
    OBVIOUS
<1>8. b \in Seq(Nat) /\ Len(b) = Len(q) - k /\ \A i \in 1 .. Len(q) - k : b[i] = q[k + i]
    OBVIOUS
<1> HIDE DEF a, b, I
<1>9. a \o b \in Seq(Nat) /\ Len(a \o b) = Len(q) - 1
    <2>1. a \in Seq(Nat) /\ b \in Seq(Nat)
        BY <1>7, <1>8
    <2>2. a \o b \in Seq(Nat) /\ Len(a \o b) = Len(a) + Len(b)
        BY <2>1
    <2> QED
        BY <2>2, <1>1, <1>7, <1>8
<1>10. ASSUME NEW i \in 1 .. Len(q) - 1
       PROVE  (a \o b)[i] = IF i < k THEN q[i] ELSE q[i + 1]
    <2>1. CASE i < k
        BY <2>1, <1>7, <1>8
    <2>2. CASE i >= k
        <3>1. i - Len(a) \in 1 .. Len(q) - k /\ i > Len(a) /\ k + (i - Len(a)) = i + 1
            BY <2>2, <1>1, <1>7
        <3>2. a \in Seq(Nat) /\ b \in Seq(Nat) /\ Len(a) \in Nat /\ i \in 1 .. Len(a) + Len(b)
            BY <1>1, <1>7, <1>8
        <3>3. (a \o b)[i] = b[i - Len(a)]
            BY <3>1, <3>2
        <3>4. b[i - Len(a)] = q[k + (i - Len(a))]
            BY <3>1, <1>8
        <3>5. ~(i < k)
            BY <2>2
        <3> QED
            BY <3>1, <3>3, <3>4, <3>5
    <2>3. i < k \/ i >= k
        BY <1>1
    <2> QED
        BY <2>1, <2>2, <2>3
<1> QED
    BY <1>5, <1>6, <1>9, <1>10

\* ... and the list holds the same otherwise, still each at most once and in order.
LEMMA RemoveFirstKeeps ==
    ASSUME NEW q \in Seq(Nat), NEW d \in ToSet(q), IsInjective(q)
    PROVE  /\ RemoveFirst(q, d) \in Seq(Nat)
           /\ Len(RemoveFirst(q, d)) = Len(q) - 1
           /\ ToSet(RemoveFirst(q, d)) = ToSet(q) \ {d}
           /\ IsInjective(RemoveFirst(q, d))
           /\ (\A i, j \in DOMAIN q : i < j => q[i] < q[j]) =>
                (\A i, j \in DOMAIN RemoveFirst(q, d) :
                    i < j => RemoveFirst(q, d)[i] < RemoveFirst(q, d)[j])
<1>1. PICK k \in 1 .. Len(q) : q[k] = d
    BY DEF ToSet
<1>2. Len(q) \in Nat /\ DOMAIN q = 1 .. Len(q) /\ \A i, j \in 1 .. Len(q) : q[i] = q[j] => i = j
    BY DEF IsInjective
<1> DEFINE r == RemoveFirst(q, d)
           At(i) == IF i < k THEN i ELSE i + 1
<1>3. /\ r \in Seq(Nat) /\ Len(r) = Len(q) - 1
      /\ \A i \in 1 .. Len(q) - 1 : r[i] = IF i < k THEN q[i] ELSE q[i + 1]
    BY <1>1, <1>2, RemoveFirstAt
<1> HIDE DEF r
<1>4. DOMAIN r = 1 .. Len(q) - 1
    BY <1>3
<1>5. \A i \in DOMAIN r : At(i) \in 1 .. Len(q) /\ At(i) # k /\ r[i] = q[At(i)]
    <2> SUFFICES ASSUME NEW i \in DOMAIN r
                 PROVE  At(i) \in 1 .. Len(q) /\ At(i) # k /\ r[i] = q[At(i)]
        OBVIOUS
    <2>1. r[i] = IF i < k THEN q[i] ELSE q[i + 1]
        BY <1>3, <1>4
    <2>2. i \in 1 .. Len(q) - 1
        BY <1>4
    <2>3. At(i) \in 1 .. Len(q) /\ At(i) # k
        BY <2>2, <1>2
    <2> QED
        BY <2>1, <2>3
<1>6. \A i, j \in DOMAIN r : (i < j => At(i) < At(j)) /\ (At(i) = At(j) => i = j)
    BY <1>2, <1>4
<1>7. \A m \in 1 .. Len(q) : m # k => \E i \in DOMAIN r : At(i) = m
    <2> SUFFICES ASSUME NEW m \in 1 .. Len(q), m # k PROVE \E i \in DOMAIN r : At(i) = m
        OBVIOUS
    <2>1. CASE m < k
        <3>1. m \in DOMAIN r /\ At(m) = m
            BY <2>1, <1>2, <1>4
        <3> QED
            BY <3>1
    <2>2. CASE m > k
        <3>1. m - 1 \in DOMAIN r /\ At(m - 1) = m
            BY <2>2, <1>2, <1>4
        <3> QED
            BY <3>1
    <2> QED
        BY <2>1, <2>2, <1>2
<1> HIDE DEF At
<1>8. ToSet(r) = ToSet(q) \ {d}
    <2>1. ASSUME NEW i \in DOMAIN r PROVE r[i] \in ToSet(q) \ {d}
        BY <1>1, <1>2, <1>5 DEF ToSet
    <2>2. ASSUME NEW x \in ToSet(q) \ {d} PROVE x \in ToSet(r)
        <3>1. PICK m \in 1 .. Len(q) : q[m] = x
            BY <1>2 DEF ToSet
        <3>2. m # k
            BY <3>1, <1>1
        <3>3. PICK i \in DOMAIN r : At(i) = m
            BY <3>2, <1>7
        <3> QED
            BY <3>1, <3>3, <1>5 DEF ToSet
    <2> QED
        BY <2>1, <2>2 DEF ToSet
<1>9. IsInjective(r)
    <2> SUFFICES ASSUME NEW i \in DOMAIN r, NEW j \in DOMAIN r, r[i] = r[j] PROVE i = j
        BY DEF IsInjective
    <2>1. At(i) = At(j)
        BY <1>5, <1>2
    <2> QED
        BY <2>1, <1>6
<1>10. ASSUME \A i, j \in DOMAIN q : i < j => q[i] < q[j]
       PROVE  \A i, j \in DOMAIN r : i < j => r[i] < r[j]
    BY <1>10, <1>2, <1>5, <1>6
<1> QED
    BY <1>3, <1>8, <1>9, <1>10 DEF r

\* An entry behind all others joins the list as its last one.
LEMMA AppendKeeps ==
    ASSUME NEW q \in Seq(Nat), NEW d \in Nat
    PROVE  /\ Append(q, d) \in Seq(Nat) /\ Len(Append(q, d)) = Len(q) + 1
           /\ ToSet(Append(q, d)) = ToSet(q) \cup {d}
           /\ IsInjective(q) /\ d \notin ToSet(q) => IsInjective(Append(q, d))
           /\ (\A i, j \in DOMAIN q : i < j => q[i] < q[j]) /\ (\A e \in ToSet(q) : e < d) =>
                (\A i, j \in DOMAIN Append(q, d) : i < j => Append(q, d)[i] < Append(q, d)[j])
<1> DEFINE r == Append(q, d)
<1>1. /\ r \in Seq(Nat) /\ Len(r) = Len(q) + 1 /\ Len(q) \in Nat
      /\ \A i \in 1 .. Len(q) : r[i] = q[i]
      /\ r[Len(q) + 1] = d
    OBVIOUS
<1> HIDE DEF r
<1>2. DOMAIN r = 1 .. Len(q) + 1 /\ DOMAIN q = 1 .. Len(q)
    BY <1>1
<1>3. \A i \in DOMAIN r : (i \in DOMAIN q /\ r[i] = q[i]) \/ (i = Len(q) + 1 /\ r[i] = d)
    BY <1>1, <1>2
<1>4. ToSet(r) = ToSet(q) \cup {d}
    <2>1. \A i \in DOMAIN q : i \in DOMAIN r /\ q[i] = r[i]
        BY <1>1, <1>2
    <2>2. Len(q) + 1 \in DOMAIN r
        BY <1>1, <1>2
    <2> QED
        BY <2>1, <2>2, <1>1, <1>3 DEF ToSet
<1>5. \A i \in DOMAIN q : q[i] \in ToSet(q) /\ i < Len(q) + 1
    BY <1>1, <1>2 DEF ToSet
<1>6. IsInjective(q) /\ d \notin ToSet(q) => IsInjective(r)
    BY <1>3, <1>5 DEF IsInjective
<1>7. ASSUME \A i, j \in DOMAIN q : i < j => q[i] < q[j], \A e \in ToSet(q) : e < d
      PROVE  \A i, j \in DOMAIN r : i < j => r[i] < r[j]
    <2> SUFFICES ASSUME NEW i \in DOMAIN r, NEW j \in DOMAIN r, i < j
                 PROVE  r[i] < r[j]
        OBVIOUS
    <2>1. i \in DOMAIN q /\ r[i] = q[i]
        BY <1>1, <1>2, <1>3
    <2>2. CASE j \in DOMAIN q
        BY <2>1, <2>2, <1>3, <1>7
    <2>3. CASE j \notin DOMAIN q
        BY <2>1, <2>3, <1>3, <1>5, <1>7
    <2> QED
        BY <2>2, <2>3
<1> QED
    BY <1>1, <1>4, <1>6, <1>7 DEF r

\* A list in which every entry is larger than the one before holds none twice.
LEMMA IncreasingInjective ==
    ASSUME NEW q \in Seq(Nat), \A i, j \in DOMAIN q : i < j => q[i] < q[j]
    PROVE  IsInjective(q)
<1>1. DOMAIN q = 1 .. Len(q) /\ Len(q) \in Nat /\ \A i \in DOMAIN q : q[i] \in Nat
    OBVIOUS
<1> SUFFICES ASSUME NEW i \in DOMAIN q, NEW j \in DOMAIN q, q[i] = q[j], i # j PROVE FALSE
    BY DEF IsInjective
<1>2. i < j \/ j < i
    BY <1>1
<1> QED
    BY <1>1, <1>2

\* Nothing is registered when the device service starts, and every buffer is empty.
LEMMA DevInvInit == DevInit => DevInv
<1> SUFFICES ASSUME DevInit PROVE DevInv
    OBVIOUS
<1>1. DOMAIN devices = {} /\ DOMAIN nameMap = {} /\ DOMAIN drivers = {}
    BY DEF DevInit, NoDevice
<1>2. nextDevice = 1
    BY DEF DevInit
<1>3. \A f : DOMAIN f = {} /\ f = [d \in {} |-> 0] => \A R : f \in [DOMAIN f -> R]
    OBVIOUS
<1>4. typeMap = [t \in DevTypes |-> <<>>] /\ <<>> \in Seq(Nat) /\ DOMAIN <<>> = {}
    BY DEF DevInit
<1>5. port = [q \in PortNames |-> [online |-> TRUE, buffer |-> <<>>, arrived |-> 0, taken |-> 0]]
    BY DEF DevInit
<1>6. devices \in [DOMAIN devices -> DeviceRecords] /\ nameMap \in [DOMAIN nameMap -> Nat]
      /\ drivers \in [DOMAIN drivers -> DriverRecords]
    BY <1>1, <1>3 DEF DevInit, NoDevice
<1>7. port \in [PortNames -> PortRecords]
    BY <1>4, <1>5 DEF PortRecords
<1>8. DevTyped
    BY <1>1, <1>2, <1>4, <1>6, <1>7 DEF DevTyped
<1>9. NamesLead /\ DriversCount /\ \A d \in DOMAIN devices : OwnerOnly(devices[d])
    BY <1>1 DEF NamesLead, DriversCount
<1>10. TypesListed
    <2>1. \A t \in DevTypes : typeMap[t] = <<>>
        BY <1>4
    <2> QED
        BY <2>1, <1>1, <1>4 DEF TypesListed, ToSet
<1>11. InputInOrder /\ TakenArrived
    <2>1. \A q \in PortNames : port[q].buffer = <<>> /\ port[q].arrived = 0 /\ port[q].taken = 0
        BY <1>5
    <2>2. [i \in 1 .. 0 - 0 |-> 0 + i] = <<>>
        OBVIOUS
    <2> QED
        BY <2>1, <2>2 DEF InputInOrder, TakenArrived
<1> QED
    BY <1>8, <1>9, <1>10, <1>11 DEF DevInv

\* Names and types after a registration: the new id is larger than all others.
LEMMA RegisterKeeps ==
    ASSUME DevInv, NEW n \in DevNames, NEW t \in DevTypes, HandleRegisterDevice(n, t)
    PROVE  DevInv'
<1>1. /\ nextDevice \in Nat \ {0} /\ devices \in [DOMAIN devices -> DeviceRecords]
      /\ DOMAIN devices \subseteq 1 .. nextDevice - 1 /\ nameMap \in [DOMAIN nameMap -> Nat]
      /\ typeMap \in [DevTypes -> Seq(Nat)] /\ drivers \in [DOMAIN drivers -> DriverRecords]
      /\ port \in [PortNames -> PortRecords]
    BY DEF DevInv, DevTyped
<1> DEFINE e == NewDevice(n, t)
<1>2. e \in DeviceRecords /\ OwnerOnly(e)
    BY NewDeviceOwned
<1>3. /\ devices' = With(devices, nextDevice, e) /\ nextDevice' = nextDevice + 1
      /\ nameMap' = With(nameMap, n, nextDevice)
      /\ typeMap' = [typeMap EXCEPT ![t] = Append(typeMap[t], nextDevice)]
      /\ drivers' = drivers /\ port' = port
    BY DEF HandleRegisterDevice
<1>4. e.name = n /\ e.type = t
    BY DEF NewDevice
<1> HIDE DEF e
<1>5. /\ devices' \in [DOMAIN devices' -> DeviceRecords] /\ DOMAIN devices' = DOMAIN devices \cup {nextDevice}
      /\ devices'[nextDevice] = e /\ \A d \in DOMAIN devices \ {nextDevice} : devices'[d] = devices[d]
    BY <1>1, <1>2, <1>3 DEF With
<1>6. /\ nameMap' \in [DOMAIN nameMap' -> Nat] /\ DOMAIN nameMap' = DOMAIN nameMap \cup {n}
      /\ nameMap'[n] = nextDevice /\ \A m \in DOMAIN nameMap \ {n} : nameMap'[m] = nameMap[m]
    BY <1>1, <1>3 DEF With
<1>7. nextDevice \notin DOMAIN devices /\ \A d \in DOMAIN devices : d \in Nat /\ d < nextDevice
    BY <1>1
<1>8. DOMAIN devices' \subseteq 1 .. nextDevice' - 1
    BY <1>1, <1>3, <1>5
<1>9. NamesLead'
    <2>1. ASSUME NEW m \in DOMAIN nameMap'
          PROVE  nameMap'[m] \in DOMAIN devices' /\ devices'[nameMap'[m]].name = m
        <3>1. CASE m = n
            BY <3>1, <1>4, <1>5, <1>6
        <3>2. CASE m # n
            <4>1. m \in DOMAIN nameMap /\ nameMap'[m] = nameMap[m]
                BY <3>2, <1>6
            <4>2. nameMap[m] \in DOMAIN devices /\ devices[nameMap[m]].name = m
                BY <4>1 DEF DevInv, NamesLead
            <4> QED
                BY <4>1, <4>2, <1>5, <1>7
        <3> QED
            BY <3>1, <3>2
    <2>2. ASSUME NEW d \in DOMAIN devices', devices'[d].name \in DOMAIN nameMap'
          PROVE  d <= nameMap'[devices'[d].name]
        <3> DEFINE m == devices'[d].name
        <3>1. d \in Nat /\ d <= nextDevice
            BY <1>1, <1>5, <1>7
        <3>2. CASE m = n
            BY <3>1, <3>2, <1>6
        <3>3. CASE m # n
            <4>1. m \in DOMAIN nameMap /\ nameMap'[m] = nameMap[m]
                BY <3>3, <2>2, <1>6
            <4>2. d \in DOMAIN devices /\ devices[d].name = m
                BY <3>3, <1>4, <1>5, <1>7
            <4>3. d <= nameMap[m]
                BY <4>1, <4>2 DEF DevInv, NamesLead
            <4> QED
                BY <4>1, <4>3
        <3> QED
            BY <3>2, <3>3
    <2> QED
        BY <2>1, <2>2 DEF NamesLead
<1>10. ASSUME NEW u \in DevTypes
       PROVE  /\ typeMap'[u] \in Seq(Nat)
              /\ ToSet(typeMap'[u]) = {d \in DOMAIN devices' : devices'[d].type = u}
              /\ \A i, j \in DOMAIN typeMap'[u] : i < j => typeMap'[u][i] < typeMap'[u][j]
    <2>1. /\ typeMap[u] \in Seq(Nat) /\ ToSet(typeMap[u]) = {d \in DOMAIN devices : devices[d].type = u}
          /\ \A i, j \in DOMAIN typeMap[u] : i < j => typeMap[u][i] < typeMap[u][j]
        BY <1>1 DEF DevInv, TypesListed
    <2>2. CASE u = t
        <3>1. typeMap'[u] = Append(typeMap[u], nextDevice) /\ nextDevice \in Nat
            BY <2>2, <1>1, <1>3
        <3>2. \A d \in ToSet(typeMap[u]) : d < nextDevice
            BY <2>1, <1>7
        <3>3. ToSet(typeMap'[u]) = ToSet(typeMap[u]) \cup {nextDevice}
            BY <2>1, <3>1, AppendKeeps
        <3>4. /\ typeMap'[u] \in Seq(Nat)
              /\ \A i, j \in DOMAIN typeMap'[u] : i < j => typeMap'[u][i] < typeMap'[u][j]
            BY <2>1, <3>1, <3>2, AppendKeeps, ZenonT(60)
        <3>5. {d \in DOMAIN devices' : devices'[d].type = u}
              = {d \in DOMAIN devices : devices[d].type = u} \cup {nextDevice}
            BY <2>2, <1>4, <1>5, <1>7
        <3> QED
            BY <2>1, <3>3, <3>4, <3>5
    <2>3. CASE u # t
        <3>1. typeMap'[u] = typeMap[u]
            BY <2>3, <1>1, <1>3
        <3>2. {d \in DOMAIN devices' : devices'[d].type = u}
              = {d \in DOMAIN devices : devices[d].type = u}
            BY <2>3, <1>4, <1>5, <1>7
        <3> QED
            BY <2>1, <3>1, <3>2
    <2> QED
        BY <2>2, <2>3
<1>11. TypesListed' /\ typeMap' \in [DevTypes -> Seq(Nat)]
    <2>1. typeMap' \in [DevTypes -> Seq(Nat)]
        <3>1. Append(typeMap[t], nextDevice) \in Seq(Nat)
            BY <1>1, AppendKeeps
        <3> QED
            BY <3>1, <1>1, <1>3
    <2> QED
        BY <2>1, <1>10 DEF TypesListed
<1>12. DriversCount'
    BY <1>3 DEF DevInv, DriversCount
<1>13. \A d \in DOMAIN devices' : OwnerOnly(devices'[d])
    BY <1>2, <1>5, <1>7 DEF DevInv
<1>14. InputInOrder' /\ TakenArrived'
    BY <1>3 DEF DevInv, InputInOrder, TakenArrived
<1>15. DevTyped'
    BY <1>1, <1>3, <1>5, <1>6, <1>8, <1>11 DEF DevTyped
<1> QED
    BY <1>9, <1>11, <1>12, <1>13, <1>14, <1>15 DEF DevInv

\* Names and types after a device is gone: its name leads nowhere and its list has lost it.
LEMMA UnregisterKeeps ==
    ASSUME DevInv, NEW d, HandleUnregisterDevice(d)
    PROVE  DevInv'
<1>1. /\ nextDevice \in Nat \ {0} /\ devices \in [DOMAIN devices -> DeviceRecords]
      /\ DOMAIN devices \subseteq 1 .. nextDevice - 1 /\ nameMap \in [DOMAIN nameMap -> Nat]
      /\ typeMap \in [DevTypes -> Seq(Nat)] /\ drivers \in [DOMAIN drivers -> DriverRecords]
      /\ port \in [PortNames -> PortRecords]
    BY DEF DevInv, DevTyped
<1>2. d \in DOMAIN devices /\ devices[d] \in DeviceRecords
    BY <1>1 DEF HandleUnregisterDevice
<1> DEFINE t == devices[d].type
<1>3. /\ devices' = Dropping(devices, d) /\ nextDevice' = nextDevice
      /\ nameMap' = Dropping(nameMap, devices[d].name)
      /\ typeMap' = [typeMap EXCEPT ![t] = RemoveFirst(typeMap[t], d)]
      /\ drivers' = drivers /\ port' = port
    BY DEF HandleUnregisterDevice, TypesWithout
<1>4. t \in DevTypes
    BY <1>2 DEF DeviceRecords
<1>5. /\ devices' \in [DOMAIN devices' -> DeviceRecords] /\ DOMAIN devices' = DOMAIN devices \ {d}
      /\ \A o \in DOMAIN devices \ {d} : devices'[o] = devices[o]
    BY <1>1, <1>3 DEF Dropping
<1>6. /\ nameMap' \in [DOMAIN nameMap' -> Nat]
      /\ DOMAIN nameMap' = DOMAIN nameMap \ {devices[d].name}
      /\ \A m \in DOMAIN nameMap \ {devices[d].name} : nameMap'[m] = nameMap[m]
    BY <1>1, <1>3 DEF Dropping
<1>7. NamesLead'
    <2>1. ASSUME NEW m \in DOMAIN nameMap'
          PROVE  nameMap'[m] \in DOMAIN devices' /\ devices'[nameMap'[m]].name = m
        <3>1. m \in DOMAIN nameMap /\ m # devices[d].name /\ nameMap'[m] = nameMap[m]
            BY <1>6
        <3>2. nameMap[m] \in DOMAIN devices /\ devices[nameMap[m]].name = m
            BY <3>1 DEF DevInv, NamesLead
        <3>3. nameMap[m] # d
            BY <3>1, <3>2
        <3> QED
            BY <3>1, <3>2, <3>3, <1>5
    <2>2. \A o \in DOMAIN devices :
            devices[o].name \in DOMAIN nameMap => o <= nameMap[devices[o].name]
        BY DEF DevInv, NamesLead
    <2>3. \A o \in DOMAIN devices' :
            devices'[o].name \in DOMAIN nameMap' => o <= nameMap'[devices'[o].name]
        BY <2>2, <1>5, <1>6
    <2> QED
        BY <2>1, <2>3 DEF NamesLead
<1>8. \A u \in DevTypes :
        /\ typeMap[u] \in Seq(Nat) /\ ToSet(typeMap[u]) = {o \in DOMAIN devices : devices[o].type = u}
        /\ \A i, j \in DOMAIN typeMap[u] : i < j => typeMap[u][i] < typeMap[u][j]
    BY <1>1 DEF DevInv, TypesListed
<1> DEFINE q == typeMap[t]
           r == RemoveFirst(q, d)
<1>9. /\ r \in Seq(Nat) /\ ToSet(r) = ToSet(q) \ {d}
      /\ \A i, j \in DOMAIN r : i < j => r[i] < r[j]
    <2>1. q \in Seq(Nat) /\ \A i, j \in DOMAIN q : i < j => q[i] < q[j]
        BY <1>4, <1>8
    <2>2. d \in ToSet(q)
        BY <1>2, <1>4, <1>8
    <2> HIDE DEF q
    <2>3. IsInjective(q)
        BY <2>1, IncreasingInjective
    <2> QED
        BY <2>1, <2>2, <2>3, RemoveFirstKeeps
<1>10. typeMap' \in [DevTypes -> Seq(Nat)] /\ typeMap'[t] = r
       /\ \A u \in DevTypes \ {t} : typeMap'[u] = typeMap[u]
    <2> HIDE DEF t
    <2> QED
        BY <1>1, <1>3, <1>4, <1>9
<1>11. TypesListed'
    <2> SUFFICES ASSUME NEW u \in DevTypes
                 PROVE  /\ ToSet(typeMap'[u]) = {o \in DOMAIN devices' : devices'[o].type = u}
                        /\ \A i, j \in DOMAIN typeMap'[u] : i < j => typeMap'[u][i] < typeMap'[u][j]
        BY DEF TypesListed
    <2>1. CASE u = t
        <3>1. {o \in DOMAIN devices' : devices'[o].type = u}
              = {o \in DOMAIN devices : devices[o].type = u} \ {d}
            BY <1>5
        <3>2. ToSet(q) = {o \in DOMAIN devices : devices[o].type = u}
            BY <2>1, <1>8
        <3> HIDE DEF r, q, t
        <3> QED
            BY <2>1, <3>1, <3>2, <1>9, <1>10
    <2>2. CASE u # t
        <3>1. {o \in DOMAIN devices' : devices'[o].type = u}
              = {o \in DOMAIN devices : devices[o].type = u}
            BY <2>2, <1>5
        <3> QED
            BY <2>2, <3>1, <1>8, <1>10
    <2> QED
        BY <2>1, <2>2
<1>12. DriversCount' /\ InputInOrder' /\ TakenArrived'
    BY <1>3 DEF DevInv, DriversCount, InputInOrder, TakenArrived
<1>13. \A o \in DOMAIN devices' : OwnerOnly(devices'[o])
    BY <1>5 DEF DevInv
<1>14. DevTyped'
    BY <1>1, <1>3, <1>5, <1>6, <1>10 DEF DevTyped
<1> QED
    BY <1>7, <1>11, <1>12, <1>13, <1>14 DEF DevInv

\* A device that keeps its name and type may change in every other way that leaves it
\* to its owner.
LEMMA DeviceUpdateKeeps ==
    ASSUME DevInv, NEW d \in DOMAIN devices, NEW e \in DeviceRecords, OwnerOnly(e),
           e.name = devices[d].name, e.type = devices[d].type,
           devices' = [devices EXCEPT ![d] = e],
           UNCHANGED <<nextDevice, nameMap, typeMap, drivers, clipboard, port>>
    PROVE  DevInv'
<1>1. /\ devices \in [DOMAIN devices -> DeviceRecords] /\ DOMAIN devices' = DOMAIN devices
      /\ \A o \in DOMAIN devices : devices'[o] = IF o = d THEN e ELSE devices[o]
    BY DEF DevInv, DevTyped
<1>2. /\ devices' \in [DOMAIN devices' -> DeviceRecords]
      /\ \A o \in DOMAIN devices : devices'[o].name = devices[o].name /\ devices'[o].type = devices[o].type
    BY <1>1
<1>3. DevTyped'
    BY <1>1, <1>2 DEF DevInv, DevTyped
<1>4. NamesLead'
    BY <1>1, <1>2 DEF DevInv, NamesLead
<1>5. TypesListed'
    <2>1. \A t \in DevTypes : {o \in DOMAIN devices' : devices'[o].type = t}
                              = {o \in DOMAIN devices : devices[o].type = t}
        BY <1>1, <1>2
    <2> QED
        BY <2>1 DEF DevInv, TypesListed
<1>6. DriversCount' /\ InputInOrder' /\ TakenArrived'
    BY DEF DevInv, DriversCount, InputInOrder, TakenArrived
<1>7. \A o \in DOMAIN devices' : OwnerOnly(devices'[o])
    BY <1>1 DEF DevInv
<1> QED
    BY <1>3, <1>4, <1>5, <1>6, <1>7 DEF DevInv

\* Opens and closes.
LEMMA DeviceCallsKeep ==
    ASSUME DevInv, NEW d, NEW p \in DevPids, NEW x \in BOOLEAN,
           OpenDevice(d, p, x) \/ CloseDevice(d, p)
    PROVE  DevInv'
<1>1. d \in DOMAIN devices /\ devices \in [DOMAIN devices -> DeviceRecords]
    BY DEF DevInv, DevTyped, OpenDevice, CloseDevice
<1> DEFINE o == devices[d]
<1>2. o \in DeviceRecords /\ OwnerOnly(o)
    BY <1>1 DEF DevInv
<1>3. CASE OpenDevice(d, p, x)
    <2> DEFINE e == Opened(o, p, x)
    <2>1. devices' = [devices EXCEPT ![d] = e] /\ CanOpen(o, p, x)
          /\ UNCHANGED <<nextDevice, nameMap, typeMap, drivers, clipboard, port>>
        BY <1>3 DEF OpenDevice
    <2>2. e \in DeviceRecords /\ OwnerOnly(e) /\ e.name = o.name /\ e.type = o.type
        BY <1>2, <2>1, OpenedOwned
    <2> HIDE DEF e
    <2> QED
        BY <1>1, <2>1, <2>2, DeviceUpdateKeeps
<1>4. CASE CloseDevice(d, p)
    <2> DEFINE e == Closed(o, p)
    <2>1. devices' = [devices EXCEPT ![d] = e] /\ o.opens > 0
          /\ UNCHANGED <<nextDevice, nameMap, typeMap, drivers, clipboard, port>>
        BY <1>4 DEF CloseDevice
    <2>2. e \in DeviceRecords /\ OwnerOnly(e) /\ e.name = o.name /\ e.type = o.type
        BY <1>2, <2>1, ClosedOwned
    <2> HIDE DEF e
    <2> QED
        BY <1>1, <2>1, <2>2, DeviceUpdateKeeps
<1> QED
    BY <1>3, <1>4

\* One driver is well-formed and counts its devices.
DriverSound(r) ==
    /\ r \in DriverRecords
    /\ r.refs = Len(r.devices)
    /\ IsInjective(r.devices)

\* Whatever is done to the drivers leaves the other tables alone.
LEMMA DriverTableKeeps ==
    ASSUME DevInv, UnchangedButDrivers, drivers' = [n \in DOMAIN drivers' |-> drivers'[n]],
           \A n \in DOMAIN drivers' : DriverSound(drivers'[n])
    PROVE  DevInv'
<1>1. nextDevice' = nextDevice /\ devices' = devices /\ nameMap' = nameMap /\ typeMap' = typeMap
      /\ port' = port
    BY DEF UnchangedButDrivers
<1>2. drivers' \in [DOMAIN drivers' -> DriverRecords] /\ DriversCount'
    BY <1>1 DEF DriverSound, DriversCount
<1>3. DevTyped'
    BY <1>1, <1>2 DEF DevInv, DevTyped
<1>4. NamesLead' /\ TypesListed' /\ InputInOrder' /\ TakenArrived'
      /\ \A d \in DOMAIN devices' : OwnerOnly(devices'[d])
    BY <1>1 DEF DevInv, NamesLead, TypesListed, InputInOrder, TakenArrived
<1> QED
    BY <1>2, <1>3, <1>4 DEF DevInv

\* One driver changed, the others as before.
LEMMA DriverUpdateKeeps ==
    ASSUME DevInv, UnchangedButDrivers, NEW n \in DOMAIN drivers, NEW r, DriverSound(r),
           drivers' = [drivers EXCEPT ![n] = r]
    PROVE  DevInv'
<1>1. drivers \in [DOMAIN drivers -> DriverRecords] /\ \A m \in DOMAIN drivers : DriverSound(drivers[m])
    BY DEF DevInv, DevTyped, DriversCount, DriverSound
<1>2. DOMAIN drivers' = DOMAIN drivers /\ drivers' = [m \in DOMAIN drivers' |-> drivers'[m]]
      /\ \A m \in DOMAIN drivers : drivers'[m] = IF m = n THEN r ELSE drivers[m]
    BY <1>1
<1>3. \A m \in DOMAIN drivers' : DriverSound(drivers'[m])
    BY <1>1, <1>2
<1> QED
    BY <1>2, <1>3, DriverTableKeeps

\* Drivers come and go, are loaded and unloaded, and are given devices and lose them.
LEMMA DriverCallsKeep ==
    ASSUME DevInv, NEW n, NEW d \in Nat,
           \/ RegisterDriver(n) \/ UnregisterDriver(n) \/ LoadDriver(n) \/ UnloadDriver(n)
           \/ AddDevice(n, d) \/ RemoveDevice(n, d)
    PROVE  DevInv'
<1>0. UnchangedButDrivers
    BY DEF RegisterDriver, UnregisterDriver, LoadDriver, UnloadDriver, AddDevice, RemoveDevice
<1>1. drivers \in [DOMAIN drivers -> DriverRecords] /\ \A m \in DOMAIN drivers : DriverSound(drivers[m])
    BY DEF DevInv, DevTyped, DriversCount, DriverSound
<1>2. CASE RegisterDriver(n)
    <2> DEFINE e == [loaded |-> FALSE, refs |-> 0, devices |-> <<>>]
    <2>1. DriverSound(e)
        <3>1. <<>> \in Seq(Nat) /\ Len(<<>>) = 0 /\ DOMAIN <<>> = {}
            OBVIOUS
        <3>2. e \in DriverRecords /\ e.refs = 0 /\ e.devices = <<>>
            BY <3>1 DEF DriverRecords
        <3> HIDE DEF e
        <3> QED
            BY <3>1, <3>2 DEF DriverSound, IsInjective, ToSet
    <2>2. drivers' = With(drivers, n, e)
        BY <1>2 DEF RegisterDriver
    <2> HIDE DEF e
    <2>3. /\ drivers' = [m \in DOMAIN drivers' |-> drivers'[m]]
          /\ \A m \in DOMAIN drivers' : drivers'[m] = e \/ (m \in DOMAIN drivers /\ drivers'[m] = drivers[m])
        BY <2>2 DEF With
    <2> QED
        BY <1>0, <1>1, <2>1, <2>3, DriverTableKeeps
<1>3. CASE UnregisterDriver(n)
    <2>1. /\ drivers' = [m \in DOMAIN drivers' |-> drivers'[m]]
          /\ \A m \in DOMAIN drivers' : m \in DOMAIN drivers /\ drivers'[m] = drivers[m]
        BY <1>3 DEF UnregisterDriver, Dropping
    <2> QED
        BY <1>0, <1>1, <2>1, DriverTableKeeps
<1> DEFINE r == drivers[n]
<1>4. ASSUME n \in DOMAIN drivers
      PROVE  /\ r = [loaded |-> r.loaded, refs |-> r.refs, devices |-> r.devices]
             /\ r.refs \in Nat /\ r.devices \in Seq(Nat) /\ r.loaded \in BOOLEAN
             /\ r.refs = Len(r.devices) /\ IsInjective(r.devices)
    BY <1>1, <1>4 DEF DriverSound, DriverRecords
<1>5. CASE LoadDriver(n) \/ UnloadDriver(n)
    <2>1. PICK on \in BOOLEAN : n \in DOMAIN drivers /\ drivers' = [drivers EXCEPT ![n] = [r EXCEPT !.loaded = on]]
        BY <1>5 DEF LoadDriver, UnloadDriver
    <2> DEFINE e == [r EXCEPT !.loaded = on]
    <2>2. e = [loaded |-> on, refs |-> r.refs, devices |-> r.devices]
        BY <1>4, <2>1
    <2>3. DriverSound(e)
        <3> HIDE DEF r
        <3> QED
            BY <1>4, <2>1, <2>2 DEF DriverSound, DriverRecords
    <2> HIDE DEF e
    <2>4. drivers' = [drivers EXCEPT ![n] = e]
        BY <2>1 DEF e
    <2> QED
        BY <1>0, <2>1, <2>3, <2>4, DriverUpdateKeeps
<1>6. CASE AddDevice(n, d)
    <2> DEFINE q == Append(r.devices, d)
               e == WithDevice(r, d)
    <2>1. n \in DOMAIN drivers /\ d \notin ToSet(r.devices)
        BY <1>6 DEF AddDevice
    <2>3. q \in Seq(Nat) /\ Len(q) = Len(r.devices) + 1 /\ ToSet(q) = ToSet(r.devices) \cup {d}
          /\ IsInjective(q)
        BY <1>4, <2>1, AppendKeeps
    <2>4. drivers' = [drivers EXCEPT ![n] = e]
        BY <1>6 DEF AddDevice
    <2>5. r \in DriverRecords /\ r.refs + 1 \in Nat
        BY <1>1, <1>4, <2>1
    <2> DEFINE z == r.refs + 1
    <2>6. e = [r EXCEPT !.devices = q, !.refs = z]
        BY DEF WithDevice
    <2> HIDE DEF q, r, e
    <2>7. e \in DriverRecords /\ e.devices = q /\ e.refs = r.refs + 1
        <3>1. z \in Nat
            BY <2>5
        <3>2. z = r.refs + 1
            OBVIOUS
        <3> HIDE DEF z
        <3> QED
            BY <3>1, <3>2, <2>3, <2>5, <2>6 DEF DriverRecords
    <2>8. e.refs = Len(q)
        BY <1>4, <2>1, <2>3, <2>7
    <2>9. DriverSound(e)
        BY <2>3, <2>7, <2>8 DEF DriverSound
    <2> QED
        BY <1>0, <2>1, <2>4, <2>9, DriverUpdateKeeps
<1>7. CASE RemoveDevice(n, d)
    <2> DEFINE q == RemoveFirst(r.devices, d)
               e == WithoutDevice(r, d)
    <2>1. n \in DOMAIN drivers /\ d \in ToSet(r.devices)
        BY <1>7 DEF RemoveDevice
    <2>2. Len(r.devices) \in Nat /\ Len(r.devices) > 0
        BY <1>4, <2>1 DEF ToSet
    <2>3. q \in Seq(Nat) /\ Len(q) = Len(r.devices) - 1 /\ ToSet(q) = ToSet(r.devices) \ {d}
          /\ IsInjective(q)
        BY <1>4, <2>1, RemoveFirstKeeps
    <2>4. drivers' = [drivers EXCEPT ![n] = e]
        BY <1>7 DEF RemoveDevice
    <2>5. r \in DriverRecords /\ r.refs > 0 /\ r.refs - 1 \in Nat
        BY <1>1, <1>4, <2>1, <2>2
    <2> DEFINE z == r.refs - 1
    <2>6. e = [r EXCEPT !.devices = q, !.refs = z]
        BY <2>5 DEF WithoutDevice
    <2> HIDE DEF q, r, e
    <2>7. e \in DriverRecords /\ e.devices = q /\ e.refs = r.refs - 1
        <3>1. z \in Nat
            BY <2>5
        <3>2. z = r.refs - 1
            OBVIOUS
        <3> HIDE DEF z
        <3> QED
            BY <3>1, <3>2, <2>3, <2>5, <2>6 DEF DriverRecords
    <2>8. e.refs = Len(q)
        BY <1>4, <2>1, <2>3, <2>7
    <2>9. DriverSound(e)
        BY <2>3, <2>7, <2>8 DEF DriverSound
    <2> QED
        BY <1>0, <2>1, <2>4, <2>9, DriverUpdateKeeps
<1> QED
    BY <1>2, <1>3, <1>5, <1>6, <1>7

\* One hardware buffer holds exactly what arrived and was not taken, in order.
PortSound(b) ==
    /\ b \in PortRecords /\ b.taken <= b.arrived
    /\ b.buffer = [i \in 1 .. b.arrived - b.taken |-> b.taken + i]

\* One port changed, the others as before.
LEMMA PortUpdateKeeps ==
    ASSUME DevInv, UnchangedButPorts, NEW q \in PortNames, NEW b, PortSound(b),
           port' = [port EXCEPT ![q] = b]
    PROVE  DevInv'
<1>1. nextDevice' = nextDevice /\ devices' = devices /\ nameMap' = nameMap /\ typeMap' = typeMap
      /\ drivers' = drivers
    BY DEF UnchangedButPorts
<1>2. port \in [PortNames -> PortRecords]
    BY DEF DevInv, DevTyped
<1>3. b \in PortRecords /\ b.taken <= b.arrived
      /\ b.buffer = [i \in 1 .. b.arrived - b.taken |-> b.taken + i]
    BY DEF PortSound
<1>4. port' \in [PortNames -> PortRecords]
      /\ \A o \in PortNames : port'[o] = IF o = q THEN b ELSE port[o]
    BY <1>2, <1>3
<1>5. InputInOrder' /\ TakenArrived'
    <2>1. \A o \in PortNames : PortSound(port[o])
        BY <1>2 DEF DevInv, InputInOrder, TakenArrived, PortSound
    <2>2. \A o \in PortNames : PortSound(port'[o])
        BY <1>4, <2>1
    <2> QED
        BY <2>2 DEF InputInOrder, TakenArrived, PortSound
<1>6. DevTyped'
    BY <1>1, <1>4 DEF DevInv, DevTyped
<1>7. NamesLead' /\ TypesListed' /\ DriversCount'
      /\ \A d \in DOMAIN devices' : OwnerOnly(devices'[d])
    BY <1>1 DEF DevInv, NamesLead, TypesListed, DriversCount
<1> QED
    BY <1>5, <1>6, <1>7 DEF DevInv

\* Input arrives and is read; a device is switched on and off and reset.
LEMMA PortCallsKeep ==
    ASSUME DevInv, NEW q \in PortNames, NEW on \in BOOLEAN,
           Arrives(q) \/ Takes(q) \/ ResetPort(q) \/ SetOnline(q, on)
    PROVE  DevInv'
<1>0. UnchangedButPorts
    BY DEF Arrives, Takes, ResetPort, SetOnline
<1> DEFINE b == port[q]
           n == b.arrived - b.taken
<1>1. port \in [PortNames -> PortRecords] /\ b \in PortRecords
    BY DEF DevInv, DevTyped
<1>2. /\ b.online \in BOOLEAN /\ b.buffer \in Seq(Nat) /\ b.arrived \in Nat /\ b.taken \in Nat
      /\ b.taken <= b.arrived /\ b.buffer = [i \in 1 .. b.arrived - b.taken |-> b.taken + i]
    BY <1>1 DEF PortRecords, DevInv, InputInOrder, TakenArrived
<1>3. n \in Nat /\ Len(b.buffer) = n /\ \A i \in 1 .. n : b.buffer[i] = b.taken + i
    BY <1>2
<1>4. CASE Arrives(q)
    <2> DEFINE s == Append(b.buffer, b.arrived + 1)
               e == Buffered(b)
    <2>1. port' = [port EXCEPT ![q] = e]
        BY <1>4 DEF Arrives
    <2>2. s \in Seq(Nat) /\ Len(s) = n + 1 /\ \A i \in 1 .. n + 1 : s[i] = b.taken + i
        BY <1>2, <1>3, SMTT(20)
    <2>3. e = [b EXCEPT !.buffer = s, !.arrived = b.arrived + 1] /\ b.arrived + 1 \in Nat
        BY <1>2 DEF Buffered
    <2> HIDE DEF s, b, e
    <2>4. e \in PortRecords /\ e.buffer = s /\ e.arrived = b.arrived + 1 /\ e.taken = b.taken
        BY <1>1, <2>2, <2>3 DEF PortRecords
    <2>5. s = [i \in 1 .. n + 1 |-> b.taken + i] /\ n + 1 = b.arrived + 1 - b.taken
        BY <2>2, <1>2, <1>3
    <2>6. PortSound(e)
        BY <2>4, <2>5, <1>2 DEF PortSound
    <2> QED
        BY <1>0, <2>1, <2>6, PortUpdateKeeps
<1>5. CASE Takes(q)
    <2> DEFINE s == Tail(b.buffer)
               e == Consumed(b)
    <2>1. port' = [port EXCEPT ![q] = e] /\ b.buffer # <<>>
        BY <1>5 DEF Takes
    <2>2. n > 0 /\ Head(b.buffer) = b.taken + 1
        BY <2>1, <1>2, <1>3
    <2>3. s \in Seq(Nat) /\ Len(s) = n - 1 /\ \A i \in 1 .. n - 1 : s[i] = b.buffer[i + 1]
        BY <2>1, <2>2, <1>2, <1>3
    <2> DEFINE h == Head(b.buffer)
    <2>4. e = [b EXCEPT !.buffer = s, !.taken = h] /\ h \in Nat /\ h = b.taken + 1
        BY <2>2, <1>2 DEF Consumed
    <2> HIDE DEF s, b, e, h, n
    <2>5. e \in PortRecords /\ e.buffer = s /\ e.arrived = b.arrived /\ e.taken = b.taken + 1
        BY <1>1, <2>3, <2>4 DEF PortRecords
    <2>6. \A i \in 1 .. n - 1 : i + 1 \in 1 .. n /\ b.taken + (i + 1) = b.taken + 1 + i
        <3>1. n \in Nat /\ b.taken \in Nat
            BY <1>2, <1>3
        <3> QED
            BY <3>1
    <2>7. \A i \in 1 .. n - 1 : s[i] = b.taken + 1 + i
        BY <2>3, <2>6, <1>3
    <2>8. s = [i \in 1 .. n - 1 |-> b.taken + 1 + i] /\ n - 1 = b.arrived - (b.taken + 1)
          /\ b.taken + 1 <= b.arrived
        BY <2>2, <2>3, <2>7, <1>2, <1>3, SMTT(20)
    <2>9. PortSound(e)
        BY <2>5, <2>8 DEF PortSound
    <2> QED
        BY <1>0, <2>1, <2>9, PortUpdateKeeps
<1>6. CASE ResetPort(q)
    <2> DEFINE e == Emptied(b)
    <2>1. port' = [port EXCEPT ![q] = e]
        BY <1>6 DEF ResetPort
    <2>2. <<>> \in Seq(Nat) /\ <<>> = [i \in 1 .. b.arrived - b.arrived |-> b.arrived + i]
        BY <1>2
    <2>3. e \in PortRecords /\ e.buffer = <<>> /\ e.arrived = b.arrived /\ e.taken = b.arrived
        <3> HIDE DEF b
        <3> QED
            BY <1>1, <1>2, <2>2 DEF PortRecords, Emptied
    <2> HIDE DEF e
    <2>4. PortSound(e)
        BY <2>2, <2>3, <1>2 DEF PortSound
    <2> QED
        BY <1>0, <2>1, <2>4, PortUpdateKeeps
<1>7. CASE SetOnline(q, on)
    <2> DEFINE e == [b EXCEPT !.online = on]
    <2>1. port' = [port EXCEPT ![q] = e]
        BY <1>7 DEF SetOnline
    <2>2. e \in PortRecords /\ e.buffer = b.buffer /\ e.arrived = b.arrived /\ e.taken = b.taken
        <3> HIDE DEF b
        <3> QED
            BY <1>1 DEF PortRecords
    <2> HIDE DEF e
    <2>3. PortSound(e)
        BY <2>2, <1>2 DEF PortSound
    <2> QED
        BY <1>0, <2>1, <2>3, PortUpdateKeeps
<1> QED
    BY <1>4, <1>5, <1>6, <1>7

\* Every step keeps the tables of the device side.
LEMMA DevInvStep == DevInv /\ [DevNext \/ PortNext]_devVars => DevInv'
<1> SUFFICES ASSUME DevInv, [DevNext \/ PortNext]_devVars PROVE DevInv'
    OBVIOUS
<1>1. CASE UNCHANGED devVars
    BY <1>1 DEF devVars, DevInv, DevTyped, NamesLead, TypesListed, DriversCount, InputInOrder,
                TakenArrived, OwnerOnly, ExclusivelyOpen
<1>2. ASSUME NEW n \in DevNames, NEW t \in DevTypes, HandleRegisterDevice(n, t) PROVE DevInv'
    BY <1>2, RegisterKeeps
<1>3. ASSUME NEW d \in 1 .. MaxDevice, HandleUnregisterDevice(d) PROVE DevInv'
    BY <1>3, UnregisterKeeps
<1>4. ASSUME NEW d \in 1 .. MaxDevice, SetOperations(d) PROVE DevInv'
    <2>1. devices \in [DOMAIN devices -> DeviceRecords] /\ d \in DOMAIN devices
        BY <1>4 DEF SetOperations, DevInv, DevTyped
    <2> DEFINE e == [devices[d] EXCEPT !.ready = TRUE]
    <2>2. devices[d] \in DeviceRecords /\ OwnerOnly(devices[d])
        BY <2>1 DEF DevInv
    <2>3. e \in DeviceRecords /\ OwnerOnly(e)
        BY <2>2, ReadyOwned
    <2>4. e.name = devices[d].name /\ e.type = devices[d].type
        BY <2>2 DEF DeviceRecords
    <2>5. devices' = [devices EXCEPT ![d] = e]
          /\ UNCHANGED <<nextDevice, nameMap, typeMap, drivers, clipboard, port>>
        BY <1>4 DEF SetOperations
    <2> HIDE DEF e
    <2> QED
        BY <2>1, <2>3, <2>4, <2>5, DeviceUpdateKeeps
<1>5. ASSUME NEW d \in 1 .. MaxDevice, NEW p \in DevPids, NEW x \in BOOLEAN,
             OpenDevice(d, p, x) \/ CloseDevice(d, p)
      PROVE  DevInv'
    BY <1>5, DeviceCallsKeep
<1>6. ASSUME NEW n \in DriverNames, NEW d \in Nat,
             \/ RegisterDriver(n) \/ UnregisterDriver(n) \/ LoadDriver(n) \/ UnloadDriver(n)
             \/ AddDevice(n, d) \/ RemoveDevice(n, d)
      PROVE  DevInv'
    BY <1>6, DriverCallsKeep
<1>7. ASSUME NEW x, ClipboardSet(x) PROVE DevInv'
    BY <1>7 DEF ClipboardSet, DevInv, DevTyped, NamesLead, TypesListed, DriversCount, InputInOrder,
                TakenArrived, OwnerOnly, ExclusivelyOpen
<1>8. ASSUME NEW q \in PortNames, NEW on \in BOOLEAN,
             Arrives(q) \/ Takes(q) \/ ResetPort(q) \/ SetOnline(q, on)
      PROVE  DevInv'
    BY <1>8, PortCallsKeep
<1>9. CASE DevNext
    <2>1. MaxDevice \in Nat /\ 1 .. MaxDevice \subseteq Nat /\ 0 \in Nat
        BY DevicesAssumption
    <2>2. ASSUME NEW n \in DriverNames,
                 RegisterDriver(n) \/ UnregisterDriver(n) \/ LoadDriver(n) \/ UnloadDriver(n)
          PROVE  DevInv'
        BY <2>1, <2>2, <1>6
    <2> QED
        BY <2>1, <2>2, <1>9, <1>2, <1>3, <1>4, <1>5, <1>6, <1>7 DEF DevNext
<1>10. CASE PortNext
    BY <1>10, <1>8 DEF PortNext
<1> QED
    BY <1>1, <1>9, <1>10

\* Names and type lists lead to the live devices, an exclusive device is open to its
\* owner only, drivers count what they hold and input is read in order: for any names,
\* types, processes and ports and any sequence of calls (DeviceManager, Device, Driver,
\* and the hardware devices' buffers).
THEOREM DeviceTablesAgree == DevSpec => []DevicesExact
<1>1. DevInv => DevicesExact
    BY DEF DevInv, DevicesExact, OwnerOnly
<1> QED
    BY <1>1, DevInvInit, DevInvStep, PTL DEF DevSpec

------------------------------------------------------------------------------
(* The assembler and the CPU.                                                *)

\* Numbers below twice a limit wrap at most once, negative ones down to it too.
LEMMA WrapOnce ==
    ASSUME NEW n \in Nat \ {0}, NEW x \in Int
    PROVE  /\ x \in 0 .. n - 1 => x % n = x
           /\ x \in n .. 2 * n - 1 => x % n = x - n
           /\ x \in 0 - n .. 0 - 1 => x % n = x + n
           /\ x % n \in 0 .. n - 1
    OBVIOUS

\* A quotient is no larger than what was divided.
LEMMA QuotientSmaller ==
    ASSUME NEW a \in Nat, NEW b \in Nat \ {0}
    PROVE  a \div b \in Nat /\ a \div b <= a
    OBVIOUS

\* An address is its page and its offset in the page.
LEMMA AddressSplit ==
    ASSUME NEW a \in Nat
    PROVE  /\ PageOf(a) \in Nat /\ a % PageWords \in 0 .. PageWords - 1
           /\ a = PageOf(a) * PageWords + (a % PageWords)
<1>1. PageWords \in Nat \ {0}
    BY CpuAssumption
<1>2. a \div PageWords \in Nat /\ a % PageWords \in 0 .. PageWords - 1
    BY <1>1
<1>3. a = (a \div PageWords) * PageWords + (a % PageWords)
    BY <1>1
<1> QED
    BY <1>2, <1>3 DEF PageOf

\* How many lines are accepted up to a line: one more at every accepted line.
LEMMA UptoGrows ==
    ASSUME NEW s \in Seq(InstructionType)
    PROVE  /\ Upto(s, 0) = 0
           /\ \A i \in 0 .. Len(s) : Upto(s, i) \in Nat
           /\ \A i \in 1 .. Len(s) :
                Upto(s, i) = IF i \in Accepted(s) THEN Upto(s, i - 1) + 1 ELSE Upto(s, i - 1)
<1> DEFINE K == Accepted(s)
<1>0. Len(s) \in Nat /\ K \subseteq 1 .. Len(s)
    BY DEF Accepted
<1>1. \A i \in 0 .. Len(s) : IsFiniteSet(K \cap 1 .. i)
    <2> SUFFICES ASSUME NEW i \in 0 .. Len(s) PROVE IsFiniteSet(K \cap 1 .. i)
        OBVIOUS
    <2>1. IsFiniteSet(1 .. i)
        BY <1>0, FS_Interval
    <2> QED
        BY <2>1, FS_Subset
<1>2. Upto(s, 0) = 0
    <2>1. K \cap 1 .. 0 = {}
        OBVIOUS
    <2> QED
        BY <2>1, FS_EmptySet DEF Upto
<1>3. \A i \in 0 .. Len(s) : Upto(s, i) \in Nat
    BY <1>1, FS_CardinalityType DEF Upto
<1>4. ASSUME NEW i \in 1 .. Len(s)
      PROVE  Upto(s, i) = IF i \in K THEN Upto(s, i - 1) + 1 ELSE Upto(s, i - 1)
    <2>1. i - 1 \in 0 .. Len(s) /\ IsFiniteSet(K \cap 1 .. i - 1)
        BY <1>0, <1>1
    <2>2. CASE i \in K
        <3>1. K \cap 1 .. i = (K \cap 1 .. i - 1) \cup {i} /\ i \notin K \cap 1 .. i - 1
            BY <2>2, <1>0
        <3> HIDE DEF K
        <3>2. Cardinality((K \cap 1 .. i - 1) \cup {i}) = Cardinality(K \cap 1 .. i - 1) + 1
            BY <2>1, <3>1, FS_AddElement
        <3> QED
            BY <2>2, <3>1, <3>2 DEF Upto, K
    <2>3. CASE i \notin K
        <3>1. K \cap 1 .. i = K \cap 1 .. i - 1
            BY <2>3, <1>0
        <3> QED
            BY <2>3, <3>1 DEF Upto
    <2> QED
        BY <2>2, <2>3
<1> QED
    BY <1>2, <1>3, <1>4

\* Every rank is the rank of an accepted line.
LEMMA RankTaken ==
    ASSUME NEW s \in Seq(InstructionType), NEW k \in 1 .. Upto(s, Len(s))
    PROVE  \E i \in Accepted(s) : Upto(s, i) = k
<1> DEFINE T == {i \in 0 .. Len(s) : Upto(s, i) >= k}
<1>0. Len(s) \in Nat /\ Upto(s, Len(s)) \in Nat /\ k \in Nat /\ k > 0
    BY UptoGrows
<1>1. T \in SUBSET Nat /\ Len(s) \in T
    BY <1>0
<1>2. PICK m \in T : \A x \in T : m <= x
    <2> DEFINE R == OpToRel(<, Nat)
    <2>1. IsWellFoundedOn(R, Nat)
        BY NatLessThanWellFounded
    <2> HIDE DEF T
    <2>2. PICK m \in T : \A x \in T : ~(<<x, m>> \in R)
        BY <1>1, <2>1, WFMin
    <2>3. \A x \in T : ~(x < m)
        BY <1>1, <2>2 DEF OpToRel
    <2> QED
        BY <1>1, <2>3
<1>3. m \in 1 .. Len(s)
    BY <1>0, UptoGrows
<1>4. m - 1 \in 0 .. Len(s) /\ m - 1 \notin T
    BY <1>0, <1>2, <1>3
<1>5. Upto(s, m - 1) < k /\ Upto(s, m - 1) \in Nat /\ Upto(s, m) \in Nat
    BY <1>0, <1>3, <1>4, UptoGrows
<1>6. m \in Accepted(s) /\ Upto(s, m) = Upto(s, m - 1) + 1
    BY <1>3, <1>5, UptoGrows
<1> QED
    BY <1>0, <1>5, <1>6

\* assemble keeps only lines that parse.
LEMMA LinesParse ==
    ASSUME NEW s \in Seq(InstructionType)
    PROVE  /\ Lines(s) \in Seq(InstructionType)
           /\ Len(Lines(s)) \in Nat /\ Len(Lines(s)) = Upto(s, Len(s))
           /\ DOMAIN Lines(s) = 1 .. Len(Lines(s))
           /\ \A k \in DOMAIN Lines(s) : Lines(s)[k] \in InstructionType /\ Parses(Lines(s)[k])
<1> DEFINE n == Upto(s, Len(s))
           At(k) == CHOOSE i \in Accepted(s) : Upto(s, i) = k
<1>1. n \in Nat
    BY UptoGrows
<1>2. \A k \in 1 .. n : At(k) \in Accepted(s)
    BY RankTaken
<1>3. \A i \in Accepted(s) : s[i] \in InstructionType /\ Parses(s[i])
    BY DEF Accepted
<1>4. Lines(s) = [k \in 1 .. n |-> s[At(k)]]
    BY DEF Lines
<1> HIDE DEF n, At
<1>5. \A k \in 1 .. n : s[At(k)] \in InstructionType /\ Parses(s[At(k)])
    BY <1>2, <1>3
<1>6. Lines(s) \in Seq(InstructionType) /\ Len(Lines(s)) = n
    BY <1>1, <1>4, <1>5
<1> QED
    BY <1>1, <1>4, <1>5, <1>6 DEF n

Offsets == 0 .. PageWords - 1

CpuRecords ==
    [regs : [Regs -> 0 .. U64 - 1], pc : Nat, zero : BOOLEAN, halted : BOOLEAN,
     trap : BOOLEAN, pid : Nat]

\* Every page is absent or has all its words.
Shaped(sp) ==
    /\ sp = [v \in PageSpace |-> sp[v]]
    /\ \A v \in PageSpace : sp[v] # <<>> => sp[v] \in [Offsets -> Words]

\* Where the program was loaded its words are still there.
Kept(s, sp) ==
    \A v \in PageSpace, w \in Offsets :
        sp[v] # <<>> /\ v * PageWords + w \in CodeWords(s) =>
            sp[v][w] = Assemble(s)[v * PageWords + w]

\* A page of the program that is absent was swapped out, and nothing is mapped there.
CodeEvicted ==
    \A v \in PageSpace : v * PageWords \in CodeWords(source) /\ space[v] = <<>> => v \in evicted

CpuInv ==
    /\ source \in Sources
    /\ intact => cpu \in CpuRecords /\ Shaped(space) /\ Kept(source, space) /\ CodeEvicted

\* A word is a header or a value of 32 bits.
LEMMA WordCases ==
    /\ \A n \in 0 .. U32 - 1 : <<n>> \in Words
    /\ \A o \in Mnemonics \cup {""}, d \in Nat, t \in {"reg", "imm"} : <<o, d, t>> \in Words
    /\ \A x \in Words :
         \/ \E o \in Mnemonics \cup {""}, d \in Nat, t \in {"reg", "imm"} : x = <<o, d, t>>
         \/ \E n \in 0 .. U32 - 1 : x = <<n>>
<1> DEFINE O == Mnemonics \cup {""}
           T == {"reg", "imm"}
           N == 0 .. U32 - 1
           H == O \X Nat \X T
<1>1. Words = {<<n>> : n \in N} \cup H
    BY DEF Words
<1> HIDE DEF O, T, N
<1>2. \A o \in O, d \in Nat, t \in T : <<o, d, t>> \in H
    OBVIOUS
<1>3. \A x \in H : \E o \in O, d \in Nat, t \in T : x = <<o, d, t>>
    OBVIOUS
<1> HIDE DEF H
<1>4. /\ \A n \in N : <<n>> \in Words
      /\ \A o \in O, d \in Nat, t \in T : <<o, d, t>> \in Words
      /\ \A x \in Words : (\E o \in O, d \in Nat, t \in T : x = <<o, d, t>>) \/ \E n \in N : x = <<n>>
    BY <1>1, <1>2, <1>3, Zenon
<1> QED
    BY <1>4 DEF O, T, N

LEMMA HeaderLong == \A o, d, t : Len(<<o, d, t>>) # 1
    OBVIOUS

\* An instruction is its header and its value, one after the other (encode).
LEMMA AssembleWords ==
    ASSUME NEW s \in Seq(InstructionType), NEW k \in DOMAIN Lines(s)
    PROVE  /\ 2 * k - 2 \in CodeWords(s) /\ 2 * k - 1 \in CodeWords(s)
           /\ Assemble(s)[2 * k - 2] = <<Lines(s)[k].op, Lines(s)[k].dst, Lines(s)[k].type>>
           /\ Assemble(s)[2 * k - 1] = <<Lines(s)[k].value % U32>>
<1> DEFINE L == Lines(s)
<1>1. Len(L) \in Nat /\ k \in 1 .. Len(L)
    BY LinesParse
<1>2. 2 * k - 2 \in CodeWords(s) /\ 2 * k - 1 \in CodeWords(s)
    BY <1>1 DEF CodeWords
<1>3. (2 * k - 2) \div 2 + 1 = k /\ (2 * k - 2) % 2 = 0
    BY <1>1
<1>4. (2 * k - 1) \div 2 + 1 = k /\ (2 * k - 1) % 2 = 1
    BY <1>1
<1>5. Assemble(s)[2 * k - 2] = Encode(L[k])[1]
    BY <1>2, <1>3 DEF Assemble
<1>6. Assemble(s)[2 * k - 1] = Encode(L[k])[2]
    BY <1>2, <1>4 DEF Assemble
<1> QED
    BY <1>2, <1>5, <1>6 DEF Encode

\* What the MMU reads where the program was loaded.
LEMMA CodeWord ==
    ASSUME CpuInv, intact, NEW a \in CodeWords(source), Present(a)
    PROVE  WordAt(a) = Assemble(source)[a]
<1>1. a \in Nat
    BY DEF CodeWords
<1> DEFINE v == PageOf(a)
           w == a % PageWords
<1>2. v \in PageSpace /\ space[v] # <<>>
    BY DEF Present
<1>3. w \in Offsets /\ a = v * PageWords + w
    BY <1>1, AddressSplit DEF Offsets
<1>4. WordAt(a) = space[v][w]
    BY DEF WordAt
<1> HIDE DEF v, w
<1>5. space[v][w] = Assemble(source)[v * PageWords + w]
    BY <1>2, <1>3 DEF CpuInv, Kept
<1> QED
    BY <1>3, <1>4, <1>5

\* What encode makes of a line is words.
LEMMA AssembleTyped ==
    ASSUME NEW s \in Seq(InstructionType), NEW a \in CodeWords(s)
    PROVE  Assemble(s)[a] \in Words
<1>0. U32 \in Nat \ {0}
    BY CpuAssumption
<1>1. a \in 0 .. 2 * Len(Lines(s)) - 1 /\ Len(Lines(s)) \in Nat
    BY LinesParse DEF CodeWords
<1>2. PICK k \in 1 .. Len(Lines(s)) : a = 2 * k - 2 \/ a = 2 * k - 1
    <2>1. a \div 2 + 1 \in 1 .. Len(Lines(s))
        BY <1>1
    <2>2. a = 2 * (a \div 2 + 1) - 2 \/ a = 2 * (a \div 2 + 1) - 1
        BY <1>1
    <2> QED
        BY <2>1, <2>2
<1> DEFINE l == Lines(s)[k]
           n == l.value % U32
<1>3. l \in InstructionType /\ k \in DOMAIN Lines(s)
    BY LinesParse
<1>4. Assemble(s)[a] = <<l.op, l.dst, l.type>> \/ Assemble(s)[a] = <<n>>
    BY <1>2, <1>3, AssembleWords
<1> HIDE DEF l
<1>5. l.op \in Mnemonics \cup {""} /\ l.dst \in Nat /\ l.type \in {"reg", "imm"}
    BY <1>3 DEF InstructionType
<1>6. n \in 0 .. U32 - 1
    <2> DEFINE v == l.value
    <2>1. v \in Nat
        BY <1>3 DEF InstructionType
    <2> HIDE DEF v
    <2>2. v % U32 \in 0 .. U32 - 1
        BY <1>0, <2>1
    <2> QED
        BY <2>2 DEF v
<1> DEFINE x == l.op
           y == l.dst
           z == l.type
<1>7. <<x, y, z>> \in Words
    <2>1. x \in Mnemonics \cup {""} /\ y \in Nat /\ z \in {"reg", "imm"}
        BY <1>5
    <2> HIDE DEF x, y, z
    <2> QED
        BY <2>1, WordCases
<1> HIDE DEF n
<1>8. <<n>> \in Words
    BY <1>6, WordCases
<1> QED
    BY <1>4, <1>7, <1>8

\* The line at the pc, as it comes out of memory: its value cut to 32 bits.
AtPc == LET l == Lines(source)[LineNo] IN Line(l.op, l.dst, l.type, l.value % U32)

\* fetch_instruction reads the line at the pc.
LEMMA FetchLine ==
    ASSUME CpuInv, intact, Fetchable(cpu.pc), cpu.pc % 2 = 0, LineNo \in DOMAIN Lines(source)
    PROVE  Fetches(cpu.pc) = {AtPc}
<1>1. cpu.pc \in Nat /\ source \in Seq(InstructionType)
    BY SourcesAssumption DEF CpuInv, CpuRecords
<1> DEFINE k == LineNo
           l == Lines(source)[k]
<1>2. k \in 1 .. Len(Lines(source)) /\ Len(Lines(source)) \in Nat
    BY <1>1, LinesParse
<1>3. cpu.pc = 2 * k - 2 /\ cpu.pc + 1 = 2 * k - 1
    BY <1>1 DEF LineNo
<1> HIDE DEF k
<1>4. /\ cpu.pc \in CodeWords(source) /\ cpu.pc + 1 \in CodeWords(source)
      /\ Assemble(source)[cpu.pc] = <<l.op, l.dst, l.type>>
      /\ Assemble(source)[cpu.pc + 1] = <<l.value % U32>>
    <2>1. k \in DOMAIN Lines(source)
        BY DEF k
    <2> QED
        BY <1>1, <1>3, <2>1, AssembleWords
<1> DEFINE x == l.op
           y == l.dst
           z == l.type
           n == l.value % U32
<1>5. WordAt(cpu.pc) = <<x, y, z>> /\ WordAt(cpu.pc + 1) = <<n>>
    BY <1>4, CodeWord DEF Fetchable
<1>6. AtPc = Line(x, y, z, n)
    BY DEF AtPc, k
<1> HIDE DEF x, y, z, n
<1>7. Fetches(cpu.pc) = {Line(x, y, z, n)}
    BY <1>5 DEF Fetches
<1> QED
    BY <1>6, <1>7

\* Where nothing was written there is no instruction.
LEMMA FetchNothing ==
    ASSUME NEW pc, WordAt(pc) = << 0 >>
    PROVE  Fetches(pc) = {Junk} /\ ~Decodes(Junk)
<1>1. Fetches(pc) = {Junk}
    BY DEF Fetches
<1>2. ~Decodes(Junk)
    BY DEF Decodes, Parses, Junk, Line, Mnemonics, Arithmetic, Memory, Jumps
<1> QED
    BY <1>1, <1>2

\* A line is typed if its parts are.
LEMMA LineTyped ==
    ASSUME NEW o \in Mnemonics \cup {""}, NEW d \in Nat, NEW t \in {"reg", "imm"}, NEW v \in Nat
    PROVE  Line(o, d, t, v) \in InstructionType
    BY DEF Line, InstructionType

\* Every word the program may read is a header or a value of 32 bits.
LEMMA WordShape ==
    ASSUME CpuInv, intact, NEW a \in Nat, Present(a)
    PROVE  \/ \E o \in Mnemonics \cup {""}, d \in Nat, t \in {"reg", "imm"} :
                  WordAt(a) = <<o, d, t>>
           \/ \E n \in 0 .. U32 - 1 : WordAt(a) = <<n>>
<1> DEFINE v == PageOf(a)
           w == a % PageWords
<1>1. v \in PageSpace /\ space[v] # <<>>
    BY DEF Present
<1>2. w \in Offsets
    BY AddressSplit DEF Offsets
<1>3. WordAt(a) = space[v][w]
    BY DEF WordAt
<1> HIDE DEF v, w
<1>4. space[v] \in [Offsets -> Words]
    BY <1>1 DEF CpuInv, Shaped
<1>5. WordAt(a) \in Words
    BY <1>2, <1>3, <1>4
<1> QED
    BY <1>5, WordCases

\* What is fetched is an instruction with a value of 32 bits.
LEMMA FetchTyped ==
    ASSUME CpuInv, intact, Fetchable(cpu.pc), NEW i \in Fetches(cpu.pc)
    PROVE  i \in InstructionType /\ i.value \in 0 .. U32 - 1
<1>0. cpu.pc \in Nat /\ U32 \in Nat \ {0}
    BY CpuAssumption DEF CpuInv, CpuRecords
<1> DEFINE h == WordAt(cpu.pc)
           n == WordAt(cpu.pc + 1)
<1>1. CASE Len(h) = 3 /\ Len(n) = 1
    <2>1. i = Line(h[1], h[2], h[3], n[1])
        BY <1>1 DEF Fetches
    <2>2. /\ \/ \E o \in Mnemonics \cup {""}, d \in Nat, t \in {"reg", "imm"} : h = <<o, d, t>>
             \/ \E m \in 0 .. U32 - 1 : h = <<m>>
          /\ \/ \E o \in Mnemonics \cup {""}, d \in Nat, t \in {"reg", "imm"} : n = <<o, d, t>>
             \/ \E m \in 0 .. U32 - 1 : n = <<m>>
        <3>1. Present(cpu.pc) /\ Present(cpu.pc + 1) /\ cpu.pc + 1 \in Nat
            BY <1>0 DEF Fetchable
        <3> QED
            BY <1>0, <3>1, WordShape
    <2> HIDE DEF h, n
    <2>3. h[1] \in Mnemonics \cup {""} /\ h[2] \in Nat /\ h[3] \in {"reg", "imm"}
        <3>1. \A m : h # <<m>>
            BY <1>1
        <3>2. PICK o \in Mnemonics \cup {""}, d \in Nat, t \in {"reg", "imm"} : h = <<o, d, t>>
            BY <2>2, <3>1
        <3> QED
            BY <3>2
    <2>4. n[1] \in 0 .. U32 - 1
        <3>1. \A o, d, t : n # <<o, d, t>>
            BY <1>1
        <3>2. PICK m \in 0 .. U32 - 1 : n = <<m>>
            BY <2>2, <3>1
        <3> QED
            BY <3>2
    <2>5. n[1] \in Nat
        BY <2>4, <1>0
    <2>6. i \in InstructionType
        BY <2>1, <2>3, <2>5, LineTyped
    <2>7. i.value = n[1]
        BY <2>1 DEF Line
    <2> QED
        BY <2>4, <2>6, <2>7
<1>2. CASE h = <<0>>
    <2>1. i = Junk
        BY <1>2, FetchNothing
    <2>2. Junk \in InstructionType /\ Junk.value = 0
        BY DEF Junk, Line, InstructionType
    <2> QED
        BY <2>1, <2>2, <1>0
<1>3. CASE ~(Len(h) = 3 /\ Len(n) = 1) /\ h # <<0>>
    <2>1. i \in Stray
        BY <1>3 DEF Fetches
    <2>2. i \in InstructionType /\ i.value < U32
        BY <2>1, SourcesAssumption
    <2>3. i.value \in Nat
        BY <2>2 DEF InstructionType
    <2> QED
        BY <2>2, <2>3, <1>0
<1> QED
    BY <1>1, <1>2, <1>3

\* The operand of an instruction that has one is a number of 64 bits.
LEMMA OperandTyped ==
    ASSUME NEW c \in CpuRecords, NEW i \in InstructionType, Decodes(i),
           i.op \in Arithmetic \cup Memory, i.value \in 0 .. U32 - 1
    PROVE  i.dst \in Regs /\ Operand(c, i) \in 0 .. U64 - 1
<1>1. i.dst \in Regs /\ (i.type = "reg" => i.value \in Regs)
    BY DEF Decodes, Parses
<1>2. c.regs \in [Regs -> 0 .. U64 - 1]
    BY DEF CpuRecords
<1>3. 0 .. U32 - 1 \subseteq 0 .. U64 - 1
    BY CpuAssumption
<1> QED
    BY <1>1, <1>2, <1>3 DEF Operand

\* execute_instruction: the machine's arithmetic, with the wrap written out.
LEMMA ResultIs ==
    ASSUME NEW op \in Arithmetic, NEW a \in 0 .. U64 - 1, NEW b \in 0 .. U64 - 1,
           ~(op = "DIV" /\ b = 0)
    PROVE  /\ Result(op, a, b) \in 0 .. U64 - 1
           /\ op = "MOV" => Result(op, a, b) = b
           /\ op = "ADD" => Result(op, a, b) = IF a + b < U64 THEN a + b ELSE a + b - U64
           /\ op \in {"SUB", "CMP"} =>
                Result(op, a, b) = IF a >= b THEN a - b ELSE U64 + a - b
           /\ op = "MUL" => Result(op, a, b) = (a * b) % U64
           /\ op = "DIV" => Result(op, a, b) = a \div b
<1>0. U64 \in Nat \ {0} /\ a \in Nat /\ b \in Nat
    BY CpuAssumption
<1>1. CASE op = "MOV"
    <2>1. Result(op, a, b) = b
        BY <1>1 DEF Result
    <2> QED
        BY <1>1, <2>1
<1>2. CASE op = "ADD"
    <2>1. Result(op, a, b) = (a + b) % U64
        BY <1>2 DEF Result
    <2>2. /\ (a + b) % U64 \in 0 .. U64 - 1
          /\ (a + b) % U64 = IF a + b < U64 THEN a + b ELSE a + b - U64
        <3>1. a + b \in 0 .. U64 - 1 \/ a + b \in U64 .. 2 * U64 - 1
            BY <1>0
        <3> DEFINE x == a + b
        <3>2. x \in Int
            BY <1>0
        <3> HIDE DEF x
        <3>3. /\ x \in 0 .. U64 - 1 => x % U64 = x
              /\ x \in U64 .. 2 * U64 - 1 => x % U64 = x - U64
              /\ x % U64 \in 0 .. U64 - 1
            BY <1>0, <3>2, WrapOnce
        <3> USE DEF x
        <3> QED
            BY <1>0, <3>1, <3>3
    <2> QED
        BY <1>2, <2>1, <2>2
<1>3. CASE op \in {"SUB", "CMP"}
    <2>1. Result(op, a, b) = (a - b) % U64
        BY <1>3 DEF Result
    <2>2. /\ (a - b) % U64 \in 0 .. U64 - 1
          /\ (a - b) % U64 = IF a >= b THEN a - b ELSE U64 + a - b
        <3>1. a - b \in 0 .. U64 - 1 \/ a - b \in 0 - U64 .. 0 - 1
            BY <1>0
        <3>2. a - b \in Int
            BY <1>0
        <3>3. /\ a - b \in 0 .. U64 - 1 => (a - b) % U64 = a - b
              /\ a - b \in 0 - U64 .. 0 - 1 => (a - b) % U64 = a - b + U64
              /\ (a - b) % U64 \in 0 .. U64 - 1
            BY <1>0, <3>2, WrapOnce
        <3> QED
            BY <1>0, <3>1, <3>3
    <2> QED
        BY <1>3, <2>1, <2>2
<1>4. CASE op = "MUL"
    <2>1. Result(op, a, b) = (a * b) % U64
        BY <1>4 DEF Result
    <2>2. (a * b) % U64 \in 0 .. U64 - 1
        <3>1. a * b \in Int
            BY <1>0
        <3> QED
            BY <1>0, <3>1, WrapOnce
    <2> QED
        BY <1>4, <2>1, <2>2
<1>5. CASE op = "DIV"
    <2>1. Result(op, a, b) = a \div b
        BY <1>5 DEF Result
    <2>2. b \in Nat \ {0}
        BY <1>0, <1>5
    <2>3. a \div b \in Nat /\ a \div b <= a
        BY <1>0, <2>2, QuotientSmaller
    <2>4. a \div b \in 0 .. U64 - 1
        BY <1>0, <2>3
    <2> QED
        BY <1>5, <2>1, <2>4
<1> QED
    BY <1>1, <1>2, <1>3, <1>4, <1>5 DEF Arithmetic

\* A CPU with the pc moved, and one with a register written, are CPUs.
LEMMA CpuUpdates ==
    ASSUME NEW c \in CpuRecords
    PROVE  /\ Advanced(c) \in CpuRecords
           /\ Advanced(c).regs = c.regs /\ Advanced(c).pc = c.pc + 2
           /\ Advanced(c).zero = c.zero /\ Advanced(c).halted = c.halted
           /\ Advanced(c).trap = c.trap /\ Advanced(c).pid = c.pid
           /\ \A r \in Regs, x \in 0 .. U64 - 1 :
                LET d == [c EXCEPT !.regs[r] = x]
                IN  /\ d \in CpuRecords /\ d.regs = [c.regs EXCEPT ![r] = x] /\ d.pc = c.pc
                    /\ d.zero = c.zero /\ d.halted = c.halted /\ d.trap = c.trap /\ d.pid = c.pid
<1>1. /\ Advanced(c) \in CpuRecords
      /\ Advanced(c).regs = c.regs /\ Advanced(c).pc = c.pc + 2
      /\ Advanced(c).zero = c.zero /\ Advanced(c).halted = c.halted
      /\ Advanced(c).trap = c.trap /\ Advanced(c).pid = c.pid
    BY DEF Advanced, CpuRecords
<1>2. ASSUME NEW r \in Regs, NEW x \in 0 .. U64 - 1
      PROVE  LET d == [c EXCEPT !.regs[r] = x]
             IN  /\ d \in CpuRecords /\ d.regs = [c.regs EXCEPT ![r] = x] /\ d.pc = c.pc
                 /\ d.zero = c.zero /\ d.halted = c.halted /\ d.trap = c.trap /\ d.pid = c.pid
    BY DEF CpuRecords
<1> QED
    BY <1>1, <1>2

\* The arithmetic instructions: a register, the flags, or both.
LEMMA ComputedIs ==
    ASSUME NEW c \in CpuRecords, NEW i \in InstructionType, Decodes(i), i.op \in Arithmetic,
           i.value \in 0 .. U32 - 1, ~Divides(c, i)
    PROVE  LET r == Result(i.op, c.regs[i.dst], Operand(c, i))
               d == Computed(c, i)
           IN  /\ d \in CpuRecords /\ r \in 0 .. U64 - 1
               /\ d.regs = IF i.op = "CMP" THEN c.regs ELSE [c.regs EXCEPT ![i.dst] = r]
               /\ d.zero = IF i.op = "MOV" THEN c.zero ELSE r = 0
               /\ d.pc = c.pc /\ d.halted = c.halted /\ d.trap = c.trap /\ d.pid = c.pid
<1> DEFINE r == Result(i.op, c.regs[i.dst], Operand(c, i))
           k == i.dst
           o == i.op
<1>1. k \in Regs /\ Operand(c, i) \in 0 .. U64 - 1
    BY OperandTyped
<1>2. c.regs \in [Regs -> 0 .. U64 - 1]
    BY DEF CpuRecords
<1>3. r \in 0 .. U64 - 1
    <2>1. c.regs[k] \in 0 .. U64 - 1
        BY <1>1, <1>2
    <2> QED
        BY <1>1, <2>1, ResultIs DEF Divides
<1>4. Computed(c, i) = [c EXCEPT !.regs[k] = IF o = "CMP" THEN @ ELSE r,
                                 !.zero = IF o = "MOV" THEN @ ELSE IsZero(r)]
    BY DEF Computed
<1> DEFINE x == IF o = "CMP" THEN c.regs[k] ELSE r
           z == IF o = "MOV" THEN c.zero ELSE r = 0
<1>5. Computed(c, i) = [c EXCEPT !.regs[k] = x, !.zero = z]
    BY <1>4 DEF IsZero
<1>6. x \in 0 .. U64 - 1 /\ z \in BOOLEAN
    BY <1>1, <1>2, <1>3 DEF CpuRecords
<1>7. [c.regs EXCEPT ![k] = x] = IF o = "CMP" THEN c.regs ELSE [c.regs EXCEPT ![k] = r]
    BY <1>1, <1>2
<1>8. k \in Regs
    BY <1>1
<1> HIDE DEF k, x, z, r, o
<1>9. LET d == [c EXCEPT !.regs[k] = x, !.zero = z]
      IN  /\ d \in CpuRecords /\ d.regs = [c.regs EXCEPT ![k] = x] /\ d.zero = z
          /\ d.pc = c.pc /\ d.halted = c.halted /\ d.trap = c.trap /\ d.pid = c.pid
    BY <1>6, <1>8 DEF CpuRecords
<1> QED
    BY <1>3, <1>5, <1>7, <1>9 DEF k, x, z, r, o

\* A conditional or unconditional jump moves the pc or does nothing.
LEMMA JumpedIs ==
    ASSUME NEW c \in CpuRecords, NEW i \in InstructionType
    PROVE  LET taken == i.op = "JMP" \/ (i.op = "JZ" /\ c.zero) \/ (i.op = "JNZ" /\ ~c.zero)
               d == Jumped(c, i)
           IN  /\ d \in CpuRecords /\ d.pc = IF taken THEN i.value ELSE c.pc
               /\ d.regs = c.regs /\ d.zero = c.zero /\ d.halted = c.halted /\ d.trap = c.trap /\ d.pid = c.pid
<1> DEFINE n == i.value
           d == [c EXCEPT !.pc = n]
<1>1. n \in Nat
    BY DEF InstructionType
<1>2. Jumped(c, i) = IF i.op = "JMP" \/ (i.op = "JZ" /\ c.zero) \/ (i.op = "JNZ" /\ ~c.zero)
                     THEN d ELSE c
    BY DEF Jumped
<1> HIDE DEF n
<1>3. /\ d \in CpuRecords /\ d.pc = n
      /\ d.regs = c.regs /\ d.zero = c.zero /\ d.halted = c.halted /\ d.trap = c.trap /\ d.pid = c.pid
    BY <1>1 DEF CpuRecords
<1> HIDE DEF d
<1> QED
    BY <1>2, <1>3 DEF n

\* INT leaves a system call pending, HALT stops the CPU.
LEMMA FlaggedIs ==
    ASSUME NEW c \in CpuRecords, NEW b \in BOOLEAN
    PROVE  /\ LET d == [c EXCEPT !.trap = b]
              IN  /\ d \in CpuRecords /\ d.trap = b /\ d.pc = c.pc
                  /\ d.regs = c.regs /\ d.zero = c.zero /\ d.halted = c.halted /\ d.pid = c.pid
           /\ LET d == [c EXCEPT !.halted = b]
              IN  /\ d \in CpuRecords /\ d.halted = b /\ d.pc = c.pc
                  /\ d.regs = c.regs /\ d.zero = c.zero /\ d.trap = c.trap /\ d.pid = c.pid
    BY DEF CpuRecords

\* What a read returns is a byte.
LEMMA ByteRead ==
    ASSUME CpuInv, intact, NEW a \in Nat, Present(a), NEW x \in BytesAt(a)
    PROVE  x \in 0 .. U8 - 1
<1>0. U8 \in Nat \ {0}
    BY CpuAssumption
<1> DEFINE h == WordAt(a)
<1>1. CASE Len(h) = 1
    <2>1. \/ \E o \in Mnemonics \cup {""}, d \in Nat, t \in {"reg", "imm"} : h = <<o, d, t>>
          \/ \E n \in 0 .. U32 - 1 : h = <<n>>
        BY WordShape
    <2>2. x = h[1] % U8
        BY <1>1 DEF BytesAt
    <2> HIDE DEF h
    <2>3. \A o, d, t : h # <<o, d, t>>
        BY <1>1
    <2>4. PICK n \in 0 .. U32 - 1 : h = <<n>>
        BY <2>1, <2>3
    <2>5. x = n % U8
        BY <2>2, <2>4
    <2> QED
        BY <2>5, <1>0, CpuAssumption
<1>2. CASE Len(h) # 1
    BY <1>0, <1>2 DEF BytesAt
<1> QED
    BY <1>1, <1>2

\* A page with words is not the absent page.
LEMMA PageThere ==
    ASSUME NEW f, DOMAIN f = Offsets
    PROVE  f # <<>>
<1>1. 0 \in DOMAIN f /\ 0 \notin DOMAIN <<>>
    BY CpuAssumption DEF Offsets
<1> QED
    BY <1>1

\* A text that spares the program leaves the program's words alone.
LEMMA FilledKeeps ==
    ASSUME NEW s, NEW sp, Shaped(sp), Kept(s, sp), NEW from \in Nat, NEW t \in Texts,
           Spares(s, from, t)
    PROVE  /\ Shaped(Filled(sp, from, t)) /\ Kept(s, Filled(sp, from, t))
           /\ \A v \in PageSpace : Filled(sp, from, t)[v] = <<>> <=> sp[v] = <<>>
<1> DEFINE f == Filled(sp, from, t)
           Page(v) == [w \in 0 .. PageWords - 1 |->
                         IF v * PageWords + w \in Span(from, t)
                         THEN <<t[(v * PageWords + w) - from + 1]>> ELSE sp[v][w]]
<1>1. f = [v \in PageSpace |-> IF sp[v] = <<>> THEN <<>> ELSE Page(v)]
    BY DEF Filled
<1>2. /\ f = [v \in PageSpace |-> f[v]]
      /\ \A v \in PageSpace : f[v] = IF sp[v] = <<>> THEN <<>> ELSE Page(v)
    BY <1>1
<1>3. /\ \A v : DOMAIN Page(v) = Offsets
      /\ \A v \in PageSpace, w \in Offsets :
            Page(v)[w] = IF v * PageWords + w \in Span(from, t)
                         THEN <<t[(v * PageWords + w) - from + 1]>> ELSE sp[v][w]
    BY DEF Offsets
<1>4. \A v \in PageSpace : sp[v] # <<>> => sp[v] \in [Offsets -> Words]
    BY DEF Shaped
<1>5. \A a \in Span(from, t) : <<t[a - from + 1]>> \in Words
    <2> SUFFICES ASSUME NEW a \in Span(from, t) PROVE <<t[a - from + 1]>> \in Words
        OBVIOUS
    <2>1. t \in Seq(0 .. U32 - 1)
        BY DataAssumption
    <2> DEFINE i == a - from + 1
    <2>2. i \in 1 .. Len(t)
        BY <2>1 DEF Span
    <2> DEFINE N == 0 .. U32 - 1
    <2>a. t \in Seq(N)
        BY <2>1
    <2> HIDE DEF i, N
    <2>b. t[i] \in N
        BY <2>a, <2>2
    <2>3. t[i] \in 0 .. U32 - 1
        BY <2>b DEF N
    <2>4. <<t[i]>> \in Words
        BY <2>3, WordCases
    <2> QED
        BY <2>4 DEF i
<1> HIDE DEF Page, f
<1>6. \A v \in PageSpace : sp[v] # <<>> =>
         \A w \in Offsets : Page(v)[w] \in Words
    <2> SUFFICES ASSUME NEW v \in PageSpace, sp[v] # <<>>, NEW w \in Offsets
                 PROVE  Page(v)[w] \in Words
        OBVIOUS
    <2> DEFINE a == v * PageWords + w
    <2>1. Page(v)[w] = IF a \in Span(from, t) THEN <<t[a - from + 1]>> ELSE sp[v][w]
        BY <1>3
    <2>2. sp[v][w] \in Words
        BY <1>4
    <2> HIDE DEF a
    <2> QED
        BY <1>5, <2>1, <2>2
<1>7. \A v \in PageSpace : Page(v) # <<>>
    BY <1>3, PageThere
<1>8. \A v : Page(v) = [w \in Offsets |-> Page(v)[w]]
    BY DEF Page, Offsets
<1>9. \A v \in PageSpace : sp[v] # <<>> => Page(v) \in [Offsets -> Words]
    BY <1>6, <1>8
<1>10. Shaped(f)
    BY <1>2, <1>9 DEF Shaped
<1>11. Kept(s, f)
    <2> SUFFICES ASSUME NEW v \in PageSpace, NEW w \in Offsets,
                        f[v] # <<>>, v * PageWords + w \in CodeWords(s)
                 PROVE  f[v][w] = Assemble(s)[v * PageWords + w]
        BY DEF Kept
    <2>1. v * PageWords + w \notin Span(from, t)
        BY DEF Spares
    <2>2. f[v] = Page(v) /\ sp[v] # <<>>
        BY <1>2
    <2>3. f[v][w] = sp[v][w]
        BY <1>3, <2>1, <2>2
    <2> QED
        BY <2>2, <2>3 DEF Kept
<1> QED
    BY <1>2, <1>7, <1>10, <1>11 DEF f

\* The frames exec_impl got, with the code in them.
LEMMA CodeLoaded ==
    ASSUME NEW s \in Seq(InstructionType), NEW old \in [PageSpace -> OldPages]
    PROVE  /\ Shaped(Code(s, old)) /\ Kept(s, Code(s, old))
           /\ \A v \in PageSpace : v * PageWords \in CodeWords(s) => Code(s, old)[v] # <<>>
<1> DEFINE n == 2 * Len(Lines(s))
           f == Code(s, old)
           Page(v) == [w \in 0 .. PageWords - 1 |->
                         IF v * PageWords + w < n THEN Assemble(s)[v * PageWords + w]
                         ELSE old[v][w]]
<1>0. n \in Nat /\ PageWords \in Nat \ {0} /\ NPages \in Nat
    BY LinesParse, CpuAssumption
<1>1. f = [v \in PageSpace |-> IF v * PageWords >= n THEN <<>> ELSE Page(v)]
    BY DEF Code
<1>2. /\ f = [v \in PageSpace |-> f[v]]
      /\ \A v \in PageSpace : f[v] = IF v * PageWords >= n THEN <<>> ELSE Page(v)
    BY <1>1
<1>3. /\ \A v : DOMAIN Page(v) = Offsets /\ Page(v) = [w \in Offsets |-> Page(v)[w]]
      /\ \A v, w : w \in Offsets => Page(v)[w] = IF v * PageWords + w < n
                                              THEN Assemble(s)[v * PageWords + w]
                                              ELSE old[v][w]
    BY DEF Offsets
<1>4. CodeWords(s) = 0 .. n - 1
    BY DEF CodeWords
<1>5. \A a \in 0 .. n - 1 : Assemble(s)[a] \in Words
    BY <1>4, AssembleTyped
<1>6. \A v \in PageSpace : old[v] \in [Offsets -> Words]
    BY DataAssumption DEF Offsets
<1>7. \A v \in PageSpace, w \in Offsets : v * PageWords + w \in Nat
    BY <1>0 DEF PageSpace, Offsets
<1> HIDE DEF Page, f, n
<1>8. \A v \in PageSpace, w \in Offsets : Page(v)[w] \in Words
    <2> SUFFICES ASSUME NEW v \in PageSpace, NEW w \in Offsets PROVE Page(v)[w] \in Words
        OBVIOUS
    <2> DEFINE a == v * PageWords + w
    <2>1. a \in Nat /\ Page(v)[w] = IF a < n THEN Assemble(s)[a] ELSE old[v][w]
        BY <1>3, <1>7
    <2> HIDE DEF a
    <2>2. a < n => a \in 0 .. n - 1
        BY <1>0, <2>1
    <2>3. old[v][w] \in Words
        BY <1>6
    <2> QED
        BY <1>5, <2>1, <2>2, <2>3
<1>9. \A v \in PageSpace : Page(v) \in [Offsets -> Words]
    BY <1>3, <1>8
<1>10. Shaped(f)
    BY <1>2, <1>9 DEF Shaped
<1>11. Kept(s, f)
    <2> SUFFICES ASSUME NEW v \in PageSpace, NEW w \in Offsets,
                        f[v] # <<>>, v * PageWords + w \in CodeWords(s)
                 PROVE  f[v][w] = Assemble(s)[v * PageWords + w]
        BY DEF Kept
    <2> DEFINE a == v * PageWords + w
    <2>1. f[v] = Page(v)
        BY <1>2
    <2>2. a \in 0 .. n - 1
        BY <1>4
    <2>3. Page(v)[w] = IF a < n THEN Assemble(s)[a] ELSE old[v][w]
        BY <1>3
    <2> HIDE DEF a
    <2>4. a < n
        BY <1>0, <2>2
    <2> QED
        BY <2>1, <2>3, <2>4 DEF a
<1>12. \A v \in PageSpace : v * PageWords \in CodeWords(s) => f[v] # <<>>
    <2> SUFFICES ASSUME NEW v \in PageSpace, v * PageWords \in CodeWords(s) PROVE f[v] # <<>>
        OBVIOUS
    <2> DEFINE a == v * PageWords
    <2>1. a \in 0 .. n - 1 /\ f[v] = IF a >= n THEN <<>> ELSE Page(v)
        BY <1>2, <1>4
    <2> HIDE DEF a
    <2>2. f[v] = Page(v)
        BY <1>0, <2>1
    <2> QED
        BY <1>3, <2>2, PageThere
<1> QED
    BY <1>10, <1>11, <1>12 DEF f

\* exec_impl: the program as it was loaded.
LEMMA CpuInvInit ==
    ASSUME CpuInit
    PROVE  CpuInv
<1>0. source \in Sources /\ source \in Seq(InstructionType)
    BY SourcesAssumption DEF CpuInit
<1>1. U64 \in Nat \ {0} /\ ArgWord \in Nat /\ BufWord \in Nat
    BY CpuAssumption
<1> SUFFICES ASSUME intact
             PROVE  cpu \in CpuRecords /\ Shaped(space) /\ Kept(source, space) /\ CodeEvicted
    BY <1>0 DEF CpuInv
<1>2. cpu \in CpuRecords
    <2>1. [r \in Regs |-> 0] \in [Regs -> 0 .. U64 - 1]
        BY <1>1
    <2>2. PICK n \in {1, 2} : cpu = NewCpu(n)
        BY DEF CpuInit
    <2>3. n \in Nat
        OBVIOUS
    <2> QED
        BY <2>1, <2>2, <2>3 DEF NewCpu, CpuRecords
<1>3. PICK old \in [PageSpace -> OldPages], x \in Texts, y \in Texts :
         /\ space = Loaded(source, old, x, y)
         /\ Spares(source, ArgWord, x) /\ Spares(source, BufWord, y)
    BY DEF CpuInit
<1> DEFINE f == Code(source, old)
           g == Filled(f, ArgWord, x)
<1>4. /\ Shaped(f) /\ Kept(source, f)
      /\ \A v \in PageSpace : v * PageWords \in CodeWords(source) => f[v] # <<>>
    BY <1>0, CodeLoaded
<1>5. space = Filled(g, BufWord, y)
    BY <1>3 DEF Loaded
<1> HIDE DEF f
<1>6. Shaped(g) /\ Kept(source, g) /\ \A v \in PageSpace : g[v] = <<>> <=> f[v] = <<>>
    BY <1>1, <1>3, <1>4, FilledKeeps
<1> HIDE DEF g
<1>7. /\ Shaped(space) /\ Kept(source, space)
      /\ \A v \in PageSpace : space[v] = <<>> <=> g[v] = <<>>
    BY <1>1, <1>3, <1>5, <1>6, FilledKeeps
<1>8. CodeEvicted
    BY <1>4, <1>6, <1>7 DEF CodeEvicted
<1> QED
    BY <1>2, <1>7, <1>8

\* A value whose lowest byte is replaced is a value.
LEMMA ByteReplaced ==
    ASSUME NEW n \in 0 .. U32 - 1, NEW m \in 0 .. U8 - 1
    PROVE  n - (n % U8) + m \in 0 .. U32 - 1
<1> DEFINE b == U8
           k == U32 \div U8
           q == n \div U8
           r == n % U8
<1>0. b \in Nat \ {0} /\ U32 \in Nat /\ n \in Nat /\ m \in Nat /\ n < U32 /\ m < b
    BY CpuAssumption
<1>1. U32 % b = 0
    BY CpuAssumption
<1>2. U32 = k * b /\ k \in Nat
    BY <1>0, <1>1
<1>3. n = q * b + r /\ q \in Nat /\ r \in Nat
    BY <1>0
<1> HIDE DEF b, k, q, r
<1>4. q < k
    <2> SUFFICES ASSUME k <= q PROVE FALSE
        BY <1>2, <1>3
    <2>1. k * b <= q * b
        BY <1>0, <1>2, <1>3
    <2>2. k * b \in Nat /\ q * b \in Nat
        BY <1>0, <1>2, <1>3
    <2> QED
        BY <1>0, <1>2, <1>3, <2>1, <2>2
<1>5. q * b + b <= k * b
    <2>1. (q + 1) * b <= k * b
        BY <1>0, <1>2, <1>3, <1>4
    <2>2. (q + 1) * b = q * b + b
        BY <1>0, <1>3
    <2> QED
        BY <2>1, <2>2
<1>6. n - r + m \in 0 .. U32 - 1
    <2>1. q * b \in Nat
        BY <1>0, <1>3
    <2> QED
        BY <1>0, <1>2, <1>3, <1>5, <2>1
<1> QED
    BY <1>6 DEF r

\* A STORE outside the program leaves the program's words alone.
LEMMA StoreKeeps ==
    ASSUME CpuInv, intact, NEW a \in Nat, a \notin CodeWords(source), Present(a),
           NEW m \in 0 .. U8 - 1,
           space' = Written(a, m), source' = source, evicted' = evicted
    PROVE  Shaped(space)' /\ Kept(source, space)' /\ CodeEvicted'
<1> DEFINE v == PageOf(a)
           w == a % PageWords
           y == Stored(WordAt(a), m)
<1>1. v \in PageSpace /\ space[v] # <<>> /\ w \in Offsets /\ a = v * PageWords + w
    BY AddressSplit DEF Present, Offsets
<1>a. m \in 0 .. U32 - 1
    <2>1. U8 \in Nat /\ U32 \in Nat /\ U8 <= U32
        BY CpuAssumption
    <2> QED
        BY <2>1
<1>2. y \in Words
    <2> DEFINE h == WordAt(a)
    <2>1. \/ \E o \in Mnemonics \cup {""}, d \in Nat, t \in {"reg", "imm"} : h = <<o, d, t>>
          \/ \E n \in 0 .. U32 - 1 : h = <<n>>
        BY WordShape
    <2> HIDE DEF h
    <2>2. ASSUME NEW o \in Mnemonics \cup {""}, NEW d \in Nat, NEW t \in {"reg", "imm"},
                 h = <<o, d, t>>
          PROVE  Stored(h, m) \in Words
        <3>0. Len(<<o, d, t>>) # 1
            BY HeaderLong
        <3>1. Stored(h, m) = <<m>>
            BY <2>2, <3>0 DEF Stored
        <3> QED
            BY <1>a, <3>1, WordCases
    <2>3. ASSUME NEW n \in 0 .. U32 - 1, h = <<n>>
          PROVE  Stored(h, m) \in Words
        <3> DEFINE z == n - (n % U8) + m
        <3>1. Stored(h, m) = <<z>>
            BY <2>3 DEF Stored
        <3>2. z \in 0 .. U32 - 1
            BY ByteReplaced
        <3> HIDE DEF z
        <3> QED
            BY <3>1, <3>2, WordCases
    <2> QED
        BY <2>1, <2>2, <2>3 DEF h
<1>3. Shaped(space) /\ Kept(source, space) /\ CodeEvicted
    BY DEF CpuInv
<1>4. space' = [space EXCEPT ![v][w] = y]
    BY DEF Written, WordAt
<1> HIDE DEF v, w, y
<1> DEFINE f == [space[v] EXCEPT ![w] = y]
<1>5. space[v] \in [Offsets -> Words] /\ DOMAIN space = PageSpace
    BY <1>1, <1>3 DEF Shaped
<1>6. /\ f \in [Offsets -> Words] /\ DOMAIN f = Offsets
      /\ \A x \in Offsets : f[x] = IF x = w THEN y ELSE space[v][x]
    BY <1>1, <1>2, <1>5
<1>7. space' = [space EXCEPT ![v] = f]
    BY <1>4
<1> HIDE DEF f
<1>8. f # <<>>
    BY <1>6, PageThere
<1>9. /\ space' = [u \in PageSpace |-> space'[u]]
      /\ \A u \in PageSpace : space'[u] = IF u = v THEN f ELSE space[u]
    BY <1>1, <1>5, <1>7
<1>10. Shaped(space)'
    BY <1>3, <1>6, <1>9 DEF Shaped
<1>11. Kept(source, space)'
    <2> SUFFICES ASSUME NEW u \in PageSpace, NEW x \in Offsets, space'[u] # <<>>,
                        u * PageWords + x \in CodeWords(source)
                 PROVE  space'[u][x] = Assemble(source)[u * PageWords + x]
        BY DEF Kept
    <2>1. ~(u = v /\ x = w)
        BY <1>1
    <2>2. space[u] # <<>> /\ space'[u][x] = space[u][x]
        BY <1>1, <1>6, <1>9, <2>1
    <2> QED
        BY <1>3, <2>2 DEF Kept
<1>12. CodeEvicted'
    BY <1>3, <1>8, <1>9 DEF CodeEvicted
<1> QED
    BY <1>10, <1>11, <1>12

\* A page taken away is absent and marked; one given where nothing was holds no code.
LEMMA PageMoved ==
    ASSUME CpuInv, intact, NEW v \in PageSpace, source' = source, NEW f,
           \/ f = <<>> /\ evicted' = evicted \cup {v}
           \/ f \in OldPages /\ evicted' = evicted /\ space[v] = <<>> /\ v \notin evicted,
           space' = [space EXCEPT ![v] = f]
    PROVE  Shaped(space)' /\ Kept(source, space)' /\ CodeEvicted'
<1>0. PageWords \in Nat \ {0} /\ NPages \in Nat
    BY CpuAssumption
<1>1. Shaped(space) /\ Kept(source, space) /\ CodeEvicted
    BY DEF CpuInv
<1>2. DOMAIN space = PageSpace
    BY <1>1 DEF Shaped
<1>3. /\ space' = [u \in PageSpace |-> space'[u]]
      /\ \A u \in PageSpace : space'[u] = IF u = v THEN f ELSE space[u]
    BY <1>2
<1>4. f # <<>> => f \in [Offsets -> Words]
    BY DataAssumption DEF Offsets
<1>5. Shaped(space)'
    BY <1>1, <1>3, <1>4 DEF Shaped
<1>6. f # <<>> => \A w \in Offsets : v * PageWords + w \notin CodeWords(source)
    <2> SUFFICES ASSUME f # <<>>
                 PROVE  \A w \in Offsets : v * PageWords + w \notin CodeWords(source)
        OBVIOUS
    <2> DEFINE p == v * PageWords
    <2>1. p \in Nat
        BY <1>0 DEF PageSpace
    <2>2. p \notin CodeWords(source)
        BY <1>1 DEF CodeEvicted
    <2>3. Len(Lines(source)) \in Nat
        BY SourcesAssumption, LinesParse DEF CpuInv
    <2> HIDE DEF p
    <2>4. \A w \in Offsets : p + w \notin CodeWords(source)
        BY <1>0, <2>1, <2>2, <2>3 DEF CodeWords, Offsets
    <2> QED
        BY <2>4 DEF p
<1>7. Kept(source, space)'
    <2> SUFFICES ASSUME NEW u \in PageSpace, NEW x \in Offsets, space'[u] # <<>>,
                        u * PageWords + x \in CodeWords(source)
                 PROVE  space'[u][x] = Assemble(source)[u * PageWords + x]
        BY DEF Kept
    <2>1. u # v
        BY <1>3, <1>6
    <2> QED
        BY <1>1, <1>3, <2>1 DEF Kept
<1>8. CodeEvicted'
    BY <1>1, <1>3 DEF CodeEvicted
<1> QED
    BY <1>5, <1>7, <1>8

\* An instruction without a memory access leaves a CPU.
LEMMA ExecutedTyped ==
    ASSUME NEW c \in CpuRecords, NEW i \in InstructionType, Decodes(i), i.op \notin Memory,
           i.value \in 0 .. U32 - 1, ~Divides(c, i)
    PROVE  Executed(Advanced(c), i) \in CpuRecords
<1> DEFINE d == Advanced(c)
<1>1. d \in CpuRecords /\ d.regs = c.regs
    BY CpuUpdates
<1>2. ~Divides(d, i)
    BY <1>1 DEF Divides, Operand
<1> HIDE DEF d
<1>3. i.op \in Arithmetic \cup Jumps \cup {"INT", "HALT"}
    BY DEF Decodes, Parses, Mnemonics
<1>4. CASE i.op \in Arithmetic
    <2>1. Executed(d, i) = Computed(d, i)
        BY <1>4 DEF Executed, Arithmetic, Jumps
    <2>2. Computed(d, i) \in CpuRecords
        BY <1>1, <1>2, <1>4, ComputedIs
    <2> QED
        BY <2>1, <2>2 DEF d
<1>5. CASE i.op \in Jumps
    <2>1. Executed(d, i) = Jumped(d, i)
        BY <1>5 DEF Executed, Arithmetic, Jumps
    <2>2. Jumped(d, i) \in CpuRecords
        BY <1>1, JumpedIs
    <2> QED
        BY <2>1, <2>2 DEF d
<1>6. CASE i.op = "INT"
    <2> DEFINE b == i.value % U8 = Vector
    <2>1. Executed(d, i) = [d EXCEPT !.trap = b]
        BY <1>6 DEF Executed, Arithmetic, Jumps, Interrupted
    <2>2. b \in BOOLEAN
        OBVIOUS
    <2> HIDE DEF b
    <2>3. [d EXCEPT !.trap = b] \in CpuRecords
        BY <1>1, <2>2, FlaggedIs
    <2> QED
        BY <2>1, <2>3 DEF d
<1>7. CASE i.op = "HALT"
    <2>1. Executed(d, i) = [d EXCEPT !.halted = TRUE]
        BY <1>7 DEF Executed, Arithmetic, Jumps
    <2>2. [d EXCEPT !.halted = TRUE] \in CpuRecords
        BY <1>1, FlaggedIs
    <2> QED
        BY <2>1, <2>2 DEF d
<1> QED
    BY <1>3, <1>4, <1>5, <1>6, <1>7

\* Every action of the CPU, of the timer interrupt and of the memory service keeps the
\* program's words until an answered fault or a STORE into the program ends the promise.
LEMMA CpuInvStep ==
    ASSUME CpuInv, [CpuNext]_cpuVars
    PROVE  CpuInv'
<1>1. source' = source
    BY DEF CpuNext, cpuVars, FetchMisses, StepFails, StepComputes, StepAccesses, Syscall, Resumed,
           FaultAnswered, FaultUnanswered, Evict, MapShared, Unmap
<1>2. source \in Sources
    BY DEF CpuInv
<1>3. intact' => intact
    BY DEF CpuNext, cpuVars, FetchMisses, StepFails, StepComputes, StepAccesses, Syscall, Resumed,
           FaultAnswered, FaultUnanswered, Evict, MapShared, Unmap, Loads, Stores,
           CallReturns, CallReads, CallHalts
<1> SUFFICES ASSUME intact, intact'
             PROVE  cpu' \in CpuRecords /\ Shaped(space)' /\ Kept(source, space)' /\ CodeEvicted'
    <2>1. CpuRecords' = CpuRecords
        BY DEF CpuRecords, Regs
    <2> QED
        BY <1>1, <1>2, <1>3, <2>1 DEF CpuInv
<1>4. cpu \in CpuRecords /\ Shaped(space) /\ Kept(source, space) /\ CodeEvicted
    BY DEF CpuInv
<1>5. U8 \in Nat \ {0, 1} /\ U64 \in Nat /\ U8 <= U64 /\ U32 <= U64 /\ U32 \in Nat
      /\ 0 \in Regs /\ 1 \in Regs /\ 2 \in Regs /\ BufWord \in Nat
    BY CpuAssumption DEF Regs
<1> DEFINE Still == space' = space /\ evicted' = evicted
<1>6. ASSUME Still PROVE Shaped(space)' /\ Kept(source, space)' /\ CodeEvicted'
    BY <1>1, <1>4, <1>6 DEF CodeEvicted
<1>7. CASE UNCHANGED cpuVars \/ FetchMisses \/ FaultUnanswered
    <2>1. cpu' = cpu /\ Still
        BY <1>7 DEF cpuVars, FetchMisses, Missed, Faulted, FaultUnanswered
    <2> QED
        BY <1>4, <1>6, <2>1
<1>8. CASE StepFails
    <2> DEFINE b == cpu.pid # 1
    <2>1. cpu' = [Advanced(cpu) EXCEPT !.halted = b] /\ Still
        BY <1>8 DEF StepFails, Stops
    <2>2. Advanced(cpu) \in CpuRecords
        BY <1>4, CpuUpdates
    <2>3. b \in BOOLEAN
        OBVIOUS
    <2> HIDE DEF b
    <2> QED
        BY <1>6, <2>1, <2>2, <2>3, FlaggedIs
<1>9. CASE StepComputes
    <2>1. PICK i \in Fetches(cpu.pc) :
             /\ Decodes(i) /\ i.op \notin Memory /\ ~Divides(cpu, i)
             /\ cpu' = Executed(Advanced(cpu), i)
        BY <1>9 DEF StepComputes, Completes
    <2>2. i \in InstructionType /\ i.value \in 0 .. U32 - 1
        BY <1>9, FetchTyped DEF StepComputes
    <2>3. Still
        BY <1>9 DEF StepComputes
    <2>4. Executed(Advanced(cpu), i) \in CpuRecords
        BY <1>4, <2>1, <2>2, ExecutedTyped
    <2> QED
        BY <1>6, <2>1, <2>3, <2>4
<1>10. CASE StepAccesses
    <2>1. PICK i \in Fetches(cpu.pc) :
             /\ Decodes(i) /\ i.op \in Memory
             /\ \/ Missed(Operand(cpu, i))
                \/ Loads(i, Operand(cpu, i))
                \/ Stores(i, Operand(cpu, i))
        BY <1>10 DEF StepAccesses
    <2> DEFINE a == Operand(cpu, i)
    <2>2. i \in InstructionType /\ i.value \in 0 .. U32 - 1
        BY <1>10, FetchTyped DEF StepAccesses
    <2>3. i.dst \in Regs /\ a \in 0 .. U64 - 1
        BY <1>4, <2>1, <2>2, OperandTyped
    <2>4. a \in Nat /\ evicted' = evicted
        BY <1>5, <1>10, <2>3 DEF StepAccesses
    <2>5. Advanced(cpu) \in CpuRecords
        BY <1>4, CpuUpdates
    <2> HIDE DEF a
    <2>6. CASE Missed(a)
        <3>1. cpu' = cpu /\ Still
            BY <2>4, <2>6 DEF Missed, Faulted
        <3> QED
            BY <1>4, <1>6, <3>1
    <2>7. CASE Loads(i, a)
        <3>1. PICK x \in BytesAt(a) : cpu' = LoadedReg(Advanced(cpu), i, x)
            BY <2>7 DEF Loads, Completes
        <3>2. x \in 0 .. U8 - 1
            BY <2>4, <2>7, ByteRead DEF Loads
        <3>3. x \in 0 .. U64 - 1
            BY <3>2, <1>5
        <3>4. LoadedReg(Advanced(cpu), i, x) \in CpuRecords
            BY <2>3, <2>5, <3>3, CpuUpdates DEF LoadedReg
        <3>5. Still
            BY <2>4, <2>7 DEF Loads
        <3> QED
            BY <1>6, <3>1, <3>4, <3>5
    <2>8. CASE Stores(i, a)
        <3> DEFINE m == cpu.regs[i.dst] % U8
        <3>1. /\ cpu' = Advanced(cpu) /\ space' = Written(a, m)
              /\ a \notin CodeWords(source) /\ Present(a)
            BY <2>8 DEF Stores, Completes
        <3>2. m \in 0 .. U8 - 1
            <4>1. cpu.regs[i.dst] \in 0 .. U64 - 1
                BY <1>4, <2>3 DEF CpuRecords
            <4>2. cpu.regs[i.dst] \in Int /\ U8 \in Nat \ {0}
                BY <1>5, <4>1
            <4> QED
                BY <4>2, WrapOnce
        <3> HIDE DEF m
        <3> QED
            BY <1>1, <2>4, <2>5, <3>1, <3>2, StoreKeeps
    <2> QED
        BY <2>1, <2>6, <2>7, <2>8 DEF a
<1>11. CASE Syscall
    <2>0. evicted' = evicted
        BY <1>11 DEF Syscall
    <2>1. ASSUME NEW r \in Regs, NEW n \in 0 .. U64 - 1
          PROVE  [cpu EXCEPT !.trap = FALSE, !.regs[r] = n] \in CpuRecords
        BY <1>4, <2>1 DEF CpuRecords
    <2>2. CASE CallReturns
        <3>1. Still
            BY <2>0, <2>2 DEF CallReturns
        <3>2. CASE cpu' = [cpu EXCEPT !.trap = FALSE]
            BY <1>4, <1>6, <3>1, <3>2, FlaggedIs
        <3>3. CASE cpu' = [cpu EXCEPT !.trap = FALSE, !.regs[0] = 0]
            <4>1. 0 \in 0 .. U64 - 1
                BY <1>5
            <4> QED
                BY <1>5, <1>6, <2>1, <3>1, <3>3, <4>1
        <3>4. CASE \E n \in Results : cpu' = [cpu EXCEPT !.trap = FALSE, !.regs[1] = n]
            <4>1. PICK n \in Results : cpu' = [cpu EXCEPT !.trap = FALSE, !.regs[1] = n]
                BY <3>4
            <4>2. n \in 0 .. U64 - 1
                BY DataAssumption
            <4> QED
                BY <1>5, <1>6, <2>1, <3>1, <4>1, <4>2
        <3> QED
            BY <2>2, <3>2, <3>3, <3>4 DEF CallReturns
    <2>3. CASE CallReads
        <3>1. PICK t \in Texts :
                 /\ cpu' = [cpu EXCEPT !.trap = FALSE, !.regs[2] = 4 * Len(t)]
                 /\ space' = Filled(space, BufWord, t) /\ Spares(source, BufWord, t)
            BY <2>3 DEF CallReads
        <3> DEFINE n == 4 * Len(t)
        <3>2. n \in 0 .. U64 - 1
            <4>1. t \in Seq(0 .. U32 - 1) /\ n < U64
                BY DataAssumption
            <4>2. Len(t) \in Nat
                BY <4>1
            <4> QED
                BY <1>5, <4>1, <4>2
        <3> HIDE DEF n
        <3>3. cpu' \in CpuRecords
            BY <1>5, <2>1, <3>1, <3>2 DEF n
        <3>4. /\ Shaped(space') /\ Kept(source, space')
              /\ \A v \in PageSpace : space'[v] = <<>> <=> space[v] = <<>>
            BY <1>4, <1>5, <3>1, FilledKeeps
        <3>5. CodeEvicted'
            BY <1>1, <1>4, <2>0, <3>4 DEF CodeEvicted
        <3>6. Shaped(space)' /\ Kept(source, space)'
            BY <1>1, <3>4 DEF Shaped, Kept
        <3> QED
            BY <3>3, <3>5, <3>6
    <2>4. CASE CallHalts
        <3>1. [cpu EXCEPT !.trap = FALSE, !.halted = TRUE] \in CpuRecords
            BY <1>4 DEF CpuRecords
        <3>2. Still /\ cpu' = [cpu EXCEPT !.trap = FALSE, !.halted = TRUE]
            BY <2>0, <2>4 DEF CallHalts
        <3> QED
            BY <1>6, <3>1, <3>2
    <2> QED
        BY <1>11, <2>2, <2>3, <2>4 DEF Syscall
<1>12. CASE FaultAnswered \/ \E v \in PageSpace : Unmap(v)
    BY <1>12 DEF FaultAnswered, Unmap
<1>13. CASE Resumed
    <2>1. cpu' = [cpu EXCEPT !.halted = FALSE] /\ Still
        BY <1>13 DEF Resumed
    <2> QED
        BY <1>4, <1>6, <2>1, FlaggedIs
<1>14. ASSUME NEW v \in PageSpace, Evict(v) \/ MapShared(v)
       PROVE  cpu' \in CpuRecords /\ Shaped(space)' /\ Kept(source, space)' /\ CodeEvicted'
    <2>1. cpu' = cpu
        BY <1>14 DEF Evict, MapShared
    <2>2. PICK f :
             /\ \/ f = <<>> /\ evicted' = evicted \cup {v}
                \/ f \in OldPages /\ evicted' = evicted /\ space[v] = <<>> /\ v \notin evicted
             /\ space' = [space EXCEPT ![v] = f]
        BY <1>14 DEF Evict, MapShared
    <2>3. Shaped(space)' /\ Kept(source, space)' /\ CodeEvicted'
        BY <1>1, <2>2, PageMoved
    <2> QED
        BY <1>4, <2>1, <2>3
<1> QED
    BY <1>7, <1>8, <1>9, <1>10, <1>11, <1>12, <1>13, <1>14 DEF CpuNext

\* The line at the pc is a typed instruction that decodes, with the operand the source names.
LEMMA LineAtPc ==
    ASSUME CpuInv, intact, LineNo \in DOMAIN Lines(source)
    PROVE  LET l == Lines(source)[LineNo]
           IN  /\ l.op \in Mnemonics /\ Decodes(AtPc) /\ AtPc \in InstructionType
               /\ AtPc.op = l.op /\ AtPc.dst = l.dst /\ AtPc.value = l.value % U32
               /\ AtPc.value \in 0 .. U32 - 1 /\ LineNo \in Nat
               /\ l.op \in Arithmetic \cup Memory =>
                    /\ l.dst \in Regs
                    /\ Operand(cpu, AtPc) =
                         IF l.type = "reg" THEN cpu.regs[l.value] ELSE l.value % U32
                    /\ Operand(cpu, AtPc) \in 0 .. U64 - 1
<1> DEFINE k == LineNo
           l == Lines(source)[k]
<1>0. /\ source \in Seq(InstructionType) /\ U32 \in Nat \ {0} /\ NRegs \in Nat
      /\ NRegs <= U32 /\ cpu \in CpuRecords
    BY SourcesAssumption, CpuAssumption DEF CpuInv
<1>1. l \in InstructionType /\ Parses(l)
    BY <1>0, LinesParse
<1>2. k \in Nat
    BY <1>0, LinesParse
<1> HIDE DEF k
<1> DEFINE o == l.op
           d == l.dst
           y == l.type
           v == l.value
           n == v % U32
<1>3. o \in Mnemonics \cup {""} /\ d \in Nat /\ y \in {"reg", "imm"}
    BY <1>1 DEF InstructionType
<1>4. v \in Nat
    BY <1>1 DEF InstructionType
<1>5. o \in Mnemonics /\ (o \in Arithmetic \cup Memory => d \in Regs /\ (y = "reg" => v \in Regs))
    BY <1>1 DEF Parses
<1>6. AtPc = Line(o, d, y, n)
    BY DEF AtPc, k
<1> HIDE DEF o, d, y, v
<1>7. n \in 0 .. U32 - 1 /\ n \in Nat /\ (v \in Regs => n = v)
    BY <1>0, <1>4 DEF Regs
<1> HIDE DEF n
<1>8. AtPc \in InstructionType
    BY <1>3, <1>6, <1>7, LineTyped
<1>9. AtPc.op = o /\ AtPc.dst = d /\ AtPc.type = y /\ AtPc.value = n
    BY <1>6 DEF Line
<1>10. Decodes(AtPc)
    BY <1>5, <1>7, <1>9 DEF Decodes, Parses
<1>11. o \in Arithmetic \cup Memory =>
         Operand(cpu, AtPc) = IF y = "reg" THEN cpu.regs[v] ELSE n
    BY <1>5, <1>7, <1>9 DEF Operand
<1>12. o \in Arithmetic \cup Memory => Operand(cpu, AtPc) \in 0 .. U64 - 1
    BY <1>0, <1>7, <1>8, <1>9, <1>10, OperandTyped
<1> QED
    BY <1>2, <1>5, <1>7, <1>8, <1>9, <1>10, <1>11, <1>12 DEF o, d, y, v, n, k

\* A step of the CPU is the line at the pc, with its whole effect.
LEMMA LineExecuted ==
    ASSUME CpuInv, intact, CpuNext, cpu' # cpu, ~cpu.trap, ~cpu.halted, cpu.pc % 2 = 0,
           LineNo \in DOMAIN Lines(source)
    PROVE  Meaning(Lines(source)[LineNo])
<1> DEFINE i == AtPc
           l == Lines(source)[LineNo]
           v == l.value % U32
           b == IF l.type = "reg" THEN cpu.regs[l.value] ELSE v
           a == IF l.op \in Arithmetic THEN cpu.regs[l.dst] ELSE 0
           r == CASE l.op = "MOV" -> b
                  [] l.op = "ADD" -> IF a + b < U64 THEN a + b ELSE a + b - U64
                  [] l.op \in {"SUB", "CMP"} -> IF a >= b THEN a - b ELSE U64 + a - b
                  [] l.op = "MUL" -> (a * b) % U64
                  [] l.op = "DIV" -> IF b = 0 THEN a ELSE a \div b
                  [] OTHER -> 0
           taken == l.op = "JMP" \/ (l.op = "JZ" /\ cpu.zero) \/ (l.op = "JNZ" /\ ~cpu.zero)
           divides == l.op = "DIV" /\ b = 0
           o == l.op
           d == l.dst
<1>0. LineNo + 1 = cpu.pc \div 2 + 2
    <2>1. cpu.pc \in Nat
        BY DEF CpuInv, CpuRecords
    <2> QED
        BY <2>1 DEF LineNo
<1>1. SUFFICES
        /\ o \in Memory => Present(b)
        /\ cpu'.pc \div 2 + 1 = IF taken THEN v \div 2 + 1 ELSE cpu.pc \div 2 + 2
        /\ IF o = "LOAD" THEN \E x \in BytesAt(b) : cpu'.regs = [cpu.regs EXCEPT ![d] = x]
           ELSE cpu'.regs = IF o \in Arithmetic \ {"CMP"} THEN [cpu.regs EXCEPT ![d] = r]
                            ELSE cpu.regs
        /\ cpu'.zero = IF o \in Arithmetic \ {"MOV"} /\ ~divides THEN r = 0 ELSE cpu.zero
        /\ space' = IF o = "STORE" THEN Written(b, cpu.regs[d] % U8) ELSE space
        /\ cpu'.halted = (o = "HALT" \/ (divides /\ cpu.pid # 1))
        /\ cpu'.trap = (o = "INT" /\ v % U8 = Vector)
    BY <1>0 DEF Meaning, LineNo
<1>2. /\ o \in Mnemonics /\ Decodes(i) /\ i \in InstructionType
      /\ i.op = o /\ i.dst = d /\ i.value = v /\ v \in 0 .. U32 - 1
      /\ o \in Arithmetic \cup Memory => d \in Regs /\ Operand(cpu, i) = b /\ b \in 0 .. U64 - 1
    BY LineAtPc
<1>3. /\ taken <=> o = "JMP" \/ (o = "JZ" /\ cpu.zero) \/ (o = "JNZ" /\ ~cpu.zero)
      /\ divides <=> o = "DIV" /\ b = 0
      /\ o \in Arithmetic => a = cpu.regs[d]
    OBVIOUS
<1>4. cpu \in CpuRecords
    BY DEF CpuInv
<1>5. /\ cpu.regs \in [Regs -> 0 .. U64 - 1] /\ cpu.pc \in Nat /\ cpu.zero \in BOOLEAN
      /\ cpu.trap = FALSE
    BY <1>4 DEF CpuRecords
<1>6. o \in Arithmetic /\ ~divides => r = Result(o, a, b)
    <2> SUFFICES ASSUME o \in Arithmetic, ~divides PROVE r = Result(o, a, b)
        OBVIOUS
    <2>1. a \in 0 .. U64 - 1 /\ b \in 0 .. U64 - 1
        BY <1>2, <1>3, <1>5
    <2>2. r = CASE o = "MOV" -> b
                [] o = "ADD" -> IF a + b < U64 THEN a + b ELSE a + b - U64
                [] o \in {"SUB", "CMP"} -> IF a >= b THEN a - b ELSE U64 + a - b
                [] o = "MUL" -> (a * b) % U64
                [] o = "DIV" -> IF b = 0 THEN a ELSE a \div b
                [] OTHER -> 0
        OBVIOUS
    <2>3. ~(o = "DIV" /\ b = 0)
        OBVIOUS
    <2> HIDE DEF o, a, b, r, divides
    <2>4. /\ o = "MOV" => Result(o, a, b) = b
          /\ o = "ADD" => Result(o, a, b) = IF a + b < U64 THEN a + b ELSE a + b - U64
          /\ o \in {"SUB", "CMP"} =>
               Result(o, a, b) = IF a >= b THEN a - b ELSE U64 + a - b
          /\ o = "MUL" => Result(o, a, b) = (a * b) % U64
          /\ o = "DIV" => Result(o, a, b) = a \div b
        BY <2>1, <2>3, ResultIs
    <2>5. o \in {"MOV", "ADD", "SUB", "CMP", "MUL", "DIV"}
        BY DEF Arithmetic
    <2> QED
        BY <2>2, <2>3, <2>4, <2>5
<1>7. o = "DIV" /\ b = 0 => r = a
    OBVIOUS
<1> HIDE DEF i, v, b, a, r, taken, divides, o, d
<1>8. Fetchable(cpu.pc) => Fetches(cpu.pc) = {i}
    BY FetchLine DEF i
<1>9. (cpu.pc + 2) \div 2 + 1 = cpu.pc \div 2 + 2
    BY <1>5
<1> DEFINE c == Advanced(cpu)
<1>10. /\ c \in CpuRecords /\ c.regs = cpu.regs /\ c.pc = cpu.pc + 2 /\ c.zero = cpu.zero
       /\ c.halted = cpu.halted /\ c.trap = FALSE /\ c.pid = cpu.pid
    BY <1>4, <1>5, CpuUpdates
<1>11. CASE FetchMisses \/ FaultAnswered \/ FaultUnanswered \/ Syscall \/ Resumed
            \/ \E w \in PageSpace : Evict(w) \/ MapShared(w) \/ Unmap(w)
    BY <1>11 DEF FetchMisses, Missed, Faulted, FaultAnswered, FaultUnanswered, Syscall,
                 Resumed, Evict, MapShared, Unmap
<1>12. CASE StepFails
    <2> DEFINE e == cpu.pid # 1
    <2>1. Divides(cpu, i) /\ cpu' = [c EXCEPT !.halted = e] /\ space' = space
        BY <1>2, <1>8, <1>12 DEF StepFails, Stops
    <2>2. o = "DIV" /\ b = 0
        BY <1>2, <2>1 DEF Divides, Arithmetic
    <2>a. e \in BOOLEAN
        OBVIOUS
    <2> HIDE DEF c, e
    <2>3. /\ cpu'.halted = e /\ cpu'.pc = c.pc /\ cpu'.regs = c.regs
          /\ cpu'.zero = c.zero /\ cpu'.trap = c.trap
        BY <1>10, <2>1, <2>a, FlaggedIs
    <2>4. [cpu.regs EXCEPT ![d] = a] = cpu.regs
        BY <1>2, <1>3, <1>5, <2>2 DEF Arithmetic
    <2>5. o \in Arithmetic \ {"CMP"} /\ o \notin Memory /\ ~taken /\ divides
        BY <1>3, <2>2 DEF Arithmetic, Memory
    <2>6. cpu'.halted = (o = "HALT" \/ (divides /\ cpu.pid # 1))
        BY <2>2, <2>3, <2>5 DEF e
    <2> QED
        BY <1>7, <1>9, <1>10, <2>1, <2>2, <2>3, <2>4, <2>5, <2>6
<1>13. CASE StepComputes
    <2>1. /\ o \notin Memory /\ ~Divides(cpu, i) /\ cpu' = Executed(c, i) /\ space' = space
          /\ c.halted = FALSE
        BY <1>2, <1>8, <1>10, <1>13, <1>4 DEF StepComputes, Completes, Runs, CpuRecords
    <2> HIDE DEF c
    <2>2. CASE o \in Arithmetic
        <3>1. Executed(c, i) = Computed(c, i)
            BY <1>2, <2>2 DEF Executed, Arithmetic, Jumps
        <3>2. Operand(c, i) = b /\ ~Divides(c, i) /\ ~divides
            BY <1>2, <1>3, <1>10, <2>1, <2>2 DEF Operand, Divides
        <3>3. Result(i.op, c.regs[i.dst], Operand(c, i)) = r
            BY <1>2, <1>3, <1>6, <1>10, <2>2, <3>2
        <3>4. /\ cpu'.regs = IF o = "CMP" THEN c.regs ELSE [c.regs EXCEPT ![d] = r]
              /\ cpu'.zero = IF o = "MOV" THEN c.zero ELSE r = 0
              /\ cpu'.pc = c.pc /\ cpu'.halted = c.halted /\ cpu'.trap = c.trap
            BY <1>2, <1>10, <2>1, <2>2, <3>1, <3>2, <3>3, ComputedIs
        <3>5. o \notin {"JMP", "JZ", "JNZ", "LOAD", "STORE", "HALT", "INT"}
            BY <2>2 DEF Arithmetic
        <3> QED
            BY <1>3, <1>9, <1>10, <2>1, <2>2, <3>2, <3>4, <3>5
    <2>3. CASE o \in Jumps
        <3>1. Executed(c, i) = Jumped(c, i)
            BY <1>2, <2>3 DEF Executed, Arithmetic, Jumps
        <3>2. /\ cpu'.pc = IF taken THEN v ELSE c.pc
              /\ cpu'.regs = c.regs /\ cpu'.zero = c.zero /\ cpu'.halted = c.halted
              /\ cpu'.trap = c.trap
            BY <1>2, <1>3, <1>10, <2>1, <3>1, JumpedIs
        <3>3. o \notin Arithmetic /\ o \notin {"LOAD", "STORE", "HALT", "INT", "DIV"}
            BY <2>3 DEF Arithmetic, Jumps
        <3> QED
            BY <1>3, <1>9, <1>10, <2>1, <3>2, <3>3
    <2>4. CASE o = "INT"
        <3> DEFINE f == v % U8 = Vector
        <3>1. Executed(c, i) = [c EXCEPT !.trap = f]
            BY <1>2, <2>4 DEF Executed, Arithmetic, Jumps, Interrupted
        <3>2. f \in BOOLEAN
            OBVIOUS
        <3> HIDE DEF f
        <3>3. /\ cpu'.trap = f /\ cpu'.pc = c.pc /\ cpu'.regs = c.regs /\ cpu'.zero = c.zero
              /\ cpu'.halted = c.halted
            BY <1>10, <2>1, <3>1, <3>2, FlaggedIs
        <3>4. o \notin Arithmetic /\ ~taken /\ ~divides /\ cpu'.trap = (o = "INT" /\ f)
            BY <1>3, <2>4, <3>2, <3>3 DEF Arithmetic
        <3> QED
            BY <1>9, <1>10, <2>1, <2>4, <3>3, <3>4 DEF f
    <2>5. CASE o = "HALT"
        <3>1. Executed(c, i) = [c EXCEPT !.halted = TRUE]
            BY <1>2, <2>5 DEF Executed, Arithmetic, Jumps
        <3>2. /\ cpu'.halted = TRUE /\ cpu'.pc = c.pc /\ cpu'.regs = c.regs
              /\ cpu'.zero = c.zero /\ cpu'.trap = c.trap
            BY <1>10, <2>1, <3>1, FlaggedIs
        <3>3. o \notin Arithmetic /\ ~taken /\ ~divides
            BY <1>3, <2>5 DEF Arithmetic
        <3> QED
            BY <1>9, <1>10, <2>1, <2>5, <3>2, <3>3
    <2>6. o \in Arithmetic \/ o \in Jumps \/ o = "INT" \/ o = "HALT"
        BY <1>2, <2>1 DEF Mnemonics
    <2> QED
        BY <2>2, <2>3, <2>4, <2>5, <2>6
<1>14. CASE StepAccesses
    <2>1. /\ o \in Memory /\ b = Operand(cpu, i) /\ d \in Regs /\ b \in 0 .. U64 - 1
          /\ Missed(b) \/ Loads(i, b) \/ Stores(i, b)
          /\ c.halted = FALSE
        BY <1>2, <1>4, <1>8, <1>10, <1>14 DEF StepAccesses, Runs, CpuRecords
    <2>2. ~Missed(b)
        BY DEF Missed, Faulted
    <2>3. o \notin Arithmetic /\ o \notin {"JMP", "JZ", "JNZ", "HALT", "INT", "DIV"}
        BY <2>1 DEF Memory, Arithmetic
    <2>4. ~taken /\ ~divides
        BY <1>3, <2>3
    <2>5. CASE Loads(i, b)
        <3>1. PICK x \in BytesAt(b) : cpu' = LoadedReg(c, i, x)
            BY <2>5 DEF Loads, Completes
        <3>2. o = "LOAD" /\ Present(b) /\ space' = space
            BY <1>2, <2>5 DEF Loads
        <3>3. x \in 0 .. U64 - 1
            <4>0. U8 \in Nat /\ U64 \in Nat /\ U8 <= U64
                BY CpuAssumption
            <4>1. b \in Nat
                BY <2>1, <4>0
            <4>2. x \in 0 .. U8 - 1
                BY <3>2, <4>1, ByteRead
            <4> QED
                BY <4>0, <4>2
        <3>4. cpu' = [c EXCEPT !.regs[d] = x]
            BY <1>2, <3>1 DEF LoadedReg
        <3> HIDE DEF c
        <3>5. /\ cpu'.regs = [c.regs EXCEPT ![d] = x] /\ cpu'.pc = c.pc /\ cpu'.zero = c.zero
              /\ cpu'.halted = c.halted /\ cpu'.trap = c.trap
            BY <1>10, <2>1, <3>3, <3>4, CpuUpdates
        <3> QED
            BY <1>9, <1>10, <2>1, <2>3, <2>4, <3>1, <3>2, <3>5
    <2>6. CASE Stores(i, b)
        <3>1. /\ o = "STORE" /\ Present(b) /\ cpu' = c
              /\ space' = Written(b, cpu.regs[d] % U8)
            BY <1>2, <2>6 DEF Stores, Completes
        <3> HIDE DEF c
        <3> QED
            BY <1>9, <1>10, <2>1, <2>3, <2>4, <3>1
    <2> QED
        BY <2>1, <2>2, <2>5, <2>6
<1> QED
    BY <1>11, <1>12, <1>13, <1>14 DEF CpuNext

\* Where memory is 0 the CPU can only fail.
LEMMA NothingExecuted ==
    ASSUME CpuNext, cpu' # cpu, ~cpu.trap, ~cpu.halted, WordAt(cpu.pc) = << 0 >>, CpuInv, intact
    PROVE  cpu'.regs = cpu.regs /\ cpu'.halted = (cpu.pid # 1)
<1>1. StepFails \/ StepComputes \/ StepAccesses
    BY DEF CpuNext, FetchMisses, Missed, Faulted, FaultAnswered, FaultUnanswered, Syscall,
           Resumed, Evict, MapShared, Unmap
<1>2. \A i \in Fetches(cpu.pc) : ~Decodes(i)
    BY FetchNothing
<1>3. StepFails
    BY <1>1, <1>2 DEF StepComputes, StepAccesses
<1> DEFINE b == cpu.pid # 1
<1>4. cpu' = [Advanced(cpu) EXCEPT !.halted = b]
    BY <1>3 DEF StepFails, Stops
<1>5. Advanced(cpu) \in CpuRecords /\ Advanced(cpu).regs = cpu.regs
    BY CpuUpdates DEF CpuInv
<1>6. b \in BOOLEAN
    OBVIOUS
<1> HIDE DEF b
<1>7. cpu'.halted = b /\ cpu'.regs = cpu.regs
    BY <1>4, <1>5, <1>6, FlaggedIs
<1> QED
    BY <1>7 DEF b

\* A halted CPU can only be resumed.
LEMMA OnlyResumed ==
    ASSUME CpuNext, cpu' # cpu, ~cpu.trap, cpu.halted
    PROVE  cpu' = [cpu EXCEPT !.halted = FALSE]
    BY DEF CpuNext, FetchMisses, StepFails, StepComputes, StepAccesses, Runs, FaultAnswered,
           FaultUnanswered, Syscall, Resumed, Evict, MapShared, Unmap

(* From assembler source to registers, for every program, page size, number   *)
(* of registers, integer width, argument and text read: as long as no page    *)
(* fault was answered, no page unmapped and nothing written over an           *)
(* instruction, whatever changes the CPU is the source line at the pc with its*)
(* whole effect, or a resume where it stopped (assemble, exec_impl,           *)
(* fetch_instruction, execute_instruction, step's resetting of the pc, the    *)
(* system calls), however the memory service takes pages away and maps others *)
(* in between.  An argument that exec writes into the code of a program longer*)
(* than 32 instructions ends the promise before it begins.                    *)
THEOREM SourceIsExecuted == CpuSpec => ExecutionMatchesSource
<1> DEFINE Step == intact /\ cpu' # cpu /\ ~cpu.trap =>
                     IF cpu.halted THEN cpu' = [cpu EXCEPT !.halted = FALSE]
                     ELSE cpu.pc % 2 = 0 =>
                       IF LineNo \in DOMAIN Lines(source) THEN Meaning(Lines(source)[LineNo])
                       ELSE (WordAt(cpu.pc) = <<0>> =>
                               cpu'.regs = cpu.regs /\ cpu'.halted = (cpu.pid # 1))
<1>1. CpuInit => CpuInv
    BY CpuInvInit
<1>2. CpuInv /\ [CpuNext]_cpuVars => CpuInv'
    BY CpuInvStep
<1>3. CpuInv /\ [CpuNext]_cpuVars => [Step]_cpuVars
    BY LineExecuted, NothingExecuted, OnlyResumed
<1> HIDE DEF Step
<1>4. CpuSpec => [][Step]_cpuVars
    BY <1>1, <1>2, <1>3, PTL DEF CpuSpec
<1> QED
    BY <1>4 DEF ExecutionMatchesSource, Step
=============================================================================

---------------------------- MODULE SyncPrimitives ----------------------------
(***************************************************************************)
(* Semaphore and MutexLock (services/process/sync.rs) as the library       *)
(* objects they are: atomics that any thread may call.  The semaphore's    *)
(* operations are modelled at the granularity of its atomic loads and      *)
(* compare-exchanges; MutexLock::try_acquire ignores whether its           *)
(* compare-exchange succeeded, so its calls are sound only one at a time,  *)
(* which is how the process service, its one user, makes them.             *)
(*                                                                         *)
(* U32Max stands for u32::MAX.                                             *)
(***************************************************************************)
EXTENDS Naturals, FiniteSets

CONSTANTS
    SemThreads, U32Max,
    MaxUnits   \* bounds the history counters and how deep a mutex is taken

ASSUME SyncAssumption == U32Max \in Nat \ {0} /\ MaxUnits \in 0 .. U32Max

VARIABLES
    sem,    \* value, initial_value, max_value, wait_count, valid
    call,   \* each thread's call: [op, seen], seen the value it loaded
    units,  \* history since the last reset: the units taken, the signals that reported
            \* Released, and those of them that found the value at u32::MAX
    lock    \* the mutex: owner (0 for none), count, recursive, wait_count, valid

syncVars == <<sem, call, units, lock>>

NotCalling == [op |-> "none", seen |-> 0]

\* Semaphore::new has max_value u32::MAX, Semaphore::with_max a smaller one.
NewSemaphore(initial, max) ==
    [value |-> IF initial <= max THEN initial ELSE max, initial |-> initial,
     max |-> max, waits |-> 0, valid |-> TRUE]

NewMutex(recursive) ==
    [owner |-> 0, count |-> 0, recursive |-> recursive, waits |-> 0, valid |-> TRUE]

SyncInit ==
    /\ \E initial \in 0 .. U32Max, max \in {1, U32Max} : sem = NewSemaphore(initial, max)
    /\ call = [t \in SemThreads |-> NotCalling]
    /\ units = [taken |-> 0, given |-> 0, full |-> 0, start |-> sem.value]
    /\ \E recursive \in BOOLEAN : lock = NewMutex(recursive)

------------------------------------------------------------------------------
\* wrapping arithmetic of AtomicU32: fetch_add and fetch_sub.
WrapInc(n) == (n + 1) % (U32Max + 1)
WrapDec(n) == (n + U32Max) % (U32Max + 1)

\* saturating_add.
SatInc(n) == IF n = U32Max THEN U32Max ELSE n + 1

\* The value another call left is what a failed compare-exchange returns.
Reload(t) == call' = [call EXCEPT ![t].seen = sem.value]
Return(t) == call' = [call EXCEPT ![t] = NotCalling]

\* wait, try_wait and signal: the validity check and the first load.
SemCall(t, op) ==
    /\ call[t] = NotCalling /\ sem.valid
    /\ call' = [call EXCEPT ![t] = [op |-> op, seen |-> sem.value]]
    /\ UNCHANGED <<sem, units, lock>>

\* wait and try_wait when the value seen is 0.
WouldBlock(t) ==
    /\ call[t].op \in {"wait", "try_wait"} /\ call[t].seen = 0
    /\ sem' = IF call[t].op = "wait" THEN [sem EXCEPT !.waits = WrapInc(@)] ELSE sem
    /\ Return(t)
    /\ UNCHANGED <<units, lock>>

\* Mutant of TakeUnit: a wait that stores what it computed from an old value.
TakeUnitUnchecked(t) ==
    /\ call[t].op \in {"wait", "try_wait"} /\ call[t].seen > 0 /\ units.taken < MaxUnits
    /\ sem' = [sem EXCEPT !.value = call[t].seen - 1]
    /\ units' = [units EXCEPT !.taken = @ + 1]
    /\ Return(t)
    /\ UNCHANGED lock

\* compare_exchange_weak of wait and try_wait; it may also fail spuriously.
TakeUnit(t) ==
    /\ call[t].op \in {"wait", "try_wait"} /\ call[t].seen > 0
    /\ \/ /\ sem.value = call[t].seen /\ units.taken < MaxUnits
          /\ sem' = [sem EXCEPT !.value = call[t].seen - 1]
          /\ units' = [units EXCEPT !.taken = @ + 1]
          /\ Return(t)
       \/ Reload(t) /\ UNCHANGED <<sem, units>>
    /\ UNCHANGED lock

\* signal: Overflow above max_value; otherwise one more unit, and wait_count
\* goes down whether or not anybody waits.
GiveUnit(t) ==
    /\ call[t].op = "signal"
    /\ \/ /\ SatInc(call[t].seen) > sem.max
          /\ Return(t) /\ UNCHANGED <<sem, units>>
       \/ /\ SatInc(call[t].seen) <= sem.max
          /\ sem.value = call[t].seen /\ units.given < MaxUnits
          /\ sem' = [sem EXCEPT !.value = SatInc(call[t].seen), !.waits = WrapDec(@)]
          /\ units' = [units EXCEPT !.given = @ + 1,
                                    !.full = IF call[t].seen = U32Max THEN @ + 1 ELSE @]
          /\ Return(t)
       \/ SatInc(call[t].seen) <= sem.max /\ Reload(t) /\ UNCHANGED <<sem, units>>
    /\ UNCHANGED lock

\* Semaphore::reset stores the initial value, past max_value if need be.
SemReset ==
    /\ sem.valid
    /\ sem' = [sem EXCEPT !.value = sem.initial]
    /\ units' = [taken |-> 0, given |-> 0, full |-> 0, start |-> sem.initial]
    /\ UNCHANGED <<call, lock>>

\* SyncManager::destroy_semaphore; calls under way go on.
SemDestroy ==
    /\ sem' = [sem EXCEPT !.valid = FALSE]
    /\ UNCHANGED <<call, units, lock>>

------------------------------------------------------------------------------
\* MutexLock::acquire: Acquired, Deadlock (no change), or WouldBlock and counted.
Acquire(l, p) ==
    CASE ~l.valid -> l
      [] l.valid /\ l.owner = 0 -> [l EXCEPT !.owner = p, !.count = 1]
      [] l.valid /\ l.owner = p -> IF l.recursive THEN [l EXCEPT !.count = WrapInc(@)] ELSE l
      [] OTHER -> [l EXCEPT !.waits = WrapInc(@)]

\* MutexLock::release: NotOwner, or one level less and free at the last.
Release(l, p) ==
    IF ~l.valid \/ l.owner # p THEN l
    ELSE IF l.count # 1 THEN [l EXCEPT !.count = @ - 1]
    ELSE [l EXCEPT !.count = 0, !.owner = 0, !.waits = IF @ > 0 THEN @ - 1 ELSE @]

\* A recursive mutex is taken at most MaxUnits times over.
LockCall(p) ==
    /\ \/ /\ lock.recursive /\ lock.owner = p => lock.count < MaxUnits
          /\ lock' = Acquire(lock, p)
       \/ lock' = Release(lock, p)
    /\ UNCHANGED <<sem, call, units>>

\* SyncManager::destroy_mutex.
LockDestroy ==
    /\ lock' = [lock EXCEPT !.valid = FALSE]
    /\ UNCHANGED <<sem, call, units>>

SemNext ==
    \/ SemReset \/ SemDestroy
    \/ \E t \in SemThreads :
         \/ \E op \in {"wait", "try_wait", "signal"} : SemCall(t, op)
         \/ WouldBlock(t) \/ TakeUnit(t) \/ GiveUnit(t)

LockNext == LockDestroy \/ \E p \in 1 .. Cardinality(SemThreads) : LockCall(p)

SyncNext == SemNext \/ LockNext

SyncSpec == SyncInit /\ [][SyncNext]_syncVars

------------------------------------------------------------------------------
(* No unit of a semaphore is lost or made up, whatever waits and signals     *)
(* overlap (the compare-exchange loops of Semaphore::wait, try_wait and      *)
(* signal): the value is what it started from, plus what was given, minus    *)
(* what was taken.  A signal that finds the value at u32::MAX reports        *)
(* Released and adds nothing: these, and no others, are counted off.  A      *)
(* mutex is held exactly while its count is positive, and more than once     *)
(* only if it is recursive.                                                  *)
UnitsConserved ==
    /\ sem.value + units.taken + units.full = units.start + units.given
    /\ sem.value <= (IF sem.initial > sem.max THEN sem.initial ELSE sem.max)
    /\ (lock.owner # 0) <=> (lock.count > 0)
    /\ lock.count > 1 => lock.recursive
==============================================================================

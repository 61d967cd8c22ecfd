--------------------------------- MODULE Pcb ---------------------------------
(***************************************************************************)
(* One process control block with its threads (services/process/pcb.rs).   *)
(* The process service uses the state and the parent; threads, pending     *)
(* signals and descriptors are kept beside them by the methods below.      *)
(* HashMap::keys().next() is any thread.                                   *)
(***************************************************************************)
EXTENDS Naturals, Sequences

CONSTANTS Tids, Signals, MaxSignals, MaxPcbFd

ASSUME PcbAssumption == 0 \notin Tids /\ MaxPcbFd \in Nat

VARIABLES
    proc,     \* state
    thread,   \* threads: the state of each thread the process has
    mainTid,  \* main_tid, 0 for None
    curTid,   \* current_tid, 0 for None
    signals,  \* pending_signals
    pcbFds,   \* file_descriptors
    nextPcbFd \* next_fd

pcbVars == <<proc, thread, mainTid, curTid, signals, pcbFds, nextPcbFd>>

ProcStates   == {"Creating", "Ready", "Running", "Blocked", "Terminated", "Zombie"}
ThreadStates == {"Creating", "Ready", "Running", "Blocked", "Terminated"}

PcbInit ==
    /\ proc = "Creating"
    /\ thread = [t \in {} |-> "Creating"]
    /\ mainTid = 0 /\ curTid = 0
    /\ signals = <<>> /\ pcbFds = {} /\ nextPcbFd = 3

------------------------------------------------------------------------------
\* PCB::add_thread: the first is the main one; a Ready process gets a current one.
AddThread(t) ==
    /\ thread' = [u \in DOMAIN thread \cup {t} |->
                    IF u = t THEN "Creating" ELSE thread[u]]
    /\ mainTid' = IF mainTid = 0 THEN t ELSE mainTid
    /\ curTid' = IF curTid = 0 /\ proc = "Ready" THEN t ELSE curTid
    /\ UNCHANGED <<proc, signals, pcbFds, nextPcbFd>>

\* Mutant of Successor: a removal that keeps the main thread's id.
SuccessorForgotten(left, old, t, new) == new = old

\* The thread that replaces a removed one: any that is left, or none.
Successor(left, old, t, new) ==
    IF old # t THEN new = old ELSE IF left = {} THEN new = 0 ELSE new \in left

\* PCB::remove_thread.
RemoveThread(t) ==
    LET left == DOMAIN thread \ {t} IN
    /\ t \in DOMAIN thread
    /\ thread' = [u \in left |-> thread[u]]
    /\ \E m, c \in left \cup {0, mainTid, curTid} :
         /\ Successor(left, mainTid, t, m) /\ Successor(left, curTid, t, c)
         /\ mainTid' = m /\ curTid' = c
    /\ UNCHANGED <<proc, signals, pcbFds, nextPcbFd>>

\* PCB::set_state, as the process service assigns the state.
SetState(s) ==
    /\ proc' = s
    /\ UNCHANGED <<thread, mainTid, curTid, signals, pcbFds, nextPcbFd>>

\* TCB::block, TCB::unblock.
BlockedThread(s)   == "Blocked"
UnblockedThread(s) == IF s = "Blocked" THEN "Ready" ELSE s

\* PCB::block: every thread, whatever it was doing.
BlockProcess ==
    /\ proc' = "Blocked"
    /\ thread' = [t \in DOMAIN thread |-> BlockedThread(thread[t])]
    /\ UNCHANGED <<mainTid, curTid, signals, pcbFds, nextPcbFd>>

\* PCB::unblock.
UnblockProcess ==
    /\ proc = "Blocked" /\ proc' = "Ready"
    /\ thread' = [t \in DOMAIN thread |-> UnblockedThread(thread[t])]
    /\ UNCHANGED <<mainTid, curTid, signals, pcbFds, nextPcbFd>>

\* PCB::terminate.
TerminateProcess ==
    /\ proc' = "Terminated"
    /\ thread' = [t \in DOMAIN thread |-> "Terminated"]
    /\ UNCHANGED <<mainTid, curTid, signals, pcbFds, nextPcbFd>>

\* add_signal pushes, take_signal pops the one that came last.
AddSignal(s) ==
    /\ Len(signals) < MaxSignals /\ signals' = Append(signals, s)
    /\ UNCHANGED <<proc, thread, mainTid, curTid, pcbFds, nextPcbFd>>

TakeSignal ==
    /\ signals # <<>> /\ signals' = SubSeq(signals, 1, Len(signals) - 1)
    /\ UNCHANGED <<proc, thread, mainTid, curTid, pcbFds, nextPcbFd>>

\* allocate_fd and add_fd, remove_fd: numbers are never given out twice.
OpenPcbFd ==
    /\ nextPcbFd <= MaxPcbFd
    /\ pcbFds' = pcbFds \cup {nextPcbFd} /\ nextPcbFd' = nextPcbFd + 1
    /\ UNCHANGED <<proc, thread, mainTid, curTid, signals>>

ClosePcbFd(fd) ==
    /\ fd \in pcbFds /\ pcbFds' = pcbFds \ {fd}
    /\ UNCHANGED <<proc, thread, mainTid, curTid, signals, nextPcbFd>>

PcbNext ==
    \/ BlockProcess \/ UnblockProcess \/ TerminateProcess \/ TakeSignal \/ OpenPcbFd
    \/ \E t \in Tids : AddThread(t) \/ RemoveThread(t)
    \/ \E s \in {"Ready", "Running", "Zombie"} : SetState(s)
    \/ \E s \in Signals : AddSignal(s)
    \/ \E fd \in 3 .. MaxPcbFd : ClosePcbFd(fd)

PcbSpec == PcbInit /\ [][PcbNext]_pcbVars

------------------------------------------------------------------------------
(* main_tid and current_tid name threads the process has, and a process with *)
(* threads has a main one, through any sequence of additions and removals    *)
(* (PCB::add_thread, remove_thread); a descriptor in use is one that         *)
(* allocate_fd will not return again.                                        *)
ThreadIdsLead ==
    /\ proc \in ProcStates /\ thread \in [DOMAIN thread -> ThreadStates]
    /\ mainTid # 0 => mainTid \in DOMAIN thread
    /\ curTid # 0 => curTid \in DOMAIN thread
    /\ DOMAIN thread # {} => mainTid # 0
    /\ \A fd \in pcbFds : fd < nextPcbFd
==============================================================================

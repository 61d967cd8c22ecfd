--------------------------------- MODULE Ipc ---------------------------------
(***************************************************************************)
(* Message queues and shared memory (services/process/ipc.rs) behind the   *)
(* IPC requests of the process service (services/process/service.rs).      *)
(*                                                                         *)
(* A message is its place in the order of the messages sent to its queue.  *)
(* A queue exists once something was sent to it and lives on when its      *)
(* process is gone.  A blocking receive takes the process off the          *)
(* scheduler, and no send puts it back.                                    *)
(***************************************************************************)
EXTENDS Naturals, Sequences, FiniteSets

CONSTANTS IpcPids, MaxShm, MaxSent, MaxRefs   \* bounds on ids, messages, attaches

VARIABLES
    present,  \* process_table: who exists
    mailbox,  \* message_queues: [messages, sent, received] of each queue
    region,   \* shared_memory: [refs, attached, marked] of each region
    nextShm,  \* next_shmid
    asleep    \* processes blocked by a receive

ipcVars == <<present, mailbox, region, nextShm, asleep>>

IpcInit ==
    /\ present = IpcPids
    /\ mailbox = [p \in {} |-> <<>>]
    /\ region = [r \in {} |-> <<>>]
    /\ nextShm = 1
    /\ asleep = {}

------------------------------------------------------------------------------
NewMailbox == [messages |-> <<>>, sent |-> 0, received |-> 0]
NewRegion  == [refs |-> 0, attached |-> {}, marked |-> FALSE]

\* IPCManager::get_message_queue: a throw-away queue if the process has none.
MailboxOf(p) == IF p \in DOMAIN mailbox THEN mailbox[p] ELSE NewMailbox

\* MessageQueue::send (capacity 0: unlimited) and MessageQueue::receive.
Sent(q)     == [q EXCEPT !.messages = Append(@, q.sent + 1), !.sent = @ + 1]
Received(q) == [q EXCEPT !.messages = Tail(@), !.received = @ + 1]

\* SharedMemoryRegion::attach counts every call, and keeps one entry per process.
Attached(r, p) == [r EXCEPT !.attached = @ \cup {p}, !.refs = @ + 1]

\* Mutant of Detached: a detach that counts down whether or not the process was attached.
DetachedAnyway(r, p) ==
    [r EXCEPT !.attached = @ \ {p}, !.refs = IF @ = 0 THEN 0 ELSE @ - 1]

\* SharedMemoryRegion::detach.
Detached(r, p) == IF p \notin r.attached THEN r
                  ELSE [r EXCEPT !.attached = @ \ {p}, !.refs = @ - 1]

\* SharedMemoryRegion::can_delete.
CanDeleteRegion(r) == r.marked /\ r.refs = 0

------------------------------------------------------------------------------
\* handle_send_message: both processes must be in the table.
HandleSendMessage(from, to) ==
    /\ {from, to} \subseteq present
    /\ MailboxOf(to).sent < MaxSent
    /\ mailbox' = [p \in DOMAIN mailbox \cup {to} |->
                     IF p = to THEN Sent(MailboxOf(to)) ELSE mailbox[p]]
    /\ UNCHANGED <<present, region, nextShm, asleep>>

\* handle_receive_message.
HandleReceiveMessage(p, blocking) ==
    /\ \/ /\ MailboxOf(p).messages # <<>>
          /\ mailbox' = [mailbox EXCEPT ![p] = Received(@)]
          /\ UNCHANGED asleep
       \/ /\ MailboxOf(p).messages = <<>>
          /\ asleep' = IF blocking THEN asleep \cup {p} ELSE asleep
          /\ UNCHANGED mailbox
    /\ UNCHANGED <<present, region, nextShm>>

\* handle_unblock, the only way back for a sleeper.
IpcUnblock(p) ==
    /\ p \in asleep /\ asleep' = asleep \ {p}
    /\ UNCHANGED <<present, mailbox, region, nextShm>>

\* A process leaves the table; its queue and its attachments stay.
IpcExit(p) ==
    /\ p \in present /\ Cardinality(present) > 1
    /\ present' = present \ {p} /\ asleep' = asleep \ {p}
    /\ UNCHANGED <<mailbox, region, nextShm>>

\* handle_create_shared_memory.
HandleCreateSharedMemory ==
    /\ nextShm <= MaxShm
    /\ region' = [r \in DOMAIN region \cup {nextShm} |->
                    IF r = nextShm THEN NewRegion ELSE region[r]]
    /\ nextShm' = nextShm + 1
    /\ UNCHANGED <<present, mailbox, asleep>>

\* handle_attach_shared_memory: any pid, attached or not.
HandleAttachSharedMemory(p, r) ==
    /\ r \in DOMAIN region /\ region[r].refs < MaxRefs
    /\ region' = [region EXCEPT ![r] = Attached(@, p)]
    /\ UNCHANGED <<present, mailbox, nextShm, asleep>>

\* handle_detach_shared_memory.
HandleDetachSharedMemory(p, r) ==
    /\ r \in DOMAIN region
    /\ region' = [region EXCEPT ![r] = Detached(@, p)]
    /\ UNCHANGED <<present, mailbox, nextShm, asleep>>

\* IPCManager::mark_shared_memory_for_deletion.
MarkForDeletion(r) ==
    /\ r \in DOMAIN region
    /\ region' = [region EXCEPT ![r].marked = TRUE]
    /\ UNCHANGED <<present, mailbox, nextShm, asleep>>

\* IPCManager::cleanup_shared_memory.
CleanupSharedMemory ==
    /\ region' = [r \in {s \in DOMAIN region : ~CanDeleteRegion(region[s])} |-> region[r]]
    /\ UNCHANGED <<present, mailbox, nextShm, asleep>>

IpcNext ==
    \/ HandleCreateSharedMemory \/ CleanupSharedMemory
    \/ \E p \in IpcPids :
         \/ IpcUnblock(p) \/ IpcExit(p)
         \/ \E q \in IpcPids : HandleSendMessage(p, q)
         \/ \E blocking \in BOOLEAN : HandleReceiveMessage(p, blocking)
         \/ \E r \in 1 .. MaxShm :
              HandleAttachSharedMemory(p, r) \/ HandleDetachSharedMemory(p, r)
    \/ \E r \in 1 .. MaxShm : MarkForDeletion(r)

IpcSpec == IpcInit /\ [][IpcNext]_ipcVars

------------------------------------------------------------------------------
(* Messages leave a queue in the order they were sent, none is lost and none *)
(* comes twice (MessageQueue::send, receive), and shared memory that         *)
(* somebody is attached to can never be deleted: attaching twice and         *)
(* detaching out of turn leave the count too high, never too low             *)
(* (SharedMemoryRegion::attach, detach, can_delete).                         *)
IpcExact ==
    /\ \A p \in DOMAIN mailbox :
         mailbox[p].messages =
            [i \in 1 .. mailbox[p].sent - mailbox[p].received |-> mailbox[p].received + i]
    /\ \A r \in DOMAIN region :
         /\ region[r].refs >= Cardinality(region[r].attached)
         /\ CanDeleteRegion(region[r]) => region[r].attached = {}
==============================================================================

------------------------------ MODULE MessageBus ------------------------------
(***************************************************************************)
(* The message bus (messaging/bus.rs), the kernel that routes what it      *)
(* carries (services/kernel.rs) and requests with a response channel       *)
(* (messaging/response.rs), with the two clients that wait for responses:  *)
(* the shell, and the process service while it serves a request or a tick. *)
(*                                                                         *)
(* An envelope is its class and the id of its request, 0 when nobody waits.*)
(* send_request makes one channel per request, so the id also names the    *)
(* channel.  A client gives up after recv_timeout and drops its receiver;  *)
(* a response sent to a dropped receiver is lost.  Requests to a service   *)
(* that never answers and requests to a service that has not subscribed    *)
(* yet both end this way.  Two services can come to wait for themselves:   *)
(* the memory service locks its swapped pages twice while it swaps a page  *)
(* in, and the process service locks its CPUs twice when a program that    *)
(* runs in a tick releases a lock, forks or executes.                      *)
(***************************************************************************)
EXTENDS Naturals, Sequences, FiniteSets

CONSTANTS
    MaxRequests,   \* bound on the request ids generated
    MaxDrain       \* interrupts the process service takes before it looks at its requests

ASSUME BusAssumption == MaxRequests \in Nat /\ MaxDrain \in Nat \ {0}

Services    == {"process", "memory", "file", "device"}
BusClients  == {"shell", "process"}
Classes     == {"Interrupt", "Syscall", "Process", "Memory", "File", "Device"}
RequestIds  == 1 .. MaxRequests

VARIABLES
    bus,      \* envelopes sent and not yet received, of each subscriber
    chan,     \* the kernel's channels, "intr" and one per service it routes to
    nextId,   \* NEXT_REQUEST_ID
    replies,  \* the response channel of each request: ids of the answers in it
    waiting,  \* the request each client waits for, 0 if none
    busy,     \* the envelope the process service is at, if any
    drained,  \* interrupts it has taken since it last looked at its requests
    stuck,    \* services that wait for themselves, for ever
    served,   \* history: the requests each service has handled, in order
    got       \* history: the request the last answer was for, as asked and as taken

busVars == <<bus, chan, nextId, replies, waiting, busy, drained, stuck, served, got>>

Channels == {"intr", "process", "memory", "file"}

BusInit ==
    /\ bus = [s \in {"kernel"} |-> <<>>]
    /\ chan = [c \in Channels |-> <<>>]
    /\ nextId = 1
    /\ replies = [r \in RequestIds |-> <<>>]
    /\ waiting = [c \in BusClients |-> 0]
    /\ busy = <<>>
    /\ drained = 0
    /\ stuck = {}
    /\ served = [s \in Services |-> <<>>]
    /\ got = [asked |-> 0, taken |-> 0]

------------------------------------------------------------------------------
Envelope(class, id) == [class |-> class, id |-> id]

\* LockedBus::send and send_request: a copy for every subscriber.
Broadcast(b, e) == [s \in DOMAIN b |-> Append(b[s], e)]

\* LockedBus::subscribe.
Subscribed(b, s) == [x \in DOMAIN b \cup {s} |-> IF x = s THEN <<>> ELSE b[x]]

\* Mutant of Route: a kernel that also hands Device envelopes to the file service.
RouteAll(class) ==
    CASE class = "Interrupt" -> {"intr"}
      [] class \in {"Process", "Syscall"} -> {"process"}
      [] class = "Memory" -> {"memory"}
      [] OTHER -> {"file"}

\* Where Kernel::route sends a class; Device envelopes go nowhere.
Route(class) ==
    CASE class = "Interrupt" -> {"intr"}
      [] class \in {"Process", "Syscall"} -> {"process"}
      [] class = "Memory" -> {"memory"}
      [] class = "File" -> {"file"}
      [] class = "Device" -> {}

\* Mutant of ResponseChannel: one channel, whatever the request.
SharedChannel(id) == 1

\* The channel on which the response to a request arrives.
ResponseChannel(id) == id

\* A client can be asked for a request when it waits for none.
CanRequest(c) == waiting[c] = 0 /\ nextId <= MaxRequests

\* send_request, and the wait that follows it.
Requested(c, class) ==
    /\ bus' = Broadcast(bus, Envelope(class, nextId))
    /\ waiting' = [waiting EXCEPT ![c] = nextId]
    /\ nextId' = nextId + 1

------------------------------------------------------------------------------
\* DeviceService::new, some time after the kernel subscribed.
DeviceSubscribes ==
    /\ "device" \notin DOMAIN bus
    /\ bus' = Subscribed(bus, "device")
    /\ UNCHANGED <<chan, nextId, replies, waiting, busy, drained, stuck, served, got>>

\* Shell::send_and_wait.
ShellRequests(class) ==
    /\ class \in {"Process", "Memory", "File", "Device"}
    /\ CanRequest("shell")
    /\ Requested("shell", class)
    /\ UNCHANGED <<chan, replies, busy, drained, stuck, served, got>>

\* A fire-and-forget message: an interrupt of the CPU or the timer.
InterruptSent ==
    /\ \A s \in DOMAIN bus : bus[s] = <<>>
    /\ chan["intr"] = <<>>
    /\ bus' = Broadcast(bus, Envelope("Interrupt", 0))
    /\ UNCHANGED <<chan, nextId, replies, waiting, busy, drained, stuck, served, got>>

\* Kernel::run and Kernel::route.
KernelRoutes ==
    /\ bus["kernel"] # <<>>
    /\ LET e == Head(bus["kernel"]) IN
       /\ bus' = [bus EXCEPT !["kernel"] = Tail(@)]
       /\ chan' = [c \in Channels |->
                     IF c \in Route(e.class) THEN Append(chan[c], e) ELSE chan[c]]
    /\ UNCHANGED <<nextId, replies, waiting, busy, drained, stuck, served, got>>

\* Envelope::respond_success, respond_error: nothing without a channel.
Respond(id, answers) ==
    replies' = IF id = 0 THEN replies
               ELSE [replies EXCEPT ![ResponseChannel(id)] =
                        @ \o [i \in 1 .. answers |-> id]]

Handled(s, e) ==
    served' = IF e.id = 0 THEN served ELSE [served EXCEPT ![s] = Append(@, e.id)]

\* The memory and the file service take the next envelope and answer it, twice
\* when the handler answers its own error and handle_envelope does so again.
ServiceServes(s, answers) ==
    /\ s \in {"memory", "file"} \ stuck /\ chan[s] # <<>>
    /\ LET e == Head(chan[s]) IN Respond(e.id, answers) /\ Handled(s, e)
    /\ chan' = [chan EXCEPT ![s] = Tail(@)]
    /\ UNCHANGED <<bus, nextId, waiting, busy, drained, stuck, got>>

\* The swap-in path of the fault handler never returns.
MemoryHangs ==
    /\ "memory" \notin stuck /\ chan["memory"] # <<>>
    /\ stuck' = stuck \cup {"memory"}
    /\ chan' = [chan EXCEPT !["memory"] = Tail(@)]
    /\ UNCHANGED <<bus, nextId, replies, waiting, busy, drained, served, got>>

\* DeviceService::handle_envelope: every class but Device is ignored.
DeviceServes ==
    /\ "device" \in DOMAIN bus /\ bus["device"] # <<>>
    /\ LET e == Head(bus["device"]) IN
       IF e.class = "Device" THEN Respond(e.id, 1) /\ Handled("device", e)
       ELSE UNCHANGED <<replies, served>>
    /\ bus' = [bus EXCEPT !["device"] = Tail(@)]
    /\ UNCHANGED <<chan, nextId, waiting, busy, drained, stuck, got>>

UnchangedByLoop == UNCHANGED <<nextId, waiting, stuck, got>>

\* Mutant of Counted: a loop that takes interrupts as long as there are any.
Uncounted == drained

\* ProcessService::run counts the interrupts it takes, and after MaxDrain of them at the
\* latest it looks at its requests.
Counted == drained + 1

\* The next interrupt: a tick, which runs programs and handles their faults and calls.
ProcessTicks ==
    /\ busy = <<>> /\ chan["intr"] # <<>> /\ drained < MaxDrain
    /\ busy' = <<Head(chan["intr"])>>
    /\ chan' = [chan EXCEPT !["intr"] = Tail(@)]
    /\ drained' = Counted
    /\ UNCHANGED <<bus, replies, served>> /\ UnchangedByLoop

\* Then one envelope, if there is one, and the interrupts again.
ProcessLooks ==
    /\ busy = <<>> /\ (chan["intr"] = <<>> \/ drained = MaxDrain)
    /\ drained' = 0
    /\ IF chan["process"] = <<>> THEN UNCHANGED <<busy, chan, served>>
       ELSE /\ busy' = <<Head(chan["process"])>>
            /\ chan' = [chan EXCEPT !["process"] = Tail(@)]
            /\ Handled("process", Head(chan["process"]))
    /\ UNCHANGED <<bus, replies>> /\ UnchangedByLoop

\* The handler of a tick or a request asks another service, once or several times: for
\* the page of a fault, the frames of a fork, a program, a file, a device.
ProcessAsks(class) ==
    /\ busy # <<>> /\ "process" \notin stuck
    /\ CanRequest("process")
    /\ Requested("process", class)
    /\ UNCHANGED <<chan, replies, busy, drained, stuck, served, got>>

\* It ends, with no answer to a request that waits for a child, and a second one when
\* handle_envelope answers an error that the handler has answered already.
ProcessEnds(answers) ==
    /\ busy # <<>> /\ "process" \notin stuck /\ waiting["process"] = 0
    /\ Respond(Head(busy).id, answers)
    /\ busy' = <<>>
    /\ UNCHANGED <<bus, chan, drained, served>> /\ UnchangedByLoop

\* A tick that locks cpus again never does.
ProcessHangs ==
    /\ busy # <<>> /\ "process" \notin stuck /\ waiting["process"] = 0
    /\ Head(busy).class = "Interrupt"
    /\ stuck' = stuck \cup {"process"}
    /\ UNCHANGED <<bus, chan, nextId, replies, waiting, busy, drained, served, got>>

\* recv_timeout returns the first answer in the channel of the request.
ClientTakes(c) ==
    /\ waiting[c] # 0 /\ replies[ResponseChannel(waiting[c])] # <<>>
    /\ got' = [asked |-> waiting[c],
               taken |-> Head(replies[ResponseChannel(waiting[c])])]
    /\ waiting' = [waiting EXCEPT ![c] = 0]
    /\ UNCHANGED <<bus, chan, nextId, replies, busy, drained, stuck, served>>

\* recv_timeout gives up; the answer may still be on its way.
ClientGivesUp(c) ==
    /\ waiting[c] # 0
    /\ waiting' = [waiting EXCEPT ![c] = 0]
    /\ UNCHANGED <<bus, chan, nextId, replies, busy, drained, stuck, served, got>>

\* A step of the process service's own.
ProcessRuns ==
    \/ ProcessTicks \/ ProcessLooks
    \/ \E class \in {"Memory", "File", "Device"} : ProcessAsks(class)
    \/ \E answers \in 0 .. 2 : ProcessEnds(answers)

BusNext ==
    \/ DeviceSubscribes \/ InterruptSent \/ KernelRoutes \/ MemoryHangs \/ ProcessHangs
    \/ DeviceServes \/ ProcessRuns
    \/ \E class \in Classes : ShellRequests(class)
    \/ \E s \in Services, answers \in 1 .. 2 : ServiceServes(s, answers)
    \/ \E c \in BusClients : ClientTakes(c) \/ ClientGivesUp(c)

BusSpec == BusInit /\ [][BusNext]_busVars

\* Every thread loops for ever unless it is stuck, every wait for an answer has a timeout,
\* and a handler asks other services only finitely often (here, as ids last).
BusFairness ==
    /\ WF_busVars(KernelRoutes) /\ WF_busVars(DeviceServes)
    /\ \A s \in {"memory", "file"} : WF_busVars(\E n \in 1 .. 2 : ServiceServes(s, n))
    /\ WF_busVars(ProcessRuns)
    /\ \A c \in BusClients : WF_busVars(ClientGivesUp(c))

------------------------------------------------------------------------------
BusTypeOK ==
    /\ DOMAIN bus \in {{"kernel"}, {"kernel", "device"}}
    /\ nextId \in 1 .. MaxRequests + 1
    /\ waiting \in [BusClients -> 0 .. MaxRequests]
    /\ Len(busy) <= 1 /\ drained \in 0 .. MaxDrain /\ stuck \subseteq {"memory", "process"}

(* The answer a client takes is the answer to the request it asked, even    *)
(* when answers to requests it gave up on are still arriving (send_request, *)
(* Envelope::with_response).                                                *)
AnswerMatchesRequest == got.asked = got.taken

Count(r, q) == Cardinality({i \in DOMAIN q : q[i] = r})

(* A request takes effect at most once and in one service only, although    *)
(* every subscriber gets a copy of it and its client may have given up      *)
(* (LockedBus::send_request, Kernel::route), and each service handles the   *)
(* requests in the order in which they were sent.                           *)
HandledOnceInOrder ==
    /\ \A r \in RequestIds :
         \A s, t \in Services :
            Count(r, served[s]) + (IF s = t THEN 0 ELSE Count(r, served[t])) <= 1
    /\ \A s \in Services : \A i, j \in DOMAIN served[s] :
            i < j => served[s][i] < served[s][j]

(* Every request sent to the process service is taken and done with, and     *)
(* every wait of the shell and of the process service ends, whatever the      *)
(* memory service does, even if it hangs, whoever gives up, however many      *)
(* interrupts keep coming and whatever the ticks ask: the timeouts and the    *)
(* limit on the interrupts keep the system going.  The one exception is a     *)
(* tick that waits for itself: then the process service takes nothing more,   *)
(* but the shell still gets its prompt back.                                  *)
EveryRequestServed ==
    /\ \A r \in RequestIds :
         (\E i \in DOMAIN bus["kernel"] :
              bus["kernel"][i] = Envelope("Process", r))
            ~> \/ /\ \E i \in DOMAIN served["process"] : served["process"][i] = r
                  /\ busy = <<>> \/ Head(busy).id # r
               \/ "process" \in stuck
    /\ \A c \in BusClients : (waiting[c] # 0) ~> (waiting[c] = 0)
==============================================================================

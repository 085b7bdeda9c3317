------------------------------- MODULE OscServer -------------------------------
(***************************************************************************)
(* osc_server: the receiving thread, start() and stop() of its owner, and  *)
(* threads that send through the same socket (the control thread on        *)
(* msg_osc, the sender thread that drains the scheduler's OSC queue).      *)
(*                                                                         *)
(* sock_ is a plain int that all of them read and stop() writes.  The      *)
(* socket is a descriptor that is open or closed; each access of sock_ and *)
(* each system call on the descriptor it held is a step of its own.  What  *)
(* the Lua participant does with a packet is in LuaParticipant.            *)
(***************************************************************************)
EXTENDS Naturals, Sequences

CONSTANTS
    Clients,    \* the peers that send packets
    Senders,    \* the threads that call send_event() or send_osc()
    Wired,      \* dispatch_fns_ has been set
    QueueBound, \* events the input queue holds
    MaxPackets, \* bound: packets received
    MaxStarts   \* bound: calls of start()

ASSUME OscAssumption ==
    /\ Wired \in BOOLEAN /\ QueueBound \in Nat \ {0}
    /\ MaxPackets \in Nat /\ MaxStarts \in Nat

\* What handle_packet() tells apart: a packet too short or malformed, a static
\* route, a request for the endpoints, any other path.
Kinds == {"malformed", "static", "endpoints", "other"}

NoClient == "none"

VARIABLES
    running,  \* running_
    sock,     \* sock_: a descriptor, numbered by start() calls, or 0 for -1
    open,     \* the descriptors that are open
    starts,   \* start() calls so far
    opc,      \* where the owner is
    rpc,      \* where the receiving thread is
    packet,   \* the packet it handles: [kind, from, n]
    packets,  \* packets received so far
    last,     \* last_sender_ and has_sender_
    queue,    \* queue_: the numbers of the packets
    queued,   \* history: the packets queue_ has accepted
    wanted,   \* history: the well-formed static packets received
    dispatched, \* history: packets given to dispatch_fns_.dispatch
    replies,  \* history: endpoint lists sent: [to, for]
    spc,      \* where each sending thread is
    sfd       \* the descriptor it is about to send on

owner    == <<starts, opc>>
receiver == <<rpc, packet, packets, last, queued, wanted, dispatched, replies>>
sending  == <<spc, sfd>>
vars     == <<running, sock, open, owner, receiver, queue, sending>>

Init ==
    /\ running = FALSE /\ sock = 0 /\ open = {} /\ starts = 0 /\ opc = "idle"
    /\ rpc = "none" /\ packets = 0
    /\ packet = [kind |-> "malformed", from |-> NoClient, n |-> 0]
    /\ last = NoClient /\ queue = <<>> /\ queued = <<>> /\ wanted = <<>>
    /\ dispatched = <<>> /\ replies = <<>>
    /\ spc = [s \in Senders |-> "idle"] /\ sfd = [s \in Senders |-> 0]

-----------------------------------------------------------------------------
(* The owner                                                               *)

\* start() when the server is stopped; socket() and bind() may fail, and leave
\* sock_ at -1.
Start ==
    /\ opc = "idle" /\ ~running /\ starts < MaxStarts
    /\ starts' = starts + 1
    /\ \/ /\ sock' = starts' /\ open' = open \cup {starts'}
          /\ running' = TRUE /\ rpc' = "test"
       \/ sock' = 0 /\ UNCHANGED <<open, running, rpc>>
    /\ UNCHANGED <<opc, packet, packets, last, queue, queued, wanted, dispatched, replies, sending>>

\* Mutant: the flag stays set.
StopBeginKeepsRunning ==
    /\ opc = "idle" /\ running
    /\ opc' = "close"
    /\ UNCHANGED <<running, sock, open, starts, receiver, queue, sending>>

\* if (!running_.exchange(false)) return
StopBegin ==
    /\ opc = "idle" /\ running
    /\ running' = FALSE
    /\ opc' = "close"
    /\ UNCHANGED <<sock, open, starts, receiver, queue, sending>>

\* ::close(sock_)
StopClose ==
    /\ opc = "close"
    /\ open' = open \ {sock}
    /\ opc' = "clear"
    /\ UNCHANGED <<running, sock, starts, receiver, queue, sending>>

\* sock_ = -1
StopClear ==
    /\ opc = "clear"
    /\ sock' = 0
    /\ opc' = "join"
    /\ UNCHANGED <<running, open, starts, receiver, queue, sending>>

\* thread_.join()
StopJoin ==
    /\ opc = "join" /\ rpc = "done"
    /\ opc' = "idle" /\ rpc' = "none"
    /\ UNCHANGED <<running, sock, open, starts, packet, packets, last, queue, queued, wanted,
                   dispatched, replies, sending>>

-----------------------------------------------------------------------------
(* The receiving thread                                                    *)

\* while (running_)
RunTest ==
    /\ rpc = "test"
    /\ rpc' = IF running THEN "receive" ELSE "done"
    /\ UNCHANGED <<running, sock, open, owner, packet, packets, last, queue, queued, wanted,
                   dispatched, replies, sending>>

\* recvfrom(sock_, ...) blocks, or fails at once on a closed descriptor.
ReceiveBegin ==
    /\ rpc = "receive"
    /\ rpc' = IF sock \in open THEN "blocked" ELSE "test"
    /\ UNCHANGED <<running, sock, open, owner, packet, packets, last, queue, queued, wanted,
                   dispatched, replies, sending>>

\* recvfrom() times out after 100 ms.
ReceiveTimesOut ==
    /\ rpc = "blocked"
    /\ rpc' = "test"
    /\ UNCHANGED <<running, sock, open, owner, packet, packets, last, queue, queued, wanted,
                   dispatched, replies, sending>>

\* recvfrom() returns a packet, also when the descriptor was closed meanwhile.
Receive(kind, from) ==
    /\ rpc = "blocked" /\ packets < MaxPackets
    /\ packets' = packets + 1
    /\ packet' = [kind |-> kind, from |-> from, n |-> packets + 1]
    /\ wanted' = IF kind = "static" THEN Append(wanted, packets + 1) ELSE wanted
    /\ rpc' = "record"
    /\ UNCHANGED <<running, sock, open, owner, last, queue, queued, dispatched, replies, sending>>

\* last_sender_ = sender; has_sender_ = true
RecordSender ==
    /\ rpc = "record"
    /\ last' = packet.from
    /\ rpc' = "handle"
    /\ UNCHANGED <<running, sock, open, owner, packet, packets, queue, queued, wanted,
                   dispatched, replies, sending>>

\* Mutant: a packet with a static route falls through to the dispatcher as well.
HandleStaticFallsThrough ==
    /\ rpc = "handle" /\ packet.kind = "static"
    /\ IF Len(queue) < QueueBound
       THEN queue' = Append(queue, packet.n) /\ queued' = Append(queued, packet.n)
       ELSE UNCHANGED <<queue, queued>>
    /\ dispatched' = IF Wired THEN Append(dispatched, packet.n) ELSE dispatched
    /\ rpc' = "test"
    /\ UNCHANGED <<running, sock, open, owner, packet, packets, last, wanted, replies, sending>>

\* /nous/note/on, /nous/note/off and /nous/midi: queue_.push(ev); a full queue drops it.
HandleStatic ==
    /\ rpc = "handle" /\ packet.kind = "static"
    /\ IF Len(queue) < QueueBound
       THEN queue' = Append(queue, packet.n) /\ queued' = Append(queued, packet.n)
       ELSE UNCHANGED <<queue, queued>>
    /\ rpc' = "test"
    /\ UNCHANGED <<running, sock, open, owner, packet, packets, last, wanted, dispatched, replies,
                   sending>>

\* /nous/endpoints: the list goes to the last sender, if sock_ is still set.
HandleEndpoints ==
    /\ rpc = "handle" /\ packet.kind = "endpoints"
    /\ replies' = IF Wired /\ last # NoClient /\ sock # 0
                  THEN Append(replies, [to |-> last, for |-> packet.from]) ELSE replies
    /\ rpc' = "test"
    /\ UNCHANGED <<running, sock, open, owner, packet, packets, last, queue, queued, wanted,
                   dispatched, sending>>

\* Anything else: dispatch_fns_.dispatch if it is set; a malformed packet is ignored.
HandleOther ==
    /\ rpc = "handle" /\ packet.kind \in {"other", "malformed"}
    /\ dispatched' = IF Wired /\ packet.kind = "other" THEN Append(dispatched, packet.n)
                                                       ELSE dispatched
    /\ rpc' = "test"
    /\ UNCHANGED <<running, sock, open, owner, packet, packets, last, queue, queued, wanted,
                   replies, sending>>

\* The audio thread takes an event.
Consume ==
    /\ queue # <<>>
    /\ queue' = Tail(queue)
    /\ UNCHANGED <<running, sock, open, owner, receiver, sending>>

-----------------------------------------------------------------------------
(* Sending threads: send_udp()                                             *)

\* if (sock_ < 0) return; sfd is the value of sock_ that sendto() is called with,
\* from this read or, when the compiler repeats it, from one just after.
SendCheck(s) ==
    /\ spc[s] = "idle" /\ sock # 0
    /\ spc' = [spc EXCEPT ![s] = "send"]
    /\ sfd' = [sfd EXCEPT ![s] = sock]
    /\ UNCHANGED <<running, sock, open, owner, receiver, queue>>

\* ::sendto(sock_, ...)
SendTo(s) ==
    /\ spc[s] = "send"
    /\ spc' = [spc EXCEPT ![s] = "idle"]
    /\ sfd' = [sfd EXCEPT ![s] = 0]
    /\ UNCHANGED <<running, sock, open, owner, receiver, queue>>

-----------------------------------------------------------------------------

Stopping == StopClose \/ StopClear \/ StopJoin

Handle == HandleStatic \/ HandleEndpoints \/ HandleOther

Receiving ==
    \/ RunTest \/ ReceiveBegin \/ ReceiveTimesOut \/ RecordSender \/ Handle
    \/ \E kind \in Kinds, from \in Clients : Receive(kind, from)

Next ==
    \/ Start \/ StopBegin \/ Stopping
    \/ Receiving \/ Consume
    \/ \E s \in Senders : SendCheck(s) \/ SendTo(s)

Spec == Init /\ [][Next]_vars

-----------------------------------------------------------------------------

(* The receiving thread lives exactly from start() to the join() of stop(), so that
   a server that is started again never has two threads on its socket; and running_
   means a socket that is open and in sock_. *)
LifeCycle ==
    /\ running => rpc \notin {"none", "done"} /\ opc = "idle" /\ sock # 0 /\ sock \in open
    /\ opc # "idle" => rpc # "none"
    /\ opc = "idle" /\ ~running => rpc = "none" /\ open = {} /\ sock = 0

(* A packet takes one route, and to the right end: every reply to /nous/endpoints
   goes to the client that asked, although the address is read back from the shared
   last_sender_; what reaches the input queue is a well-formed static packet, in the
   order of arrival, and is not dispatched to Lua as well. *)
RoutedToItsEnd ==
    /\ \A r \in DOMAIN replies : replies[r].to = replies[r].for
    /\ \A i, j \in DOMAIN queued : i < j => queued[i] < queued[j]
    /\ \A i \in DOMAIN queued :
          /\ \E k \in DOMAIN wanted : wanted[k] = queued[i]
          /\ \A k \in DOMAIN dispatched : dispatched[k] # queued[i]

(* send_osc() and send_event(): "Safe to call from any thread once start() has run":
   no datagram is sent on a descriptor that has been closed. *)
SendsOnOpenSocket == \A s \in Senders : spc[s] = "send" => sfd[s] \in open
================================================================================

---------------------------- MODULE EndpointProofs -----------------------------
(***************************************************************************)
(* Proofs about the process's endpoints, for any number of messages, and   *)
(* about the modulator whose proof needs cardinalities as theirs does.     *)
(*                                                                         *)
(* osc_server for every set of clients and sending threads, every queue    *)
(* bound and any number of starts and packets: the life of the receiving   *)
(* thread and the routes of packets.  The two need different parts of the  *)
(* state, and each has an inductive invariant of its own.                  *)
(*                                                                         *)
(* nomos-mcp for every set of requests and any number of them, of frames   *)
(* pushed at it and of failures of kairos: each request is answered once.  *)
(*                                                                         *)
(* shift_register_modulator for every length: the periods of its loops,    *)
(* and that an lfsr never runs dry.                                        *)
(***************************************************************************)
EXTENDS OscServer, McpBridge, ShiftRegister, FiniteSetTheorems, TLAPS

-----------------------------------------------------------------------------
(* osc_server                                                              *)

\* LifeCycle, and what stop() has done at each of its steps: the one descriptor that can
\* be open is the one in sock_.
LifeInv ==
    /\ running \in BOOLEAN /\ starts \in Nat
    /\ opc \in {"idle", "close", "clear", "join"}
    /\ rpc \in {"none", "test", "receive", "blocked", "record", "handle", "done"}
    /\ LifeCycle
    /\ open \subseteq {sock}
    /\ opc \in {"clear", "join"} => open = {}
    /\ opc = "join" => sock = 0

LEMMA LifeInit == Init => LifeInv
<1> SUFFICES ASSUME Init PROVE LifeInv
  OBVIOUS
<1>1. running = FALSE /\ sock = 0 /\ open = {} /\ starts = 0 /\ opc = "idle" /\ rpc = "none"
  BY DEF Init
<1>2. LifeCycle
  BY <1>1 DEF LifeCycle
<1> QED BY <1>1, <1>2, Zenon DEF LifeInv

\* start(), whether it gets its socket or not.
LEMMA StartKeepsLife == LifeInv /\ Start => LifeInv'
<1> SUFFICES ASSUME LifeInv, Start PROVE LifeInv'
  OBVIOUS
<1>1. open = {} /\ sock = 0 /\ rpc = "none" /\ opc = "idle" /\ opc' = "idle"
  BY DEF Start, LifeInv, LifeCycle
<1>2. starts' \in Nat /\ starts' # 0
  BY DEF Start, LifeInv
<1>3. CASE sock' = starts' /\ open' = open \cup {starts'} /\ running' = TRUE /\ rpc' = "test"
  BY <1>1, <1>2, <1>3 DEF LifeInv, LifeCycle
<1>4. CASE sock' = 0 /\ UNCHANGED <<open, running, rpc>>
  <2>1. ~running
    BY DEF Start
  <2> QED BY <1>1, <1>2, <1>4, <2>1 DEF LifeInv, LifeCycle
<1> QED BY <1>3, <1>4, Zenon DEF Start

\* The receiving thread leaves its loop only when running_ is false.
LEMMA ReceivingKeepsLife == LifeInv /\ Receiving => LifeInv'
<1> SUFFICES ASSUME LifeInv, Receiving PROVE LifeInv'
  OBVIOUS
<1>1. /\ UNCHANGED <<running, sock, open, starts, opc>>
      /\ rpc \notin {"none", "done"}
      /\ rpc' \in {"test", "receive", "blocked", "record", "handle", "done"}
      /\ rpc' = "done" => ~running
  BY DEF Receiving, RunTest, ReceiveBegin, ReceiveTimesOut, RecordSender, Receive, Handle,
     HandleStatic, HandleEndpoints, HandleOther, owner
<1> QED BY <1>1 DEF LifeInv, LifeCycle

(* LifeInv is kept by every step of the owner, of the receiving thread and of others. *)
THEOREM LifeInvariance == Spec => []LifeInv
<1>1. LifeInv /\ [Next]_vars => LifeInv'
  <2> SUFFICES ASSUME LifeInv, [Next]_vars PROVE LifeInv'
    OBVIOUS
  <2>1. CASE StopBegin
    BY <2>1, Zenon DEF StopBegin, LifeInv, LifeCycle, receiver
  <2>2. CASE StopClose
    BY <2>2 DEF StopClose, LifeInv, LifeCycle, receiver
  <2>3. CASE StopClear
    BY <2>3 DEF StopClear, LifeInv, LifeCycle, receiver
  <2>4. CASE StopJoin
    BY <2>4 DEF StopJoin, LifeInv, LifeCycle
  <2>5. ASSUME UNCHANGED <<running, sock, open, owner, rpc>> PROVE LifeInv'
    BY <2>5 DEF LifeInv, LifeCycle, owner
  <2>6. CASE Consume \/ (\E s \in Senders : SendCheck(s) \/ SendTo(s)) \/ UNCHANGED vars
    BY <2>5, <2>6 DEF Consume, SendCheck, SendTo, receiver, vars
  <2> QED BY <2>1, <2>2, <2>3, <2>4, <2>6, StartKeepsLife, ReceivingKeepsLife
             DEF Next, Stopping
<1> QED BY LifeInit, <1>1, PTL DEF Spec

(* One receiving thread per start(), none after stop(), and running_ means an open
   socket, for any number of restarts. *)
THEOREM LifeCycleHolds == Spec => []LifeCycle
<1>1. LifeInv => LifeCycle
  BY DEF LifeInv
<1> QED BY LifeInvariance, <1>1, PTL

-----------------------------------------------------------------------------

\* A packet has been received and not yet handled.
InHand == rpc \in {"record", "handle"}

\* The packets before the one in hand.
Older == IF InHand THEN packets - 1 ELSE packets

\* RoutedToItsEnd, and what the packet in hand adds to it: it has the last number, it is
\* wanted if it is a static one, and last_sender_ is its sender once it is recorded.
RouteInv ==
    /\ packets \in Nat
    /\ InHand => packets > 0 /\ packet.n = packets
    /\ rpc = "handle" => last = packet.from
    /\ queued \in Seq(Nat) /\ dispatched \in Seq(Nat) /\ wanted \in Seq(Nat)
    /\ replies \in Seq([to : {NoClient} \cup Clients, for : {NoClient} \cup Clients])
    /\ packet.from \in {NoClient} \cup Clients
    /\ \A i \in DOMAIN queued : queued[i] <= Older
    /\ \A i \in DOMAIN dispatched : dispatched[i] <= Older
    /\ InHand /\ packet.kind = "static" => \E k \in DOMAIN wanted : wanted[k] = packet.n
    /\ RoutedToItsEnd

routeVars == <<packets, packet, rpc, last, queued, dispatched, wanted, replies>>

LEMMA RouteInit == Init => RouteInv
  BY DEF Init, RouteInv, InHand, Older, RoutedToItsEnd

\* A step between two packets.
LEMMA RouteWaits ==
    ASSUME RouteInv, ~InHand, ~InHand',
           UNCHANGED <<packets, packet, last, queued, dispatched, wanted, replies>>
    PROVE  RouteInv'
  BY DEF RouteInv, InHand, Older, RoutedToItsEnd

\* What Append does to the elements of a sequence.
LEMMA Appended ==
    ASSUME NEW S, NEW s \in Seq(S), NEW e \in S
    PROVE  /\ Append(s, e) \in Seq(S)
           /\ DOMAIN s = 1 .. Len(s) /\ Len(s) \in Nat
           /\ DOMAIN Append(s, e) = 1 .. (Len(s) + 1)
           /\ \A i \in DOMAIN s : Append(s, e)[i] = s[i]
           /\ Append(s, e)[Len(s) + 1] = e
           /\ \A i \in DOMAIN Append(s, e) : i \in DOMAIN s \/ i = Len(s) + 1
  OBVIOUS

LEMMA ReceiveKeepsRoutes ==
    ASSUME RouteInv, NEW kind \in Kinds, NEW from \in Clients, Receive(kind, from)
    PROVE  RouteInv'
<1>1. /\ rpc = "blocked" /\ rpc' = "record" /\ packets' = packets + 1
      /\ packet' = [kind |-> kind, from |-> from, n |-> packets + 1]
      /\ wanted' = IF kind = "static" THEN Append(wanted, packets + 1) ELSE wanted
      /\ UNCHANGED <<last, queued, dispatched, replies>>
  BY DEF Receive
<1>2. InHand' /\ ~InHand /\ Older' = packets /\ Older = packets /\ packets \in Nat
  BY <1>1 DEF InHand, Older, RouteInv
<1>3. /\ wanted' \in Seq(Nat)
      /\ \A k \in DOMAIN wanted : k \in DOMAIN wanted' /\ wanted'[k] = wanted[k]
      /\ kind = "static" => \E k \in DOMAIN wanted' : wanted'[k] = packets + 1
  <2>1. CASE kind = "static"
    <3>1. packets + 1 \in Nat /\ wanted \in Seq(Nat)
      BY DEF RouteInv
    <3>2. Len(wanted) + 1 \in DOMAIN wanted'
      BY <1>1, <2>1, <3>1, Appended
    <3> QED BY <1>1, <2>1, <3>1, <3>2, Appended
  <2>2. CASE kind # "static"
    BY <1>1, <2>2 DEF RouteInv
  <2> QED BY <2>1, <2>2
<1>4. RoutedToItsEnd'
  BY <1>1, <1>3 DEF RouteInv, RoutedToItsEnd
<1> QED BY <1>1, <1>2, <1>3, <1>4 DEF RouteInv

LEMMA RecordKeepsRoutes == RouteInv /\ RecordSender => RouteInv'
  BY DEF RecordSender, RouteInv, InHand, Older, RoutedToItsEnd

\* The newest packet joins the queued ones, or is dropped.
LEMMA StaticKeepsRoutes == RouteInv /\ HandleStatic => RouteInv'
<1> SUFFICES ASSUME RouteInv, HandleStatic PROVE RouteInv'
  OBVIOUS
<1>1. /\ rpc = "handle" /\ rpc' = "test" /\ packet.kind = "static"
      /\ queued' = Append(queued, packet.n) \/ queued' = queued
      /\ UNCHANGED <<packets, packet, last, wanted, dispatched, replies>>
  BY DEF HandleStatic
<1>2. /\ InHand /\ ~InHand' /\ Older = packets - 1 /\ Older' = packets
      /\ packets \in Nat /\ packet.n = packets
      /\ \E k \in DOMAIN wanted : wanted[k] = packets
  BY <1>1 DEF InHand, Older, RouteInv
<1>3. \A i \in DOMAIN queued : queued[i] \in Nat /\ queued[i] < packets
  BY <1>2 DEF RouteInv
<1>4. \A i \in DOMAIN dispatched : dispatched[i] \in Nat /\ dispatched[i] < packets
  BY <1>2 DEF RouteInv
<1>5. CASE queued' = queued
  <2>1. RoutedToItsEnd'
    BY <1>1, <1>5 DEF RouteInv, RoutedToItsEnd
  <2> QED BY <1>1, <1>2, <1>3, <1>4, <1>5, <2>1 DEF RouteInv
<1>6. CASE queued' = Append(queued, packet.n)
  <2>1. /\ queued' \in Seq(Nat) /\ DOMAIN queued = 1 .. Len(queued) /\ Len(queued) \in Nat
        /\ \A i \in DOMAIN queued : queued'[i] = queued[i]
        /\ queued'[Len(queued) + 1] = packets
        /\ \A i \in DOMAIN queued' : i \in DOMAIN queued \/ i = Len(queued) + 1
    <3>1. queued \in Seq(Nat)
      BY DEF RouteInv
    <3> QED BY <1>2, <1>6, <3>1, Appended
  <2>2. \A i \in DOMAIN queued' : queued'[i] <= packets
    BY <1>2, <1>3, <2>1
  <2>3. \A i, j \in DOMAIN queued' : i < j => queued'[i] < queued'[j]
    <3> SUFFICES ASSUME NEW i \in DOMAIN queued', NEW j \in DOMAIN queued', i < j
                 PROVE  queued'[i] < queued'[j]
      OBVIOUS
    <3>1. i \in DOMAIN queued
      BY <2>1
    <3>2. CASE j \in DOMAIN queued
      BY <2>1, <3>1, <3>2 DEF RouteInv, RoutedToItsEnd
    <3>3. CASE j = Len(queued) + 1
      BY <1>3, <2>1, <3>1, <3>3
    <3> QED BY <2>1, <3>2, <3>3
  <2>4. ASSUME NEW i \in DOMAIN queued'
        PROVE  /\ \E k \in DOMAIN wanted : wanted[k] = queued'[i]
               /\ \A k \in DOMAIN dispatched : dispatched[k] # queued'[i]
    <3>1. CASE i \in DOMAIN queued
      BY <2>1, <3>1, Zenon DEF RouteInv, RoutedToItsEnd
    <3>2. CASE i = Len(queued) + 1
      BY <1>2, <1>4, <2>1, <3>2
    <3> QED BY <2>1, <3>1, <3>2
  <2>5. RoutedToItsEnd'
    BY <1>1, <2>3, <2>4 DEF RouteInv, RoutedToItsEnd
  <2> QED BY <1>1, <1>2, <1>4, <2>1, <2>2, <2>5 DEF RouteInv
<1> QED BY <1>1, <1>5, <1>6

\* The answer goes to last_sender_, which is the sender of the packet in hand.
LEMMA EndpointsKeepRoutes == RouteInv /\ HandleEndpoints => RouteInv'
<1> SUFFICES ASSUME RouteInv, HandleEndpoints PROVE RouteInv'
  OBVIOUS
<1> DEFINE Replies == [to : {NoClient} \cup Clients, for : {NoClient} \cup Clients]
           reply   == [to |-> packet.from, for |-> packet.from]
<1>1. /\ rpc = "handle" /\ rpc' = "test" /\ last = packet.from
      /\ replies' = Append(replies, reply) \/ replies' = replies
      /\ UNCHANGED <<packets, packet, last, queued, wanted, dispatched>>
  BY DEF HandleEndpoints, RouteInv
<1>2. ~InHand' /\ InHand /\ Older' = packets /\ Older = packets - 1 /\ packets \in Nat
  BY <1>1 DEF InHand, Older, RouteInv
<1>3. replies \in Seq(Replies) /\ reply \in Replies
  BY DEF RouteInv
<1>4. replies' \in Seq(Replies) /\ \A r \in DOMAIN replies' : replies'[r].to = replies'[r].for
  <2>1. CASE replies' = replies
    BY <1>3, <2>1 DEF RouteInv, RoutedToItsEnd
  <2>2. CASE replies' = Append(replies, reply)
    <3>1. reply.to = reply.for
      OBVIOUS
    <3>2. /\ replies' \in Seq(Replies)
          /\ \A r \in DOMAIN replies : replies'[r] = replies[r]
          /\ replies'[Len(replies) + 1] = reply
          /\ \A r \in DOMAIN replies' : r \in DOMAIN replies \/ r = Len(replies) + 1
      <4> HIDE DEF Replies, reply
      <4> QED BY <1>3, <2>2, Appended
    <3>3. \A r \in DOMAIN replies : replies[r].to = replies[r].for
      BY DEF RouteInv, RoutedToItsEnd
    <3> HIDE DEF reply
    <3> QED BY <3>1, <3>2, <3>3
  <2> QED BY <1>1, <2>1, <2>2
<1>5. /\ \A i \in DOMAIN queued : queued[i] <= packets
      /\ \A i \in DOMAIN dispatched : dispatched[i] <= packets
  BY <1>2 DEF RouteInv
<1>6. RoutedToItsEnd'
  BY <1>1, <1>4 DEF RouteInv, RoutedToItsEnd
<1> QED BY <1>1, <1>2, <1>4, <1>5, <1>6 DEF RouteInv

\* A packet that goes to Lua is newer than every queued one.
LEMMA OtherKeepsRoutes == RouteInv /\ HandleOther => RouteInv'
<1> SUFFICES ASSUME RouteInv, HandleOther PROVE RouteInv'
  OBVIOUS
<1>1. /\ rpc = "handle" /\ rpc' = "test"
      /\ dispatched' = Append(dispatched, packet.n) \/ dispatched' = dispatched
      /\ UNCHANGED <<packets, packet, last, queued, wanted, replies>>
  BY DEF HandleOther
<1>2. /\ ~InHand' /\ InHand /\ Older' = packets /\ Older = packets - 1
      /\ packets \in Nat /\ packet.n = packets
  BY <1>1 DEF InHand, Older, RouteInv
<1>3. \A i \in DOMAIN queued : queued[i] \in Nat /\ queued[i] < packets
  BY <1>2 DEF RouteInv
<1>4. /\ dispatched' \in Seq(Nat)
      /\ \A i \in DOMAIN dispatched' : dispatched'[i] <= packets
      /\ \A i \in DOMAIN queued, k \in DOMAIN dispatched' : dispatched'[k] # queued[i]
  <2>1. CASE dispatched' = dispatched
    BY <1>2, <2>1 DEF RouteInv, RoutedToItsEnd
  <2>2. CASE dispatched' = Append(dispatched, packet.n)
    <3>1. /\ dispatched' \in Seq(Nat)
          /\ \A i \in DOMAIN dispatched : dispatched'[i] = dispatched[i]
          /\ dispatched'[Len(dispatched) + 1] = packets
          /\ \A i \in DOMAIN dispatched' : i \in DOMAIN dispatched \/ i = Len(dispatched) + 1
      <4>1. dispatched \in Seq(Nat)
        BY DEF RouteInv
      <4> QED BY <1>2, <2>2, <4>1, Appended
    <3>2. \A i \in DOMAIN dispatched : dispatched[i] \in Nat /\ dispatched[i] <= packets
      BY <1>2 DEF RouteInv
    <3>3. \A i \in DOMAIN queued, k \in DOMAIN dispatched : dispatched[k] # queued[i]
      BY DEF RouteInv, RoutedToItsEnd
    <3> QED BY <1>2, <1>3, <3>1, <3>2, <3>3
  <2> QED BY <1>1, <2>1, <2>2
<1>5. RoutedToItsEnd'
  BY <1>1, <1>4 DEF RouteInv, RoutedToItsEnd
<1> QED BY <1>1, <1>2, <1>3, <1>4, <1>5 DEF RouteInv

(* RouteInv is kept by every step, also while the server is stopped and restarted: a
   thread begins and ends with no packet in hand. *)
THEOREM RouteInvariance == Spec => []RouteInv
<1>1. LifeInv /\ RouteInv /\ [Next]_vars => RouteInv'
  <2> SUFFICES ASSUME LifeInv, RouteInv, [Next]_vars PROVE RouteInv'
    OBVIOUS
  <2>1. ASSUME UNCHANGED routeVars PROVE RouteInv'
    BY <2>1 DEF routeVars, RouteInv, InHand, Older, RoutedToItsEnd
  <2>2. CASE Start
    <3>1. rpc = "none" /\ rpc' \in {"none", "test"}
      BY <2>2 DEF Start, LifeInv, LifeCycle
    <3>2. UNCHANGED <<packets, packet, last, queued, dispatched, wanted, replies>>
      BY <2>2 DEF Start
    <3> QED BY <3>1, <3>2, RouteWaits DEF InHand
  <2>3. CASE StopBegin \/ StopClose \/ StopClear
    BY <2>1, <2>3 DEF StopBegin, StopClose, StopClear, receiver, routeVars
  <2>4. CASE StopJoin
    BY <2>4, RouteWaits DEF StopJoin, InHand
  <2>5. CASE RunTest \/ ReceiveBegin \/ ReceiveTimesOut
    BY <2>5, RouteWaits DEF RunTest, ReceiveBegin, ReceiveTimesOut, InHand
  <2>6. CASE Consume \/ (\E s \in Senders : SendCheck(s) \/ SendTo(s)) \/ UNCHANGED vars
    BY <2>1, <2>6 DEF Consume, SendCheck, SendTo, receiver, vars, routeVars
  <2> QED BY <2>2, <2>3, <2>4, <2>5, <2>6, ReceiveKeepsRoutes, RecordKeepsRoutes,
             StaticKeepsRoutes, EndpointsKeepRoutes, OtherKeepsRoutes
             DEF Next, Stopping, Receiving, Handle
<1> QED BY LifeInvariance, RouteInit, <1>1, PTL DEF Spec

(* Every reply goes to the client that asked, and every packet takes one route, in the
   order of arrival, for any clients and any queue bound. *)
THEOREM RoutesHold == Spec => []RoutedToItsEnd
<1>1. RouteInv => RoutedToItsEnd
  BY DEF RouteInv
<1> QED BY RouteInvariance, <1>1, PTL

-----------------------------------------------------------------------------
(* nomos-mcp                                                               *)

\* Place, for any set.
PlaceIn(S, m) == Cardinality({k \in S : k <= m})

\* A number above all of S comes last in S with it, and moves no other.
LEMMA LastPlace ==
  ASSUME NEW N \in Nat, NEW S \in SUBSET (1 .. N), NEW n \in Nat, n > N
  PROVE  /\ Cardinality(S) \in Nat /\ Cardinality(S \cup {n}) = Cardinality(S) + 1
         /\ PlaceIn(S \cup {n}, n) = Cardinality(S) + 1
         /\ \A m \in S : /\ PlaceIn(S \cup {n}, m) = PlaceIn(S, m)
                         /\ PlaceIn(S, m) \in 1 .. Cardinality(S)
<1>1. IsFiniteSet(S)
  <2>1. IsFiniteSet(1 .. N)
    BY FS_Interval
  <2> QED
    BY <2>1, FS_Subset, Zenon
<1>2. n <= n /\ n \notin S /\ \A k \in S : k \in Nat /\ k <= n /\ ~(n <= k)
  OBVIOUS
<1>3. Cardinality(S) \in Nat /\ Cardinality(S \cup {n}) = Cardinality(S) + 1
  <2>1. Cardinality(S) \in Nat
    BY <1>1, FS_CardinalityType
  <2>2. Cardinality(S \cup {n}) = IF n \in S THEN Cardinality(S) ELSE Cardinality(S) + 1
    BY <1>1, FS_AddElement
  <2> QED
    BY <1>2, <2>1, <2>2
<1>4. {k \in S \cup {n} : k <= n} = S \cup {n}
  BY <1>2, Zenon
<1>5. ASSUME NEW m \in S
      PROVE  /\ {k \in S \cup {n} : k <= m} = {k \in S : k <= m}
             /\ Cardinality({k \in S : k <= m}) \in 1 .. Cardinality(S)
  <2> DEFINE T == {k \in S : k <= m}
  <2>1. T \in SUBSET S /\ m \in T
    BY <1>2
  <2>2. IsFiniteSet(T) /\ Cardinality(T) <= Cardinality(S) /\ Cardinality(T) \in Nat
    BY <1>1, <2>1, FS_Subset, FS_CardinalityType
  <2>3. Cardinality(T) # 0
    BY <2>1, <2>2, FS_EmptySet
  <2>4. {k \in S \cup {n} : k <= m} = T
    BY <1>2
  <2> QED
    BY <1>3, <2>2, <2>3, <2>4
<1>6. PlaceIn(S \cup {n}, n) = Cardinality(S) + 1
  BY <1>3, <1>4, Zenon DEF PlaceIn
<1>7. \A m \in S : PlaceIn(S \cup {n}, m) = PlaceIn(S, m) /\ PlaceIn(S, m) \in 1 .. Cardinality(S)
  BY <1>5 DEF PlaceIn
<1> QED
  BY <1>3, <1>6, <1>7

\* What McpInv says of the types, and of the connection.
McpType ==
    /\ asked \in Seq([kind : Methods, hasId : BOOLEAN]) /\ written \in Seq([id : Nat, body : Bodies])
    /\ mpc \in {"read", "done", "connect", "write", "sending", "wait", "killed"}
    /\ mpc \notin {"read", "done"} =>
          Len(asked) > 0 /\ asked[Current].kind \in {"evaluate", "oversize"}

ConnectionInv ==
    /\ fds = IF mpc \in {"write", "sending", "wait"} THEN {Current} ELSE {}
    /\ frames \in Seq(Frames) /\ (frames = <<>> \/ Current \in fds)
    /\ \A i \in DOMAIN frames : frames[i].type = "answer" => frames[i].of = Current

LEMMA McpParts == McpInv <=> McpType /\ ConnectionInv /\ AnsweredOnce
BY DEF McpInv, McpType, ConnectionInv

\* A request that is answered.
IsAnswered(r) == r.kind # "initialized" /\ (r.hasId \/ r.kind # "unknown")

LEMMA FinishedType ==
  ASSUME McpType
  PROVE  /\ Finished \in Nat /\ Finished <= Len(asked) /\ Len(asked) \in Nat
         /\ Answered \in SUBSET (1 .. Finished)
         /\ Answered = {n \in 1 .. Finished : IsAnswered(asked[n])}
<1>1. Len(asked) \in Nat /\ (mpc \notin {"read", "done"} => Len(asked) > 0)
  BY DEF McpType
<1>2. Finished \in Nat /\ Finished <= Len(asked)
  BY <1>1 DEF Finished
<1> QED
  BY <1>1, <1>2 DEF Answered, IsAnswered

\* A step after which nothing more is finished, or a request that is not answered.
LEMMA NothingAnswered ==
  ASSUME McpType, AnsweredOnce, Answered' = Answered, written' = written,
         \A n \in 1 .. Len(asked) : asked'[n] = asked[n]
  PROVE  AnsweredOnce'
<1>1. \A n \in Answered : IdOf(n)' = IdOf(n)
  BY FinishedType DEF IdOf
<1>2. \A n : Place(n)' = Place(n)
  BY DEF Place
<1> QED
  BY <1>1, <1>2 DEF AnsweredOnce

\* A step that finishes one more request and writes its answer.
LEMMA OneAnswered ==
  ASSUME McpType, AnsweredOnce, NEW n \in Nat, n > Finished, Answered' = Answered \cup {n},
         NEW b \in Bodies, b.type = "answer" => b.of = n,
         NEW d \in Nat, d = IdOf(n)', written' = Append(written, [id |-> d, body |-> b]),
         \A m \in 1 .. Len(asked) : asked'[m] = asked[m]
  PROVE  AnsweredOnce'
<1>1. /\ Cardinality(Answered) \in Nat /\ Cardinality(Answered') = Cardinality(Answered) + 1
      /\ Place(n)' = Cardinality(Answered) + 1
      /\ \A m \in Answered : Place(m)' = Place(m) /\ Place(m) \in 1 .. Cardinality(Answered)
  <2>1. Finished \in Nat /\ Answered \in SUBSET (1 .. Finished)
    BY FinishedType
  <2>2. /\ Cardinality(Answered) \in Nat /\ Cardinality(Answered \cup {n}) = Cardinality(Answered) + 1
        /\ PlaceIn(Answered \cup {n}, n) = Cardinality(Answered) + 1
        /\ \A m \in Answered : /\ PlaceIn(Answered \cup {n}, m) = PlaceIn(Answered, m)
                               /\ PlaceIn(Answered, m) \in 1 .. Cardinality(Answered)
    BY <2>1, LastPlace, Zenon
  <2>3. \A m : Place(m) = PlaceIn(Answered, m) /\ Place(m)' = PlaceIn(Answered \cup {n}, m)
    BY DEF Place, PlaceIn
  <2> QED
    BY <2>2, <2>3, Zenon
<1>2. \A m \in Answered : IdOf(m)' = IdOf(m)
  BY FinishedType DEF IdOf
<1>3. /\ written \in Seq([id : Nat, body : Bodies]) /\ Len(written) = Cardinality(Answered)
      /\ [id |-> d, body |-> b] \in [id : Nat, body : Bodies]
  BY DEF McpType, AnsweredOnce
<1>4. /\ Len(written') = Cardinality(Answered') /\ written'[Place(n)'] = [id |-> d, body |-> b]
      /\ \A j \in 1 .. Cardinality(Answered) : written'[j] = written[j]
  BY <1>1, <1>3
<1>5. ASSUME NEW m \in Answered'
      PROVE  /\ written'[Place(m)'].id = IdOf(m)'
             /\ written'[Place(m)'].body.type = "answer" => written'[Place(m)'].body.of = m
  <2>1. CASE m = n
    <3>1. IdOf(m)' = d
      BY <2>1 DEF IdOf
    <3>2. Place(m)' = Place(n)'
      BY <2>1 DEF Place
    <3>3. written'[Place(m)'].id = d /\ written'[Place(m)'].body = b
      <4>1. written'[Place(m)'] = [id |-> d, body |-> b]
        BY <1>4, <3>2, Zenon
      <4>2. [id |-> d, body |-> b].id = d /\ [id |-> d, body |-> b].body = b
        OBVIOUS
      <4> QED
        BY <4>1, <4>2, Zenon
    <3> QED
      BY <2>1, <3>1, <3>3, Zenon
  <2>2. CASE m \in Answered
    <3>1. written'[Place(m)'] = written[Place(m)]
      BY <1>1, <1>4, <2>2
    <3> QED
      BY <1>2, <2>2, <3>1, Zenon DEF AnsweredOnce
  <2> QED
    BY <2>1, <2>2, Zenon
<1> QED
  BY <1>4, <1>5, Zenon DEF AnsweredOnce

\* An element of a sequence.
LEMMA ElementIn == \A S : \A s \in Seq(S) : \A i \in 1 .. Len(s) : s[i] \in S
  OBVIOUS

\* nomos-mcp writes b as the answer to the request it is at.
LEMMA ReplyAnswers ==
  ASSUME McpType, AnsweredOnce, mpc \notin {"read", "done"}, mpc' = "read", asked' = asked,
         NEW b \in Bodies, b.type = "answer" => b.of = Current, Reply(b)
  PROVE  McpType' /\ AnsweredOnce'
<1>1. /\ Len(asked) \in Nat \ {0} /\ asked[Current].kind \in {"evaluate", "oversize"}
      /\ asked[Current].hasId \in BOOLEAN
  <2>1. Len(asked) \in Nat \ {0} /\ asked[Current].kind \in {"evaluate", "oversize"}
    BY DEF McpType
  <2>2. asked[Current] \in [kind : Methods, hasId : BOOLEAN]
    <3>1. asked \in Seq([kind : Methods, hasId : BOOLEAN]) /\ Current \in 1 .. Len(asked)
      BY <2>1 DEF McpType, Current
    <3> QED
      BY <3>1, ElementIn, Zenon
  <2> QED
    BY <2>1, <2>2
<1>2. Finished = Len(asked) - 1 /\ Finished' = Len(asked)
  BY DEF Finished
<1>3. IsAnswered(asked[Current])
  BY <1>1 DEF IsAnswered
<1>4. IdOf(Current) \in Nat /\ IdOf(Current)' = IdOf(Current) /\ Current' = Current /\ Current \in Nat
  BY <1>1 DEF IdOf, Current
<1>5. written' = Append(written, [id |-> IdOf(Current), body |-> b])
  BY DEF Reply
<1>6. McpType'
  <2>1. [id |-> IdOf(Current), body |-> b] \in [id : Nat, body : Bodies]
    BY <1>4
  <2>2. written' \in Seq([id : Nat, body : Bodies])
    BY <1>5, <2>1 DEF McpType
  <2> QED
    BY <2>2 DEF McpType
<1>7. Answered' = Answered \cup {Current}
  <2>1. Answered = {n \in 1 .. Finished : IsAnswered(asked[n])}
    BY FinishedType
  <2>2. Answered' = {n \in 1 .. Finished' : IsAnswered(asked[n])}
    BY DEF Answered, IsAnswered
  <2>3. \A n : n \in 1 .. Finished' <=> n \in 1 .. Finished \/ n = Current
    BY <1>1, <1>2 DEF Current
  <2> QED
    BY <1>3, <2>1, <2>2, <2>3
<1>8. Current > Finished
  BY <1>1, <1>2 DEF Current
<1>9. IdOf(Current) = IdOf(Current)'
  BY <1>4
<1>10. \A d \in Nat, n \in Nat : d = IdOf(Current) /\ n = Current => d = IdOf(n)'
  BY <1>4 DEF IdOf, Current
<1>11. PICK n \in Nat : n = Current
  BY <1>4
<1>12. PICK d \in Nat : d = IdOf(Current)
  BY <1>4
<1>13. d = IdOf(n)'
  BY <1>10, <1>11, <1>12
<1>14. AnsweredOnce'
  BY <1>5, <1>7, <1>8, <1>11, <1>12, <1>13, OneAnswered
<1> QED
  BY <1>6, <1>14

\* A request is read.
LEMMA ReadKeeps ==
  ASSUME McpType, ConnectionInv, AnsweredOnce, NEW r \in Requests, McpRead(r)
  PROVE  McpType' /\ ConnectionInv' /\ AnsweredOnce'
<1>0. r \in [kind : Methods, hasId : BOOLEAN] /\ r.kind \in Methods /\ r.hasId \in BOOLEAN
  BY McpAssumption
<1>1. /\ mpc = "read" /\ asked' = Append(asked, r) /\ fds' = fds /\ frames' = frames
      /\ asked \in Seq([kind : Methods, hasId : BOOLEAN]) /\ Len(asked) \in Nat
  BY DEF McpRead, McpType, socket
<1>2. /\ asked' \in Seq([kind : Methods, hasId : BOOLEAN]) /\ Len(asked') = Len(asked) + 1
      /\ asked'[Len(asked) + 1] = r
      /\ \A n \in 1 .. Len(asked) : asked'[n] = asked[n]
  BY <1>0, <1>1
<1>3. fds = {} /\ frames = <<>>
  BY <1>1 DEF ConnectionInv
<1>4. Finished = Len(asked) /\ Answered = {n \in 1 .. Len(asked) : IsAnswered(asked[n])}
  BY <1>1, FinishedType DEF Finished
<1>5. CASE r.kind \in {"evaluate", "oversize"}
  <2>1. mpc' = "connect" /\ written' = written
    BY <1>5 DEF McpRead
  <2>2. McpType'
    BY <1>2, <1>1, <1>5, <2>1 DEF McpType, Current
  <2>3. ConnectionInv'
    BY <1>1, <1>3, <2>1 DEF ConnectionInv
  <2>4. Finished' = Len(asked)
    BY <1>1, <1>2, <2>1 DEF Finished
  <2>5. Answered' = {n \in 1 .. Len(asked) : IsAnswered(asked'[n])}
    BY <2>2, <2>4 DEF Answered, IsAnswered
  <2>6. Answered' = Answered
    BY <1>2, <1>4, <2>5 DEF IsAnswered
  <2> QED
    BY <1>2, <2>1, <2>2, <2>3, <2>6, NothingAnswered
<1>6. CASE r.kind \notin {"evaluate", "oversize"}
  <2>1. mpc' = "read" /\ written' = written \o AnswerAtOnce(r)
    BY <1>1, <1>6 DEF McpRead
  <2>2. ConnectionInv'
    BY <1>1, <1>3, <2>1 DEF ConnectionInv
  <2>3. Finished' = Len(asked) + 1
    BY <1>2, <2>1 DEF Finished
  <2>4. Answered' = {n \in 1 .. Len(asked) + 1 : IsAnswered(asked'[n])}
    BY <2>3 DEF Answered, IsAnswered
  <2>5. \A n : n \in 1 .. Len(asked) + 1 <=> n \in 1 .. Len(asked) \/ n = Len(asked) + 1
    BY <1>1
  <2>6. CASE ~IsAnswered(r)
    <3>1. AnswerAtOnce(r) = <<>>
      BY <1>0, <2>6 DEF AnswerAtOnce, IsAnswered
    <3>2. written' = written
      BY <2>1, <3>1 DEF McpType
    <3>3. McpType'
      BY <1>2, <2>1, <3>2 DEF McpType
    <3>4. \A n : n \in Answered' <=> n \in Answered
      BY <1>2, <1>4, <2>4, <2>5, <2>6
    <3> QED
      BY <1>2, <2>2, <3>2, <3>3, <3>4, NothingAnswered, Zenon
  <2>7. CASE IsAnswered(r)
    <3>1. PICK n \in Nat : n = Len(asked) + 1
      BY <1>1
    <3>2. PICK d \in Nat : d = IF r.hasId THEN Current + 1 ELSE 0
      BY <1>1 DEF Current
    <3>3. PICK b \in Bodies : /\ b = IF r.kind \in {"initialize", "list"}
                                     THEN [type |-> "result", of |-> 0] ELSE Error
                              /\ b.type # "answer"
      <4>1. /\ [type |-> "result", of |-> 0] \in Bodies /\ Error \in Bodies
            /\ [type |-> "result", of |-> 0].type # "answer" /\ Error.type # "answer"
        BY DEF Bodies, Error
      <4> QED
        BY <4>1
    <3>4. AnswerAtOnce(r) = <<[id |-> d, body |-> b]>>
      BY <2>7, <3>2, <3>3 DEF AnswerAtOnce, IsAnswered
    <3>5. written' = Append(written, [id |-> d, body |-> b])
      BY <2>1, <3>4 DEF McpType
    <3>6. written' \in Seq([id : Nat, body : Bodies])
      <4>1. [id |-> d, body |-> b] \in [id : Nat, body : Bodies]
        OBVIOUS
      <4>2. written \in Seq([id : Nat, body : Bodies])
        BY DEF McpType
      <4> QED
        BY <3>5, <4>1, <4>2
    <3>7. McpType'
      BY <1>2, <2>1, <3>6 DEF McpType
    <3>8. d = IdOf(n)'
      BY <1>2, <3>1, <3>2 DEF IdOf, Current
    <3>9. \A k : k \in Answered' <=> k \in Answered \cup {n}
      BY <1>2, <1>4, <2>4, <2>5, <2>7, <3>1
    <3>10. n > Finished
      BY <1>1, <1>4, <3>1
    <3>11. Answered' = Answered \cup {n}
      BY <3>9
    <3>12. AnsweredOnce'
      BY <1>2, <3>3, <3>5, <3>8, <3>10, <3>11, OneAnswered, Zenon
    <3> QED
      BY <2>2, <3>7, <3>12
  <2> QED
    BY <2>6, <2>7
<1> QED
  BY <1>5, <1>6

\* The other steps of nomos-mcp.
LEMMA BridgeKeeps ==
  ASSUME McpType, ConnectionInv, AnsweredOnce, McpEof \/ Bridge
  PROVE  McpType' /\ ConnectionInv' /\ AnsweredOnce'
<1>0. Len(asked) \in Nat /\ asked' = asked /\ Current' = Current
  <2>1. asked' = asked
    BY DEF McpEof, Bridge, Connect, ConnectFails, Write, WriteFails, Read, ReadFails
  <2>2. Len(asked) \in Nat
    BY DEF McpType
  <2> QED
    BY <2>1, <2>2, Zenon DEF Current
<1>1. Error \in Bodies /\ Error.type # "answer"
  BY DEF Bodies, Error
\* A step that writes nothing and finishes nothing.
<1>2. ASSUME written' = written, mpc' \in {"read", "done", "connect", "write", "sending", "wait", "killed"},
             mpc \in {"read", "done"} <=> mpc' \in {"read", "done"}
      PROVE  McpType' /\ AnsweredOnce'
  <2>1. McpType'
    BY <1>0, <1>2 DEF McpType
  <2>2. Finished' = Finished
    BY <1>0, <1>2 DEF Finished
  <2>3. Answered' = Answered
    BY <1>0, <2>2 DEF Answered
  <2> QED
    BY <1>0, <1>2, <2>1, <2>3, NothingAnswered
\* A connection with nothing to read, or none.
<1>3. ASSUME frames' = <<>>, fds' = IF mpc' \in {"write", "sending", "wait"} THEN {Current} ELSE {}
      PROVE  ConnectionInv'
  BY <1>0, <1>3 DEF ConnectionInv
<1>4. CASE McpEof
  <2>1. /\ mpc = "read" /\ mpc' = "done" /\ written' = written /\ fds' = fds /\ frames' = frames
    BY <1>4 DEF McpEof, socket
  <2>2. fds = {} /\ frames = <<>>
    BY <2>1 DEF ConnectionInv
  <2> QED
    BY <1>2, <1>3, <2>1, <2>2
<1>5. CASE Connect
  <2>1. /\ mpc = "connect" /\ mpc' = "write" /\ written' = written /\ fds' = fds \cup {Current} /\ frames' = <<>>
    BY <1>5 DEF Connect
  <2>2. fds' = {Current}
    BY <2>1 DEF ConnectionInv
  <2> QED
    BY <1>2, <1>3, <2>1, <2>2
<1>6. CASE ConnectFails
  <2>1. /\ mpc = "connect" /\ mpc' = "read" /\ Reply(Error) /\ fds' = fds /\ frames' = frames
    BY <1>6 DEF ConnectFails, socket
  <2>2. fds' = {} /\ frames' = <<>>
    BY <2>1 DEF ConnectionInv
  <2> QED
    BY <1>0, <1>1, <1>3, <2>1, <2>2, ReplyAnswers
<1>7. CASE Write
  <2>1. /\ mpc = "write" /\ mpc' \in {"sending", "wait"} /\ written' = written /\ fds' = fds /\ frames' = frames
    BY <1>7 DEF Write
  <2>2. ConnectionInv'
    BY <1>0, <2>1 DEF ConnectionInv
  <2> QED
    BY <1>2, <2>1, <2>2
<1>8. CASE WriteFails
  <2>1. /\ mpc \in {"write", "sending"} /\ fds' = fds \ {Current} /\ frames' = <<>>
        /\ \/ Reply(Error) /\ mpc' = "read"
           \/ mpc' = "killed" /\ written' = written
    BY <1>8 DEF WriteFails
  <2>2. fds' = {}
    BY <2>1 DEF ConnectionInv
  <2>3. ConnectionInv'
    BY <1>3, <2>1, <2>2
  <2>4. CASE Reply(Error) /\ mpc' = "read"
    BY <1>0, <1>1, <2>1, <2>3, <2>4, ReplyAnswers
  <2>5. CASE mpc' = "killed" /\ written' = written
    BY <1>2, <2>1, <2>3, <2>5
  <2> QED
    BY <2>1, <2>4, <2>5
<1>9. CASE Read
  <2>1. /\ mpc = "wait" /\ frames # <<>> /\ mpc' = "read" /\ Reply(Head(frames))
        /\ fds' = fds \ {Current} /\ frames' = <<>>
    BY <1>9 DEF Read
  <2>2. fds' = {}
    BY <2>1 DEF ConnectionInv
  <2>3. Head(frames) \in Frames /\ (Head(frames).type = "answer" => Head(frames).of = Current)
    <3>1. 1 \in DOMAIN frames /\ Head(frames) = frames[1] /\ frames[1] \in Frames
      BY <2>1 DEF ConnectionInv
    <3> QED
      BY <3>1 DEF ConnectionInv
  <2>4. Head(frames) \in Bodies
    BY <2>3 DEF Bodies
  <2> QED
    BY <1>0, <1>3, <2>1, <2>2, <2>3, <2>4, ReplyAnswers
<1>10. CASE ReadFails
  <2>1. /\ mpc = "wait" /\ frames = <<>> /\ mpc' = "read" /\ Reply(Error)
        /\ fds' = fds \ {Current} /\ frames' = frames
    BY <1>10 DEF ReadFails, socket
  <2>2. fds' = {}
    BY <2>1 DEF ConnectionInv
  <2> QED
    BY <1>0, <1>1, <1>3, <2>1, <2>2, ReplyAnswers
<1> QED
  BY <1>4, <1>5, <1>6, <1>7, <1>8, <1>9, <1>10 DEF Bridge

\* kairos and its other client write to no connection but the one they serve.
LEMMA KairosKeeps ==
  ASSUME McpType, ConnectionInv, AnsweredOnce,
         \/ Kairos \/ Push \/ Down \/ Up \/ OtherConnects \/ OtherLeaves \/ UNCHANGED mcpVars
  PROVE  McpType' /\ ConnectionInv' /\ AnsweredOnce'
<1>1. UNCHANGED <<mpc, asked, fds, written>>
  BY Zenon DEF Kairos, Serve, Accept, ServeRead, Answer, HangUp, Push, Down, Up, OtherConnects, OtherLeaves, mcpVars, bridge
<1>2. McpType' /\ AnsweredOnce' /\ Current' = Current
  <2>1. Answered' = Answered
    BY <1>1 DEF Answered, Finished
  <2>2. AnsweredOnce'
    BY <1>1, <2>1, NothingAnswered
  <2>3. McpType' /\ Current' = Current
    BY <1>1 DEF McpType, Current
  <2> QED
    BY <2>2, <2>3
<1>3. \/ frames' = frames
      \/ /\ Current \in fds
         /\ \E f \in Frames : frames' = Append(frames, f) /\ (f.type = "answer" => f.of = Current)
  <2>1. CASE Answer
    <3>1. CASE Reaches
      <4>1. Current \in fds /\ Current \in Nat /\ served = Current
        <5>1. Current \in Nat
          BY DEF Current, McpType
        <5> QED
          BY <3>1, <5>1 DEF Reaches
      <4>2. [type |-> "answer", of |-> served] \in Frames
        BY <4>1 DEF Frames
      <4>3. frames' = Append(frames, [type |-> "answer", of |-> served])
        BY <2>1, <3>1 DEF Answer
      <4> QED
        BY <4>1, <4>2, <4>3
    <3>2. CASE ~Reaches
      BY <2>1, <3>2 DEF Answer
    <3> QED
      BY <3>1, <3>2
  <2>2. CASE Push
    <3>1. [type |-> "pushed", of |-> 0] \in Frames /\ [type |-> "pushed", of |-> 0].type # "answer"
      BY DEF Frames
    <3>2. Current \in fds /\ frames' = Append(frames, [type |-> "pushed", of |-> 0])
      BY <2>2 DEF Push, Reaches
    <3> QED
      BY <3>1, <3>2
  <2> QED
    BY <2>1, <2>2 DEF Kairos, Serve, Accept, ServeRead, HangUp, Down, Up, OtherConnects, OtherLeaves, mcpVars, socket
<1>4. CASE frames' = frames
  BY <1>1, <1>2, <1>4 DEF ConnectionInv
<1>5. ASSUME NEW f \in Frames, Current \in fds, frames' = Append(frames, f), f.type = "answer" => f.of = Current
      PROVE  ConnectionInv'
  <2>1. frames \in Seq(Frames) /\ frames' \in Seq(Frames)
    BY <1>5 DEF ConnectionInv
  <2>2. \A i \in DOMAIN frames' : (i \in DOMAIN frames /\ frames'[i] = frames[i]) \/ frames'[i] = f
    BY <1>5, <2>1
  <2>3. \A i \in DOMAIN frames' : frames'[i].type = "answer" => frames'[i].of = Current'
    BY <1>2, <1>5, <2>2 DEF ConnectionInv
  <2> QED
    BY <1>1, <1>2, <1>5, <2>1, <2>3 DEF ConnectionInv
<1> QED
  BY <1>2, <1>3, <1>4, <1>5

(* nomos-mcp keeps to one connection and to what is written there, for any number of
   requests, pushed frames and failures of kairos. *)
THEOREM McpInvariance == McpSpec => []McpInv
<1>1. McpInit => McpInv
  <2> SUFFICES ASSUME McpInit PROVE McpInv
    OBVIOUS
  <2>1. asked = <<>> /\ written = <<>> /\ mpc = "read" /\ fds = {} /\ frames = <<>>
    BY DEF McpInit
  <2>2. Answered = {} /\ Cardinality(Answered) = 0
    <3>1. Finished = 0
      BY <2>1 DEF Finished
    <3>2. Answered = {}
      BY <3>1 DEF Answered
    <3> QED
      BY <3>2, FS_EmptySet
  <2>3. AnsweredOnce
    BY <2>1, <2>2 DEF AnsweredOnce
  <2> QED
    BY <2>1, <2>3 DEF McpInv
<1>2. McpInv /\ [McpNext]_mcpVars => McpInv'
  <2> SUFFICES ASSUME McpInv, [McpNext]_mcpVars PROVE McpType' /\ ConnectionInv' /\ AnsweredOnce'
    BY DEF McpInv, McpType, ConnectionInv
  <2>1. McpType /\ ConnectionInv /\ AnsweredOnce
    BY McpParts
  <2>2. ASSUME NEW r \in Requests, McpRead(r) PROVE McpType' /\ ConnectionInv' /\ AnsweredOnce'
    BY <2>1, <2>2, ReadKeeps
  <2>3. CASE McpEof \/ Bridge
    BY <2>1, <2>3, BridgeKeeps
  <2>4. CASE \/ Kairos \/ Push \/ Down \/ Up \/ OtherConnects \/ OtherLeaves \/ UNCHANGED mcpVars
    BY <2>1, <2>4, KairosKeeps
  <2> QED
    BY <2>2, <2>3, <2>4 DEF McpNext
<1> QED
  BY <1>1, <1>2, PTL DEF McpSpec

(* Each request is answered once, in order and under its own id, and an evaluation by no
   answer but its own, whatever kairos and its other client do and however often kairos
   goes down. *)
THEOREM AnswersHold == McpSpec => []AnsweredOnce
<1>1. McpInv => AnsweredOnce
  BY DEF McpInv
<1> QED
  BY <1>1, McpInvariance, PTL

-----------------------------------------------------------------------------
(* shift_register_modulator                                                *)

(* Every mask of lfsr_taps has the top bit of its register: what leaves the
   register is always part of what enters it. *)
LEMMA TopBitTapped ==
    \A n \in 2 .. 32 : n - 1 \in LfsrTaps[n] /\ LfsrTaps[n] \subseteq 0 .. n - 1
  BY DEF LfsrTaps

(* The constructor leaves a register of at least two bits, one of them set. *)
LEMMA SeededType ==
    ASSUME length \in 2 .. 32
    PROVE  Seeded \in [Places -> BOOLEAN] /\ \E i \in Places : Seeded[i]
<1> DEFINE cut == [i \in Places |-> i \in Seed]
<1>1. 0 \in Places /\ 0 \in Seed
  BY DEF Places, Seed
<1>2. cut[0]
  BY <1>1
<1>3. cut \in [Places -> BOOLEAN]
  OBVIOUS
<1>4. Seeded = cut
  BY <1>1, <1>2, Zenon DEF Seeded
<1> QED BY <1>1, <1>2, <1>3, <1>4, Zenon

(* A shift moves every bit up by one. *)
LEMMA PushedBits ==
    ASSUME length \in 2 .. 32, reg \in [Places -> BOOLEAN], NEW b \in BOOLEAN
    PROVE  /\ Pushed(reg, b) \in [Places -> BOOLEAN]
           /\ Pushed(reg, b)[0] = b
           /\ \A i \in Places \ {0} : Pushed(reg, b)[i] = reg[i - 1] /\ i - 1 \in Places
<1>1. \A i \in Places \ {0} : i - 1 \in Places
  BY DEF Places
<1>2. \A i \in Places : (IF i = 0 THEN b ELSE reg[i - 1]) \in BOOLEAN
  BY <1>1
<1>3. 0 \in Places
  BY DEF Places
<1> QED BY <1>1, <1>2, <1>3 DEF Pushed

(* lfsr: the one register that would shift to zero, the top bit alone, has a tap
   there, so a 1 enters. *)
LEMMA LfsrStaysNonZero ==
    ASSUME length \in 2 .. 32, reg \in [Places -> BOOLEAN], \E i \in Places : reg[i]
    PROVE  \E i \in Places : Pushed(reg, LfsrNewBit)[i]
<1>1. LfsrNewBit \in BOOLEAN
  BY DEF LfsrNewBit
<1>2. CASE \E i \in Places : reg[i] /\ i # length - 1
  <2>1. PICK i \in Places : reg[i] /\ i # length - 1
    BY <1>2
  <2>2. i + 1 \in Places \ {0} /\ (i + 1) - 1 = i
    BY <2>1 DEF Places
  <2> QED BY <1>1, <2>1, <2>2, PushedBits
<1>3. CASE \A i \in Places : reg[i] => i = length - 1
  <2>1. length - 1 \in Places /\ reg[length - 1]
    BY <1>3 DEF Places
  <2>2. length - 1 \in LfsrTaps[length]
    BY TopBitTapped
  <2>3. \A i \in LfsrTaps[length] : i \in Places
    BY TopBitTapped DEF Places
  <2>4. {i \in LfsrTaps[length] : reg[i]} = {length - 1}
    BY <1>3, <2>1, <2>2, <2>3
  <2>5. Cardinality({i \in LfsrTaps[length] : reg[i]}) = 1
    BY <2>4, FS_Singleton, Zenon
  <2>6. LfsrNewBit
    <3>1. 1 % 2 = 1
      OBVIOUS
    <3> QED BY <2>5, <3>1, Zenon DEF LfsrNewBit
  <2>7. 0 \in Places
    BY DEF Places
  <2> QED BY <1>1, <2>6, <2>7, PushedBits
<1> QED BY <1>2, <1>3

(* The bit that enters, in each mode. *)
LEMMA NewBit ==
    ASSUME ShiftInv, NEW b \in NewBits
    PROVE  /\ b \in BOOLEAN
           /\ mode = "lfsr" => b = LfsrNewBit
           /\ mode = "open" => b = (data > 1)
           /\ Rotating => b = reg[length - 1]
           /\ Inverting => b = ~reg[length - 1]
<1>1. /\ mode \in Modes /\ length \in 2 .. 32 /\ reg \in [Places -> BOOLEAN]
      /\ data \in 0 .. 2 /\ param \in 0 .. 2
  BY DEF ShiftInv
<1>2. Msb \in BOOLEAN /\ Msb = reg[length - 1]
  BY <1>1 DEF Msb, Places
<1>3. CASE mode = "lfsr"
  <2>1. b = LfsrNewBit
    BY <1>3 DEF NewBits
  <2> QED BY <1>3, <2>1 DEF LfsrNewBit, Rotating, Inverting
<1>4. CASE mode = "rungler"
  <2>1. b = ((data > param) # Msb)
    BY <1>4 DEF NewBits
  <2> QED BY <1>1, <1>2, <1>4, <2>1 DEF Rotating, Inverting
<1>5. CASE mode = "turing"
  <2>1. b \in BOOLEAN /\ (IF b # Msb THEN param > 0 ELSE param < 2)
    BY <1>5 DEF NewBits
  <2> QED BY <1>1, <1>2, <1>5, <2>1 DEF Rotating, Inverting
<1>6. CASE mode = "open"
  <2>1. b = (data > 1)
    BY <1>6 DEF NewBits
  <2> QED BY <1>6, <2>1 DEF Rotating, Inverting
<1> QED BY <1>1, <1>3, <1>4, <1>5, <1>6 DEF Modes

(* A clock of an open register: one more bit is data. *)
LEMMA OpenTurns ==
    ASSUME ShiftInv, mode = "open", NEW b \in NewBits,
           reg' = Pushed(reg, b), since' = Elapsed, UNCHANGED <<length, data, start>>
    PROVE  since' \in Nat /\ since' <= length /\ \A i \in Places : reg'[i] = Filled(i)'
<1>1. /\ length \in 2 .. 32 /\ since \in Nat /\ since <= length
      /\ reg \in [Places -> BOOLEAN]
      /\ \A i \in Places : reg[i] = Filled(i)
  BY DEF ShiftInv
<1>2. since' = IF since < length THEN since + 1 ELSE length
  BY <1>1 DEF Elapsed, Limit
<1>3. b \in BOOLEAN /\ b = (data > 1)
  BY NewBit
<1>4. ASSUME NEW i \in Places PROVE reg'[i] = Filled(i)'
  <2>1. i \in Int /\ 0 <= i /\ i < length
    BY <1>1 DEF Places
  <2>2. CASE i = 0
    <3>1. reg'[i] = b
      BY <1>1, <1>3, <2>2, PushedBits
    <3>2. i < since'
      BY <1>1, <1>2, <2>2
    <3> QED BY <1>3, <3>1, <3>2 DEF Filled
  <2>3. CASE i # 0
    <3>1. reg'[i] = reg[i - 1] /\ i - 1 \in Places
      BY <1>1, <1>3, <2>3, PushedBits
    <3>2. reg'[i] = IF i - 1 < since THEN data > 1 ELSE start[(i - 1) - since]
      BY <1>1, <3>1 DEF Filled
    <3> QED BY <1>1, <1>2, <2>1, <3>2 DEF Filled
  <2> QED BY <2>2, <2>3
<1> QED BY <1>1, <1>2, <1>4

(* A clock of a register that copies its top bit: one more turn. *)
LEMMA CopyTurns ==
    ASSUME ShiftInv, Rotating, NEW b \in NewBits,
           reg' = Pushed(reg, b), since' = Elapsed, UNCHANGED <<length, start>>
    PROVE  since' \in Nat /\ since' < length /\ \A i \in Places : reg'[i] = Copied(i)'
<1>1. /\ length \in 2 .. 32 /\ since \in Nat /\ since < length
      /\ reg \in [Places -> BOOLEAN]
      /\ \A i \in Places : reg[i] = Copied(i)
  BY DEF ShiftInv
<1>2. Period = length /\ mode # "open"
  BY DEF Rotating, Period, Inverting, ShiftInv
<1>3. since' = IF since + 1 = length THEN 0 ELSE since + 1
  BY <1>2 DEF Elapsed
<1>4. b \in BOOLEAN /\ b = reg[length - 1]
  BY NewBit
<1>5. ASSUME NEW i \in Places PROVE reg'[i] = Copied(i)'
  <2>1. i \in Int /\ 0 <= i /\ i < length
    BY <1>1 DEF Places
  <2>2. CASE i = 0
    <3>1. reg'[i] = reg[length - 1] /\ length - 1 \in Places
      BY <1>1, <1>4, <2>2, PushedBits DEF Places
    <3>2. reg'[i] = start[(length - 1) - since]
      BY <1>1, <3>1 DEF Copied
    <3> QED BY <1>1, <1>3, <2>2, <3>2 DEF Copied
  <2>3. CASE i # 0
    <3>1. reg'[i] = reg[i - 1] /\ i - 1 \in Places
      BY <1>1, <1>4, <2>3, PushedBits
    <3>2. reg'[i] = IF i - 1 < since THEN start[length + (i - 1) - since]
                    ELSE start[(i - 1) - since]
      BY <1>1, <3>1 DEF Copied
    <3> QED BY <1>1, <1>3, <2>1, <2>3, <3>2 DEF Copied
  <2> QED BY <2>2, <2>3
<1> QED BY <1>1, <1>3, <1>5

(* A clock of a register that inverts its top bit: the complement enters behind the
   pattern, and after N clocks the pattern behind its complement. *)
LEMMA InvertTurns ==
    ASSUME ShiftInv, Inverting, NEW b \in NewBits,
           reg' = Pushed(reg, b), since' = Elapsed, UNCHANGED <<length, start>>
    PROVE  since' \in Nat /\ since' < 2 * length /\ \A i \in Places : reg'[i] = Inverted(i)'
<1>1. /\ length \in 2 .. 32 /\ since \in Nat /\ since < 2 * length
      /\ reg \in [Places -> BOOLEAN] /\ start \in [Places -> BOOLEAN]
      /\ \A i \in Places : reg[i] = Inverted(i)
  BY DEF ShiftInv
<1>2. Period = 2 * length /\ mode # "open"
  <2>1. data \in Int /\ param \in Int
    BY DEF ShiftInv
  <2>2. mode # "lfsr" /\ mode # "open" /\ ~Rotating
    BY <2>1 DEF Inverting, Rotating
  <2> QED BY <2>2 DEF Period
<1>3. since' = IF since + 1 = 2 * length THEN 0 ELSE since + 1
  BY <1>2 DEF Elapsed
<1>4. b \in BOOLEAN /\ b = ~reg[length - 1]
  BY NewBit
<1>5. ASSUME NEW i \in Places PROVE reg'[i] = Inverted(i)'
  <2>1. i \in Int /\ 0 <= i /\ i < length
    BY <1>1 DEF Places
  <2>2. CASE i = 0
    <3>1. reg'[i] = ~reg[length - 1] /\ length - 1 \in Places
      <4>1. reg'[i] = b
        BY <1>1, <1>4, <2>2, PushedBits
      <4> QED BY <1>1, <1>4, <4>1 DEF Places
    <3>2. reg[length - 1] = Inverted(length - 1)
      BY <1>1, <3>1
    <3>3. CASE since < length
      <4>1. reg[length - 1] = start[(length - 1) - since]
        BY <1>1, <3>2, <3>3 DEF Inverted
      <4>2. Inverted(i)' = ~start[(length - 1) - since]
        BY <1>1, <1>3, <2>2, <3>3 DEF Inverted
      <4> QED BY <3>1, <4>1, <4>2
    <3>4. CASE since >= length
      <4>1. reg[length - 1] = ~start[(2 * length - 1) - since]
        <5>1. /\ ~(length - 1 < since - length) /\ length - 1 < since
              /\ length + (length - 1) - since = (2 * length - 1) - since
          BY <1>1, <3>4
        <5> QED BY <3>2, <5>1 DEF Inverted
      <4>2. (2 * length - 1) - since \in Places
        BY <1>1, <3>4 DEF Places
      <4>3. Inverted(i)' = start[(2 * length - 1) - since]
        BY <1>1, <1>3, <2>2, <3>4 DEF Inverted
      <4>4. start[(2 * length - 1) - since] \in BOOLEAN
        BY <1>1, <4>2
      <4> QED BY <3>1, <4>1, <4>3, <4>4
    <3> QED BY <1>1, <3>3, <3>4
  <2>3. CASE i # 0
    <3>1. reg'[i] = reg[i - 1] /\ i - 1 \in Places
      BY <1>1, <1>4, <2>3, PushedBits
    <3>2. reg'[i] = Inverted(i - 1)
      BY <1>1, <3>1
    <3>3. reg'[i] = IF i - 1 < since - length THEN start[2 * length + (i - 1) - since]
                    ELSE IF i - 1 < since THEN ~start[length + (i - 1) - since]
                    ELSE start[(i - 1) - since]
      BY <3>2 DEF Inverted
    <3>4. CASE since + 1 = 2 * length
      <4>1. /\ since' = 0 /\ length' = length /\ start' = start
            /\ ~(i < 0 - length) /\ ~(i < 0) /\ i - 0 = i
            /\ i - 1 < since - length /\ 2 * length + (i - 1) - since = i
        BY <1>1, <1>3, <2>1, <3>4
      <4> QED BY <3>3, <4>1 DEF Inverted
    <3>5. CASE since + 1 # 2 * length
      <4>1. /\ since' = since + 1 /\ length' = length /\ start' = start
            /\ i < (since + 1) - length <=> i - 1 < since - length
            /\ i < since + 1 <=> i - 1 < since
            /\ 2 * length + i - (since + 1) = 2 * length + (i - 1) - since
            /\ length + i - (since + 1) = length + (i - 1) - since
            /\ i - (since + 1) = (i - 1) - since
        BY <1>1, <1>3, <2>1, <3>5
      <4> QED BY <3>3, <4>1 DEF Inverted
    <3> QED BY <3>4, <3>5
  <2> QED BY <2>2, <2>3
<1> QED BY <1>1, <1>3, <1>5

(* The register keeps its invariant, for every length. *)
THEOREM ShiftInvariance == ShiftSpec => []ShiftInv
<1>1. ShiftInit => ShiftInv
  <2> SUFFICES ASSUME ShiftInit PROVE ShiftInv
    OBVIOUS
  <2>1. PICK n \in Int : length = Limit(n, 2, 32)
    BY LengthsAssumption DEF ShiftInit
  <2>2. length \in 2 .. 32
    BY <2>1 DEF Limit
  <2>3. /\ reg \in [Places -> BOOLEAN] /\ start = reg /\ since = 0
        /\ \E i \in Places : reg[i]
    BY <2>2, SeededType DEF ShiftInit
  <2>4. \A i \in Places : Filled(i) = start[i] /\ Copied(i) = start[i] /\ Inverted(i) = start[i]
    BY <2>2, <2>3 DEF Places, Filled, Copied, Inverted
  <2>5. mode \in Modes /\ data = 1 /\ param = 1 /\ gate = FALSE
    BY Zenon DEF ShiftInit
  <2>6. /\ data \in 0 .. 2 /\ param \in 0 .. 2
        /\ since \in Nat /\ since <= length /\ since < length /\ since < 2 * length
    <3>1. data = 1 /\ param = 1 /\ since = 0
      BY <2>3, <2>5, Zenon
    <3> QED BY <2>2, <3>1
  <2>7. \A i \in Places : reg[i] = Filled(i) /\ reg[i] = Copied(i) /\ reg[i] = Inverted(i)
    BY <2>3, <2>4, Zenon
  <2> QED BY <2>2, <2>3, <2>5, <2>6, <2>7, Zenon DEF ShiftInv
<1>2. ShiftInv /\ [ShiftNext]_shiftVars => ShiftInv'
  <2> SUFFICES ASSUME ShiftInv, [ShiftNext]_shiftVars PROVE ShiftInv'
    OBVIOUS
  <2>1. CASE ShiftHold \/ UNCHANGED shiftVars
    <3>1. /\ UNCHANGED <<mode, length, reg, data, param, start, since>>
          /\ gate' \in BOOLEAN
      BY <2>1 DEF ShiftHold, shiftVars, ShiftInv
    <3> QED BY <3>1 DEF ShiftInv, Places, Filled, Copied, Inverted, Rotating, Inverting
  <2>2. CASE ShiftClock
    <3>1. PICK b \in NewBits : reg' = Pushed(reg, b) /\ gate' = b
      BY <2>2 DEF ShiftClock
    <3>2. /\ since' = Elapsed /\ UNCHANGED <<mode, length, data, param>>
          /\ start' = IF mode = "turing" /\ param = 1 THEN reg' ELSE start
      BY <2>2 DEF ShiftClock
    <3>3. /\ mode \in Modes /\ length \in 2 .. 32 /\ data \in 0 .. 2 /\ param \in 0 .. 2
          /\ reg \in [Places -> BOOLEAN] /\ start \in [Places -> BOOLEAN] /\ since \in Nat
          /\ Places' = Places /\ Rotating' = Rotating /\ Inverting' = Inverting
      BY <3>2 DEF ShiftInv, Places, Rotating, Inverting
    <3>4. b \in BOOLEAN /\ reg' \in [Places -> BOOLEAN] /\ start' \in [Places -> BOOLEAN]
      BY <3>1, <3>2, <3>3, NewBit, PushedBits
    <3>5. CASE mode = "lfsr"
      <4>1. since' \in Nat
        BY <3>2, <3>3, <3>5 DEF Elapsed
      <4>2. \E i \in Places : reg'[i]
        BY <3>1, <3>3, <3>5, NewBit, LfsrStaysNonZero DEF ShiftInv
      <4>3. ~Rotating /\ ~Inverting
        BY <3>5 DEF Rotating, Inverting
      <4> QED BY <3>1, <3>2, <3>3, <3>4, <3>5, <4>1, <4>2, <4>3 DEF ShiftInv
    <3>6. CASE mode = "open"
      <4>1. since' \in Nat /\ since' <= length /\ \A i \in Places : reg'[i] = Filled(i)'
        BY <3>1, <3>2, <3>6, OpenTurns
      <4>2. ~Rotating /\ ~Inverting
        BY <3>6 DEF Rotating, Inverting
      <4> QED BY <3>1, <3>2, <3>3, <3>4, <3>6, <4>1, <4>2 DEF ShiftInv
    <3>7. CASE Rotating
      <4>1. mode \in {"rungler", "turing"} /\ ~(mode = "turing" /\ param = 1) /\ ~Inverting
        BY <3>3, <3>7 DEF Rotating, Inverting
      <4>2. since' \in Nat /\ since' < length /\ \A i \in Places : reg'[i] = Copied(i)'
        BY <3>1, <3>2, <3>7, <4>1, CopyTurns
      <4> QED BY <3>1, <3>2, <3>3, <3>4, <3>7, <4>1, <4>2 DEF ShiftInv
    <3>8. CASE Inverting
      <4>1. mode \in {"rungler", "turing"} /\ ~(mode = "turing" /\ param = 1) /\ ~Rotating
        BY <3>3, <3>8 DEF Rotating, Inverting
      <4>2. since' \in Nat /\ since' < 2 * length /\ \A i \in Places : reg'[i] = Inverted(i)'
        BY <3>1, <3>2, <3>8, <4>1, InvertTurns
      <4> QED BY <3>1, <3>2, <3>3, <3>4, <3>8, <4>1, <4>2 DEF ShiftInv
    <3>9. CASE mode = "turing" /\ param = 1
      <4>1. since = 0 /\ Period = 1
        BY <3>9 DEF ShiftInv, Period, Rotating, Inverting
      <4>2. since' = 0 /\ start' = reg'
        BY <3>2, <3>9, <4>1 DEF Elapsed
      <4>3. ~Rotating /\ ~Inverting
        BY <3>9 DEF Rotating, Inverting
      <4> QED BY <3>1, <3>2, <3>3, <3>4, <3>9, <4>2, <4>3 DEF ShiftInv
    <3>10. (data <= param \/ data > param) /\ (param = 0 \/ param = 1 \/ param = 2)
      BY <3>3
    <3>11. CASE mode = "rungler"
      BY <3>7, <3>8, <3>10, <3>11 DEF Rotating, Inverting
    <3>12. CASE mode = "turing"
      BY <3>7, <3>8, <3>9, <3>10, <3>12 DEF Rotating, Inverting
    <3> QED BY <3>3, <3>5, <3>6, <3>11, <3>12 DEF Modes
  <2>3. ASSUME NEW v \in -1 .. 3, UpdateData(v) \/ UpdateParam(v) PROVE ShiftInv'
    <3>1. data' \in 0 .. 2 /\ param' \in 0 .. 2
      <4>1. data \in 0 .. 2 /\ param \in 0 .. 2
        BY DEF ShiftInv
      <4>2. Limit(v, 0, 2) \in 0 .. 2
        BY DEF Limit
      <4> QED BY <2>3, <4>1, <4>2 DEF UpdateData, UpdateParam
    <3>2. /\ UNCHANGED <<mode, length, reg, gate>> /\ Places' = Places
          /\ mode = "lfsr" => UNCHANGED <<start, since>>
          /\ mode # "lfsr" => start' = reg /\ since' = 0
      BY <2>3 DEF UpdateData, UpdateParam, Anew, Places
    <3>3. mode = "lfsr" => ~Rotating' /\ ~Inverting'
      BY <3>2 DEF Rotating, Inverting
    <3>4. /\ mode \in Modes /\ length \in 2 .. 32 /\ since \in Nat /\ gate \in BOOLEAN
          /\ reg \in [Places -> BOOLEAN] /\ start \in [Places -> BOOLEAN]
          /\ mode = "lfsr" => \E i \in Places : reg[i]
      BY DEF ShiftInv
    <3>5. CASE mode = "lfsr"
      BY <3>1, <3>2, <3>3, <3>4, <3>5, Zenon DEF ShiftInv
    <3>6. CASE mode # "lfsr"
      <4>1. start' = reg /\ since' = 0 /\ 0 <= length /\ 0 < length /\ 0 < 2 * length /\ 0 \in Nat
        BY <3>2, <3>4, <3>6
      <4>2. ASSUME NEW i \in Places
            PROVE  Filled(i)' = reg[i] /\ Copied(i)' = reg[i] /\ Inverted(i)' = reg[i]
        <5>1. i \in Int /\ 0 <= i /\ i < length
          BY <3>4 DEF Places
        <5>2. Filled(i)' = reg[i]
          BY <4>1, <5>1 DEF Filled
        <5>3. Copied(i)' = reg[i]
          BY <4>1, <5>1 DEF Copied
        <5>4. Inverted(i)' = reg[i]
          <6>1. ~(i < 0 - length) /\ ~(i < 0) /\ i - 0 = i /\ length' = length
            BY <3>2, <3>4, <5>1
          <6> QED BY <4>1, <6>1 DEF Inverted
        <5> QED BY <5>2, <5>3, <5>4
      <4> QED BY <3>1, <3>2, <3>4, <3>6, <4>1, <4>2, Zenon DEF ShiftInv
    <3> QED BY <3>5, <3>6
  <2> QED BY <2>1, <2>2, <2>3 DEF ShiftNext
<1> QED BY <1>1, <1>2, PTL DEF ShiftSpec

(* For every length up to 32 a loop has the period of its feedback, an open register
   is replaced in N clocks, and an lfsr never runs dry. *)
THEOREM LoopPeriodHolds == ShiftSpec => []LoopPeriod
<1>1. ShiftInv => LoopPeriod
  <2> SUFFICES ASSUME ShiftInv PROVE LoopPeriod
    OBVIOUS
  <2>1. /\ mode \in Modes /\ length \in 2 .. 32
        /\ reg \in [Places -> BOOLEAN] /\ start \in [Places -> BOOLEAN] /\ since \in Nat
        /\ data \in 0 .. 2 /\ param \in 0 .. 2
    BY DEF ShiftInv
  <2>2. ASSUME mode # "lfsr", since = 0 PROVE reg = start
    <3>1. \A i \in Places : Filled(i) = start[i] /\ Copied(i) = start[i] /\ Inverted(i) = start[i]
      BY <2>1, <2>2 DEF Places, Filled, Copied, Inverted
    <3>2. mode = "open" \/ Rotating \/ Inverting \/ (mode = "turing" /\ param = 1)
      <4>1. data <= param \/ data > param
        BY <2>1
      <4>2. param = 0 \/ param = 1 \/ param = 2
        BY <2>1
      <4>3. CASE mode = "rungler"
        BY <4>1, <4>3 DEF Rotating, Inverting
      <4>4. CASE mode = "turing"
        BY <4>2, <4>4 DEF Rotating, Inverting
      <4> QED BY <2>1, <2>2, <4>3, <4>4 DEF Modes
    <3>3. reg = start \/ \A i \in Places : reg[i] = start[i]
      BY <3>1, <3>2 DEF ShiftInv
    <3> QED BY <2>1, <3>3
  <2>3. ASSUME Inverting, since = length, NEW i \in Places PROVE reg[i] = ~start[i]
    <3>1. reg[i] = Inverted(i)
      BY <2>3 DEF ShiftInv
    <3>2. Inverted(i) = ~start[i]
      BY <2>1, <2>3 DEF Places, Inverted
    <3> QED BY <3>1, <3>2
  <2>4. ASSUME mode = "open", since = length, NEW i \in Places PROVE reg[i] = (data > 1)
    <3>1. reg[i] = Filled(i)
      BY <2>4 DEF ShiftInv
    <3>2. Filled(i) = (data > 1)
      BY <2>1, <2>4 DEF Places, Filled
    <3> QED BY <3>1, <3>2
  <2>5. mode = "lfsr" => \E i \in Places : reg[i]
    BY DEF ShiftInv
  <2> QED BY <2>2, <2>3, <2>4, <2>5 DEF LoopPeriod
<1> QED BY <1>1, ShiftInvariance, PTL
================================================================================

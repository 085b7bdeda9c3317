-------------------------- MODULE ControlThreadProofs --------------------------
(***************************************************************************)
(* Safety of rt_control_thread: of the connection under any number of      *)
(* pushing threads, and of what dispatch_message() makes of any traffic.   *)
(*                                                                         *)
(* For the connection the invariant says who holds write_mutex_ and        *)
(* relates conn_fd_write_ and the open descriptor to the server's place in *)
(* run().  For the messages every case of the dispatch is first shown to   *)
(* be one kind of step, Dispatched(h); each property is then preserved by  *)
(* such a step whatever the message is.                                    *)
(***************************************************************************)
EXTENDS ControlThread, ControlDispatch, TLAPS

-----------------------------------------------------------------------------
(* The connection                                                          *)

\* The initial state satisfies the invariant.
LEMMA ControlInitInv == Init => ControlInv
<1> SUFFICES ASSUME Init PROVE ControlInv
  OBVIOUS
<1>1. /\ ~running /\ ~listening /\ ~connFdWrite
      /\ ~connOpen /\ ~connShut /\ ~peer /\ ~pending
      /\ {running, listening, connFdWrite, connOpen, connShut, peer, pending} \subseteq BOOLEAN
  BY Zenon DEF Init
<1>2. TypeOK
  BY <1>1, ControlAssumption DEF Init, TypeOK, Writers, NoOne
<1> QED
  BY <1>1, <1>2, ControlAssumption DEF Init, ControlInv, Serving, Owner, NoOne

\* start() and stop() preserve it.
LEMMA OwnerPreserves ==
    ASSUME ControlInv, Start \/ Stop
    PROVE  ControlInv'
<1> USE ControlAssumption DEF ControlInv, TypeOK, Serving, Writers, Server, Owner, NoOne, connection
<1>1. CASE Start
  BY <1>1 DEF Start
<1>2. CASE StopBegin
  <2>1. ~running' /\ running' \in BOOLEAN
    BY <1>2, Zenon DEF StopBegin
  <2> QED
    BY <1>2, <2>1 DEF StopBegin
<1>3. CASE StopLock
  BY <1>3 DEF StopLock
<1>4. CASE StopShutdown
  BY <1>4 DEF StopShutdown
<1>5. CASE StopListen
  BY <1>5, Zenon DEF StopListen
<1>6. CASE StopJoin
  BY <1>6, Zenon DEF StopJoin
<1> QED
  BY <1>1, <1>2, <1>3, <1>4, <1>5, <1>6 DEF Stop

\* A write appends one well-typed chunk to the wire, or leaves it alone.
LEMMA WriteType ==
    ASSUME ControlInv, NEW w \in Writers, NEW part \in {"header", "payload"},
           WriteOk(w, part) \/ WriteFails
    PROVE  wire' \in Seq(Chunks) /\ Len(wire') <= WireBound
<1>1. [by |-> w, part |-> part] \in Chunks
  BY DEF Chunks
<1> QED
  BY <1>1, ControlAssumption DEF ControlInv, TypeOK, WriteOk, WriteFails

\* run() and handle_connection() preserve it.
LEMMA ServerPreserves ==
    ASSUME ControlInv, ServerStep
    PROVE  ControlInv'
<1> USE ControlAssumption DEF ControlInv, TypeOK, Serving, Writers, Server, Owner, NoOne, connection
<1>1. CASE LoopTest
  BY <1>1 DEF LoopTest
<1>2. CASE Accept
  <2>1. /\ connOpen' /\ peer' /\ ~connShut' /\ ~pending'
        /\ {connOpen', peer', connShut', pending'} \subseteq BOOLEAN
    BY <1>2, Zenon DEF Accept
  <2> QED
    BY <1>2, <2>1 DEF Accept
<1>3. CASE AcceptFails
  BY <1>3 DEF AcceptFails
<1>4. CASE Publish
  BY <1>4 DEF Publish
<1>5. CASE ServeTest
  BY <1>5 DEF ServeTest
<1>6. CASE ReadMessage
  BY <1>6 DEF ReadMessage
<1>7. CASE ReadFails
  BY <1>7 DEF ReadFails
<1>8. CASE Dispatch
  BY <1>8 DEF Dispatch
<1>9. CASE AnswerHeader
  <2>1. wire' \in Seq(Chunks) /\ Len(wire') <= WireBound
    BY <1>9, WriteType DEF AnswerHeader
  <2> QED
    BY <1>9, <2>1 DEF AnswerHeader
<1>10. CASE AnswerPayload
  <2>1. wire' \in Seq(Chunks) /\ Len(wire') <= WireBound
    BY <1>10, WriteType, Zenon DEF AnswerPayload
  <2> QED
    BY <1>10, <2>1 DEF AnswerPayload
<1>11. CASE Unpublish
  <2>1. ~connFdWrite' /\ connFdWrite' \in BOOLEAN
    BY <1>11, Zenon DEF Unpublish
  <2> QED
    BY <1>11, <2>1 DEF Unpublish
<1>12. CASE Close
  <2>1. ~connOpen' /\ ~peer' /\ connOpen' \in BOOLEAN /\ peer' \in BOOLEAN
    BY <1>12, Zenon DEF Close
  <2> QED
    BY <1>12, <2>1 DEF Close
<1> QED
  BY <1>1, <1>2, <1>3, <1>4, <1>5, <1>6, <1>7, <1>8, <1>9, <1>10, <1>11, <1>12, Zenon
  DEF ServerStep

\* push_frame() preserves it.
LEMMA PusherPreserves ==
    ASSUME ControlInv, NEW p \in Pushers, Pusher(p)
    PROVE  ControlInv'
<1> USE ControlAssumption DEF ControlInv, TypeOK, Serving, Writers, Server, Owner, NoOne, connection
<1>1. CASE PushFrame(p)
  BY <1>1 DEF PushFrame
<1>2. CASE PushHeader(p)
  <2>1. wire' \in Seq(Chunks) /\ Len(wire') <= WireBound
    BY <1>2, WriteType DEF PushHeader
  <2> QED
    BY <1>2, <2>1 DEF PushHeader
<1>3. CASE PushPayload(p)
  <2>1. wire' \in Seq(Chunks) /\ Len(wire') <= WireBound
    BY <1>3, WriteType DEF PushPayload
  <2> QED
    BY <1>3, <2>1 DEF PushPayload
<1> QED
  BY <1>1, <1>2, <1>3 DEF Pusher

\* The client preserves it.
LEMMA ClientPreserves ==
    ASSUME ControlInv, Client
    PROVE  ControlInv'
<1> USE ControlAssumption DEF ControlInv, TypeOK, Serving, Writers, Server, Owner, NoOne, connection
<1>1. CASE Connect
  BY <1>1 DEF Connect
<1>2. ASSUME NEW m \in Messages, ClientSend(m) PROVE ControlInv'
  BY <1>2 DEF ClientSend
<1>3. CASE ClientRead
  <2>1. Head(wire) \in Chunks
    BY <1>3 DEF ClientRead
  <2>2. Parsed(Head(wire)) \in Writers \cup {"header", "garbage"}
    BY <2>1 DEF Parsed, Chunks
  <2> QED
    BY <1>3, <2>2 DEF ClientRead
<1>4. CASE ClientClose
  <2>1. ~peer' /\ peer' \in BOOLEAN
    BY <1>4, Zenon DEF ClientClose
  <2> QED
    BY <1>4, <2>1 DEF ClientClose
<1> QED
  BY <1>1, <1>2, <1>3, <1>4 DEF Client

\* Every step preserves the invariant.
LEMMA ControlStep ==
    ASSUME ControlInv, [Next]_vars
    PROVE  ControlInv'
<1>1. CASE UNCHANGED vars
  BY <1>1 DEF ControlInv, TypeOK, vars, connection
<1> QED
  BY <1>1, OwnerPreserves, ServerPreserves, PusherPreserves, ClientPreserves DEF Next

(* Who may touch the connection, for any number of pushing threads and any traffic. *)
THEOREM ControlInvariance == Spec => []ControlInv
BY ControlInitInv, ControlStep, PTL DEF Spec

(* push_frame() never writes to a descriptor that run() has closed. *)
THEOREM WriteSafety == Spec => []NoWriteAfterClose
<1>1. ControlInv => NoWriteAfterClose
  BY DEF ControlInv, NoWriteAfterClose
<1> QED
  BY <1>1, ControlInvariance, PTL

(* After stop() nothing of the connection is left. *)
THEOREM StopSafety == Spec => []StoppedIsQuiet
<1>1. ControlInv => StoppedIsQuiet
  BY DEF ControlInv, StoppedIsQuiet, Serving
<1> QED
  BY <1>1, ControlInvariance, PTL

\* A write of w at the end of the wire keeps pushed frames apart: an answer always
\* does, a push does when it is the header of a new frame or the payload of the
\* open one.
LEMMA WriteKeepsFrames ==
    ASSUME ControlInv, PushesDoNotInterleave, OpenFrameIsHeld,
           NEW w \in Writers, NEW part \in {"header", "payload"}, WriteOk(w, part),
           w \in Pushers => ppc[w] = part,
           UNCHANGED <<connOpen, connShut, peer>>,
           \A p \in Pushers : p # w => ppc'[p] = ppc[p],
           w \in Pushers /\ part = "header" => ppc'[w] = "payload"
    PROVE  PushesDoNotInterleave' /\ OpenFrameIsHeld'
<1>1. /\ wire \in Seq(Chunks) /\ Len(wire) \in Nat /\ DOMAIN wire = 1 .. Len(wire)
      /\ DOMAIN wire' = 1 .. Len(wire) + 1 /\ Len(wire') = Len(wire) + 1
      /\ \A i \in 1 .. Len(wire) : wire'[i] = wire[i]
      /\ wire'[Len(wire) + 1] = [by |-> w, part |-> part]
  BY DEF WriteOk, ControlInv, TypeOK
<1>2. \A p, q \in Pushers : ppc[p] # "idle" /\ ppc[q] # "idle" => p = q
  BY DEF ControlInv
<1>3. connOpen /\ peer /\ ~connShut
  BY DEF WriteOk
<1>4. ASSUME NEW i \in 1 .. Len(wire), wire[i].by \in Pushers, wire[i].part = "header",
             OnlyAnswers(i, Len(wire) + 1)
      PROVE  ppc[wire[i].by] = "payload"
  BY <1>1, <1>3, <1>4 DEF OpenFrameIsHeld
<1>5. ASSUME NEW i \in 1 .. Len(wire) + 1, NEW j \in 1 .. Len(wire) + 1
      PROVE  OnlyAnswers(i, j)' <=> OnlyAnswers(i, j)
  BY <1>1 DEF OnlyAnswers
<1>6. ASSUME NEW i \in DOMAIN wire', NEW j \in DOMAIN wire', i < j, OnlyAnswers(i, j)',
             wire'[i].by \in Pushers, wire'[j].by \in Pushers, wire'[i].part = "header"
      PROVE  wire'[j] = [by |-> wire'[i].by, part |-> "payload"]
  <2>1. i \in 1 .. Len(wire) /\ wire'[i] = wire[i] /\ OnlyAnswers(i, j)
    BY <1>1, <1>5, <1>6
  <2>2. CASE j \in 1 .. Len(wire)
    BY <1>1, <1>6, <2>1, <2>2 DEF PushesDoNotInterleave
  <2>3. CASE j = Len(wire) + 1
    <3>1. ppc[wire[i].by] = "payload" /\ wire'[j] = [by |-> w, part |-> part] /\ w \in Pushers
      BY <1>1, <1>4, <1>6, <2>1, <2>3
    <3>2. w = wire[i].by /\ part = "payload"
      BY <1>2, <1>6, <2>1, <3>1
    <3> QED
      BY <2>1, <3>1, <3>2
  <2> QED
    BY <1>1, <2>2, <2>3
<1>7. ASSUME NEW i \in DOMAIN wire', wire'[i].by \in Pushers, wire'[i].part = "header",
             OnlyAnswers(i, Len(wire) + 1)'
      PROVE  ppc'[wire'[i].by] = "payload"
  <2>1. \A k \in i + 1 .. Len(wire) + 1 : wire'[k].by \notin Pushers
    BY <1>1, <1>7 DEF OnlyAnswers
  <2>2. CASE i = Len(wire) + 1
    BY <1>1, <1>7, <2>2
  <2>3. CASE i \in 1 .. Len(wire)
    <3>1. w \notin Pushers
      BY <1>1, <2>1, <2>3
    <3>2. OnlyAnswers(i, Len(wire) + 1)
      BY <1>1, <2>1, <2>3 DEF OnlyAnswers
    <3>3. ppc[wire[i].by] = "payload" /\ wire'[i] = wire[i]
      BY <1>1, <1>4, <1>7, <2>3, <3>2
    <3> QED
      BY <1>7, <3>1, <3>3
  <2> QED
    BY <1>1, <2>2, <2>3
<1> QED
  BY <1>6, <1>7 DEF PushesDoNotInterleave, OpenFrameIsHeld

\* Nothing is written, and who holds an open frame stays or the connection ends.
LEMMA NoWriteKeepsFrames ==
    ASSUME PushesDoNotInterleave, OpenFrameIsHeld, UNCHANGED wire,
           connOpen' => connOpen, peer' => peer, connShut => connShut',
           \A p \in Pushers : ppc[p] = "payload" =>
               ppc'[p] = "payload" \/ ~connOpen \/ ~peer \/ connShut
    PROVE  PushesDoNotInterleave' /\ OpenFrameIsHeld'
<1>1. \A i, j : OnlyAnswers(i, j)' <=> OnlyAnswers(i, j)
  BY DEF OnlyAnswers
<1>2. PushesDoNotInterleave'
  BY <1>1, Zenon DEF PushesDoNotInterleave
<1>3. ASSUME NEW i \in DOMAIN wire, wire[i].by \in Pushers, wire[i].part = "header",
             OnlyAnswers(i, Len(wire) + 1)'
      PROVE  ppc'[wire[i].by] = "payload" \/ ~connOpen' \/ ~peer' \/ connShut'
  <2>1. OnlyAnswers(i, Len(wire) + 1)
    BY <1>3 DEF OnlyAnswers
  <2> QED
    BY <1>3, <2>1 DEF OpenFrameIsHeld
<1> QED
  BY <1>2, <1>3 DEF OpenFrameIsHeld

\* The client takes the first write off the wire.
LEMMA ReadKeepsFrames ==
    ASSUME ControlInv, PushesDoNotInterleave, OpenFrameIsHeld, ClientRead
    PROVE  PushesDoNotInterleave' /\ OpenFrameIsHeld'
<1>1. wire \in Seq(Chunks) /\ wire # <<>> /\ wire' = Tail(wire)
  BY DEF ClientRead, ControlInv, TypeOK
<1>2. /\ Len(wire) \in Nat /\ Len(wire) > 0 /\ DOMAIN wire = 1 .. Len(wire)
      /\ DOMAIN wire' = 1 .. Len(wire) - 1 /\ Len(wire') = Len(wire) - 1
      /\ \A i \in 1 .. Len(wire) - 1 : wire'[i] = wire[i + 1]
  BY <1>1
<1>3. ASSUME NEW i \in 1 .. Len(wire), NEW j \in 1 .. Len(wire), OnlyAnswers(i, j)'
      PROVE  OnlyAnswers(i + 1, j + 1)
  <2> SUFFICES ASSUME NEW k \in i + 2 .. j PROVE wire[k].by \notin Pushers
    BY DEF OnlyAnswers
  <2>1. k - 1 \in i + 1 .. j - 1 /\ k - 1 \in 1 .. Len(wire) - 1 /\ k - 1 + 1 = k
    BY <1>2
  <2>2. wire'[k - 1].by \notin Pushers
    BY <1>3, <2>1 DEF OnlyAnswers
  <2> QED
    BY <1>2, <2>1, <2>2
<1>4. \A i \in DOMAIN wire' : i \in 1 .. Len(wire) /\ i + 1 \in DOMAIN wire /\ wire'[i] = wire[i + 1]
  BY <1>2
<1>5. ASSUME NEW i \in DOMAIN wire', NEW j \in DOMAIN wire', i < j, OnlyAnswers(i, j)',
             wire'[i].by \in Pushers, wire'[j].by \in Pushers, wire'[i].part = "header"
      PROVE  wire'[j] = [by |-> wire'[i].by, part |-> "payload"]
  <2>1. OnlyAnswers(i + 1, j + 1) /\ i + 1 < j + 1
    BY <1>2, <1>3, <1>4, <1>5
  <2> QED
    BY <1>4, <1>5, <2>1 DEF PushesDoNotInterleave
<1>6. ASSUME NEW i \in DOMAIN wire', wire'[i].by \in Pushers, wire'[i].part = "header",
             OnlyAnswers(i, Len(wire) + 1)'
      PROVE  ppc'[wire'[i].by] = "payload" \/ ~connOpen' \/ ~peer' \/ connShut'
  <2>a. Len(wire) \in 1 .. Len(wire)
    BY <1>2
  <2>0. PICK n \in 1 .. Len(wire) : n = Len(wire)
    BY <2>a, Zenon
  <2>1. OnlyAnswers(i, n)'
    BY <1>2, <1>6, <2>0 DEF OnlyAnswers
  <2>2. OnlyAnswers(i + 1, Len(wire) + 1)
    BY <1>3, <1>4, <2>0, <2>1
  <2> QED
    BY <1>4, <1>6, <2>2 DEF OpenFrameIsHeld, ClientRead
<1> QED
  BY <1>5, <1>6 DEF PushesDoNotInterleave, OpenFrameIsHeld

\* Every step keeps pushed frames apart.
LEMMA FramesStep ==
    ASSUME ControlInv, PushesDoNotInterleave, OpenFrameIsHeld, [Next]_vars
    PROVE  PushesDoNotInterleave' /\ OpenFrameIsHeld'
<1>1. ASSUME UNCHANGED <<wire, ppc, connOpen>>, peer' => peer, connShut => connShut'
      PROVE  PushesDoNotInterleave' /\ OpenFrameIsHeld'
  BY <1>1, NoWriteKeepsFrames
<1>7. CASE Start \/ Stop
  <2>1. CASE StopShutdown
    BY <1>1, <2>1, Zenon DEF StopShutdown
  <2>2. CASE ~StopShutdown
    <3>1. UNCHANGED <<connection, ppc>>
      BY <1>7, <2>2, Zenon DEF Start, Stop, StopBegin, StopLock, StopListen, StopJoin
    <3> QED
      BY <1>1, <3>1 DEF connection
  <2> QED
    BY <2>1, <2>2
<1>8. CASE \/ LoopTest \/ AcceptFails \/ Publish \/ ServeTest \/ ReadMessage \/ ReadFails
           \/ Unpublish \/ Connect \/ UNCHANGED vars
  <2>1. UNCHANGED <<connection, ppc>>
    BY <1>8, Zenon DEF LoopTest, AcceptFails, Publish, ServeTest, ReadMessage, ReadFails, Unpublish,
       Connect, vars
  <2> QED
    BY <1>1, <2>1 DEF connection
<1>9. CASE Dispatch \/ ClientClose \/ \E m \in Messages : ClientSend(m)
  <2>1. UNCHANGED <<wire, ppc, connOpen, connShut>> /\ (peer' => peer)
    BY <1>9 DEF Dispatch, ClientClose, ClientSend
  <2> QED
    BY <1>1, <2>1
<1>2. CASE Accept \/ Close
  <2>1. DOMAIN wire' = {}
    BY <1>2 DEF Accept, Close
  <2> QED
    BY <2>1 DEF PushesDoNotInterleave, OpenFrameIsHeld
<1>3. CASE AnswerHeader \/ AnswerPayload
  <2>0. Server \in Writers /\ Server \notin Pushers /\ UNCHANGED <<ppc, connOpen, connShut, peer>>
    BY <1>3, ControlAssumption DEF Writers, AnswerHeader, AnswerPayload
  <2>1. ASSUME NEW part \in {"header", "payload"}, WriteOk(Server, part)
        PROVE  PushesDoNotInterleave' /\ OpenFrameIsHeld'
    BY <2>0, <2>1, WriteKeepsFrames
  <2>2. CASE WriteFails
    BY <2>0, <2>2, NoWriteKeepsFrames DEF WriteFails
  <2> QED
    BY <1>3, <2>1, <2>2 DEF AnswerHeader, AnswerPayload
<1>4. ASSUME NEW p \in Pushers, PushFrame(p) PROVE PushesDoNotInterleave' /\ OpenFrameIsHeld'
  <2>1. /\ UNCHANGED <<wire, connOpen, peer, connShut>>
        /\ \A q \in Pushers : ppc[q] = "payload" => ppc'[q] = "payload"
    BY <1>4 DEF PushFrame, connection, ControlInv, TypeOK
  <2> QED
    BY <2>1, NoWriteKeepsFrames
<1>5. ASSUME NEW p \in Pushers, PushHeader(p) \/ PushPayload(p)
      PROVE  PushesDoNotInterleave' /\ OpenFrameIsHeld'
  <2>0. p \in Writers /\ UNCHANGED <<connOpen, connShut, peer>> /\ ppc[p] \in {"header", "payload"}
    BY <1>5 DEF Writers, PushHeader, PushPayload
  <2>1. \A q \in Pushers : q # p => ppc'[q] = ppc[q]
    BY <1>5 DEF PushHeader, PushPayload, ControlInv, TypeOK
  <2>2. CASE WriteFails
    BY <2>0, <2>1, <2>2, NoWriteKeepsFrames DEF WriteFails
  <2>3. CASE WriteOk(p, ppc[p])
    <3>1. ppc[p] = "header" => ppc'[p] = "payload"
      BY <1>5, <2>3 DEF PushHeader, PushPayload, WriteOk, WriteFails, ControlInv, TypeOK
    <3>2. PICK part \in {"header", "payload"} : part = ppc[p]
      BY <2>0
    <3>3. WriteOk(p, part) /\ ppc[p] = part /\ (part = "header" => ppc'[p] = "payload")
      BY <2>3, <3>1, <3>2
    <3> QED
      BY <2>0, <2>1, <3>3, WriteKeepsFrames
  <2> QED
    BY <1>5, <2>2, <2>3 DEF PushHeader, PushPayload
<1>6. CASE ClientRead
  BY <1>6, ReadKeepsFrames
<1> QED
  BY <1>2, <1>3, <1>4, <1>5, <1>6, <1>7, <1>8, <1>9 DEF Next, ServerStep, Pusher, Client

(* Frames of push_frame() reach the client one at a time, whatever the number of
   pushing threads and however the writes of answers fall between. *)
THEOREM PushSafety == Spec => []PushesDoNotInterleave
<1>1. Init => PushesDoNotInterleave /\ OpenFrameIsHeld
  BY DEF Init, PushesDoNotInterleave, OpenFrameIsHeld
<1> QED
  BY <1>1, FramesStep, ControlInvariance, PTL DEF Spec

-----------------------------------------------------------------------------
(* The messages                                                            *)

\* What dispatching one message, recorded as h, does to the state: the route of
\* every kind of message, put together.
Dispatched(h) ==
    /\ h \in Entries
    /\ Len(hist) < MaxMessages /\ hist' = Append(hist, h) /\ wired' = wired
    /\ sess' \in BOOLEAN
    /\ SessionEvent(h) => (sess' <=> h.m.kind = "session_open" /\ h.ok)
    /\ ~SessionEvent(h) => sess' = sess
    /\ log' = IF ForLog(h) /\ sess THEN Append(log, Here) ELSE log
    /\ queues' = queues \/ \E q \in Queues : queues' = Pushed(q)
    /\ sent' = IF ForDevice(h) THEN Append(sent, Here) ELSE sent
    /\ ~Asked(h) => answers' = answers
    /\ Asked(h) => \E a \in [to : {Here}, form : {"result", "error"}, error : BOOLEAN] :
                       answers' = Append(answers, a)
    /\ \/ tty' = tty
       \/ \E a \in [to : {Here}, form : {"result", "error"}, error : BOOLEAN] :
              tty' = Append(tty, a)
    /\ mods' = IF "engine" \notin wired \/ ~Sets(h, h.m.id) THEN mods
               ELSE IF h.m.kind = "modulator_stop"
               THEN [x \in DOMAIN mods \ {h.m.id} |-> mods[x]]
               ELSE IF h.m.kind = "modulator_start" \/ h.m.id \in DOMAIN mods
               THEN [x \in DOMAIN mods \cup {h.m.id} |-> IF x = h.m.id THEN Here ELSE mods[x]]
               ELSE mods

\* Every message that dispatch_message() handles is one such step.
LEMMA DispatchedCase ==
    ASSUME DispatchTypeOK, UNCHANGED wired,
           NEW from \in Froms, NEW m \in IpcMessages, DispatchMessage(from, m)
    PROVE  \E h : Dispatched(h)
<1> USE DEF Record, Here, SessionEvent, ForLog, ForDevice, Asked, Sets, Switches, MidiKinds, Entries, Froms, Queues
<1> DEFINE H(ok) == [from |-> from, m |-> m, ok |-> ok]
<1>1. \A ok \in BOOLEAN : /\ H(ok) \in Entries
                          /\ H(ok).from = from /\ H(ok).m = m /\ H(ok).ok = ok
  OBVIOUS
<1> HIDE DEF H
<1>2. CASE SessionOpen(from, m)
  <2>1. PICK ok \in BOOLEAN :
               Record(from, m, ok) /\ sess' = IF from = "client" THEN ok ELSE sess
    BY <1>2 DEF SessionOpen
  <2>2. Dispatched(H(ok))
    BY <1>1, <1>2, <2>1 DEF SessionOpen, Dispatched, DispatchTypeOK, H
  <2> QED
    BY <2>2
<1>3. CASE SessionClose(from, m)
  <2>1. Dispatched(H(TRUE))
    BY <1>1, <1>3, Zenon DEF SessionClose, Dispatched, DispatchTypeOK, H
  <2> QED
    BY <2>1, Zenon
<1>4. CASE RegisterSource(from, m)
  <2>1. Dispatched(H(TRUE))
    BY <1>1, <1>4 DEF RegisterSource, Dispatched, DispatchTypeOK, H, Logged
  <2> QED
    BY <2>1, Zenon
<1>5. CASE TxLog(from, m)
  <2>1. Dispatched(H(TRUE))
    BY <1>1, <1>5 DEF TxLog, Dispatched, DispatchTypeOK, H, Logged
  <2> QED
    BY <2>1, Zenon
<1>6. CASE ParamSet(from, m)
  <2>1. Dispatched(H(TRUE))
    BY <1>1, <1>6 DEF ParamSet, Dispatched, DispatchTypeOK, H
  <2> QED
    BY <2>1, Zenon
<1>7. CASE Note(from, m)
  <2>1. Dispatched(H(TRUE))
    BY <1>1, <1>7 DEF Note, Dispatched, DispatchTypeOK, H
  <2> QED
    BY <2>1, Zenon
<1>8. CASE MidiIn(from, m)
  <2>1. Dispatched(H(TRUE))
    BY <1>1, <1>8 DEF MidiIn, Dispatched, DispatchTypeOK, H
  <2> QED
    BY <2>1, Zenon
<1>9. CASE ModulatorStart(from, m)
  <2>1. Dispatched(H(TRUE))
    BY <1>1, <1>9 DEF ModulatorStart, Dispatched, DispatchTypeOK, H
  <2> QED
    BY <2>1, Zenon
<1>10. CASE ModulatorStop(from, m)
  <2>1. Dispatched(H(TRUE))
    BY <1>1, <1>10 DEF ModulatorStop, Dispatched, DispatchTypeOK, H
  <2> QED
    BY <2>1, Zenon
<1>11. CASE ModulatorUpdate(from, m)
  <2>1. ASSUME m.id \in DOMAIN mods
        PROVE  [mods EXCEPT ![m.id] = Here]
                   = [x \in DOMAIN mods \cup {m.id} |-> IF x = m.id THEN Here ELSE mods[x]]
    BY <2>1, Zenon DEF DispatchTypeOK
  <2>2. Dispatched(H(TRUE))
    BY <1>1, <1>11, <2>1 DEF ModulatorUpdate, Dispatched, DispatchTypeOK, H
  <2> QED
    BY <2>2, Zenon
<1>12. CASE MidiOut(from, m)
  <2>1. Dispatched(H(TRUE))
    BY <1>1, <1>12, Zenon DEF MidiOut, Dispatched, DispatchTypeOK, H
  <2> QED
    BY <2>1, Zenon
<1>13. CASE OscOut(from, m)
  <2>1. Dispatched(H(TRUE))
    BY <1>1, <1>13 DEF OscOut, Dispatched, DispatchTypeOK, H, OscBuilt
  <2> QED
    BY <2>1, Zenon
<1>14. CASE ReplEval(from, m)
  <2>1. PICK ok \in BOOLEAN :
               /\ Record(from, m, ok)
               /\ tty' = IF m.wellFormed /\ m.arg = "vcvrack-tty" /\ "tty" \in wired
                         THEN Append(tty, [to |-> Here, error |-> ~ok,
                                           form |-> IF ok THEN "result" ELSE "error"])
                         ELSE tty
               /\ answers' = IF m.wellFormed /\ from = "client"
                             THEN Append(answers, [to |-> Here, form |-> "result", error |-> ~ok])
                             ELSE answers
    BY <1>14, Zenon DEF ReplEval
  <2> DEFINE a == [to |-> Here, form |-> "result", error |-> ~ok]
             b == [to |-> Here, error |-> ~ok, form |-> IF ok THEN "result" ELSE "error"]
  <2>2. /\ a \in [to : {Here}, form : {"result", "error"}, error : BOOLEAN]
        /\ b \in [to : {Here}, form : {"result", "error"}, error : BOOLEAN]
    OBVIOUS
  <2> HIDE DEF a, b
  <2>3. /\ answers' = IF m.wellFormed /\ from = "client" THEN Append(answers, a) ELSE answers
        /\ tty' = tty \/ tty' = Append(tty, b)
    BY <2>1 DEF a, b
  <2>4. Dispatched(H(ok))
    BY <1>1, <1>14, <2>1, <2>2, <2>3, Zenon DEF ReplEval, Dispatched, DispatchTypeOK, H
  <2> QED
    BY <2>4
<1>15. CASE WasmHotSwap(from, m)
  <2>1. PICK ok \in BOOLEAN :
               /\ Record(from, m, ok)
               /\ answers' = IF m.wellFormed /\ from = "client"
                             THEN Append(answers, [to |-> Here, error |-> ~ok,
                                                   form |-> IF ok THEN "result" ELSE "error"])
                             ELSE answers
    BY <1>15, Zenon DEF WasmHotSwap
  <2> DEFINE a == [to |-> Here, error |-> ~ok, form |-> IF ok THEN "result" ELSE "error"]
  <2>2. a \in [to : {Here}, form : {"result", "error"}, error : BOOLEAN]
    OBVIOUS
  <2> HIDE DEF a
  <2>3. answers' = IF m.wellFormed /\ from = "client" THEN Append(answers, a) ELSE answers
    BY <2>1 DEF a
  <2>4. Dispatched(H(ok))
    BY <1>1, <1>15, <2>1, <2>2, <2>3, Zenon DEF WasmHotSwap, Dispatched, DispatchTypeOK, H
  <2> QED
    BY <2>4
<1> QED
  BY <1>2, <1>3, <1>4, <1>5, <1>6, <1>7, <1>8, <1>9, <1>10, <1>11, <1>12, <1>13, <1>14, <1>15
  DEF DispatchMessage

\* So is the end of the connection.
LEMMA HangupCase ==
    ASSUME DispatchTypeOK, UNCHANGED wired, Disconnect
    PROVE  \E h : Dispatched(h)
<1> DEFINE h == [from |-> "client", m |-> Hangup, ok |-> TRUE]
<1>1. h \in Entries /\ h.from = "client" /\ h.m = Hangup /\ h.m.kind = "disconnect"
  BY DEF Entries, Froms, Hangup
<1>2. ~sess' /\ sess' \in BOOLEAN
  BY Zenon DEF Disconnect
<1>3. Len(hist) < MaxMessages /\ hist' = Append(hist, h)
  BY DEF Disconnect, Record
<1> HIDE DEF h
<1>4. Dispatched(h)
  BY <1>1, <1>2, <1>3 DEF Disconnect, Dispatched, SessionEvent, ForLog, ForDevice, Asked, Sets,
                          Switches, MidiKinds
<1> QED
  BY <1>4

\* The history is longer by h.
Grown(h) ==
    /\ Len(hist) \in Nat /\ DOMAIN hist = 1 .. Len(hist)
    /\ Len(hist') = Len(hist) + 1 /\ DOMAIN hist' = 1 .. Len(hist) + 1
    /\ Here \notin DOMAIN hist /\ DOMAIN hist' = DOMAIN hist \cup {Here}
    /\ \A i \in 1 .. Len(hist) : hist'[i] = hist[i]
    /\ hist'[Len(hist) + 1] = h
    /\ Here \in Index /\ Here \in Nat /\ Here = Len(hist) + 1 /\ Here' = Len(hist) + 2

LEMMA HistoryGrows ==
    ASSUME DispatchTypeOK, NEW h, Dispatched(h)
    PROVE  Grown(h) /\ hist' \in Seq(Entries) /\ Len(hist') <= MaxMessages
<1>1. /\ h \in Entries /\ hist \in Seq(Entries) /\ Len(hist) < MaxMessages
      /\ hist' = Append(hist, h) /\ MaxMessages \in Nat
  BY DispatchAssumption DEF DispatchTypeOK, Dispatched
<1> QED
  BY <1>1 DEF Here, Index, Grown

\* The positions that pass a test, when one position is added.
LEMMA OneMore ==
    ASSUME NEW D, NEW x, x \notin D, NEW S, S \subseteq D, NEW T, T \subseteq D \cup {x},
           \A i \in D : i \in T <=> i \in S
    PROVE  T = IF x \in T THEN S \cup {x} ELSE S
OBVIOUS

\* Positions added at the end keep a list of positions in order.
LEMMA AscendingGrows ==
    ASSUME NEW s \in Seq(Index), NEW S, NEW n \in Index, Ascending(s, S), \A x \in S : x < n
    PROVE  Ascending(Append(s, n), S \cup {n})
<1> DEFINE t == Append(s, n)
<1>1. /\ Len(s) \in Nat /\ DOMAIN s = 1 .. Len(s) /\ DOMAIN t = 1 .. Len(s) + 1
      /\ \A i \in 1 .. Len(s) : t[i] = s[i]
      /\ t[Len(s) + 1] = n
  OBVIOUS
<1> HIDE DEF t
<1>2. {t[i] : i \in DOMAIN t} = S \cup {n}
  <2>1. \A i \in DOMAIN t : i \in DOMAIN s \/ i = Len(s) + 1
    BY <1>1
  <2>2. \A i \in DOMAIN s : i \in DOMAIN t /\ t[i] = s[i]
    BY <1>1
  <2>3. Len(s) + 1 \in DOMAIN t
    BY <1>1
  <2> QED
    BY <1>1, <2>1, <2>2, <2>3 DEF Ascending
<1>3. ASSUME NEW i \in DOMAIN t, NEW j \in DOMAIN t, i < j
      PROVE  t[i] < t[j]
  <2>1. i \in DOMAIN s /\ t[i] = s[i] /\ s[i] \in S
    BY <1>1, <1>3 DEF Ascending
  <2>2. CASE j = Len(s) + 1
    BY <1>1, <2>1, <2>2
  <2>3. CASE j \in DOMAIN s
    BY <1>1, <1>3, <2>1, <2>3 DEF Ascending
  <2> QED
    BY <1>1, <2>2, <2>3
<1> QED
  BY <1>2, <1>3, Zenon DEF Ascending, t

\* Types.
LEMMA TypesPreserved ==
    ASSUME DispatchTypeOK, NEW h, Dispatched(h)
    PROVE  DispatchTypeOK'
<1> USE DispatchAssumption
<1>1. Here \in Index /\ hist' \in Seq(Entries) /\ Len(hist') <= MaxMessages
  BY HistoryGrows DEF Grown
<1>2. wired' \in Wirings /\ sess' \in BOOLEAN /\ log' \in Seq(Index) /\ sent' \in Seq(Index)
  BY <1>1 DEF Dispatched, DispatchTypeOK
<1>3. /\ queues' \in [Queues -> Seq(Index)]
      /\ \A q \in Queues : Len(queues'[q]) <= QueueBound
  <2>1. CASE queues' = queues
    BY <2>1 DEF DispatchTypeOK
  <2>2. ASSUME NEW q \in Queues, queues' = Pushed(q)
        PROVE  <1>3!1 /\ <1>3!2
    BY <1>1, <2>2 DEF DispatchTypeOK, Pushed
  <2> QED
    BY <2>1, <2>2 DEF Dispatched
<1>4. mods' \in [DOMAIN mods' -> Index]
  BY <1>1 DEF Dispatched, DispatchTypeOK
<1>5. \A a \in [to : {Here}, form : {"result", "error"}, error : BOOLEAN] : a \in Answers
  BY <1>1 DEF Answers
<1>6. answers \in Seq(Answers) /\ tty \in Seq(Answers)
  BY DEF DispatchTypeOK
<1>7. ASSUME NEW a \in [to : {Here}, form : {"result", "error"}, error : BOOLEAN]
      PROVE  Append(answers, a) \in Seq(Answers) /\ Append(tty, a) \in Seq(Answers)
  BY <1>5, <1>6
<1>8. answers' \in Seq(Answers) /\ tty' \in Seq(Answers)
  BY <1>6, <1>7, Zenon DEF Dispatched
<1> QED
  BY <1>1, <1>2, <1>3, <1>4, <1>8 DEF DispatchTypeOK

\* The session and the log.
LEMMA LogPreserved ==
    ASSUME DispatchTypeOK, LogIsSessionTraffic, sess <=> InSession(Here),
           NEW h, Dispatched(h)
    PROVE  LogIsSessionTraffic' /\ (sess' <=> InSession(Here)')
<1>0. Grown(h)
  BY HistoryGrows
<1> USE <1>0 DEF Grown
<1>1. ASSUME NEW i \in 1 .. Len(hist) + 1
      PROVE  InSession(i)' <=> InSession(i)
  <2>1. \A j \in 1 .. i - 1 : hist'[j] = hist[j]
    OBVIOUS
  <2>2. \A j \in 1 .. i - 1 : \A k \in j + 1 .. i - 1 : k \in 1 .. i - 1
    OBVIOUS
  <2>3. ASSUME NEW j \in 1 .. i - 1
        PROVE  (\A k \in j + 1 .. i - 1 : ~SessionEvent(hist'[k]))
                   <=> (\A k \in j + 1 .. i - 1 : ~SessionEvent(hist[k]))
    BY <2>1, <2>2
  <2> QED
    BY <2>1, <2>3, Zenon DEF InSession
<1>2. sess' <=> InSession(Here)'
  <2>1. CASE SessionEvent(h)
    BY <2>1 DEF InSession, Dispatched
  <2>2. CASE ~SessionEvent(h)
    <3>0. PICK n \in Nat : n = Len(hist) + 1
      OBVIOUS
    <3> USE <3>0
    <3>1. sess' <=> InSession(n)
      BY <2>2 DEF Dispatched
    <3>2. ASSUME InSession(n)' PROVE InSession(Here)'
      <4>1. PICK j \in 1 .. n - 1 :
               /\ SessionEvent(hist'[j]) /\ hist'[j].m.kind = "session_open" /\ hist'[j].ok
               /\ \A k \in j + 1 .. n - 1 : ~SessionEvent(hist'[k])
        BY <3>2 DEF InSession
      <4>2. \A k \in j + 1 .. n : ~SessionEvent(hist'[k])
        BY <2>2, <4>1
      <4> QED
        BY <4>1, <4>2 DEF InSession
    <3>3. ASSUME InSession(Here)' PROVE InSession(n)'
      <4>1. PICK j \in 1 .. n :
               /\ SessionEvent(hist'[j]) /\ hist'[j].m.kind = "session_open" /\ hist'[j].ok
               /\ \A k \in j + 1 .. n : ~SessionEvent(hist'[k])
        BY <3>3 DEF InSession
      <4>2. j \in 1 .. n - 1
        BY <2>2, <4>1
      <4> QED
        BY <4>1, <4>2 DEF InSession
    <3> QED
      BY <1>1, <3>1, <3>2, <3>3
  <2> QED
    BY <2>1, <2>2
<1> DEFINE S == {i \in DOMAIN hist : ForLog(hist[i]) /\ InSession(i)}
           T == {i \in DOMAIN hist' : ForLog(hist'[i]) /\ InSession(i)'}
<1>3. T = IF ForLog(h) /\ sess THEN S \cup {Here} ELSE S
  <2>1. \A i \in DOMAIN hist : i \in T <=> i \in S
    BY <1>1
  <2>2. Here \in T <=> ForLog(h) /\ sess
    BY <1>1
  <2>3. S \subseteq DOMAIN hist /\ T \subseteq DOMAIN hist \cup {Here} /\ Here \notin DOMAIN hist
    OBVIOUS
  <2> HIDE <1>0 DEF S, T
  <2> QED
    BY <2>1, <2>2, <2>3, OneMore
<1>4. Ascending(log, S) /\ (\A x \in S : x < Here) /\ log \in Seq(Index)
  BY DEF LogIsSessionTraffic, DispatchTypeOK
<1> HIDE DEF S, T
<1>5. Ascending(log', T)
  BY <1>3, <1>4, AscendingGrows DEF Dispatched
<1>6. LogIsSessionTraffic'
  BY <1>5 DEF LogIsSessionTraffic, T
<1> QED
  BY <1>2, <1>6

\* The devices.
LEMMA SentPreserved ==
    ASSUME DispatchTypeOK, Ascending(sent, {i \in DOMAIN hist : ForDevice(hist[i])}),
           NEW h, Dispatched(h)
    PROVE  Ascending(sent, {i \in DOMAIN hist : ForDevice(hist[i])})'
<1>0. Grown(h) /\ wired' = wired
  BY HistoryGrows, Zenon DEF Dispatched
<1> USE <1>0 DEF Grown
<1> DEFINE S == {i \in DOMAIN hist : ForDevice(hist[i])}
           T == {i \in DOMAIN hist' : ForDevice(hist[i])'}
<1>1. T = IF ForDevice(h) THEN S \cup {Here} ELSE S
  <2>1. \A i \in DOMAIN hist : i \in T <=> i \in S
    BY Zenon DEF ForDevice
  <2>2. Here \in T <=> ForDevice(h)
    BY DEF ForDevice
  <2>3. S \subseteq DOMAIN hist /\ T \subseteq DOMAIN hist \cup {Here} /\ Here \notin DOMAIN hist
    OBVIOUS
  <2> HIDE <1>0 DEF S, T
  <2> QED
    BY <2>1, <2>2, <2>3, OneMore
<1>2. Ascending(sent, S) /\ (\A x \in S : x < Here) /\ sent \in Seq(Index)
  BY DEF DispatchTypeOK
<1> HIDE DEF S, T
<1>3. Ascending(sent', T)
  BY <1>1, <1>2, AscendingGrows DEF Dispatched
<1> QED
  BY <1>3 DEF T

\* The answers.
LEMMA AnswersPreserved ==
    ASSUME DispatchTypeOK, AnsweredOnceInOrder, NEW h, Dispatched(h)
    PROVE  AnsweredOnceInOrder'
<1>0. Grown(h)
  BY HistoryGrows
<1> USE <1>0 DEF Grown
<1> DEFINE S == {i \in DOMAIN hist : Asked(hist[i])}
           T == {i \in DOMAIN hist' : Asked(hist'[i])}
           s == [i \in DOMAIN answers |-> answers[i].to]
           t == [i \in DOMAIN answers' |-> answers'[i].to]
<1>1. T = IF Asked(h) THEN S \cup {Here} ELSE S
  <2>1. \A i \in DOMAIN hist : i \in T <=> i \in S
    OBVIOUS
  <2>2. Here \in T <=> Asked(h)
    OBVIOUS
  <2>3. S \subseteq DOMAIN hist /\ T \subseteq DOMAIN hist \cup {Here} /\ Here \notin DOMAIN hist
    OBVIOUS
  <2> HIDE <1>0 DEF S, T
  <2> QED
    BY <2>1, <2>2, <2>3, OneMore
<1>2. Ascending(s, S) /\ (\A x \in S : x < Here)
  BY DEF AnsweredOnceInOrder
<1>3. Len(s) = Len(answers) /\ Len(answers) \in Nat /\ s \in Seq(Index)
  <2>1. DOMAIN answers = 1 .. Len(answers) /\ Len(answers) \in Nat
    BY DEF DispatchTypeOK
  <2>2. ASSUME NEW i \in 1 .. Len(answers) PROVE answers[i].to \in Index
    <3>1. answers[i] \in Answers
      BY <2>1 DEF DispatchTypeOK
    <3> QED
      BY <3>1 DEF Answers
  <2> QED
    BY <2>1, <2>2
<1>4. CASE ~Asked(h)
  <2>1. answers' = answers /\ T = S
    BY <1>1, <1>4 DEF Dispatched
  <2> QED
    BY <1>2, <2>1, Zenon DEF AnsweredOnceInOrder
<1>5. CASE Asked(h)
  <2>1. PICK a \in [to : {Here}, form : {"result", "error"}, error : BOOLEAN] :
               answers' = Append(answers, a)
    BY <1>5 DEF Dispatched
  <2>2. /\ DOMAIN answers' = 1 .. Len(answers) + 1
        /\ \A i \in 1 .. Len(answers) : answers'[i] = answers[i]
        /\ answers'[Len(answers) + 1].to = Here
    BY <2>1, <1>3 DEF DispatchTypeOK
  <2>3. t = Append(s, Here)
    <3>1. /\ DOMAIN Append(s, Here) = 1 .. Len(answers) + 1
          /\ \A i \in 1 .. Len(answers) : Append(s, Here)[i] = s[i]
          /\ Append(s, Here)[Len(answers) + 1] = Here
          /\ Append(s, Here) = [i \in 1 .. Len(answers) + 1 |-> Append(s, Here)[i]]
      BY <1>3
    <3>2. \A i \in 1 .. Len(answers) : s[i] = answers[i].to
      BY <1>3
    <3>3. \A i \in 1 .. Len(answers) + 1 : t[i] = Append(s, Here)[i]
      BY <2>2, <3>1, <3>2, <1>3
    <3> QED
      BY <2>2, <3>1, <3>3
  <2> HIDE DEF s, t, S, T
  <2>4. Ascending(t, T)
    BY <1>1, <1>2, <1>3, <1>5, <2>3, AscendingGrows
  <2> QED
    BY <2>4 DEF AnsweredOnceInOrder, t, T
<1> QED
  BY <1>4, <1>5

\* What the queues hold: messages already dispatched, in order, none in two queues.
QueuesInOrder ==
    /\ \A q \in Queues : \A i, j \in DOMAIN queues[q] : i < j => queues[q][i] < queues[q][j]
    /\ \A q, r \in Queues : q # r =>
          \A i \in DOMAIN queues[q], j \in DOMAIN queues[r] : queues[q][i] # queues[r][j]
    /\ \A q \in Queues : \A i \in DOMAIN queues[q] : queues[q][i] \in DOMAIN hist

LEMMA QueuesPreserved ==
    ASSUME DispatchTypeOK, QueuesInOrder, NEW h, Dispatched(h)
    PROVE  QueuesInOrder'
<1>0. Grown(h)
  BY HistoryGrows
<1> USE <1>0 DEF Grown
<1>1. CASE queues' = queues
  <2>1. \A x \in DOMAIN hist : x \in DOMAIN hist'
    OBVIOUS
  <2> QED
    BY <1>1, <2>1, SMT DEF QueuesInOrder
<1>2. ASSUME NEW p \in Queues, queues' = Pushed(p), Len(queues[p]) < QueueBound
      PROVE  QueuesInOrder'
  <2>1. /\ DOMAIN queues[p] = 1 .. Len(queues[p]) /\ Len(queues[p]) \in Nat
        /\ DOMAIN queues'[p] = 1 .. Len(queues[p]) + 1
        /\ \A i \in 1 .. Len(queues[p]) : queues'[p][i] = queues[p][i]
        /\ queues'[p][Len(queues[p]) + 1] = Here
        /\ \A q \in Queues \ {p} : queues'[q] = queues[q]
    BY <1>2 DEF Pushed, DispatchTypeOK
  <2> DEFINE n == Len(queues[p])
  <2>a. \A q \in Queues : \A i \in DOMAIN queues'[q] :
           \/ i \in DOMAIN queues[q] /\ queues'[q][i] = queues[q][i] /\ queues[q][i] \in DOMAIN hist
           \/ q = p /\ i = n + 1 /\ queues'[q][i] = Here
    <3> SUFFICES ASSUME NEW q \in Queues, NEW i \in DOMAIN queues'[q]
                 PROVE  \/ /\ i \in DOMAIN queues[q] /\ queues'[q][i] = queues[q][i]
                           /\ queues[q][i] \in DOMAIN hist
                        \/ q = p /\ i = n + 1 /\ queues'[q][i] = Here
      OBVIOUS
    <3>1. CASE q # p
      BY <2>1, <3>1 DEF QueuesInOrder
    <3>2. CASE q = p
      <4>1. i \in 1 .. n + 1
        BY <2>1, <3>2
      <4>2. i \in 1 .. n \/ i = n + 1
        BY <2>1, <4>1
      <4>3. CASE i \in 1 .. n
        BY <2>1, <3>2, <4>3 DEF QueuesInOrder
      <4>4. CASE i = n + 1
        BY <2>1, <3>2, <4>4
      <4> QED
        BY <4>2, <4>3, <4>4
    <3> QED
      BY <3>1, <3>2
  <2>b. \A i \in DOMAIN queues[p] : i < n + 1
    BY <2>1
  <2>c. \A x \in DOMAIN hist : x < Here /\ x \in DOMAIN hist'
    OBVIOUS
  <2>d. Here \in DOMAIN hist'
    OBVIOUS
  <2> HIDE DEF n
  <2>2. ASSUME NEW q \in Queues, NEW i \in DOMAIN queues'[q]
        PROVE  queues'[q][i] \in DOMAIN hist'
    BY <2>a, <2>c, <2>d
  <2>3. ASSUME NEW q \in Queues, NEW i \in DOMAIN queues'[q], NEW j \in DOMAIN queues'[q], i < j
        PROVE  queues'[q][i] < queues'[q][j]
    <3>1. i \in DOMAIN queues[q] /\ queues'[q][i] = queues[q][i] /\ queues[q][i] \in DOMAIN hist
      BY <2>a, <2>3, <2>1 DEF n
    <3>2. CASE j \in DOMAIN queues[q] /\ queues'[q][j] = queues[q][j]
      BY <2>3, <3>1, <3>2 DEF QueuesInOrder
    <3>3. CASE queues'[q][j] = Here
      BY <3>1, <3>3, <2>c
    <3> QED
      BY <2>a, <3>2, <3>3
  <2>4. ASSUME NEW q \in Queues, NEW r \in Queues, q # r,
               NEW i \in DOMAIN queues'[q], NEW j \in DOMAIN queues'[r]
        PROVE  queues'[q][i] # queues'[r][j]
    <3>1. \A x \in DOMAIN hist : x # Here
      BY <2>c
    <3> QED
      BY <2>a, <2>4, <3>1 DEF QueuesInOrder
  <2> QED
    BY <2>2, <2>3, <2>4 DEF QueuesInOrder
<1> QED
  BY <1>1, <1>2 DEF Dispatched, Pushed

\* The modulators: who runs, and with which parameter.
LEMMA ModsPreserved ==
    ASSUME DispatchTypeOK, RunningIffStarted, NEW h, Dispatched(h)
    PROVE  RunningIffStarted'
<1>0. Grown(h) /\ wired' = wired
  BY HistoryGrows, Zenon DEF Dispatched
<1> DEFINE engine == "engine" \in wired
           id == h.m.id
<1>1. \A x : x \in DOMAIN mods <=> engine /\ Started(x)
  <2>1. \A x : Started(x) => x \in {hist[i].m.id : i \in DOMAIN hist}
    BY DEF Started, LastSwitch, Switches
  <2> QED
    BY <2>1, Zenon DEF RunningIffStarted
<1>2. \A x : (Sets(h, x) => x = id) /\ (Switches(h, x) => Sets(h, x))
  BY DEF Sets, Switches
<1>3. ASSUME NEW x, Switches(h, x)
      PROVE  Started(x)' <=> h.m.kind = "modulator_start"
  <2>1. \A i \in DOMAIN hist' : i = Len(hist) + 1 => LastSwitch(i, x)'
    BY <1>0, <1>3 DEF Grown, LastSwitch
  <2>2. \A i \in DOMAIN hist' : LastSwitch(i, x)' => i = Len(hist) + 1
    BY <1>0, <1>3 DEF Grown, LastSwitch
  <2> QED
    BY <1>0, <2>1, <2>2 DEF Grown, Started
<1>4. ASSUME NEW x, ~Switches(h, x)
      PROVE  Started(x)' <=> Started(x)
  <2>1. \A i \in DOMAIN hist : LastSwitch(i, x)' <=> LastSwitch(i, x)
    BY <1>0, <1>4 DEF Grown, LastSwitch
  <2>2. \A i \in DOMAIN hist' : LastSwitch(i, x)' => i \in DOMAIN hist
    BY <1>0, <1>4 DEF Grown, LastSwitch
  <2>3. \A i \in DOMAIN hist : i \in DOMAIN hist' /\ hist'[i] = hist[i]
    BY <1>0 DEF Grown
  <2> QED
    BY <2>1, <2>2, <2>3 DEF Started
<1>5. ASSUME NEW x, Sets(h, x)
      PROVE  Here \in DOMAIN hist' /\ \A n \in DOMAIN hist' : n = Here => LastSet(n, x)'
  BY <1>0, <1>5 DEF Grown, LastSet
<1>6. ASSUME NEW x, ~Sets(h, x), NEW i \in DOMAIN hist, LastSet(i, x)
      PROVE  i \in DOMAIN hist' /\ LastSet(i, x)'
  BY <1>0, <1>6 DEF Grown, LastSet
<1>7. \A x : x \in DOMAIN mods' <=> engine /\ Started(x)'
  <2>1. CASE ~engine \/ ~Sets(h, id)
    BY <1>1, <1>2, <1>4, <2>1 DEF Dispatched
  <2>2. CASE engine /\ Sets(h, id)
    <3>1. \A x : x # id => (x \in DOMAIN mods' <=> x \in DOMAIN mods)
      BY DEF Dispatched
    <3>2. \A x : x # id => (Started(x)' <=> Started(x))
      BY <1>2, <1>4
    <3>3. id \in DOMAIN mods' <=> Started(id)'
      <4>1. CASE h.m.kind = "modulator_stop"
        BY <1>3, <2>2, <4>1 DEF Dispatched, Sets, Switches
      <4>2. CASE h.m.kind = "modulator_start"
        BY <1>3, <2>2, <4>2 DEF Dispatched, Sets, Switches
      <4>3. CASE h.m.kind = "modulator_update"
        <5>1. ~Switches(h, id)
          BY <4>3 DEF Switches
        <5>2. id \in DOMAIN mods' <=> id \in DOMAIN mods
          BY <4>3 DEF Dispatched
        <5> QED
          BY <1>1, <1>4, <2>2, <5>1, <5>2
      <4> QED
        BY <2>2, <4>1, <4>2, <4>3 DEF Sets, Switches
    <3> QED
      BY <1>1, <2>2, <3>1, <3>2, <3>3
  <2> QED
    BY <2>1, <2>2
<1>8. ASSUME NEW x \in DOMAIN mods'
      PROVE  mods'[x] \in DOMAIN hist' /\ LastSet(mods[x], x)'
  <2>1. CASE engine /\ Sets(h, x)
    <3>1. mods'[x] = Here
      BY <1>2, <2>1, <1>8 DEF Dispatched, Sets, Switches
    <3> QED
      BY <1>5, <2>1, <3>1
  <2>2. CASE ~engine \/ ~Sets(h, x)
    <3>1. x \in DOMAIN mods /\ mods'[x] = mods[x]
      BY <1>2, <2>2, <1>8 DEF Dispatched
    <3>2. mods[x] \in DOMAIN hist /\ LastSet(mods[x], x) /\ engine
      BY <1>1, <3>1 DEF RunningIffStarted
    <3>3. PICK i \in DOMAIN hist : i = mods[x]
      BY <3>2
    <3>4. i \in DOMAIN hist' /\ LastSet(i, x)'
      BY <1>6, <2>2, <3>2, <3>3
    <3> QED
      BY <3>1, <3>3, <3>4
  <2> QED
    BY <2>1, <2>2
<1>9. \A x : Started(x)' => x \in {hist'[i].m.id : i \in DOMAIN hist'}
  BY DEF Started, LastSwitch, Switches
<1> QED
  BY <1>0, <1>7, <1>8, <1>9, Zenon DEF RunningIffStarted

\* The audio thread only shortens a queue.
LEMMA ConsumePreserves ==
    ASSUME DispatchTypeOK, QueuesInOrder, UNCHANGED wired, NEW p \in Queues, Consume(p)
    PROVE  DispatchTypeOK' /\ QueuesInOrder'
<1>1. /\ UNCHANGED <<sess, log, mods, sent, answers, tty, hist>>
      /\ queues[p] # <<>> /\ queues' = [queues EXCEPT ![p] = Tail(@)]
  BY DEF Consume
<1>2. queues \in [Queues -> Seq(Index)] /\ queues[p] \in Seq(Index) /\ Len(queues[p]) \in Nat
  BY DEF DispatchTypeOK
<1>3. /\ Tail(queues[p]) \in Seq(Index) /\ Len(Tail(queues[p])) = Len(queues[p]) - 1
      /\ DOMAIN queues[p] = 1 .. Len(queues[p])
      /\ DOMAIN Tail(queues[p]) = 1 .. Len(queues[p]) - 1
      /\ \A i \in 1 .. Len(queues[p]) - 1 : Tail(queues[p])[i] = queues[p][i + 1]
  BY <1>1, <1>2
<1>4. queues'[p] = Tail(queues[p]) /\ \A q \in Queues \ {p} : queues'[q] = queues[q]
  BY <1>1, <1>2
<1>5. DispatchTypeOK'
  <2>1. /\ queues' \in [Queues -> Seq(Index)]
        /\ \A q \in Queues : Len(queues'[q]) <= QueueBound
    BY <1>1, <1>2, <1>3, <1>4, DispatchAssumption DEF DispatchTypeOK
  <2> QED
    BY <1>1, <2>1 DEF DispatchTypeOK
<1> DEFINE k(q) == IF q = p THEN 1 ELSE 0
<1>6. ASSUME NEW q \in Queues, NEW i \in DOMAIN queues'[q]
      PROVE  i + k(q) \in DOMAIN queues[q] /\ queues'[q][i] = queues[q][i + k(q)] /\ i \in Nat
  <2>1. queues[q] \in Seq(Index) /\ DOMAIN queues[q] = 1 .. Len(queues[q]) /\ Len(queues[q]) \in Nat
    BY <1>2
  <2>2. CASE q = p
    BY <1>2, <1>3, <1>4, <2>2
  <2>3. CASE q # p
    BY <1>4, <2>1, <2>3
  <2> QED
    BY <2>2, <2>3
<1>7. \A q \in Queues : k(q) \in Nat
  OBVIOUS
<1> HIDE DEF k
<1>8. ASSUME NEW q \in Queues, NEW i \in DOMAIN queues'[q], NEW j \in DOMAIN queues'[q], i < j
      PROVE  queues'[q][i] < queues'[q][j]
  <2>1. i + k(q) < j + k(q)
    BY <1>6, <1>7, <1>8
  <2> QED
    BY <1>6, <2>1 DEF QueuesInOrder
<1>9. QueuesInOrder'
  BY <1>1, <1>6, <1>8 DEF QueuesInOrder
<1> QED
  BY <1>5, <1>9

\* A step that changes only the queues keeps the rest.
LEMMA SamePreserves ==
    ASSUME DispatchInv, DispatchTypeOK', QueuesInOrder',
           UNCHANGED <<wired, sess, log, mods, sent, answers, hist>>
    PROVE  DispatchInv'
<1>1. \A i : InSession(i)' <=> InSession(i)
  BY Zenon DEF InSession
<1>2. LogIsSessionTraffic' /\ (sess' <=> InSession(Here)')
  <2>1. LogIsSessionTraffic'
    BY <1>1, Zenon DEF DispatchInv, LogIsSessionTraffic
  <2>2. InSession(Here)' <=> InSession(Here)
    BY DEF InSession, Here
  <2> QED
    BY <2>1, <2>2, Zenon DEF DispatchInv
<1>3. AnsweredOnceInOrder'
  BY DEF DispatchInv, AnsweredOnceInOrder
<1>4. RunningIffStarted'
  BY DEF DispatchInv, RunningIffStarted, Started, LastSwitch, LastSet
<1>5. Ascending(sent, {i \in DOMAIN hist : ForDevice(hist[i])})'
  BY DEF DispatchInv, QueuedOnceInOrder, ForDevice
<1> QED
  BY <1>2, <1>3, <1>4, <1>5, Zenon DEF DispatchInv, QueuedOnceInOrder, QueuesInOrder

\* Every step preserves the invariant.
LEMMA DispatchStep ==
    ASSUME DispatchInv, [DispatchNext]_dispatchVars
    PROVE  DispatchInv'
<1>1. DispatchTypeOK /\ QueuesInOrder
  <2>1. DispatchTypeOK
    BY DEF DispatchInv, QueuedOnceInOrder
  <2>2. ASSUME NEW q \in Queues, NEW r \in Queues, q # r,
               NEW i \in DOMAIN queues[q], NEW j \in DOMAIN queues[r]
        PROVE  queues[q][i] # queues[r][j]
    BY <2>2 DEF DispatchInv, QueuedOnceInOrder
  <2> QED
    BY <2>1, <2>2, Zenon DEF DispatchInv, QueuedOnceInOrder, QueuesInOrder
<1>2. ASSUME NEW h, Dispatched(h) PROVE DispatchInv'
  <2>1. DispatchTypeOK'
    BY <1>1, <1>2, TypesPreserved
  <2>2. LogIsSessionTraffic' /\ (sess' <=> InSession(Here)')
    BY <1>1, <1>2, LogPreserved DEF DispatchInv
  <2>3. AnsweredOnceInOrder' /\ RunningIffStarted'
    BY <1>1, <1>2, AnswersPreserved, ModsPreserved DEF DispatchInv
  <2>4. QueuesInOrder'
    BY <1>1, <1>2, QueuesPreserved
  <2>5. Ascending(sent, {i \in DOMAIN hist : ForDevice(hist[i])})'
    BY <1>1, <1>2, SentPreserved DEF DispatchInv, QueuedOnceInOrder
  <2> QED
    BY <2>1, <2>2, <2>3, <2>4, <2>5, Zenon DEF DispatchInv, QueuedOnceInOrder, QueuesInOrder
<1>3. CASE UNCHANGED wired /\ \E from \in Froms, m \in IpcMessages : DispatchMessage(from, m)
  BY <1>1, <1>2, <1>3, DispatchedCase
<1>4. CASE UNCHANGED wired /\ Disconnect
  BY <1>1, <1>2, <1>4, HangupCase
<1>5. ASSUME UNCHANGED wired, NEW q \in Queues, Consume(q) PROVE DispatchInv'
  <2>1. DispatchTypeOK' /\ QueuesInOrder'
    BY <1>1, <1>5, ConsumePreserves
  <2>2. UNCHANGED <<wired, sess, log, mods, sent, answers, hist>>
    BY <1>5 DEF Consume
  <2> QED
    BY <2>1, <2>2, SamePreserves
<1>6. CASE UNCHANGED dispatchVars
  <2>1. UNCHANGED <<wired, sess, log, mods, sent, answers, hist>> /\ UNCHANGED <<queues, tty>>
    BY <1>6 DEF dispatchVars
  <2>2. DispatchTypeOK' /\ QueuesInOrder'
    BY <1>1, <2>1 DEF DispatchTypeOK, QueuesInOrder
  <2> QED
    BY <2>1, <2>2, SamePreserves
<1> QED
  BY <1>3, <1>4, <1>5, <1>6 DEF DispatchNext

LEMMA DispatchInitInv == DispatchInit => DispatchInv
<1> SUFFICES ASSUME DispatchInit PROVE DispatchInv
  OBVIOUS
<1>1. ~sess /\ sess \in BOOLEAN
  BY Zenon DEF DispatchInit
<1>2. DispatchTypeOK
  BY <1>1, DispatchAssumption DEF DispatchInit, DispatchTypeOK
<1>3. DOMAIN hist = {} /\ DOMAIN mods = {} /\ Len(hist) = 0 /\ DOMAIN answers = {}
      /\ DOMAIN log = {} /\ DOMAIN sent = {} /\ \A q \in Queues : DOMAIN queues[q] = {}
  BY DEF DispatchInit
<1>4. ~InSession(Here)
  BY <1>3 DEF InSession, Here
<1> QED
  BY <1>1, <1>2, <1>3, <1>4, Zenon DEF DispatchInv, QueuedOnceInOrder, LogIsSessionTraffic, Ascending,
     RunningIffStarted, AnsweredOnceInOrder

(* The dispatch invariant, for every configuration, any set of messages and any traffic
   of the client and the bridge in which each queue is fed by one of the two (OneProducer,
   what spsc_queue asks of its callers and dispatch_ctrl_frame() does not enforce). *)
THEOREM DispatchInvariance == DispatchSpec => []DispatchInv
BY DispatchInitInv, DispatchStep, PTL DEF DispatchSpec

(* The transaction log is the traffic of the client's own sessions, in order. *)
THEOREM LogSafety == DispatchSpec => []LogIsSessionTraffic
BY DispatchInvariance, PTL DEF DispatchInv

(* Each message takes one route, and each route keeps the order of dispatch, as long as
   each queue has one producer, the connection's thread or the bridge's. *)
THEOREM RouteSafety == DispatchSpec => []QueuedOnceInOrder
BY DispatchInvariance, PTL DEF DispatchInv

(* The modulators running are those whose last effective message was a start. *)
THEOREM ModulatorSafety == DispatchSpec => []RunningIffStarted
BY DispatchInvariance, PTL DEF DispatchInv

(* The client's requests are answered once, in the order they were made. *)
THEOREM AnswerSafety == DispatchSpec => []AnsweredOnceInOrder
BY DispatchInvariance, PTL DEF DispatchInv
================================================================================

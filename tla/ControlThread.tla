----------------------------- MODULE ControlThread -----------------------------
(***************************************************************************)
(* The threads around one rt_control_thread: the owner that calls start()  *)
(* and stop(), the server thread inside run() and handle_connection(), the *)
(* threads that call push_frame(), and the client at the other end of the  *)
(* socket.  What a message does to the rest of the system is the subject   *)
(* of ControlDispatch; here a message either is answered on the socket     *)
(* (repl_eval, wasm_hot_swap) or is not.                                   *)
(*                                                                         *)
(* ipc::write_message() makes two writes, header then payload, and each    *)
(* blocks while the socket buffer is full.  push_frame() makes them under  *)
(* write_mutex_; the answers in dispatch_message() and                     *)
(* dispatch_extension() make them without it.                              *)
(***************************************************************************)
EXTENDS Naturals, Sequences

CONSTANTS
    Pushers,     \* the threads that call push_frame()
    Messages,    \* the kinds of message the client sends
    InboxBound,  \* messages in flight towards the server
    WireBound    \* writes the socket buffer holds towards the client

Server == "server"
Owner  == "owner"
NoOne  == "none"
Kinds  == {"quiet", "answered", "oversize"}

ASSUME ControlAssumption ==
    /\ Messages \subseteq Kinds
    /\ InboxBound \in Nat \ {0} /\ WireBound \in Nat \ {0}
    /\ Pushers \cap {Server, Owner, NoOne} = {}

VARIABLES
    running,      \* running_
    listening,    \* the listening socket accepts connections
    opc,          \* where the owner is in start() / stop()
    spc,          \* where the server thread is
    wmutex,       \* who holds write_mutex_
    connFdWrite,  \* conn_fd_write_ >= 0
    connOpen,     \* the server's descriptor of the connection is open
    connShut,     \* stop() has shut the connection down
    peer,         \* the client's end of that connection is open
    pending,      \* a client waits in the listen backlog
    ppc,          \* where each pusher is in push_frame()
    inbox,        \* messages sent by the client and not yet read
    wire,         \* writes to the connection the client has not read yet
    parse         \* what the client's reader expects next

connection == <<connOpen, connShut, peer, inbox, wire, parse>>
vars == <<running, listening, opc, spc, wmutex, connFdWrite, pending, ppc, connection>>

Writers == Pushers \cup {Server}
Chunks  == [by : Writers, part : {"header", "payload"}]

TypeOK ==
    /\ running \in BOOLEAN /\ listening \in BOOLEAN
    /\ opc \in {"stopped", "started", "stop", "shutdown", "listen", "join"}
    /\ spc \in {"none", "loop", "accept", "publish", "serve", "read", "dispatch",
                "header", "payload", "unpublish", "close", "done"}
    /\ wmutex \in Pushers \cup {Owner, NoOne}
    /\ connFdWrite \in BOOLEAN /\ connOpen \in BOOLEAN /\ connShut \in BOOLEAN
    /\ peer \in BOOLEAN /\ pending \in BOOLEAN
    /\ ppc \in [Pushers -> {"idle", "header", "payload"}]
    /\ inbox \in Seq(Messages) /\ Len(inbox) <= InboxBound
    /\ wire \in Seq(Chunks) /\ Len(wire) <= WireBound
    /\ parse \in Writers \cup {"header", "garbage"}

Init ==
    /\ running = FALSE /\ listening = FALSE
    /\ opc = "stopped" /\ spc = "none"
    /\ wmutex = NoOne /\ connFdWrite = FALSE
    /\ connOpen = FALSE /\ connShut = FALSE /\ peer = FALSE /\ pending = FALSE
    /\ ppc = [p \in Pushers |-> "idle"]
    /\ inbox = <<>> /\ wire = <<>> /\ parse = "header"

-----------------------------------------------------------------------------
(* start() and stop()                                                      *)

\* make_listen_socket(), running_.store(true), std::thread(run).  When the socket
\* cannot be created start() returns early and changes nothing.
Start ==
    /\ opc = "stopped"
    /\ listening' = TRUE /\ running' = TRUE
    /\ spc' = "loop" /\ opc' = "started"
    /\ UNCHANGED <<wmutex, connFdWrite, pending, ppc, connection>>

\* Mutant: running_ is cleared only after the connection was shut down.
StopBeginKeepsRunning ==
    /\ opc = "started"
    /\ opc' = "stop"
    /\ UNCHANGED <<running, listening, spc, wmutex, connFdWrite, pending, ppc, connection>>

\* running_.exchange(false)
StopBegin ==
    /\ opc = "started"
    /\ running' = FALSE /\ opc' = "stop"
    /\ UNCHANGED <<listening, spc, wmutex, connFdWrite, pending, ppc, connection>>

\* lock_guard lock(write_mutex_)
StopLock ==
    /\ opc = "stop" /\ wmutex = NoOne
    /\ wmutex' = Owner /\ opc' = "shutdown"
    /\ UNCHANGED <<running, listening, spc, connFdWrite, pending, ppc, connection>>

\* if (conn_fd_write_ >= 0) shutdown(conn_fd_write_), and the lock is released.
StopShutdown ==
    /\ opc = "shutdown"
    /\ connShut' = (connShut \/ (connFdWrite /\ connOpen))
    /\ wmutex' = NoOne /\ opc' = "listen"
    /\ UNCHANGED <<running, listening, spc, connFdWrite, pending, ppc,
                   connOpen, peer, inbox, wire, parse>>

\* The listening socket is shut down, closed and unlinked; clients still in
\* its backlog are dropped unless the server's accept() has just taken one.
StopListen ==
    /\ opc = "listen"
    /\ listening' = FALSE /\ opc' = "join"
    /\ UNCHANGED <<running, spc, wmutex, connFdWrite, pending, ppc, connection>>

\* thread_.join() returns once run() has.
StopJoin ==
    /\ opc = "join" /\ spc = "done"
    /\ spc' = "none" /\ opc' = "stopped" /\ pending' = FALSE
    /\ UNCHANGED <<running, listening, wmutex, connFdWrite, ppc, connection>>

Stop == StopBegin \/ StopLock \/ StopShutdown \/ StopListen \/ StopJoin

-----------------------------------------------------------------------------
(* run() and handle_connection()                                           *)

\* while (running_)
LoopTest ==
    /\ spc = "loop"
    /\ spc' = IF running THEN "accept" ELSE "done"
    /\ UNCHANGED <<running, listening, opc, wmutex, connFdWrite, pending, ppc, connection>>

\* accept() returns a client of the backlog.
Accept ==
    /\ spc = "accept" /\ pending
    /\ pending' = FALSE
    /\ connOpen' = TRUE /\ connShut' = FALSE /\ peer' = TRUE
    /\ inbox' = <<>> /\ wire' = <<>> /\ parse' = "header"
    /\ spc' = "publish"
    /\ UNCHANGED <<running, listening, opc, wmutex, connFdWrite, ppc>>

\* accept() fails: a signal is retried; any other error (the socket was shut
\* down or closed by stop(), no descriptor left) ends run().
AcceptFails ==
    /\ spc = "accept"
    /\ spc' \in {"loop", "done"}
    /\ UNCHANGED <<running, listening, opc, wmutex, connFdWrite, pending, ppc, connection>>

\* { lock_guard lock(write_mutex_); conn_fd_write_ = conn_fd; }
Publish ==
    /\ spc = "publish" /\ wmutex = NoOne
    /\ connFdWrite' = TRUE /\ spc' = "serve"
    /\ UNCHANGED <<running, listening, opc, wmutex, pending, ppc, connection>>

\* while (running_)
ServeTest ==
    /\ spc = "serve"
    /\ spc' = IF running THEN "read" ELSE "unpublish"
    /\ UNCHANGED <<running, listening, opc, wmutex, connFdWrite, pending, ppc, connection>>

\* read_message() returns a whole frame.
ReadMessage ==
    /\ spc = "read" /\ inbox # <<>> /\ Head(inbox) # "oversize"
    /\ spc' = "dispatch"
    /\ UNCHANGED <<running, listening, opc, wmutex, connFdWrite, pending, ppc, connection>>

\* read_message() fails: the client is gone, stop() shut the connection down, or
\* the frame is larger than max_payload_bytes.
ReadFails ==
    /\ spc = "read"
    /\ connShut \/ ~peer \/ (inbox # <<>> /\ Head(inbox) = "oversize")
    /\ spc' = "unpublish"
    /\ UNCHANGED <<running, listening, opc, wmutex, connFdWrite, pending, ppc, connection>>

\* dispatch_message(): an answered message goes on to write its answer.
Dispatch ==
    /\ spc = "dispatch"
    /\ inbox' = Tail(inbox)
    /\ spc' = IF Head(inbox) = "answered" THEN "header" ELSE "serve"
    /\ UNCHANGED <<running, listening, opc, wmutex, connFdWrite, pending, ppc,
                   connOpen, connShut, peer, wire, parse>>

\* One ::write() of ipc::write_message() by w.  It blocks while the buffer is
\* full, and fails once the client is gone or the connection was shut down.
WriteOk(w, part) ==
    /\ connOpen /\ peer /\ ~connShut
    /\ Len(wire) < WireBound
    /\ wire' = Append(wire, [by |-> w, part |-> part])

WriteFails ==
    /\ ~connOpen \/ ~peer \/ connShut
    /\ UNCHANGED wire

\* write_message(conn_fd, ...) of an answer: no lock is taken.  Its result is
\* ignored, a failing header write skips the payload.
AnswerHeader ==
    /\ spc = "header"
    /\ \/ WriteOk(Server, "header") /\ spc' = "payload"
       \/ WriteFails /\ spc' = "serve"
    /\ UNCHANGED <<running, listening, opc, wmutex, connFdWrite, pending, ppc,
                   connOpen, connShut, peer, inbox, parse>>

AnswerPayload ==
    /\ spc = "payload"
    /\ WriteOk(Server, "payload") \/ WriteFails
    /\ spc' = "serve"
    /\ UNCHANGED <<running, listening, opc, wmutex, connFdWrite, pending, ppc,
                   connOpen, connShut, peer, inbox, parse>>

\* Mutant: handle_connection() leaves conn_fd_write_ set.
UnpublishForgets ==
    /\ spc = "unpublish" /\ wmutex = NoOne
    /\ spc' = "close"
    /\ UNCHANGED <<running, listening, opc, wmutex, connFdWrite, pending, ppc, connection>>

\* Mutant: conn_fd_write_ is cleared without taking write_mutex_.
UnpublishUnlocked ==
    /\ spc = "unpublish"
    /\ connFdWrite' = FALSE /\ spc' = "close"
    /\ UNCHANGED <<running, listening, opc, wmutex, pending, ppc, connection>>

\* { lock_guard lock(write_mutex_); conn_fd_write_ = -1; }
Unpublish ==
    /\ spc = "unpublish" /\ wmutex = NoOne
    /\ connFdWrite' = FALSE /\ spc' = "close"
    /\ UNCHANGED <<running, listening, opc, wmutex, pending, ppc, connection>>

\* ::close(conn_fd)
Close ==
    /\ spc = "close"
    /\ connOpen' = FALSE /\ peer' = FALSE
    /\ inbox' = <<>> /\ wire' = <<>> /\ parse' = "header"
    /\ spc' = "loop"
    /\ UNCHANGED <<running, listening, opc, wmutex, connFdWrite, pending, ppc, connShut>>

ServerStep ==
    \/ LoopTest \/ Accept \/ AcceptFails \/ Publish \/ ServeTest \/ ReadMessage
    \/ ReadFails \/ Dispatch \/ AnswerHeader \/ AnswerPayload \/ Unpublish \/ Close

-----------------------------------------------------------------------------
(* push_frame(), from any thread                                           *)

\* Mutant: write_mutex_ is not taken.
PushFrameUnlocked(p) ==
    /\ ppc[p] = "idle" /\ connFdWrite
    /\ ppc' = [ppc EXCEPT ![p] = "header"]
    /\ UNCHANGED <<running, listening, opc, spc, wmutex, connFdWrite, pending, connection>>

\* lock_guard lock(write_mutex_); conn_fd_write_ >= 0.  conn_fd_write_ changes only
\* under the lock; without a connection push_frame() returns and changes nothing.
PushFrame(p) ==
    /\ ppc[p] = "idle" /\ wmutex = NoOne /\ connFdWrite
    /\ wmutex' = p
    /\ ppc' = [ppc EXCEPT ![p] = "header"]
    /\ UNCHANGED <<running, listening, opc, spc, connFdWrite, pending, connection>>

\* write_message(): the header; on failure push_frame() returns and unlocks.
PushHeader(p) ==
    /\ ppc[p] = "header"
    /\ \/ /\ WriteOk(p, "header")
          /\ ppc' = [ppc EXCEPT ![p] = "payload"]
          /\ UNCHANGED wmutex
       \/ /\ WriteFails
          /\ ppc' = [ppc EXCEPT ![p] = "idle"]
          /\ wmutex' = NoOne
    /\ UNCHANGED <<running, listening, opc, spc, connFdWrite, pending,
                   connOpen, connShut, peer, inbox, parse>>

\* The payload; push_frame() returns and unlocks either way.
PushPayload(p) ==
    /\ ppc[p] = "payload"
    /\ WriteOk(p, "payload") \/ WriteFails
    /\ ppc' = [ppc EXCEPT ![p] = "idle"]
    /\ wmutex' = NoOne
    /\ UNCHANGED <<running, listening, opc, spc, connFdWrite, pending,
                   connOpen, connShut, peer, inbox, parse>>

Pusher(p) == PushFrame(p) \/ PushHeader(p) \/ PushPayload(p)

-----------------------------------------------------------------------------
(* The client                                                              *)

Connect ==
    /\ listening /\ ~pending
    /\ pending' = TRUE
    /\ UNCHANGED <<running, listening, opc, spc, wmutex, connFdWrite, ppc, connection>>

ClientSend(m) ==
    /\ peer /\ ~connShut /\ Len(inbox) < InboxBound
    /\ inbox' = Append(inbox, m)
    /\ UNCHANGED <<running, listening, opc, spc, wmutex, connFdWrite, pending, ppc,
                   connOpen, connShut, peer, wire, parse>>

\* What the client's reader makes of the next write: a header announces a
\* payload, and only that frame's payload may follow it.
Parsed(chunk) ==
    CASE parse = "header" /\ chunk.part = "header"     -> chunk.by
      [] parse = chunk.by /\ chunk.part = "payload"    -> "header"
      [] OTHER                                         -> "garbage"

ClientRead ==
    /\ peer /\ wire # <<>>
    /\ parse' = Parsed(Head(wire))
    /\ wire' = Tail(wire)
    /\ UNCHANGED <<running, listening, opc, spc, wmutex, connFdWrite, pending, ppc,
                   connOpen, connShut, peer, inbox>>

ClientClose ==
    /\ peer
    /\ peer' = FALSE
    /\ UNCHANGED <<running, listening, opc, spc, wmutex, connFdWrite, pending, ppc,
                   connOpen, connShut, inbox, wire, parse>>

Client == Connect \/ (\E m \in Messages : ClientSend(m)) \/ ClientRead \/ ClientClose

-----------------------------------------------------------------------------

Next == Start \/ Stop \/ ServerStep \/ (\E p \in Pushers : Pusher(p)) \/ Client

Spec == Init /\ [][Next]_vars

\* Every thread of the process keeps running: a step that is not blocked is
\* taken, and a thread waiting for write_mutex_ gets it when the mutex keeps
\* being released.  accept() need not fail before the socket is shut down, and
\* nothing is assumed of the client.
ProcessFairness ==
    /\ WF_vars(StopShutdown \/ StopListen \/ StopJoin) /\ SF_vars(StopLock)
    /\ WF_vars(LoopTest \/ Accept \/ (AcceptFails /\ ~listening) \/ ServeTest
               \/ ReadMessage \/ ReadFails \/ Dispatch \/ AnswerHeader
               \/ AnswerPayload \/ Close)
    /\ SF_vars(Publish) /\ SF_vars(Unpublish)
    /\ \A p \in Pushers : WF_vars(PushHeader(p) \/ PushPayload(p))

FairSpec == Spec /\ ProcessFairness

\* The same with a client that reads what it is sent.
ReadingClientSpec == FairSpec /\ WF_vars(ClientRead)

-----------------------------------------------------------------------------

Serving == {"serve", "read", "dispatch", "header", "payload", "unpublish"}

(* Who may touch the connection, as an invariant every step preserves:
   write_mutex_ belongs to the one thread inside push_frame() or to stop(),
   conn_fd_write_ names the connection exactly while handle_connection() serves
   it, and a frame is being pushed only during that time. *)
ControlInv ==
    /\ TypeOK
    /\ \A p \in Pushers : ppc[p] # "idle" <=> wmutex = p
    /\ wmutex = Owner <=> opc = "shutdown"
    /\ \A p \in Pushers : ppc[p] # "idle" => connFdWrite
    /\ connFdWrite <=> spc \in Serving
    /\ connOpen <=> spc \in Serving \cup {"publish", "close"}
    /\ peer => connOpen
    /\ spc = "none" <=> opc = "stopped"
    /\ running <=> opc = "started"
    /\ spc = "dispatch" => inbox # <<>>

(* No thread writes to a descriptor the server has closed (its number may
   already belong to another file): handle_connection() clears conn_fd_write_
   under write_mutex_ before run() closes the descriptor, so every frame begun
   by push_frame() is finished first. *)
NoWriteAfterClose ==
    \A p \in Pushers : ppc[p] # "idle" => connOpen

(* Once stop() has returned, the server thread has ended, the connection is
   closed and no push_frame() is left inside a write. *)
StoppedIsQuiet ==
    opc = "stopped" =>
        /\ spc = "none" /\ ~connOpen /\ ~connFdWrite
        /\ \A p \in Pushers : ppc[p] = "idle"

(* "Push an outbound frame to the currently-connected client (if any).  Safe to
   call from any thread -- serialised by write_mutex_": the client always sees
   whole frames, a header followed by its own payload. *)
ClientSeesWholeFrames == parse # "garbage"

\* The writes between positions i and j of the wire are answers.
OnlyAnswers(i, j) == \A k \in i + 1 .. j - 1 : wire[k].by \notin Pushers

(* What write_mutex_ does guarantee: push_frame()s of different threads never
   interleave.  Between a header and its payload there may be writes of an
   answer, which takes no lock, but none of another push_frame(). *)
PushesDoNotInterleave ==
    \A i, j \in DOMAIN wire :
        /\ i < j /\ wire[i].by \in Pushers /\ wire[j].by \in Pushers /\ OnlyAnswers(i, j)
        /\ wire[i].part = "header"
        => wire[j] = [by |-> wire[i].by, part |-> "payload"]

\* Why: while a pushed header is the last push_frame() write on the wire, its
\* thread still holds write_mutex_ for the payload, or the connection is beyond
\* writing.
OpenFrameIsHeld ==
    \A i \in DOMAIN wire :
        wire[i].by \in Pushers /\ wire[i].part = "header" /\ OnlyAnswers(i, Len(wire) + 1)
        => ppc[wire[i].by] = "payload" \/ ~connOpen \/ ~peer \/ connShut

(* stop() returns: the accept() or read_message() the server thread is blocked in
   is woken, whichever side of the checks of running_ it was on when stop()
   began. *)
StopReturns == (opc = "stop") ~> (opc = "stopped")
================================================================================

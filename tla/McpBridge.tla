------------------------------- MODULE McpBridge -------------------------------
(***************************************************************************)
(* nomos-mcp, a program of its own that answers JSON-RPC requests on its   *)
(* standard input and evaluates expressions over kairos' control socket,   *)
(* composed with what it sees of rt_control_thread: one connection is      *)
(* served at a time, the others wait in the listen backlog, and            *)
(* push_frame() writes ticks and the like to whoever is served.            *)
(*                                                                         *)
(* Each evaluation makes a connection of its own, numbered here like its   *)
(* request.  How frames are laid out on the socket is in ControlThread,    *)
(* what an evaluation does in LuaParticipant.                              *)
(***************************************************************************)
EXTENDS Naturals, Sequences, FiniteSets

CONSTANTS
    Requests,    \* the requests a client may send: [kind : Methods, hasId : BOOLEAN]
    MaxRequests, \* bound: requests
    MaxPushes,   \* bound: frames pushed on a connection of the bridge
    MaxDowns     \* bound: times kairos goes down

\* What main() and handle_evaluate() tell apart; "oversize" is an evaluation
\* whose frame exceeds max_payload_bytes.
Methods == {"initialize", "initialized", "list", "evaluate", "oversize",
          "noexpr", "badtool", "unknown"}

ASSUME McpAssumption ==
    /\ Requests \subseteq [kind : Methods, hasId : BOOLEAN]
    /\ MaxRequests \in Nat

Other  == MaxRequests + 1   \* the client nomos-mcp shares the socket with
NoConn == 0

VARIABLES
    up,         \* kairos listens on the socket path
    backlog,    \* connections waiting for accept()
    served,     \* the connection handle_connection() serves
    evaluating, \* dispatch_message() is inside an evaluation
    other,      \* the other client is connected
    mail,       \* the connections whose request kairos has not read
    frames,     \* frames on the bridge's connection it has not read
    reset,      \* kairos' end of the bridge's connection is closed
    pushes, downs,
    mpc,        \* where nomos-mcp is
    asked,      \* the requests it has read
    fds,        \* the connections it has a descriptor of
    written     \* what it has written to its standard output

kairos == <<up, served, evaluating, other, downs>>
socket == <<backlog, mail, frames, reset, pushes>>
bridge == <<mpc, asked, fds, written>>
mcpVars   == <<kairos, socket, bridge>>

McpInit ==
    /\ up = TRUE /\ served = NoConn /\ evaluating = FALSE /\ other = FALSE /\ downs = 0
    /\ backlog = <<>> /\ mail = {} /\ frames = <<>> /\ reset = FALSE /\ pushes = 0
    /\ mpc = "read" /\ asked = <<>> /\ fds = {} /\ written = <<>>

-----------------------------------------------------------------------------
(* nomos-mcp                                                               *)

\* id_raw: the id of the request, or null (0).
IdOf(n) == IF asked[n].hasId THEN n ELSE 0

Current == Len(asked)

Error == [type |-> "error", of |-> 0]

\* mcp_result() or mcp_error() for the current request.
Reply(body) == written' = Append(written, [id |-> IdOf(Current), body |-> body])

\* What main() writes for a request it answers by itself.
AnswerAtOnce(r) ==
    IF r.kind = "initialized" \/ (r.kind = "unknown" /\ ~r.hasId) THEN <<>>
    ELSE <<[id |-> IF r.hasId THEN Current + 1 ELSE 0,
            body |-> IF r.kind \in {"initialize", "list"}
                     THEN [type |-> "result", of |-> 0] ELSE Error]>>

\* mcp_read() returns a request and main() looks at its method.
McpRead(r) ==
    /\ mpc = "read" /\ Len(asked) < MaxRequests
    /\ asked' = Append(asked, r)
    /\ IF r.kind \in {"evaluate", "oversize"}
       THEN mpc' = "connect" /\ UNCHANGED written
       ELSE written' = written \o AnswerAtOnce(r) /\ UNCHANGED mpc
    /\ UNCHANGED <<kairos, socket, fds>>

\* mcp_read() meets the end of the input, or a header without a length: main() ends.
McpEof ==
    /\ mpc = "read"
    /\ mpc' = "done"
    /\ UNCHANGED <<kairos, socket, asked, fds, written>>

\* connect_kairos().  A connection in the backlog counts as connected.
Connect ==
    /\ mpc = "connect" /\ up
    /\ fds' = fds \cup {Current}
    /\ backlog' = Append(backlog, Current)
    /\ frames' = <<>> /\ reset' = FALSE /\ pushes' = 0
    /\ mpc' = "write"
    /\ UNCHANGED <<kairos, mail, asked, written>>

ConnectFails ==
    /\ mpc = "connect" /\ ~up
    /\ Reply(Error)
    /\ mpc' = "read"
    /\ UNCHANGED <<kairos, socket, asked, fds>>

\* ipc_write().  The payload of an oversize frame does not fit into the socket's
\* buffer: the program stays in write() until kairos closes the connection.
Write ==
    /\ mpc = "write" /\ ~reset
    /\ mail' = mail \cup {Current}
    /\ mpc' = IF asked[Current].kind = "oversize" THEN "sending" ELSE "wait"
    /\ UNCHANGED <<kairos, backlog, frames, reset, pushes, asked, fds, written>>

\* kairos has closed the connection.  A write() that has sent nothing raises SIGPIPE,
\* which ends the program unless its parent has it ignored; one that was cut short,
\* and one with the signal ignored, is reported.
WriteFails ==
    /\ mpc \in {"write", "sending"} /\ reset
    /\ fds' = fds \ {Current} /\ frames' = <<>>
    /\ \/ Reply(Error) /\ mpc' = "read"
       \/ mpc' = "killed" /\ UNCHANGED written
    /\ UNCHANGED <<kairos, backlog, mail, reset, pushes, asked>>

\* Mutant: the descriptor is not closed.
ReadForgetsClose ==
    /\ mpc = "wait" /\ frames # <<>>
    /\ Reply(Head(frames))
    /\ frames' = <<>> /\ mpc' = "read"
    /\ UNCHANGED <<kairos, backlog, mail, reset, pushes, asked, fds>>

\* ipc_read() returns the first frame of the connection, of whatever type; close(fd).
Read ==
    /\ mpc = "wait" /\ frames # <<>>
    /\ Reply(Head(frames))
    /\ fds' = fds \ {Current} /\ frames' = <<>> /\ mpc' = "read"
    /\ UNCHANGED <<kairos, backlog, mail, reset, pushes, asked>>

\* Mutant: an empty answer is not reported.
ReadFailsSilently ==
    /\ mpc = "wait" /\ frames = <<>> /\ reset
    /\ fds' = fds \ {Current} /\ mpc' = "read"
    /\ UNCHANGED <<kairos, socket, asked, written>>

\* ipc_read() meets the end of the connection.
ReadFails ==
    /\ mpc = "wait" /\ frames = <<>> /\ reset
    /\ Reply(Error)
    /\ fds' = fds \ {Current} /\ mpc' = "read"
    /\ UNCHANGED <<kairos, socket, asked>>

Bridge == Connect \/ ConnectFails \/ Write \/ WriteFails \/ Read \/ ReadFails

-----------------------------------------------------------------------------
(* kairos and its other client                                             *)

\* The served connection is the one nomos-mcp reads from.
Reaches == served = Current /\ served \in fds

Accept ==
    /\ up /\ served = NoConn /\ backlog # <<>>
    /\ served' = Head(backlog) /\ backlog' = Tail(backlog)
    /\ UNCHANGED <<up, evaluating, other, downs, mail, frames, reset, pushes, bridge>>

\* read_message() returns an evaluation.
ServeRead ==
    /\ served \in mail /\ ~evaluating /\ asked[served].kind = "evaluate"
    /\ mail' = mail \ {served}
    /\ evaluating' = TRUE
    /\ UNCHANGED <<up, served, other, downs, backlog, frames, reset, pushes, bridge>>

\* The answer is written, if there is still someone to read it.
Answer ==
    /\ evaluating
    /\ evaluating' = FALSE
    /\ frames' = IF Reaches THEN Append(frames, [type |-> "answer", of |-> served]) ELSE frames
    /\ UNCHANGED <<up, served, other, downs, backlog, mail, reset, pushes, bridge>>

\* push_frame() while the bridge is served.
Push ==
    /\ Reaches /\ pushes < MaxPushes
    /\ frames' = Append(frames, [type |-> "pushed", of |-> 0]) /\ pushes' = pushes + 1
    /\ UNCHANGED <<kairos, backlog, mail, reset, bridge>>

\* read_message() fails, the client has closed the connection or sent an oversize
\* frame, and run() closes it.
HangUp ==
    /\ served \notin {NoConn, Other} /\ ~evaluating
    /\ \/ served \in mail /\ asked[served].kind = "oversize"
       \/ served \notin mail /\ served \notin fds
    /\ served' = NoConn /\ mail' = mail \ {served}
    /\ reset' = (reset \/ Reaches)
    /\ UNCHANGED <<up, evaluating, other, downs, backlog, frames, pushes, bridge>>

\* stop(), or the end of the process: every connection is closed.
Down ==
    /\ up /\ downs < MaxDowns
    /\ up' = FALSE /\ downs' = downs + 1
    /\ served' = NoConn /\ evaluating' = FALSE /\ other' = FALSE
    /\ backlog' = <<>> /\ mail' = {} /\ reset' = (Current \in fds)
    /\ UNCHANGED <<frames, pushes, bridge>>

Up ==
    /\ ~up
    /\ up' = TRUE
    /\ UNCHANGED <<served, evaluating, other, downs, socket, bridge>>

OtherConnects ==
    /\ up /\ ~other
    /\ other' = TRUE /\ backlog' = Append(backlog, Other)
    /\ UNCHANGED <<up, served, evaluating, downs, mail, frames, reset, pushes, bridge>>

\* The other client leaves and run() closes its connection.
OtherLeaves ==
    /\ served = Other
    /\ served' = NoConn /\ other' = FALSE
    /\ UNCHANGED <<up, evaluating, downs, socket, bridge>>

\* The control thread, outside an evaluation.
Serve == Accept \/ ServeRead \/ HangUp

Kairos == Serve \/ Answer

-----------------------------------------------------------------------------

McpNext ==
    \/ (\E r \in Requests : McpRead(r)) \/ McpEof \/ Bridge
    \/ Kairos \/ Push \/ Down \/ Up \/ OtherConnects \/ OtherLeaves

McpSpec == McpInit /\ [][McpNext]_mcpVars

\* Both programs keep running.  Nothing makes an evaluation end (nomos-mcp has no time-out
\* and Lua code may loop) or the other client leave, and neither is assumed.
McpFairness == WF_mcpVars(Bridge) /\ WF_mcpVars(Serve)

McpFairSpec == McpSpec /\ McpFairness

-----------------------------------------------------------------------------

\* The requests main() has done with.
Finished == IF mpc \in {"read", "done"} THEN Len(asked) ELSE Len(asked) - 1

\* Those of them that are answered: those with an id, and the ones that are answered
\* with a null id because only unknown methods are checked for one.
Answered ==
    {n \in 1 .. Finished : /\ asked[n].kind # "initialized"
                           /\ asked[n].hasId \/ asked[n].kind # "unknown"}

\* The place of the answer to request n among the answers.
Place(n) == Cardinality({k \in Answered : k <= n})

(* Every request that is due an answer gets exactly one, in order and under its own
   id, whatever happens to kairos meanwhile; and what answers an evaluation was
   written on the connection of that evaluation, never the late answer to an
   earlier one. *)
AnsweredOnce ==
    /\ Len(written) = Cardinality(Answered)
    /\ \A n \in Answered :
          /\ written[Place(n)].id = IdOf(n)
          /\ written[Place(n)].body.type = "answer" => written[Place(n)].body.of = n

Frames == [type : {"answer", "pushed"}, of : Nat]
Bodies == Frames \cup [type : {"result", "error"}, of : {0}]

(* What every step preserves: nomos-mcp has one connection at most, that of the request
   it is at, and what it has to read there answers that request or was pushed. *)
McpInv ==
    /\ asked \in Seq([kind : Methods, hasId : BOOLEAN]) /\ written \in Seq([id : Nat, body : Bodies])
    /\ mpc \in {"read", "done", "connect", "write", "sending", "wait", "killed"}
    /\ mpc \notin {"read", "done"} =>
          Len(asked) > 0 /\ asked[Current].kind \in {"evaluate", "oversize"}
    /\ fds = IF mpc \in {"write", "sending", "wait"} THEN {Current} ELSE {}
    /\ frames \in Seq(Frames) /\ (frames = <<>> \/ Current \in fds)
    /\ \A i \in DOMAIN frames : frames[i].type = "answer" => frames[i].of = Current
    /\ AnsweredOnce

(* handle_evaluate(): "kairos replies on same connection with msg_repl_eval": the
   result of an evaluation is kairos' answer to it. *)
ResultIsTheAnswer == \A i \in DOMAIN written : written[i].body.type # "pushed"

(* nomos-mcp has no time-out, so it may stay at a request for ever, but for two causes
   only: from some time on kairos does nothing but serve the other client, which does
   not leave, or it is inside an evaluation that does not end.  A connection of its
   own that it has left, a late answer on one of them, kairos stopping, an oversize
   request, or an evaluation cut short leave it waiting for nothing.  (kairos closing
   the connection just before the request is written ends nomos-mcp by SIGPIPE.) *)
WaitsForPeersOnly ==
    <>[](mpc \notin {"read", "done", "killed"}) => <>[](served = Other) \/ <>[]evaluating
================================================================================

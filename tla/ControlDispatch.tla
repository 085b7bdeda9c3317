---------------------------- MODULE ControlDispatch ----------------------------
(***************************************************************************)
(* rt_control_thread::dispatch_message() and dispatch_extension(): what    *)
(* each message of the IPC protocol does to the session, the queues to the *)
(* audio thread, the modulator engine, the devices and the answers.        *)
(*                                                                         *)
(* A message comes from the connected client (handle_connection(), with    *)
(* the session of that connection) or from an in-process bridge            *)
(* (dispatch_ctrl_frame(), with no session and no socket).  A payload that *)
(* is empty, does not parse or lacks a required key is a message that is   *)
(* not well formed.  :schedule-bundle is modelled in EventScheduler.       *)
(***************************************************************************)
EXTENDS Naturals, Sequences

CONSTANTS
    Wirings,     \* the sets of optional parts a config may come with
    IpcMessages,    \* the messages sent: records [kind, wellFormed, arg, id]
    QueueBound,  \* items a queue to the audio thread holds
    MaxMessages  \* messages in one behaviour

Parts == {"scheduler", "engine", "midi", "osc", "lua", "tty", "swap"}

ASSUME DispatchAssumption ==
    /\ Wirings \subseteq SUBSET Parts
    /\ QueueBound \in Nat \ {0} /\ MaxMessages \in Nat
    /\ \A m \in IpcMessages : {"kind", "wellFormed", "arg", "id"} \subseteq DOMAIN m

VARIABLES
    wired,    \* the optional parts of config that are not null
    sess,     \* the connection's session is open
    log,      \* entries of the txlog database, as positions in hist
    queues,   \* what waits for the audio thread, as positions in hist
    mods,     \* the modulators running: id -> position that set its parameter
    sent,     \* messages handed to midi_io or osc_server
    answers,  \* frames written back to the client
    tty,      \* payloads handed to tty_sink
    hist      \* every message dispatched, and how its fallible call ended

dispatchVars == <<wired, sess, log, queues, mods, sent, answers, tty, hist>>

Queues == {"param", "input", "staging"}
Froms  == {"client", "bridge"}
Index  == 1 .. MaxMessages

\* The end of the connection, recorded in hist like a message of the client.
Hangup == [kind |-> "disconnect", wellFormed |-> TRUE, arg |-> "none", id |-> "none"]

Entries == [from : Froms, m : IpcMessages \cup {Hangup}, ok : BOOLEAN]
Answers == [to : Index, form : {"result", "error"}, error : BOOLEAN]

DispatchTypeOK ==
    /\ wired \in Wirings
    /\ sess \in BOOLEAN
    /\ log \in Seq(Index) /\ sent \in Seq(Index)
    /\ queues \in [Queues -> Seq(Index)]
    /\ \A q \in Queues : Len(queues[q]) <= QueueBound
    /\ mods \in [DOMAIN mods -> Index]
    /\ answers \in Seq(Answers) /\ tty \in Seq(Answers)
    /\ hist \in Seq(Entries) /\ Len(hist) <= MaxMessages

DispatchInit ==
    /\ wired \in Wirings
    /\ sess = FALSE /\ log = <<>> /\ mods = <<>>
    /\ queues = [q \in Queues |-> <<>>]
    /\ sent = <<>> /\ answers = <<>> /\ tty = <<>> /\ hist = <<>>

Here == Len(hist) + 1

\* The message is recorded; ok tells how a call that may fail ended.
Record(from, m, ok) ==
    /\ Len(hist) < MaxMessages
    /\ hist' = Append(hist, [from |-> from, m |-> m, ok |-> ok])

-----------------------------------------------------------------------------
(* Session                                                                 *)

\* sess = session::open(db_path): a failure leaves nullopt, also when a session
\* was open.  The bridge's session ends with its call.
SessionOpen(from, m) ==
    /\ m.kind = "session_open"
    /\ \E ok \in BOOLEAN :
          /\ Record(from, m, ok)
          /\ sess' = IF from = "client" THEN ok ELSE sess
    /\ UNCHANGED <<log, queues, mods, sent, answers, tty>>

\* Mutant: the session is left open.
SessionCloseIgnored(from, m) ==
    /\ m.kind = "session_close"
    /\ Record(from, m, TRUE)
    /\ UNCHANGED <<sess, log, queues, mods, sent, answers, tty>>

SessionClose(from, m) ==
    /\ m.kind = "session_close"
    /\ Record(from, m, TRUE)
    /\ sess' = IF from = "client" THEN FALSE ELSE sess
    /\ UNCHANGED <<log, queues, mods, sent, answers, tty>>

\* What a message of the client adds to the database of its open session.
Logged(from, m) ==
    IF from = "client" /\ sess /\ m.wellFormed THEN Append(log, Here) ELSE log

\* sess->register_source(...)
RegisterSource(from, m) ==
    /\ m.kind = "register_source"
    /\ Record(from, m, TRUE)
    /\ log' = Logged(from, m)
    /\ UNCHANGED <<sess, queues, mods, sent, answers, tty>>

\* sess->emit(entry)
TxLog(from, m) ==
    /\ m.kind = "tx_log"
    /\ Record(from, m, TRUE)
    /\ log' = Logged(from, m)
    /\ UNCHANGED <<sess, queues, mods, sent, answers, tty>>

\* handle_connection() returns: its session goes with it.
Disconnect ==
    /\ Record("client", Hangup, TRUE)
    /\ sess' = FALSE
    /\ UNCHANGED <<log, queues, mods, sent, answers, tty>>

-----------------------------------------------------------------------------
(* Queues to the audio thread                                              *)

\* queue.push(...): the result is ignored, a full queue drops the item.  That the push
\* is one step is what the ring promises a single producer; see OneProducer.
Pushed(q) ==
    IF Len(queues[q]) < QueueBound
    THEN [queues EXCEPT ![q] = Append(@, Here)]
    ELSE queues

ParamSet(from, m) ==
    /\ m.kind = "param_set"
    /\ Record(from, m, TRUE)
    /\ queues' = IF m.wellFormed THEN Pushed("param") ELSE queues
    /\ UNCHANGED <<sess, log, mods, sent, answers, tty>>

\* Mutant: a scheduled note goes out at once as well.
NoteAlsoImmediate(from, m) ==
    /\ m.kind = "note"
    /\ Record(from, m, TRUE)
    /\ queues' = IF m.wellFormed
                 THEN [q \in Queues |-> IF q = "param" THEN queues[q] ELSE Pushed(q)[q]]
                 ELSE queues
    /\ UNCHANGED <<sess, log, mods, sent, answers, tty>>

\* A note with a :beat waits for it if a scheduler is wired, else it goes out
\* at once.
Note(from, m) ==
    /\ m.kind = "note"
    /\ Record(from, m, TRUE)
    /\ queues' = IF ~m.wellFormed THEN queues
                 ELSE IF m.arg = "beat" /\ "scheduler" \in wired
                 THEN Pushed("staging") ELSE Pushed("input")
    /\ UNCHANGED <<sess, log, mods, sent, answers, tty>>

MidiIn(from, m) ==
    /\ m.kind = "midi_in"
    /\ Record(from, m, TRUE)
    /\ queues' = IF m.wellFormed THEN Pushed("input") ELSE queues
    /\ UNCHANGED <<sess, log, mods, sent, answers, tty>>

\* The audio thread takes an item.
Consume(q) ==
    /\ queues[q] # <<>>
    /\ queues' = [queues EXCEPT ![q] = Tail(@)]
    /\ UNCHANGED <<sess, log, mods, sent, answers, tty, hist>>

-----------------------------------------------------------------------------
(* Modulators                                                              *)

\* Types built from the message's numbers alone.
SelfContained == {"slope", "slew", "shift-register", "fractal", "stochastic"}

\* Types built with the ids of the modulators they listen to; an id that is
\* missing or mistyped is the empty id, never an error.
Decoders == {"cv-channel-decoder", "divine-cmos", "statues", "cipher", "bools-ring"}
Networks == {"sloth-chaos", "squid-axon", "genie", "lets-splosh"}

\* :segment needs at least one segment and :graph a graph.
Assembled == {"segment", "graph"}

\* ext_registry, when there is one, makes the types registered with it.
Registered == {"registered"}

ModulatorTypes == SelfContained \cup Decoders \cup Networks \cup Assembled \cup Registered

\* Mutant: a :type nobody knows ends the modulator running under that id.
ModulatorStartReplacesFirst(from, m) ==
    /\ m.kind = "modulator_start"
    /\ Record(from, m, TRUE)
    /\ LET built == IF m.arg \in ModulatorTypes THEN {m.id} ELSE {}
       IN  mods' = IF ~m.wellFormed \/ "engine" \notin wired THEN mods
                   ELSE [x \in (DOMAIN mods \ {m.id}) \cup built |->
                            IF x = m.id THEN Here ELSE mods[x]]
    /\ UNCHANGED <<sess, log, queues, sent, answers, tty>>

\* mod_engine->start(id, mod) for a type that can be built; an unrecognised type
\* is reported and nothing changes.
ModulatorStart(from, m) ==
    /\ m.kind = "modulator_start"
    /\ Record(from, m, TRUE)
    /\ mods' = IF m.wellFormed /\ "engine" \in wired /\ m.arg \in ModulatorTypes
               THEN [x \in DOMAIN mods \cup {m.id} |-> IF x = m.id THEN Here ELSE mods[x]]
               ELSE mods
    /\ UNCHANGED <<sess, log, queues, sent, answers, tty>>

ModulatorStop(from, m) ==
    /\ m.kind = "modulator_stop"
    /\ Record(from, m, TRUE)
    /\ mods' = IF m.wellFormed /\ "engine" \in wired
               THEN [x \in DOMAIN mods \ {m.id} |-> mods[x]] ELSE mods
    /\ UNCHANGED <<sess, log, queues, sent, answers, tty>>

\* mod_engine->update_param(): a no-op when the id is not running.
ModulatorUpdate(from, m) ==
    /\ m.kind = "modulator_update"
    /\ Record(from, m, TRUE)
    /\ mods' = IF m.wellFormed /\ "engine" \in wired /\ m.id \in DOMAIN mods
               THEN [mods EXCEPT ![m.id] = Here] ELSE mods
    /\ UNCHANGED <<sess, log, queues, sent, answers, tty>>

-----------------------------------------------------------------------------
(* Devices                                                                 *)

MidiKinds == {"cc", "pitch_bend", "chan_pressure", "sysex", "mts"}

\* Channel voice messages, SysEx and the MTS dump go to midi_io::send().
MidiOut(from, m) ==
    /\ m.kind \in MidiKinds
    /\ Record(from, m, TRUE)
    /\ sent' = IF m.wellFormed /\ "midi" \in wired THEN Append(sent, Here) ELSE sent
    /\ UNCHANGED <<sess, log, queues, mods, answers, tty>>

\* build_osc_event_from_edn(): fails without :address and :port, and when the
\* encoded message does not fit an osc_event.
OscBuilt(m) == m.wellFormed /\ m.arg # "oversized"

\* osc_server::send_event(), at once.
OscOut(from, m) ==
    /\ m.kind = "osc"
    /\ Record(from, m, TRUE)
    /\ sent' = IF OscBuilt(m) /\ "osc" \in wired THEN Append(sent, Here) ELSE sent
    /\ UNCHANGED <<sess, log, queues, mods, answers, tty>>

-----------------------------------------------------------------------------
(* Answers                                                                 *)

\* Mutant: the answer to a terminal evaluation goes only to the terminal.
ReplEvalAnswersOnce(from, m) ==
    /\ m.kind = "repl_eval"
    /\ \E ok \in (IF "lua" \in wired /\ m.arg \in {"fennel", "vcvrack-tty"}
                  THEN BOOLEAN ELSE {FALSE}) :
          /\ Record(from, m, ok)
          /\ tty' = IF m.wellFormed /\ m.arg = "vcvrack-tty" /\ "tty" \in wired
                    THEN Append(tty, [to |-> Here, form |-> IF ok THEN "result" ELSE "error",
                                      error |-> ~ok])
                    ELSE tty
          /\ answers' = IF m.wellFormed /\ from = "client" /\ m.arg # "vcvrack-tty"
                        THEN Append(answers, [to |-> Here, form |-> "result", error |-> ~ok])
                        ELSE answers
    /\ UNCHANGED <<sess, log, queues, mods, sent>>

\* :fennel and :vcvrack-tty evaluate (an error without Lua), other destinations are
\* errors.  The tty gets {:result .. :error ..}; the socket {:id .. :result r},
\* where r is {:error ..} if the evaluation failed.
ReplEval(from, m) ==
    /\ m.kind = "repl_eval"
    /\ \E ok \in (IF "lua" \in wired /\ m.arg \in {"fennel", "vcvrack-tty"}
                  THEN BOOLEAN ELSE {FALSE}) :
          /\ Record(from, m, ok)
          /\ tty' = IF m.wellFormed /\ m.arg = "vcvrack-tty" /\ "tty" \in wired
                    THEN Append(tty, [to |-> Here, form |-> IF ok THEN "result" ELSE "error",
                                      error |-> ~ok])
                    ELSE tty
          /\ answers' = IF m.wellFormed /\ from = "client"
                        THEN Append(answers, [to |-> Here, form |-> "result", error |-> ~ok])
                        ELSE answers
    /\ UNCHANGED <<sess, log, queues, mods, sent>>

\* dispatch_extension(): wasm_swap_fn may refuse, and is an error when not wired.
\* Writing the answer to the bridge's descriptor -1 fails.
WasmHotSwap(from, m) ==
    /\ m.kind = "wasm_hot_swap"
    /\ \E ok \in (IF "swap" \in wired THEN BOOLEAN ELSE {FALSE}) :
          /\ Record(from, m, ok)
          /\ answers' = IF m.wellFormed /\ from = "client"
                        THEN Append(answers, [to |-> Here, error |-> ~ok,
                                              form |-> IF ok THEN "result" ELSE "error"])
                        ELSE answers
    /\ UNCHANGED <<sess, log, queues, mods, sent, tty>>

-----------------------------------------------------------------------------

DispatchMessage(from, m) ==
    \/ SessionOpen(from, m) \/ SessionClose(from, m)
    \/ RegisterSource(from, m) \/ TxLog(from, m)
    \/ ParamSet(from, m) \/ Note(from, m) \/ MidiIn(from, m)
    \/ ModulatorStart(from, m) \/ ModulatorStop(from, m) \/ ModulatorUpdate(from, m)
    \/ MidiOut(from, m) \/ OscOut(from, m)
    \/ ReplEval(from, m) \/ WasmHotSwap(from, m)

\* The queue a message is pushed to, if any.
Target(m) ==
    CASE ~m.wellFormed -> {}
      [] m.wellFormed /\ m.kind = "param_set" -> {"param"}
      [] m.wellFormed /\ m.kind = "midi_in" -> {"input"}
      [] m.wellFormed /\ m.kind = "note" ->
            IF m.arg = "beat" /\ "scheduler" \in wired THEN {"staging"} ELSE {"input"}
      [] OTHER -> {}

\* The contract of spsc_queue ("safe to call from exactly one thread"): all pushes to one
\* queue come from one thread, here the connection's or the bridge's.  Nothing in
\* dispatch_ctrl_frame(), which "may be called from any thread", enforces it.
OneProducer(from, m) ==
    \A i \in DOMAIN hist : Target(hist[i].m) \cap Target(m) # {} => hist[i].from = from

\* The configuration is fixed before start().
DispatchNext ==
    /\ \/ \E from \in Froms, m \in IpcMessages : DispatchMessage(from, m) /\ OneProducer(from, m)
       \/ Disconnect
       \/ \E q \in Queues : Consume(q)
    /\ UNCHANGED wired

DispatchSpec == DispatchInit /\ [][DispatchNext]_dispatchVars

-----------------------------------------------------------------------------

\* s holds the members of S, each once, in increasing order.
Ascending(s, S) ==
    /\ {s[i] : i \in DOMAIN s} = S
    /\ \A i, j \in DOMAIN s : i < j => s[i] < s[j]

\* The client opens, re-opens or ends its session.
SessionEvent(h) ==
    /\ h.from = "client"
    /\ h.m.kind \in {"session_open", "session_close", "disconnect"}

\* Position i lies in a session: the client's last session event before it is a
\* successful open.
InSession(i) ==
    \E j \in 1 .. i - 1 :
        /\ SessionEvent(hist[j]) /\ hist[j].m.kind = "session_open" /\ hist[j].ok
        /\ \A k \in j + 1 .. i - 1 : ~SessionEvent(hist[k])

\* What a session's database is for.
ForLog(h) ==
    h.from = "client" /\ h.m.wellFormed /\ h.m.kind \in {"register_source", "tx_log"}

(* The transaction log holds exactly what the client sent inside a session of its
   own connection, in order: nothing after a close, a failed re-open or a
   reconnect, nothing from dispatch_ctrl_frame(), nothing twice. *)
LogIsSessionTraffic ==
    Ascending(log, {i \in DOMAIN hist : ForLog(hist[i]) /\ InSession(i)})

\* A message for a device that is there, and could be built.
ForDevice(h) ==
    \/ "osc" \in wired /\ h.m.kind = "osc" /\ OscBuilt(h.m)
    \/ "midi" \in wired /\ h.m.kind \in MidiKinds /\ h.m.wellFormed

(* A message reaches the audio thread through one queue only, or a device, and each
   queue keeps the order in which dispatch_message() handled the messages, notes and
   raw MIDI together, and never holds more than its capacity: as long as each queue
   is fed by one thread (OneProducer).  With the client and the bridge both pushing
   to one queue, slots are lost or overwritten, which is a matter of the ring
   (SpscQueue!NoSlotRace).  The devices get every message for them that could be
   built, once and in order. *)
QueuedOnceInOrder ==
    /\ DispatchTypeOK
    /\ \A q \in Queues : \A i, j \in DOMAIN queues[q] : i < j => queues[q][i] < queues[q][j]
    /\ \A q, r \in Queues : q # r =>
          {queues[q][i] : i \in DOMAIN queues[q]} \cap {queues[r][i] : i \in DOMAIN queues[r]} = {}
    /\ Ascending(sent, {i \in DOMAIN hist : ForDevice(hist[i])})

\* The engine starts or stops modulator x on this message.
Switches(h, x) ==
    /\ h.m.id = x /\ h.m.wellFormed
    /\ \/ h.m.kind = "modulator_stop"
       \/ h.m.kind = "modulator_start" /\ h.m.arg \in ModulatorTypes

\* ... or sets its parameter, if it runs.
Sets(h, x) ==
    Switches(h, x) \/ (h.m.id = x /\ h.m.wellFormed /\ h.m.kind = "modulator_update")

\* Position i holds the last message of hist that satisfies a test.
LastSwitch(i, x) ==
    Switches(hist[i], x) /\ \A j \in DOMAIN hist : Switches(hist[j], x) => j <= i

LastSet(i, x) ==
    Sets(hist[i], x) /\ \A j \in DOMAIN hist : Sets(hist[j], x) => j <= i

Started(x) ==
    \E i \in DOMAIN hist : LastSwitch(i, x) /\ hist[i].m.kind = "modulator_start"

(* A modulator runs exactly when the last effective message about its id was a
   start, and its parameter is the one of that start or of the last update after
   it: a start of an unrecognised :type or an update of a stopped id leaves no
   trace.  Without an engine none runs. *)
RunningIffStarted ==
    /\ DOMAIN mods = {x \in {hist[i].m.id : i \in DOMAIN hist} : "engine" \in wired /\ Started(x)}
    /\ \A x \in DOMAIN mods : mods[x] \in DOMAIN hist /\ LastSet(mods[x], x)

\* A request that the client is to be answered.
Asked(h) ==
    h.from = "client" /\ h.m.wellFormed /\ h.m.kind \in {"repl_eval", "wasm_hot_swap"}

(* Every well-formed evaluation or hot swap the client asks for is answered on its
   connection, once and in order; nothing is written there for the bridge.  A hot
   swap is answered also when wasm_swap_fn is null, in the error form: the comment on
   that field promises silence instead (UnwiredSwapIsSilent). *)
AnsweredOnceInOrder ==
    Ascending([i \in DOMAIN answers |-> answers[i].to], {i \in DOMAIN hist : Asked(hist[i])})

\* What every step preserves: the properties above, the session as the messages
\* so far leave it, and queues that hold only messages already dispatched.
DispatchInv ==
    /\ QueuedOnceInOrder /\ LogIsSessionTraffic /\ RunningIffStarted /\ AnsweredOnceInOrder
    /\ sess <=> InSession(Here)
    /\ \A q \in Queues : \A i \in DOMAIN queues[q] : queues[q][i] \in DOMAIN hist

(* ipc.hpp of msg_repl_eval: "{:id .. :result <edn-value>} or {:id .. :error ..}": a
   failed evaluation is answered in the error form. *)
FailureAnsweredAsError ==
    \A i \in DOMAIN answers : answers[i].error => answers[i].form = "error"

(* The wasm_swap_fn of the configuration: "Null = log and silently discard.": a hot swap
   that nothing is wired for is not answered. *)
UnwiredSwapIsSilent ==
    "swap" \notin wired =>
        \A i \in DOMAIN answers : hist[answers[i].to].m.kind # "wasm_hot_swap"

(* dispatch_ctrl_frame(): "Responses go to cfg_.tty_sink rather than the socket
   (conn_fd = -1 path)": every evaluation the bridge asks for reaches tty_sink. *)
BridgeAnsweredOnTty ==
    "tty" \in wired =>
        \A i \in DOMAIN hist :
            hist[i].from = "bridge" /\ hist[i].m.kind = "repl_eval" /\ hist[i].m.wellFormed
                => \E k \in DOMAIN tty : tty[k].to = i
================================================================================

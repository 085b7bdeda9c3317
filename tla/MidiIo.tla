-------------------------------- MODULE MidiIo ---------------------------------
(***************************************************************************)
(* midi_io: threads that send() through one output port (the MIDI thread,  *)
(* the control thread), the program that opens and closes the ports, and   *)
(* RtMidi's input thread, which calls midi_callback().  The three share    *)
(* plain members; only send() has a mutex.                                 *)
(*                                                                         *)
(* RtMidi is external: closePort() of the input returns when no callback   *)
(* runs any more, sendMessage() hands a message over or throws.  The queue *)
(* that the callback feeds is in BlockEvents.                              *)
(***************************************************************************)
EXTENDS Naturals, Sequences

CONSTANTS
    Threads,   \* the threads that send
    MaxSends,  \* bound: messages each of them sends
    MaxInput,  \* bound: messages received
    MaxOpens   \* bound: times each of the ports is opened

\* What midi_callback() tells apart: note-on, note-on with velocity 0 (or cut
\* short), note-off, anything else.
Received == {"on", "on0", "off", "midi"}

VARIABLES
    port, virtual,  \* the output port is open; virtual_port_open_
    closing,        \* close() has closed the port, the flag is still set
    outOpens,
    sendPc, sends,     \* where each sending thread is, messages it has sent
    mutex,          \* send_mutex_: its holder, if any
    wire, tap,      \* history: messages handed to RtMidi, and to send_cb_
    echo,           \* echo_cb_ is set; it is set before the input is opened
    inPort, callback, \* the input port is open; setCallback() is in force
    inQueue,        \* in_queue_ is not null
    ipc, inOpens,   \* where the program is in open_input_port() or close_input()
    cbPc, received,  \* where midi_callback() is; history: what it was called with
    pushed, echoed  \* history: what it gave to the queue, and to echo_cb_

sendVars    == <<port, virtual, closing, outOpens, sendPc, sends, mutex, wire, tap>>
receiveVars == <<echo, inPort, callback, inQueue, ipc, inOpens, cbPc, received, pushed, echoed>>
midiVars    == <<sendVars, receiveVars>>

MidiInit ==
    /\ port = FALSE /\ virtual = FALSE /\ closing = FALSE /\ outOpens = 0
    /\ sendPc = [t \in Threads |-> "idle"] /\ sends = [t \in Threads |-> 0]
    /\ mutex = {} /\ wire = <<>> /\ tap = <<>>
    /\ echo \in BOOLEAN
    /\ inPort = FALSE /\ callback = FALSE /\ inQueue = FALSE
    /\ ipc = "idle" /\ inOpens = 0
    /\ cbPc = "idle" /\ received = <<>> /\ pushed = <<>> /\ echoed = <<>>

-----------------------------------------------------------------------------
(* Output                                                                  *)

\* open_port() succeeds; a failure changes nothing.
OpenPort ==
    /\ outOpens < MaxOpens /\ ~closing
    /\ port' = TRUE /\ outOpens' = outOpens + 1
    /\ UNCHANGED <<virtual, closing, sendPc, sends, mutex, wire, tap, receiveVars>>

\* open_virtual_port() succeeds; isPortOpen() stays false on CoreMIDI.
OpenVirtualPort ==
    /\ outOpens < MaxOpens /\ ~closing
    /\ virtual' = TRUE /\ port' \in {port, TRUE} /\ outOpens' = outOpens + 1
    /\ UNCHANGED <<closing, sendPc, sends, mutex, wire, tap, receiveVars>>

\* close() takes no mutex.
CloseBegin ==
    /\ ~closing /\ (port \/ virtual)
    /\ port' = FALSE /\ closing' = TRUE
    /\ UNCHANGED <<virtual, outOpens, sendPc, sends, mutex, wire, tap, receiveVars>>

CloseEnd ==
    /\ closing
    /\ virtual' = FALSE /\ closing' = FALSE
    /\ UNCHANGED <<port, outOpens, sendPc, sends, mutex, wire, tap, receiveVars>>

is_open == port \/ virtual

\* if (!is_open()) return
SendTest(t) ==
    /\ sendPc[t] = "idle" /\ sends[t] < MaxSends
    /\ sends' = [sends EXCEPT ![t] = @ + 1]
    /\ sendPc' = [sendPc EXCEPT ![t] = IF is_open THEN "lock" ELSE "idle"]
    /\ UNCHANGED <<port, virtual, closing, outOpens, mutex, wire, tap, receiveVars>>

\* Mutant: no lock.
SendUnlocked(t) ==
    /\ sendPc[t] = "lock"
    /\ sendPc' = [sendPc EXCEPT ![t] = "send"]
    /\ UNCHANGED <<port, virtual, closing, outOpens, sends, mutex, wire, tap, receiveVars>>

\* lock_guard lock(send_mutex_)
SendLock(t) ==
    /\ sendPc[t] = "lock" /\ mutex = {}
    /\ mutex' = {t}
    /\ sendPc' = [sendPc EXCEPT ![t] = "send"]
    /\ UNCHANGED <<port, virtual, closing, outOpens, sends, wire, tap, receiveVars>>

\* out_.sendMessage()
SendMessage(t) ==
    /\ sendPc[t] = "send"
    /\ wire' = Append(wire, <<t, sends[t]>>)
    /\ sendPc' = [sendPc EXCEPT ![t] = "tap"]
    /\ UNCHANGED <<port, virtual, closing, outOpens, sends, mutex, tap, receiveVars>>

\* It throws: there is no tap, the error is reported and the mutex released.
SendThrows(t) ==
    /\ sendPc[t] = "send"
    /\ mutex' = mutex \ {t}
    /\ sendPc' = [sendPc EXCEPT ![t] = "idle"]
    /\ UNCHANGED <<port, virtual, closing, outOpens, sends, wire, tap, receiveVars>>

\* send_cb_(bytes), and the mutex is released.
SendTap(t) ==
    /\ sendPc[t] = "tap"
    /\ tap' = Append(tap, <<t, sends[t]>>)
    /\ mutex' = mutex \ {t}
    /\ sendPc' = [sendPc EXCEPT ![t] = "idle"]
    /\ UNCHANGED <<port, virtual, closing, outOpens, sends, wire, receiveVars>>

Send(t) == SendTest(t) \/ SendLock(t) \/ SendMessage(t) \/ SendThrows(t) \/ SendTap(t)

-----------------------------------------------------------------------------
(* Input                                                                   *)

\* open_input_port(): in_queue_ = &q, then setCallback() ...
OpenInput ==
    /\ ipc = "idle" /\ ~inPort /\ inOpens < MaxOpens
    /\ inQueue' = TRUE /\ callback' = TRUE /\ inOpens' = inOpens + 1
    /\ ipc' = "open"
    /\ UNCHANGED <<sendVars, echo, inPort, cbPc, received, pushed, echoed>>

\* ... then openPort(), which may throw.
OpenInputPort ==
    /\ ipc = "open"
    /\ inPort' \in BOOLEAN /\ inQueue' = inPort'
    /\ ipc' = "idle"
    /\ UNCHANGED <<sendVars, echo, callback, inOpens, cbPc, received, pushed, echoed>>

\* close_input(): cancelCallback() ...
CancelCallback ==
    /\ ipc = "idle" /\ inPort
    /\ callback' = FALSE
    /\ ipc' = "close"
    /\ UNCHANGED <<sendVars, echo, inPort, inQueue, inOpens, cbPc, received, pushed, echoed>>

\* Mutant: in_queue_ is cleared before the port is closed.
CloseInputPortLast ==
    /\ ipc = "close"
    /\ inQueue' = FALSE /\ UNCHANGED inPort
    /\ ipc' = "clear"
    /\ UNCHANGED <<sendVars, echo, callback, inOpens, cbPc, received, pushed, echoed>>

\* ... closePort(), which waits for a callback that runs ...
CloseInputPort ==
    /\ ipc = "close" /\ cbPc = "idle"
    /\ inPort' = FALSE /\ UNCHANGED inQueue
    /\ ipc' = "clear"
    /\ UNCHANGED <<sendVars, echo, callback, inOpens, cbPc, received, pushed, echoed>>

\* ... in_queue_ = nullptr.
ClearQueue ==
    /\ ipc = "clear"
    /\ inQueue' = FALSE /\ inPort' = FALSE
    /\ ipc' = "idle"
    /\ UNCHANGED <<sendVars, echo, callback, inOpens, cbPc, received, pushed, echoed>>

\* The event a message becomes: note events are translated, the rest stays raw.
Translate(m) == IF m = "on0" THEN "off" ELSE m

\* midi_callback() up to its look at in_queue_; an echo callback takes the message.
CallbackBegin(m) ==
    /\ cbPc = "idle" /\ inPort /\ callback /\ Len(received) < MaxInput
    /\ received' = Append(received, m)
    /\ IF echo THEN echoed' = Append(echoed, m) /\ UNCHANGED cbPc
               ELSE cbPc' = (IF inQueue THEN "push" ELSE "idle") /\ UNCHANGED echoed
    /\ UNCHANGED <<sendVars, echo, inPort, callback, inQueue, ipc, inOpens, pushed>>

\* in_queue_->push(ev)
CallbackPush ==
    /\ cbPc = "push"
    /\ pushed' = Append(pushed, Translate(received[Len(received)]))
    /\ cbPc' = "idle"
    /\ UNCHANGED <<sendVars, echo, inPort, callback, inQueue, ipc, inOpens, received, echoed>>

-----------------------------------------------------------------------------
(* Output and input share no member.                                       *)

Output ==
    \/ OpenPort \/ OpenVirtualPort \/ CloseBegin \/ CloseEnd \/ \E t \in Threads : Send(t)

Input ==
    \/ OpenInput \/ OpenInputPort \/ CancelCallback \/ CloseInputPort \/ ClearQueue
    \/ (\E m \in Received : CallbackBegin(m)) \/ CallbackPush

MidiNext == Output \/ Input

MidiSpec == MidiInit /\ [][MidiNext]_midiVars

-----------------------------------------------------------------------------

(* send(): "proves bytes actually left the process": the tap sees exactly the
   messages that were handed to RtMidi, each once and in the order they left,
   however many threads send; it is at most the message now being sent behind.
   Each thread's messages leave in the order it sent them. *)
TapMirrorsWire ==
    /\ tap = wire \/ (\E t \in Threads : sendPc[t] = "tap" /\ wire = Append(tap, <<t, sends[t]>>))
    /\ \A i, j \in DOMAIN wire : i < j /\ wire[i][1] = wire[j][1] => wire[i][2] < wire[j][2]

\* What midi_callback() has finished with.
Handled == IF cbPc = "push" THEN SubSeq(received, 1, Len(received) - 1) ELSE received

(* in_queue_ is set before the port opens and cleared after it has closed: a callback
   that has found it set pushes into a queue that is still there, and no message is
   dropped for want of one.  With an echo callback nothing reaches the queue, as the
   comment in midi_callback() has it ("skip the CLAP queue"); the comment on
   set_echo_callback() reads otherwise (EchoedIsAlsoQueued). *)
InputQueueIsThere ==
    /\ cbPc = "push" => inQueue
    /\ IF echo THEN echoed = received /\ pushed = <<>>
               ELSE echoed = <<>> /\ pushed = [i \in DOMAIN Handled |-> Translate(Handled[i])]

(* set_echo_callback(): the callback is fired "before the event is enqueued for the CLAP
   graph": what is echoed is enqueued as well. *)
EchoedIsAlsoQueued ==
    cbPc = "idle" => pushed = [i \in DOMAIN received |-> Translate(received[i])]

(* set_send_callback(): the callback is "fired on every outgoing MIDI send [...] even
   when no port is open". *)
TapSeesEverySend ==
    \A t \in Threads : sendPc[t] = "idle" =>
        \A n \in 1 .. sends[t] : \E i \in DOMAIN tap : tap[i] = <<t, n>>
================================================================================

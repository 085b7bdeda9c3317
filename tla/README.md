# nomos-rt: TLA+ models, model checking and proofs

nomos-rt is the real-time half of a live-coding music system. A controlling process
sends it frames over a Unix socket; it schedules notes and OSC messages on a beat
grid, runs control-rate modulators, feeds events to an audio plugin block by block,
and hosts a LuaJIT/Fennel interpreter that an OSC server talks to. It is a program
of several threads that share queues, tables and plain variables, and almost none of
that sharing is exercised by the unit tests: the 24 test files cover single-threaded
behaviour of the scheduler, the modulators, the codecs and the event buffers, and no
test runs the control thread, `rcu_managed`, the Lua participant or the OSC server's
life cycle with a second thread. The models here are about that sharing.

Paths below are relative to the repository root (`src/` and `include/nomos/rt/`).

## 1. The parts of the system, and what models them

| Part | Source | Module | State |
|---|---|---|---|
| lock-free ring | `include/nomos/rt/spsc_queue.hpp` | `SpscQueue`, `BoundedFifo` | modelled, proved |
| beat scheduler | `include/nomos/rt/event_scheduler.hpp`, handlers in `src/rt_control_thread.cpp` | `EventScheduler` | modelled, proved |
| RCU pointer | `include/nomos/rt/rcu.hpp` | `Rcu` | modelled, proved |
| modulator engine | `include/nomos/rt/modulator_engine.hpp`, `src/modulator_engine.cpp` | `ModulatorEngine`, `ModulatorRegistry` | modelled, proved |
| control thread: connections | `src/rt_control_thread.cpp`, `src/ipc_channel.cpp` | `ControlThread` | modelled, proved |
| control thread: messages | `src/rt_control_thread.cpp`, `src/session.cpp` | `ControlDispatch` | modelled, proved |
| one-shot modulator inputs | slew, cipher, divine-cmos, cv-channel-decoder, bools-ring, squid-axon | `PulseInput` | modelled, proved |
| block events | `src/input_event_buffer.cpp`, `src/event_collector.cpp` | `BlockEvents` | modelled, proved |
| Lua participant | `src/luajit_participant.cpp` | `LuaParticipant` | modelled, proved |
| OSC server | `src/osc_server.cpp` | `OscServer` | modelled, proved |
| MIDI ports | `src/midi_io.cpp` | `MidiIo` (the queue it feeds: `BlockEvents`) | modelled, proved |
| MCP bridge | `tools/nomos-mcp.cpp` | `McpBridge` | modelled, proved |
| graph modulator | `src/graph_modulator.cpp` | `GraphModulator` | modelled |
| shift register, stochastic loop, slew generator | `src/shift_register_modulator.cpp`, `src/stochastic_modulator.cpp`, `src/slew_modulator.cpp` | `ShiftRegister`, `LfsrPeriod`, `Stochastic`, `SlewGenerator` | modelled, signals abstracted; proved but for the lfsr periods, which are computed |
| cipher | `src/cipher_modulator.cpp` | `Cipher` | registers and strobe, proved; voltages not |
| divine-cmos, squid-axon | `src/divine_cmos_modulator.cpp`, `src/squid_axon_modulator.cpp` | `ClockPatch` | counters, pipeline and clock, proved; gains and slew not |
| bools-ring, CV channel decoder, statues, segment | `src/bools_ring_modulator.cpp`, `src/cv_channel_decoder.cpp`, `src/statues_modulator.cpp`, `src/segment_modulator.cpp` | `Latches` | what is held and when it changes, proved; slew not |
| lets-splosh, genie, continuous modulators, audio device, Link, support code | see `PROJECT.json` | | not modelled (section 8) |

The threads and what they share:

    client --socket--> control thread --staging queue--> event thread --OSC queue--> sender
                         |    |   \--param/input queues--> process thread --MIDI queue--> MIDI thread
                         |    \--start/stop/update--> modulator table (RCU) <--tick-- event thread
                         \--eval--> Lua state (mutex_) <--25 Hz timer, OSC server thread
    MCP client --stdio--> nomos-mcp --socket--> control thread (behind any other client)
    MIDI device --RtMidi thread--> input queue;  MIDI and control threads --send()--> MIDI device

Every arrow with a queue is an `spsc_queue`. `SpscQueue` models it one memory access
at a time and is proved to implement `BoundedFifo`; `EventScheduler`,
`ControlDispatch`, `BlockEvents` and `OscServer` use queues as atomic bounded FIFOs
on the strength of that. `ModulatorEngine` is composed with `Rcu`: it EXTENDS it, and
each of its steps on the table pointer is a step of `Rcu` conjoined with what it does
to the tables, so one run checks both. `McpBridge` composes nomos-mcp with what it sees
of the control thread: one connection served at a time, the others in the backlog,
frames pushed at whoever is served. `Cipher` and `ClockPatch` are compositions of two
modulators on one clock, with the engine's table and its remembered outputs between
them. `MCModulators` and `MCEndpoints` put components that share no state side by side:
`MCModulators` the modulators, `MCEndpoints` the OSC server, the MIDI ports and
nomos-mcp. A behaviour of such a module is one of one component, chosen in the initial
state. Each other `MCX` module holds the constants TLC uses. The theorems are in eight
modules: `EventSchedulerProofs`, `BlockEventsProofs` and `LuaParticipantProofs` are about
the module of that name, `ModulatorEngineProofs` about `ModulatorEngine` and `Rcu`,
`ControlThreadProofs` about `ControlThread` and `ControlDispatch`, `EndpointProofs` about
`OscServer`, `McpBridge` and `ShiftRegister`, `RingProofs` about `SpscQueue`, `MidiIo`
and `Cipher`, and `ModulatorProofs` about `PulseInput`, `ClockPatch`, `SlewGenerator`,
`Stochastic` and `Latches`. (Modules extended by one module need names of their own,
hence `MidiInit`, `McpNext`, `ShiftSpec` and the like.)

## 2. How the modules correspond to the code

`PROJECT.json` gives the lines of every definition; this is the outline.

**SpscQueue.** `head`, `tail`, `slots` are the members; `ppc`/`cpc` say where a
thread is inside `push()`/`pop()`. An acquire load may return any value from the
newest one the thread has seen to the current one, so each side carries the newest
foreign index seen (`ptail`, `chead`). `Producers` is the set of threads that push.
Indices keep their masked arithmetic.

**EventScheduler.** `StageNext` is one `push` of the bundle loop or of a note with a
`:beat`; a tick is `TickBegin`, one `pop` per step, the stable sort, one fired event
per step, the erase. Beats are in units of 1/24. The sender empties the OSC queue.

**Rcu.** Readers enter and leave sections; `store()` is build, exchange, `call_rcu`;
the destructor is `synchronize()` and delete. Objects are addresses and are reused
after being freed. liburcu is external: a callback runs no sooner than the read
sections that had begun at `call_rcu` have ended.

**ModulatorEngine.** `Build` copies the table (replace in place, or append, or
remove), `Install` exchanges the pointer, `Retire` hands the old table over; a tick
loads the table and visits one modulator per step; the destructor waits for the
readers and deletes the last table. `ModulatorRegistry` is the abstract promise: an
ordered map changed atomically, until it is destroyed. What `stop()` leaves of the
order is `Without`, the other places by their rank.

**ControlThread.** The owner (`start`, `stop`), the server (`run`,
`handle_connection`), pushers (`push_frame`) and the client. A frame is two writes,
header and payload, and each can block on a full buffer or fail.

**ControlDispatch.** One action per message kind, the whole handler in each,
including the session log and the answers. `wired` is the set of optional parts of
the configuration. Payload fields are abstracted to what decides the route. A message
comes from the connection or from the bridge's thread (`dispatch_ctrl_frame`), in any
order, but each queue is fed by one of the two only: that is `OneProducer`, the contract
of `spsc_queue`, which the code does not enforce (section 7, first row). A handler is one
step: messages of the two threads are interleaved whole.

**PulseInput.** Each access of the shared bool is a step; the three orders in which
the modulators read, clear and act are the three `Styles`.

**BlockEvents.** One block: `clear`, `drain` of each queue in turn, the plugin reads
and pushes, `flush_to` in blocks of seven (here `BlockSize`), `reset`.

**LuaParticipant.** `mutex_` and the threads that take it or do not; Fennel programs
are abstracted to their effect on the scheduler list and the OSC registry.

**OscServer.** Each access of `sock_` and each system call is a step. Packets are of
the kinds the router distinguishes.

**MidiIo.** `send()` is its test of `is_open()` without the mutex, the lock, RtMidi's
`sendMessage` (which hands over or throws) and the tap. `close()` takes no mutex and
has two steps; opening and closing the input are the steps in which `in_queue_`, the
callback and the port change. `midi_callback` looks at the queue pointer in one step
and pushes in the next. RtMidi is external.

**McpBridge.** nomos-mcp reads a request and answers it, or connects, writes, reads one
frame and closes; kairos accepts, reads, evaluates, answers, pushes frames, closes
connections, goes down and comes back. A request is of the kinds `main()` tells apart,
with or without an id. A frame above `max_payload_bytes` leaves nomos-mcp in `write()`
until kairos closes the connection; a write on a closed connection fails or raises
SIGPIPE, and the model has both.

**Cipher.** Two cipher modulators, SERIAL of the first patched to data1 of the second,
as the header proposes, on a clock both see in the same tick. A register is its `Width`
bits.

**ClockPatch.** A divine-cmos and a squid-axon on the gate of a third modulator that is
stopped and started again. `after` says which of the two are ticked after the clock:
both, either one, or none. The engine keeps the last output of a stopped modulator
(`entry`) and ticks a restarted one last; the two treat a source without an output
differently. `rises` is history: how often the recorded gate has risen.

**Latches.** A modulator's members are one record `m`; `shown` is what its last tick
showed and whether that came from a latch. Of segment, a phase is in units of one
`Full`th of a cycle.

**ShiftRegister.** One step per clock edge: the new bit by mode, the shift, the mask.
Whether a tick brings an edge depends on a phase in floating point and is left open.
The register is its bits and keeps its width. `data` and `param` are 0, a half or 1,
which tells apart every comparison the code makes with them. `LfsrPeriod` computes the
period of each of the 31 tap masks from the same `LfsrTaps`: one clock is a linear map of
bits (`OneClock`, which `RegisterPeriod` ties to the steps the run takes), and squaring it
gives 2, 4, 8, ... clocks at a time. A register of N bits has period 2^N - 1 if that many
clocks change nothing and no proper divisor of it by a prime factor does.

**Stochastic.** `tick()` on the buffer of pairs, with both positions, the loop length
and deja-vu's draws; a pair is identified by the event that generated it.

**SlewGenerator.** The stages of the rise/fall generator. The output is a level between
the two ends, and a tick moves it some way towards its target: how far depends on
exponentials and is left open.

**GraphModulator.** `ParseNode` compiles an expression into nodes as the parser does,
`Pass` is the forward pass of a tick, and `Meaning` is the reference: the value of an
expression at tick n as a function of what the ticks found, without nodes or state.
Numbers are hundredths. Recursive operators are used here and in no module a theorem
reaches.

## 3. The runs, and what each shows

Twelve runs. All but the last three pass.

| Run | Properties | Shows |
|---|---|---|
| `spsc_queue` | `NoSlotRace` `SizeIsSafeEstimate` `ImplementsFifo` | with stale index loads, no slot is touched by both sides, `size()` errs on the safe side, the ring is a bounded FIFO |
| `event_scheduler` | `EachEventOnce` `FiresInBeatOrder` `FiresWhenFirstDue` | staging that races a tick duplicates, reorders or delays nothing that was accepted, and OSC messages leave in the order they fired |
| `modulator_engine` | `NoUseAfterFree` `TickSeesOneSnapshot` `ModOutIsFresh` `ImplementsRegistry` `RemovedIsDestroyed` | no reader holds a freed table, a tick sees one table, two writers and the destructor behave as an atomic registry, removed modulators are destroyed |
| `control_thread` | `NoWriteAfterClose` `StoppedIsQuiet` `PushesDoNotInterleave` `StopReturns` | connection hand-over and shutdown are safe, and shutdown ends |
| `control_dispatch` | `LogIsSessionTraffic` `QueuedOnceInOrder` `RunningIffStarted` `AnsweredOnceInOrder` | every message takes its one route, in order, wherever it comes from, each queue being fed by one thread; the log, the modulators and the answers follow from the messages alone |
| `block_events` | `InputOnceInOrder` `OutputInOrder` `AcceptedIsSeen` | full buffers neither reorder, repeat nor strand input; output keeps its order |
| `lua_participant` | `ThunkRunsOnceWhenDue` `OnlySelfLockBlocks` `ThunkRuns` | thunks run once, when due and in the end; nothing but a self-lock blocks a caller |
| `endpoints` | `LifeCycle` `RoutedToItsEnd` `AnsweredOnce` `TapMirrorsWire` `InputQueueIsThere` `WaitsForPeersOnly` | OSC: one thread per socket, one route per packet, replies to the requester. nomos-mcp: every request one answer, its own, whatever happens to kairos; if it hangs, another client stays connected or an evaluation never ends. MIDI: the tap mirrors the wire, and the input callback always finds its queue |
| `modulators` | `PulseIsKept` `PulseIsOneShot` `CipherPattern` `InStep` `RegisterPeriod` `DejaVuSettings` `GraphComputesExpression` `EnvelopeShape` `HeldValues` | the "benign" race on one-shot flags loses a pulse in one window only and never doubles one; chained registers are one register, and a strobe freezes its pattern; modulators on one clock count each of its edges once, wherever it is ticked and while it is stopped and restarted; the register has the period its feedback promises, for each of the 31 tap masks; the loop replays, freezes or renews as set; compiled graphs compute their expressions; a generator marks the ends of its own rises and falls only; what is held changes only when latched anew |
| `control_thread_answers` | `ClientSeesWholeFrames` (violated) | an answer can land inside a pushed frame |
| `lua_participant_register` | `CallsReturn` (violated) | `osc.register` with endpoint push locks a mutex its thread holds |
| `mcp_answer` | `ResultIsTheAnswer` (violated) | nomos-mcp returns a frame pushed by kairos as the result of an evaluation |

The type invariants of `BlockEvents`, `ControlDispatch`, `EventScheduler` and
`LuaParticipant` are conjuncts of a property of their runs. The inductive
invariants of section 6 contain those of the proved modules; each also holds under TLC
when the run's module extends the proof module and the configuration names it. Every
property of a passing run has a mutant in `PROJECT.json`, a plausible slip in the code
that the run then reports.

## 4. Bounds, and why they are enough

- `spsc_queue`: capacity 4 (three usable slots) and two items: the indices wrap, and
  full, empty and one-from-full all occur with every staleness of the loads. The
  theorems remove the bound.
- `event_scheduler`: two messages of up to two events, beats up to 2, a staging queue
  of two and an OSC queue of one: both overflow, a tick can run between any two
  pushes, and events arrive late, early and out of beat order.
- `modulator_engine`: three addresses are one installed, one being built and
  one waiting for its readers; two writers contend for the mutex, and addresses are
  reused. The engine starts two instances, enough for replace, append and remove.
- `control_thread`: two pushers, a buffer that one frame fills, one unread message;
  connections come and go without a bound.
- `control_dispatch`: three messages of 30 kinds and arguments, on either path, with
  everything wired and nothing wired; queues of two, so that the third is refused.
  An optional part is tested on its own by its handler, so the wirings in between
  add no behaviour of a handler.
- `block_events`: queues of one, a buffer of two, a collector of three, blocks of
  two, a MIDI queue of one: each limit is hit with events still to come.
- `lua_participant`: two calls and beats 0 to 2; thunks that schedule thunks.
- `endpoints`: for OSC two clients, three packets, a sending thread and a restart. For
  nomos-mcp three requests of every kind, one pushed frame on each connection, kairos
  going down once at any point, and another client that comes and goes without a bound:
  a request can meet a dead socket, wait behind the other client, and follow one whose
  evaluation is still running. For MIDI two sending threads of two messages each, three
  messages received, and every port opened twice, so that a close meets a send or a
  callback at each of its steps and a second opening follows. The theorems remove the
  bounds for everything but `WaitsForPeersOnly`.
- `modulators`: lfsr lengths 1 (which the constructor raises to 2) and 3 to 10, each
  stepped through its whole period (the periods of all lengths, 2 to 32, are computed, see
  section 2), and lengths 2, 3 and 5 in the other modes; a stochastic
  buffer of three, lengths set from 0 to 4 and seven pairs, so that a length is
  clamped, the buffer wraps, and the loop shrinks and grows under way; nine graphs that
  between them use every operator and its optional operands, for three ticks; a slew
  generator of five levels, without a bound on its ticks. Phasor
  rates are not negative (section 7 says why). One-shot inputs: one modulator of each
  style, two updates each, so that one update can fall in the window of the tick that
  consumes the other. `Cipher` has registers of 4 bits instead of 8: nothing in it
  depends on the width. `ClockPatch` has two voltages, enough for the clamp to act.
  `Latches` has all six logic functions, three bands of four points with widths from 0
  to 2 (disjoint, touching and overlapping bands), three addresses, and three segment
  definitions with phase steps of 1, 3 and 8 of 8: every segment visited, some skipped,
  and one cycle in each tick. None of these three has a bound on its ticks or updates.
  The theorems remove the bounds on modulators and updates, register widths and loop
  lengths, buffer lengths and pairs, voltages, levels, channels, addresses and segment
  definitions; the graphs are only those of the run.

No state constraint and no symmetry reduction is used.

## 5. Fairness, and what in the code justifies it

- A thread inside a call of the repository finishes it (weak fairness on its steps):
  no step waits except on a mutex, the socket or the queue, and those are guards.
- Mutexes are granted in the end to a thread that keeps finding them released (strong
  fairness on the lock steps of `ControlThread` and `LuaParticipant`).
- The audio callback and the 25 Hz timer keep running.
- liburcu's thread runs callbacks whose grace period is over, and `synchronize()`
  returns once the readers it waits for have left.
- nomos-mcp takes its next step, and kairos accepts, reads and closes connections
  (`Bridge` and `Serve` of `McpBridge`). Nothing is assumed of the length of an evaluation
  or of the other client's stay, which the code does not bound: these are the two things
  `WaitsForPeersOnly` says a request can wait for, and dropping either from it makes it
  false.
- The client reads, in `ReadingClientSpec` only, and only for `StopReturns`: section 7
  says what happens without it.
- Nothing is assumed of producers, pushers or callers of `update()`, `eval()`,
  `start()` or `stop()` before they call.

## 6. What is proved

Each theorem below holds for every value of the constants (under the named
`ASSUME`s), not only those of the runs. TLC evaluates those assumptions in the runs.

**RingProofs**, the ring (any capacity of at least 2, any items, one producer). `RingInv`
relates the two indices, the positions the threads hold and the indices they last saw
by circular order: the tail seen by the producer lies between the true tail and the
head, the head seen by the consumer between the tail and the true head, and the slot
under each thread lies on its own side. `NoSlotRace` alone is not inductive, because
it says nothing of what a stale load may return. From `RingInvariance` follow
`SlotSafety`, `SizeSafety` and, with lemmas on masked arithmetic and on the sequence
of published slots, the refinement `RingImplementsFifo`.

**RingProofs**, MIDI (any sending threads, any numbers of messages and openings).
`OutputInv` says that the holder of `send_mutex_` is the thread between its lock and its
tap, that the wire is ahead of the tap by the message of the thread at its tap if there
is one, and that what has left of a thread is older than what it is about to send.
`InputInv` says that the queue is set from before the port opens until after it has
closed, and that a callback in progress keeps the port open, which is what RtMidi's
`closePort()` is assumed to do. `TapMirrors` and `QueueIsThere` follow. Input and output
share no member, so each invariant ignores the steps of the other.

**RingProofs**, ciphers (any width). `CipherInv` adds to `CipherPattern` that the two have
seen the same level of the clock and that data2 of the second is low, so that a bit enters
the second exactly when one leaves the first. `PatternHolds` follows.

**ModulatorEngineProofs**, the pointer (any readers, writers and objects). `RcuInv` says
who owns each object: one is installed, those being built belong to one writer, a
retired one is waited for by every reader that may hold it. `RcuSafety` follows.

**ModulatorEngineProofs**, the engine (any names, writers and addresses, any number of
starts). `EngineUsesRcu` shows that every step of the engine is a
step of `Rcu` or leaves it alone, so `EngineMemorySafety` is inherited. `EngineInv`
adds that an installed table is never written, that a writer's copy differs from the
installed one by its own operation, and that a tick's visited prefix is that of the
table it loaded; `TickSnapshot` and the refinement `EngineImplementsRegistry`, in
which the installing exchange is the atomic step and the destructor's delete the last
one, follow. `ModOutIsFresh` speaks of the middle of a tick only and needs `FreshInv`
besides: every table, also one under construction, lists each of its modulators once
(`WellFormed`; lemmas on `Without` show that a stop keeps it), between two ticks the
outputs of age 0 are those of the last tick, and within a tick they are those of the
names already passed. `FreshOutputs` follows: without a name listed twice the walk
records every output exactly once.

**ControlThreadProofs**, the connection (any pushers, any bounds). `ControlInv` ties the published descriptor
to the server's position and to the holder of `write_mutex_`: it is published only
while the server is between publishing and unpublishing, and both ends of that take
the mutex. `WriteSafety` and `StopSafety` follow. For `PushSafety` the invariant is
`OpenFrameIsHeld`: after a pushed header that no other pushed chunk follows, either its
thread is the one about to write the payload, and so holds the mutex, or the connection
is beyond use and nothing more is written to it.

**ControlThreadProofs**, the messages (any messages, any wiring, histories of any
length). Each of the fourteen handlers, and a disconnect, is shown to be a `Dispatched`
step: it appends the message to the history and changes queues, devices, log, modulators and answers in
one of a few ways that depend on the message alone. `DispatchInv` holds the four
properties, the session flag as a function of the history, and that queues hold only
messages of the history, without which a new message would not be the youngest of its
queue. All of it is under `OneProducer`. Each conjunct is preserved by a `Dispatched` step whatever its message is:
`LogSafety`, `RouteSafety`, `ModulatorSafety` and `AnswerSafety`. A sequence "contains
the positions that satisfy a test, in order" is stated by `Ascending`, as increasing and
with exactly those elements, so that no induction over sequences is needed.

**BlockEventsProofs** (any list of input queues, any capacities, any number of blocks).
`BlockInv` adds to the two properties that numbers are given out in order, that the
collector is empty until the plugin runs, and that `flush_to()` stays inside it.
Input: a pop moves the oldest event of one queue to the end of `Taken`, so order and
contents are those of before; `clear` forgets only what the plugin has read. Output:
played events, waiting blocks and unpacked events are a list of pieces, and each step
moves a piece, or its first or last part, to the neighbouring one, or drops it.
`InputSafety` and `OutputSafety` follow.

**LuaParticipantProofs** (any programs, beats and numbers of calls). `LuaInv` says that
`mutex_` belongs to the one thread inside Lua, also while it waits to lock it again, that
whoever runs has a program, and that what the tick has walked past is not due, although
thunks append to the list under it and the entry at its index is removed. Each thunk is in
one place because there are as many places as thunks and a place for each. `ThunkSafety`,
`TickSafety` and `LuaExclusion` follow.

**ModulatorProofs**, one-shot inputs (any modulators, any mixture of styles). `PulseInv` accounts for
each update: pending, decided upon, acted upon, or late. `PulseKept` and `PulseOnce`
follow, and `SlewKeepsTriggers`: a modulator that clears only a flag it found set, and
clears before it acts, loses nothing.

**ModulatorProofs**, the clock patch (any range of voltages, any place of the clock in the
tick order). `InStep` compares each count with the rises of the recorded gate, less one that
is yet to be seen; a restart moves the clock behind both, and a rise seen in the tick before
is not seen again because each compares with the level it last saw. `PatchInv` adds that
before there is an entry both have seen the clock low, which is how two different treatments
of a missing source agree. `InStepHolds` follows.

**ModulatorProofs**, envelopes (any number of levels). `SlewInv` ties the stage to the last
edge of the history: falling is exactly after an eor, and a rise that no trigger began is
one of cycle mode. `EnvelopeHolds` follows.

**ModulatorProofs**, the stochastic loop (any buffer length, any number of pairs).
`DejaVuSettings` compares two outputs a lap apart; `StochasticInv` says of the whole lap
that a locked loop has output what lies behind the read position, and that under "always
generate new" the pairs behind the write position are the youngest, in the order of their
generation. `DejaVuHolds` follows.

**ModulatorProofs**, what is held (any channels, addresses, levels and segments).
`LatchInv` says that what was shown is what the modulator holds, and that a hold segment
shows the value it started from. `HeldValuesKept` proves the action property `HeldValues`
from it, one modulator at a time.

**EndpointProofs**, OSC (any clients, senders, queue bound and numbers of packets and
restarts). `LifeInv` is `LifeCycle` with what `stop()` has done at each of its steps:
the one descriptor that can be open is the one in `sock_`, it is closed before `sock_`
is cleared, and cleared before the join. `LifeCycle` alone says nothing of the
descriptor while `stop()` is under way. `RouteInv` adds to `RoutedToItsEnd` the packet
in hand: it has the last number, it is wanted if it is a static one, and
`last_sender_` is its sender once recorded. `LifeCycleHolds` and `RoutesHold` follow.

**EndpointProofs**, nomos-mcp (any requests, pushed frames, failures of kairos and
clients). `AnsweredOnce` numbers the answers by rank: request n is answered at place
`Place(n)`, the number of answered requests up to it. That rank is shown to grow by one
with a request that is answered and to stay with one that is not. `McpInv` adds that
nomos-mcp has one connection at most, that of the request it is at, so what it reads there
answers that request or was pushed: a late answer to an earlier evaluation has no
connection left to arrive on. `AnswersHold` follows.

**EndpointProofs**, the shift register (any length). `LoopPeriod` speaks of the end of a
lap only; `ShiftInv` says for every clock in between which bit of the starting register
each place holds (`Copied`, `Inverted`, `Filled`), and one clock is shown to move each of
them along by one. An lfsr never becomes zero because every mask taps the top bit
(`TopBitTapped`): if the top bit is the only one set, its parity is 1, and otherwise
another bit survives the shift. `LoopPeriodHolds` follows.

**EventSchedulerProofs** (any queue sizes, any messages, any course of the timeline; a
bundle is assumed to be a sequence of events with natural ticks). The rank by which
`StableSort` places an element is shown to be a bijection, so the sort is a permutation
(`SortPermutes`), sorted (`SortSorts`) and stable (`SortStable`). `SchedulerInv` says
that there are as many places as accepted events and a place for each, so none has two,
and what each phase of `tick()` has established: once the queue was found empty, what
enters it was staged after the tick began; the loop runs along a sorted list; it stops
with nothing due. `FiresOnce` and `FiresWhenDue` follow. `OrderInv` adds what the order
of firing needs across ticks: numbers grow along the staging queue and are above all
that has been drained, equal beats wait in order of arrival, and an event still waiting
that should have preceded a fired one arrived after that one's tick had drained the
queue. `OscInv` is the list of datagrams, sent or queued, as the queued entries of what
has fired. `FiresInOrder` follows from the three.

Only model-checked:

- every liveness property (`RemovedIsDestroyed`, `StopReturns`, `AcceptedIsSeen`,
  `OnlySelfLockBlocks`, `ThunkRuns`, `WaitsForPeersOnly`): liveness under fairness is
  beyond the proof system's reach;
- of `RegisterPeriod`, that an lfsr returns after 2^N - 1 clocks and not before: a fact
  about each of the 31 polynomials that only computation shows, and that `LfsrPeriod`
  computes for all of them (`LoopPeriod`, the part about the other modes, is proved);
- `GraphComputesExpression`: it is about recursive operators over expressions and would
  need induction over data.

## 7. Claims of the documentation that the models refute

Three have runs (`control_thread_answers`, `lua_participant_register`, `mcp_answer`) and
are described under `findings`. The others are stated as definitions and can be reproduced by
changing the configuration of the module's passing run as shown; TLC then finds the
counterexample in seconds.

| Claim | Definition | Change | What happens |
|---|---|---|---|
| `rt_control_thread.hpp:92` `dispatch_ctrl_frame` "may be called from any thread" | `SpscQueue!NoSlotRace` | `Producers = {p1, p2}`, `Spec`, this invariant only | the caller is a second producer of the queues the socket thread feeds |
| `doc/protocol-ipc.md:110` "the same `:at-tick` fires on the same tick" | `EventScheduler!SameTickFiresTogether` | add the invariant | a tick drains between two pushes of a bundle |
| `rcu.hpp:81` "Drain any pending call_rcu callbacks" | `Rcu!DestructorDrains` | add the invariant to `modulator_engine` | `synchronize()` waits for readers, not for callbacks |
| `rt_control_thread.cpp:258-259`, `stop()` does not stall | `ControlThread!StopReturns` | `SPECIFICATION FairSpec` | `push_frame` holds `write_mutex_` while it waits for a client that does not read |
| `ipc.hpp:72` a failed evaluation answers `:error` | `ControlDispatch!FailureAnsweredAsError` | add the invariant | the error map is sent under `:result` |
| `rt_control_thread.hpp:91` bridge answers go to the tty | `ControlDispatch!BridgeAnsweredOnTty` | add the invariant | a bridge request with `:dest :fennel` is answered nowhere |
| `rt_control_thread.hpp:71` without `wasm_swap_fn` a hot swap is "log and silently discard" | `ControlDispatch!UnwiredSwapIsSilent` | add the invariant | it is answered, with a nak |
| `cipher_modulator.hpp:49`, `divine_cmos_modulator.hpp:43` `>0.5` "arms one clock edge" | `PulseInput!PulseIsKept` without `late` | drop the disjunct | an update inside the read-clear window is lost |
| `event_collector.hpp:40` "Returns the number of blocks pushed" | `BlockEvents!FlushReportsPushed` | add the invariant | a refused block is counted |
| `luajit_participant.cpp:488-489` the prelude loads before the timer starts | `LuaParticipant!PreludeIsAlone` | add the invariant | the constructor has started the timer |
| `osc_server.hpp:82` "Safe to call from any thread" | `OscServer!SendsOnOpenSocket` | add the invariant | `stop()` closes the socket between the test and the send |
| `midi_io.hpp:49-51` the send callback "fires even when no port is open", before the bytes reach RtMidi | `MidiIo!TapSeesEverySend` | add the invariant to `endpoints` | `send()` returns early without a port, and the tap follows a send that did not throw |
| `midi_io.hpp:62-63` the echo callback fires "before the event is enqueued for the CLAP graph" | `MidiIo!EchoedIsAlsoQueued` | add the invariant to `endpoints` | with a callback set a message is echoed and not enqueued (`midi_io.cpp:184`: "skip the CLAP queue") |
| `graph_modulator.cpp:154` a slew's fall "defaults to rise if omitted" | `GraphModulator!FallDefaultsToRise` | name it in `MCModulators`, guarded by `kind = "graph"` | an omitted fall is 0.01 s, whatever the rise |
| `shift_register_modulator.hpp:27` turing mode at "param=1 → random" | `ShiftRegister!TuringAtOneIsRandom` | the same, guarded by `kind = "shift_register"` | at 1 every bit is inverted and the register repeats with twice its length; the random settings lie between 0 and 1 |
| `graph_modulator.hpp:84` "Returns a graph with no nodes on parse error" | `GraphModulator!ParseErrorIsSilent` | name it in `MCModulators`, guarded by `kind = "graph"` | an operand that does not parse reads as 0 in a graph that runs |
| `graph_modulator.hpp:28` "accumulated phase [0, 1)" | `GraphModulator!PhaseInUnitInterval` | the same, with `Values == {0, -100}` | the phase is wrapped from above only |

`DejaVuSettings` at 0 (`stochastic_modulator.hpp:26`, "loop never replays") holds after the one event and
the one lap that follow a change of setting.

Other places where a comment and the code differ, which the modules follow the code in:

- squid-axon's header says that "each output therefore holds for four clock ticks"; the
  pipeline shifts on every clock, and a value visits each output for one.
- The decoder's clock pulse is said to be "consumed (one-shot) on the next tick"; it is
  consumed by the next tick in clock mode, and one that is armed outside of it stays.
- bools-ring leaves its latch and its previous gate alone outside of sample mode: when
  the mode is switched on, the first tick shows what was latched before, and a gate
  that has been high all along counts as an edge.
- segment latches the start of a segment when it enters another one. A definition with
  a single segment therefore ramps from 0 in each cycle.
- nomos-mcp tests for an id only where it does not know the method: a notification of a
  known method is answered, with a null id.

## 8. What is not modelled, and why

- Signals of the continuous modulators (slope, sloth-chaos, fractal, Faust) and of genie,
  a ring of floating-point neurons: no control state, and no shared state besides what
  `ModulatorEngine` and `PulseInput` cover. lets-splosh is a function of its inputs.
- Of the discrete modulators, what is arithmetic of one tick: slew, gains, velocities
  and the projection of a register to voltages.
- Of the patches, a cipher chain whose clock is ticked between its two ends, where the second
  shifts one tick ahead of the bit it is sent and the chain is no longer one register (no line
  promises it there), and a restart of divine-cmos or squid-axon themselves, which replaces
  the modulator and begins its counts anew.
- That events, items and datagrams get through in the end is not stated for the ring and
  the scheduler (their safety properties say that nothing is skipped), nor that
  `osc_server::stop()` returns, which rests on the timeout of `recvfrom` alone.
- JSON and OSC text, MTS dumps and EDN: conversions without state.
- A segment rate above the tick rate, whose phase grows because a tick takes off one
  cycle only.
- Audio device, Link peer, DSP adapters: thin wrappers over external libraries; their
  callbacks are the external callers of the modelled code.
- Command line, time identity, heartbeat, result and small-vector types: values
  without state.
- The memory model beyond acquire/release on the ring and the plain bools of
  `PulseInput`: `listen_fd_` and the graph modulator's parameter map are shared
  without synchronisation, and are listed as hazards.
- `std::clamp` with its bounds reversed, which a graph expression can ask for and
  which is undefined: the expressions checked keep them in order.
- When clock edges come. A `clock_rate` of the shift register above the tick rate, which
  `update()` allows, adds more to its phase than the one edge of a tick takes off, so
  that it keeps clocking on every tick for a while after the rate is lowered.
- What a tick does to the Lua state while the prelude is loading (section 7).

## 9. Plan

1. Codecs as operators with round-trip properties: MTS notes and dumps, OSC encoding,
   EDN frame header, and the 14-bit pitch bend (`ipc.hpp:47-48` against the clamp in
   `rt_control_thread.cpp:1133`).
2. A composition of `ControlDispatch` with `EventScheduler` and `BlockEvents`: a note
   from the socket to the MIDI thread.
3. Proofs: the periods of the tap masks, by a checked certificate for each polynomial.

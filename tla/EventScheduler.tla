----------------------------- MODULE EventScheduler -----------------------------
(***************************************************************************)
(* The beat-quantised scheduler of include/nomos/rt/event_scheduler.hpp,   *)
(* with the control-thread handlers that feed it (msg_schedule_bundle, and *)
(* msg_note_on / msg_note_off with a :beat), and the sender thread that    *)
(* drains the OSC output queue.                                            *)
(*                                                                         *)
(* Three threads interleave: control (one push per step), audio/event (one *)
(* pop, or one event fired, per step) and sender.  The two spsc_queues are *)
(* atomic bounded FIFOs here, which SpscQueueProofs justifies.  Beats are  *)
(* counted in units of 1/24, so that at-beat + at-tick / 24 is a sum.      *)
(***************************************************************************)
EXTENDS Integers, Sequences, FiniteSets

CONSTANTS
    StagingBound,   \* events the staging queue holds: sched_queue_capacity - 1
    OscBound,       \* datagrams the OSC queue holds: osc_out_queue_capacity - 1
    Bundles,        \* the :events of a bundle: sequences of [tick, kind]
    MaxBeat,        \* the timeline's beats are 0 .. MaxBeat
    MaxMessages     \* bound: messages the control thread handles

Beats == 0 .. MaxBeat

\* What an element of :events can be: a note, an :osc map that
\* build_osc_event_from_edn accepts, or one that is skipped (not a map, or an
\* :osc map that it rejects).
Kinds == {"clap", "osc", "skipped"}

ASSUME SchedulerAssumption ==
    /\ StagingBound \in Nat \ {0} /\ OscBound \in Nat \ {0}
    /\ MaxBeat \in Nat /\ MaxMessages \in Nat
    /\ Bundles \subseteq Seq([tick : Nat, kind : Kinds])

VARIABLES
    messages,   \* messages handled so far; numbers the bundles
    todo,       \* control: the events of the current bundle still to be pushed
    accepted,   \* events the staging queue has accepted; numbers the events
    staging,    \* staging_
    pending,    \* pending_
    it,         \* tick()'s iterator, as a position in pending
    tick,       \* where the audio/event thread is in tick()
    now,        \* current_beat of the running or last tick
    atBegin,    \* history: `accepted` when that tick began
    oscWired,   \* osc_out_ != nullptr
    oscOut,     \* *osc_out_
    sent,       \* history: numbers of the datagrams the sender thread has popped
    fired       \* history: what has fired, in order

control   == <<messages, todo>>
scheduler == <<pending, it, tick, now, atBegin, fired>>
vars == <<control, accepted, staging, scheduler, oscWired, oscOut, sent>>

Init ==
    /\ messages = 0 /\ todo = << >> /\ accepted = 0 /\ staging = << >>
    /\ pending = << >> /\ it = 1 /\ tick = "idle" /\ now = 0 /\ atBegin = 0
    /\ oscWired \in BOOLEAN /\ oscOut = << >>
    /\ sent = << >> /\ fired = << >>

-----------------------------------------------------------------------------
(* Control thread                                                          *)

\* sched_staging->push(scheduled_event{...}); the result is ignored, so an
\* event that finds the queue full is dropped.
Stage(ev) ==
    IF Len(staging) < StagingBound
    THEN /\ accepted' = accepted + 1
         /\ staging' = Append(staging, [ev EXCEPT !.n = accepted + 1])
    ELSE UNCHANGED <<accepted, staging>>

Event(beat, kind, bundle) == [n |-> 0, beat |-> beat, kind |-> kind, bundle |-> bundle]

\* msg_note_on / msg_note_off with :beat.
ScheduleNote(beat) ==
    /\ todo = << >> /\ messages < MaxMessages
    /\ messages' = messages + 1
    /\ Stage(Event(beat, "clap", messages + 1))
    /\ UNCHANGED <<todo, scheduler, oscWired, oscOut, sent>>

\* msg_schedule_bundle: each event's beat is :at-beat plus its :at-tick.
ScheduleBundle(anchor, events) ==
    /\ todo = << >> /\ messages < MaxMessages
    /\ messages' = messages + 1
    /\ todo' = [i \in DOMAIN events |->
                  Event(anchor + events[i].tick, events[i].kind, messages + 1)]
    /\ UNCHANGED <<accepted, staging, scheduler, oscWired, oscOut, sent>>

\* One iteration of the loop over :events.
StageNext ==
    /\ todo # << >>
    /\ todo' = Tail(todo)
    /\ IF Head(todo).kind = "skipped"
       THEN UNCHANGED <<accepted, staging>>
       ELSE Stage(Head(todo))
    /\ UNCHANGED <<messages, scheduler, oscWired, oscOut, sent>>

-----------------------------------------------------------------------------
(* Audio / event thread: tick(current_beat, fn)                            *)

\* The host passes any beat: the Link timeline may stand still or jump back.
TickBegin(beat) ==
    /\ tick = "idle"
    /\ tick' = "drain" /\ now' = beat /\ atBegin' = accepted
    /\ UNCHANGED <<control, accepted, staging, pending, it, oscWired, oscOut, sent, fired>>

\* while (auto ev = staging_.pop()) pending_.push_back(*ev)
TickDrain ==
    /\ tick = "drain" /\ staging # << >>
    /\ pending' = Append(pending, Head(staging))
    /\ staging' = Tail(staging)
    /\ UNCHANGED <<control, accepted, it, tick, now, atBegin, oscWired, oscOut, sent, fired>>

\* Mutant: an unstable sort, later arrivals first among equal beats.
SortUnstable(s) ==
    LET Rank(i) == Cardinality({j \in DOMAIN s :
                      s[j].beat < s[i].beat \/ (s[j].beat = s[i].beat /\ j >= i)})
    IN  [k \in DOMAIN s |-> s[CHOOSE i \in DOMAIN s : Rank(i) = k]]

\* The positions of what does not come after s[i].
NotAfter(s, i) ==
    {j \in DOMAIN s : s[j].beat < s[i].beat \/ (s[j].beat = s[i].beat /\ j <= i)}

\* std::stable_sort by beat: each element goes to its rank.
StableSort(s) ==
    [k \in DOMAIN s |-> s[CHOOSE i \in DOMAIN s : Cardinality(NotAfter(s, i)) = k]]

\* The queue is empty: return if pending_ is, otherwise sort it.
TickSort ==
    /\ tick = "drain" /\ staging = << >>
    /\ IF pending = << >>
       THEN tick' = "idle" /\ UNCHANGED <<pending, it>>
       ELSE tick' = "fire" /\ it' = 1 /\ pending' = StableSort(pending)
    /\ UNCHANGED <<control, accepted, staging, now, atBegin, oscWired, oscOut, sent, fired>>

\* Mutant: an event is due only after its beat.
DueStrict == it <= Len(pending) /\ pending[it].beat < now

\* it != pending_.end() && it->beat <= current_beat
Due == it <= Len(pending) /\ pending[it].beat <= now

\* What becomes of a due event: a note goes to the callback, a datagram to the
\* OSC queue, unless there is none or it is full.
Route(ev) ==
    CASE ev.kind = "clap" -> "callback"
      [] ev.kind = "osc" /\ oscWired /\ Len(oscOut) < OscBound -> "queued"
      [] OTHER -> "dropped"

\* One iteration of the firing loop.  seen: how many events tick() had drained.
TickFire ==
    /\ tick = "fire" /\ Due
    /\ LET ev == pending[it] IN
         /\ oscOut' = IF Route(ev) = "queued" THEN Append(oscOut, ev.n) ELSE oscOut
         /\ fired' = Append(fired, [ev |-> ev, at |-> now, route |-> Route(ev),
                                    seen |-> Len(fired) + Len(pending) - it + 1])
    /\ it' = it + 1
    /\ UNCHANGED <<control, accepted, staging, pending, tick, now, atBegin, oscWired, sent>>

\* Mutant: the erase is one element short.
TickEraseShort ==
    /\ tick = "fire" /\ ~Due
    /\ pending' = SubSeq(pending, IF it > 1 THEN it - 1 ELSE it, Len(pending))
    /\ it' = 1 /\ tick' = "idle"
    /\ UNCHANGED <<control, accepted, staging, now, atBegin, oscWired, oscOut, sent, fired>>

\* pending_.erase(pending_.begin(), it)
TickErase ==
    /\ tick = "fire" /\ ~Due
    /\ pending' = SubSeq(pending, it, Len(pending))
    /\ it' = 1 /\ tick' = "idle"
    /\ UNCHANGED <<control, accepted, staging, now, atBegin, oscWired, oscOut, sent, fired>>

-----------------------------------------------------------------------------
(* Sender thread                                                           *)

\* The thread that drains *osc_out_ to osc_server::send_event.
SendOsc ==
    /\ oscOut # << >>
    /\ sent' = Append(sent, Head(oscOut))
    /\ oscOut' = Tail(oscOut)
    /\ UNCHANGED <<control, accepted, staging, scheduler, oscWired>>

-----------------------------------------------------------------------------

Control ==
    \/ \E beat \in Beats : ScheduleNote(beat)
    \/ \E anchor \in Beats, events \in Bundles : ScheduleBundle(anchor, events)
    \/ StageNext

InTick == TickDrain \/ TickSort \/ TickFire \/ TickErase

Tick == InTick \/ \E beat \in Beats : TickBegin(beat)

Next == Control \/ Tick \/ SendOsc

Spec == Init /\ [][Next]_vars

-----------------------------------------------------------------------------

Kept    == {staging[i] : i \in DOMAIN staging} \cup {pending[i] : i \in it .. Len(pending)}
Numbers(q) == [i \in DOMAIN q |-> q[i].n]
Events == [n : 0 .. accepted, beat : Nat, kind : Kinds, bundle : 1 .. MaxMessages]

TypeOK ==
    /\ messages \in 0 .. MaxMessages /\ accepted \in Nat /\ atBegin \in 0 .. accepted
    /\ todo \in Seq(Events)
    /\ staging \in Seq(Events) /\ Len(staging) <= StagingBound
    /\ pending \in Seq(Events) /\ it \in 1 .. (Len(pending) + 1)
    /\ tick \in {"idle", "drain", "fire"} /\ now \in Beats
    /\ oscWired \in BOOLEAN
    /\ oscOut \in Seq(1 .. accepted) /\ Len(oscOut) <= OscBound
    /\ sent \in Seq(1 .. accepted)
    /\ fired \in Seq([ev : Events, at : Beats, seen : 0 .. accepted,
                        route : {"callback", "queued", "dropped"}])

(* From the moment the staging queue accepts it, an event is in exactly one
   place: still queued, waiting in pending_, or fired, once.  In particular a
   past-due event is not dropped, and erasing the fired prefix of pending_ while
   the control thread keeps pushing neither loses nor repeats one. *)
EachEventOnce ==
    /\ TypeOK
    /\ LET all == Numbers(staging) \o SubSeq(Numbers(pending), it, Len(pending))
                    \o [i \in DOMAIN fired |-> fired[i].ev.n]
       IN  /\ Len(all) = accepted
           /\ \A n \in 1 .. accepted : \E i \in DOMAIN all : all[i] = n

\* stable_sort puts e before f: the beats decide, then the order of arrival.
Precedes(e, f) == e.beat < f.beat \/ (e.beat = f.beat /\ e.n < f.n)

(* "receives CLAP (note/MIDI) events in beat order", and in arrival order
   within a beat: an event that fires after one it should have preceded arrived
   too late for the tick that fired the other.  Holds across ticks, whatever
   the timeline does, for notes and datagrams alike.  The sender thread gets the
   datagrams in that order, each once and none that was reported dropped: a full
   queue refuses the newest, it never disturbs what is already queued. *)
FiresInBeatOrder ==
    /\ \A i, j \in DOMAIN fired :
          i < j /\ Precedes(fired[j].ev, fired[i].ev) => fired[j].ev.n > fired[i].seen
    /\ \E at \in [DOMAIN (sent \o oscOut) -> DOMAIN fired] :
          /\ \A k, l \in DOMAIN at : k < l => at[k] < at[l]
          /\ \A k \in DOMAIN at : fired[at[k]].ev.n = (sent \o oscOut)[k]
          /\ {at[k] : k \in DOMAIN at} = {i \in DOMAIN fired : fired[i].route = "queued"}

(* "events fire at the first tick where current_beat >= event.beat": nothing
   fires before its beat, and when tick() returns, no event that was staged
   before it began, and is due, is still waiting. *)
FiresWhenFirstDue ==
    /\ \A i \in DOMAIN fired : fired[i].ev.beat <= fired[i].at
    /\ tick = "idle" => \A e \in Kept : e.n <= atBegin => e.beat > now

(* doc/protocol-ipc.md, msg_schedule_bundle: "Notes and OSC may be mixed in one
   bundle; the same :at-tick fires on the same tick."  When tick() has returned,
   no event of a bundle is left behind by one of the same bundle and beat. *)
SameTickFiresTogether ==
    tick = "idle" =>
        \A i \in DOMAIN fired :
            \A e \in Kept \cup {todo[k] : k \in DOMAIN todo} :
                ~(e.bundle = fired[i].ev.bundle /\ e.beat = fired[i].ev.beat
                  /\ e.kind # "skipped")

================================================================================

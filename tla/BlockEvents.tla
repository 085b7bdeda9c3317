------------------------------ MODULE BlockEvents ------------------------------
(***************************************************************************)
(* Events through one audio block, on the process thread:                  *)
(*   input_event_buffer  clear(), then drain() of each input queue in turn *)
(*   the plugin          reads the buffer and pushes output events         *)
(*   event_collector     try_push(), then flush_to() the MIDI thread's     *)
(*                       queue in blocks, then reset()                     *)
(* The order of the calls in a block is the one the usage comments of the  *)
(* two classes give; the audio callback that makes them, the plugin and    *)
(* the MIDI thread are outside this repository.  The producers of the      *)
(* input queues and the MIDI thread run concurrently with the block; the   *)
(* queues are the bounded FIFOs that SpscQueue implements.                 *)
(***************************************************************************)
EXTENDS Naturals, Sequences, SequencesExt

CONSTANTS
    Sources,     \* the input queues in the order they are drained
    QueueBound,  \* items an input queue holds
    MaxIn,       \* input_event_buffer::max_events
    MaxOut,      \* event_collector::max_events
    BlockSize,   \* events in a midi_event_block
    MidiBound,   \* blocks the MIDI queue holds
    MaxEvents,   \* bound: events each source offers
    MaxMade      \* bound: events the plugin makes

ASSUME BlockAssumption ==
    /\ Sources \in Seq(ToSet(Sources)) /\ Sources # <<>>
    /\ {QueueBound, MaxIn, MaxOut, BlockSize, MidiBound, MaxEvents, MaxMade} \subseteq Nat \ {0}

VARIABLES
    stage,     \* where the process thread is in the block
    at,        \* the queue being drained
    input,     \* the input queues
    offered,   \* events each source has tried to push
    accepted,  \* events each source has pushed successfully, in order
    buffer,    \* events_[0 .. count_) of input_event_buffer
    seen,      \* what the plugin was given in all blocks so far
    made,      \* events the plugin has made
    collected, \* events_[0 .. count_) of event_collector
    next,      \* i of flush_to()
    midi,      \* blocks waiting for the MIDI thread
    played,    \* events the MIDI thread has taken, in order
    reported,  \* the local "pushed" of the last flush_to()
    entered    \* blocks of the last flush_to() that entered the queue

inVars  == <<input, offered, accepted, buffer, seen>>
outVars == <<made, collected, next, midi, played, reported, entered>>
vars    == <<stage, at, inVars, outVars>>

Src == ToSet(Sources)

Init ==
    /\ stage = "clear" /\ at = 1
    /\ input = [s \in Src |-> <<>>] /\ accepted = [s \in Src |-> <<>>]
    /\ offered = [s \in Src |-> 0]
    /\ buffer = <<>> /\ seen = <<>>
    /\ made = 0 /\ collected = <<>> /\ next = 0
    /\ midi = <<>> /\ played = <<>> /\ reported = 0 /\ entered = 0

-----------------------------------------------------------------------------
(* Input                                                                   *)

\* A producer pushes its next event and ignores the result: a full queue
\* refuses it.
Produce(s) ==
    /\ offered[s] < MaxEvents
    /\ offered' = [offered EXCEPT ![s] = @ + 1]
    /\ IF Len(input[s]) < QueueBound
       THEN /\ input' = [input EXCEPT ![s] = Append(@, offered'[s])]
            /\ accepted' = [accepted EXCEPT ![s] = Append(@, offered'[s])]
       ELSE UNCHANGED <<input, accepted>>
    /\ UNCHANGED <<stage, at, buffer, seen, outVars>>

\* Mutant: the events of the previous block stay in the buffer.
ClearForgets ==
    /\ stage = "clear"
    /\ stage' = "drain" /\ at' = 1
    /\ UNCHANGED <<inVars, outVars>>

\* input_event_buffer::clear()
Clear ==
    /\ stage = "clear"
    /\ buffer' = <<>>
    /\ stage' = "drain" /\ at' = 1
    /\ UNCHANGED <<input, offered, accepted, seen, outVars>>

\* count_ < max_events
Room == Len(buffer) < MaxIn

\* One round of drain()'s loop that pops an event.
DrainPop ==
    /\ stage = "drain" /\ Room /\ input[Sources[at]] # <<>>
    /\ buffer' = Append(buffer, <<Sources[at], Head(input[Sources[at]])>>)
    /\ input' = [input EXCEPT ![Sources[at]] = Tail(@)]
    /\ UNCHANGED <<stage, at, offered, accepted, seen, outVars>>

\* Mutant: only the first queue is drained.
DrainEndsEarly ==
    /\ stage = "drain" /\ (~Room \/ input[Sources[at]] = <<>>)
    /\ stage' = "read" /\ UNCHANGED at
    /\ UNCHANGED <<inVars, outVars>>

\* drain() returns: the buffer is full, and the rest stays queued for the next
\* block, or the queue is empty.
DrainEnds ==
    /\ stage = "drain" /\ (~Room \/ input[Sources[at]] = <<>>)
    /\ IF at < Len(Sources) THEN at' = at + 1 /\ UNCHANGED stage
                            ELSE stage' = "read" /\ UNCHANGED at
    /\ UNCHANGED <<inVars, outVars>>

\* The plugin reads the buffer through size() and get().
PluginReads ==
    /\ stage = "read"
    /\ seen' = seen \o buffer
    /\ stage' = "process"
    /\ UNCHANGED <<at, input, offered, accepted, buffer, outVars>>

-----------------------------------------------------------------------------
(* Output                                                                  *)

\* try_push(): a full collector refuses the event; notes and MIDI are collected,
\* wildcard notes and events of other types are accepted and discarded.
TryPush(translated) ==
    /\ stage = "process" /\ made < MaxMade
    /\ made' = made + 1
    /\ collected' = IF translated /\ Len(collected) < MaxOut
                    THEN Append(collected, made') ELSE collected
    /\ UNCHANGED <<stage, at, inVars, next, midi, played, reported, entered>>

\* process() returns and flush_to() begins with i = 0 and pushed = 0.
FlushBegin ==
    /\ stage = "process"
    /\ stage' = "flush" /\ next' = 0 /\ reported' = 0 /\ entered' = 0
    /\ UNCHANGED <<at, inVars, made, collected, midi, played>>

\* Where the block that starts at event next ends.
BlockEnd == IF next + BlockSize < Len(collected) THEN next + BlockSize ELSE Len(collected)

\* One round of flush_to()'s loop: a block is filled, pushed and counted.  The
\* result of push() is ignored, so a full queue drops the block.
FlushBlock ==
    /\ stage = "flush" /\ next < Len(collected)
    /\ IF Len(midi) < MidiBound
       THEN /\ midi' = Append(midi, SubSeq(collected, next + 1, BlockEnd))
            /\ entered' = entered + 1
       ELSE UNCHANGED <<midi, entered>>
    /\ reported' = reported + 1
    /\ next' = BlockEnd
    /\ UNCHANGED <<stage, at, inVars, made, collected, played>>

\* flush_to() returns.
FlushEnds ==
    /\ stage = "flush" /\ next = Len(collected)
    /\ stage' = "reset"
    /\ UNCHANGED <<at, inVars, outVars>>

\* Mutant: the events of this block are flushed again by the next one.
ResetForgets ==
    /\ stage = "reset"
    /\ stage' = "clear"
    /\ UNCHANGED <<at, inVars, outVars>>

\* event_collector::reset()
Reset ==
    /\ stage = "reset"
    /\ collected' = <<>>
    /\ stage' = "clear"
    /\ UNCHANGED <<at, inVars, made, next, midi, played, reported, entered>>

\* The MIDI thread takes a block.
MidiPop ==
    /\ midi # <<>>
    /\ played' = played \o Head(midi)
    /\ midi' = Tail(midi)
    /\ UNCHANGED <<stage, at, inVars, made, collected, next, reported, entered>>

-----------------------------------------------------------------------------

\* The steps that bring the block to its end.
BlockStep ==
    \/ Clear \/ DrainPop \/ DrainEnds \/ PluginReads
    \/ FlushBegin \/ FlushBlock \/ FlushEnds \/ Reset

Next ==
    \/ \E s \in Src : Produce(s)
    \/ BlockStep
    \/ \E translated \in BOOLEAN : TryPush(translated)
    \/ MidiPop

Spec == Init /\ [][Next]_vars

\* The audio device keeps calling for blocks.
FairSpec == Spec /\ WF_vars(BlockStep)

-----------------------------------------------------------------------------

(* The shape of the state: both fixed arrays are never overrun, and every block in
   the MIDI queue holds at least one event and at most BlockSize. *)
TypeOK ==
    /\ stage \in {"clear", "drain", "read", "process", "flush", "reset"}
    /\ at \in DOMAIN Sources
    /\ input \in [Src -> Seq(Nat)] /\ accepted \in [Src -> Seq(Nat)] /\ offered \in [Src -> Nat]
    /\ \A s \in Src : Len(input[s]) <= QueueBound
    /\ buffer \in Seq(Src \X Nat) /\ seen \in Seq(Src \X Nat) /\ Len(buffer) <= MaxIn
    /\ made \in Nat /\ collected \in Seq(Nat) /\ Len(collected) <= MaxOut
    /\ next \in Nat /\ midi \in Seq(Seq(Nat)) /\ played \in Seq(Nat)
    /\ \A i \in DOMAIN midi : Len(midi[i]) \in 1 .. BlockSize

Increasing(q) == \A i, j \in DOMAIN q : i < j => q[i] < q[j]

\* What is in the buffer and has not been shown to the plugin yet.
Unread == IF stage \in {"drain", "read"} THEN buffer ELSE <<>>

\* Everything taken from the input queues, in the order it was taken.
Taken == seen \o Unread

\* The events of source s in a sequence of <<source, event>> pairs.
EventsOf(q, s) == {q[i][2] : i \in {k \in DOMAIN q : q[k][1] = s}}

(* What an input queue accepted reaches the plugin once and in order, also when
   more arrives than max_events.  A source's events are numbered as it offers them:
   what was taken from its queue is in the order of the numbers and older than what
   still waits there, and the two together are what the queue accepted.  Neither
   fixed array is overrun on the way. *)
InputOnceInOrder ==
    /\ TypeOK
    /\ \A i, j \in DOMAIN Taken : i < j /\ Taken[i][1] = Taken[j][1] => Taken[i][2] < Taken[j][2]
    /\ \A s \in Src :
          /\ Increasing(accepted[s]) /\ Increasing(input[s])
          /\ EventsOf(Taken, s) \cup ToSet(input[s]) = ToSet(accepted[s])
          /\ \A e \in EventsOf(Taken, s) : \A k \in DOMAIN input[s] : e < input[s][k]

\* What flush_to() has still to pack.
Unpacked == IF stage \in {"process", "flush"}
            THEN SubSeq(collected, (IF stage = "flush" THEN next ELSE 0) + 1, Len(collected))
            ELSE <<>>

\* The output, in pieces: what was played, each block that waits, and the rest.
Output == <<played>> \o midi \o <<Unpacked>>

\* The numbers increase through a sequence of sequences, within each and across.
IncreasingThrough(pieces) ==
    \A a, b \in DOMAIN pieces : \A i \in DOMAIN pieces[a], j \in DOMAIN pieces[b] :
        a < b \/ (a = b /\ i < j) => pieces[a][i] < pieces[b][j]

(* The MIDI thread gets the collected events in the order the plugin made them and
   none of them twice; a full MIDI queue leaves gaps and nothing else. *)
OutputInOrder == IncreasingThrough(Output)

\* What every step preserves: the two properties, and that numbers are given out in
\* order, the collector is empty until the plugin runs, and flush_to() stays in it.
BlockInv ==
    /\ InputOnceInOrder /\ OutputInOrder
    /\ \A s \in Src : \A n \in ToSet(accepted[s]) : n <= offered[s]
    /\ Increasing(collected) /\ (stage \in {"clear", "drain", "read"} => collected = <<>>)
    /\ stage = "flush" => next <= Len(collected)
    /\ \A a \in DOMAIN Output : \A i \in DOMAIN Output[a] : Output[a][i] <= made

(* flush_to(): "Only pushes blocks with count > 0.  Returns the number of blocks
   pushed." *)
FlushReportsPushed == stage = "reset" => reported = entered

(* Every event an input queue accepted is shown to the plugin in the end, the ones
   of the queue drained last included, once the queues before it no longer fill
   the buffer in every block (here: the sources offer MaxEvents events each). *)
AcceptedIsSeen ==
    \A s \in Src, n \in 1 .. MaxEvents :
        (n \in ToSet(accepted[s])) ~> (n \in EventsOf(seen, s))
================================================================================

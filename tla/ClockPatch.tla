------------------------------- MODULE ClockPatch ------------------------------
(***************************************************************************)
(* A divine-cmos and a squid-axon modulator patched to the gate of one     *)
(* clock modulator, which may be stopped and started again.  They read it  *)
(* from last_output(), whose entry stays when a modulator is stopped, and  *)
(* they differ in what they make of a source that has no entry: divine-    *)
(* cmos holds the previous level, squid-axon reads low.  The clock may be  *)
(* ticked before both, after both or between them: the engine ticks in the *)
(* order of the starts.                                                    *)
(*                                                                         *)
(* Voltages are 0 .. Volt.  What in1, in2, a patched IN3 and the two        *)
(* feedbacks of squid-axon add to its mix is any amount.                   *)
(***************************************************************************)
EXTENDS Integers

CONSTANT Volt

ASSUME VoltAssumption == Volt \in Nat

VARIABLES
    running,  \* the clock is in the engine's table
    after,    \* which of the two are ticked after it
    entry,    \* last_outputs_[clock]: its gate, if it has one
    divine, squid,
    rises     \* how often the recorded gate has risen, modulo 16 (history)

patchVars == <<running, after, entry, divine, squid, rises>>

PatchInit ==
    /\ running \in BOOLEAN /\ after \in SUBSET {"divine", "squid"}
    /\ entry = [present |-> FALSE, gate |-> FALSE] /\ rises = 0
    /\ divine = [prev |-> FALSE, counter1 |-> 0, counter2 |-> 0, pending2 |-> FALSE, xor |-> 0]
    /\ squid = [prev |-> FALSE, stages |-> [i \in 0 .. 3 |-> 0], counter |-> 0,
                patched |-> FALSE]

-----------------------------------------------------------------------------

Bit(n, i) == (n \div 2^i) % 2
Xor(m, n) == LET b(i) == IF Bit(m, i) # Bit(n, i) THEN 2^i ELSE 0
             IN  b(0) + b(1) + b(2) + b(3)

\* divine_cmos_modulator::tick(); clock 2 has no source and is clocked by update().
DivineTicked(d, e) ==
    LET gate == IF e.present THEN e.gate ELSE d.prev
        c1   == IF gate /\ ~d.prev THEN (d.counter1 + 1) % 16 ELSE d.counter1
        c2   == IF d.pending2 THEN (d.counter2 + 1) % 16 ELSE d.counter2
    IN  [prev |-> gate, counter1 |-> c1, counter2 |-> c2, pending2 |-> FALSE, xor |-> Xor(c1, c2)]

Clamp(v) == IF v < 0 THEN 0 ELSE IF v > Volt THEN Volt ELSE v

\* IN3 is normalled to OUT4 when nothing is patched to it.
Mix(s, in) == Clamp(in + (IF s.patched THEN 0 ELSE s.stages[3]))

Advance(stages, v) == [i \in 0 .. 3 |-> IF i = 0 THEN v ELSE stages[i - 1]]

\* squid_axon_modulator::tick()
SquidTicked(s, e, in) ==
    LET clk == e.present /\ e.gate
    IN  IF clk /\ ~s.prev
        THEN [s EXCEPT !.prev = clk, !.stages = Advance(@, Mix(s, in)), !.counter = (@ + 1) % 4]
        ELSE [s EXCEPT !.prev = clk]

Level(e) == e.present /\ e.gate

\* One tick of the engine: the clock's gate is now g, if it runs.  A modulator that
\* is ticked before the clock sees the gate of the previous tick.
PatchTick(g, in) ==
    /\ entry' = IF running THEN [present |-> TRUE, gate |-> g] ELSE entry
    /\ divine' = DivineTicked(divine, IF "divine" \in after THEN entry' ELSE entry)
    /\ squid' = SquidTicked(squid, IF "squid" \in after THEN entry' ELSE entry, in)
    /\ rises' = IF Level(entry') /\ ~Level(entry) THEN (rises + 1) % 16 ELSE rises
    /\ UNCHANGED <<running, after>>

\* Mutant: the entry of a stopped modulator is dropped.
StopDropsEntry ==
    /\ running
    /\ running' = FALSE /\ entry' = [present |-> FALSE, gate |-> FALSE]
    /\ UNCHANGED <<after, divine, squid, rises>>

\* modulator_engine::stop() of the clock leaves last_outputs_ alone.
Stop ==
    /\ running
    /\ running' = FALSE
    /\ UNCHANGED <<after, entry, divine, squid, rises>>

\* modulator_engine::start() appends to the table: the clock is now ticked last.
Start ==
    /\ ~running
    /\ running' = TRUE /\ after' = {}
    /\ UNCHANGED <<entry, divine, squid, rises>>

\* update() of either.
PatchUpdate ==
    /\ \/ divine' = [divine EXCEPT !.pending2 = TRUE] /\ UNCHANGED squid
       \/ squid' = [squid EXCEPT !.patched = ~@] /\ UNCHANGED divine
    /\ UNCHANGED <<running, after, entry, rises>>

PatchNext ==
    \/ \E g \in BOOLEAN, in \in -Volt .. Volt : PatchTick(g, in)
    \/ Stop \/ Start \/ PatchUpdate

PatchSpec == PatchInit /\ [][PatchNext]_patchVars

-----------------------------------------------------------------------------

\* Four clocks with no input and no feedback.
FourClocks(s) ==
    LET n(t) == [t EXCEPT !.stages = Advance(@, Mix(t, 0))]
    IN  n(n(n(n([s EXCEPT !.patched = FALSE]))))

\* 1 if the recorded gate has risen and m, ticked before the clock, has not seen it.
Unseen(m) == IF Level(entry) /\ ~m.prev THEN 1 ELSE 0

(* Modulators patched to one clock count its edges: divine-cmos and squid-axon have
   counted every rise of the recorded gate, but for the last one while it is unseen,
   and only a modulator that is ticked before the clock has one to see.  So they stay
   in step, also when the clock is ticked between them, or is stopped and started
   again at another place in the table: no edge is lost, none counted twice, although
   the two treat a missing source differently.  The four division gates of divine-cmos
   are the difference of its two counts (equal counts cancel out), and what is in the
   pipeline of squid-axon, left alone, comes round unchanged after four clocks. *)
InStep ==
    /\ (divine.counter1 + Unseen(divine)) % 16 = rises
    /\ (squid.counter + Unseen(squid)) % 4 = rises % 4
    /\ "divine" \in after => divine.prev = Level(entry)
    /\ "squid" \in after => squid.prev = Level(entry)
    /\ divine.xor = 0 <=> divine.counter1 = divine.counter2
    /\ FourClocks(squid).stages = squid.stages

Entries == [present : BOOLEAN, gate : BOOLEAN]

(* Why InStep holds: an entry, once there, stays, so that divine-cmos never has to hold
   a level of its own making.  Before there is one, both have seen the clock low. *)
PatchInv ==
    /\ running \in BOOLEAN /\ after \in SUBSET {"divine", "squid"} /\ entry \in Entries
    /\ rises \in 0 .. 15
    /\ divine \in [prev : BOOLEAN, counter1 : 0 .. 15, counter2 : 0 .. 15,
                   pending2 : BOOLEAN, xor : 0 .. 15]
    /\ squid \in [prev : BOOLEAN, stages : [0 .. 3 -> 0 .. Volt], counter : 0 .. 3,
                  patched : BOOLEAN]
    /\ ~entry.present => ~divine.prev /\ ~squid.prev
    /\ InStep
================================================================================

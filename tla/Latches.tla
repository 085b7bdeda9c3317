-------------------------------- MODULE Latches --------------------------------
(***************************************************************************)
(* Modulators that hold a value: bools-ring in sample mode, the CV channel *)
(* decoder in clock mode, the addressed slots of statues, and the hold and *)
(* ramp segments of the segment generator.  A behaviour is one of one of   *)
(* them, its parameters changed by update() between its ticks.             *)
(*                                                                         *)
(* A value is an integer: for the segment generator 0 .. Full, where a     *)
(* phase of Full is one cycle and fractions are rounded down; for the      *)
(* decoder 2 * Channels * Fine is the whole span.                          *)
(***************************************************************************)
EXTENDS Integers, Sequences

CONSTANTS
    Logic,     \* logic functions of bools-ring
    Channels,  \* bands of the decoder
    Fine,      \* points in half a band
    Addresses, \* slots of statues in use, 0 .. 7 in the code
    Segments,  \* definitions of the segment generator: sequences of [kind, primary, secondary]
    Full,
    Rates      \* phase per tick, at most Full: the rate is at most the tick rate

Definitions == [kind : {"ramp", "step", "hold", "alt"}, primary : Int, secondary : Int]

ASSUME LatchAssumption ==
    /\ Channels \in Nat /\ Fine \in Nat
    /\ Full \in Nat \ {0} /\ Rates \subseteq 0 .. Full
    /\ \A defs \in Segments : defs \in Seq(Definitions) /\ defs # << >>

VARIABLES
    which,  \* the modulator
    mod,    \* its members
    shown   \* history: the output of its last tick, and whether it came from the latch

latchVars == <<which, mod, shown>>

-----------------------------------------------------------------------------
(* bools_ring_modulator                                                    *)

apply_logic(mode, a, b) ==
    CASE mode = "xor"  -> a # b
      [] mode = "or"   -> a \/ b
      [] mode = "and"  -> a /\ b
      [] mode = "nor"  -> ~(a \/ b)
      [] mode = "nand" -> ~(a /\ b)
      [] mode = "xnor" -> a = b

\* The set bits of the bitmap.
Ring(b) == {i \in 0 .. 3 : apply_logic(b.mode, b.inputs[i], b.inputs[(i + 1) % 4])}

BoolsInit ==
    \E mode \in Logic :
        mod = [mode |-> mode, inputs |-> [i \in 0 .. 3 |-> FALSE], sampled |-> FALSE,
             prev |-> FALSE, pending |-> FALSE, latched |-> {}]

BoolsEdge(g) == (g /\ ~mod.prev) \/ mod.pending

\* Mutant: the gate's level is taken for its edge.
BoolsTickLevel(g) ==
    /\ mod' = IF ~mod.sampled THEN mod
              ELSE [mod EXCEPT !.prev = g, !.pending = FALSE,
                               !.latched = IF g \/ mod.pending THEN Ring(mod) ELSE @]
    /\ shown' = [value |-> IF mod.sampled THEN mod'.latched ELSE Ring(mod), held |-> mod.sampled]

\* tick() with the gate of the sample source at g.  Outside of sample mode the latch
\* and the previous gate are left alone.
BoolsTick(g) ==
    /\ mod' = IF ~mod.sampled THEN mod
              ELSE [mod EXCEPT !.prev = g, !.pending = FALSE,
                               !.latched = IF BoolsEdge(g) THEN Ring(mod) ELSE @]
    /\ shown' = [value |-> IF mod.sampled THEN mod'.latched ELSE Ring(mod), held |-> mod.sampled]

BoolsUpdate ==
    \/ \E i \in 0 .. 3 : mod' = [mod EXCEPT !.inputs[i] = ~@]
    \/ mod' = [mod EXCEPT !.sampled = ~@]
    \/ mod' = [mod EXCEPT !.pending = TRUE]

-----------------------------------------------------------------------------
(* cv_channel_decoder                                                      *)

Half == Channels * Fine

\* The distance of span from the centre of band ch is at most space half-widths.
channel_active(ch, span, space) ==
    LET ctr == (2 * ch + 1) * Fine - Half
    IN  span >= ctr - space * Fine /\ span <= ctr + space * Fine

Bands(d) == {ch \in 0 .. Channels - 1 : channel_active(ch, d.span, d.space)}

DecoderInit == mod = [span |-> 0, space |-> 1, clocked |-> FALSE, pending |-> FALSE, latched |-> {}]

DecoderTick ==
    /\ mod' = IF mod.clocked /\ mod.pending
              THEN [mod EXCEPT !.latched = Bands(mod), !.pending = FALSE] ELSE mod
    /\ shown' = [value |-> IF mod.clocked THEN mod'.latched ELSE Bands(mod), held |-> mod.clocked]

DecoderUpdate ==
    \/ \E v \in -Half .. Half : mod' = [mod EXCEPT !.span = v]
    \/ \E v \in 0 .. 2 : mod' = [mod EXCEPT !.space = v]
    \/ mod' = [mod EXCEPT !.clocked = ~@]
    \/ mod' = [mod EXCEPT !.pending = TRUE]

-----------------------------------------------------------------------------
(* statues_modulator                                                       *)

\* The address source, if it is patched and has an output, comes before the bits
\* and the number; a source that is patched and has no output hides the bits.
StatuesInit ==
    \E patched \in BOOLEAN :
        mod = [slots |-> [a \in Addresses |-> 0], in |-> 0, addr |-> 0, bits |-> 0,
             useBits |-> FALSE, patched |-> patched, prev |-> -1]

\* The source's state has its low bits at state, or has none (-1).
Address(state) ==
    IF mod.patched THEN (IF state # -1 THEN state ELSE mod.addr)
    ELSE IF mod.useBits THEN mod.bits ELSE mod.addr

StatuesTick(state) ==
    LET a == Address(state)
    IN  /\ mod' = [mod EXCEPT !.slots[a] = mod.in, !.prev = a]
        /\ shown' = [value |-> mod'.slots, held |-> TRUE]

\* "addr0" to "addr2", and updates of several between two ticks, give any bits.
StatuesUpdate ==
    \/ \E v \in {-1, 1} : mod' = [mod EXCEPT !.in = v]
    \/ \E a \in Addresses : mod' = [mod EXCEPT !.addr = a, !.useBits = FALSE]
    \/ \E a \in Addresses : mod' = [mod EXCEPT !.bits = a, !.useBits = TRUE]

-----------------------------------------------------------------------------
(* segment_modulator                                                       *)

SegmentInit ==
    \E defs \in Segments, rate \in Rates :
        mod = [defs |-> defs, rate |-> rate, phase |-> 0, cur |-> 0, odd |-> FALSE,
             start |-> 0, output |-> 0]

\* What a segment shows at point local of it; odd is cycle_count_ % 2.
SegmentValue(d, start, local, odd) ==
    CASE d.kind = "ramp" -> start + (local * (d.primary - start)) \div Full
      [] d.kind = "step" -> d.primary
      [] d.kind = "hold" -> start
      [] d.kind = "alt"  -> IF odd THEN d.secondary ELSE d.primary

\* The segment after another rate of phase, and the point in it.
SegmentAt(phase) ==
    LET n == Len(mod.defs)
    IN  [seg |-> ((phase * n) \div Full) % n, local |-> (phase * n) % Full]

SegmentTick ==
    LET wrap  == mod.phase + mod.rate >= Full
        phase == IF wrap THEN mod.phase + mod.rate - Full ELSE mod.phase + mod.rate
        at    == SegmentAt(phase)
        start == IF at.seg # mod.cur THEN mod.output ELSE mod.start
        odd   == mod.odd # wrap
        out   == SegmentValue(mod.defs[at.seg + 1], start, at.local, odd)
    IN  /\ mod' = [mod EXCEPT !.phase = phase, !.cur = at.seg, !.odd = odd, !.start = start,
                            !.output = out]
        /\ shown' = [value |-> out, held |-> mod.defs[at.seg + 1].kind = "hold"]

\* Only an alt segment reads its secondary value.
SegmentUpdate ==
    \/ \E i \in DOMAIN mod.defs, v \in {0, Full} :
          \/ mod' = [mod EXCEPT !.defs[i].primary = v]
          \/ mod.defs[i].kind = "alt" /\ mod' = [mod EXCEPT !.defs[i].secondary = v]
    \/ \E rate \in Rates : mod' = [mod EXCEPT !.rate = rate]

-----------------------------------------------------------------------------

LatchInit ==
    /\ \/ which = "bools" /\ BoolsInit
       \/ which = "decoder" /\ DecoderInit
       \/ which = "statues" /\ StatuesInit
       \/ which = "segment" /\ SegmentInit
    /\ shown = [value |-> IF which = "statues" THEN mod.slots
                          ELSE IF which = "segment" THEN 0 ELSE {},
                held |-> FALSE]

LatchTick ==
    \/ which = "bools" /\ \E g \in BOOLEAN : BoolsTick(g)
    \/ which = "decoder" /\ DecoderTick
    \/ which = "statues" /\ \E state \in Addresses \cup {-1} : StatuesTick(state)
    \/ which = "segment" /\ SegmentTick

LatchUpdate ==
    /\ \/ which = "bools" /\ BoolsUpdate
       \/ which = "decoder" /\ DecoderUpdate
       \/ which = "statues" /\ StatuesUpdate
       \/ which = "segment" /\ SegmentUpdate
    /\ UNCHANGED shown

LatchNext == (LatchTick \/ LatchUpdate) /\ UNCHANGED which

LatchSpec == LatchInit /\ [][LatchNext]_latchVars

-----------------------------------------------------------------------------

Between(v, a, b) == (a <= v /\ v <= b) \/ (b <= v /\ v <= a)

\* tick() has latched: a rising edge of the sample gate or an armed pulse.
Latched ==
    CASE which = "bools"   -> mod.pending \/ (mod'.prev /\ ~mod.prev)
      [] which = "decoder" -> mod.pending
      [] OTHER             -> FALSE

\* What a step may do to a value that is held.
HeldStep ==
    /\ which \in {"bools", "decoder"} /\ shown.held /\ shown'.held /\ ~Latched
          => shown'.value = shown.value
    /\ which = "statues" /\ mod' # mod =>
          \A a \in Addresses : a # mod'.prev => shown'.value[a] = shown.value[a]
    /\ which = "segment" /\ mod'.cur # mod.cur =>
          \/ mod'.defs[mod'.cur + 1].kind \in {"step", "alt"}
          \/ shown'.held /\ shown'.value = shown.value
          \/ Between(shown'.value, shown.value, mod'.defs[mod'.cur + 1].primary)
    /\ which = "segment" /\ shown'.held => shown'.value = shown.value

(* A value that is held changes only when it is latched anew: between two edges of
   its clock bools-ring and the decoder show what they showed before, whatever their
   inputs do, statues changes no slot but the addressed one, and a hold segment
   leaves the output where it was.  A ramp starts there too: its first value lies
   between the last one and its target. *)
HeldValues == [][HeldStep]_latchVars

Rings == [mode : Logic, inputs : [0 .. 3 -> BOOLEAN], sampled : BOOLEAN, prev : BOOLEAN,
          pending : BOOLEAN, latched : SUBSET (0 .. 3)]
Decoders == [span : -Half .. Half, space : 0 .. 2, clocked : BOOLEAN, pending : BOOLEAN,
             latched : SUBSET (0 .. Channels - 1)]
Pointers == Addresses \cup {-1, 0}
Banks == [slots : [Addresses -> {-1, 0, 1}], in : {-1, 0, 1}, addr : Pointers, bits : Pointers,
          useBits : BOOLEAN, patched : BOOLEAN, prev : Pointers]
Generators == [defs : Seq(Definitions), rate : Rates, phase : 0 .. Full - 1, cur : Nat,
               odd : BOOLEAN, start : Int, output : Int]

(* Why HeldValues holds: what was shown is still what the modulator holds, and a hold
   segment shows the value it started from. *)
LatchInv ==
    /\ which \in {"bools", "decoder", "statues", "segment"}
    /\ which = "bools" =>
          mod \in Rings /\ (shown.held => shown.value = mod.latched)
    /\ which = "decoder" =>
          mod \in Decoders /\ (shown.held => shown.value = mod.latched)
    /\ which = "statues" => mod \in Banks /\ shown.value = mod.slots
    /\ which = "segment" =>
          /\ mod \in Generators /\ shown.value = mod.output
          /\ mod.cur < Len(mod.defs)
          /\ mod.defs[mod.cur + 1].kind = "hold" => mod.output = mod.start
================================================================================

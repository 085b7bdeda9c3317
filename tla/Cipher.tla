--------------------------------- MODULE Cipher --------------------------------
(***************************************************************************)
(* Two cipher modulators on one clock, the SERIAL output of the first      *)
(* patched to data1 of the second, as the header proposes: "useful for     *)
(* chaining two cipher instances".  The engine ticks the first before the  *)
(* second, which therefore reads the bit that leaves in the same tick.     *)
(* The clock is ticked before or after both: if it were ticked between     *)
(* them, the second would shift one tick ahead of the bit it is sent.      *)
(* The second is in open mode with data2 low.  Clock edges armed by        *)
(* update() are in PulseInput; the voltages of a pattern are left out.     *)
(***************************************************************************)
EXTENDS Integers

CONSTANT Width   \* bits of a register, 8 in the code

ASSUME WidthAssumption == Width \in Nat \ {0}

VARIABLES
    first, second, \* the modulators
    left,          \* history: the last Width bits that left the first
    frozen         \* history: shifts of the first since its strobe rose

cipherVars == <<first, second, left, frozen>>

\* A register is its bits, bit 0 the one shifted in last.
Bits == 0 .. Width - 1
Zero == [i \in Bits |-> FALSE]

Fresh(data2) ==
    [inner |-> Zero, output |-> Zero, serial |-> FALSE, prev |-> FALSE, data1 |-> FALSE,
     data2 |-> data2, strobe |-> FALSE]

CipherInit ==
    /\ first = Fresh("absent") /\ second = Fresh("low")
    /\ left = Zero /\ frozen = 0

\* (r << 1) | b, cut to the width of the register.
Shift(r, b) == [i \in Bits |-> IF i = 0 THEN b ELSE r[i - 1]]

Edge(c, clk) == clk /\ ~c.prev

\* Open mode, or the feedback loop.
BitIn(c, d1) ==
    IF c.data2 # "absent" THEN d1 \/ c.data2 = "high"
    ELSE c.inner[Width - 1] # c.inner[0] \/ d1

\* Mutant: SERIAL keeps its level between two clock edges.
TickedHeld(c, clk, d1) ==
    LET inner == IF Edge(c, clk) THEN Shift(c.inner, BitIn(c, d1)) ELSE c.inner
    IN  [c EXCEPT !.inner = inner, !.output = IF c.strobe THEN @ ELSE inner,
                  !.serial = inner[Width - 1],
                  !.prev = clk]

\* tick() of a modulator whose clock input reads clk and whose data1 reads d1.
Ticked(c, clk, d1) ==
    LET inner == IF Edge(c, clk) THEN Shift(c.inner, BitIn(c, d1)) ELSE c.inner
    IN  [c EXCEPT !.inner = inner, !.output = IF c.strobe THEN @ ELSE inner,
                  !.serial = Edge(c, clk) /\ c.inner[Width - 1],
                  !.prev = clk]

\* One tick of the engine.
CipherTick(clk) ==
    /\ first' = Ticked(first, clk, first.data1)
    /\ second' = Ticked(second, clk, first'.serial)
    /\ left' = IF Edge(first, clk) THEN Shift(left, first.inner[Width - 1]) ELSE left
    /\ frozen' = IF ~first.strobe THEN 0
                 ELSE IF Edge(first, clk) /\ frozen < Width THEN frozen + 1 ELSE frozen

\* update() of the first; "data2_enable" sets data2 to low or to absent.
CipherUpdate ==
    /\ \/ \E b \in BOOLEAN : first' = [first EXCEPT !.data1 = b]
       \/ \E d \in {"absent", "low", "high"} : first' = [first EXCEPT !.data2 = d]
       \/ \E b \in BOOLEAN : first' = [first EXCEPT !.strobe = b]
    /\ UNCHANGED <<second, left, frozen>>

CipherNext == (\E clk \in BOOLEAN : CipherTick(clk)) \/ CipherUpdate

CipherSpec == CipherInit /\ [][CipherNext]_cipherVars

-----------------------------------------------------------------------------

(* Chained, on a clock both see in the same tick, the two registers are one of twice the
   width: the second holds the bits that left the first.  While STROBE is high the output shows the pattern as it was
   when it rose, which the bits still in the internal register confirm. *)
CipherPattern ==
    /\ second.inner = left
    /\ \A i \in frozen .. Width - 1 : first.inner[i] = first.output[i - frozen]

Registers ==
    [inner : [Bits -> BOOLEAN], output : [Bits -> BOOLEAN], serial : BOOLEAN, prev : BOOLEAN,
     data1 : BOOLEAN, data2 : {"absent", "low", "high"}, strobe : BOOLEAN]

(* Why CipherPattern holds: the two see the same clock edges, and nothing but what
   the first sends reaches the register of the second. *)
CipherInv ==
    /\ first \in Registers /\ second \in Registers
    /\ left \in [Bits -> BOOLEAN] /\ frozen \in 0 .. Width
    /\ second.prev = first.prev /\ second.data2 = "low"
    /\ CipherPattern
================================================================================

----------------------------- MODULE ShiftRegister -----------------------------
(***************************************************************************)
(* shift_register_modulator: an N-bit register that takes one new bit on   *)
(* every edge of its internal clock, chosen by one of four feedback modes. *)
(*                                                                         *)
(* The register is its bits, bit 0 the one shifted in last.  data_ and     *)
(* param_ are 0, 1 or 2 for 0.0, a half and 1.0: the code only compares    *)
(* them with each other, with 0.5 and with a random number below 1.        *)
(* Whether a tick sees a clock edge depends on rates and is left open; the *)
(* cv output, a weighted sum of the top bits, is left out.                 *)
(***************************************************************************)
EXTENDS Integers, FiniteSets

CONSTANTS
    LfsrLengths,    \* lengths asked for in lfsr mode
    LoopLengths     \* lengths asked for in the other modes

ASSUME LengthsAssumption == LfsrLengths \subseteq Int /\ LoopLengths \subseteq Int

VARIABLES
    mode,       \* mode_
    length,     \* length_
    reg,        \* reg_
    data,       \* data_
    param,      \* param_
    gate,       \* the gate of the last modulator_output
    start,      \* history: the register when its inputs last changed
    since       \* history: clocks since then, modulo Period (up to length in open mode)

shiftVars == <<mode, length, reg, data, param, gate, start, since>>

Modes == {"lfsr", "rungler", "turing", "open"}

Limit(v, lo, hi) == IF v < lo THEN lo ELSE IF v > hi THEN hi ELSE v

\* lfsr_taps, as the set of bits of each mask.
LfsrTaps == <<
    {}, {0, 1}, {1, 2}, {2, 3}, {2, 4}, {4, 5}, {5, 6}, {3, 4, 5, 7}, {4, 8},
    {6, 9}, {8, 10}, {3, 9, 10, 11}, {7, 10, 11, 12}, {1, 11, 12, 13}, {13, 14},
    {3, 12, 14, 15}, {13, 16}, {10, 17}, {13, 16, 17, 18}, {16, 19}, {18, 20},
    {20, 21}, {17, 22}, {16, 21, 22, 23}, {21, 24}, {0, 1, 5, 25}, {0, 1, 4, 26},
    {24, 27}, {26, 28}, {0, 3, 5, 29}, {27, 30}, {0, 1, 21, 31} >>

Places == 0 .. length - 1

\* The bits of 0xACE1.
Seed == {0, 5, 6, 7, 10, 11, 13, 15}

\* The seed, cut to the register; a register of zeroes gets a 1.
Seeded ==
    LET cut == [i \in Places |-> i \in Seed]
    IN  IF \E i \in Places : cut[i] THEN cut ELSE [cut EXCEPT ![0] = TRUE]

ShiftInit ==
    /\ mode \in Modes
    /\ \E n \in IF mode = "lfsr" THEN LfsrLengths ELSE LoopLengths : length = Limit(n, 2, 32)
    /\ reg = Seeded
    /\ data = 1 /\ param = 1 /\ gate = FALSE
    /\ start = reg /\ since = 0

Msb == reg[length - 1]

\* lfsr_new_bit(): the parity of the tapped bits.
LfsrNewBit == Cardinality({i \in LfsrTaps[length] : reg[i]}) % 2 = 1

\* Mutant: a turing register whose bit is flipped unless the draw says so.
NewBitsFlipped ==
    CASE mode = "lfsr"    -> {LfsrNewBit}
      [] mode = "rungler" -> {(data > param) # Msb}
      [] mode = "turing"  -> {b \in BOOLEAN : IF b = Msb THEN param > 0 ELSE param < 2}
      [] mode = "open"    -> {data > 1}

\* The bits that may enter; next_random() is in [0, 1).
NewBits ==
    CASE mode = "lfsr"    -> {LfsrNewBit}
      [] mode = "rungler" -> {(data > param) # Msb}
      [] mode = "turing"  -> {b \in BOOLEAN : IF b # Msb THEN param > 0 ELSE param < 2}
      [] mode = "open"    -> {data > 1}

\* ((reg << 1) | b) & mask
Pushed(r, b) == [i \in Places |-> IF i = 0 THEN b ELSE r[i - 1]]

\* History: after how many clocks a register with constant inputs is to be back
\* where it was, and 1 if random bits enter.  In open mode it is filled with data.
Inverting == (mode = "rungler" /\ data > param) \/ (mode = "turing" /\ param = 2)
Rotating  == (mode = "rungler" /\ data <= param) \/ (mode = "turing" /\ param = 0)
Period ==
    CASE mode = "lfsr" -> 2^length - 1
      [] Inverting     -> 2 * length
      [] Rotating      -> length
      [] OTHER         -> 1
Elapsed == IF mode = "open" THEN Limit(since + 1, 0, length)
           ELSE IF since + 1 = Period THEN 0 ELSE since + 1

\* tick() without a clock edge, or with no tick rate.
ShiftHold ==
    /\ gate' = FALSE
    /\ UNCHANGED <<mode, length, reg, data, param, start, since>>

\* tick() on a clock edge.
ShiftClock ==
    /\ \E b \in NewBits : reg' = Pushed(reg, b) /\ gate' = b
    /\ since' = Elapsed
    /\ start' = IF mode = "turing" /\ param = 1 THEN reg' ELSE start
    /\ UNCHANGED <<mode, length, data, param>>

\* update("data", v), update("param", v).  lfsr mode reads neither.
Anew ==
    /\ start' = IF mode = "lfsr" THEN start ELSE reg
    /\ since' = IF mode = "lfsr" THEN since ELSE 0

UpdateData(v) ==
    /\ data' = Limit(v, 0, 2) /\ Anew
    /\ UNCHANGED <<mode, length, reg, param, gate>>

UpdateParam(v) ==
    /\ param' = Limit(v, 0, 2) /\ Anew
    /\ UNCHANGED <<mode, length, reg, data, gate>>

ShiftNext == ShiftHold \/ ShiftClock \/ \E v \in -1 .. 3 : UpdateData(v) \/ UpdateParam(v)

ShiftSpec == ShiftInit /\ [][ShiftNext]_shiftVars

-----------------------------------------------------------------------------

(* "frozen loop": a register whose feedback copies the top bit is back where it was
   after N clocks, and one whose feedback inverts it (turing at param 1, rungler with
   data above param) after 2N, its complement after N: turing at param 1 is as regular
   as at 0, and not random (TuringAtOneIsRandom).  In open mode N clocks replace the
   whole register.  "LFSR must be non-zero to produce any sequence", and it stays so. *)
LoopPeriod ==
    /\ mode # "lfsr" /\ since = 0 => reg = start
    /\ Inverting /\ since = length => \A i \in Places : reg[i] = ~start[i]
    /\ mode = "open" /\ since = length => \A i \in Places : reg[i] = (data > 1)
    /\ mode = "lfsr" => \E i \in Places : reg[i]

(* shift_register_modulator.hpp: "param=1 -> random": at full probability either bit may
   enter a turing register. *)
TuringAtOneIsRandom == mode = "turing" /\ param = 2 => NewBits = BOOLEAN

\* Why LoopPeriod holds: what bit i is `since` clocks after the inputs changed, when
\* the feedback copies the top bit, inverts it, or ignores it.
Copied(i)   == IF i < since THEN start[length + i - since] ELSE start[i - since]
Inverted(i) == IF i < since - length THEN start[2 * length + i - since]
               ELSE IF i < since THEN ~start[length + i - since]
               ELSE start[i - since]
Filled(i)   == IF i < since THEN data > 1 ELSE start[i - since]

ShiftInv ==
    /\ mode \in Modes /\ length \in 2 .. 32
    /\ reg \in [Places -> BOOLEAN] /\ start \in [Places -> BOOLEAN]
    /\ data \in 0 .. 2 /\ param \in 0 .. 2 /\ gate \in BOOLEAN /\ since \in Nat
    /\ mode = "lfsr" => \E i \in Places : reg[i]
    /\ mode = "open" => since <= length /\ \A i \in Places : reg[i] = Filled(i)
    /\ Rotating => since < length /\ \A i \in Places : reg[i] = Copied(i)
    /\ Inverting => since < 2 * length /\ \A i \in Places : reg[i] = Inverted(i)
    /\ mode = "turing" /\ param = 1 => since = 0 /\ reg = start
================================================================================

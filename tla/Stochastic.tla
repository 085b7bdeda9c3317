------------------------------- MODULE Stochastic -------------------------------
(***************************************************************************)
(* stochastic_modulator: random (gate, cv) pairs kept in a loop buffer and *)
(* replayed according to deja_vu.                                          *)
(*                                                                         *)
(* A pair is the number of the event that generated it; the pairs the      *)
(* constructor seeds the buffer with have numbers up to 0.  deja_vu_ is    *)
(* counted in quarters.  When events come (rate, jitter) and which values  *)
(* are drawn (bias, spread, steps) is left open.                           *)
(***************************************************************************)
EXTENDS Integers, Sequences

CONSTANTS
    kMaxLength,     \* kMaxLength
    DefaultLength,  \* initial value of length_
    MaxPairs        \* bound: pairs generated

ASSUME StochasticAssumption ==
    /\ kMaxLength \in Nat \ {0} /\ DefaultLength \in 1 .. kMaxLength
    /\ MaxPairs \in Nat

VARIABLES
    buf,        \* cv_buf_ and gate_buf_
    writePos,   \* write_pos_
    readPos,    \* read_pos_
    loop,       \* length_
    dejaVu,     \* deja_vu_
    pairs,      \* pairs generated so far
    held,       \* the pair behind cv_out_
    fired,      \* the last tick() was an event
    recent,     \* history: the pairs output since deja_vu or length was updated
    mark        \* history: `pairs` at that update

stochasticVars == <<buf, writePos, readPos, loop, dejaVu, pairs, held, fired, recent, mark>>

ClampTo(v, lo, hi) == IF v < lo THEN lo ELSE IF v > hi THEN hi ELSE v

StochasticInit ==
    /\ buf = [i \in 0 .. kMaxLength - 1 |-> i - kMaxLength + 1]
    /\ writePos = 0 /\ readPos = 0 /\ loop = DefaultLength /\ dejaVu = 0
    /\ pairs = 0 /\ held = -kMaxLength /\ fired = FALSE
    /\ recent = << >> /\ mark = 0

\* next_rand() < p, for a probability p: next_rand() is in [0, 1).
Draws(never, always) == IF always THEN {TRUE} ELSE IF never THEN {FALSE} ELSE BOOLEAN
Replays == Draws(dejaVu = 0, dejaVu >= 2)
Freezes == Draws(dejaVu <= 2, dejaVu = 4)

\* tick() before the next event is due, or with no tick rate.
StochasticHold ==
    /\ fired' = FALSE
    /\ UNCHANGED <<buf, writePos, readPos, loop, dejaVu, pairs, held, recent, mark>>

\* History: enough of the outputs to see two laps of the loop.
Remember(q, p) == LET s == Append(q, p) IN
                  IF Len(s) > 2 * kMaxLength + 1 THEN Tail(s) ELSE s

\* Mutant: the loop is always kMaxLength long for the writer.
TickEventWholeBuffer ==
    \E replay \in Replays, freeze \in Freezes :
        /\ ~replay => pairs < MaxPairs
        /\ buf' = IF replay THEN buf ELSE [buf EXCEPT ![writePos] = pairs + 1]
        /\ writePos' = IF replay THEN writePos ELSE (writePos + 1) % kMaxLength
        /\ pairs' = IF replay THEN pairs ELSE pairs + 1
        /\ held' = buf'[readPos]
        /\ readPos' = IF freeze THEN readPos ELSE (readPos + 1) % loop
        /\ fired' = TRUE
        /\ recent' = Remember(recent, held')
        /\ UNCHANGED <<loop, dejaVu, mark>>

\* tick() on an event.
TickEvent ==
    \E replay \in Replays, freeze \in Freezes :
        /\ ~replay => pairs < MaxPairs
        /\ buf' = IF replay THEN buf ELSE [buf EXCEPT ![writePos] = pairs + 1]
        /\ writePos' = IF replay THEN writePos ELSE (writePos + 1) % loop
        /\ pairs' = IF replay THEN pairs ELSE pairs + 1
        /\ held' = buf'[readPos]
        /\ readPos' = IF freeze THEN readPos ELSE (readPos + 1) % loop
        /\ fired' = TRUE
        /\ recent' = Remember(recent, held')
        /\ UNCHANGED <<loop, dejaVu, mark>>

Restart == recent' = << >> /\ mark' = pairs

\* update("length", v): the positions are left where they are.
UpdateLength(v) ==
    /\ loop' = ClampTo(v, 1, kMaxLength) /\ Restart
    /\ UNCHANGED <<buf, writePos, readPos, dejaVu, pairs, held, fired>>

\* update("deja_vu", v)
UpdateDejaVu(v) ==
    /\ dejaVu' = ClampTo(v, 0, 4) /\ Restart
    /\ UNCHANGED <<buf, writePos, readPos, loop, pairs, held, fired>>

StochasticNext ==
    \/ StochasticHold \/ TickEvent
    \/ \E v \in 0 .. kMaxLength + 1 : UpdateLength(v)
    \/ \E v \in -1 .. 5 : UpdateDejaVu(v)

StochasticSpec == StochasticInit /\ [][StochasticNext]_stochasticVars

(* The deja-vu settings do what they say, whatever lengths and settings came
   before.  "frozen" repeats one pair.  A "locked loop" repeats itself every
   `length` events; the first event may lie outside it, because a shorter length
   leaves the read position where it was.  "always generate new; loop never
   replays" holds after that event and one lap: only pairs generated under this
   setting are output, each once and in the order they were generated. *)
DejaVuSettings ==
    LET n == Len(recent) IN
    /\ dejaVu = 2 /\ n > loop + 1 => recent[n] = recent[n - loop]
    /\ dejaVu = 4 /\ n > 1 => recent[n] = recent[n - 1]
    /\ dejaVu = 0 /\ n > loop + 1 =>
          recent[n] > mark /\ (n > loop + 2 => recent[n] > recent[n - 1])
    /\ readPos < kMaxLength /\ writePos < kMaxLength

\* The position j steps before p in the loop.
Back(p, j) == IF j <= p THEN p - j ELSE p - j + loop

(* Why DejaVuSettings holds.  After one event both positions are in the loop.  Then a
   locked loop has output what lies behind the read position, for up to one lap, and
   under "always generate new" the pairs behind the write position are the youngest,
   in the order they were generated. *)
StochasticInv ==
    LET n == Len(recent) IN
    /\ buf \in [0 .. kMaxLength - 1 -> Int]
    /\ writePos \in 0 .. kMaxLength - 1 /\ readPos \in 0 .. kMaxLength - 1
    /\ loop \in 1 .. kMaxLength /\ dejaVu \in 0 .. 4
    /\ pairs \in Nat /\ mark \in Nat /\ held \in Int /\ fired \in BOOLEAN
    /\ recent \in Seq(Int) /\ n <= 2 * kMaxLength + 1
    /\ dejaVu \in {0, 2} /\ n > 0 => readPos < loop
    /\ dejaVu = 0 /\ n > 0 => writePos < loop
    /\ dejaVu = 4 /\ n > 0 => recent[n] = buf[readPos]
    /\ dejaVu = 2 => \A j \in 1 .. loop : j < n => recent[n + 1 - j] = buf[Back(readPos, j)]
    /\ dejaVu = 0 =>
          /\ mark + n <= pairs
          /\ n > 1 => recent[n] = buf[Back(readPos, 1)]
          /\ \A j \in 1 .. loop : j < n => buf[Back(writePos, j)] = pairs + 1 - j
    /\ DejaVuSettings
================================================================================

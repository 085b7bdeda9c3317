----------------------------- MODULE ModulatorProofs ----------------------------
(***************************************************************************)
(* Proofs about the modulators that count, generate, loop or hold.         *)
(*                                                                         *)
(* One-shot inputs, for any set of modulators of the three kinds and any   *)
(* number of update() calls: which pulses are kept, and that none counts   *)
(* twice.  divine-cmos and squid-axon on one clock, for any range of       *)
(* voltages.  Envelopes of slew_modulator for any number of levels, and    *)
(* loops of stochastic_modulator for buffers of any length.  Modulators    *)
(* that hold a value, for any segments, channels and levels.               *)
(***************************************************************************)
EXTENDS PulseInput, ClockPatch, SlewGenerator, Stochastic, Latches, TLAPS

-----------------------------------------------------------------------------
(* One-shot inputs                                                         *)

\* PulseInv, for one modulator.
Sound(m) ==
    /\ tpc[m] = "clear" /\ StyleOf[m] # "ClearAlways" => edge[m] /\ pending[m]
    /\ tpc[m] = "clear" /\ edge[m] => pending[m]
    /\ tpc[m] = "act" /\ StyleOf[m] # "ClearAlways" => edge[m]
    /\ tpc[m] = "act" /\ StyleOf[m] = "ClearLast" => pending[m]
    /\ tpc[m] = "clear" /\ owed[m] /\ ~late[m] => edge[m] /\ StyleOf[m] # "ClearLast"
    /\ owed[m] => pending[m] \/ late[m] \/ (tpc[m] = "act" /\ edge[m])
    /\ late[m] => StyleOf[m] # "ClearFirst"
    /\ acts[m] + Due(m) <= arms[m]

\* The initial state satisfies the invariant.
LEMMA PulseInitInv == Init => PulseInv
BY PulseAssumption DEF Init, PulseInv, TypeOK, Pulse, Due

\* A step leaves what is said of the other modulators alone.
LEMMA OthersSound ==
    ASSUME PulseInv, NEW m \in Mods, NEW n \in Mods, n # m,
           Update(m) \/ TickRead(m) \/ TickClear(m) \/ TickAct(m)
    PROVE  Sound(n)'
<1>1. /\ pending'[n] = pending[n] /\ tpc'[n] = tpc[n] /\ edge'[n] = edge[n]
      /\ arms'[n] = arms[n] /\ acts'[n] = acts[n] /\ owed'[n] = owed[n] /\ late'[n] = late[n]
  BY Zenon DEF PulseInv, TypeOK, Update, TickRead, TickReadClearAlways, TickReadClearLast,
         TickReadClearFirst, TickClear, TickAct
<1> QED
  BY <1>1 DEF PulseInv, Sound, Due, Pulse

\* Every step preserves the typing.
LEMMA PulseTyping ==
    ASSUME PulseInv, NEW m \in Mods,
           Update(m) \/ TickRead(m) \/ TickClear(m) \/ TickAct(m)
    PROVE  TypeOK'
<1> USE PulseAssumption DEF PulseInv, TypeOK
<1>1. CASE Update(m)
  BY <1>1 DEF Update, Window
<1>2. CASE TickRead(m)
  BY <1>2 DEF TickRead, TickReadClearAlways, TickReadClearLast, TickReadClearFirst
<1>3. CASE TickClear(m)
  BY <1>3 DEF TickClear
<1>4. CASE TickAct(m)
  <2>1. owed' \in [Mods -> BOOLEAN]
    BY <1>4, Zenon DEF TickAct
  <2>2. acts' \in [Mods -> Nat] /\ tpc' \in [Mods -> {"rest", "clear", "act"}]
    BY <1>4 DEF TickAct
  <2> QED
    BY <1>4, <2>1, <2>2, Zenon DEF TickAct
<1> QED
  BY <1>1, <1>2, <1>3, <1>4

\* update() preserves what is said of its modulator.
LEMMA UpdateSound ==
    ASSUME PulseInv, NEW m \in Mods, Update(m)
    PROVE  Sound(m)'
<1>1. /\ pending'[m] /\ owed'[m] /\ arms'[m] = arms[m] + 1
      /\ late'[m] = Window(m)
      /\ tpc'[m] = tpc[m] /\ edge'[m] = edge[m] /\ acts'[m] = acts[m]
  BY DEF Update, PulseInv, TypeOK
<1>2. acts[m] \in Nat /\ arms[m] \in Nat
  BY PulseAssumption DEF PulseInv, TypeOK
<1>3. Due(m)' <= Due(m) + 1
  BY <1>1 DEF Due, Pulse
<1>4. Due(m) \in 0 .. 2 /\ Due(m)' \in 0 .. 2
  BY DEF Due, Pulse
<1>5. (acts[m] + Due(m) <= arms[m])'
  BY <1>1, <1>2, <1>3, <1>4 DEF PulseInv
<1> QED
  BY <1>1, <1>5, Zenon DEF PulseInv, Sound, Window

\* So does each step of its tick().
LEMMA TickSound ==
    ASSUME PulseInv, NEW m \in Mods, TickRead(m) \/ TickClear(m) \/ TickAct(m)
    PROVE  Sound(m)'
<1>0. /\ acts[m] \in Nat /\ arms[m] \in Nat /\ StyleOf[m] \in Styles
      /\ pending[m] \in BOOLEAN /\ edge[m] \in BOOLEAN
      /\ owed[m] \in BOOLEAN /\ late[m] \in BOOLEAN
  BY PulseAssumption DEF PulseInv, TypeOK
<1>1. CASE TickRead(m)
  <2>1. /\ tpc[m] = "rest" /\ edge'[m] = pending[m] /\ pending'[m] = pending[m]
        /\ arms'[m] = arms[m] /\ acts'[m] = acts[m] /\ owed'[m] = owed[m] /\ late'[m] = late[m]
    BY <1>1 DEF TickRead, AtRest, PulseInv, TypeOK
  <2>2. tpc'[m] = CASE StyleOf[m] = "ClearAlways" -> "clear"
                    [] StyleOf[m] = "ClearLast"   -> IF pending[m] THEN "act" ELSE "rest"
                    [] StyleOf[m] = "ClearFirst"  -> IF pending[m] THEN "clear" ELSE "rest"
    BY <1>1 DEF TickRead, TickReadClearAlways, TickReadClearLast, TickReadClearFirst,
                PulseInv, TypeOK
  <2>3. Due(m)' = Due(m)
    BY <1>0, <2>1, <2>2 DEF Due, Pulse, Styles
  <2> QED
    BY <1>0, <2>1, <2>2, <2>3 DEF PulseInv, Sound, Styles
<1>2. CASE TickClear(m)
  <2>1. /\ tpc[m] = "clear" /\ ~pending'[m] /\ edge'[m] = edge[m]
        /\ tpc'[m] = IF StyleOf[m] = "ClearLast" THEN "rest" ELSE "act"
        /\ arms'[m] = arms[m] /\ acts'[m] = acts[m] /\ owed'[m] = owed[m] /\ late'[m] = late[m]
    BY <1>2 DEF TickClear, PulseInv, TypeOK
  <2>2. Due(m)' <= Due(m)
    BY <1>0, <2>1 DEF Due, Pulse, PulseInv
  <2>3. Due(m) \in 0 .. 2 /\ Due(m)' \in 0 .. 2
    BY DEF Due, Pulse
  <2>4. acts'[m] + Due(m)' <= arms'[m]
    BY <1>0, <2>1, <2>2, <2>3 DEF PulseInv
  <2> QED
    BY <1>0, <2>1, <2>4 DEF PulseInv, Sound, Styles
<1>3. CASE TickAct(m)
  <2>1. /\ tpc[m] = "act" /\ edge'[m] = edge[m] /\ pending'[m] = pending[m]
        /\ tpc'[m] = IF StyleOf[m] = "ClearLast" THEN "clear" ELSE "rest"
        /\ acts'[m] = IF edge[m] THEN acts[m] + 1 ELSE acts[m]
        /\ owed'[m] = IF edge[m] THEN FALSE ELSE owed[m]
        /\ arms'[m] = arms[m] /\ late'[m] = late[m]
    BY <1>3 DEF TickAct, PulseInv, TypeOK
  <2>2. acts'[m] + Due(m)' = acts[m] + Due(m)
    BY <1>0, <2>1 DEF Due, Pulse, PulseInv
  <2> QED
    BY <1>0, <2>1, <2>2 DEF PulseInv, Sound, Styles
<1> QED
  BY <1>1, <1>2, <1>3

\* Every step preserves the invariant.
LEMMA PulseStep ==
    ASSUME PulseInv, [Next]_vars
    PROVE  PulseInv'
<1>1. CASE UNCHANGED vars
  BY <1>1 DEF PulseInv, TypeOK, Pulse, Due, vars
<1>2. ASSUME NEW m \in Mods, Update(m) \/ TickRead(m) \/ TickClear(m) \/ TickAct(m)
      PROVE  PulseInv'
  <2>1. Sound(m)'
    BY <1>2, UpdateSound, TickSound
  <2>2. \A n \in Mods : n # m => Sound(n)'
    BY <1>2, OthersSound
  <2>3. TypeOK'
    BY <1>2, PulseTyping
  <2> QED
    BY <2>1, <2>2, <2>3 DEF PulseInv, Sound
<1> QED
  BY <1>1, <1>2 DEF Next

(* The invariant behind the one-shot inputs, whichever way tick() consumes them. *)
THEOREM PulseInvariance == Spec => []PulseInv
BY PulseInitInv, PulseStep, PTL DEF Spec

(* A pulse is lost only in the window between tick()'s look at the flag and its
   clearing it. *)
THEOREM PulseKept == Spec => []PulseIsKept
<1>1. PulseInv => PulseIsKept
  BY DEF PulseInv, PulseIsKept
<1> QED
  BY <1>1, PulseInvariance, PTL

(* An update() never causes two actions. *)
THEOREM PulseOnce == Spec => []PulseIsOneShot
<1>1. PulseInv => PulseIsOneShot
  BY DEF PulseInv, PulseIsOneShot, Due, Pulse
<1> QED
  BY <1>1, PulseInvariance, PTL

(* slew's trigger is never lost: at rest, one not acted upon is still pending. *)
THEOREM SlewKeepsTriggers ==
    Spec => [](\A m \in Mods : StyleOf[m] = "ClearFirst" /\ tpc[m] = "rest" /\ owed[m]
                                  => pending[m])
<1>1. PulseInv => \A m \in Mods : StyleOf[m] = "ClearFirst" /\ tpc[m] = "rest" /\ owed[m]
                                     => pending[m]
  BY DEF PulseInv
<1> QED
  BY <1>1, PulseInvariance, PTL

-----------------------------------------------------------------------------
(* Modulators patched to one clock                                         *)

Divines == [prev : BOOLEAN, counter1 : 0 .. 15, counter2 : 0 .. 15, pending2 : BOOLEAN,
            xor : 0 .. 15]
Pipelines == [0 .. 3 -> 0 .. Volt]
Squids == [prev : BOOLEAN, stages : Pipelines, counter : 0 .. 3, patched : BOOLEAN]

\* The division gates are all low exactly when the two counts are the same.
LEMMA XorCancels ==
    ASSUME NEW m \in 0 .. 15, NEW n \in 0 .. 15
    PROVE  /\ Xor(m, n) \in 0 .. 15
           /\ Xor(m, n) = 0 <=> m = n
<1>1. 2^0 = 1 /\ 2^1 = 2 /\ 2^2 = 4 /\ 2^3 = 8
  OBVIOUS
<1>2. QED
  BY <1>1 DEF Xor, Bit

\* What is shifted into the pipeline is a voltage, whatever is added to the mix.
LEMMA MixType ==
    ASSUME NEW s \in Squids, NEW in \in Int
    PROVE  /\ Mix(s, in) \in 0 .. Volt
           /\ ~s.patched => Mix(s, 0) = s.stages[3]
<1>1. s.stages[3] \in 0 .. Volt /\ s.patched \in BOOLEAN
  BY DEF Squids, Pipelines
<1>2. QED
  BY <1>1, VoltAssumption DEF Mix, Clamp

LEMMA AdvanceType ==
    ASSUME NEW p \in Pipelines, NEW v \in 0 .. Volt
    PROVE  /\ Advance(p, v) \in Pipelines
           /\ Advance(p, v)[0] = v /\ Advance(p, v)[1] = p[0]
           /\ Advance(p, v)[2] = p[1] /\ Advance(p, v)[3] = p[2]
<1>1. \A i \in 0 .. 3 : i # 0 => i - 1 \in 0 .. 3
  OBVIOUS
<1>2. QED
  BY <1>1 DEF Advance, Pipelines

\* One clock of a pipeline that nothing is patched to.
LEMMA OneClock ==
    ASSUME NEW s \in Squids, ~s.patched,
           NEW t, t = [s EXCEPT !.stages = Advance(@, Mix(s, 0))]
    PROVE  /\ t \in Squids /\ ~t.patched
           /\ t.stages[0] = s.stages[3] /\ t.stages[1] = s.stages[0]
           /\ t.stages[2] = s.stages[1] /\ t.stages[3] = s.stages[2]
<1>1. s.stages \in Pipelines /\ s.patched \in BOOLEAN
  BY DEF Squids
<1>2. Mix(s, 0) = s.stages[3] /\ Mix(s, 0) \in 0 .. Volt
  BY MixType
<1> DEFINE p == Advance(s.stages, Mix(s, 0))
<1>3. /\ p \in Pipelines /\ p[0] = s.stages[3] /\ p[1] = s.stages[0]
      /\ p[2] = s.stages[1] /\ p[3] = s.stages[2]
  BY <1>1, <1>2, AdvanceType
<1>4. t = [s EXCEPT !.stages = p]
  OBVIOUS
<1> HIDE DEF p
<1>5. t \in Squids /\ t.patched = s.patched /\ t.stages = p
  BY <1>3, <1>4 DEF Squids
<1>6. QED
  BY <1>3, <1>5

\* Left alone, the pipeline comes round after four clocks.
LEMMA ComesRound ==
    ASSUME NEW s \in Squids
    PROVE  FourClocks(s).stages = s.stages
<1> DEFINE n(t) == [t EXCEPT !.stages = Advance(@, Mix(t, 0))]
           s0 == [s EXCEPT !.patched = FALSE]
           s1 == n(s0)
           s2 == n(s1)
           s3 == n(s2)
           s4 == n(s3)
<1>1. FourClocks(s) = s4
  BY DEF FourClocks
<1>2. s0 \in Squids /\ ~s0.patched /\ s0.stages = s.stages
  BY Zenon DEF Squids
<1> HIDE DEF s0
<1>3. /\ s1 \in Squids /\ ~s1.patched
      /\ s1.stages[0] = s0.stages[3] /\ s1.stages[1] = s0.stages[0]
      /\ s1.stages[2] = s0.stages[1] /\ s1.stages[3] = s0.stages[2]
  BY <1>2, OneClock, Zenon
<1> HIDE DEF s1
<1>4. /\ s2 \in Squids /\ ~s2.patched
      /\ s2.stages[0] = s1.stages[3] /\ s2.stages[1] = s1.stages[0]
      /\ s2.stages[2] = s1.stages[1] /\ s2.stages[3] = s1.stages[2]
  BY <1>3, OneClock, Zenon
<1> HIDE DEF s2
<1>5. /\ s3 \in Squids /\ ~s3.patched
      /\ s3.stages[0] = s2.stages[3] /\ s3.stages[1] = s2.stages[0]
      /\ s3.stages[2] = s2.stages[1] /\ s3.stages[3] = s2.stages[2]
  BY <1>4, OneClock, Zenon
<1> HIDE DEF s3
<1>6. /\ s4 \in Squids
      /\ s4.stages[0] = s3.stages[3] /\ s4.stages[1] = s3.stages[0]
      /\ s4.stages[2] = s3.stages[1] /\ s4.stages[3] = s3.stages[2]
  BY <1>5, OneClock, Zenon
<1> HIDE DEF s4
<1>7. /\ s4.stages[0] = s.stages[0] /\ s4.stages[1] = s.stages[1]
      /\ s4.stages[2] = s.stages[2] /\ s4.stages[3] = s.stages[3]
  BY <1>2, <1>3, <1>4, <1>5, <1>6, Zenon
<1>8. s4.stages \in Pipelines /\ s.stages \in Pipelines
  BY <1>6 DEF Squids
<1>9. \A i \in 0 .. 3 : i = 0 \/ i = 1 \/ i = 2 \/ i = 3
  OBVIOUS
<1>10. \A i \in 0 .. 3 : s4.stages[i] = s.stages[i]
  BY <1>7, <1>9
<1>11. s4.stages = s.stages
  BY <1>8, <1>10 DEF Pipelines
<1>12. QED
  BY <1>1, <1>11

\* What a tick that finds the clock at l and saw it at p before makes of a count c modulo n.
Count(c, l, p, n) == IF l /\ ~p THEN (c + 1) % n ELSE c

\* One tick of divine-cmos, which sees the entry e of the clock.
LEMMA DivineCounts ==
    ASSUME NEW d \in Divines, NEW e \in Entries, ~e.present => ~d.prev,
           NEW t, t = DivineTicked(d, e)
    PROVE  /\ t \in Divines /\ t.prev = Level(e)
           /\ t.counter1 = Count(d.counter1, Level(e), d.prev, 16)
           /\ t.xor = 0 <=> t.counter1 = t.counter2
<1>1. /\ d.prev \in BOOLEAN /\ d.counter1 \in 0 .. 15 /\ d.counter2 \in 0 .. 15
      /\ d.pending2 \in BOOLEAN
  BY DEF Divines
<1>2. e.present \in BOOLEAN /\ e.gate \in BOOLEAN
  BY DEF Entries
<1> DEFINE gate == IF e.present THEN e.gate ELSE d.prev
           c1   == IF gate /\ ~d.prev THEN (d.counter1 + 1) % 16 ELSE d.counter1
           c2   == IF d.pending2 THEN (d.counter2 + 1) % 16 ELSE d.counter2
<1>3. gate \in BOOLEAN /\ gate = Level(e)
  BY <1>1, <1>2 DEF Level
<1>4. t = [prev |-> gate, counter1 |-> c1, counter2 |-> c2, pending2 |-> FALSE, xor |-> Xor(c1, c2)]
  BY Zenon DEF DivineTicked
<1>5. c1 \in 0 .. 15 /\ c2 \in 0 .. 15
  BY <1>1
<1>6. c1 = Count(d.counter1, Level(e), d.prev, 16)
  BY <1>3, Zenon DEF Count
<1> HIDE DEF gate, c1, c2
<1>7. Xor(c1, c2) \in 0 .. 15 /\ (Xor(c1, c2) = 0 <=> c1 = c2)
  BY <1>5, XorCancels
<1>8. t \in Divines
  BY <1>3, <1>4, <1>5, <1>7 DEF Divines
<1>9. t.prev = gate /\ t.counter1 = c1 /\ t.counter2 = c2 /\ t.xor = Xor(c1, c2)
  BY <1>4
<1>10. QED
  BY <1>3, <1>6, <1>7, <1>8, <1>9, Zenon

\* One tick of squid-axon.
LEMMA SquidCounts ==
    ASSUME NEW s \in Squids, NEW e \in Entries, NEW in \in Int,
           NEW t, t = SquidTicked(s, e, in)
    PROVE  /\ t \in Squids /\ t.prev = Level(e)
           /\ t.counter = Count(s.counter, Level(e), s.prev, 4)
<1>1. /\ s.prev \in BOOLEAN /\ s.stages \in Pipelines /\ s.counter \in 0 .. 3
      /\ s.patched \in BOOLEAN
  BY DEF Squids
<1>2. e.present \in BOOLEAN /\ e.gate \in BOOLEAN
  BY DEF Entries
<1> DEFINE clk == e.present /\ e.gate
           p   == IF clk /\ ~s.prev THEN Advance(s.stages, Mix(s, in)) ELSE s.stages
           c   == IF clk /\ ~s.prev THEN (s.counter + 1) % 4 ELSE s.counter
<1>3. clk \in BOOLEAN /\ clk = Level(e)
  BY <1>2 DEF Level
<1>4. t = [prev |-> clk, stages |-> p, counter |-> c, patched |-> s.patched]
  BY Zenon DEF SquidTicked, Squids
<1>5. Mix(s, in) \in 0 .. Volt
  BY MixType
<1>6. p \in Pipelines
  BY <1>1, <1>5, AdvanceType
<1>7. c \in 0 .. 3
  BY <1>1
<1>8. c = Count(s.counter, Level(e), s.prev, 4)
  BY <1>3, Zenon DEF Count
<1> HIDE DEF clk, p, c
<1>9. t \in Squids
  BY <1>1, <1>3, <1>4, <1>6, <1>7 DEF Squids
<1>10. t.prev = clk /\ t.counter = c
  BY <1>4
<1>11. QED
  BY <1>3, <1>8, <1>9, <1>10, Zenon

\* What InStep says of one of the two, with n the modulus of its counter c: l is the level of
\* the clock that is recorded, p the one that was last seen and r the rises.
Keeps(c, p, l, r, n) == (c + IF l /\ ~p THEN 1 ELSE 0) % n = r % n

\* The count of four wraps with the rises.
LEMMA RisesOfFour ==
    ASSUME NEW r \in 0 .. 15
    PROVE  ((r + 1) % 16) % 4 = ((r % 4) + 1) % 4 /\ r % 4 \in 0 .. 3
OBVIOUS

\* One tick of the engine, wherever the clock stands in its table.
LEMMA PatchTickKeeps ==
    ASSUME PatchInv, NEW g \in BOOLEAN, NEW in \in -Volt .. Volt, PatchTick(g, in)
    PROVE  PatchInv'
<1>1. /\ running \in BOOLEAN /\ after \in SUBSET {"divine", "squid"} /\ entry \in Entries
      /\ rises \in 0 .. 15 /\ divine \in Divines /\ squid \in Squids
      /\ ~entry.present => ~divine.prev /\ ~squid.prev
      /\ "divine" \in after => divine.prev = Level(entry)
      /\ "squid" \in after => squid.prev = Level(entry)
  BY DEF PatchInv, InStep, Divines, Squids, Pipelines
<1>2. UNCHANGED <<running, after>>
  BY DEF PatchTick
<1>3. entry' = IF running THEN [present |-> TRUE, gate |-> g] ELSE entry
  BY DEF PatchTick
<1>4. /\ entry' \in Entries /\ (entry.present => entry'.present)
      /\ Level(entry) \in BOOLEAN /\ Level(entry') \in BOOLEAN
  BY <1>1, <1>3 DEF Entries, Level
<1>5. rises' = IF Level(entry') /\ ~Level(entry) THEN (rises + 1) % 16 ELSE rises
  BY DEF PatchTick
<1>6. ~entry'.present => entry' = entry
  BY <1>1, <1>3, Zenon
<1>7. in \in Int
  BY VoltAssumption
<1> DEFINE seenD == IF "divine" \in after THEN entry' ELSE entry
           seenS == IF "squid" \in after THEN entry' ELSE entry
<1>8. /\ seenD \in Entries /\ seenS \in Entries
      /\ Level(seenD) = (IF "divine" \in after THEN Level(entry') ELSE Level(entry))
      /\ Level(seenS) = (IF "squid" \in after THEN Level(entry') ELSE Level(entry))
  BY <1>1, <1>4, Zenon
<1>9. ~seenD.present => ~divine.prev
  BY <1>1, <1>6, Zenon
<1>10. /\ divine' = DivineTicked(divine, seenD)
       /\ squid' = SquidTicked(squid, seenS, in)
  BY Zenon DEF PatchTick
<1>11. ~entry'.present => ~Level(seenD) /\ ~Level(seenS)
  BY <1>6, Zenon DEF Level
<1> HIDE DEF seenD, seenS
<1>12. /\ divine' \in Divines /\ divine'.prev = Level(seenD)
       /\ divine'.counter1 = Count(divine.counter1, Level(seenD), divine.prev, 16)
       /\ divine'.xor = 0 <=> divine'.counter1 = divine'.counter2
  BY <1>1, <1>8, <1>9, <1>10, DivineCounts, Zenon
<1>13. /\ squid' \in Squids /\ squid'.prev = Level(seenS)
       /\ squid'.counter = Count(squid.counter, Level(seenS), squid.prev, 4)
  BY <1>1, <1>7, <1>8, <1>10, SquidCounts, Zenon
<1>14. /\ Keeps(divine'.counter1, divine'.prev, Level(entry'), rises', 16)
       /\ rises' \in 0 .. 15
  <2>1. (divine.counter1 + Unseen(divine)) % 16 = rises /\ rises % 16 = rises
    BY <1>1 DEF PatchInv, InStep
  <2>2. Keeps(divine.counter1, divine.prev, Level(entry), rises, 16)
    BY <2>1, Zenon DEF Unseen, Keeps
  <2>3. /\ divine.counter1 \in 0 .. 16 - 1 /\ divine.prev \in BOOLEAN /\ rises \in 0 .. 15
        /\ 16 \in {4, 16} /\ ("divine" \in after) \in BOOLEAN
        /\ "divine" \in after => divine.prev = Level(entry)
    BY <1>1 DEF Divines
  <2>4. Level(seenD) = (IF "divine" \in after THEN Level(entry') ELSE Level(entry))
    BY <1>8
  <2>5. /\ Keeps(Count(divine.counter1, Level(seenD), divine.prev, 16), Level(seenD), Level(entry'), rises', 16)
        /\ rises' \in 0 .. 15
    BY <1>4, <1>5, <2>2, <2>3, <2>4 DEF Keeps, Count
  <2>6. QED
    BY <1>12, <2>5, Zenon
<1>15. Keeps(squid'.counter, squid'.prev, Level(entry'), rises', 4)
  <2>1. Keeps(squid.counter, squid.prev, Level(entry), rises, 4)
    BY Zenon DEF PatchInv, InStep, Unseen, Keeps
  <2>2. /\ squid.counter \in 0 .. 4 - 1 /\ squid.prev \in BOOLEAN /\ rises \in 0 .. 15
        /\ 4 \in {4, 16} /\ ("squid" \in after) \in BOOLEAN
        /\ "squid" \in after => squid.prev = Level(entry)
    BY <1>1 DEF Squids
  <2>3. Level(seenS) = (IF "squid" \in after THEN Level(entry') ELSE Level(entry))
    BY <1>8
  <2>4. Keeps(Count(squid.counter, Level(seenS), squid.prev, 4), Level(seenS), Level(entry'), rises', 4)
    <3> DEFINE q == rises % 4
    <3>1. rises' % 4 = (IF Level(entry') /\ ~Level(entry) THEN (q + 1) % 4 ELSE q) /\ q \in 0 .. 3
      BY <1>5, <2>2, RisesOfFour
    <3>2. (squid.counter + IF Level(entry) /\ ~squid.prev THEN 1 ELSE 0) % 4 = q
      BY <2>1 DEF Keeps
    <3> HIDE DEF q
    <3>3. QED
      BY <1>4, <2>2, <2>3, <3>1, <3>2 DEF Keeps, Count
  <2>5. QED
    BY <1>13, <2>4, Zenon
<1>16. FourClocks(squid').stages = squid'.stages
  BY <1>13, ComesRound
<1>17. ("divine" \in after' => divine'.prev = Level(entry')) /\ ("squid" \in after' => squid'.prev = Level(entry'))
  BY <1>2, <1>8, <1>12, <1>13
<1>18. (divine'.counter1 + Unseen(divine)') % 16 = rises'
  BY <1>14 DEF Keeps, Unseen, Level
<1>19. (squid'.counter + Unseen(squid)') % 4 = rises' % 4
  BY <1>15 DEF Keeps, Unseen, Level
<1>20. InStep'
  BY <1>12, <1>16, <1>17, <1>18, <1>19, Zenon DEF InStep, Level, FourClocks, Advance, Mix, Clamp
<1>21. ~entry'.present => ~divine'.prev /\ ~squid'.prev
  BY <1>11, <1>12, <1>13, Zenon
<1>22. running' \in BOOLEAN /\ after' \in SUBSET {"divine", "squid"}
  BY <1>1, <1>2
<1>23. QED
  BY <1>4, <1>12, <1>13, <1>14, <1>20, <1>21, <1>22 DEF PatchInv, Divines, Squids, Pipelines

\* start(), stop() and update(), or no step at all, leave the counts, the levels and the entry
\* alone; start() makes the clock the last to be ticked.
LEMMA PatchRestKeeps ==
    ASSUME PatchInv, Stop \/ Start \/ PatchUpdate \/ UNCHANGED patchVars
    PROVE  PatchInv'
<1>1. /\ running \in BOOLEAN /\ after \in SUBSET {"divine", "squid"} /\ entry \in Entries
      /\ rises \in 0 .. 15 /\ divine \in Divines /\ squid \in Squids
      /\ ~entry.present => ~divine.prev /\ ~squid.prev
      /\ "divine" \in after => divine.prev = Level(entry)
      /\ "squid" \in after => squid.prev = Level(entry)
      /\ (divine.counter1 + Unseen(divine)) % 16 = rises
      /\ (squid.counter + Unseen(squid)) % 4 = rises % 4
      /\ divine.xor = 0 <=> divine.counter1 = divine.counter2
  BY DEF PatchInv, InStep, Divines, Squids, Pipelines
<1>2. running' \in BOOLEAN /\ entry' = entry /\ rises' = rises /\ (after' = after \/ after' = {})
  BY <1>1, Zenon DEF Stop, Start, PatchUpdate, patchVars
<1>3. /\ divine' \in Divines /\ squid' \in Squids
      /\ divine'.prev = divine.prev /\ squid'.prev = squid.prev
      /\ divine'.counter1 = divine.counter1 /\ divine'.counter2 = divine.counter2
      /\ divine'.xor = divine.xor /\ squid'.counter = squid.counter
  <2>1. CASE Stop \/ Start \/ UNCHANGED patchVars
    BY <1>1, <2>1 DEF Stop, Start, patchVars
  <2>2. CASE divine' = [divine EXCEPT !.pending2 = TRUE] /\ UNCHANGED squid
    BY <1>1, <2>2, Zenon DEF Divines
  <2>3. CASE squid' = [squid EXCEPT !.patched = ~@] /\ UNCHANGED divine
    BY <1>1, <2>3, Zenon DEF Squids
  <2>4. QED
    BY <2>1, <2>2, <2>3 DEF PatchUpdate
<1>4. FourClocks(squid').stages = squid'.stages
  BY <1>3, ComesRound
<1>5. Unseen(divine)' = Unseen(divine) /\ Unseen(squid)' = Unseen(squid)
  BY <1>2, <1>3, Zenon DEF Unseen, Level
<1>6. after' \in SUBSET {"divine", "squid"} /\ after' \subseteq after
  BY <1>1, <1>2, Zenon
<1>7. ("divine" \in after' => divine'.prev = Level(entry')) /\ ("squid" \in after' => squid'.prev = Level(entry'))
  BY <1>1, <1>2, <1>3, <1>6, Zenon
<1>8. InStep'
  BY <1>1, <1>2, <1>3, <1>4, <1>5, <1>7, Zenon DEF InStep, Level, FourClocks, Advance, Mix, Clamp
<1>9. QED
  BY <1>1, <1>2, <1>3, <1>6, <1>8 DEF PatchInv, Divines, Squids, Pipelines

\* The inductive invariant of the patch, for every range of voltages.
THEOREM PatchInvariance == PatchSpec => []PatchInv
<1>1. PatchInit => PatchInv
  <2> SUFFICES ASSUME PatchInit PROVE PatchInv
    OBVIOUS
  <2>1. /\ running \in BOOLEAN /\ after \in SUBSET {"divine", "squid"} /\ entry \in Entries
        /\ rises = 0 /\ Level(entry) = FALSE
    BY DEF PatchInit, Entries, Level
  <2>2. divine \in Divines /\ squid \in Squids
    BY VoltAssumption DEF PatchInit, Divines, Squids, Pipelines
  <2>3. /\ divine.prev = FALSE /\ squid.prev = FALSE /\ divine.counter1 = 0
        /\ divine.counter2 = 0 /\ divine.xor = 0 /\ squid.counter = 0
    BY DEF PatchInit
  <2>4. (0 + 0) % 16 = 0 /\ (0 + 0) % 4 = 0 % 4 /\ 0 \in 0 .. 15
    OBVIOUS
  <2>5. FourClocks(squid).stages = squid.stages
    BY <2>2, ComesRound
  <2>6. InStep
    BY <2>1, <2>3, <2>4, <2>5, Zenon DEF InStep, Unseen
  <2>7. QED
    BY <2>1, <2>2, <2>3, <2>4, <2>6 DEF PatchInv, Divines, Squids, Pipelines
<1>2. PatchInv /\ [PatchNext]_patchVars => PatchInv'
  BY PatchTickKeeps, PatchRestKeeps DEF PatchNext
<1>3. QED
  BY <1>1, <1>2, PTL DEF PatchSpec

\* InStep of tick() of divine-cmos and squid-axon, for every range of voltages.
THEOREM InStepHolds == PatchSpec => []InStep
<1>1. PatchInv => InStep
  BY DEF PatchInv
<1>2. QED
  BY <1>1, PatchInvariance, PTL

-----------------------------------------------------------------------------
(* slew_modulator as a generator                                           *)

\* A step of the filter stays between where it was and where it goes.
LEMMA SlewedBetween ==
    ASSUME NEW v \in 0 .. Top, NEW target \in 0 .. Top, NEW w \in Slewed(v, target)
    PROVE  /\ w \in 0 .. Top
           /\ v <= target => v <= w
           /\ v >= target => w <= v
BY TopAssumption DEF Slewed

\* tick() of a generator, split by what it does after a trigger or the cycle switch
\* has been looked at.
LEMMA SlewTickKeeps ==
    ASSUME SlewInv, SlewTick
    PROVE  SlewInv'
<1>1. /\ stage \in {"idle", "rising", "falling"}
      /\ level \in 0 .. Top /\ input \in 0 .. Top /\ from \in 0 .. Top
      /\ cycle \in BOOLEAN /\ trig \in BOOLEAN /\ cycled \in BOOLEAN
      /\ edges \in Edges \X Edges
  BY DEF SlewInv
<1>2. /\ stage = "falling" <=> edges[2] = "eor"
      /\ edges[2] = "trig" => stage = "rising"
      /\ stage = "rising" => edges[2] = "trig" \/ cycled
      /\ edges[2] = "eoc" => edges[1] = "eor"
      /\ edges[2] = "eor" => edges[1] = "trig" \/ (edges[1] # "eor" /\ cycled)
  BY DEF SlewInv, EnvelopeShape
<1>3. /\ trig' = FALSE /\ from' = Snapped /\ input' = input /\ cycle' = cycle
      /\ level' \in Slewed(Snapped, Target)
      /\ eor' = (StageRun = "rising" /\ level' = Top)
      /\ eoc' = (StageRun = "falling" /\ level' = 0)
      /\ stage' = (IF eor' THEN "falling" ELSE IF eoc' THEN "idle" ELSE StageRun)
      /\ cycled' = (IF eoc' \/ (trig /\ ~eor') THEN FALSE ELSE cycled \/ cycle)
  BY DEF SlewTick
<1>4. edges' = Seen(Seen(Seen(edges, trig, "trig"), eor', "eor"), eoc', "eoc")
  BY DEF SlewTick
<1>5. Snapped \in 0 .. Top /\ (trig => Snapped = 0) /\ (~trig => Snapped = level)
  BY <1>1, TopAssumption DEF Snapped
<1>6. /\ StageRun \in {"idle", "rising", "falling"}
      /\ trig => StageRun = "rising"
      /\ ~trig /\ StageRun = "rising" /\ stage # "rising" => stage = "idle" /\ cycle
      /\ ~trig /\ StageRun # "rising" => stage = StageRun
      /\ ~trig /\ stage = "rising" => StageRun = "rising"
  BY <1>1 DEF StageRun
<1>7. /\ Target \in 0 .. Top
      /\ StageRun = "rising" => Target = Top
      /\ StageRun = "falling" => Target = 0
  BY <1>1, <1>6, TopAssumption DEF Target
<1>8. /\ level' \in 0 .. Top
      /\ StageRun = "rising" => level' >= Snapped
      /\ StageRun = "falling" => level' <= Snapped
  BY <1>3, <1>5, <1>7, SlewedBetween, TopAssumption
<1>9. eor' \in BOOLEAN /\ eoc' \in BOOLEAN /\ ~(eor' /\ eoc')
  BY <1>3, Zenon
<1>10. PICK a \in Edges, b \in Edges : edges = <<a, b>>
  BY <1>1
<1>11. edges[1] = a /\ edges[2] = b
  BY <1>10
<1> DEFINE c == IF trig THEN b ELSE a
           d == IF trig THEN "trig" ELSE b
           e == IF eor' \/ eoc' THEN d ELSE c
           f == IF eor' THEN "eor" ELSE IF eoc' THEN "eoc" ELSE d
<1>12. Seen(edges, trig, "trig") = <<c, d>>
  BY <1>1, <1>10, <1>11 DEF Seen
<1>13. edges' = <<e, f>>
  <2>1. CASE eor'
    BY <1>4, <1>9, <1>12, <2>1 DEF Seen
  <2>2. CASE eoc'
    BY <1>4, <1>9, <1>12, <2>2 DEF Seen
  <2>3. CASE ~eor' /\ ~eoc'
    BY <1>4, <1>12, <2>3 DEF Seen
  <2>4. QED
    BY <1>9, <2>1, <2>2, <2>3
<1>14. edges'[1] = e /\ edges'[2] = f
  BY <1>13
<1>15. edges' \in Edges \X Edges
  BY <1>13 DEF Edges
<1>16. /\ stage' \in {"idle", "rising", "falling"} /\ cycled' \in BOOLEAN
       /\ cycle' \in BOOLEAN /\ trig' \in BOOLEAN
       /\ input' \in 0 .. Top /\ from' \in 0 .. Top
  BY <1>1, <1>3, <1>5, <1>6, <1>9, Zenon
<1>17. /\ stage' = "falling" <=> f = "eor"
       /\ f = "trig" => stage' = "rising"
       /\ stage' = "rising" => f = "trig" \/ cycled'
  BY <1>1, <1>2, <1>3, <1>6, <1>9, <1>11
<1>18. /\ f = "eoc" => e = "eor"
       /\ f = "eor" => e = "trig" \/ (e # "eor" /\ cycled')
  BY <1>1, <1>2, <1>3, <1>6, <1>9, <1>11
<1>19. (eor' => level' = Top /\ f = "eor") /\ (eoc' => level' = 0 /\ f = "eoc")
  BY <1>3, <1>9, Zenon
<1>20. f = "trig" => level' >= from'
  <2>1. ASSUME f = "trig" PROVE StageRun = "rising"
    BY <1>1, <1>2, <1>6, <1>9, <1>11, <2>1
  <2>2. QED
    BY <1>3, <1>8, <2>1
<1>21. f = "eor" /\ ~eor' => level' <= from'
  <2>1. ASSUME f = "eor", ~eor' PROVE StageRun = "falling"
    BY <1>1, <1>2, <1>3, <1>6, <1>9, <1>11, <2>1
  <2>2. QED
    BY <1>3, <1>8, <2>1
<1> HIDE DEF c, d, e, f
<1>22. EnvelopeShape'
  BY <1>14, <1>18, <1>19, <1>20, <1>21 DEF EnvelopeShape
<1>23. QED
  BY <1>8, <1>9, <1>14, <1>15, <1>16, <1>17, <1>22 DEF SlewInv

\* tick() with no tick rate, update(), and no step at all.
LEMMA SlewRestKeeps ==
    ASSUME SlewInv,
           \/ SlewHold \/ UpdateTrig \/ UNCHANGED slewVars
           \/ \E v \in 0 .. Top : UpdateInput(v)
           \/ \E on \in BOOLEAN : UpdateCycle(on)
    PROVE  SlewInv'
<1>1. UNCHANGED <<stage, level, edges, cycled>>
  BY DEF SlewHold, UpdateTrig, UpdateInput, UpdateCycle, slewVars
<1>2. \/ UNCHANGED <<eor, eoc, from>>
      \/ eor' = FALSE /\ eoc' = FALSE /\ from' = level
  BY DEF SlewHold, UpdateTrig, UpdateInput, UpdateCycle, slewVars
<1>3. input' \in 0 .. Top /\ cycle' \in BOOLEAN /\ trig' \in BOOLEAN
  BY Zenon DEF SlewHold, UpdateTrig, UpdateInput, UpdateCycle, slewVars, SlewInv
<1>4. EnvelopeShape'
  BY <1>1, <1>2, TopAssumption DEF EnvelopeShape, SlewInv
<1>5. QED
  BY <1>1, <1>2, <1>3, <1>4, Zenon DEF SlewInv

(* The inductive invariant of slew_modulator, for every resolution of its level. *)
THEOREM SlewInvariance == SlewSpec => []SlewInv
<1>1. SlewInit => SlewInv
  <2> SUFFICES ASSUME SlewInit PROVE SlewInv
    OBVIOUS
  <2>1. Top \div 2 \in 0 .. Top
    BY TopAssumption
  <2>2. edges \in Edges \X Edges /\ edges[2] = "none"
    BY DEF SlewInit, Edges
  <2>3. QED
    BY <2>1, <2>2, Zenon DEF SlewInit, SlewInv, EnvelopeShape
<1>2. SlewInv /\ [SlewNext]_slewVars => SlewInv'
  BY SlewTickKeeps, SlewRestKeeps DEF SlewNext
<1>3. QED
  BY <1>1, <1>2, PTL DEF SlewSpec

(* eor and eoc of slew_modulator mark the ends of the rises and falls it makes, and no
   others, whatever the order of triggers, cycle switches, inputs and ticks. *)
THEOREM EnvelopeHolds == SlewSpec => []EnvelopeShape
<1>1. SlewInv => EnvelopeShape
  BY DEF SlewInv
<1>2. QED
  BY <1>1, SlewInvariance, PTL

-----------------------------------------------------------------------------
(* stochastic_modulator                                                    *)

\* The next position in the loop.  A position that a longer loop left behind comes
\* into the loop.
LEMMA NextPosition ==
    ASSUME NEW p \in Nat, NEW l \in Nat \ {0}
    PROVE  /\ (p + 1) % l \in 0 .. l - 1
           /\ p < l => (p + 1) % l = IF p + 1 = l THEN 0 ELSE p + 1
<1>1. (p + 1) % l \in 0 .. l - 1
  OBVIOUS
<1>2. ASSUME p < l, p + 1 # l PROVE (p + 1) % l = p + 1
  BY <1>2
<1>3. l % l = 0
  OBVIOUS
<1>4. QED
  BY <1>1, <1>2, <1>3

\* r is q with p at its end, cut at the front when it is full.
Longer(q, p, r) ==
    /\ r \in Seq(Int) /\ Len(r) <= 2 * kMaxLength + 1
    /\ \/ Len(r) = Len(q) + 1
       \/ Len(r) = Len(q) /\ Len(q) = 2 * kMaxLength + 1
    /\ r[Len(r)] = p
    /\ \A j \in 1 .. Len(r) - 1 : r[Len(r) - j] = q[Len(q) + 1 - j]

\* The history of outputs, counted from its end.
LEMMA Remembered ==
    \A q \in Seq(Int) : \A p \in Int :
        Len(q) <= 2 * kMaxLength + 1 => Longer(q, p, Remember(q, p))
<1> SUFFICES ASSUME NEW q \in Seq(Int), NEW p \in Int, Len(q) <= 2 * kMaxLength + 1,
                    NEW r, r = Remember(q, p)
             PROVE  Longer(q, p, r)
  OBVIOUS
<1> DEFINE s == Append(q, p)
<1>1. kMaxLength \in Nat /\ Len(q) \in Nat
  BY StochasticAssumption
<1>2. /\ s \in Seq(Int) /\ Len(s) = Len(q) + 1 /\ s[Len(s)] = p
      /\ \A i \in 1 .. Len(q) : s[i] = q[i]
  BY <1>1
<1>3. r = IF Len(s) > 2 * kMaxLength + 1 THEN Tail(s) ELSE s
  BY DEF Remember
<1> HIDE DEF s
<1>4. CASE Len(s) > 2 * kMaxLength + 1
  <2>1. r = Tail(s) /\ s # << >>
    BY <1>1, <1>2, <1>3, <1>4
  <2>2. /\ r \in Seq(Int) /\ Len(r) = Len(s) - 1
        /\ \A i \in 1 .. Len(r) : r[i] = s[i + 1]
    BY <1>2, <2>1
  <2>3. Len(r) = Len(q) /\ Len(q) = 2 * kMaxLength + 1
    BY <1>1, <1>2, <1>4, <2>2
  <2>4. r[Len(r)] = p
    <3>1. Len(r) \in 1 .. Len(r) /\ Len(r) + 1 = Len(s)
      BY <1>1, <1>2, <2>3
    <3>2. QED
      BY <1>2, <2>2, <3>1
  <2>5. ASSUME NEW j \in 1 .. Len(r) - 1
        PROVE  r[Len(r) - j] = q[Len(q) + 1 - j]
    <3>1. Len(r) - j \in 1 .. Len(r) /\ (Len(r) - j) + 1 = Len(q) + 1 - j
      BY <1>1, <2>3
    <3>2. Len(q) + 1 - j \in 1 .. Len(q)
      BY <1>1, <2>3
    <3>3. QED
      BY <1>2, <2>2, <3>1, <3>2, Zenon
  <2>6. QED
    BY <1>1, <2>2, <2>3, <2>4, <2>5, Zenon DEF Longer
<1>5. CASE ~(Len(s) > 2 * kMaxLength + 1)
  <2>1. r = s
    BY <1>3, <1>5
  <2>2. ASSUME NEW j \in 1 .. Len(r) - 1
        PROVE  r[Len(r) - j] = q[Len(q) + 1 - j]
    <3>1. Len(r) - j = Len(q) + 1 - j /\ Len(q) + 1 - j \in 1 .. Len(q)
      BY <1>1, <1>2, <2>1
    <3>2. QED
      BY <1>2, <2>1, <3>1, Zenon
  <2>3. QED
    BY <1>1, <1>2, <1>5, <2>1, <2>2 DEF Longer
<1>6. QED
  BY <1>4, <1>5

\* What next_rand() can decide under each of the three settings.
LEMMA DrawsType ==
    ASSUME dejaVu \in 0 .. 4
    PROVE  /\ \A b \in Replays : b \in BOOLEAN /\ (b => dejaVu # 0) /\ (~b => dejaVu < 2)
           /\ \A b \in Freezes : b \in BOOLEAN /\ (b => dejaVu > 2) /\ (~b => dejaVu # 4)
<1>1. CASE dejaVu = 0
  <2>1. dejaVu = 0 /\ ~(dejaVu >= 2) /\ dejaVu <= 2 /\ dejaVu # 4 /\ dejaVu < 2
    BY <1>1
  <2>2. Replays = {FALSE} /\ Freezes = {FALSE}
    BY <2>1, Zenon DEF Replays, Freezes, Draws
  <2>3. QED
    BY <2>1, <2>2, Zenon
<1>2. CASE dejaVu = 1
  <2>1. dejaVu # 0 /\ ~(dejaVu >= 2) /\ dejaVu <= 2 /\ dejaVu # 4 /\ dejaVu < 2
    BY <1>2
  <2>2. Replays = BOOLEAN /\ Freezes = {FALSE}
    BY <2>1, Zenon DEF Replays, Freezes, Draws
  <2>3. QED
    BY <2>1, <2>2, Zenon
<1>3. CASE dejaVu = 2
  <2>1. dejaVu # 0 /\ dejaVu >= 2 /\ dejaVu <= 2 /\ dejaVu # 4
    BY <1>3
  <2>2. Replays = {TRUE} /\ Freezes = {FALSE}
    BY <2>1, Zenon DEF Replays, Freezes, Draws
  <2>3. QED
    BY <2>1, <2>2, Zenon
<1>4. CASE dejaVu = 3
  <2>1. dejaVu # 0 /\ dejaVu >= 2 /\ ~(dejaVu <= 2) /\ dejaVu > 2 /\ dejaVu # 4
    BY <1>4
  <2>2. Replays = {TRUE} /\ Freezes = BOOLEAN
    BY <2>1, Zenon DEF Replays, Freezes, Draws
  <2>3. QED
    BY <2>1, <2>2, Zenon
<1>5. CASE dejaVu = 4
  <2>1. dejaVu # 0 /\ dejaVu >= 2 /\ ~(dejaVu <= 2) /\ dejaVu > 2
    BY <1>5
  <2>2. Replays = {TRUE} /\ Freezes = {TRUE}
    BY <1>5, <2>1, Zenon DEF Replays, Freezes, Draws
  <2>3. QED
    BY <2>1, <2>2, Zenon
<1>6. QED
  BY <1>1, <1>2, <1>3, <1>4, <1>5

\* What an event does to the positions, the buffer and the history.
LEMMA EventEffect ==
    ASSUME StochasticInv, TickEvent
    PROVE  /\ UNCHANGED <<loop, dejaVu, mark>> /\ fired' = TRUE
           /\ held' = buf'[readPos] /\ recent' = Remember(recent, held')
           /\ \/ UNCHANGED <<buf, writePos, pairs>> /\ dejaVu # 0
              \/ /\ buf' = [buf EXCEPT ![writePos] = pairs + 1]
                 /\ writePos' = (writePos + 1) % loop
                 /\ pairs' = pairs + 1 /\ dejaVu < 2
           /\ \/ readPos' = readPos /\ dejaVu > 2
              \/ readPos' = (readPos + 1) % loop /\ dejaVu # 4
<1>1. dejaVu \in 0 .. 4
  BY DEF StochasticInv
<1>2. PICK replay \in Replays, freeze \in Freezes :
        /\ buf' = IF replay THEN buf ELSE [buf EXCEPT ![writePos] = pairs + 1]
        /\ writePos' = IF replay THEN writePos ELSE (writePos + 1) % loop
        /\ pairs' = IF replay THEN pairs ELSE pairs + 1
        /\ held' = buf'[readPos]
        /\ readPos' = IF freeze THEN readPos ELSE (readPos + 1) % loop
        /\ fired' = TRUE
        /\ recent' = Remember(recent, held')
        /\ UNCHANGED <<loop, dejaVu, mark>>
  BY DEF TickEvent
<1>3. /\ replay \in BOOLEAN /\ freeze \in BOOLEAN
      /\ replay => dejaVu # 0
      /\ ~replay => dejaVu < 2
      /\ freeze => dejaVu > 2
      /\ ~freeze => dejaVu # 4
  BY <1>1, DrawsType, Zenon
<1>4. CASE replay
  BY <1>2, <1>3, <1>4
<1>5. CASE ~replay
  BY <1>2, <1>3, <1>5
<1>6. QED
  BY <1>3, <1>4, <1>5, Zenon

\* One step forward and j + 1 steps back is j steps back.
LEMMA BackAndForth ==
    ASSUME loop \in Nat \ {0}, NEW p \in 0 .. loop - 1, NEW q,
           q = IF p + 1 = loop THEN 0 ELSE p + 1
    PROVE  /\ Back(q, 1) = p /\ Back(p, loop) = p
           /\ \A j \in 1 .. loop : Back(p, j) \in 0 .. loop - 1
           /\ \A j \in 1 .. loop : j > 1 => Back(q, j) = Back(p, j - 1)
           /\ \A j \in 1 .. loop : j > 1 => Back(q, j) # p
           /\ \A j \in 1 .. loop : Back(Back(q, j), 1) = Back(p, j)
BY DEF Back

\* Every position of the loop lies behind another at some distance.
LEMMA Distance ==
    ASSUME loop \in Nat \ {0}, NEW p \in 0 .. loop - 1, NEW w \in 0 .. loop - 1
    PROVE  \E j \in 1 .. loop : Back(w, j) = p
<1>1. CASE p < w
  <2>1. w - p \in 1 .. loop /\ Back(w, w - p) = p
    BY <1>1 DEF Back
  <2>2. QED
    BY <2>1
<1>2. CASE ~(p < w)
  <2>1. w - p + loop \in 1 .. loop /\ Back(w, w - p + loop) = p
    BY <1>2 DEF Back
  <2>2. QED
    BY <2>1
<1>3. QED
  BY <1>1, <1>2

\* An event keeps the types, and brings the positions into the loop.
LEMMA EventTypes ==
    ASSUME StochasticInv, TickEvent
    PROVE  /\ buf' \in [0 .. kMaxLength - 1 -> Int]
           /\ writePos' \in 0 .. kMaxLength - 1 /\ readPos' \in 0 .. kMaxLength - 1
           /\ loop' \in 1 .. kMaxLength /\ dejaVu' \in 0 .. 4
           /\ pairs' \in Nat /\ mark' \in Nat /\ held' \in Int /\ fired' \in BOOLEAN
           /\ Longer(recent, buf'[readPos], recent')
           /\ dejaVu \in {0, 2} => readPos' < loop
           /\ dejaVu = 0 => writePos' < loop
<1>1. /\ buf \in [0 .. kMaxLength - 1 -> Int]
      /\ writePos \in 0 .. kMaxLength - 1 /\ readPos \in 0 .. kMaxLength - 1
      /\ loop \in 1 .. kMaxLength /\ dejaVu \in 0 .. 4
      /\ pairs \in Nat /\ mark \in Nat
      /\ recent \in Seq(Int) /\ Len(recent) <= 2 * kMaxLength + 1
  BY DEF StochasticInv
<1>2. kMaxLength \in Nat \ {0} /\ loop \in Nat \ {0} /\ writePos \in Nat /\ readPos \in Nat
  BY <1>1, StochasticAssumption
<1>3. (writePos + 1) % loop \in 0 .. loop - 1 /\ (readPos + 1) % loop \in 0 .. loop - 1
  BY <1>2, NextPosition
<1>4. 0 .. loop - 1 \subseteq 0 .. kMaxLength - 1
  BY <1>1, <1>2
<1>5. /\ writePos' \in 0 .. kMaxLength - 1 /\ readPos' \in 0 .. kMaxLength - 1
      /\ pairs' \in Nat
  <2>1. \/ writePos' = writePos /\ pairs' = pairs
        \/ writePos' = (writePos + 1) % loop /\ pairs' = pairs + 1
    BY EventEffect
  <2>2. readPos' = readPos \/ readPos' = (readPos + 1) % loop
    BY EventEffect
  <2>3. pairs' \in Nat
    BY <1>1, <2>1
  <2>4. writePos' \in 0 .. kMaxLength - 1
    BY <1>1, <1>3, <1>4, <2>1, Zenon
  <2>5. readPos' \in 0 .. kMaxLength - 1
    BY <1>1, <1>3, <1>4, <2>2, Zenon
  <2>6. QED
    BY <2>3, <2>4, <2>5
<1>6. buf' \in [0 .. kMaxLength - 1 -> Int]
  <2>1. pairs + 1 \in Int
    BY <1>1
  <2>2. QED
    BY <1>1, <2>1, EventEffect
<1>7. held' = buf'[readPos] /\ held' \in Int
  BY <1>1, <1>6, EventEffect
<1>8. recent' = Remember(recent, held')
  BY EventEffect
<1>9. Longer(recent, buf'[readPos], recent')
  <2>1. Len(recent) <= 2 * kMaxLength + 1 => Longer(recent, held', Remember(recent, held'))
    BY <1>1, <1>7, Remembered, Zenon
  <2>2. QED
    BY <1>1, <1>7, <1>8, <2>1, Zenon
<1>10. dejaVu \in {0, 2} => readPos' < loop
  <2>1. dejaVu \in {0, 2} => readPos' = (readPos + 1) % loop
    BY EventEffect
  <2>2. QED
    BY <1>2, <1>3, <2>1
<1>11. dejaVu = 0 => writePos' < loop
  <2>1. dejaVu = 0 => writePos' = (writePos + 1) % loop
    BY EventEffect
  <2>2. QED
    BY <1>2, <1>3, <2>1
<1>12. loop' = loop /\ dejaVu' = dejaVu /\ mark' = mark /\ fired' = TRUE
  BY EventEffect
<1>13. QED
  BY <1>1, <1>5, <1>6, <1>7, <1>9, <1>10, <1>11, <1>12

\* deja_vu at 1: the pair is the one before, because nothing is written and the read
\* position does not move.
LEMMA FrozenEvent ==
    ASSUME StochasticInv, TickEvent, dejaVu = 4
    PROVE  /\ recent'[Len(recent')] = buf'[readPos']
           /\ Len(recent') > 1 => recent'[Len(recent')] = recent'[Len(recent') - 1]
<1>1. buf' = buf /\ readPos' = readPos
  BY EventEffect
<1>2. Longer(recent, buf[readPos], recent')
  BY <1>1, EventTypes
<1>3. ASSUME Len(recent') > 1
      PROVE  recent'[Len(recent') - 1] = buf[readPos]
  <2>1. recent \in Seq(Int) /\ recent' \in Seq(Int) /\ kMaxLength \in Nat \ {0}
    BY <1>2, StochasticAssumption DEF StochasticInv, Longer
  <2>2. 1 \in 1 .. Len(recent') - 1 /\ Len(recent) > 0 /\ Len(recent) + 1 - 1 = Len(recent)
    BY <1>2, <1>3, <2>1 DEF Longer
  <2>3. recent'[Len(recent') - 1] = recent[Len(recent)]
    BY <1>2, <2>2 DEF Longer
  <2>4. recent[Len(recent)] = buf[readPos]
    BY <2>2 DEF StochasticInv
  <2>5. QED
    BY <2>3, <2>4
<1>4. QED
  BY <1>1, <1>2, <1>3 DEF Longer
\* The length of the history after an event, and the positions if it is not the first.
LEMMA EventLengths ==
    ASSUME StochasticInv, TickEvent
    PROVE  /\ Len(recent) \in Nat /\ Len(recent') \in Nat /\ Len(recent') >= 1
           /\ Len(recent') <= Len(recent) + 1
           /\ Len(recent') > 1 => Len(recent) > 0
<1>1. Longer(recent, buf'[readPos], recent')
  BY EventTypes
<1>2. recent \in Seq(Int) /\ recent' \in Seq(Int) /\ kMaxLength \in Nat
  BY <1>1, StochasticAssumption DEF StochasticInv, Longer
<1>3. Len(recent) \in Nat /\ Len(recent') \in Nat
  BY <1>2
<1>4. QED
  BY <1>1, <1>2, <1>3 DEF Longer

\* deja_vu at 0.5: what lies behind the read position is what was output, and comes
\* round after a lap.
LEMMA LockedEvent ==
    ASSUME StochasticInv, TickEvent, dejaVu = 2
    PROVE  /\ \A j \in 1 .. loop : j < Len(recent') =>
                 recent'[Len(recent') + 1 - j] = buf'[Back(readPos', j)]
           /\ Len(recent') > loop + 1 =>
                 recent'[Len(recent')] = recent'[Len(recent') - loop]
<1>1. buf' = buf /\ readPos' = (readPos + 1) % loop
  BY EventEffect
<1>2. Longer(recent, buf[readPos], recent')
  BY <1>1, EventTypes
<1>3. loop \in Nat \ {0} /\ readPos \in Nat
  BY StochasticAssumption DEF StochasticInv
<1>4. PICK n \in Nat : n = Len(recent)
  BY EventLengths
<1>5. PICK k \in Nat : k = Len(recent')
  BY EventLengths
<1>6. k >= 1 /\ k <= n + 1 /\ (k > 1 => n > 0)
  BY <1>4, <1>5, EventLengths
<1>7. recent'[k] = buf[readPos] /\ \A j \in 1 .. k - 1 : recent'[k - j] = recent[n + 1 - j]
  BY <1>2, <1>4, <1>5, Zenon DEF Longer
<1>8. \A j \in 1 .. loop : j < n => recent[n + 1 - j] = buf[Back(readPos, j)]
  BY <1>4 DEF StochasticInv
<1>9. n > 0 => readPos < loop
  BY <1>4 DEF StochasticInv
<1>10. CASE k = 1
  BY <1>3, <1>5, <1>10
<1>11. CASE k > 1
  <2>1. PICK q : q = readPos'
    OBVIOUS
  <2>2. readPos \in 0 .. loop - 1
    BY <1>3, <1>6, <1>9, <1>11
  <2>3. q = IF readPos + 1 = loop THEN 0 ELSE readPos + 1
    <3>1. readPos < loop
      BY <1>3, <2>2
    <3>2. (readPos + 1) % loop = IF readPos + 1 = loop THEN 0 ELSE readPos + 1
      BY <1>3, <3>1, NextPosition, Zenon
    <3>3. QED
      BY <1>1, <2>1, <3>2
  <2>4. /\ Back(q, 1) = readPos /\ Back(readPos, loop) = readPos
        /\ \A j \in 1 .. loop : j > 1 => Back(q, j) = Back(readPos, j - 1)
    BY <1>3, <2>2, <2>3, BackAndForth
  <2>5. ASSUME NEW j \in 1 .. loop, j < k
        PROVE  recent'[k + 1 - j] = buf[Back(q, j)]
    <3>1. CASE j = 1
      <4>1. k + 1 - j = k
        BY <3>1
      <4>2. QED
        BY <1>7, <2>4, <3>1, <4>1
    <3>2. CASE j > 1
      <4>1. /\ j - 1 \in 1 .. k - 1 /\ j - 1 \in 1 .. loop /\ j - 1 < n
            /\ k - (j - 1) = k + 1 - j
        BY <1>3, <1>6, <2>5, <3>2
      <4>2. recent'[k - (j - 1)] = recent[n + 1 - (j - 1)]
        BY <1>7, <4>1
      <4>3. recent[n + 1 - (j - 1)] = buf[Back(readPos, j - 1)]
        BY <1>8, <4>1
      <4>4. QED
        BY <2>4, <3>2, <4>1, <4>2, <4>3
    <3>3. QED
      BY <1>3, <3>1, <3>2
  <2>6. ASSUME k > loop + 1
        PROVE  recent'[k] = recent'[k - loop]
    <3>1. loop \in 1 .. k - 1 /\ loop \in 1 .. loop /\ loop < n
      BY <1>3, <1>6, <2>6
    <3>2. recent'[k - loop] = recent[n + 1 - loop]
      BY <1>7, <3>1
    <3>3. recent[n + 1 - loop] = buf[Back(readPos, loop)]
      BY <1>8, <3>1
    <3>4. QED
      BY <1>7, <2>4, <3>2, <3>3
  <2>7. QED
    BY <1>1, <1>5, <2>1, <2>5, <2>6
<1>12. QED
  BY <1>6, <1>10, <1>11

\* deja_vu at 0: what lies behind the write position is the youngest pairs, and the
\* read position follows it at a distance that does not change.
LEMMA RenewedEvent ==
    ASSUME StochasticInv, TickEvent, dejaVu = 0
    PROVE  /\ mark + Len(recent') <= pairs'
           /\ Len(recent') > 1 => recent'[Len(recent')] = buf'[Back(readPos', 1)]
           /\ \A j \in 1 .. loop : j < Len(recent') =>
                 buf'[Back(writePos', j)] = pairs' + 1 - j
           /\ Len(recent') > loop + 1 =>
                 /\ recent'[Len(recent')] > mark
                 /\ Len(recent') > loop + 2 =>
                       recent'[Len(recent')] > recent'[Len(recent') - 1]
<1>1. /\ buf' = [buf EXCEPT ![writePos] = pairs + 1] /\ pairs' = pairs + 1
      /\ writePos' = (writePos + 1) % loop /\ readPos' = (readPos + 1) % loop
  BY EventEffect
<1>2. Longer(recent, buf'[readPos], recent')
  BY EventTypes
<1>3. /\ loop \in Nat \ {0} /\ readPos \in Nat /\ writePos \in Nat
      /\ pairs \in Nat /\ mark \in Nat
      /\ buf \in [0 .. kMaxLength - 1 -> Int] /\ 0 .. loop - 1 \subseteq 0 .. kMaxLength - 1
  BY StochasticAssumption DEF StochasticInv
<1>4. PICK n \in Nat : n = Len(recent)
  BY EventLengths
<1>5. PICK k \in Nat : k = Len(recent')
  BY EventLengths
<1>6. k >= 1 /\ k <= n + 1 /\ (k > 1 => n > 0)
  BY <1>4, <1>5, EventLengths
<1>7. recent'[k] = buf'[readPos] /\ \A j \in 1 .. k - 1 : recent'[k - j] = recent[n + 1 - j]
  BY <1>2, <1>4, <1>5 DEF Longer
<1>8. /\ mark + n <= pairs
      /\ n > 1 => recent[n] = buf[Back(readPos, 1)]
      /\ \A j \in 1 .. loop : j < n => buf[Back(writePos, j)] = pairs + 1 - j
      /\ n > 0 => readPos < loop /\ writePos < loop
  BY <1>4 DEF StochasticInv
<1>9. mark + k <= pairs'
  BY <1>1, <1>3, <1>6, <1>8
<1>10. CASE k = 1
  BY <1>3, <1>5, <1>9, <1>10
<1>11. CASE k > 1
  <2>1. PICK r : r = readPos'
    OBVIOUS
  <2>2. PICK w : w = writePos'
    OBVIOUS
  <2>3. readPos \in 0 .. loop - 1 /\ writePos \in 0 .. loop - 1
    BY <1>3, <1>6, <1>8, <1>11
  <2>4. /\ r = IF readPos + 1 = loop THEN 0 ELSE readPos + 1
        /\ w = IF writePos + 1 = loop THEN 0 ELSE writePos + 1
    <3>1. readPos < loop /\ writePos < loop
      BY <1>3, <2>3
    <3>2. (readPos + 1) % loop = IF readPos + 1 = loop THEN 0 ELSE readPos + 1
      BY <1>3, <3>1, NextPosition, Zenon
    <3>3. (writePos + 1) % loop = IF writePos + 1 = loop THEN 0 ELSE writePos + 1
      BY <1>3, <3>1, NextPosition, Zenon
    <3>4. QED
      BY <1>1, <2>1, <2>2, <3>2, <3>3
  <2>5. Back(r, 1) = readPos
    BY <1>3, <2>3, <2>4, BackAndForth
  <2>6. /\ Back(w, 1) = writePos
        /\ \A j \in 1 .. loop : Back(writePos, j) \in 0 .. loop - 1
        /\ \A j \in 1 .. loop : j > 1 => Back(w, j) = Back(writePos, j - 1)
        /\ \A j \in 1 .. loop : j > 1 => Back(w, j) # writePos
        /\ \A j \in 1 .. loop : Back(Back(w, j), 1) = Back(writePos, j)
    BY <1>3, <2>3, <2>4, BackAndForth
  <2>7. ASSUME NEW j \in 1 .. loop, j < k
        PROVE  buf'[Back(w, j)] = pairs' + 1 - j
    <3>1. CASE j = 1
      <4>1. buf'[writePos] = pairs + 1
        BY <1>1, <1>3, <2>3
      <4>2. pairs + 1 = pairs' + 1 - j
        BY <1>1, <1>3, <3>1
      <4>3. QED
        BY <2>6, <3>1, <4>1, <4>2
    <3>2. CASE j > 1
      <4>1. j - 1 \in 1 .. loop /\ j - 1 < n
        BY <1>3, <1>6, <2>7, <3>2
      <4>2. PICK p : p = Back(writePos, j - 1)
        OBVIOUS
      <4>3. p \in 0 .. kMaxLength - 1 /\ p # writePos /\ Back(w, j) = p
        BY <1>3, <2>6, <3>2, <4>1, <4>2
      <4>4. buf'[p] = buf[p]
        BY <1>1, <1>3, <4>3
      <4>5. buf[p] = pairs + 1 - (j - 1)
        BY <1>8, <4>1, <4>2
      <4>6. pairs + 1 - (j - 1) = pairs' + 1 - j
        BY <1>1, <1>3
      <4>7. QED
        BY <4>3, <4>4, <4>5, <4>6
    <3>3. QED
      BY <1>3, <3>1, <3>2
  <2>8. ASSUME k > loop + 1
        PROVE  recent'[k] > mark /\ (k > loop + 2 => recent'[k] > recent'[k - 1])
    <3>1. w \in 0 .. loop - 1
      BY <1>3, <2>3, <2>4
    <3>2. PICK j \in 1 .. loop : Back(w, j) = readPos
      BY <1>3, <2>3, <3>1, Distance
    <3>3. j < k
      BY <1>3, <2>8
    <3>4. recent'[k] = pairs' + 1 - j
      BY <1>7, <2>7, <3>2, <3>3
    <3>5. pairs' + 1 - j > mark
      BY <1>1, <1>3, <1>9, <2>8
    <3>6. ASSUME k > loop + 2
          PROVE  recent'[k - 1] = pairs + 1 - j
      <4>1. 1 \in 1 .. k - 1 /\ n > 1 /\ j < n /\ n + 1 - 1 = n
        BY <1>3, <1>6, <3>6
      <4>2. recent'[k - 1] = recent[n]
        BY <1>7, <4>1
      <4>3. recent[n] = buf[Back(readPos, 1)]
        BY <1>8, <4>1
      <4>4. Back(readPos, 1) = Back(writePos, j)
        BY <2>6, <3>2
      <4>5. buf[Back(writePos, j)] = pairs + 1 - j
        BY <1>8, <4>1
      <4>6. QED
        BY <4>2, <4>3, <4>4, <4>5
    <3>7. pairs' + 1 - j > pairs + 1 - j
      BY <1>1, <1>3
    <3>8. QED
      BY <3>4, <3>5, <3>6, <3>7
  <2>9. QED
    BY <1>5, <1>7, <1>9, <2>1, <2>2, <2>5, <2>7, <2>8
<1>12. QED
  BY <1>6, <1>10, <1>11

\* An event keeps StochasticInv, under each of the settings.
LEMMA EventKeeps ==
    ASSUME StochasticInv, TickEvent
    PROVE  StochasticInv'
<1>1. loop' = loop /\ dejaVu' = dejaVu /\ mark' = mark
  BY EventEffect
<1>2. /\ buf' \in [0 .. kMaxLength - 1 -> Int]
      /\ writePos' \in 0 .. kMaxLength - 1 /\ readPos' \in 0 .. kMaxLength - 1
      /\ loop' \in 1 .. kMaxLength /\ dejaVu' \in 0 .. 4
      /\ pairs' \in Nat /\ mark' \in Nat /\ held' \in Int /\ fired' \in BOOLEAN
  BY EventTypes
<1>3. recent' \in Seq(Int) /\ Len(recent') <= 2 * kMaxLength + 1
  BY EventTypes DEF Longer
<1>4. /\ dejaVu' \in {0, 2} /\ Len(recent') > 0 => readPos' < loop'
      /\ dejaVu' = 0 /\ Len(recent') > 0 => writePos' < loop'
  BY <1>1, EventTypes
<1>5. /\ dejaVu' = 4 /\ Len(recent') > 0 => recent'[Len(recent')] = buf'[readPos']
      /\ dejaVu' = 4 /\ Len(recent') > 1 =>
            recent'[Len(recent')] = recent'[Len(recent') - 1]
  BY <1>1, FrozenEvent
<1>6. /\ dejaVu' = 2 => \A j \in 1 .. loop' : j < Len(recent') =>
            recent'[Len(recent') + 1 - j] = buf'[Back(readPos', j)]
      /\ dejaVu' = 2 /\ Len(recent') > loop' + 1 =>
            recent'[Len(recent')] = recent'[Len(recent') - loop']
  BY <1>1, LockedEvent
<1>7. /\ dejaVu' = 0 => mark' + Len(recent') <= pairs'
      /\ dejaVu' = 0 /\ Len(recent') > 1 => recent'[Len(recent')] = buf'[Back(readPos', 1)]
      /\ dejaVu' = 0 => \A j \in 1 .. loop' : j < Len(recent') =>
            buf'[Back(writePos', j)] = pairs' + 1 - j
      /\ dejaVu' = 0 /\ Len(recent') > loop' + 1 =>
            /\ recent'[Len(recent')] > mark'
            /\ Len(recent') > loop' + 2 => recent'[Len(recent')] > recent'[Len(recent') - 1]
  BY <1>1, RenewedEvent
<1>8. readPos' < kMaxLength /\ writePos' < kMaxLength
  BY <1>2, StochasticAssumption
<1>9. DejaVuSettings'
  BY <1>5, <1>6, <1>7, <1>8, Zenon DEF DejaVuSettings
<1>10. QED
  BY <1>1, <1>2, <1>3, <1>4, <1>5, <1>6, <1>7, <1>9, Zenon DEF StochasticInv, Back

\* The history starts anew when a setting changes.
LEMMA SettingKeeps ==
    ASSUME StochasticInv,
           \/ \E v \in 0 .. kMaxLength + 1 : UpdateLength(v)
           \/ \E v \in -1 .. 5 : UpdateDejaVu(v)
    PROVE  StochasticInv'
<1>1. /\ UNCHANGED <<buf, writePos, readPos, pairs, held, fired>>
      /\ recent' = << >> /\ mark' = pairs
  BY DEF UpdateLength, UpdateDejaVu, Restart
<1>2. loop' \in 1 .. kMaxLength /\ dejaVu' \in 0 .. 4
  <2>1. CASE \E v \in 0 .. kMaxLength + 1 : UpdateLength(v)
    <3>1. PICK v \in 0 .. kMaxLength + 1 : UpdateLength(v)
      BY <2>1
    <3>2. loop' = ClampTo(v, 1, kMaxLength) /\ dejaVu' = dejaVu
      BY <3>1 DEF UpdateLength
    <3>3. ClampTo(v, 1, kMaxLength) \in 1 .. kMaxLength
      BY StochasticAssumption DEF ClampTo
    <3>4. QED
      BY <3>2, <3>3 DEF StochasticInv
  <2>2. CASE \E v \in -1 .. 5 : UpdateDejaVu(v)
    <3>1. PICK v \in -1 .. 5 : UpdateDejaVu(v)
      BY <2>2
    <3>2. dejaVu' = ClampTo(v, 0, 4) /\ loop' = loop
      BY <3>1 DEF UpdateDejaVu
    <3>3. ClampTo(v, 0, 4) \in 0 .. 4
      BY DEF ClampTo
    <3>4. QED
      BY <3>2, <3>3 DEF StochasticInv
  <2>3. QED
    BY <2>1, <2>2
<1>3. recent' \in Seq(Int) /\ Len(recent') = 0
  BY <1>1
<1>4. readPos' < kMaxLength /\ writePos' < kMaxLength
  BY <1>1 DEF StochasticInv, DejaVuSettings
<1>5. /\ kMaxLength \in Nat /\ loop' \in Nat /\ \A j \in 1 .. loop' : ~(j < 0)
      /\ ~(0 > loop' + 1) /\ ~(0 > 1)
  <2>1. kMaxLength \in Nat
    BY StochasticAssumption
  <2>2. \A l \in 1 .. kMaxLength : l \in Nat /\ ~(0 > l + 1) /\ \A j \in 1 .. l : ~(j < 0)
    BY <2>1
  <2>3. ~(0 > 1)
    OBVIOUS
  <2>4. QED
    BY <1>2, <2>1, <2>2, <2>3, Zenon
<1>6. DejaVuSettings'
  BY <1>3, <1>4, <1>5, Zenon DEF DejaVuSettings
<1>7. mark' + 0 <= pairs' /\ 0 <= 2 * kMaxLength + 1 /\ ~(0 > 0)
  BY <1>1, <1>5 DEF StochasticInv
<1>8. /\ buf' \in [0 .. kMaxLength - 1 -> Int]
      /\ writePos' \in 0 .. kMaxLength - 1 /\ readPos' \in 0 .. kMaxLength - 1
      /\ pairs' \in Nat /\ mark' \in Nat /\ held' \in Int /\ fired' \in BOOLEAN
  BY <1>1 DEF StochasticInv
<1>9. QED
  BY <1>2, <1>3, <1>5, <1>6, <1>7, <1>8, Zenon DEF StochasticInv

(* The inductive invariant of stochastic_modulator, for every length of its buffer. *)
THEOREM StochasticInvariance == StochasticSpec => []StochasticInv
<1>1. StochasticInit => StochasticInv
  <2> SUFFICES ASSUME StochasticInit PROVE StochasticInv
    OBVIOUS
  <2>1. recent = << >> /\ Len(recent) = 0 /\ recent \in Seq(Int)
    BY DEF StochasticInit
  <2>2. buf \in [0 .. kMaxLength - 1 -> Int]
    BY StochasticAssumption DEF StochasticInit
  <2>3. /\ writePos \in 0 .. kMaxLength - 1 /\ readPos \in 0 .. kMaxLength - 1
        /\ loop \in 1 .. kMaxLength /\ dejaVu \in 0 .. 4
        /\ pairs \in Nat /\ mark \in Nat /\ held \in Int /\ fired \in BOOLEAN
        /\ readPos < kMaxLength /\ writePos < kMaxLength /\ mark + 0 <= pairs
    BY StochasticAssumption DEF StochasticInit
  <2>4. DejaVuSettings
    BY <2>1, <2>3, StochasticAssumption DEF DejaVuSettings
  <2>5. QED
    BY <2>1, <2>2, <2>3, <2>4, StochasticAssumption DEF StochasticInv
<1>2. StochasticInv /\ [StochasticNext]_stochasticVars => StochasticInv'
  <2>1. ASSUME StochasticInv, StochasticHold \/ UNCHANGED stochasticVars
        PROVE  StochasticInv'
    <3>1. /\ UNCHANGED <<buf, writePos, readPos, loop, dejaVu, pairs, held, recent, mark>>
          /\ fired' \in BOOLEAN
      BY <2>1, Zenon DEF StochasticHold, stochasticVars, StochasticInv
    <3>2. QED
      BY <2>1, <3>1, Zenon DEF StochasticInv, DejaVuSettings, Back
  <2>2. QED
    BY <2>1, EventKeeps, SettingKeeps DEF StochasticNext
<1>3. QED
  BY <1>1, <1>2, PTL DEF StochasticSpec

(* The deja-vu settings do what they say, whatever lengths and settings came before, for
   every length of the buffer. *)
THEOREM DejaVuHolds == StochasticSpec => []DejaVuSettings
<1>1. StochasticInv => DejaVuSettings
  BY DEF StochasticInv
<1>2. QED
  BY <1>1, StochasticInvariance, PTL

-----------------------------------------------------------------------------
(* Modulators that hold a value                                            *)

\* A point of a ramp lies between its ends, although fractions are rounded down.
LEMMA RampBetween ==
    ASSUME NEW l \in 0 .. Full - 1, NEW d \in Int
    PROVE  /\ (l * d) \div Full \in Int
           /\ d >= 0 => 0 <= (l * d) \div Full /\ (l * d) \div Full <= d
           /\ d <= 0 => d <= (l * d) \div Full /\ (l * d) \div Full <= 0
<1>1. Full \in Nat \ {0}
  BY LatchAssumption
<1>2. PICK x \in Int : x = l * d
  BY <1>1
<1>3. PICK q \in Int : q = x \div Full
  BY <1>1
<1>4. Full * q <= x /\ x < Full * q + Full
  BY <1>1, <1>3
<1>5. ASSUME d >= 0 PROVE 0 <= x /\ x <= Full * d
  BY <1>1, <1>2, <1>5
<1>6. ASSUME d <= 0 PROVE Full * d <= x /\ x <= 0
  BY <1>1, <1>2, <1>6
<1>7. ASSUME d >= 0 PROVE 0 <= q /\ q <= d
  BY <1>1, <1>4, <1>5, <1>7
<1>8. ASSUME d <= 0 PROVE d <= q /\ q <= 0
  BY <1>1, <1>4, <1>6, <1>8
<1>9. QED
  BY <1>2, <1>3, <1>7, <1>8

\* A step of one of the four keeps its invariant and does to what it holds only what it
\* may do.
Good == LatchInv' /\ HeldStep

\* bools_ring_modulator::tick()
LEMMA BoolsTickGood ==
    ASSUME LatchInv, which = "bools", which' = which, NEW g \in BOOLEAN, BoolsTick(g)
    PROVE  Good
<1>1. mod \in Rings /\ (shown.held => shown.value = mod.latched)
  BY DEF LatchInv
<1>2. mod.sampled \in BOOLEAN /\ mod.pending \in BOOLEAN /\ mod.prev \in BOOLEAN
  BY <1>1 DEF Rings
<1>3. Ring(mod) \in SUBSET (0 .. 3)
  BY DEF Ring
<1>4. shown' = [value |-> IF mod.sampled THEN mod'.latched ELSE Ring(mod), held |-> mod.sampled]
  BY DEF BoolsTick
<1>5. CASE ~mod.sampled
  <2>1. mod' = mod /\ shown'.held = FALSE
    BY <1>2, <1>4, <1>5 DEF BoolsTick
  <2>2. QED
    BY <1>1, <2>1, Zenon DEF Good, LatchInv, HeldStep
<1>6. CASE mod.sampled
  <2>1. PICK r \in SUBSET (0 .. 3) : r = IF BoolsEdge(g) THEN Ring(mod) ELSE mod.latched
    BY <1>1, <1>3 DEF Rings
  <2>2. mod' = [mod EXCEPT !.prev = g, !.pending = FALSE, !.latched = r]
    BY <1>6, <2>1 DEF BoolsTick
  <2>3. mod' \in Rings /\ mod'.prev = g /\ mod'.latched = r
    BY <1>1, <2>2, Zenon DEF Rings
  <2>4. shown'.value = r /\ shown'.held = TRUE
    BY <1>2, <1>4, <1>6, <2>3
  <2>5. LatchInv'
    BY <2>3, <2>4 DEF LatchInv
  <2>6. ASSUME shown.held, ~Latched PROVE shown'.value = shown.value
    <3>1. ~(mod.pending \/ (mod'.prev /\ ~mod.prev))
      BY <2>6 DEF Latched
    <3>2. ~BoolsEdge(g)
      BY <2>3, <3>1 DEF BoolsEdge
    <3>3. QED
      BY <1>1, <2>1, <2>4, <2>6, <3>2
  <2>7. QED
    BY <2>5, <2>6 DEF Good, HeldStep
<1>7. QED
  BY <1>2, <1>5, <1>6

\* cv_channel_decoder::tick()
LEMMA DecoderTickGood ==
    ASSUME LatchInv, which = "decoder", which' = which, DecoderTick
    PROVE  Good
<1>1. mod \in Decoders /\ (shown.held => shown.value = mod.latched)
  BY DEF LatchInv
<1>2. mod.clocked \in BOOLEAN /\ mod.pending \in BOOLEAN
  BY <1>1 DEF Decoders
<1>3. Bands(mod) \in SUBSET (0 .. Channels - 1)
  BY DEF Bands
<1>4. shown' = [value |-> IF mod.clocked THEN mod'.latched ELSE Bands(mod), held |-> mod.clocked]
  BY DEF DecoderTick
<1>5. shown'.held = mod.clocked /\ (mod.clocked => shown'.value = mod'.latched)
  BY <1>4
<1>6. CASE mod.clocked /\ mod.pending
  <2>1. PICK r \in SUBSET (0 .. Channels - 1) : r = Bands(mod)
    BY <1>3
  <2>2. mod' = [mod EXCEPT !.latched = r, !.pending = FALSE]
    BY <1>6, <2>1 DEF DecoderTick
  <2>3. mod' \in Decoders
    BY <1>1, <2>2, Zenon DEF Decoders
  <2>4. Latched
    BY <1>6 DEF Latched
  <2>5. QED
    BY <1>5, <1>6, <2>3, <2>4, Zenon DEF Good, LatchInv, HeldStep
<1>7. CASE ~(mod.clocked /\ mod.pending)
  <2>1. mod' = mod
    BY <1>7 DEF DecoderTick
  <2>2. QED
    BY <1>1, <1>5, <2>1, Zenon DEF Good, LatchInv, HeldStep
<1>8. QED
  BY <1>6, <1>7

\* statues_modulator::tick()
LEMMA StatuesTickGood ==
    ASSUME LatchInv, which = "statues", which' = which,
           NEW state \in Addresses \cup {-1}, StatuesTick(state)
    PROVE  Good
<1>1. mod \in Banks /\ shown.value = mod.slots
  BY DEF LatchInv
<1>2. PICK a \in Pointers : a = Address(state)
  <2>1. /\ mod.addr \in Pointers /\ mod.bits \in Pointers /\ state \in Pointers
        /\ mod.patched \in BOOLEAN /\ mod.useBits \in BOOLEAN
    BY <1>1 DEF Banks, Pointers
  <2>2. QED
    BY <2>1 DEF Address
<1>3. mod' = [mod EXCEPT !.slots[a] = mod.in, !.prev = a]
  BY <1>2 DEF StatuesTick
<1>4. shown' = [value |-> mod'.slots, held |-> TRUE]
  BY DEF StatuesTick
<1>5. mod.slots \in [Addresses -> {-1, 0, 1}] /\ mod.in \in {-1, 0, 1}
  BY <1>1 DEF Banks
<1>6. PICK f \in [Addresses -> {-1, 0, 1}] : f = [mod.slots EXCEPT ![a] = mod.in]
  BY <1>5, Zenon
<1>7. mod' = [mod EXCEPT !.slots = f, !.prev = a]
  BY <1>3, <1>6
<1>8. mod' \in Banks /\ mod'.slots = f /\ mod'.prev = a
  BY <1>1, <1>7, Zenon DEF Banks
<1>9. shown'.value = f
  BY <1>4, <1>8
<1>10. LatchInv'
  BY <1>8, <1>9 DEF LatchInv
<1>11. \A b \in Addresses : b # a => f[b] = mod.slots[b]
  BY <1>5, <1>6
<1>12. HeldStep
  BY <1>1, <1>8, <1>9, <1>11, Zenon DEF HeldStep
<1>13. QED
  BY <1>10, <1>12 DEF Good

\* The phase stays below one cycle and selects a segment, and a point in it.
LEMMA SegmentAtType ==
    ASSUME NEW defs \in Seq(Definitions), mod.defs = defs, Len(defs) > 0,
           NEW phase \in 0 .. Full - 1
    PROVE  /\ SegmentAt(phase).seg \in 0 .. Len(defs) - 1
           /\ SegmentAt(phase).local \in 0 .. Full - 1
<1>1. Full \in Nat \ {0} /\ Len(defs) \in Nat \ {0}
  BY LatchAssumption
<1>2. PICK x \in Int : x = phase * Len(defs)
  BY <1>1
<1>3. PICK y \in Int : y = x \div Full
  BY <1>1
<1>4. y % Len(defs) \in 0 .. Len(defs) - 1 /\ x % Full \in 0 .. Full - 1
  BY <1>1
<1>5. SegmentAt(phase) = [seg |-> y % Len(defs), local |-> x % Full]
  BY <1>2, <1>3 DEF SegmentAt
<1>6. QED
  BY <1>4, <1>5

\* What a segment shows at a point.
LEMMA SegmentValueOf ==
    ASSUME NEW d \in Definitions, NEW start \in Int, NEW local \in 0 .. Full - 1,
           NEW odd \in BOOLEAN
    PROVE  /\ SegmentValue(d, start, local, odd) \in Int
           /\ d.kind = "hold" => SegmentValue(d, start, local, odd) = start
           /\ d.kind = "ramp" => Between(SegmentValue(d, start, local, odd), start, d.primary)
<1>1. /\ d.kind \in {"ramp", "step", "hold", "alt"}
      /\ d.primary \in Int /\ d.secondary \in Int
  BY DEF Definitions
<1>2. CASE d.kind = "ramp"
  <2>1. PICK e \in Int : e = d.primary - start
    BY <1>1
  <2>2. PICK q \in Int :
          /\ q = (local * e) \div Full
          /\ e >= 0 => 0 <= q /\ q <= e
          /\ e <= 0 => e <= q /\ q <= 0
    BY RampBetween, Zenon
  <2>3. SegmentValue(d, start, local, odd) = start + q
    BY <1>2, <2>1, <2>2 DEF SegmentValue
  <2>4. QED
    BY <1>1, <1>2, <2>1, <2>2, <2>3 DEF Between
<1>3. CASE d.kind = "hold"
  <2>1. SegmentValue(d, start, local, odd) = start
    BY <1>3 DEF SegmentValue
  <2>2. QED
    BY <1>3, <2>1
<1>4. CASE d.kind \in {"step", "alt"}
  <2>1. SegmentValue(d, start, local, odd) \in {d.primary, d.secondary}
    BY <1>4 DEF SegmentValue
  <2>2. QED
    BY <1>1, <1>4, <2>1
<1>5. QED
  BY <1>1, <1>2, <1>3, <1>4

\* segment_modulator::tick()
LEMMA SegmentTickGood ==
    ASSUME LatchInv, which = "segment", which' = which, SegmentTick
    PROVE  Good
<1>1. /\ mod \in Generators /\ shown.value = mod.output
      /\ mod.cur < Len(mod.defs)
      /\ mod.defs[mod.cur + 1].kind = "hold" => mod.output = mod.start
  BY DEF LatchInv
<1>2. /\ mod.defs \in Seq(Definitions) /\ mod.rate \in Rates /\ mod.phase \in 0 .. Full - 1
      /\ mod.cur \in Nat /\ mod.odd \in BOOLEAN /\ mod.start \in Int /\ mod.output \in Int
  BY <1>1 DEF Generators
<1>3. Full \in Nat \ {0} /\ mod.rate \in 0 .. Full /\ Len(mod.defs) \in Nat /\ Len(mod.defs) > 0
  <2>1. Full \in Nat \ {0} /\ mod.rate \in 0 .. Full
    BY <1>2, LatchAssumption, Zenon
  <2>2. Len(mod.defs) \in Nat
    BY <1>2
  <2>3. QED
    BY <1>1, <1>2, <2>1, <2>2
<1> DEFINE wrap == mod.phase + mod.rate >= Full
           next == IF wrap THEN mod.phase + mod.rate - Full ELSE mod.phase + mod.rate
<1>4. wrap \in BOOLEAN
  BY <1>2, <1>3
<1>5. PICK phase \in 0 .. Full - 1 : phase = next
  <2>1. mod.phase + mod.rate \in 0 .. Full + Full - 1
    BY <1>2, <1>3
  <2>2. next \in 0 .. Full - 1
    BY <1>2, <1>3, <2>1
  <2>3. QED
    BY <2>2
<1>6. PICK seg \in 0 .. Len(mod.defs) - 1, local \in 0 .. Full - 1 :
         SegmentAt(phase).seg = seg /\ SegmentAt(phase).local = local
  BY <1>2, <1>3, SegmentAtType, Zenon
<1>7. PICK start \in Int : start = IF seg # mod.cur THEN mod.output ELSE mod.start
  BY <1>2
<1>8. PICK odd \in BOOLEAN : odd = (mod.odd # wrap)
  BY Zenon
<1>9. PICK d \in Definitions : d = mod.defs[seg + 1]
  <2>1. seg + 1 \in 1 .. Len(mod.defs)
    BY <1>3
  <2>2. QED
    BY <1>2, <2>1
<1>10. PICK out \in Int : out = SegmentValue(d, start, local, odd)
  BY SegmentValueOf
<1>11. /\ d.kind = "hold" => out = start
       /\ d.kind = "ramp" => Between(out, start, d.primary)
       /\ d.kind \in {"ramp", "step", "hold", "alt"}
  BY <1>10, SegmentValueOf DEF Definitions
<1>12. mod' = [mod EXCEPT !.phase = phase, !.cur = seg, !.odd = odd, !.start = start,
                          !.output = out]
  BY <1>4, <1>5, <1>6, <1>7, <1>8, <1>9, <1>10, Zenon DEF SegmentTick
<1>13. shown' = [value |-> out, held |-> d.kind = "hold"]
  BY <1>4, <1>5, <1>6, <1>7, <1>8, <1>9, <1>10 DEF SegmentTick
<1>14. /\ mod' \in Generators /\ mod'.cur = seg /\ mod'.defs = mod.defs
       /\ mod'.output = out /\ mod'.start = start
  <2>1. seg \in Nat
    BY <1>3
  <2>2. QED
    BY <1>1, <1>12, <2>1, Zenon DEF Generators
<1>15. shown'.value = out /\ shown'.held = (d.kind = "hold")
  BY <1>13
<1>16. mod'.defs[mod'.cur + 1] = d
  BY <1>9, <1>14
<1>17. mod'.cur < Len(mod'.defs)
  BY <1>3, <1>14
<1>18. LatchInv'
  BY <1>11, <1>14, <1>15, <1>16, <1>17 DEF LatchInv
<1>19. ASSUME mod'.cur # mod.cur
       PROVE  \/ d.kind \in {"step", "alt"}
              \/ shown'.held /\ shown'.value = shown.value
              \/ Between(shown'.value, shown.value, d.primary)
  <2>1. start = shown.value
    BY <1>1, <1>7, <1>14, <1>19
  <2>2. QED
    BY <1>11, <1>15, <2>1, Zenon
<1>20. ASSUME shown'.held PROVE shown'.value = shown.value
  <2>1. d.kind = "hold" /\ shown'.value = start
    BY <1>11, <1>15, <1>20, Zenon
  <2>2. CASE seg # mod.cur
    BY <1>1, <1>7, <2>1, <2>2
  <2>3. CASE seg = mod.cur
    BY <1>1, <1>7, <1>9, <2>1, <2>3
  <2>4. QED
    BY <2>2, <2>3
<1>21. HeldStep
  BY <1>16, <1>19, <1>20, Zenon DEF HeldStep
<1>22. QED
  BY <1>18, <1>21 DEF Good

\* update() of each of the four, and no step at all: what is held stays.
LEMMA BoolsUpdateGood ==
    ASSUME LatchInv, which = "bools", which' = which, BoolsUpdate, shown' = shown
    PROVE  Good
<1>1. mod \in Rings /\ (shown.held => shown.value = mod.latched)
  BY DEF LatchInv
<1>2. mod' \in Rings /\ mod'.latched = mod.latched
  <2>1. CASE \E j \in 0 .. 3 : mod' = [mod EXCEPT !.inputs[j] = ~@]
    <3>1. PICK j \in 0 .. 3 : mod' = [mod EXCEPT !.inputs[j] = ~@]
      BY <2>1
    <3>2. mod.inputs \in [0 .. 3 -> BOOLEAN]
      BY <1>1 DEF Rings
    <3>3. PICK f \in [0 .. 3 -> BOOLEAN] : f = [mod.inputs EXCEPT ![j] = ~@]
      BY <3>2, Zenon
    <3>4. mod' = [mod EXCEPT !.inputs = f]
      BY <3>1, <3>3
    <3>5. QED
      BY <1>1, <3>4 DEF Rings
  <2>2. CASE mod' = [mod EXCEPT !.sampled = ~@]
    BY <1>1, <2>2, Zenon DEF Rings
  <2>3. CASE mod' = [mod EXCEPT !.pending = TRUE]
    BY <1>1, <2>3, Zenon DEF Rings
  <2>4. QED
    BY <2>1, <2>2, <2>3 DEF BoolsUpdate
<1>3. QED
  BY <1>1, <1>2, Zenon DEF Good, LatchInv, HeldStep

LEMMA DecoderUpdateGood ==
    ASSUME LatchInv, which = "decoder", which' = which, DecoderUpdate, shown' = shown
    PROVE  Good
<1>1. mod \in Decoders /\ (shown.held => shown.value = mod.latched)
  BY DEF LatchInv
<1>2. mod' \in Decoders /\ mod'.latched = mod.latched
  BY <1>1, Zenon DEF Decoders, DecoderUpdate
<1>3. QED
  BY <1>1, <1>2, Zenon DEF Good, LatchInv, HeldStep

LEMMA StatuesUpdateGood ==
    ASSUME LatchInv, which = "statues", which' = which, StatuesUpdate, shown' = shown
    PROVE  Good
<1>1. mod \in Banks /\ shown.value = mod.slots
  BY DEF LatchInv
<1>2. mod' \in Banks /\ mod'.slots = mod.slots
  BY <1>1, Zenon DEF Banks, Pointers, StatuesUpdate
<1>3. QED
  BY <1>1, <1>2, Zenon DEF Good, LatchInv, HeldStep

\* A segment's values are replaced, not its kind.
Retuned ==
    /\ mod' \in Generators /\ mod'.cur = mod.cur /\ mod'.output = mod.output
    /\ mod'.start = mod.start /\ Len(mod'.defs) = Len(mod.defs)
    /\ \A j \in 1 .. Len(mod.defs) : mod'.defs[j].kind = mod.defs[j].kind

LEMMA DefinitionReplaced ==
    ASSUME mod \in Generators, NEW i \in 1 .. Len(mod.defs), NEW e \in Definitions,
           e.kind = mod.defs[i].kind, NEW s, s = [mod.defs EXCEPT ![i] = e],
           mod' = [mod EXCEPT !.defs = s]
    PROVE  Retuned
<1>1. mod.defs \in Seq(Definitions)
  BY DEF Generators
<1>2. PICK q \in Seq(Definitions) : q = mod.defs
  BY <1>1
<1>3. /\ s \in Seq(Definitions) /\ Len(s) = Len(q)
      /\ \A j \in 1 .. Len(q) : s[j] = IF j = i THEN e ELSE q[j]
  BY <1>2
<1>4. \A j \in 1 .. Len(q) : s[j].kind = q[j].kind
  BY <1>2, <1>3
<1>5. /\ mod' \in Generators /\ mod'.cur = mod.cur /\ mod'.output = mod.output
      /\ mod'.start = mod.start /\ mod'.defs = s
  BY <1>3, Zenon DEF Generators
<1>6. QED
  BY <1>2, <1>3, <1>4, <1>5 DEF Retuned

LEMMA SegmentUpdateGood ==
    ASSUME LatchInv, which = "segment", which' = which, SegmentUpdate, shown' = shown
    PROVE  Good
<1>1. /\ mod \in Generators /\ shown.value = mod.output
      /\ mod.cur < Len(mod.defs)
      /\ mod.defs[mod.cur + 1].kind = "hold" => mod.output = mod.start
  BY DEF LatchInv
<1>2. mod.defs \in Seq(Definitions) /\ mod.cur \in Nat
  BY <1>1 DEF Generators
<1>3. Len(mod.defs) \in Nat /\ DOMAIN mod.defs = 1 .. Len(mod.defs)
  BY <1>2
<1>4. Full \in Int /\ 0 \in Int
  BY LatchAssumption
<1>5. Retuned
  <2>1. ASSUME NEW i \in DOMAIN mod.defs, NEW v \in {0, Full},
               \/ mod' = [mod EXCEPT !.defs[i].primary = v]
               \/ mod' = [mod EXCEPT !.defs[i].secondary = v]
        PROVE  Retuned
    <3>1. i \in 1 .. Len(mod.defs)
      BY <1>3
    <3>2. mod.defs[i] \in Definitions /\ v \in Int
      BY <1>2, <1>4, <3>1
    <3>3. CASE mod' = [mod EXCEPT !.defs[i].primary = v]
      <4>1. PICK e \in Definitions :
               e = [mod.defs[i] EXCEPT !.primary = v] /\ e.kind = mod.defs[i].kind
        <5>1. PICK c \in Definitions : c = mod.defs[i]
          BY <3>2
        <5>2. /\ [c EXCEPT !.primary = v] \in Definitions
              /\ [c EXCEPT !.primary = v].kind = c.kind
          BY <3>2 DEF Definitions
        <5>3. QED
          BY <5>1, <5>2, Zenon
      <4>2. mod' = [mod EXCEPT !.defs = [mod.defs EXCEPT ![i] = e]]
        BY <3>3, <4>1
      <4>3. QED
        BY <1>1, <3>1, <4>1, <4>2, DefinitionReplaced, Zenon
    <3>4. CASE mod' = [mod EXCEPT !.defs[i].secondary = v]
      <4>1. PICK e \in Definitions :
               e = [mod.defs[i] EXCEPT !.secondary = v] /\ e.kind = mod.defs[i].kind
        <5>1. PICK c \in Definitions : c = mod.defs[i]
          BY <3>2
        <5>2. /\ [c EXCEPT !.secondary = v] \in Definitions
              /\ [c EXCEPT !.secondary = v].kind = c.kind
          BY <3>2 DEF Definitions
        <5>3. QED
          BY <5>1, <5>2, Zenon
      <4>2. mod' = [mod EXCEPT !.defs = [mod.defs EXCEPT ![i] = e]]
        BY <3>4, <4>1
      <4>3. QED
        BY <1>1, <3>1, <4>1, <4>2, DefinitionReplaced, Zenon
    <3>5. QED
      BY <2>1, <3>3, <3>4
  <2>2. ASSUME NEW rate \in Rates, mod' = [mod EXCEPT !.rate = rate]
        PROVE  Retuned
    BY <1>1, <2>2 DEF Generators, Retuned
  <2>3. QED
    BY <2>1, <2>2 DEF SegmentUpdate
<1>6. mod.cur + 1 \in 1 .. Len(mod.defs)
  BY <1>1, <1>2, <1>3
<1>7. QED
  BY <1>1, <1>5, <1>6, Zenon DEF Good, LatchInv, HeldStep, Retuned

\* Every step of the specification is good.
LEMMA LatchStepGood ==
    ASSUME LatchInv, LatchNext
    PROVE  Good
<1>1. which' = which
  BY DEF LatchNext
<1>2. CASE LatchTick
  BY <1>1, <1>2, BoolsTickGood, DecoderTickGood, StatuesTickGood, SegmentTickGood DEF LatchTick
<1>3. CASE LatchUpdate
  BY <1>1, <1>3, BoolsUpdateGood, DecoderUpdateGood, StatuesUpdateGood, SegmentUpdateGood
     DEF LatchUpdate
<1>4. QED
  BY <1>2, <1>3 DEF LatchNext

(* What was shown is what the modulator holds, for any address set, band count and
   segment definitions. *)
THEOREM LatchInvariance == LatchSpec => []LatchInv
<1>1. LatchInit => LatchInv
  <2> SUFFICES ASSUME LatchInit PROVE LatchInv
    OBVIOUS
  <2>1. shown.held = FALSE /\ (which = "statues" => shown.value = mod.slots)
                          /\ (which = "segment" => shown.value = 0)
    BY DEF LatchInit
  <2>2. CASE which = "bools" /\ BoolsInit
    <3>1. mod \in Rings
      <4>1. PICK mode \in Logic :
               mod = [mode |-> mode, inputs |-> [i \in 0 .. 3 |-> FALSE], sampled |-> FALSE,
                      prev |-> FALSE, pending |-> FALSE, latched |-> {}]
        BY <2>2, Zenon DEF BoolsInit
      <4>2. [i \in 0 .. 3 |-> FALSE] \in [0 .. 3 -> BOOLEAN]
        OBVIOUS
      <4>3. QED
        BY <4>1, <4>2 DEF Rings
    <3>2. QED
      BY <2>1, <2>2, <3>1 DEF LatchInv
  <2>3. CASE which = "decoder" /\ DecoderInit
    <3>1. Half \in Nat
      BY LatchAssumption DEF Half
    <3>2. mod \in Decoders
      BY <2>3, <3>1 DEF DecoderInit, Decoders
    <3>3. QED
      BY <2>1, <2>3, <3>2 DEF LatchInv
  <2>4. CASE which = "statues" /\ StatuesInit
    <3>1. mod \in Banks
      BY <2>4 DEF StatuesInit, Banks, Pointers
    <3>2. QED
      BY <2>1, <2>4, <3>1 DEF LatchInv
  <2>5. CASE which = "segment" /\ SegmentInit
    <3>1. PICK defs \in Segments, rate \in Rates :
             mod = [defs |-> defs, rate |-> rate, phase |-> 0, cur |-> 0, odd |-> FALSE,
                    start |-> 0, output |-> 0]
      BY <2>5, Zenon DEF SegmentInit
    <3>2. defs \in Seq(Definitions) /\ defs # << >> /\ Full \in Nat \ {0}
      BY LatchAssumption
    <3>3. Len(defs) > 0
      BY <3>2
    <3>4. mod \in Generators
      <4>1. 0 \in 0 .. Full - 1 /\ 0 \in Nat /\ 0 \in Int
        BY <3>2
      <4>2. QED
        BY <3>1, <3>2, <4>1 DEF Generators
    <3>5. QED
      BY <2>1, <2>5, <3>1, <3>3, <3>4 DEF LatchInv
  <2>6. QED
    BY <2>2, <2>3, <2>4, <2>5 DEF LatchInit
<1>2. LatchInv /\ [LatchNext]_latchVars => LatchInv'
  <2>1. ASSUME LatchInv, UNCHANGED latchVars
        PROVE  LatchInv'
    BY <2>1 DEF LatchInv, latchVars
  <2>2. QED
    BY <2>1, LatchStepGood DEF Good
<1>3. QED
  BY <1>1, <1>2, PTL DEF LatchSpec

(* A value that bools-ring, the CV channel decoder, statues or a segment holds changes
   only when it is latched anew. *)
THEOREM HeldValuesKept == LatchSpec => HeldValues
<1>1. LatchInv /\ [LatchNext]_latchVars => [HeldStep]_latchVars
  BY LatchStepGood DEF Good
<1>2. QED
  BY <1>1, LatchInvariance, PTL DEF LatchSpec, HeldValues
================================================================================

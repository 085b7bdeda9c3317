----------------------------- MODULE SlewGenerator -----------------------------
(***************************************************************************)
(* slew_modulator: a lag filter that becomes a rise/fall generator while a *)
(* trigger or the cycle switch runs it.                                    *)
(*                                                                         *)
(* current_ is a level from 0 (output -1) to Top (output +1).  A tick of   *)
(* the one-pole filter moves it towards its target by some amount that     *)
(* depends on the times and the tick rate, never past it; Top and 0 stand  *)
(* for the levels within kThresh of the ends.  update() and tick() are one *)
(* step each: PulseInput has the race on trig_pending_.                    *)
(***************************************************************************)
EXTENDS Integers

CONSTANT Top    \* the highest level

ASSUME TopAssumption == Top \in Nat

VARIABLES
    stage,      \* stage_
    level,      \* current_
    input,      \* input_
    cycle,      \* cycle_
    trig,       \* trig_pending_
    eor,        \* eor_
    eoc,        \* eoc_
    edges,      \* history: the last two of the triggers, eor and eoc
    cycled,     \* history: cycle was on in a tick since the last trigger or eoc
    from        \* history: the level the last tick started from

slewVars == <<stage, level, input, cycle, trig, eor, eoc, edges, cycled, from>>

SlewInit ==
    /\ stage = "idle" /\ level = Top \div 2 /\ input = Top \div 2
    /\ cycle = FALSE /\ trig = FALSE /\ eor = FALSE /\ eoc = FALSE
    /\ edges = <<"none", "none">> /\ cycled = FALSE /\ from = level

\* One step of the filter: closer to the target, unless it is there.
Slewed(v, target) ==
    IF v = target THEN {v}
    ELSE IF v < target THEN v + 1 .. target ELSE target .. v - 1

\* History: the last two edges, after e if it happened.
Seen(q, happened, e) == IF happened THEN <<q[2], e>> ELSE q

\* tick() with no tick rate.
SlewHold ==
    /\ eor' = FALSE /\ eoc' = FALSE /\ from' = level
    /\ UNCHANGED <<stage, level, input, cycle, trig, edges, cycled>>

\* A pending trigger snaps the output to the bottom and starts a rise; cycle mode
\* starts one whenever none runs.
Snapped == IF trig THEN 0 ELSE level

\* Mutant: a trigger is left to finish the fall in progress.
StageRunUninterrupted ==
    IF stage = "idle" /\ (trig \/ cycle) THEN "rising" ELSE stage

StageRun == IF trig \/ (cycle /\ stage = "idle") THEN "rising" ELSE stage

Target == CASE StageRun = "idle" -> input [] StageRun = "rising" -> Top [] StageRun = "falling" -> 0

SlewTick ==
    LET run == StageRun IN
    /\ trig' = FALSE
    /\ level' \in Slewed(Snapped, Target)
    /\ eor' = (run = "rising" /\ level' = Top)
    /\ eoc' = (run = "falling" /\ level' = 0)
    /\ stage' = IF eor' THEN "falling" ELSE IF eoc' THEN "idle" ELSE run
    /\ edges' = Seen(Seen(Seen(edges, trig, "trig"), eor', "eor"), eoc', "eoc")
    /\ cycled' = IF eoc' \/ (trig /\ ~eor') THEN FALSE ELSE cycled \/ cycle
    /\ from' = Snapped
    /\ UNCHANGED <<input, cycle>>

\* update("input", v), update("cycle", v), update("trig", 1).
UpdateInput(v) ==
    /\ input' = v
    /\ UNCHANGED <<stage, level, cycle, trig, eor, eoc, edges, cycled, from>>
UpdateCycle(on) ==
    /\ cycle' = on
    /\ UNCHANGED <<stage, level, input, trig, eor, eoc, edges, cycled, from>>
UpdateTrig ==
    /\ trig' = TRUE
    /\ UNCHANGED <<stage, level, input, cycle, eor, eoc, edges, cycled, from>>

SlewNext ==
    \/ SlewHold \/ SlewTick \/ UpdateTrig
    \/ \E v \in 0 .. Top : UpdateInput(v)
    \/ \E on \in BOOLEAN : UpdateCycle(on)

SlewSpec == SlewInit /\ [][SlewNext]_slewVars

(* "eor()/eoc() fire for exactly one tick at the top/bottom transition.  They do not
   fire in lag mode."  Whatever the order of triggers, cycle switches, inputs and
   ticks: every eor ends one rise, which a trigger or cycle mode began; every eoc
   follows the eor of the same cycle, with no trigger in between; from a trigger to
   its eor the output never falls, and from an eor to its eoc it never rises,
   whatever the input. *)
EnvelopeShape ==
    /\ eor => level = Top /\ edges[2] = "eor"
    /\ eoc => level = 0 /\ edges[2] = "eoc"
    /\ edges[2] = "eoc" => edges[1] = "eor"
    /\ edges[2] = "eor" => edges[1] = "trig" \/ (edges[1] # "eor" /\ cycled)
    /\ edges[2] = "trig" => level >= from
    /\ edges[2] = "eor" /\ ~eor => level <= from

Edges == {"none", "trig", "eor", "eoc"}

(* Why EnvelopeShape holds: the last edge tells what the generator does, and a rise
   that no trigger began is one of cycle mode. *)
SlewInv ==
    /\ stage \in {"idle", "rising", "falling"}
    /\ level \in 0 .. Top /\ input \in 0 .. Top /\ from \in 0 .. Top
    /\ cycle \in BOOLEAN /\ trig \in BOOLEAN /\ eor \in BOOLEAN /\ eoc \in BOOLEAN
    /\ cycled \in BOOLEAN /\ edges \in Edges \X Edges
    /\ stage = "falling" <=> edges[2] = "eor"
    /\ edges[2] = "trig" => stage = "rising"
    /\ stage = "rising" => edges[2] = "trig" \/ cycled
    /\ EnvelopeShape
================================================================================

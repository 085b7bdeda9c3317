------------------------------- MODULE PulseInput -------------------------------
(***************************************************************************)
(* One-shot inputs of modulators.  update("clock_tick", 1) and its like,   *)
(* on the control thread under write_mu_, set a plain bool; tick(), on the *)
(* event thread inside an RCU section, reads and clears it.  Nothing       *)
(* orders the two: modulator_engine.hpp calls the race benign.  Each       *)
(* access of the bool is a step of its own here.                           *)
(*                                                                         *)
(* tick() consumes the bool in three ways:                                 *)
(*   ClearFirst   slew: if set, clear it, then act                         *)
(*   ClearLast    divine-cmos, cv-channel-decoder: if set, act, then clear *)
(*   ClearAlways  cipher, bools-ring, squid-axon: read it, clear it        *)
(*                whatever it was, act if it was set                       *)
(* No source modulator is wired to the input here, so only update() makes  *)
(* tick() act.                                                             *)
(***************************************************************************)
EXTENDS Naturals

CONSTANTS
    Mods,     \* the modulators, ticked one after the other
    StyleOf,  \* how each of them consumes its input
    MaxArms   \* update() calls per modulator

Styles == {"ClearFirst", "ClearLast", "ClearAlways"}

ASSUME PulseAssumption ==
    /\ StyleOf \in [Mods -> Styles]
    /\ MaxArms \in Nat

VARIABLES
    pending,  \* clock_pending_, sample_pending_, trig_pending_
    tpc,      \* where tick() of each modulator is
    edge,     \* tick()'s decision to act
    arms,     \* update() calls so far
    acts,     \* actions taken on behalf of a pulse
    owed,     \* history: no action has been taken since the last update()
    late      \* history: the last update() came in the window before a clear

vars == <<pending, tpc, edge, arms, acts, owed, late>>

TypeOK ==
    /\ pending \in [Mods -> BOOLEAN]
    /\ tpc \in [Mods -> {"rest", "clear", "act"}]
    /\ edge \in [Mods -> BOOLEAN]
    /\ arms \in [Mods -> 0 .. MaxArms] /\ acts \in [Mods -> Nat]
    /\ owed \in [Mods -> BOOLEAN] /\ late \in [Mods -> BOOLEAN]

Init ==
    /\ pending = [m \in Mods |-> FALSE]
    /\ tpc = [m \in Mods |-> "rest"] /\ edge = [m \in Mods |-> FALSE]
    /\ arms = [m \in Mods |-> 0] /\ acts = [m \in Mods |-> 0]
    /\ owed = [m \in Mods |-> FALSE] /\ late = [m \in Mods |-> FALSE]

\* tick() is about to clear a flag whose pulse it has already acted upon, or has
\* not seen.  slew clears only a flag it has seen and acts afterwards.
Window(m) == tpc[m] = "clear" /\ StyleOf[m] # "ClearFirst"

\* update(key, 1): the one-shot flag is set.
Update(m) ==
    /\ arms[m] < MaxArms
    /\ pending' = [pending EXCEPT ![m] = TRUE]
    /\ arms' = [arms EXCEPT ![m] = @ + 1]
    /\ owed' = [owed EXCEPT ![m] = TRUE]
    /\ late' = [late EXCEPT ![m] = Window(m)]
    /\ UNCHANGED <<tpc, edge, acts>>

\* The engine ticks one modulator at a time.
AtRest == \A m \in Mods : tpc[m] = "rest"

\* tick() reads the flag; what follows depends on how it consumes it.
TickReadClearAlways(m) ==
    /\ StyleOf[m] = "ClearAlways"
    /\ tpc' = [tpc EXCEPT ![m] = "clear"]

TickReadClearLast(m) ==
    /\ StyleOf[m] = "ClearLast"
    /\ tpc' = [tpc EXCEPT ![m] = IF pending[m] THEN "act" ELSE "rest"]

\* Mutant: the flag is cleared without having been tested.
TickReadUntested(m) ==
    /\ StyleOf[m] = "ClearFirst"
    /\ tpc' = [tpc EXCEPT ![m] = "clear"]

TickReadClearFirst(m) ==
    /\ StyleOf[m] = "ClearFirst"
    /\ tpc' = [tpc EXCEPT ![m] = IF pending[m] THEN "clear" ELSE "rest"]

TickRead(m) ==
    /\ AtRest
    /\ edge' = [edge EXCEPT ![m] = pending[m]]
    /\ TickReadClearAlways(m) \/ TickReadClearLast(m) \/ TickReadClearFirst(m)
    /\ UNCHANGED <<pending, arms, acts, owed, late>>

\* Mutant: the flag stays set.
TickClearForgets(m) ==
    /\ tpc[m] = "clear"
    /\ tpc' = [tpc EXCEPT ![m] = IF StyleOf[m] = "ClearLast" THEN "rest" ELSE "act"]
    /\ UNCHANGED <<pending, edge, arms, acts, owed, late>>

\* The flag is cleared.
TickClear(m) ==
    /\ tpc[m] = "clear"
    /\ pending' = [pending EXCEPT ![m] = FALSE]
    /\ tpc' = [tpc EXCEPT ![m] = IF StyleOf[m] = "ClearLast" THEN "rest" ELSE "act"]
    /\ UNCHANGED <<edge, arms, acts, owed, late>>

\* The clocked work: shift the register, latch the bitmap, advance the counter,
\* restart the envelope.
TickAct(m) ==
    /\ tpc[m] = "act"
    /\ acts' = [acts EXCEPT ![m] = IF edge[m] THEN @ + 1 ELSE @]
    /\ owed' = [owed EXCEPT ![m] = IF edge[m] THEN FALSE ELSE @]
    /\ tpc' = [tpc EXCEPT ![m] = IF StyleOf[m] = "ClearLast" THEN "clear" ELSE "rest"]
    /\ UNCHANGED <<pending, edge, arms, late>>

Next == \E m \in Mods : Update(m) \/ TickRead(m) \/ TickClear(m) \/ TickAct(m)

Spec == Init /\ [][Next]_vars

-----------------------------------------------------------------------------

(* "arms one clock edge (one-shot)": while a modulator is at rest between two
   ticks, a pulse that has not been acted upon since update() set it is still
   pending, unless it came in the window between tick()'s look at the flag and its
   clearing it.  slew has no such window and loses no pulse at all. *)
PulseIsKept == \A m \in Mods : tpc[m] = "rest" /\ owed[m] => pending[m] \/ late[m]

Pulse(b) == IF b THEN 1 ELSE 0

(* One-shot: an update() causes at most one action of tick(), however their
   accesses interleave, in whichever way tick() consumes the flag. *)
PulseIsOneShot ==
    \A m \in Mods : tpc[m] = "rest" => acts[m] + Pulse(pending[m]) <= arms[m]

\* The actions modulator m has still to take for the pulses so far.
Due(m) ==
    IF StyleOf[m] = "ClearLast" THEN Pulse(pending[m] /\ tpc[m] # "clear")
    ELSE Pulse(pending[m]) + Pulse(tpc[m] = "act" /\ edge[m])

(* Why, as an invariant every step preserves: a tick() that saw the flag set still
   has it set until it clears it, a pulse not yet acted upon is pending, decided
   upon or late, and the actions taken and still to take never outnumber the
   update() calls. *)
PulseInv ==
    /\ TypeOK
    /\ \A m \in Mods :
          /\ tpc[m] = "clear" /\ StyleOf[m] # "ClearAlways" => edge[m] /\ pending[m]
          /\ tpc[m] = "clear" /\ edge[m] => pending[m]
          /\ tpc[m] = "act" /\ StyleOf[m] # "ClearAlways" => edge[m]
          /\ tpc[m] = "act" /\ StyleOf[m] = "ClearLast" => pending[m]
          /\ tpc[m] = "clear" /\ owed[m] /\ ~late[m] => edge[m] /\ StyleOf[m] # "ClearLast"
          /\ owed[m] => pending[m] \/ late[m] \/ (tpc[m] = "act" /\ edge[m])
          /\ late[m] => StyleOf[m] # "ClearFirst"
          /\ acts[m] + Due(m) <= arms[m]
================================================================================

--------------------------- MODULE ModulatorRegistry ---------------------------
(***************************************************************************)
(* What modulator_engine promises of start() and stop(): an ordered table  *)
(* of modulators that each call changes in one atomic step.                *)
(***************************************************************************)
EXTENDS Naturals, Sequences, FiniteSets

CONSTANTS Ids, Instances

VARIABLES
    order,      \* ids in tick order
    mods,       \* the modulator running under each of them
    destroyed   \* the engine is gone

registryVars == <<order, mods, destroyed>>

RegistryInit == order = << >> /\ mods = << >> /\ destroyed = FALSE

\* What is left of q, in its order, without the places that hold id.
Without(q, id) ==
    LET left    == {k \in DOMAIN q : q[k] # id}
        Rank(k) == Cardinality({j \in left : j <= k})
    IN  [n \in 1 .. Cardinality(left) |-> q[CHOOSE k \in left : Rank(k) = n]]

\* "Replaces any existing modulator with the same id, preserving its position
\* in tick order."
StartMod(id, inst) ==
    /\ ~destroyed /\ UNCHANGED destroyed
    /\ order' = IF id \in DOMAIN mods THEN order ELSE Append(order, id)
    /\ mods' = [x \in DOMAIN mods \cup {id} |-> IF x = id THEN inst ELSE mods[x]]

\* "Remove and destroy the modulator with the given id.  No-op if absent."
StopMod(id) ==
    /\ ~destroyed /\ UNCHANGED destroyed
    /\ order' = Without(order, id)
    /\ mods' = [x \in DOMAIN mods \ {id} |-> mods[x]]

\* The engine is destroyed with every modulator in it.
Destroyed == ~destroyed /\ destroyed' = TRUE /\ order' = << >> /\ mods' = << >>

RegistryNext ==
    \/ Destroyed
    \/ \E id \in Ids : StopMod(id) \/ \E inst \in Instances : StartMod(id, inst)
================================================================================

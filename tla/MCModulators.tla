------------------------------ MODULE MCModulators ------------------------------
(***************************************************************************)
(* The modulators with a state of their own, for TLC.  A behaviour is one  *)
(* of one of them, or of a few that are patched to each other, or of the   *)
(* flags that update() shares with tick().                                 *)
(***************************************************************************)
EXTENDS Integers, Sequences, PulseInput, LfsrPeriod, Cipher, ClockPatch, SlewGenerator,
        Stochastic, Latches

CONSTANTS
    m1, m2, m3, MaxTicks

VARIABLES
    kind,
    graph, nodes, outs, values, params, out, seen

-----------------------------------------------------------------------------
(* Graph expressions: every operator, with and without its optional operands,
   stateful ones side by side, and operands that do not parse. *)

Dbl(v)   == [t |-> "double", v |-> v]
Int64(v) == [t |-> "int", v |-> v]
Kw(s)    == [t |-> "keyword", name |-> s]
Vec(q)   == [t |-> "vector", items |-> q]
Bad      == [t |-> "other"]
F0(op)          == Vec(<<Kw(op)>>)
F1(op, a)       == Vec(<<Kw(op), a>>)
F2(op, a, b)    == Vec(<<Kw(op), a, b>>)
F3(op, a, b, c) == Vec(<<Kw(op), a, b, c>>)

Rate  == F1("param", Kw("k"))
Phase == F1("phasor", Rate)
X     == F1("mod_out", Kw("x"))
Aux   == F2("mod_out", Kw("x"), Kw("aux"))
Gate  == F2("mod_out", Kw("x"), Kw("gate"))

Graphs == {
    [cv |-> F1("sin", Phase), aux |-> F1("cos", Phase),
     gate |-> F2("square", Phase, Dbl(25)), gate2 |-> F1("square", Phase)],
    [cv |-> F1("tri", Phase), aux |-> F1("saw", F0("phasor"))],
    [cv |-> F2("add", F1("phasor", Dbl(100)), F2("mul", F1("phasor", Dbl(200)), Rate))],
    [cv |-> F2("sample_hold", F0("beat"), Gate),
     gate |-> F2("threshold", F1("beat_phase", Dbl(50)), Rate)],
    [cv |-> F2("sample_hold", F3("slew", X, Dbl(50), Dbl(100)),
                              F2("comparator", Phase, F1("const", Dbl(40))))],
    [cv |-> F1("slew", F3("mix", X, Aux, Rate)), aux |-> F2("slew", X, Rate)],
    [cv |-> F1("neg", F1("abs", F3("scale", Rate, Dbl(-100), Int64(100)))),
     aux |-> F3("clamp", F2("add", F0("beat"), Rate), Dbl(50), Dbl(150))],
    [cv |-> F1("clamp", F2("mix", F0("beat_phase"), X)), aux |-> F2("add", Bad, F1("scale", Rate))],
    [cv |-> F2("add", F1("const", Int64(100)), F0("unknown")), aux |-> Vec(<< >>),
     gate |-> F1("threshold", Rate),
     gate2 |-> F2("comparator", F1("mod_out", Kw("y")), F0("neg"))] }

Envs == {
    [beat |-> 0, dt |-> 25, mods |-> << >>],
    [beat |-> 130, dt |-> 25, mods |-> [x |-> [cv |-> 100, aux |-> -50, gate |-> 100, gate2 |-> 0]]],
    [beat |-> 60, dt |-> 0, mods |-> [x |-> [cv |-> -30, aux |-> 0, gate |-> 0, gate2 |-> 100]]] }

\* Rates are not negative: a phasor that runs backwards leaves [0, 1).
Keys == {"k"}
Values == {0, 100, 900}

-----------------------------------------------------------------------------

\* One modulator for each way of consuming a pulse.
OneOfEach == [x \in Mods |-> IF x = m1 THEN "ClearFirst"
                             ELSE IF x = m2 THEN "ClearLast" ELSE "ClearAlways"]

Segment(k, p, s) == [kind |-> k, primary |-> p, secondary |-> s]

\* Every kind of segment after another kind, and a single segment.
SegmentDefs == {
    <<Segment("ramp", Full, 0), Segment("hold", 0, 0), Segment("step", 2, 0), Segment("alt", 0, Full)>>,
    <<Segment("ramp", Full, 0), Segment("ramp", 0, 0), Segment("hold", 0, 0)>>,
    <<Segment("ramp", Full, 0)>> }

-----------------------------------------------------------------------------

GM == INSTANCE GraphModulator

None == "none"
NoGraph ==
    /\ graph = None /\ nodes = None /\ outs = None /\ values = None /\ params = None
    /\ out = None /\ seen = None

gmVars == <<graph, nodes, outs, values, params, out, seen>>
all == <<kind, vars, shiftVars, stochasticVars, gmVars, slewVars, cipherVars, patchVars, latchVars>>

MCInit ==
    /\ kind \in {"pulse", "shift_register", "stochastic", "graph", "slew", "cipher", "patch", "latch"}
    /\ Init /\ CipherInit /\ SlewInit /\ StochasticInit
    /\ PatchInit /\ (kind # "patch" => ~running /\ after = {})
    /\ LatchInit /\ (kind # "latch" => which = "decoder")
    /\ ShiftInit /\ (kind # "shift_register" => mode = "open" /\ length = 2)
    /\ IF kind = "graph" THEN GM!Init ELSE NoGraph

Pulses ==
    /\ kind = "pulse" /\ Next
    /\ UNCHANGED <<kind, shiftVars, stochasticVars, gmVars, slewVars, cipherVars, patchVars, latchVars>>

Single ==
    /\ \/ kind = "shift_register" /\ ShiftNext /\ UNCHANGED <<stochasticVars, gmVars, slewVars, latchVars>>
       \/ kind = "stochastic" /\ StochasticNext /\ UNCHANGED <<shiftVars, gmVars, slewVars, latchVars>>
       \/ kind = "graph" /\ GM!Next /\ UNCHANGED <<shiftVars, stochasticVars, slewVars, latchVars>>
       \/ kind = "slew" /\ SlewNext /\ UNCHANGED <<shiftVars, stochasticVars, gmVars, latchVars>>
       \/ kind = "latch" /\ LatchNext /\ UNCHANGED <<shiftVars, stochasticVars, gmVars, slewVars>>
    /\ UNCHANGED <<kind, vars, cipherVars, patchVars>>

Patched ==
    /\ \/ kind = "cipher" /\ CipherNext /\ UNCHANGED patchVars
       \/ kind = "patch" /\ PatchNext /\ UNCHANGED cipherVars
    /\ UNCHANGED <<kind, vars, shiftVars, stochasticVars, gmVars, slewVars, latchVars>>

MCSpec == MCInit /\ [][Pulses \/ Single \/ Patched]_all

(* graph_modulator's forward pass computes what the expression means. *)
GraphComputesExpression == kind = "graph" => GM!GraphComputesExpression
================================================================================

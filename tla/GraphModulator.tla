----------------------------- MODULE GraphModulator -----------------------------
(***************************************************************************)
(* graph_modulator: an EDN expression compiled by parse_node into nodes,   *)
(* each after the nodes it reads, and evaluated by one forward pass per    *)
(* tick over nodes that carry their own state.                             *)
(*                                                                         *)
(* Numbers are fixed-point hundredths.  Sine and cosine are known at the   *)
(* quarter turns; expressions use them there only.                         *)
(***************************************************************************)
EXTENDS Integers, Sequences, SequencesExt

CONSTANTS
    Graphs,     \* graph expressions: functions from output names to EDN values
    Envs,       \* what a tick may find: beat, dt, and the outputs of other modulators
    Keys,       \* parameter names
    Values,     \* parameter values
    MaxTicks    \* bound: ticks

VARIABLES
    graph,      \* history: the expression that was parsed
    nodes,      \* graph_.nodes
    outs,       \* graph_.out_cv, out_aux, out_gate, out_gate2
    values,     \* values_
    params,     \* graph_.params
    out,        \* the last modulator_output
    seen        \* history: what each tick found, parameters included

gmVars == <<graph, nodes, outs, values, params, out, seen>>

One  == 100
Half == 50

-----------------------------------------------------------------------------
(* EDN values, as far as the parser tells them apart                       *)

Dbl(v)   == [t |-> "double", v |-> v]
Int64(v) == [t |-> "int", v |-> v]
Kw(s)    == [t |-> "keyword", name |-> s]
Vec(q)   == [t |-> "vector", items |-> q]
Other    == [t |-> "other"]

-----------------------------------------------------------------------------
(* parse_node                                                              *)

\* The inputs of each operator: Req for child(i), otherwise the default of
\* child_or_const(i, default).  Operators without inputs are in Leaves.  (Hyphens
\* of operator names are underscores here.)
Req == [t |-> "required"]
Leaves == {"const", "param", "mod_out", "beat"}
InputsOf == [
    phasor |-> <<Dbl(One)>>, sin |-> <<Req>>, cos |-> <<Req>>, tri |-> <<Req>>,
    saw |-> <<Req>>, square |-> <<Req, Dbl(Half)>>,
    scale |-> <<Req, Dbl(0), Dbl(One)>>, clamp |-> <<Req, Dbl(0), Dbl(One)>>,
    add |-> <<Req, Req>>, mul |-> <<Req, Req>>, neg |-> <<Req>>, abs |-> <<Req>>,
    mix |-> <<Req, Req, Dbl(Half)>>, slew |-> <<Req, Dbl(1), Dbl(1)>>,
    threshold |-> <<Req, Dbl(Half)>>, comparator |-> <<Req, Req>>,
    beat_phase |-> <<Dbl(One)>>, sample_hold |-> <<Req, Req>> ]

Item(items, i) == IF Len(items) >= i THEN items[i] ELSE Other

\* What a node of each kind keeps besides its inputs.
Arg(op, items) ==
    CASE op = "const" /\ Item(items, 2).t = "double" -> items[2].v
      [] op \in {"param", "mod_out"} /\ Item(items, 2).t = "keyword" -> items[2].name
      [] op \in {"param", "mod_out"} -> ""
      [] OTHER -> 0
Field(op, items) ==
    IF op = "mod_out" /\ Item(items, 3).t = "keyword" /\ items[3].name \in {"aux", "gate", "gate2"}
    THEN items[3].name ELSE "cv"

Node(op, arg, field, inputs) ==
    [op |-> op, arg |-> arg, field |-> field, inputs |-> inputs, state |-> <<0, 0>>]

NoNode == 0   \* index -1

RECURSIVE ParseNode(_, _), ParseInputs(_, _, _)

\* The nodes with those of value v appended, and the index of v's own node.
ParseNode(v, ns) ==
    IF v.t \in {"double", "int"} THEN
        [nodes |-> Append(ns, Node("const", v.v, "cv", << >>)), at |-> Len(ns) + 1]
    ELSE IF v.t # "vector" \/ Item(IF v.t = "vector" THEN v.items ELSE << >>, 1).t # "keyword" THEN
        [nodes |-> ns, at |-> NoNode]
    ELSE LET op == v.items[1].name IN
        IF op \in Leaves THEN
            [nodes |-> Append(ns, Node(op, Arg(op, v.items), Field(op, v.items), << >>)),
             at |-> Len(ns) + 1]
        ELSE IF op \in DOMAIN InputsOf THEN
            LET p == ParseInputs(v.items, InputsOf[op], [nodes |-> ns, inputs |-> << >>]) IN
            [nodes |-> Append(p.nodes, Node(op, 0, "cv", p.inputs)), at |-> Len(p.nodes) + 1]
        ELSE [nodes |-> ns, at |-> NoNode]

\* The remaining inputs, from left to right.
ParseInputs(items, specs, acc) ==
    LET i == Len(acc.inputs) + 1 IN
    IF i > Len(specs) THEN acc
    ELSE LET given == Len(items) > i
             p == IF given \/ specs[i] # Req
                  THEN ParseNode(IF given THEN items[i + 1] ELSE specs[i], acc.nodes)
                  ELSE [nodes |-> acc.nodes, at |-> NoNode]
         IN  ParseInputs(items, specs, [nodes |-> p.nodes, inputs |-> Append(acc.inputs, p.at)])

\* parse_control_graph: the outputs in the code's order.  A single expression is
\* a graph with the output cv only.
OutNames == <<"cv", "aux", "gate", "gate2">>

ParseControlGraph(g) ==
    FoldLeft(LAMBDA acc, name :
                 IF name \notin DOMAIN g THEN acc
                 ELSE LET p == ParseNode(g[name], acc.nodes) IN
                      [nodes |-> p.nodes, outs |-> [acc.outs EXCEPT ![name] = p.at]],
             [nodes |-> << >>, outs |-> [name \in {"cv", "aux", "gate", "gate2"} |-> NoNode]],
             OutNames)

-----------------------------------------------------------------------------
(* eval_node                                                               *)

Clamp(v, lo, hi) == IF v < lo THEN lo ELSE IF v > hi THEN hi ELSE v
Times(a, b) == (a * b) \div One
Bool(b) == IF b THEN One ELSE 0
Sine(p) == <<0, One, 0, -One>>[((p % One) \div 25) + 1]

\* params and last_output(); a modulator without an output is not in `mods`.
ParamRef(ps, key) == IF key \in DOMAIN ps THEN ps[key] ELSE 0
ModRef(mods, id, field) == IF id \in DOMAIN mods THEN mods[id][field] ELSE 0

\* The stateless operators.
Pure(op, a) ==
    CASE op = "sin"    -> Sine(a[1])
      [] op = "cos"    -> Sine(a[1] + 25)
      [] op = "tri"    -> IF a[1] < Half THEN 4 * a[1] - One ELSE 3 * One - 4 * a[1]
      [] op = "saw"    -> 2 * a[1] - One
      [] op = "square" -> IF a[1] < a[2] THEN One ELSE -One
      [] op = "scale"  -> a[2] + Times(a[1], a[3] - a[2])
      [] op = "clamp"  -> Clamp(a[1], a[2], a[3])
      [] op = "add"    -> a[1] + a[2]
      [] op = "mul"    -> Times(a[1], a[2])
      [] op = "neg"    -> -a[1]
      [] op = "abs"    -> IF a[1] < 0 THEN -a[1] ELSE a[1]
      [] op = "mix"    -> LET t == Clamp(a[3], 0, One) IN Times(a[1], One - t) + Times(a[2], t)
      [] op \in {"threshold", "comparator"} -> Bool(a[1] > a[2])
\* Nodes that read no other node.
Leaf(op, arg, field, env) ==
    CASE op = "const"   -> arg
      [] op = "param"   -> ParamRef(env.params, arg)
      [] op = "mod_out" -> ModRef(env.mods, arg, field)
      [] op = "beat"    -> env.beat

BeatPhase(beat, period) == IF period <= 0 THEN 0 ELSE ((beat * One) \div period) % One

\* Mutant: the phase is wrapped by subtracting one, as other modulators do.
WrapOnce(p) == IF p >= One THEN p - One ELSE p

\* if (ph >= 1) ph -= floor(ph)
Wrap(p) == IF p >= One THEN p % One ELSE p

Slewed(cur, a, dt) ==
    IF a[1] > cur
    THEN IF a[2] > 0 THEN Clamp(cur + (dt * One) \div a[2], cur, a[1]) ELSE a[1]
    ELSE IF a[3] > 0 THEN Clamp(cur - (dt * One) \div a[3], a[1], cur) ELSE a[1]

\* A node's value and its state afterwards.
EvalNode(n, vals, env) ==
    LET a == [k \in DOMAIN n.inputs |-> IF n.inputs[k] = NoNode THEN 0 ELSE vals[n.inputs[k]]]
        held == IF a[2] > Half /\ n.state[2] <= Half THEN a[1] ELSE n.state[1]
        cur == Slewed(n.state[1], a, env.dt)
    IN  CASE n.op \in Leaves -> [val |-> Leaf(n.op, n.arg, n.field, env), state |-> n.state]
          [] n.op = "beat_phase" -> [val |-> BeatPhase(env.beat, a[1]), state |-> n.state]
          [] n.op = "phasor" ->
                [val |-> n.state[1], state |-> <<Wrap(n.state[1] + Times(a[1], env.dt)), 0>>]
          [] n.op = "slew" -> [val |-> cur, state |-> <<cur, 0>>]
          [] n.op = "sample_hold" -> [val |-> held, state |-> <<held, a[2]>>]
          [] OTHER -> [val |-> Pure(n.op, a), state |-> n.state]

-----------------------------------------------------------------------------
(* graph_modulator                                                         *)

NoOutput == [cv |-> 0, aux |-> 0, gate |-> FALSE, gate2 |-> FALSE]

Init ==
    /\ graph \in Graphs
    /\ LET g == ParseControlGraph(graph) IN
         nodes = g.nodes /\ outs = g.outs /\ values = [i \in DOMAIN g.nodes |-> 0]
    /\ params \in {<< >>} \cup [Keys -> Values] /\ out = NoOutput /\ seen = << >>

\* The forward pass: every node in turn, reading the values found so far.
Pass(env) ==
    FoldLeftDomain(LAMBDA acc, i :
                       LET r == EvalNode(acc.nodes[i], acc.values, env) IN
                       [values |-> [acc.values EXCEPT ![i] = r.val],
                        nodes  |-> [acc.nodes EXCEPT ![i].state = r.state]],
                   [values |-> values, nodes |-> nodes], nodes)

\* The value of an output, `none` if it has no node.
Output(vals, name, none) == IF outs[name] = NoNode THEN none ELSE vals[outs[name]]

Tick(found) ==
    LET env == [beat |-> found.beat, dt |-> found.dt, mods |-> found.mods, params |-> params]
        p == Pass(env)
    IN  /\ Len(seen) < MaxTicks
        /\ nodes' = p.nodes /\ values' = p.values
        /\ out' = [cv    |-> Output(p.values, "cv", 0),
                   aux   |-> Output(p.values, "aux", 0),
                   gate  |-> Output(p.values, "gate", 0) > Half,
                   gate2 |-> Output(p.values, "gate2", 0) > Half]
        /\ seen' = Append(seen, env)
        /\ UNCHANGED <<graph, outs, params>>

Update(key, v) ==
    /\ params' = [k \in DOMAIN params \cup {key} |-> IF k = key THEN v ELSE params[k]]
    /\ UNCHANGED <<graph, nodes, outs, values, out, seen>>

Next == (\E e \in Envs : Tick(e)) \/ (\E key \in Keys, v \in Values : Update(key, v))

Spec == Init /\ [][Next]_gmVars

-----------------------------------------------------------------------------
(* What an expression means, without nodes or state: its value at tick n is a
   function of what ticks 1..n found. *)

Form(v) == v.t = "vector" /\ v.items # << >> /\ v.items[1].t = "keyword"
Operand(v, k) ==
    IF Len(v.items) > k THEN v.items[k + 1]
    ELSE IF InputsOf[v.items[1].name][k] = Req THEN Other ELSE InputsOf[v.items[1].name][k]

RECURSIVE Meaning(_, _, _)
Meaning(v, n, h) ==
    IF v.t \in {"double", "int"} THEN v.v
    ELSE IF ~Form(v) \/ (v.items[1].name \notin Leaves \cup DOMAIN InputsOf) THEN 0
    ELSE LET op == v.items[1].name
             A(k, m) == Meaning(Operand(v, k), m, h)
             Rose(m) == A(2, m) > Half /\ (m > 1 => A(2, m - 1) <= Half)
             edges == {m \in 1 .. n : Rose(m)}
         IN  CASE op \in Leaves -> Leaf(op, Arg(op, v.items), Field(op, v.items), h[n])
               [] op = "beat_phase" -> BeatPhase(h[n].beat, A(1, n))
               [] op = "phasor" ->
                     FoldLeft(LAMBDA x, m : x + Times(A(1, m), h[m].dt), 0,
                              [m \in 1 .. n - 1 |-> m]) % One
               [] op = "slew" -> Slewed(IF n = 1 THEN 0 ELSE Meaning(v, n - 1, h),
                                        <<A(1, n), A(2, n), A(3, n)>>, h[n].dt)
               [] op = "sample_hold" -> IF edges = {} THEN 0 ELSE A(1, Max(edges))
               [] OTHER -> Pure(op, [k \in DOMAIN InputsOf[op] |-> A(k, n)])

(* "Nodes are stored in topological order ...  Evaluation is therefore a simple
   forward pass": after every tick each output is what its expression means for
   the beats, parameters and modulator outputs the ticks found, with a state of
   its own for every occurrence of a stateful operator, the defaults of the code for
   the operands left out, and zero for those that do not parse.  Two comments promise
   something else of these: FallDefaultsToRise and ParseErrorIsSilent. *)
GraphComputesExpression ==
    LET n == Len(seen)
        M(name) == IF name \in DOMAIN graph THEN Meaning(graph[name], n, seen) ELSE 0
    IN  n > 0 => out = [cv |-> M("cv"), aux |-> M("aux"),
                        gate |-> M("gate") > Half, gate2 |-> M("gate2") > Half]

(* "Returns a graph with no nodes on parse error (produces silent output)": the
   comment on parse_control_graph, for an expression with an operand that does
   not parse. *)
ParseErrorIsSilent ==
    (\E name \in DOMAIN graph :
        LET v == graph[name] IN
        Form(v) /\ v.items[1].name \in DOMAIN InputsOf
        /\ \E k \in 2 .. Len(v.items) :
              v.items[k].t \notin {"double", "int"} /\ ~Form(v.items[k]))
    => nodes = << >>

(* parse_node of :slew: "fall (defaults to rise if omitted)": an output that slews with
   a rise only falls as fast as it rises. *)
FallDefaultsToRise ==
    \A name \in DOMAIN graph \cap {"cv", "aux"} :
        LET v == graph[name] IN
        Form(v) /\ v.items[1].name = "slew" /\ Len(v.items) = 3 /\ seen # << >> =>
            out[name] = Meaning(Vec(Append(v.items, v.items[3])), Len(seen), seen)

(* "phasor: state[0] = accumulated phase [0, 1)": the comment on cg_node. *)
PhaseInUnitInterval ==
    \A i \in DOMAIN nodes : nodes[i].op = "phasor" => nodes[i].state[1] \in 0 .. One - 1
================================================================================

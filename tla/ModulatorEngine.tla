---------------------------- MODULE ModulatorEngine ----------------------------
(***************************************************************************)
(* modulator_engine: the table of running modulators, changed by control   *)
(* threads with copy-on-write under write_mu_ and walked by the event      *)
(* thread's tick() under an RCU guard.  Every step on the table pointer is *)
(* a step of Rcu together with what it does to the tables' contents.       *)
(*                                                                         *)
(* An instance is one abstract_modulator object, numbered by start() calls;*)
(* tables share instances through shared_ptr, so an instance lives as long *)
(* as some table that has not been deleted refers to it.                   *)
(***************************************************************************)
EXTENDS Rcu, Naturals, Sequences

CONSTANTS
    Ids,            \* modulator ids
    EventThread,    \* the thread that calls tick()
    MaxStarts       \* bound: calls of start()

ASSUME EngineAssumption == Readers = {EventThread} /\ MaxStarts \in Nat

VARIABLES
    table,      \* the table_t at each address: mods and tick_order
    op,         \* the start() or stop() each writer is executing
    started,    \* start() calls so far; numbers the instances
    pos,        \* tick()'s position in tick_order
    age,        \* last_outputs_: ticks since each id's output was recorded,
                \* 0 for this tick, Old for longer ago, or Never
    snapshot,   \* history: the registry when tick() loaded the table
    previous    \* history: the ids the previous tick() recorded

engineVars == <<table, op, started, pos, age, snapshot, previous>>
vars == <<rcuVars, engineVars>>

Instances == 1 .. MaxStarts
Old   == 2
Never == 3

EmptyTable == [order |-> << >>, mods |-> << >>]
NoOp == [kind |-> "none"]

Init ==
    \E o \in Objects :
        /\ RcuInit(o)
        /\ table = [x \in Objects |-> EmptyTable]
        /\ op = [w \in Writers |-> NoOp] /\ started = 0
        /\ pos = 1 /\ age = [id \in Ids |-> Never]
        /\ snapshot = EmptyTable /\ previous = {}

\* The table in force; none is when the engine has been destroyed.
Current == IF ptr = NoObject THEN EmptyTable ELSE table[ptr]

Registry == INSTANCE ModulatorRegistry WITH
                order <- Current.order, mods <- Current.mods, destroyed <- dtor = "done"

-----------------------------------------------------------------------------
(* Control threads                                                         *)

\* What start() makes of the copied table.
Started(t, id, inst) ==
    [order |-> IF id \in DOMAIN t.mods THEN t.order ELSE Append(t.order, id),
     mods  |-> [x \in DOMAIN t.mods \cup {id} |-> IF x = id THEN inst ELSE t.mods[x]]]

\* What stop() makes of the copied table.
Stopped(t, id) ==
    [order |-> Registry!Without(t.order, id),
     mods  |-> [x \in DOMAIN t.mods \ {id} |-> t.mods[x]]]

\* start(id, mod), stop(id): take write_mu_ and the current table.
StartBegin(w, id) ==
    /\ started < MaxStarts
    /\ UnsafeGet(w)
    /\ started' = started + 1
    /\ op' = [op EXCEPT ![w] = [kind |-> "start", id |-> id, inst |-> started + 1]]
    /\ UNCHANGED <<table, pos, age, snapshot, previous>>

StopBegin(w, id) ==
    /\ UnsafeGet(w)
    /\ op' = [op EXCEPT ![w] = [kind |-> "stop", id |-> id]]
    /\ UNCHANGED <<table, started, pos, age, snapshot, previous>>

\* The copy of the old table, with the change made.
NextTable(w) ==
    LET t == table[wold[w]] IN
    IF op[w].kind = "start" THEN Started(t, op[w].id, op[w].inst)
                            ELSE Stopped(t, op[w].id)

\* Mutant: the change is made to the installed table as well as to the copy.
BuildInPlace(w, o) ==
    /\ Allocate(w, o)
    /\ table' = [table EXCEPT ![o] = NextTable(w), ![wold[w]] = NextTable(w)]
    /\ UNCHANGED <<op, started, pos, age, snapshot, previous>>

\* next = make_unique<table_t>(*old), edited before anybody else sees it.
Build(w, o) ==
    /\ Allocate(w, o)
    /\ table' = [table EXCEPT ![o] = NextTable(w)]
    /\ UNCHANGED <<op, started, pos, age, snapshot, previous>>

\* table_.store(next), in its two steps; the mutex is released after the second.
Install(w) == Exchange(w) /\ UNCHANGED engineVars

Retire(w) ==
    /\ CallRcu(w)
    /\ op' = [op EXCEPT ![w] = NoOp]
    /\ UNCHANGED <<table, started, pos, age, snapshot, previous>>

\* retire_cb: ~table_t drops its references to the instances.
Delete(o) ==
    /\ Reclaim(o)
    /\ table' = [table EXCEPT ![o] = EmptyTable]
    /\ UNCHANGED <<op, started, pos, age, snapshot, previous>>

-----------------------------------------------------------------------------
(* Event thread: tick()                                                    *)

TickLock == ReadLock(EventThread) /\ UNCHANGED engineVars

\* The guard's table is now fixed; outputs recorded so far are one tick older.
TickLoad ==
    /\ LoadPtr(EventThread)
    /\ pos' = 1
    /\ snapshot' = table[ptr]
    /\ age' = [id \in Ids |-> IF age[id] < Old THEN age[id] + 1 ELSE age[id]]
    /\ UNCHANGED <<table, op, started, previous>>

Guarded == table[guard[EventThread]]

\* Mutant: last_outputs_.emplace(id, out), which keeps an existing entry.
TickOneEmplace ==
    /\ rpc[EventThread] = "in" /\ pos <= Len(Guarded.order)
    /\ LET id == Guarded.order[pos] IN
         age' = IF id \in DOMAIN Guarded.mods /\ age[id] = Never
                THEN [age EXCEPT ![id] = 0] ELSE age
    /\ pos' = pos + 1
    /\ UNCHANGED <<rcuVars, table, op, started, snapshot, previous>>

\* One iteration: tick the modulator and record its output.
TickOne ==
    /\ rpc[EventThread] = "in" /\ pos <= Len(Guarded.order)
    /\ LET id == Guarded.order[pos] IN
         age' = IF id \in DOMAIN Guarded.mods THEN [age EXCEPT ![id] = 0] ELSE age
    /\ pos' = pos + 1
    /\ UNCHANGED <<rcuVars, table, op, started, snapshot, previous>>

TickEnd ==
    /\ rpc[EventThread] = "in" /\ pos > Len(Guarded.order)
    /\ ReadUnlock(EventThread)
    /\ previous' = {id \in Ids : age[id] = 0}
    /\ UNCHANGED <<table, op, started, pos, age, snapshot>>

-----------------------------------------------------------------------------
(* ~modulator_engine(), which is ~rcu_managed() of table_                  *)

DestroyWait == DestroyBegin /\ UNCHANGED engineVars

\* The installed table is deleted and drops its references to the instances.
DestroyTable ==
    /\ DestroyEnd
    /\ table' = [table EXCEPT ![ptr] = EmptyTable]
    /\ UNCHANGED <<op, started, pos, age, snapshot, previous>>

-----------------------------------------------------------------------------

Writer(w) ==
    \/ \E id \in Ids : StartBegin(w, id) \/ StopBegin(w, id)
    \/ \E o \in Objects : Build(w, o)
    \/ Install(w) \/ Retire(w)

Tick == TickLock \/ TickLoad \/ TickOne \/ TickEnd

Next ==
    \/ Tick
    \/ \E w \in Writers : Writer(w)
    \/ \E o \in Objects : Delete(o)
    \/ DestroyWait \/ DestroyTable

Spec == Init /\ [][Next]_vars

\* Fairness: tick() finishes, start() and stop() finish once they hold the
\* mutex, liburcu's thread runs callbacks that are ready, and synchronize_rcu()
\* returns once the readers it waits for have left.
Fairness ==
    /\ WF_vars(TickLoad \/ TickOne \/ TickEnd)
    /\ \A w \in Writers : WF_vars((\E o \in Objects : Build(w, o)) \/ Install(w) \/ Retire(w))
    /\ \A o \in Objects : WF_vars(Delete(o))
    /\ WF_vars(DestroyTable)

FairSpec == Spec /\ Fairness

-----------------------------------------------------------------------------

(* tick() runs on one registry state from beginning to end: whatever start()
   and stop() install meanwhile, the table it walks is the one that was current
   when it loaded the pointer, unchanged and not deleted. *)
TickSeesOneSnapshot == rpc[EventThread] = "in" => Guarded = snapshot

(* "same-tick value if the source precedes the consumer in insertion order,
   previous-tick value otherwise": while tick() runs the modulator at pos, the
   outputs of those before it are of this tick, and those of itself and of the
   ones after it are of the previous tick, if they ran in it. *)
ModOutIsFresh ==
    rpc[EventThread] = "in" =>
        \A i \in DOMAIN Guarded.order :
            LET id == Guarded.order[i] IN
            IF i < pos THEN age[id] = 0
            ELSE id \in previous => age[id] = 1

(* The installed table implements the registry: every start() and stop() takes
   effect in one step, no call is lost when two threads make them at once, and the
   destructor empties it for good. *)
ImplementsRegistry ==
    Registry!RegistryInit /\ [][Registry!RegistryNext]_(Registry!registryVars)

Ops == {NoOp} \cup [kind : {"start"}, id : Ids, inst : Instances]
              \cup [kind : {"stop"}, id : Ids]

(* Why the engine is safe, as an invariant every step preserves: the table
   pointer is an RCU pointer that is null after the destructor only; the table
   a tick() walks is untouched since it was loaded; a table under construction is exactly the
   installed one with its writer's change applied. *)
EngineInv ==
    /\ RcuInv
    /\ dtor # "done" => ptr \in Objects
    /\ DOMAIN table = Objects /\ op \in [Writers -> Ops] /\ started \in 0 .. MaxStarts
    /\ rpc[EventThread] = "in" => guard[EventThread] \in Objects /\ Guarded = snapshot
    /\ \A w \in Writers :
          /\ wpc[w] \in {"got", "built"} => op[w] # NoOp
          /\ wpc[w] = "built" => table[wnew[w]] = NextTable(w)

\* tick_order lists the ids of mods, each once.
WellFormed(t) ==
    /\ t.order \in Seq(Ids) /\ \A j, k \in DOMAIN t.order : t.order[j] = t.order[k] => j = k
    /\ DOMAIN t.mods = {t.order[k] : k \in DOMAIN t.order}

(* Why ModOutIsFresh holds: every table is well formed; between ticks the outputs of
   age 0 are those of the previous tick; and in a tick they are those of the ids it has
   passed, while what the previous tick recorded is one tick old or recorded anew. *)
FreshInv ==
    /\ \A o \in Objects : WellFormed(table[o])
    /\ age \in [Ids -> 0 .. Never] /\ pos \in Nat \ {0} /\ previous \subseteq Ids
    /\ rpc[EventThread] # "in" => \A id \in Ids : id \in previous <=> age[id] = 0
    /\ rpc[EventThread] = "in" =>
          /\ \A id \in Ids : age[id] = 0 <=> \E k \in DOMAIN Guarded.order :
                                                k < pos /\ Guarded.order[k] = id
          /\ \A id \in previous : age[id] \in {0, 1}

Alive(inst) ==
    \E o \in Objects : status[o] # "free" /\ \E id \in DOMAIN table[o].mods : table[o].mods[id] = inst
Installed(inst) == \E id \in DOMAIN Current.mods : Current.mods[id] = inst

(* "Remove and destroy the modulator": an instance that stop() or a replacing
   start() took out of the table is eventually destroyed, although older tables
   and a running tick() still refer to it, and although the engine itself is
   destroyed meanwhile. *)
RemovedIsDestroyed ==
    \A inst \in Instances : (started >= inst /\ Alive(inst) /\ ~Installed(inst)
                             /\ \A w \in Writers : op[w].kind = "start" => op[w].inst # inst)
                            ~> ~Alive(inst)
================================================================================

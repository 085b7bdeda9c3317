------------------------- MODULE ModulatorEngineProofs -------------------------
(***************************************************************************)
(* Proofs about Rcu, for every number of readers, writers and addresses,   *)
(* and about ModulatorEngine, which uses it, for any number of control     *)
(* threads, ids, addresses and start() calls.                              *)
(***************************************************************************)
EXTENDS ModulatorEngine, FiniteSetTheorems, TLAPS

-----------------------------------------------------------------------------
(* rcu_managed                                                             *)

(* The constructor establishes the invariant. *)
LEMMA RcuInitInv ==
  ASSUME NEW o \in Objects \cup {NoObject}, RcuInit(o)
  PROVE  RcuInv
BY RcuAssumption DEF RcuInit, RcuInv, RcuTypeOK, Status, InSection

(* Taking and dropping a reader_guard preserves the invariant. *)
LEMMA ReaderPreserves ==
  ASSUME RcuInv, NEW r \in Readers, RcuReader(r)
  PROVE  RcuInv'
<1> USE RcuAssumption DEF RcuInv, RcuTypeOK, InSection, readerVars, writerVars, dtorVars
<1>1. CASE ReadLock(r)
  BY <1>1 DEF ReadLock
<1>2. CASE LoadPtr(r)
  BY <1>2 DEF LoadPtr
<1>3. CASE ReadUnlock(r)
  <2>1. RcuTypeOK'
    BY <1>3 DEF ReadUnlock
  <2>2. \A q \in Readers : rpc'[q] = "in" => rpc[q] = "in" /\ q # r /\ guard'[q] = guard[q]
    BY <1>3 DEF ReadUnlock
  <2>3. \A o \in Objects, q \in Readers : q \in waiting[o] /\ q # r => q \in waiting'[o]
    BY <1>3 DEF ReadUnlock
  <2>4. InSection' \subseteq InSection \ {r}
    BY <1>3 DEF ReadUnlock
  <2> QED
    BY <1>3, <2>1, <2>2, <2>3, <2>4 DEF ReadUnlock
<1> QED
  BY <1>1, <1>2, <1>3 DEF RcuReader

(* Every step of a writer preserves the invariant. *)
LEMMA WriterPreserves ==
  ASSUME RcuInv, NEW w \in Writers, RcuWriter(w)
  PROVE  RcuInv'
<1> USE RcuAssumption DEF RcuInv, RcuTypeOK, Status, InSection, readerVars, writerVars, dtorVars
<1>1. CASE UnsafeGet(w)
  BY <1>1 DEF UnsafeGet, WriteLockFree
<1>2. ASSUME NEW o \in Objects, Allocate(w, o) PROVE RcuInv'
  BY <1>2 DEF Allocate
<1>3. CASE Exchange(w)
  BY <1>3 DEF Exchange
<1>4. CASE CallRcu(w)
  BY <1>4 DEF CallRcu, WriterDone
<1> QED
  BY <1>1, <1>2, <1>3, <1>4 DEF RcuWriter

(* So do liburcu's callbacks and the destructor. *)
LEMMA ReclaimPreserves ==
  ASSUME RcuInv, (\E o \in Objects : Reclaim(o)) \/ DestroyBegin \/ DestroyEnd
  PROVE  RcuInv'
<1> USE RcuAssumption DEF RcuInv, RcuTypeOK, Status, InSection, readerVars, writerVars, dtorVars
<1>1. ASSUME NEW o \in Objects, Reclaim(o) PROVE RcuInv'
  BY <1>1 DEF Reclaim
<1>2. CASE DestroyBegin
  BY <1>2 DEF DestroyBegin
<1>3. CASE DestroyEnd
  BY <1>3 DEF DestroyEnd
<1> QED
  BY <1>1, <1>2, <1>3

(* Every step of rcu_managed preserves the invariant. *)
LEMMA RcuStep == ASSUME RcuInv, [RcuNext]_rcuVars PROVE RcuInv'
<1>1. CASE UNCHANGED rcuVars
  BY <1>1 DEF rcuVars, RcuInv, RcuTypeOK, InSection, readerVars, writerVars, dtorVars
<1>2. CASE RcuNext
  BY <1>2, ReaderPreserves, WriterPreserves, ReclaimPreserves DEF RcuNext
<1> QED
  BY <1>1, <1>2

(* The invariant of rcu_managed always holds. *)
THEOREM RcuInvariance == RcuSpec => []RcuInv
<1>1. (\E o \in Objects \cup {NoObject} : RcuInit(o)) => RcuInv
  BY RcuInitInv
<1> QED
  BY <1>1, RcuStep, PTL DEF RcuSpec

(* No reader and no copying writer ever touches a deleted object. *)
THEOREM RcuSafety == RcuSpec => []NoUseAfterFree
<1>1. RcuInv => NoUseAfterFree
  BY RcuAssumption DEF RcuInv, RcuTypeOK, NoUseAfterFree
<1> QED
  BY <1>1, RcuInvariance, PTL

-----------------------------------------------------------------------------
(* modulator_engine                                                        *)

(* Every step of the engine is a step of its rcu_managed pointer, or none. *)
LEMMA EngineStepIsRcuStep == ASSUME [Next]_vars PROVE [RcuNext]_rcuVars
<1> USE EngineAssumption
<1>1. CASE Tick
  BY <1>1 DEF Tick, TickLock, TickLoad, TickOne, TickEnd, RcuNext, RcuReader
<1>2. ASSUME NEW w \in Writers, Writer(w) PROVE RcuNext
  BY <1>2 DEF Writer, StartBegin, StopBegin, Build, Install, Retire, RcuNext, RcuWriter
<1>3. ASSUME NEW o \in Objects, Delete(o) PROVE RcuNext
  BY <1>3 DEF Delete, RcuNext
<1>4. CASE DestroyWait \/ DestroyTable
  BY <1>4 DEF DestroyWait, DestroyTable, RcuNext
<1>5. CASE UNCHANGED vars
  BY <1>5 DEF vars
<1> QED
  BY <1>1, <1>2, <1>3, <1>4, <1>5 DEF Next

(* The engine uses table_ as an rcu_managed and in no other way. *)
THEOREM EngineUsesRcu == Spec => RcuSpec
<1>1. Init => \E o \in Objects \cup {NoObject} : RcuInit(o)
  BY DEF Init
<1> QED
  BY <1>1, EngineStepIsRcuStep, PTL DEF Spec, RcuSpec

(* Neither tick() nor a start() or stop() copying the table ever touches a
   table that has been deleted. *)
THEOREM EngineMemorySafety == Spec => []NoUseAfterFree
  BY EngineUsesRcu, RcuSafety, PTL

-----------------------------------------------------------------------------
(* The engine's own invariant.                                             *)

(* The constructor installs an empty table. *)
LEMMA EngineInitInv == Init => EngineInv
<1> SUFFICES ASSUME Init PROVE EngineInv
  OBVIOUS
<1>1. PICK o \in Objects : RcuInit(o)
  BY DEF Init
<1>2. RcuInv
  BY <1>1, RcuInitInv
<1> QED
  BY <1>1, <1>2, EngineAssumption DEF Init, RcuInit, EngineInv, Ops

(* tick() preserves it: it changes no table, and the one it loads is the
   installed one. *)
LEMMA TickPreserves ==
  ASSUME EngineInv, RcuInv', Tick
  PROVE  EngineInv'
<1> USE EngineAssumption DEF EngineInv, Guarded, NextTable, rcuVars, readerVars, writerVars, dtorVars, engineVars
<1>1. CASE TickLock
  <2>1. EventThread \in Readers /\ rpc \in [Readers -> {"out", "locked", "in"}]
    BY DEF RcuInv, RcuTypeOK
  <2>2. /\ UNCHANGED <<ptr, guard, wpc, wold, wnew, dtor, table, op, started, snapshot>>
        /\ rpc' = [rpc EXCEPT ![EventThread] = "locked"]
    BY <1>1 DEF TickLock, ReadLock
  <2>3. rpc'[EventThread] # "in"
    BY <2>1, <2>2
  <2> QED
    BY <2>2, <2>3
<1>2. CASE TickLoad
  <2>1. ptr \in Objects
    BY <1>2 DEF TickLoad, LoadPtr, RcuInv, RcuTypeOK, InSection
  <2>2. EventThread \in Readers /\ guard \in [Readers -> Objects \cup {NoObject}]
    BY DEF RcuInv, RcuTypeOK
  <2>3. /\ UNCHANGED <<ptr, wpc, wold, wnew, dtor, table, op, started>>
        /\ guard' = [guard EXCEPT ![EventThread] = ptr] /\ snapshot' = table[ptr]
    BY <1>2 DEF TickLoad, LoadPtr
  <2>4. guard'[EventThread] \in Objects /\ Guarded' = snapshot'
    BY <2>1, <2>2, <2>3
  <2> QED
    BY <2>3, <2>4
<1>3. CASE TickOne
  BY <1>3 DEF TickOne
<1>4. CASE TickEnd
  <2>1. EventThread \in Readers /\ rpc \in [Readers -> {"out", "locked", "in"}]
    BY DEF RcuInv, RcuTypeOK
  <2>2. /\ UNCHANGED <<ptr, wpc, wold, wnew, dtor, table, op, started>>
        /\ rpc' = [rpc EXCEPT ![EventThread] = "out"]
    BY <1>4 DEF TickEnd, ReadUnlock
  <2>3. rpc'[EventThread] # "in"
    BY <2>1, <2>2
  <2> QED
    BY <2>2, <2>3
<1> QED
  BY <1>1, <1>2, <1>3, <1>4 DEF Tick

(* start() and stop() preserve it: only a fresh address is written to, which
   nobody reads, and the writer holds write_mu_ from copying to installing. *)
LEMMA EngineWriterPreserves ==
  ASSUME EngineInv, RcuInv', NEW w \in Writers, Writer(w)
  PROVE  EngineInv'
<1> USE EngineAssumption DEF EngineInv, Guarded, rcuVars, readerVars, writerVars, dtorVars, engineVars
<1>0. /\ EventThread \in Readers
      /\ rpc[EventThread] = "in" => status[guard[EventThread]] \notin {"free", "private"}
      /\ \A v \in Writers : wpc[v] # "idle" /\ wpc[w] # "idle" => v = w
      /\ wpc \in [Writers -> {"idle", "got", "built", "swapped"}]
      /\ wold \in [Writers -> Objects \cup {NoObject}]
      /\ wnew \in [Writers -> Objects \cup {NoObject}]
  BY RcuAssumption DEF RcuInv, RcuTypeOK
<1>1. ASSUME NEW id \in Ids, StartBegin(w, id) PROVE EngineInv'
  <2>1. [kind |-> "start", id |-> id, inst |-> started + 1] \in Ops \ {NoOp}
    <3>1. started + 1 \in Instances
      BY <1>1 DEF StartBegin, Instances
    <3>2. [kind |-> "start", id |-> id, inst |-> started + 1] # NoOp
      BY DEF NoOp
    <3> QED
      BY <3>1, <3>2 DEF Ops
  <2>2. \A v \in Writers : wpc'[v] # "built"
    BY <1>0, <1>1 DEF StartBegin, UnsafeGet, WriteLockFree
  <2>3. started' \in 0 .. MaxStarts
    BY <1>1 DEF StartBegin
  <2>4. \A v \in Writers : wpc'[v] \in {"got", "built"} => v = w
    BY <1>0, <1>1 DEF StartBegin, UnsafeGet, WriteLockFree
  <2> QED
    BY <1>0, <1>1, <2>1, <2>2, <2>3, <2>4 DEF StartBegin, UnsafeGet
<1>2. ASSUME NEW id \in Ids, StopBegin(w, id) PROVE EngineInv'
  <2>1. [kind |-> "stop", id |-> id] \in Ops \ {NoOp}
    <3>1. [kind |-> "stop", id |-> id] # NoOp
      BY DEF NoOp
    <3> QED
      BY <3>1 DEF Ops
  <2>2. \A v \in Writers : wpc'[v] # "built"
    BY <1>0, <1>2 DEF StopBegin, UnsafeGet, WriteLockFree
  <2>4. \A v \in Writers : wpc'[v] \in {"got", "built"} => v = w
    BY <1>0, <1>2 DEF StopBegin, UnsafeGet, WriteLockFree
  <2> QED
    BY <1>0, <1>2, <2>1, <2>2, <2>4 DEF StopBegin, UnsafeGet
<1>3. ASSUME NEW o \in Objects, Build(w, o) PROVE EngineInv'
  <2>1. /\ wpc[w] = "got" /\ status[o] = "free" /\ wold[w] = ptr
        /\ o # ptr /\ (rpc[EventThread] = "in" => o # guard[EventThread])
    BY <1>0, <1>3 DEF Build, Allocate, RcuInv
  <2>2. /\ table' = [table EXCEPT ![o] = NextTable(w)]
        /\ wpc' = [wpc EXCEPT ![w] = "built"] /\ wnew' = [wnew EXCEPT ![w] = o]
        /\ UNCHANGED <<ptr, wold, op, started, rpc, guard, snapshot, dtor>>
    BY <1>3 DEF Build, Allocate
  <2>3. NextTable(w)' = NextTable(w)
    BY <1>0, <2>1, <2>2 DEF NextTable
  <2>4. \A v \in Writers : wpc'[v] = "built" => v = w
    BY <1>0, <2>1, <2>2
  <2> QED
    BY <1>0, <2>1, <2>2, <2>3, <2>4
<1>4. CASE Install(w)
  <2>1. wpc[w] = "built" /\ wnew[w] \in Objects
    BY <1>4 DEF Install, Exchange, RcuInv
  <2>2. \A v \in Writers : wpc'[v] \notin {"got", "built"}
    BY <1>0, <1>4, <2>1 DEF Install, Exchange
  <2> QED
    BY <1>0, <1>4, <2>1, <2>2 DEF Install, Exchange
<1>5. CASE Retire(w)
  <2>1. \A v \in Writers : wpc'[v] \notin {"got", "built"}
    BY <1>0, <1>5 DEF Retire, CallRcu, WriterDone
  <2> QED
    BY <1>0, <1>5, <2>1 DEF Retire, CallRcu, Ops
<1> QED
  BY <1>1, <1>2, <1>3, <1>4, <1>5 DEF Writer

(* Deleting a table preserves it: the table is neither installed, nor under
   construction, nor held by tick(). *)
LEMMA DeletePreserves ==
  ASSUME EngineInv, RcuInv', NEW o \in Objects, Delete(o)
  PROVE  EngineInv'
<1> USE EngineAssumption
<1>1. /\ o # ptr
      /\ rpc[EventThread] = "in" => o # guard[EventThread]
      /\ \A w \in Writers : wpc[w] = "built" => o # wnew[w] /\ wold[w] = ptr
  <2>1. status[o] = "retired" /\ waiting[o] = {}
    BY DEF Delete, Reclaim
  <2>2. /\ status[o] = "current" <=> o = ptr
        /\ rpc[EventThread] = "in" /\ guard[EventThread] # NoObject =>
              \/ status[guard[EventThread]] \in {"current", "outgoing"}
              \/ EventThread \in waiting[guard[EventThread]]
        /\ \A w \in Writers : wpc[w] = "built" => status[wnew[w]] = "private" /\ wold[w] = ptr
    BY DEF EngineInv, RcuInv
  <2> QED
    BY <2>1, <2>2, RcuAssumption
<1>2. /\ table' = [table EXCEPT ![o] = EmptyTable]
      /\ UNCHANGED <<ptr, rpc, guard, wpc, wold, wnew, dtor, op, started, snapshot>>
  BY DEF Delete, Reclaim, readerVars, writerVars, dtorVars
<1>3. \A w \in Writers : wpc[w] = "built" => NextTable(w)' = NextTable(w)
  <2>1. ASSUME NEW w \in Writers, wpc[w] = "built" PROVE NextTable(w)' = NextTable(w)
    <3>0. wold[w] # o
      BY <1>1, <2>1
    <3>1. op'[w] = op[w] /\ wold'[w] = wold[w] /\ table'[wold[w]] = table[wold[w]]
      BY <1>2, <3>0
    <3> QED
      BY <3>1 DEF NextTable
  <2> QED
    BY <2>1
<1>4. \A w \in Writers : wpc[w] = "built" => wnew[w] \in Objects
  BY DEF EngineInv, RcuInv
<1> QED
  BY <1>1, <1>2, <1>3, <1>4 DEF EngineInv, Guarded

(* The destructor preserves it: nobody is left to hold the table it deletes. *)
LEMMA DestroyPreserves ==
  ASSUME EngineInv, RcuInv', DestroyWait \/ DestroyTable
  PROVE  EngineInv'
<1> USE EngineAssumption DEF EngineInv, Guarded, NextTable, readerVars, writerVars, engineVars
<1>1. CASE DestroyWait
  BY <1>1, Zenon DEF DestroyWait, DestroyBegin
<1>2. CASE DestroyTable
  <2>1. \A w \in Writers : wpc[w] \notin {"got", "built"}
    BY <1>2 DEF DestroyTable, DestroyEnd, RcuInv
  <2>2. rpc[EventThread] # "in"
    <3>1. dtor = "sync" /\ dwait = {}
      BY <1>2 DEF DestroyTable, DestroyEnd
    <3>2. InSection = {}
      BY <3>1 DEF RcuInv
    <3> QED
      BY <3>2 DEF InSection
  <2> QED
    BY <1>2, <2>1, <2>2 DEF DestroyTable, DestroyEnd
<1> QED
  BY <1>1, <1>2

(* The engine's invariant always holds. *)
THEOREM EngineInvariance == Spec => []EngineInv
<1>1. EngineInv /\ [Next]_vars => EngineInv'
  <2> SUFFICES ASSUME EngineInv, [Next]_vars PROVE EngineInv'
    OBVIOUS
  <2>1. RcuInv'
    BY EngineStepIsRcuStep, RcuStep DEF EngineInv
  <2>2. CASE UNCHANGED vars
    BY <2>1, <2>2 DEF vars, rcuVars, engineVars, EngineInv, Guarded, NextTable, readerVars, writerVars, dtorVars
  <2>3. CASE Next
    BY <2>1, <2>3, TickPreserves, EngineWriterPreserves, DeletePreserves, DestroyPreserves DEF Next
  <2> QED
    BY <2>2, <2>3
<1> QED
  BY <1>1, EngineInitInv, PTL DEF Spec

(* A tick() sees one registry state from beginning to end. *)
THEOREM TickSnapshot == Spec => []TickSeesOneSnapshot
<1>1. EngineInv => TickSeesOneSnapshot
  BY DEF EngineInv, TickSeesOneSnapshot
<1> QED
  BY <1>1, EngineInvariance, PTL

-----------------------------------------------------------------------------
(* start() and stop() are atomic and none is lost.                         *)

(* Installing a table is the start() or stop() of the writer that built it,
   applied to the registry as it is at that moment. *)
LEMMA InstallIsRegistryStep ==
  ASSUME EngineInv, NEW w \in Writers, Install(w)
  PROVE  Registry!RegistryNext
<1>1. /\ wpc[w] = "built" /\ wold[w] = ptr
      /\ table[wnew[w]] = NextTable(w) /\ op[w] # NoOp /\ op[w] \in Ops
  BY DEF EngineInv, RcuInv, Install, Exchange
<1>2. /\ dtor = "no" /\ ptr \in Objects /\ wnew[w] \in Objects
      /\ ptr' = wnew[w] /\ table' = table /\ dtor' = dtor
  BY <1>1 DEF EngineInv, RcuInv, Install, Exchange, engineVars, dtorVars
<1>0. /\ Current = table[ptr] /\ Current' = table[wnew[w]]
      /\ dtor # "done" /\ dtor' = dtor
  BY <1>2, RcuAssumption DEF Current
<1>3. CASE op[w] \in [kind : {"start"}, id : Ids, inst : Instances]
  <2>1. /\ op[w].kind = "start" /\ op[w].id \in Ids /\ op[w].inst \in Instances
    BY <1>3
  <2>2. table[wnew[w]] = Started(table[ptr], op[w].id, op[w].inst)
    BY <1>1, <2>1 DEF NextTable
  <2>3. Registry!StartMod(op[w].id, op[w].inst)
    BY <1>0, <2>2 DEF Started, Registry!StartMod
  <2> QED
    BY <2>1, <2>3 DEF Registry!RegistryNext
<1>4. CASE op[w] \in [kind : {"stop"}, id : Ids]
  <2>1. op[w].kind = "stop" /\ op[w].id \in Ids
    BY <1>4
  <2>2. table[wnew[w]] = Stopped(table[ptr], op[w].id)
    BY <1>1, <2>1 DEF NextTable
  <2>3. Registry!StopMod(op[w].id)
    BY <1>0, <2>2 DEF Stopped, Registry!StopMod
  <2> QED
    BY <2>1, <2>3 DEF Registry!RegistryNext
<1> QED
  BY <1>1, <1>3, <1>4 DEF Ops

(* The installed table implements the registry. *)
THEOREM EngineImplementsRegistry == Spec => ImplementsRegistry
<1>1. Init => Registry!RegistryInit
  BY RcuAssumption DEF Init, RcuInit, EmptyTable, Current, Registry!RegistryInit
<1>2. EngineInv /\ [Next]_vars => [Registry!RegistryNext]_(Registry!registryVars)
  <2> DEFINE Same == Current' = Current /\ (dtor = "done")' = (dtor = "done")
  <2> SUFFICES ASSUME EngineInv, [Next]_vars PROVE Registry!RegistryNext \/ Same
    BY DEF Registry!registryVars
  <2> USE DEF rcuVars, readerVars, writerVars, dtorVars, engineVars
  <2>1. CASE ptr' = ptr /\ table' = table /\ dtor' = dtor
    BY <2>1 DEF Current
  <2>2. ASSUME NEW w \in Writers, Install(w) PROVE Registry!RegistryNext
    BY <2>2, InstallIsRegistryStep
  <2>3. ASSUME NEW w \in Writers, NEW o \in Objects, Build(w, o) PROVE Same
    BY <2>3 DEF Build, Allocate, EngineInv, RcuInv, Current
  <2>4. ASSUME NEW o \in Objects, Delete(o) PROVE Same
    BY <2>4 DEF Delete, Reclaim, EngineInv, RcuInv, Current
  <2>5. CASE Tick
    BY <2>1, <2>5 DEF Tick, TickLock, TickLoad, TickOne, TickEnd, ReadLock, LoadPtr, ReadUnlock
  <2>6. ASSUME NEW w \in Writers, NEW id \in Ids, StartBegin(w, id) \/ StopBegin(w, id)
        PROVE  ptr' = ptr /\ table' = table /\ dtor' = dtor
    BY <2>6, Zenon DEF StartBegin, StopBegin, UnsafeGet
  <2>7. ASSUME NEW w \in Writers, Retire(w) PROVE ptr' = ptr /\ table' = table /\ dtor' = dtor
    BY <2>7 DEF Retire, CallRcu
  <2>8. CASE DestroyWait
    BY <2>8 DEF DestroyWait, DestroyBegin, Current
  <2>9. CASE DestroyTable
    <3>1. Current' = EmptyTable /\ dtor = "sync" /\ dtor' = "done"
      BY <2>9 DEF DestroyTable, DestroyEnd, Current
    <3> QED
      BY <3>1 DEF EmptyTable, Registry!RegistryNext, Registry!Destroyed
  <2>10. CASE UNCHANGED vars
    BY <2>1, <2>10 DEF vars
  <2> QED
    BY <2>1, <2>2, <2>3, <2>4, <2>5, <2>6, <2>7, <2>8, <2>9, <2>10 DEF Next, Writer
<1> QED
  BY <1>1, <1>2, EngineInvariance, PTL DEF Spec, ImplementsRegistry

-----------------------------------------------------------------------------
(* std::remove on tick_order: Without keeps the order and drops one id.    *)

RankIn(K, k) == Cardinality({j \in K : j <= k})

\* Of two places the later one has the greater rank.
LEMMA RankGrows ==
  ASSUME NEW n \in Nat, NEW K, K \subseteq 1 .. n, NEW j \in K, NEW k \in K, j < k
  PROVE  RankIn(K, j) < RankIn(K, k)
<1> DEFINE A == {i \in K : i <= j}
           B == {i \in K : i <= k}
<1>1. IsFiniteSet(K)
  <2>1. IsFiniteSet(1 .. n)
    BY FS_Interval
  <2> QED
    BY <2>1, FS_Subset, Zenon
<1>2. IsFiniteSet(A) /\ IsFiniteSet(B)
  BY <1>1, FS_Subset
<1>3. A \in SUBSET B /\ k \in B /\ k \notin A
  <2>1. \A i \in K : i \in Nat
    OBVIOUS
  <2>2. \A i \in K : i <= j => i <= k
    BY <2>1
  <2>3. k <= k /\ ~(k <= j)
    BY <2>1
  <2> QED
    BY <2>2, <2>3, Zenon
<1>4. Cardinality(A) <= Cardinality(B) /\ Cardinality(A) # Cardinality(B)
  BY <1>2, <1>3, FS_Subset
<1>5. Cardinality(A) \in Nat /\ Cardinality(B) \in Nat
  BY <1>2, FS_CardinalityType
<1> QED
  BY <1>4, <1>5 DEF RankIn

\* The ranks number the places from 1 on, without gaps.
LEMMA RanksNumber ==
  ASSUME NEW n \in Nat, NEW K, K \subseteq 1 .. n
  PROVE  /\ Cardinality(K) \in Nat
         /\ \A k \in K : RankIn(K, k) \in 1 .. Cardinality(K)
         /\ \A j, k \in K : RankIn(K, j) = RankIn(K, k) => j = k
         /\ \A m \in 1 .. Cardinality(K) : \E k \in K : RankIn(K, k) = m
<1> DEFINE c == Cardinality(K)
           f == [k \in K |-> RankIn(K, k)]
<1>1. IsFiniteSet(K) /\ c \in Nat
  <2>1. IsFiniteSet(1 .. n)
    BY FS_Interval
  <2> QED
    BY <2>1, FS_Subset, FS_CardinalityType, Zenon
<1>2. ASSUME NEW k \in K PROVE RankIn(K, k) \in 1 .. c
  <2> DEFINE B == {i \in K : i <= k}
  <2>1. B \in SUBSET K /\ k \in B
    OBVIOUS
  <2>2. IsFiniteSet(B) /\ Cardinality(B) <= c
    BY <1>1, <2>1, FS_Subset
  <2>3. Cardinality(B) \in Nat
    BY <2>2, FS_CardinalityType
  <2>4. Cardinality(B) # 0
    BY <2>1, <2>2, FS_EmptySet
  <2> HIDE DEF B
  <2>5. Cardinality(B) \in 1 .. c
    BY <1>1, <2>2, <2>3, <2>4
  <2> QED
    BY <2>5 DEF RankIn, B
<1>3. ASSUME NEW j \in K, NEW k \in K, RankIn(K, j) = RankIn(K, k) PROVE j = k
  <2>1. j \in Nat /\ k \in Nat /\ RankIn(K, j) \in Nat /\ RankIn(K, k) \in Nat
    BY <1>2
  <2>2. j < k => RankIn(K, j) < RankIn(K, k)
    BY RankGrows, Zenon
  <2>3. k < j => RankIn(K, k) < RankIn(K, j)
    BY RankGrows, Zenon
  <2> QED
    BY <1>3, <2>1, <2>2, <2>3
<1>4. IsFiniteSet(1 .. c) /\ Cardinality(1 .. c) = c
  <2>1. 1 \in Int /\ c \in Int
    BY <1>1
  <2> HIDE DEF c
  <2>2. IsFiniteSet(1 .. c) /\ Cardinality(1 .. c) = IF 1 > c THEN 0 ELSE c - 1 + 1
    BY <2>1, FS_Interval
  <2> QED
    BY <1>1, <2>2
<1>5. f \in Injection(K, 1 .. c)
  BY <1>2, <1>3 DEF Injection, IsInjective
<1>6. f \in Surjection(K, 1 .. c)
  BY <1>1, <1>4, <1>5, FS_Injection
<1>7. \A m \in 1 .. c : \E k \in K : f[k] = m
  BY <1>6, Zenon DEF Surjection
<1> QED
  BY <1>1, <1>2, <1>3, <1>7

\* What is left: the other ids, each once.
LEMMA WithoutDropsOne ==
  ASSUME NEW q \in Seq(Ids), \A j, k \in DOMAIN q : q[j] = q[k] => j = k, NEW id
  PROVE  LET r == Registry!Without(q, id) IN
         /\ r \in Seq(Ids)
         /\ \A j, k \in DOMAIN r : r[j] = r[k] => j = k
         /\ {r[k] : k \in DOMAIN r} = {q[k] : k \in DOMAIN q} \ {id}
<1> DEFINE K == {k \in DOMAIN q : q[k] # id}
           c == Cardinality(K)
           at(m) == CHOOSE k \in K : RankIn(K, k) = m
           r == [m \in 1 .. c |-> q[at(m)]]
<1>1. Registry!Without(q, id) = r
  BY DEF Registry!Without, RankIn, Registry!Cardinality, Cardinality, Registry!IsFiniteSet, IsFiniteSet
<1>2. DOMAIN q = 1 .. Len(q) /\ Len(q) \in Nat /\ K \subseteq 1 .. Len(q)
  OBVIOUS
<1>3. /\ c \in Nat
      /\ \A k \in K : RankIn(K, k) \in 1 .. c
      /\ \A j, k \in K : RankIn(K, j) = RankIn(K, k) => j = k
      /\ \A m \in 1 .. c : \E k \in K : RankIn(K, k) = m
  <2> HIDE DEF K
  <2> QED
    BY <1>2, RanksNumber, Zenon
<1>4. \A k \in K : k \in DOMAIN q /\ q[k] # id /\ q[k] \in Ids
  OBVIOUS
<1>5. \A k \in DOMAIN q : q[k] # id => k \in K
  OBVIOUS
<1> HIDE DEF K, c
<1>6. ASSUME NEW m \in 1 .. c PROVE at(m) \in K /\ RankIn(K, at(m)) = m
  BY <1>3
<1> HIDE DEF at
<1>7. r \in Seq(Ids) /\ DOMAIN r = 1 .. c
  <2>1. r \in [1 .. c -> Ids]
    BY <1>4, <1>6
  <2> HIDE DEF r
  <2> QED
    BY <1>3, <2>1
<1>8. \A m \in 1 .. c : r[m] = q[at(m)]
  OBVIOUS
<1> HIDE DEF r
<1>9. \A j, k \in DOMAIN r : r[j] = r[k] => j = k
  <2> SUFFICES ASSUME NEW j \in 1 .. c, NEW k \in 1 .. c, r[j] = r[k] PROVE j = k
    BY <1>7
  <2>1. at(j) = at(k)
    BY <1>4, <1>6, <1>8
  <2> QED
    BY <1>6, <2>1
<1>10. ASSUME NEW x PROVE (\E m \in 1 .. c : x = r[m]) <=> (\E k \in DOMAIN q : x = q[k]) /\ x # id
  <2>1. ASSUME NEW m \in 1 .. c, x = r[m] PROVE (\E k \in DOMAIN q : x = q[k]) /\ x # id
    BY <1>4, <1>6, <1>8, <2>1
  <2>2. ASSUME NEW k \in DOMAIN q, x = q[k], x # id PROVE \E m \in 1 .. c : x = r[m]
    <3>1. k \in K
      BY <1>5, <2>2
    <3>2. RankIn(K, k) \in 1 .. c
      BY <1>3, <3>1
    <3>3. at(RankIn(K, k)) = k
      BY <1>3, <1>6, <3>1, <3>2
    <3> QED
      BY <1>8, <2>2, <3>2, <3>3
  <2> QED
    BY <2>1, <2>2
<1>11. {r[k] : k \in DOMAIN r} = {q[k] : k \in DOMAIN q} \ {id}
  <2>1. ASSUME NEW x PROVE x \in {r[k] : k \in DOMAIN r} <=> x \in {q[k] : k \in DOMAIN q} \ {id}
    <3>1. x \in {r[k] : k \in DOMAIN r} <=> \E m \in 1 .. c : x = r[m]
      BY <1>7
    <3>2. x \in {q[k] : k \in DOMAIN q} <=> \E k \in DOMAIN q : x = q[k]
      BY Zenon
    <3> QED
      BY <1>10, <3>1, <3>2
  <2> QED
    BY <2>1
<1> QED
  BY <1>1, <1>7, <1>9, <1>11

-----------------------------------------------------------------------------
(* [:mod-out :id :field] reads a fresh value.                              *)

LEMMA WellFormedWith ==
  ASSUME NEW t, NEW r \in Seq(Ids), t.order = r, \A j, k \in DOMAIN r : r[j] = r[k] => j = k,
         DOMAIN t.mods = {r[k] : k \in DOMAIN r}
  PROVE  WellFormed(t)
<1>1. t.order \in Seq(Ids)
  OBVIOUS
<1>2. \A j, k \in DOMAIN t.order : t.order[j] = t.order[k] => j = k
  OBVIOUS
<1>3. DOMAIN t.mods = {t.order[k] : k \in DOMAIN t.order}
  OBVIOUS
<1> QED
  BY <1>1, <1>2, <1>3 DEF WellFormed

LEMMA EmptyWellFormed == WellFormed(EmptyTable)
BY DEF WellFormed, EmptyTable

\* What start() and stop() make of a well-formed table is well formed.
LEMMA StartedWellFormed ==
  ASSUME NEW t, WellFormed(t), NEW id \in Ids, NEW inst
  PROVE  WellFormed(Started(t, id, inst))
<1> DEFINE u == Started(t, id, inst)
           q == t.order
<1>1. /\ u.order = (IF id \in DOMAIN t.mods THEN q ELSE Append(q, id))
      /\ DOMAIN u.mods = DOMAIN t.mods \cup {id}
  BY DEF Started
<1>2. /\ q \in Seq(Ids) /\ (\A j, k \in DOMAIN q : q[j] = q[k] => j = k)
      /\ DOMAIN t.mods = {q[k] : k \in DOMAIN q}
  BY DEF WellFormed
<1> HIDE DEF u, q
<1>3. CASE id \in DOMAIN t.mods
  <2>1. u.order = q /\ DOMAIN u.mods = {q[k] : k \in DOMAIN q}
    BY <1>1, <1>2, <1>3
  <2> QED
    BY <1>2, <2>1, WellFormedWith, Zenon DEF u
<1>4. CASE id \notin DOMAIN t.mods
  <2> DEFINE r == Append(q, id)
             l == Len(q) + 1
  <2>1. /\ r \in Seq(Ids) /\ DOMAIN r = DOMAIN q \cup {l} /\ l \notin DOMAIN q /\ r[l] = id
        /\ \A k \in DOMAIN q : r[k] = q[k]
    BY <1>2
  <2>2. \A k \in DOMAIN q : q[k] # id
    BY <1>2, <1>4
  <2> HIDE DEF r, l
  <2>3. \A j, k \in DOMAIN r : r[j] = r[k] => j = k
    BY <1>2, <2>1, <2>2
  <2>4. {r[k] : k \in DOMAIN r} = {q[k] : k \in DOMAIN q} \cup {id}
    BY <2>1
  <2>5. u.order = r /\ DOMAIN u.mods = {r[k] : k \in DOMAIN r}
    BY <1>1, <1>2, <1>4, <2>4 DEF r
  <2> QED
    BY <2>1, <2>3, <2>5, WellFormedWith, Zenon DEF u
<1> QED
  BY <1>3, <1>4

LEMMA StoppedWellFormed ==
  ASSUME NEW t, WellFormed(t), NEW id
  PROVE  WellFormed(Stopped(t, id))
<1>1. /\ t.order \in Seq(Ids) /\ (\A j, k \in DOMAIN t.order : t.order[j] = t.order[k] => j = k)
      /\ DOMAIN t.mods = {t.order[k] : k \in DOMAIN t.order}
  BY DEF WellFormed
<1> DEFINE r == Registry!Without(t.order, id)
<1>2. /\ r \in Seq(Ids)
      /\ \A j, k \in DOMAIN r : r[j] = r[k] => j = k
      /\ {r[k] : k \in DOMAIN r} = {t.order[k] : k \in DOMAIN t.order} \ {id}
  BY <1>1, WithoutDropsOne, Zenon
<1> HIDE DEF r
<1>3. Stopped(t, id).order = r /\ DOMAIN Stopped(t, id).mods = DOMAIN t.mods \ {id}
  BY DEF Stopped, r
<1> QED
  <2>1. DOMAIN Stopped(t, id).mods = {r[k] : k \in DOMAIN r}
    BY <1>1, <1>2, <1>3, Zenon
  <2> QED
    BY <1>2, <1>3, <2>1, WellFormedWith

\* Every table stays well formed.
LEMMA TablesStep ==
  ASSUME EngineInv, \A o \in Objects : WellFormed(table[o]), [Next]_vars
  PROVE  \A o \in Objects : WellFormed(table'[o])
<1>1. DOMAIN table = Objects
  BY DEF EngineInv
<1>2. WellFormed(EmptyTable)
  BY EmptyWellFormed
<1>3. CASE table' = table
  BY <1>3
<1>4. ASSUME NEW p, table' = [table EXCEPT ![p] = EmptyTable] PROVE \A o \in Objects : WellFormed(table'[o])
  BY <1>1, <1>2, <1>4
<1>5. ASSUME NEW w \in Writers, NEW p \in Objects, Build(w, p) PROVE \A o \in Objects : WellFormed(table'[o])
  <2>1. table' = [table EXCEPT ![p] = NextTable(w)] /\ wpc[w] = "got"
    BY <1>5 DEF Build, Allocate
  <2>2. wold[w] = ptr /\ ptr \in Objects /\ op[w] \in Ops \ {NoOp}
    BY <2>1, Zenon DEF EngineInv, RcuInv
  <2>3. WellFormed(NextTable(w))
    <3> DEFINE t == table[wold[w]]
    <3>1. WellFormed(t)
      BY <2>2
    <3>2. CASE op[w] \in [kind : {"start"}, id : Ids, inst : Instances]
      <4>1. op[w].kind = "start" /\ op[w].id \in Ids
        BY <3>2
      <4>2. NextTable(w) = Started(t, op[w].id, op[w].inst)
        BY <4>1 DEF NextTable
      <4> QED
        BY <3>1, <4>1, <4>2, StartedWellFormed
    <3>3. CASE op[w] \in [kind : {"stop"}, id : Ids]
      <4>1. op[w].kind = "stop"
        BY <3>3
      <4>2. NextTable(w) = Stopped(t, op[w].id)
        BY <4>1 DEF NextTable
      <4> QED
        BY <3>1, <4>2, StoppedWellFormed
    <3> QED
      BY <2>2, <3>2, <3>3 DEF Ops
  <2> QED
    BY <1>1, <2>1, <2>3
<1>6. CASE Tick
  <2>1. table' = table
    BY <1>6 DEF Tick, TickLock, TickLoad, TickOne, TickEnd, engineVars
  <2> QED
    BY <1>3, <2>1
<1>7. ASSUME NEW w \in Writers, Writer(w) PROVE \A o \in Objects : WellFormed(table'[o])
  <2>1. table' = table \/ \E o \in Objects : Build(w, o)
    BY <1>7 DEF Writer, StartBegin, StopBegin, Install, Retire, engineVars
  <2> QED
    BY <1>3, <1>5, <2>1
<1>8. CASE (\E o \in Objects : Delete(o)) \/ DestroyWait \/ DestroyTable \/ UNCHANGED vars
  <2>1. table' = table \/ \E p : table' = [table EXCEPT ![p] = EmptyTable]
    BY <1>8 DEF Delete, DestroyWait, DestroyTable, engineVars, vars
  <2> QED
    BY <1>3, <1>4, <2>1
<1> QED
  BY <1>6, <1>7, <1>8 DEF Next

\* The rest of FreshInv: outputs and their ages.
AgesInv ==
    /\ age \in [Ids -> 0 .. Never] /\ pos \in Nat \ {0} /\ previous \subseteq Ids
    /\ rpc[EventThread] # "in" => \A id \in Ids : id \in previous <=> age[id] = 0
    /\ rpc[EventThread] = "in" =>
          /\ \A id \in Ids : age[id] = 0 <=> \E k \in DOMAIN Guarded.order :
                                                k < pos /\ Guarded.order[k] = id
          /\ \A id \in previous : age[id] \in {0, 1}

LEMMA FreshParts == FreshInv <=> (\A o \in Objects : WellFormed(table[o])) /\ AgesInv
BY DEF FreshInv, AgesInv

\* Steps of the control threads, of liburcu and of the destructor.
LEMMA OthersKeepAges ==
  ASSUME EngineInv, EngineInv', AgesInv,
         UNCHANGED <<pos, age, snapshot, previous, rpc, guard>>
  PROVE  AgesInv'
<1>1. rpc[EventThread] = "in" => Guarded' = Guarded
  BY DEF EngineInv
<1> QED
  BY <1>1 DEF AgesInv

LEMMA AgesStep ==
  ASSUME EngineInv, EngineInv', \A o \in Objects : WellFormed(table[o]), AgesInv, [Next]_vars
  PROVE  AgesInv'
<1>0. EventThread \in Readers /\ rpc \in [Readers -> {"out", "locked", "in"}]
  BY EngineAssumption, Zenon DEF EngineInv, RcuInv, RcuTypeOK
<1>1. CASE TickLock
  <2>1. UNCHANGED <<pos, age, previous>> /\ rpc[EventThread] # "in" /\ rpc'[EventThread] # "in"
    BY <1>0, <1>1 DEF TickLock, ReadLock, engineVars
  <2> QED
    BY <2>1 DEF AgesInv
<1>2. CASE TickLoad
  <2>1. /\ rpc[EventThread] # "in" /\ rpc'[EventThread] = "in" /\ pos' = 1 /\ previous' = previous
        /\ age' = [id \in Ids |-> IF age[id] < Old THEN age[id] + 1 ELSE age[id]]
    BY <1>0, <1>2 DEF TickLoad, LoadPtr
  <2>2. age \in [Ids -> 0 .. 3] /\ (\A id \in Ids : id \in previous <=> age[id] = 0) /\ previous \subseteq Ids
    BY <2>1, Zenon DEF AgesInv, Never
  <2>3. \A id \in Ids : age'[id] \in 0 .. 3 /\ age'[id] # 0 /\ (age[id] = 0 => age'[id] = 1)
    BY <2>1, <2>2 DEF Old
  <2>4. age' \in [Ids -> 0 .. Never]
    BY <2>1, <2>3 DEF Never
  <2>5. \A k \in DOMAIN Guarded'.order : ~(k < pos')
    <3>1. guard'[EventThread] \in Objects /\ table' = table
      BY <1>2, <2>1 DEF EngineInv, TickLoad
    <3>2. Guarded'.order \in Seq(Ids)
      BY <3>1 DEF Guarded, WellFormed
    <3>3. DOMAIN Guarded'.order = 1 .. Len(Guarded'.order) /\ Len(Guarded'.order) \in Nat
      BY <3>2
    <3>4. \A n \in Nat : \A k \in 1 .. n : ~(k < 1)
      OBVIOUS
    <3> QED
      BY <2>1, <3>3, <3>4
  <2>6. \A id \in Ids : ~(age'[id] = 0)
    BY <2>3
  <2>7. \A id \in previous' : age'[id] \in {0, 1}
    BY <2>1, <2>2, <2>3
  <2>8. pos' \in Nat \ {0} /\ previous' \subseteq Ids
    BY <2>1, <2>2
  <2> QED
    BY <2>1, <2>4, <2>5, <2>6, <2>7, <2>8, Zenon DEF AgesInv
<1>3. CASE TickOne
  <2> DEFINE q == Guarded.order
             id == q[pos]
  <2>1. /\ rpc[EventThread] = "in" /\ pos <= Len(q) /\ pos' = pos + 1
        /\ age' = (IF id \in DOMAIN Guarded.mods THEN [age EXCEPT ![id] = 0] ELSE age)
        /\ rpc' = rpc /\ previous' = previous /\ Guarded' = Guarded
    BY <1>3 DEF TickOne, rcuVars, readerVars, Guarded
  <2>2. WellFormed(Guarded) /\ pos \in Nat \ {0}
    BY <2>1, Zenon DEF EngineInv, Guarded, AgesInv
  <2>3. q \in Seq(Ids) /\ pos \in DOMAIN q /\ id \in DOMAIN Guarded.mods
    <3>1. q \in Seq(Ids) /\ DOMAIN Guarded.mods = {q[k] : k \in DOMAIN q}
      BY <2>2 DEF WellFormed
    <3>2. DOMAIN q = 1 .. Len(q) /\ Len(q) \in Nat
      BY <3>1
    <3> HIDE DEF q
    <3>3. pos \in DOMAIN q
      BY <2>1, <2>2, <3>2
    <3> QED
      BY <3>1, <3>3
  <2>4. id \in Ids /\ DOMAIN q \subseteq Nat
    BY <2>3
  <2>5. age' = [age EXCEPT ![id] = 0]
    BY <2>1, <2>3
  <2>6. /\ age \in [Ids -> 0 .. Never] /\ previous \subseteq Ids
        /\ \A x \in Ids : age[x] = 0 <=> \E k \in DOMAIN q : k < pos /\ q[k] = x
        /\ \A x \in previous : age[x] \in {0, 1}
    BY <2>1 DEF AgesInv
  <2>7. q = Guarded'.order
    BY <2>1
  <2>8. \A k \in DOMAIN q : k < pos' <=> k < pos \/ k = pos
    BY <2>1, <2>2, <2>4
  <2> HIDE DEF q
  <2>9. age' \in [Ids -> 0 .. Never] /\ \A x \in previous' : age'[x] \in {0, 1}
    BY <2>1, <2>4, <2>5, <2>6 DEF Never
  <2>10. ASSUME NEW x \in Ids PROVE age'[x] = 0 <=> \E k \in DOMAIN q : k < pos' /\ q[k] = x
    <3>1. CASE x = id
      BY <2>3, <2>4, <2>5, <2>6, <2>8, <3>1
    <3>2. CASE x # id
      <4>1. age'[x] = age[x]
        BY <2>4, <2>5, <2>6, <3>2
      <4>2. \A k \in DOMAIN q : k < pos' /\ q[k] = x <=> k < pos /\ q[k] = x
        BY <2>8, <3>2
      <4> QED
        BY <2>6, <4>1, <4>2
    <3> QED
      BY <3>1, <3>2
  <2>11. \A x \in Ids : age'[x] = 0 <=> \E k \in DOMAIN Guarded'.order : k < pos' /\ Guarded'.order[k] = x
    BY <2>7, <2>10
  <2>12. pos' \in Nat \ {0} /\ previous' \subseteq Ids /\ rpc'[EventThread] = "in"
    BY <2>1, <2>2, <2>6
  <2> QED
    BY <2>9, <2>11, <2>12 DEF AgesInv
<1>4. CASE TickEnd
  <2>1. /\ rpc'[EventThread] # "in" /\ pos' = pos /\ age' = age /\ previous' = {id \in Ids : age[id] = 0}
    BY <1>0, <1>4 DEF TickEnd, ReadUnlock
  <2> QED
    BY <2>1 DEF AgesInv
<1>5. CASE \/ \E w \in Writers : Writer(w)
           \/ \E o \in Objects : Delete(o)
           \/ DestroyWait \/ DestroyTable \/ UNCHANGED vars
  <2>1. ASSUME NEW w \in Writers, Writer(w) PROVE UNCHANGED <<pos, age, snapshot, previous, rpc, guard>>
    BY <2>1, Zenon DEF Writer, StartBegin, StopBegin, Build, Install, Retire, UnsafeGet, Allocate, Exchange, CallRcu,
                engineVars, readerVars
  <2>2. ASSUME (\E o \in Objects : Delete(o)) \/ DestroyWait \/ DestroyTable \/ UNCHANGED vars
        PROVE  UNCHANGED <<pos, age, snapshot, previous, rpc, guard>>
    BY <2>2, Zenon DEF Delete, DestroyWait, DestroyTable, Reclaim, DestroyBegin, DestroyEnd, vars, rcuVars,
                engineVars, readerVars
  <2> QED
    BY <1>5, <2>1, <2>2, OthersKeepAges
<1> QED
  BY <1>1, <1>2, <1>3, <1>4, <1>5 DEF Next, Tick

(* The ages of the outputs, for any number of modulators, starts and stops: what tick()
   has passed is recorded in this tick, and the rest as the previous tick left it. *)
THEOREM FreshInvariance == Spec => []FreshInv
<1>1. Init => FreshInv
  <2> SUFFICES ASSUME Init PROVE FreshInv
    OBVIOUS
  <2>1. PICK o \in Objects : /\ RcuInit(o) /\ table = [x \in Objects |-> EmptyTable]
                             /\ pos = 1 /\ age = [id \in Ids |-> Never] /\ previous = {}
    BY DEF Init
  <2>2. rpc[EventThread] # "in"
    BY <2>1, EngineAssumption DEF RcuInit
  <2>3. \A p \in Objects : WellFormed(table[p])
    BY <2>1, EmptyWellFormed
  <2>4. age \in [Ids -> 0 .. Never] /\ pos \in Nat \ {0} /\ previous \subseteq Ids
    BY <2>1 DEF Never
  <2>5. \A id \in Ids : id \in previous <=> age[id] = 0
    BY <2>1 DEF Never
  <2> QED
    BY <2>2, <2>3, <2>4, <2>5 DEF FreshInv
<1>2. EngineInv /\ EngineInv' /\ FreshInv /\ [Next]_vars => FreshInv'
  <2> SUFFICES ASSUME EngineInv, EngineInv', FreshInv, [Next]_vars PROVE FreshInv'
    OBVIOUS
  <2>1. (\A o \in Objects : WellFormed(table[o])) /\ AgesInv
    BY FreshParts
  <2>2. (\A o \in Objects : WellFormed(table'[o])) /\ AgesInv'
    BY <2>1, TablesStep, AgesStep
  <2> QED
    BY <2>2 DEF FreshInv, AgesInv
<1> QED
  BY <1>1, <1>2, EngineInvariance, PTL DEF Spec

(* A [:mod-out] reference reads this tick's value of a source that comes before its
   consumer and the previous tick's of any other, whatever was started, replaced or
   stopped in between. *)
THEOREM FreshOutputs == Spec => []ModOutIsFresh
<1>1. EngineInv /\ FreshInv => ModOutIsFresh
  <2> SUFFICES ASSUME EngineInv, FreshInv, rpc[EventThread] = "in", NEW k \in DOMAIN Guarded.order
               PROVE  IF k < pos THEN age[Guarded.order[k]] = 0
                      ELSE Guarded.order[k] \in previous => age[Guarded.order[k]] = 1
    BY DEF ModOutIsFresh
  <2> DEFINE q == Guarded.order
  <2>1. q \in Seq(Ids) /\ \A i, j \in DOMAIN q : q[i] = q[j] => i = j
    BY DEF EngineInv, FreshInv, Guarded, WellFormed
  <2>2. q[k] \in Ids
    BY <2>1
  <2>3. /\ \A id \in Ids : age[id] = 0 <=> \E j \in DOMAIN q : j < pos /\ q[j] = id
        /\ \A id \in previous : age[id] \in {0, 1}
    BY DEF FreshInv
  <2> HIDE DEF q
  <2>4. CASE k < pos
    BY <2>2, <2>3, <2>4 DEF q
  <2>5. CASE ~(k < pos)
    <3>1. age[q[k]] # 0
      BY <2>1, <2>2, <2>3, <2>5 DEF q
    <3> QED
      BY <2>3, <2>5, <3>1 DEF q
  <2> QED
    BY <2>4, <2>5
<1> QED
  BY <1>1, EngineInvariance, FreshInvariance, PTL
================================================================================

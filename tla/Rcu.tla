---------------------------------- MODULE Rcu ----------------------------------
(***************************************************************************)
(* rcu_managed<T> of include/nomos/rt/rcu.hpp: one atomic pointer, readers *)
(* inside read-side critical sections, writers that swap the pointer and   *)
(* hand the outgoing object to call_rcu(), and the destructor.             *)
(*                                                                         *)
(* Objects are heap addresses and are reused once freed, so an object that *)
(* is freed while somebody still uses it is seen (NoUseAfterFree).         *)
(*                                                                         *)
(* liburcu is external.  What is assumed of it: call_rcu() runs its        *)
(* callback no sooner than every read-side critical section that had begun *)
(* when it was called has ended, and synchronize_rcu() returns no sooner   *)
(* than those that had begun when it was called have ended.                *)
(***************************************************************************)

CONSTANTS
    Objects,    \* heap addresses a T can have
    Readers,    \* threads calling read()
    Writers,    \* threads calling store(), serialised by their own mutex
    NoObject    \* nullptr

ASSUME RcuAssumption == NoObject \notin Objects

VARIABLES
    ptr,        \* ptr_
    status,     \* what each address holds
    waiting,    \* the critical sections each retired object's callback waits for
    rpc,        \* where each reader is: outside, "locked", or "in" with a pointer
    guard,      \* reader_guard::ptr_ of each reader
    wpc,        \* where each writer is
    wold,       \* the pointer each writer works with: unsafe_get()'s, or `outgoing`
    wnew,       \* `next` of each writer
    dtor,       \* the destructor: "no", "sync" inside synchronize(), "done"
    dwait       \* the critical sections synchronize() waits for

readerVars == <<rpc, guard>>
writerVars == <<wpc, wold, wnew>>
dtorVars   == <<dtor, dwait>>
rcuVars    == <<ptr, status, waiting, readerVars, writerVars, dtorVars>>

Status == {"free", "private", "current", "outgoing", "retired"}

RcuTypeOK ==
    /\ ptr \in Objects \cup {NoObject}
    /\ status \in [Objects -> Status]
    /\ waiting \in [Objects -> SUBSET Readers]
    /\ rpc \in [Readers -> {"out", "locked", "in"}]
    /\ guard \in [Readers -> Objects \cup {NoObject}]
    /\ wpc \in [Writers -> {"idle", "got", "built", "swapped"}]
    /\ wold \in [Writers -> Objects \cup {NoObject}]
    /\ wnew \in [Writers -> Objects \cup {NoObject}]
    /\ dtor \in {"no", "sync", "done"} /\ dwait \subseteq Readers

\* rcu_managed(std::move(initial)); initial may be null.
RcuInit(initial) ==
    /\ ptr = initial
    /\ status = [o \in Objects |-> IF o = initial THEN "current" ELSE "free"]
    /\ waiting = [o \in Objects |-> {}]
    /\ rpc = [r \in Readers |-> "out"] /\ guard = [r \in Readers |-> NoObject]
    /\ wpc = [w \in Writers |-> "idle"]
    /\ wold = [w \in Writers |-> NoObject] /\ wnew = [w \in Writers |-> NoObject]
    /\ dtor = "no" /\ dwait = {}

InSection == {r \in Readers : rpc[r] # "out"}

-----------------------------------------------------------------------------
(* reader_guard                                                            *)

\* read_lock().  No guard is taken once the destructor runs.
ReadLock(r) ==
    /\ rpc[r] = "out" /\ dtor = "no"
    /\ rpc' = [rpc EXCEPT ![r] = "locked"]
    /\ UNCHANGED <<ptr, status, waiting, guard, writerVars, dtorVars>>

\* ptr_ = owner.ptr_.load(acquire)
LoadPtr(r) ==
    /\ rpc[r] = "locked"
    /\ rpc' = [rpc EXCEPT ![r] = "in"]
    /\ guard' = [guard EXCEPT ![r] = ptr]
    /\ UNCHANGED <<ptr, status, waiting, writerVars, dtorVars>>

\* ~reader_guard(): read_unlock() ends the section for everyone waiting on it.
ReadUnlock(r) ==
    /\ rpc[r] = "in"
    /\ rpc' = [rpc EXCEPT ![r] = "out"]
    /\ guard' = [guard EXCEPT ![r] = NoObject]
    /\ waiting' = [o \in Objects |-> waiting[o] \ {r}]
    /\ dwait' = dwait \ {r}
    /\ UNCHANGED <<ptr, status, writerVars, dtor>>

-----------------------------------------------------------------------------
(* Writers                                                                 *)

\* Mutant: the writers are not serialised.
WriteLockIgnored(w) == wpc[w] = "idle"

\* std::lock_guard lock{write_mu_}, held from unsafe_get() to the end of store().
WriteLockFree(w) == \A v \in Writers : wpc[v] = "idle"

\* old = unsafe_get()
UnsafeGet(w) ==
    /\ WriteLockFree(w) /\ dtor = "no"
    /\ wpc' = [wpc EXCEPT ![w] = "got"]
    /\ wold' = [wold EXCEPT ![w] = ptr]
    /\ UNCHANGED <<ptr, status, waiting, readerVars, wnew, dtorVars>>

\* next = make_unique<T>(... *old ...)
Allocate(w, o) ==
    /\ wpc[w] = "got" /\ status[o] = "free"
    /\ status' = [status EXCEPT ![o] = "private"]
    /\ wnew' = [wnew EXCEPT ![w] = o]
    /\ wpc' = [wpc EXCEPT ![w] = "built"]
    /\ UNCHANGED <<ptr, waiting, readerVars, wold, dtorVars>>

\* store(next): outgoing = ptr_.exchange(incoming)
Exchange(w) ==
    /\ wpc[w] = "built"
    /\ ptr' = wnew[w]
    /\ wold' = [wold EXCEPT ![w] = ptr]
    /\ status' = [o \in Objects |-> IF o = wnew[w] THEN "current"
                                    ELSE IF o = ptr THEN "outgoing" ELSE status[o]]
    /\ wpc' = [wpc EXCEPT ![w] = "swapped"]
    /\ UNCHANGED <<waiting, readerVars, wnew, dtorVars>>

\* The end of store(): its locals are gone and the mutex is free.
WriterDone(w) ==
    /\ wpc' = [wpc EXCEPT ![w] = "idle"]
    /\ wold' = [wold EXCEPT ![w] = NoObject]
    /\ wnew' = [wnew EXCEPT ![w] = NoObject]

\* Mutant: the outgoing object is deleted at once.
CallRcuDeletes(w) ==
    /\ wpc[w] = "swapped"
    /\ status' = [o \in Objects |-> IF o = wold[w] THEN "free" ELSE status[o]]
    /\ WriterDone(w)
    /\ UNCHANGED <<ptr, waiting, readerVars, dtorVars>>

\* Mutant: the outgoing object is not handed over for reclamation.
CallRcuLeaks(w) ==
    /\ wpc[w] = "swapped"
    /\ WriterDone(w)
    /\ UNCHANGED <<ptr, status, waiting, readerVars, dtorVars>>

\* if (!outgoing) return; call_rcu(&node->head, retire_cb)
CallRcu(w) ==
    /\ wpc[w] = "swapped"
    /\ status' = [o \in Objects |-> IF o = wold[w] THEN "retired" ELSE status[o]]
    /\ waiting' = [o \in Objects |-> IF o = wold[w] THEN InSection ELSE waiting[o]]
    /\ WriterDone(w)
    /\ UNCHANGED <<ptr, readerVars, dtorVars>>

\* retire_cb, run by liburcu's thread after a grace period.
Reclaim(o) ==
    /\ status[o] = "retired" /\ waiting[o] = {}
    /\ status' = [status EXCEPT ![o] = "free"]
    /\ UNCHANGED <<ptr, waiting, readerVars, writerVars, dtorVars>>

-----------------------------------------------------------------------------
(* ~rcu_managed(), after the last store() and with no new readers          *)

DestroyBegin ==
    /\ dtor = "no" /\ \A w \in Writers : wpc[w] = "idle"
    /\ dtor' = "sync" /\ dwait' = InSection
    /\ UNCHANGED <<ptr, status, waiting, readerVars, writerVars>>

\* synchronize() has returned: delete ptr_.load()
DestroyEnd ==
    /\ dtor = "sync" /\ dwait = {}
    /\ dtor' = "done"
    /\ status' = [o \in Objects |-> IF o = ptr THEN "free" ELSE status[o]]
    /\ ptr' = NoObject
    /\ UNCHANGED <<waiting, readerVars, writerVars, dwait>>

-----------------------------------------------------------------------------

RcuReader(r) == ReadLock(r) \/ LoadPtr(r) \/ ReadUnlock(r)

RcuWriter(w) ==
    \/ UnsafeGet(w)
    \/ \E o \in Objects : Allocate(w, o)
    \/ Exchange(w)
    \/ CallRcu(w)

RcuNext ==
    \/ \E r \in Readers : RcuReader(r)
    \/ \E w \in Writers : RcuWriter(w)
    \/ \E o \in Objects : Reclaim(o)
    \/ DestroyBegin \/ DestroyEnd

RcuSpec == (\E o \in Objects \cup {NoObject} : RcuInit(o)) /\ [][RcuNext]_rcuVars

-----------------------------------------------------------------------------

(* "T is stable for guard's lifetime": no reader holds, and no writer that took
   the pointer with unsafe_get() is copying from, an object that has been
   deleted by a retire_cb or by the destructor. *)
NoUseAfterFree ==
    /\ \A r \in Readers : rpc[r] = "in" /\ guard[r] # NoObject => status[guard[r]] # "free"
    /\ \A w \in Writers : wpc[w] = "got" /\ wold[w] # NoObject => status[wold[w]] # "free"

(* Why it holds, as an invariant every step preserves: exactly the installed
   object is current, at most one writer is active and it works with the
   installed object until it swaps it, and an object some reader still holds is
   installed, on its way to call_rcu(), or retired and waiting for that very
   reader; the destructor waits for every reader that still holds anything. *)
RcuInv ==
    /\ RcuTypeOK
    /\ \A o \in Objects : status[o] = "current" <=> o = ptr
    /\ \A v, w \in Writers : wpc[v] # "idle" /\ wpc[w] # "idle" => v = w
    /\ \A w \in Writers :
          /\ wpc[w] \in {"got", "built"} => wold[w] = ptr
          /\ wpc[w] = "built" => wnew[w] \in Objects /\ status[wnew[w]] = "private"
          /\ wpc[w] = "swapped" /\ wold[w] # NoObject => status[wold[w]] = "outgoing"
          /\ wpc[w] # "idle" => dtor = "no"
    /\ \A r \in Readers :
          rpc[r] = "in" /\ guard[r] # NoObject =>
             \/ status[guard[r]] \in {"current", "outgoing"}
             \/ status[guard[r]] = "retired" /\ r \in waiting[guard[r]]
    /\ dtor = "sync" => InSection \subseteq dwait
    /\ dtor = "done" => InSection = {}

(* The comment in the destructor: "Drain any pending call_rcu callbacks before
   destroying."  When the destructor returns, no callback is still to run. *)
DestructorDrains == dtor = "done" => \A o \in Objects : status[o] # "retired"
================================================================================

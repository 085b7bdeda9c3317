------------------------------- MODULE SpscQueue -------------------------------
(***************************************************************************)
(* The lock-free ring buffer of include/nomos/rt/spsc_queue.hpp, one step  *)
(* per shared-memory access of push() and pop().                           *)
(*                                                                         *)
(* head_ and tail_ are atomics that each side stores with release and the  *)
(* other side loads with acquire.  An acquire load may return any value    *)
(* from the newest one this thread has already seen up to the current one  *)
(* (coherence), so each side carries the newest foreign index it has seen  *)
(* and a load picks from there on.  The slots are plain memory: touching   *)
(* one while the other side may touch it is a data race (NoSlotRace).      *)
(*                                                                         *)
(* Producers is the set of threads that call push(); the class allows      *)
(* exactly one.                                                            *)
(***************************************************************************)
EXTENDS Integers, Sequences

CONSTANTS
    Capacity,   \* template parameter: number of slots
    Items,      \* what can be pushed
    Producers,  \* the threads calling push()
    NoItem      \* a slot nothing was written to, T{}

\* static_assert(Capacity >= 2); being a power of two, "& mask_" is "% Capacity".
ASSUME CapacityAssumption == Capacity \in Nat /\ Capacity >= 2
ASSUME ItemsAssumption    == NoItem \notin Items

VARIABLES
    head,   \* head_, the next slot to write
    tail,   \* tail_, the next slot to read
    slots,  \* slots_
    ppc,    \* where each producer is in push()
    phead,  \* each producer's local `head`
    pitem,  \* each producer's argument `item`
    ptail,  \* the newest tail_ each producer has seen
    cpc,    \* where the consumer is in pop()
    chead,  \* the newest head_ the consumer has seen
    citem,  \* the consumer's local `item`
    out     \* the item the last successful pop() returned

pvars == <<ppc, phead, pitem, ptail>>
cvars == <<cpc, chead, citem, out>>
vars  == <<head, tail, slots, pvars, cvars>>

Index == 0 .. (Capacity - 1)

\* (i + 1) & mask_
Succ(i) == (i + 1) % Capacity

\* (h - t) & mask_: what size() computes from its two loads.
SizeOf(h, t) == (h - t) % Capacity

\* The values an acquire load may return to a thread that has already seen
\* `seen` of an index that is now `now`.
Loadable(seen, now) == {(seen + d) % Capacity : d \in 0 .. SizeOf(now, seen)}

TypeOK ==
    /\ head \in Index /\ tail \in Index
    /\ slots \in [Index -> Items \cup {NoItem}]
    /\ ppc \in [Producers -> {"idle", "check", "write", "publish"}]
    /\ phead \in [Producers -> Index]
    /\ pitem \in [Producers -> Items \cup {NoItem}]
    /\ ptail \in [Producers -> Index]
    /\ cpc \in {"idle", "read", "release"}
    /\ chead \in Index
    /\ citem \in Items \cup {NoItem}
    /\ out \in Items \cup {NoItem}

Init ==
    /\ head = 0 /\ tail = 0
    /\ slots = [i \in Index |-> NoItem]
    /\ ppc = [p \in Producers |-> "idle"]
    /\ phead = [p \in Producers |-> 0]
    /\ pitem = [p \in Producers |-> NoItem]
    /\ ptail = [p \in Producers |-> 0]
    /\ cpc = "idle" /\ chead = 0 /\ citem = NoItem /\ out = NoItem

-----------------------------------------------------------------------------
(* push(item)                                                              *)

\* const head = head_.load(relaxed): head_ is the producer's own variable.
PushBegin(p, item) ==
    /\ ppc[p] = "idle"
    /\ pitem' = [pitem EXCEPT ![p] = item]
    /\ phead' = [phead EXCEPT ![p] = head]
    /\ ppc' = [ppc EXCEPT ![p] = "check"]
    /\ UNCHANGED <<head, tail, slots, ptail, cvars>>

\* Mutant: the test for a full queue is missing.
PushCheckNeverFull(p) ==
    /\ ppc[p] = "check"
    /\ \E t \in Loadable(ptail[p], tail) :
          /\ ptail' = [ptail EXCEPT ![p] = t]
          /\ ppc' = [ppc EXCEPT ![p] = "write"]
    /\ UNCHANGED <<head, tail, slots, phead, pitem, cvars>>

\* next == tail_.load(acquire): full, return false; otherwise go on to write.
PushCheck(p) ==
    /\ ppc[p] = "check"
    /\ \E t \in Loadable(ptail[p], tail) :
          /\ ptail' = [ptail EXCEPT ![p] = t]
          /\ ppc' = [ppc EXCEPT ![p] = IF Succ(phead[p]) = t THEN "idle" ELSE "write"]
    /\ UNCHANGED <<head, tail, slots, phead, pitem, cvars>>

\* Mutant: head_ is published before the slot is written.
PushWritePublishesFirst(p) ==
    /\ ppc[p] \in {"write", "publish"}
    /\ IF ppc[p] = "write"
       THEN head' = Succ(phead[p]) /\ UNCHANGED slots
       ELSE slots' = [slots EXCEPT ![phead[p]] = pitem[p]] /\ UNCHANGED head
    /\ ppc' = [ppc EXCEPT ![p] = IF @ = "write" THEN "publish" ELSE "idle"]
    /\ UNCHANGED <<tail, phead, pitem, ptail, cvars>>

\* slots_[head] = std::move(item)
PushWrite(p) ==
    /\ ppc[p] = "write"
    /\ slots' = [slots EXCEPT ![phead[p]] = pitem[p]]
    /\ ppc' = [ppc EXCEPT ![p] = "publish"]
    /\ UNCHANGED <<head, tail, phead, pitem, ptail, cvars>>

\* head_.store(next, release); return true
PushPublish(p) ==
    /\ ppc[p] = "publish"
    /\ head' = Succ(phead[p])
    /\ ppc' = [ppc EXCEPT ![p] = "idle"]
    /\ UNCHANGED <<tail, slots, phead, pitem, ptail, cvars>>

-----------------------------------------------------------------------------
(* pop()                                                                   *)

\* tail == head_.load(acquire): empty, return nullopt; otherwise go on to read.
\* tail_ is the consumer's own variable, its relaxed load is exact.
PopCheck ==
    /\ cpc = "idle"
    /\ \E h \in Loadable(chead, head) :
          /\ chead' = h
          /\ cpc' = IF tail = h THEN "idle" ELSE "read"
    /\ UNCHANGED <<head, tail, slots, citem, out, pvars>>

\* T item = std::move(slots_[tail])
PopRead ==
    /\ cpc = "read"
    /\ citem' = slots[tail]
    /\ cpc' = "release"
    /\ UNCHANGED <<head, tail, slots, chead, out, pvars>>

\* tail_.store((tail + 1) & mask_, release); return item
PopRelease ==
    /\ cpc = "release"
    /\ tail' = Succ(tail)
    /\ out' = citem
    /\ cpc' = "idle"
    /\ UNCHANGED <<head, slots, chead, citem, pvars>>

-----------------------------------------------------------------------------

Push(p) ==
    \/ \E item \in Items : PushBegin(p, item)
    \/ PushCheck(p)
    \/ PushWrite(p)
    \/ PushPublish(p)

Pop == PopCheck \/ PopRead \/ PopRelease

Next == Pop \/ \E p \in Producers : Push(p)

Spec == Init /\ [][Next]_vars

-----------------------------------------------------------------------------

Occupancy == SizeOf(head, tail)

\* What is queued right now, front first.
Content == [k \in 1 .. Occupancy |-> slots[(tail + k - 1) % Capacity]]

(* No slot is written by one thread while another reads or writes it: the
   plain accesses slots_[head] in push() and slots_[tail] in pop() are ordered
   by the acquire loads and release stores around them. *)
NoSlotRace ==
    \A p \in Producers :
        ppc[p] = "write" =>
            /\ ~(cpc = "read" /\ tail = phead[p])
            /\ \A q \in Producers \ {p} : ~(ppc[q] = "write" /\ phead[q] = phead[p])

(* Why the queue works, as an invariant every step preserves when one thread
   pushes: neither side ever sees the other's index ahead of where it is, what
   lies between tail and head never exceeds Capacity - 1 seen from any thread,
   a producer that found room still has it when it writes and publishes, and a
   consumer that found an item still has that item when it reads and
   releases. *)
RingInv ==
    /\ TypeOK
    /\ \A p \in Producers :
          /\ SizeOf(head, ptail[p]) = Occupancy + SizeOf(tail, ptail[p])
          /\ ppc[p] # "idle" => phead[p] = head /\ pitem[p] \in Items
          /\ ppc[p] \in {"write", "publish"} => SizeOf(head, ptail[p]) < Capacity - 1
          /\ ppc[p] = "publish" => slots[head] = pitem[p]
    /\ Occupancy = SizeOf(head, chead) + SizeOf(chead, tail)
    /\ cpc \in {"read", "release"} => chead # tail
    /\ cpc = "release" => citem = slots[tail]

(* empty() and size(), called from either thread, are safe approximations
   ("may be stale by the time the caller acts on them"): whatever head the
   consumer may load, size() promises it no item that is not there; whatever
   tail the producer may load, size() promises it no room that is not there
   and never exceeds the Capacity - 1 items the queue can hold. *)
SizeIsSafeEstimate ==
    /\ \A h \in Loadable(chead, head) : SizeOf(h, tail) <= Occupancy
    /\ \A p \in Producers : \A t \in Loadable(ptail[p], tail) :
          Occupancy <= SizeOf(head, t)

(* The ring buffer implements the bounded queue of Capacity - 1 items: every
   accepted push and every successful pop takes effect atomically (at the
   release store), in order, with nothing lost, duplicated or invented. *)
Fifo == INSTANCE BoundedFifo WITH
            content <- Content, Bound <- Capacity - 1

ImplementsFifo == Fifo!FifoInit(NoItem) /\ [][Fifo!FifoNext]_(Fifo!fifoVars)

================================================================================

------------------------------- MODULE RingProofs ------------------------------
(***************************************************************************)
(* Proofs about what passes through rings, registers and ports.            *)
(*                                                                         *)
(* spsc_queue for every Capacity and every set of items, under the class's *)
(* contract that push() is called from one thread.                         *)
(*                                                                         *)
(* midi_io, whose callback is such a thread, for every set of sending      *)
(* threads and every number of messages and openings: the tap of send()    *)
(* mirrors the wire, and midi_callback() finds its queue.                  *)
(*                                                                         *)
(* Two chained cipher modulators for registers of any width.               *)
(***************************************************************************)
EXTENDS SpscQueue, MidiIo, Cipher, TLAPS

\* "push() is safe to call from exactly one thread."
SingleProducer == \A p, q \in Producers : p = q

-----------------------------------------------------------------------------
(* Index arithmetic.  Every sum and difference of two indices is within one
   Capacity of the range of indices, so masking adds or subtracts Capacity at
   most once; after these lemmas all reasoning is linear.                   *)

(* Masking a value already in range, as (head + 1) & mask_ does mid-buffer. *)
LEMMA ModInRange == \A x \in Index : x % Capacity = x
  BY CapacityAssumption DEF Index

(* Masking a value one lap too high, as (head + 1) & mask_ does at the end. *)
LEMMA ModAbove ==
  \A x \in Capacity .. (2 * Capacity - 1) : x % Capacity = x - Capacity
  BY CapacityAssumption

(* Masking a negative difference, as size() does when head_ has wrapped. *)
LEMMA ModBelow == \A x \in (-Capacity) .. (-1) : x % Capacity = x + Capacity
  BY CapacityAssumption

(* What (h - t) & mask_ computes. *)
LEMMA SizeOfIs ==
  ASSUME NEW h \in Index, NEW t \in Index
  PROVE  /\ SizeOf(h, t) = IF h >= t THEN h - t ELSE h - t + Capacity
         /\ SizeOf(h, t) \in Index
<1>1. CASE h >= t
  <2>1. h - t \in Index
    BY <1>1, CapacityAssumption DEF Index
  <2> QED
    BY <1>1, <2>1, ModInRange DEF SizeOf
<1>2. CASE ~(h >= t)
  <2>1. h - t \in (-Capacity) .. (-1)
    BY <1>2, CapacityAssumption DEF Index
  <2>2. h - t + Capacity \in Index
    BY <1>2, CapacityAssumption DEF Index
  <2> QED
    BY <1>2, <2>1, <2>2, ModBelow DEF SizeOf
<1> QED
  BY <1>1, <1>2

(* What (i + n) & mask_ computes. *)
LEMMA AdvanceIs ==
  ASSUME NEW i \in Index, NEW n \in Index
  PROVE  /\ (i + n) % Capacity = IF i + n < Capacity THEN i + n ELSE i + n - Capacity
         /\ (i + n) % Capacity \in Index
<1>1. CASE i + n < Capacity
  <2>1. i + n \in Index
    BY <1>1, CapacityAssumption DEF Index
  <2> QED
    BY <1>1, <2>1, ModInRange
<1>2. CASE ~(i + n < Capacity)
  <2>1. i + n \in Capacity .. (2 * Capacity - 1) /\ i + n - Capacity \in Index
    BY <1>2, CapacityAssumption DEF Index
  <2>2. (i + n) % Capacity = i + n - Capacity
    BY <2>1, ModAbove, CapacityAssumption DEF Index
  <2> QED
    BY <1>2, <2>1, <2>2
<1> QED
  BY <1>1, <1>2

(* The successor of an index. *)
LEMMA SuccIs ==
  ASSUME NEW i \in Index
  PROVE  /\ Succ(i) = IF i + 1 < Capacity THEN i + 1 ELSE 0
         /\ Succ(i) \in Index
<1>1. 1 \in Index
  BY CapacityAssumption DEF Index
<1>2. /\ (i + 1) % Capacity = IF i + 1 < Capacity THEN i + 1 ELSE i + 1 - Capacity
      /\ (i + 1) % Capacity \in Index
  BY <1>1, AdvanceIs
<1> QED
  BY <1>2, CapacityAssumption DEF Succ, Index

(* An acquire load returns an index between the one already seen and the
   current one. *)
LEMMA LoadedIsBetween ==
  ASSUME NEW seen \in Index, NEW now \in Index, NEW x \in Loadable(seen, now)
  PROVE  /\ x \in Index
         /\ SizeOf(now, seen) = SizeOf(now, x) + SizeOf(x, seen)
<1>1. PICK d \in 0 .. SizeOf(now, seen) : x = (seen + d) % Capacity
  BY DEF Loadable
<1>2. d \in Index
  BY SizeOfIs, CapacityAssumption DEF Index
<1>3. /\ x = IF seen + d < Capacity THEN seen + d ELSE seen + d - Capacity
      /\ x \in Index
  BY <1>1, <1>2, AdvanceIs
<1>4. /\ SizeOf(now, seen) = IF now >= seen THEN now - seen ELSE now - seen + Capacity
      /\ SizeOf(now, x) = IF now >= x THEN now - x ELSE now - x + Capacity
      /\ SizeOf(x, seen) = IF x >= seen THEN x - seen ELSE x - seen + Capacity
  BY <1>3, SizeOfIs
<1> QED
  BY <1>1, <1>2, <1>3, <1>4, CapacityAssumption DEF Index

(* A distance around the ring, as a number. *)
LEMMA SizeOfType ==
  ASSUME NEW h \in Index, NEW t \in Index
  PROVE  /\ SizeOf(h, t) \in Nat /\ SizeOf(h, t) < Capacity
         /\ SizeOf(h, t) = 0 <=> h = t
<1>1. /\ SizeOf(h, t) = IF h >= t THEN h - t ELSE h - t + Capacity
      /\ SizeOf(h, t) \in Index
  BY SizeOfIs
<1> QED
  BY <1>1, CapacityAssumption DEF Index

(* If b lies on the way from d to a, and c on the way from d to b, then c lies
   on the way from d to a and b on the way from c to a. *)
LEMMA BetweenTrans ==
  ASSUME NEW a \in Index, NEW b \in Index, NEW c \in Index, NEW d \in Index,
         SizeOf(a, d) = SizeOf(a, b) + SizeOf(b, d),
         SizeOf(b, d) = SizeOf(b, c) + SizeOf(c, d)
  PROVE  /\ SizeOf(a, c) = SizeOf(a, b) + SizeOf(b, c)
         /\ SizeOf(a, d) = SizeOf(a, c) + SizeOf(c, d)
<1>1. /\ SizeOf(a, d) = IF a >= d THEN a - d ELSE a - d + Capacity
      /\ SizeOf(a, b) = IF a >= b THEN a - b ELSE a - b + Capacity
      /\ SizeOf(b, d) = IF b >= d THEN b - d ELSE b - d + Capacity
      /\ SizeOf(b, c) = IF b >= c THEN b - c ELSE b - c + Capacity
      /\ SizeOf(c, d) = IF c >= d THEN c - d ELSE c - d + Capacity
      /\ SizeOf(a, c) = IF a >= c THEN a - c ELSE a - c + Capacity
  BY SizeOfIs
<1> QED
  BY <1>1, CapacityAssumption DEF Index

(* Publishing moves head one further from every index it had room towards. *)
LEMMA SuccHead ==
  ASSUME NEW h \in Index, NEW t \in Index
  PROVE  /\ Succ(h) \in Index
         /\ Succ(h) # t => SizeOf(h, t) < Capacity - 1
         /\ SizeOf(h, t) < Capacity - 1 => SizeOf(Succ(h), t) = SizeOf(h, t) + 1
<1>1. /\ SizeOf(h, t) = IF h >= t THEN h - t ELSE h - t + Capacity
      /\ Succ(h) = IF h + 1 < Capacity THEN h + 1 ELSE 0
      /\ Succ(h) \in Index
  BY SizeOfIs, SuccIs
<1>2. SizeOf(Succ(h), t) = IF Succ(h) >= t THEN Succ(h) - t ELSE Succ(h) - t + Capacity
  BY <1>1, SizeOfIs
<1> QED
  BY <1>1, <1>2, CapacityAssumption DEF Index

(* Releasing moves tail one closer to an index it has not reached. *)
LEMMA SuccTail ==
  ASSUME NEW h \in Index, NEW t \in Index, h # t
  PROVE  SizeOf(h, Succ(t)) = SizeOf(h, t) - 1
<1>1. /\ SizeOf(h, t) = IF h >= t THEN h - t ELSE h - t + Capacity
      /\ Succ(t) = IF t + 1 < Capacity THEN t + 1 ELSE 0
      /\ Succ(t) \in Index
  BY SizeOfIs, SuccIs
<1>2. SizeOf(h, Succ(t)) = IF h >= Succ(t) THEN h - Succ(t) ELSE h - Succ(t) + Capacity
  BY <1>1, SizeOfIs
<1> QED
  BY <1>1, <1>2, CapacityAssumption DEF Index

(* The same with c on the way from b to a. *)
LEMMA BetweenTrans2 ==
  ASSUME NEW a \in Index, NEW b \in Index, NEW c \in Index, NEW d \in Index,
         SizeOf(a, d) = SizeOf(a, b) + SizeOf(b, d),
         SizeOf(a, b) = SizeOf(a, c) + SizeOf(c, b)
  PROVE  SizeOf(a, d) = SizeOf(a, c) + SizeOf(c, d)
<1>1. /\ SizeOf(a, d) = IF a >= d THEN a - d ELSE a - d + Capacity
      /\ SizeOf(a, b) = IF a >= b THEN a - b ELSE a - b + Capacity
      /\ SizeOf(b, d) = IF b >= d THEN b - d ELSE b - d + Capacity
      /\ SizeOf(c, b) = IF c >= b THEN c - b ELSE c - b + Capacity
      /\ SizeOf(c, d) = IF c >= d THEN c - d ELSE c - d + Capacity
      /\ SizeOf(a, c) = IF a >= c THEN a - c ELSE a - c + Capacity
  BY SizeOfIs
<1> QED
  BY <1>1, CapacityAssumption DEF Index

-----------------------------------------------------------------------------
(* The invariant.                                                          *)

(* Initially both indices and every view of them are 0. *)
LEMMA RingInit == Init => RingInv
<1> SUFFICES ASSUME Init PROVE RingInv
  OBVIOUS
<1>1. 0 \in Index
  BY CapacityAssumption DEF Index
<1>2. TypeOK
  BY <1>1 DEF Init, TypeOK
<1>3. SizeOf(0, 0) = 0
  BY <1>1, SizeOfIs
<1> QED
  BY <1>2, <1>3 DEF Init, RingInv, Occupancy

(* Every step of push() by the only producer preserves the invariant. *)
LEMMA PushPreserves ==
  ASSUME SingleProducer, RingInv, NEW p \in Producers, Push(p)
  PROVE  RingInv'
<1> USE DEF RingInv, TypeOK, Occupancy, cvars
<1>0. \A q \in Producers : q = p
  BY DEF SingleProducer
<1>a. /\ head \in Index /\ tail \in Index /\ chead \in Index /\ ptail[p] \in Index
      /\ SizeOf(head, tail) \in Nat /\ SizeOf(tail, ptail[p]) \in Nat
      /\ SizeOf(head, ptail[p]) = SizeOf(head, tail) + SizeOf(tail, ptail[p])
      /\ SizeOf(head, chead) \in Nat /\ SizeOf(chead, tail) \in Nat
      /\ SizeOf(head, tail) = SizeOf(head, chead) + SizeOf(chead, tail)
  BY SizeOfType
<1>1. CASE \E item \in Items : PushBegin(p, item)
  BY <1>0, <1>1 DEF PushBegin
<1>2. CASE PushCheck(p)
  <2>1. PICK t \in Loadable(ptail[p], tail) :
          /\ ptail' = [ptail EXCEPT ![p] = t]
          /\ ppc' = [ppc EXCEPT ![p] = IF Succ(phead[p]) = t THEN "idle" ELSE "write"]
    BY <1>2, Zenon DEF PushCheck
  <2>2. UNCHANGED <<head, tail, slots, phead, pitem, cvars>> /\ phead[p] = head /\ pitem[p] \in Items
    BY <1>2 DEF PushCheck
  <2>3. t \in Index /\ SizeOf(tail, ptail[p]) = SizeOf(tail, t) + SizeOf(t, ptail[p])
    BY <1>a, LoadedIsBetween
  <2>4. SizeOf(head, t) = SizeOf(head, tail) + SizeOf(tail, t)
    BY <1>a, <2>3, BetweenTrans
  <2>5. Succ(head) # t => SizeOf(head, t) < Capacity - 1
    BY <1>a, <2>3, SuccHead
  <2>6. TypeOK'
    BY <2>1, <2>2, <2>3
  <2> QED
    BY <1>0, <2>1, <2>2, <2>3, <2>4, <2>5, <2>6
<1>3. CASE PushWrite(p)
  <2>1. cpc = "release" => head # tail
    BY <1>a, SizeOfType
  <2>2. pitem[p] \in Items /\ phead[p] = head
    BY <1>3 DEF PushWrite
  <2>3. TypeOK'
    BY <1>3, <2>2 DEF PushWrite
  <2> QED
    BY <1>0, <1>a, <1>3, <2>1, <2>2, <2>3 DEF PushWrite
<1>4. CASE PushPublish(p)
  <2>1. head' = Succ(head) /\ Succ(head) \in Index /\ SizeOf(head, ptail[p]) < Capacity - 1
    BY <1>a, <1>4, SuccHead DEF PushPublish
  <2>2. /\ SizeOf(head, tail) < Capacity - 1
        /\ SizeOf(head, chead) < Capacity - 1
    BY <1>a, <2>1, CapacityAssumption
  <2>3. /\ SizeOf(Succ(head), ptail[p]) = SizeOf(head, ptail[p]) + 1
        /\ SizeOf(Succ(head), tail) = SizeOf(head, tail) + 1
        /\ SizeOf(Succ(head), chead) = SizeOf(head, chead) + 1
    BY <1>a, <2>1, <2>2, SuccHead
  <2>4. TypeOK'
    BY <1>4, <2>1 DEF PushPublish
  <2>5. UNCHANGED <<tail, slots, phead, pitem, ptail, cvars>> /\ ppc' = [ppc EXCEPT ![p] = "idle"]
    BY <1>4 DEF PushPublish
  <2>6. /\ (SizeOf(head, ptail[p]) = Occupancy + SizeOf(tail, ptail[p]))'
        /\ (Occupancy = SizeOf(head, chead) + SizeOf(chead, tail))'
    BY <1>a, <2>1, <2>3, <2>5
  <2>7. ppc'[p] = "idle"
    BY <2>5
  <2> QED
    BY <1>0, <2>4, <2>5, <2>6, <2>7
<1> QED
  BY <1>1, <1>2, <1>3, <1>4, Zenon DEF Push

(* Every step of pop() preserves the invariant. *)
LEMMA PopPreserves ==
  ASSUME RingInv, Pop
  PROVE  RingInv'
<1> USE DEF RingInv, TypeOK, Occupancy, pvars
<1>a. /\ head \in Index /\ tail \in Index /\ chead \in Index
      /\ SizeOf(head, chead) \in Nat /\ SizeOf(chead, tail) \in Nat
      /\ SizeOf(head, tail) = SizeOf(head, chead) + SizeOf(chead, tail)
  BY SizeOfType
<1>1. CASE PopCheck
  <2>1. PICK h \in Loadable(chead, head) :
          chead' = h /\ cpc' = IF tail = h THEN "idle" ELSE "read"
    BY <1>1 DEF PopCheck
  <2>2. UNCHANGED <<head, tail, slots, citem, out, pvars>>
    BY <1>1 DEF PopCheck
  <2>3. h \in Index /\ SizeOf(head, chead) = SizeOf(head, h) + SizeOf(h, chead)
    BY <1>a, LoadedIsBetween
  <2>4. SizeOf(head, tail) = SizeOf(head, h) + SizeOf(h, tail)
    BY <1>a, <2>3, BetweenTrans2
  <2> QED
    BY <2>1, <2>2, <2>3, <2>4
<1>2. CASE PopRead
  BY <1>2 DEF PopRead
<1>3. CASE PopRelease
  <2>1. /\ tail' = Succ(tail) /\ Succ(tail) \in Index /\ chead # tail
        /\ UNCHANGED <<head, slots, chead, citem, pvars>> /\ cpc' = "idle"
    BY <1>3, SuccIs DEF PopRelease
  <2>2. head # tail
    BY <1>a, <2>1, SizeOfType
  <2>3. /\ SizeOf(head, Succ(tail)) = SizeOf(head, tail) - 1
        /\ SizeOf(chead, Succ(tail)) = SizeOf(chead, tail) - 1
    BY <1>a, <2>1, <2>2, SuccTail
  <2>4. (Occupancy = SizeOf(head, chead) + SizeOf(chead, tail))'
    BY <1>a, <2>1, <2>3
  <2>5. ASSUME NEW p \in Producers
        PROVE  SizeOf(head, ptail[p]) = SizeOf(head, Succ(tail)) + SizeOf(Succ(tail), ptail[p])
    <3>1. /\ ptail[p] \in Index /\ SizeOf(tail, ptail[p]) \in Nat
          /\ SizeOf(head, ptail[p]) = SizeOf(head, tail) + SizeOf(tail, ptail[p])
          /\ SizeOf(head, tail) \in Nat \ {0}
          /\ SizeOf(head, ptail[p]) < Capacity
      BY <1>a, <2>2, SizeOfType
    <3>2. SizeOf(tail, ptail[p]) < Capacity - 1
      BY <3>1, CapacityAssumption
    <3>3. SizeOf(Succ(tail), ptail[p]) = SizeOf(tail, ptail[p]) + 1
      BY <1>a, <3>1, <3>2, SuccHead
    <3> QED
      BY <2>3, <3>1, <3>3
  <2>6. TypeOK'
    BY <1>3, <2>1 DEF PopRelease
  <2> QED
    BY <2>1, <2>4, <2>5, <2>6
<1> QED
  BY <1>1, <1>2, <1>3 DEF Pop

(* With one producer the ring invariant always holds. *)
THEOREM RingInvariance == ASSUME SingleProducer PROVE Spec => []RingInv
<1>1. RingInv /\ [Next]_vars => RingInv'
  <2> SUFFICES ASSUME RingInv, [Next]_vars PROVE RingInv'
    OBVIOUS
  <2>1. CASE Pop
    BY <2>1, PopPreserves
  <2>2. ASSUME NEW p \in Producers, Push(p) PROVE RingInv'
    BY <2>2, PushPreserves
  <2>3. CASE UNCHANGED vars
    BY <2>3 DEF vars, pvars, cvars, RingInv, TypeOK, Occupancy
  <2> QED
    BY <2>1, <2>2, <2>3 DEF Next
<1> QED
  BY <1>1, RingInit, PTL DEF Spec

(* With one producer the two threads never touch the same slot at once. *)
THEOREM SlotSafety == ASSUME SingleProducer PROVE Spec => []NoSlotRace
<1>1. RingInv => NoSlotRace
  <2> SUFFICES ASSUME RingInv, NEW p \in Producers, ppc[p] = "write"
               PROVE  /\ ~(cpc = "read" /\ tail = phead[p])
                      /\ \A q \in Producers \ {p} : ~(ppc[q] = "write" /\ phead[q] = phead[p])
    BY DEF NoSlotRace
  <2>1. cpc = "read" => head # tail
    BY SizeOfType DEF RingInv, TypeOK, Occupancy
  <2> QED
    BY <2>1 DEF RingInv, SingleProducer
<1> QED
  BY <1>1, RingInvariance, PTL

(* What size() and empty() tell either thread is on the safe side. *)
THEOREM SizeSafety == ASSUME SingleProducer PROVE Spec => []SizeIsSafeEstimate
<1>1. RingInv => SizeIsSafeEstimate
  <2> SUFFICES ASSUME RingInv PROVE SizeIsSafeEstimate
    OBVIOUS
  <2> USE DEF RingInv, TypeOK, Occupancy
  <2>1. ASSUME NEW h \in Loadable(chead, head) PROVE SizeOf(h, tail) <= Occupancy
    <3>1. h \in Index /\ SizeOf(head, chead) = SizeOf(head, h) + SizeOf(h, chead)
      BY LoadedIsBetween
    <3>2. SizeOf(head, tail) = SizeOf(head, h) + SizeOf(h, tail)
      BY <3>1, BetweenTrans2
    <3>3. SizeOf(head, h) \in Nat /\ SizeOf(h, tail) \in Nat
      BY <3>1, SizeOfType
    <3> QED
      BY <3>2, <3>3
  <2>2. ASSUME NEW p \in Producers, NEW t \in Loadable(ptail[p], tail)
        PROVE  Occupancy <= SizeOf(head, t)
    <3>1. /\ t \in Index /\ ptail[p] \in Index
          /\ SizeOf(tail, ptail[p]) = SizeOf(tail, t) + SizeOf(t, ptail[p])
      BY LoadedIsBetween
    <3>2. SizeOf(head, t) = SizeOf(head, tail) + SizeOf(tail, t)
      BY <3>1, BetweenTrans
    <3>3. SizeOf(head, tail) \in Nat /\ SizeOf(tail, t) \in Nat
      BY <3>1, SizeOfType
    <3> QED
      BY <3>2, <3>3
  <2> QED
    BY <2>1, <2>2 DEF SizeIsSafeEstimate
<1> QED
  BY <1>1, RingInvariance, PTL

-----------------------------------------------------------------------------
(* The ring buffer implements the bounded queue.                           *)

(* The slot k places after the front of the queue. *)
SlotOf(t, k) == (t + k - 1) % Capacity

(* The slots of the queued items are inside the buffer, the slot head_ points
   to is not among them unless the buffer is full, and the slot just after
   them is the one head_ points to. *)
LEMMA SlotOfIs ==
  ASSUME NEW h \in Index, NEW t \in Index
  PROVE  /\ \A k \in 1 .. SizeOf(h, t) : SlotOf(t, k) \in Index /\ SlotOf(t, k) # h
         /\ SlotOf(t, SizeOf(h, t) + 1) = h
         /\ SlotOf(t, 1) = t
<1>1. /\ SizeOf(h, t) = IF h >= t THEN h - t ELSE h - t + Capacity
      /\ SizeOf(h, t) \in Index
  BY SizeOfIs
<1>2. ASSUME NEW k \in 1 .. (SizeOf(h, t) + 1)
      PROVE  /\ SlotOf(t, k) = IF t + k - 1 < Capacity THEN t + k - 1 ELSE t + k - 1 - Capacity
             /\ SlotOf(t, k) \in Index
  <2>1. k - 1 \in Index /\ t + k - 1 = t + (k - 1)
    BY <1>1, CapacityAssumption DEF Index
  <2>2. /\ (t + (k - 1)) % Capacity = IF t + (k - 1) < Capacity THEN t + (k - 1) ELSE t + (k - 1) - Capacity
        /\ (t + (k - 1)) % Capacity \in Index
    BY <2>1, AdvanceIs
  <2> QED
    BY <2>1, <2>2 DEF SlotOf
<1>3. ASSUME NEW k \in 1 .. SizeOf(h, t)
      PROVE  SlotOf(t, k) \in Index /\ SlotOf(t, k) # h
  <2>1. k \in 1 .. (SizeOf(h, t) + 1)
    BY <1>1, CapacityAssumption DEF Index
  <2>2. /\ SlotOf(t, k) = IF t + k - 1 < Capacity THEN t + k - 1 ELSE t + k - 1 - Capacity
        /\ SlotOf(t, k) \in Index
    BY <1>2, <2>1
  <2> QED
    BY <1>1, <2>2, CapacityAssumption DEF Index
<1>4. SlotOf(t, SizeOf(h, t) + 1) = h
  <2>1. SizeOf(h, t) + 1 \in 1 .. (SizeOf(h, t) + 1)
    BY <1>1, CapacityAssumption DEF Index
  <2>2. SlotOf(t, SizeOf(h, t) + 1) =
          IF t + (SizeOf(h, t) + 1) - 1 < Capacity
          THEN t + (SizeOf(h, t) + 1) - 1 ELSE t + (SizeOf(h, t) + 1) - 1 - Capacity
    BY <1>2, <2>1
  <2> QED
    BY <1>1, <2>2, CapacityAssumption DEF Index
<1>5. SlotOf(t, 1) = t
  <2>1. 1 \in 1 .. (SizeOf(h, t) + 1)
    BY <1>1, CapacityAssumption DEF Index
  <2>2. SlotOf(t, 1) = IF t + 1 - 1 < Capacity THEN t + 1 - 1 ELSE t + 1 - 1 - Capacity
    BY <1>2, <2>1
  <2> QED
    BY <2>2, CapacityAssumption DEF Index
<1> QED
  BY <1>3, <1>4, <1>5

(* Releasing the front slot renumbers the others by one. *)
LEMMA SlotOfNext ==
  ASSUME NEW t \in Index, NEW k \in 1 .. (Capacity - 1)
  PROVE  SlotOf(Succ(t), k) = SlotOf(t, k + 1)
<1>1. k \in Index /\ k - 1 \in Index
  BY CapacityAssumption DEF Index
<1>2. /\ Succ(t) = IF t + 1 < Capacity THEN t + 1 ELSE 0
      /\ Succ(t) \in Index
  BY SuccIs
<1>3. (t + k) % Capacity = IF t + k < Capacity THEN t + k ELSE t + k - Capacity
  BY <1>1, AdvanceIs
<1>4. (Succ(t) + (k - 1)) % Capacity =
        IF Succ(t) + (k - 1) < Capacity THEN Succ(t) + (k - 1) ELSE Succ(t) + (k - 1) - Capacity
  BY <1>1, <1>2, AdvanceIs
<1>5. Succ(t) + k - 1 = Succ(t) + (k - 1) /\ t + (k + 1) - 1 = t + k
  BY <1>1, <1>2, CapacityAssumption DEF Index
<1>6. (Succ(t) + (k - 1)) % Capacity = (t + k) % Capacity
  BY <1>1, <1>2, <1>3, <1>4, CapacityAssumption DEF Index
<1> QED
  BY <1>5, <1>6 DEF SlotOf

(* Content, slot by slot. *)
LEMMA ContentIs ==
  /\ Content = [k \in 1 .. Occupancy |-> slots[SlotOf(tail, k)]]
  /\ Content' = [k \in 1 .. Occupancy' |-> slots'[SlotOf(tail', k)]]
BY DEF Content, SlotOf

(* Content is a sequence of Occupancy items. *)
LEMMA ContentType ==
  ASSUME RingInv
  PROVE  /\ Occupancy \in Nat /\ Occupancy < Capacity
         /\ Content \in Seq(Items \cup {NoItem}) /\ Len(Content) = Occupancy
<1>1. Occupancy \in Nat /\ Occupancy < Capacity
  BY SizeOfType DEF RingInv, TypeOK, Occupancy
<1>2. \A k \in 1 .. Occupancy : slots[SlotOf(tail, k)] \in Items \cup {NoItem}
  BY SlotOfIs DEF RingInv, TypeOK, Occupancy
<1> QED
  BY <1>1, <1>2, ContentIs

(* Writing the slot head_ points to changes nothing that is queued. *)
LEMMA WriteIsInvisible ==
  ASSUME RingInv, NEW p \in Producers, PushWrite(p)
  PROVE  Content' = Content
<1>1. /\ phead[p] = head /\ slots' = [slots EXCEPT ![head] = pitem[p]]
      /\ head' = head /\ tail' = tail /\ head \in Index /\ tail \in Index
      /\ slots \in [Index -> Items \cup {NoItem}]
  BY Zenon DEF PushWrite, RingInv, TypeOK
<1>2. Occupancy' = Occupancy
  BY <1>1 DEF Occupancy
<1>3. \A k \in 1 .. Occupancy : slots'[SlotOf(tail, k)] = slots[SlotOf(tail, k)]
  BY <1>1, SlotOfIs DEF Occupancy
<1> QED
  BY <1>1, <1>2, <1>3, ContentIs

(* Publishing head_ puts the producer's item at the back of the queue. *)
LEMMA PublishEnqueues ==
  ASSUME RingInv, NEW p \in Producers, PushPublish(p)
  PROVE  Fifo!Enqueue(pitem[p])
<1>1. /\ phead[p] = head /\ pitem[p] \in Items /\ slots[head] = pitem[p]
      /\ SizeOf(head, ptail[p]) < Capacity - 1
      /\ SizeOf(head, ptail[p]) = Occupancy + SizeOf(tail, ptail[p])
      /\ head' = Succ(head) /\ tail' = tail /\ slots' = slots /\ out' = out
      /\ head \in Index /\ tail \in Index /\ ptail[p] \in Index
  BY DEF PushPublish, RingInv, TypeOK, cvars
<1>2. Occupancy < Capacity - 1
  <2>1. SizeOf(tail, ptail[p]) \in Nat /\ Occupancy \in Nat
    BY <1>1, SizeOfType DEF Occupancy
  <2> QED
    BY <1>1, <2>1, CapacityAssumption
<1>3. Occupancy' = Occupancy + 1
  BY <1>1, <1>2, SuccHead DEF Occupancy
<1>4. SlotOf(tail, Occupancy + 1) = head
  BY <1>1, SlotOfIs DEF Occupancy
<1>5. Content' = Append(Content, pitem[p])
  <2>1. Content' = [k \in 1 .. (Occupancy + 1) |-> slots[SlotOf(tail, k)]]
    BY <1>1, <1>3, ContentIs
  <2>2. Append(Content, pitem[p]) =
          [k \in 1 .. (Occupancy + 1) |-> IF k \in 1 .. Occupancy THEN Content[k] ELSE pitem[p]]
    BY ContentType, <1>1
  <2>3. \A k \in 1 .. (Occupancy + 1) :
          slots[SlotOf(tail, k)] = IF k \in 1 .. Occupancy THEN Content[k] ELSE pitem[p]
    <3> SUFFICES ASSUME NEW k \in 1 .. (Occupancy + 1)
                 PROVE  slots[SlotOf(tail, k)] = IF k \in 1 .. Occupancy THEN Content[k] ELSE pitem[p]
      OBVIOUS
    <3>1. CASE k \in 1 .. Occupancy
      BY <3>1, ContentIs
    <3>2. CASE ~(k \in 1 .. Occupancy)
      <4>1. k = Occupancy + 1
        BY <3>2, ContentType
      <4> QED
        BY <1>1, <1>4, <3>2, <4>1
    <3> QED
      BY <3>1, <3>2
  <2> QED
    BY <2>1, <2>2, <2>3
<1> QED
  BY <1>1, <1>2, <1>5, ContentType DEF Fifo!Enqueue

(* Releasing the front slot takes the front item, the one pop() returns. *)
LEMMA ReleaseDequeues ==
  ASSUME RingInv, PopRelease
  PROVE  Fifo!Dequeue
<1>1. /\ tail' = Succ(tail) /\ head' = head /\ slots' = slots /\ out' = citem
      /\ citem = slots[tail] /\ chead # tail
      /\ head \in Index /\ tail \in Index /\ chead \in Index
      /\ SizeOf(head, tail) = SizeOf(head, chead) + SizeOf(chead, tail)
  BY DEF PopRelease, RingInv, TypeOK, Occupancy
<1>2. head # tail
  BY <1>1, SizeOfType
<1>3. Occupancy' = Occupancy - 1 /\ Occupancy \in Nat \ {0} /\ Occupancy < Capacity
  BY <1>1, <1>2, SuccTail, SizeOfType DEF Occupancy
<1>4. Content # << >> /\ Head(Content) = slots[tail]
  <2>1. SlotOf(tail, 1) = tail
    BY <1>1, SlotOfIs
  <2>2. Content[1] = slots[tail]
    BY <1>3, <2>1, ContentIs
  <2> QED
    BY <1>3, <2>2, ContentType
<1>5. Content' = Tail(Content)
  <2> DEFINE S == Items \cup {NoItem}
  <2>1. /\ Tail(Content) \in Seq(S) /\ Len(Tail(Content)) = Occupancy - 1
        /\ \A k \in 1 .. (Occupancy - 1) : Tail(Content)[k] = Content[k + 1]
    BY <1>3, <1>4, ContentType
  <2>2. \A k \in 1 .. (Occupancy - 1) : Content[k + 1] = slots[SlotOf(Succ(tail), k)]
    <3> SUFFICES ASSUME NEW k \in 1 .. (Occupancy - 1)
                 PROVE  Content[k + 1] = slots[SlotOf(Succ(tail), k)]
      OBVIOUS
    <3>1. SlotOf(Succ(tail), k) = SlotOf(tail, k + 1)
      BY <1>1, <1>3, SlotOfNext, CapacityAssumption
    <3>2. k + 1 \in 1 .. Occupancy
      BY <1>3
    <3> QED
      BY <3>1, <3>2, ContentIs
  <2>3. Content' = [k \in 1 .. (Occupancy - 1) |-> slots[SlotOf(Succ(tail), k)]]
    BY <1>1, <1>3, ContentIs
  <2>4. \A k \in 1 .. (Occupancy - 1) : Tail(Content)[k] \in S
    BY <1>3, <2>1
  <2>5. Content' \in Seq(S) /\ Len(Content') = Occupancy - 1
    BY <1>3, <2>1, <2>2, <2>3, <2>4
  <2>6. \A k \in 1 .. Len(Content') : Content'[k] = Tail(Content)[k]
    BY <2>1, <2>2, <2>3, <2>5
  <2> HIDE DEF S
  <2> QED
    BY <2>1, <2>5, <2>6
<1> QED
  BY <1>1, <1>4, <1>5 DEF Fifo!Dequeue

(* With one producer the ring buffer is a first-in first-out queue of
   Capacity - 1 items, whatever the Capacity and the items. *)
THEOREM RingImplementsFifo == ASSUME SingleProducer PROVE Spec => ImplementsFifo
<1>1. Init => Fifo!FifoInit(NoItem)
  <2> SUFFICES ASSUME Init PROVE Content = << >> /\ out = NoItem
    BY DEF Fifo!FifoInit
  <2>1. Occupancy = 0
    BY RingInit, SizeOfType DEF RingInv, TypeOK, Init, Occupancy
  <2> QED
    BY <2>1, ContentIs DEF Init
<1>2. RingInv /\ [Next]_vars => [Fifo!FifoNext]_(Fifo!fifoVars)
  <2> SUFFICES ASSUME RingInv, [Next]_vars
               PROVE  Fifo!FifoNext \/ (Content' = Content /\ out' = out)
    BY DEF Fifo!fifoVars
  <2>1. CASE UNCHANGED <<head, tail, slots, out>>
    BY <2>1, ContentIs DEF Occupancy
  <2>2. CASE PopRelease
    BY <2>2, ReleaseDequeues DEF Fifo!FifoNext
  <2>3. ASSUME NEW p \in Producers, PushWrite(p) PROVE Content' = Content /\ out' = out
    BY <2>3, WriteIsInvisible, Zenon DEF PushWrite, cvars
  <2>4. ASSUME NEW p \in Producers, PushPublish(p) PROVE Fifo!FifoNext
    <3>1. pitem[p] \in Items
      BY <2>4 DEF PushPublish, RingInv
    <3> QED
      BY <2>4, <3>1, PublishEnqueues DEF Fifo!FifoNext
  <2> QED
    BY <2>1, <2>2, <2>3, <2>4
       DEF Next, Push, Pop, PushBegin, PushCheck, PopCheck, PopRead, vars, cvars
<1> QED
  BY <1>1, <1>2, RingInvariance, PTL DEF Spec, ImplementsFifo

-----------------------------------------------------------------------------
(* midi_io                                                                 *)

Messages == Threads \X Nat

\* The message t is sending; it has left when t is at "tap".
Sending(t) == <<t, sends[t]>>

\* The mutex has one holder, the thread between its lock and its tap; the tap is behind
\* the wire by the message of a thread at "tap", if there is one; what has left of a
\* thread is older than the message it is about to send.
OutputInv ==
    /\ sendPc \in [Threads -> {"idle", "lock", "send", "tap"}]
    /\ sends \in [Threads -> Nat]
    /\ wire \in Seq(Messages) /\ tap \in Seq(Messages)
    /\ \A t \in Threads : sendPc[t] \in {"send", "tap"} => mutex = {t}
    /\ \A t \in Threads : sendPc[t] = "tap" => wire = Append(tap, Sending(t))
    /\ (\A t \in Threads : sendPc[t] # "tap") => tap = wire
    /\ \A i \in DOMAIN wire :
          LET t == wire[i][1]
          IN  /\ wire[i][2] <= sends[t]
              /\ sendPc[t] \in {"lock", "send"} => wire[i][2] < sends[t]
    /\ \A i, j \in DOMAIN wire : i < j /\ wire[i][1] = wire[j][1] => wire[i][2] < wire[j][2]

\* What the output variables do in a step.
outputVars == <<sendPc, sends, mutex, wire, tap>>

LEMMA OutputInit == MidiInit => OutputInv
  BY DEF MidiInit, OutputInv, Messages

\* if (!is_open()) return, or on to the lock with a new number.
LEMMA SendTestKeeps ==
    ASSUME OutputInv, NEW t \in Threads, SendTest(t)
    PROVE  OutputInv'
<1>1. /\ sends' = [sends EXCEPT ![t] = @ + 1]
      /\ sendPc[t] = "idle"
      /\ sendPc' \in [Threads -> {"idle", "lock", "send", "tap"}]
      /\ sendPc'[t] \in {"idle", "lock"}
      /\ \A u \in Threads : u # t => sendPc'[u] = sendPc[u]
      /\ UNCHANGED <<mutex, wire, tap>>
  BY DEF SendTest, OutputInv
<1>2. /\ sends' \in [Threads -> Nat] /\ sends'[t] = sends[t] + 1
      /\ \A u \in Threads : u # t => sends'[u] = sends[u]
  BY <1>1 DEF OutputInv
<1>3. \A u \in Threads : sendPc'[u] = "tap" => wire' = Append(tap', Sending(u)')
  BY <1>1, <1>2 DEF OutputInv, Sending
<1>4. (\A u \in Threads : sendPc'[u] # "tap") => tap' = wire'
  BY <1>1 DEF OutputInv
<1>5. ASSUME NEW i \in DOMAIN wire
      PROVE  /\ wire[i][2] <= sends'[wire[i][1]]
             /\ sendPc'[wire[i][1]] \in {"lock", "send"} => wire[i][2] < sends'[wire[i][1]]
  <2>1. wire[i][1] \in Threads /\ wire[i][2] \in Nat
    BY DEF OutputInv, Messages
  <2> QED BY <1>1, <1>2, <2>1 DEF OutputInv
<1> QED BY <1>1, <1>2, <1>3, <1>4, <1>5, Zenon DEF OutputInv

\* A step of the one thread that may be between lock and tap, after which the tap has
\* caught up with the wire.
LEMMA TapCaughtUp ==
    ASSUME OutputInv, NEW t \in Threads, NEW v \in {"idle", "send"},
           sendPc' = [sendPc EXCEPT ![t] = v], sends' = sends, wire' = wire, tap' = wire,
           \A u \in Threads : u # t => sendPc[u] \notin {"send", "tap"},
           v = "send" => mutex' = {t} /\ sendPc[t] = "lock"
    PROVE  OutputInv'
<1>1. /\ sendPc' \in [Threads -> {"idle", "lock", "send", "tap"}] /\ sendPc'[t] = v
      /\ \A u \in Threads : u # t => sendPc'[u] = sendPc[u]
  BY DEF OutputInv
<1>2. \A u \in Threads : sendPc'[u] # "tap" /\ (sendPc'[u] = "send" => mutex' = {u})
  BY <1>1
<1>3. ASSUME NEW i \in DOMAIN wire
      PROVE  /\ wire[i][2] <= sends[wire[i][1]]
             /\ sendPc'[wire[i][1]] \in {"lock", "send"} => wire[i][2] < sends[wire[i][1]]
  <2>1. wire[i][1] \in Threads
    BY DEF OutputInv, Messages
  <2>2. /\ wire[i][2] <= sends[wire[i][1]]
        /\ sendPc[wire[i][1]] \in {"lock", "send"} => wire[i][2] < sends[wire[i][1]]
    BY DEF OutputInv
  <2>3. sendPc'[wire[i][1]] \in {"lock", "send"} => sendPc[wire[i][1]] \in {"lock", "send"}
    BY <1>1, <2>1
  <2> QED BY <2>2, <2>3
<1>4. /\ sends \in [Threads -> Nat] /\ wire \in Seq(Messages)
      /\ \A i, j \in DOMAIN wire : i < j /\ wire[i][1] = wire[j][1] => wire[i][2] < wire[j][2]
  BY DEF OutputInv
<1> QED BY <1>1, <1>2, <1>3, <1>4 DEF OutputInv

LEMMA SendLockKeeps ==
    ASSUME OutputInv, NEW t \in Threads, SendLock(t)
    PROVE  OutputInv'
<1>1. /\ sendPc[t] = "lock" /\ mutex = {} /\ sendPc' = [sendPc EXCEPT ![t] = "send"] /\ mutex' = {t}
      /\ UNCHANGED <<sends, wire, tap>>
  BY DEF SendLock
<1>2. \A u \in Threads : sendPc[u] \notin {"send", "tap"}
  BY <1>1 DEF OutputInv
<1>3. tap = wire
  BY <1>2 DEF OutputInv
<1> QED BY <1>1, <1>2, <1>3, TapCaughtUp, Zenon

\* out_.sendMessage(): the holder's message goes on the wire.
LEMMA SendMessageKeeps ==
    ASSUME OutputInv, NEW t \in Threads, SendMessage(t)
    PROVE  OutputInv'
<1>1. /\ sendPc[t] = "send" /\ sendPc' = [sendPc EXCEPT ![t] = "tap"]
      /\ wire' = Append(wire, Sending(t))
      /\ mutex = {t} /\ UNCHANGED <<sends, mutex, tap>>
  BY Zenon DEF SendMessage, OutputInv, Sending
<1>2. \A u \in Threads : u # t => sendPc[u] \notin {"send", "tap"}
  BY <1>1, Zenon DEF OutputInv
<1>3. tap = wire
  BY <1>1, <1>2 DEF OutputInv
<1>4. Sending(t) \in Messages
  BY DEF OutputInv, Messages, Sending
<1>5. /\ wire' \in Seq(Messages) /\ Len(wire') = Len(wire) + 1
      /\ wire'[Len(wire) + 1] = Sending(t)
      /\ \A i \in DOMAIN wire : wire'[i] = wire[i]
      /\ DOMAIN wire = 1 .. Len(wire) /\ DOMAIN wire' = 1 .. (Len(wire) + 1) /\ Len(wire) \in Nat
  <2>1. wire \in Seq(Messages)
    BY DEF OutputInv
  <2>2. PICK m \in Messages : m = Sending(t) /\ wire' = Append(wire, m)
    BY <1>1, <1>4
  <2> QED BY <2>1, <2>2
<1>6. ASSUME NEW i \in DOMAIN wire'
      PROVE  /\ wire'[i][2] <= sends'[wire'[i][1]]
             /\ sendPc'[wire'[i][1]] \in {"lock", "send"} => wire'[i][2] < sends'[wire'[i][1]]
  <2>1. CASE i = Len(wire) + 1
    <3>1. wire'[i] = Sending(t)
      BY <1>5, <2>1
    <3>2. wire'[i][1] = t /\ wire'[i][2] = sends[t]
      BY <3>1 DEF Sending
    <3>3. sendPc'[t] = "tap" /\ sends' = sends /\ sends[t] \in Nat
      BY <1>1 DEF OutputInv
    <3> QED BY <3>2, <3>3
  <2>2. CASE i \in DOMAIN wire
    <3>1. wire[i][1] \in Threads /\ wire[i][2] \in Nat
      BY <2>2 DEF OutputInv, Messages
    <3> QED BY <1>1, <1>5, <2>2, <3>1, Zenon DEF OutputInv
  <2>3. \A n \in Nat : \A k \in 1 .. (n + 1) : k = n + 1 \/ k \in 1 .. n
    OBVIOUS
  <2>4. i = Len(wire) + 1 \/ i \in DOMAIN wire
    BY <1>5, <2>3
  <2> QED BY <2>1, <2>2, <2>4
<1>7. ASSUME NEW i \in DOMAIN wire', NEW j \in DOMAIN wire', i < j, wire'[i][1] = wire'[j][1]
      PROVE  wire'[i][2] < wire'[j][2]
  <2>1. i \in DOMAIN wire
    BY <1>5, <1>7
  <2>2. CASE j = Len(wire) + 1
    <3>1. wire'[j][1] = t /\ wire'[j][2] = sends[t]
      BY <1>5, <2>2 DEF Sending
    <3>2. wire[i][1] = t /\ wire'[i] = wire[i]
      BY <1>5, <1>7, <2>1, <3>1
    <3>3. wire[i][2] < sends[t]
      BY <1>1, <2>1, <3>2 DEF OutputInv
    <3> QED BY <3>1, <3>2, <3>3
  <2>3. CASE j \in DOMAIN wire
    BY <1>5, <1>7, <2>1, <2>3, Zenon DEF OutputInv
  <2> QED BY <1>5, <2>2, <2>3
<1>8. \A u \in Threads : sendPc'[u] = "tap" => u = t
  BY <1>1, <1>2 DEF OutputInv
<1>9. sendPc'[t] = "tap" /\ Sending(t)' = Sending(t)
  BY <1>1 DEF OutputInv, Sending
<1>10. /\ sendPc' \in [Threads -> {"idle", "lock", "send", "tap"}]
       /\ \A u \in Threads : sendPc'[u] \in {"send", "tap"} => mutex' = {u}
  BY <1>1, <1>2 DEF OutputInv
<1>11. \A u \in Threads : sendPc'[u] = "tap" => wire' = Append(tap', Sending(u)')
  BY <1>1, <1>3, <1>8, <1>9
<1> QED BY <1>1, <1>5, <1>6, <1>7, <1>9, <1>10, <1>11, Zenon DEF OutputInv

\* The lock is released after an exception: nothing has left.
LEMMA SendThrowsKeeps ==
    ASSUME OutputInv, NEW t \in Threads, SendThrows(t)
    PROVE  OutputInv'
<1>1. /\ sendPc[t] = "send" /\ mutex = {t} /\ sendPc' = [sendPc EXCEPT ![t] = "idle"]
      /\ UNCHANGED <<sends, wire, tap>>
  BY DEF SendThrows, OutputInv
<1>2. \A u \in Threads : u # t => sendPc[u] \notin {"send", "tap"}
  BY <1>1 DEF OutputInv
<1>3. tap = wire
  BY <1>1, <1>2 DEF OutputInv
<1> QED BY <1>1, <1>2, <1>3, TapCaughtUp, Zenon

\* send_cb_() catches up with the wire.
LEMMA SendTapKeeps ==
    ASSUME OutputInv, NEW t \in Threads, SendTap(t)
    PROVE  OutputInv'
<1>1. /\ sendPc[t] = "tap" /\ mutex = {t} /\ sendPc' = [sendPc EXCEPT ![t] = "idle"]
      /\ tap' = wire /\ UNCHANGED <<sends, wire>>
  BY DEF SendTap, OutputInv, Sending
<1>2. \A u \in Threads : u # t => sendPc[u] \notin {"send", "tap"}
  BY <1>1, Zenon DEF OutputInv
<1> QED BY <1>1, <1>2, TapCaughtUp, Zenon

(* OutputInv is kept by every step, whoever sends and whatever happens to the ports. *)
THEOREM OutputInvariance == MidiSpec => []OutputInv
<1>1. OutputInv /\ [MidiNext]_midiVars => OutputInv'
  <2> SUFFICES ASSUME OutputInv, [MidiNext]_midiVars PROVE OutputInv'
    OBVIOUS
  <2>1. ASSUME NEW t \in Threads, Send(t) PROVE OutputInv'
    BY <2>1, SendTestKeeps, SendLockKeeps, SendMessageKeeps, SendThrowsKeeps, SendTapKeeps
       DEF Send
  <2>2. ASSUME UNCHANGED outputVars PROVE OutputInv'
    BY <2>2 DEF outputVars, OutputInv, Sending
  <2>3. CASE OpenPort \/ OpenVirtualPort \/ CloseBegin \/ CloseEnd
    BY <2>2, <2>3, Zenon DEF outputVars, OpenPort, OpenVirtualPort, CloseBegin, CloseEnd
  <2>4. CASE Input
    BY <2>2, <2>4, Zenon DEF outputVars, Input, OpenInput, OpenInputPort, CancelCallback,
       CloseInputPort, ClearQueue, CallbackBegin, CallbackPush, sendVars
  <2>5. CASE UNCHANGED midiVars
    BY <2>2, <2>5 DEF outputVars, midiVars, sendVars
  <2> QED BY <2>1, <2>3, <2>4, <2>5 DEF MidiNext, Output
<1> QED BY OutputInit, <1>1, PTL DEF MidiSpec

(* send(): the tap sees what was handed to RtMidi, in that order and each message once,
   and each thread's messages leave in its order, for any number of threads. *)
THEOREM TapMirrors == MidiSpec => []TapMirrorsWire
<1>1. OutputInv => TapMirrorsWire
  BY DEF OutputInv, TapMirrorsWire, Sending
<1> QED BY OutputInvariance, <1>1, PTL

-----------------------------------------------------------------------------

\* What the callback was given has gone where it should, but for the last message of a
\* callback that is about to push it.
Copied ==
    IF echo THEN echoed = received /\ pushed = <<>>
            ELSE /\ echoed = <<>>
                 /\ Len(received) = Len(pushed) + (IF cbPc = "push" THEN 1 ELSE 0)
                 /\ \A i \in DOMAIN pushed : pushed[i] = Translate(received[i])

\* The queue is set while the port is open, from before openPort() until after
\* closePort(); a callback in progress keeps the port open.
InputInv ==
    /\ echo \in BOOLEAN /\ inPort \in BOOLEAN /\ inQueue \in BOOLEAN
    /\ ipc \in {"idle", "open", "close", "clear"} /\ cbPc \in {"idle", "push"}
    /\ received \in Seq(Received) /\ pushed \in Seq(Received) /\ echoed \in Seq(Received)
    /\ inPort => inQueue
    /\ ipc = "open" => inQueue
    /\ ipc \in {"open", "clear"} => ~inPort
    /\ cbPc = "push" => inPort /\ received # <<>> /\ ~echo
    /\ Copied

LEMMA InputInit == MidiInit => InputInv
<1> SUFFICES ASSUME MidiInit PROVE InputInv
  OBVIOUS
<1>1. received = <<>> /\ pushed = <<>> /\ echoed = <<>> /\ cbPc = "idle"
  BY DEF MidiInit
<1>2. Copied
  BY <1>1 DEF Copied
<1>3. <<>> \in Seq(Received)
  OBVIOUS
<1>4. /\ echo \in BOOLEAN /\ inPort \in BOOLEAN /\ inQueue \in BOOLEAN /\ ~inPort
      /\ ipc = "idle"
  BY Zenon DEF MidiInit
<1> QED BY <1>1, <1>2, <1>3, <1>4 DEF InputInv

\* A step that leaves the history of the callback alone.
LEMMA CopiedKept ==
    ASSUME Copied, UNCHANGED <<echo, cbPc, received, pushed, echoed>>
    PROVE  Copied'
  BY DEF Copied

\* midi_callback() finds the queue, because the port is open.
LEMMA CallbackBeginKeeps ==
    ASSUME InputInv, NEW m \in Received, CallbackBegin(m)
    PROVE  InputInv'
<1>1. /\ cbPc = "idle" /\ inPort /\ inQueue
      /\ received' = Append(received, m)
      /\ UNCHANGED <<echo, inPort, inQueue, ipc, pushed>>
  BY DEF CallbackBegin, InputInv, Copied
<1>2. /\ received' \in Seq(Received) /\ Len(received') = Len(received) + 1
      /\ \A i \in 1 .. Len(received) : received'[i] = received[i]
      /\ Len(received) \in Nat
  BY <1>1 DEF InputInv, Copied
<1>3. CASE echo
  BY <1>1, <1>2, <1>3 DEF CallbackBegin, InputInv, Copied
<1>4. CASE ~echo
  <2>1. cbPc' = "push" /\ echoed' = echoed
    BY <1>1, <1>4 DEF CallbackBegin
  <2>2. DOMAIN pushed = 1 .. Len(received) /\ Len(received') = Len(pushed) + 1
    BY <1>1, <1>2, <1>4 DEF InputInv, Copied
  <2>3. \A i \in DOMAIN pushed : pushed[i] = Translate(received'[i])
    BY <1>2, <1>4, <2>2 DEF InputInv, Copied
  <2>4. received' # <<>>
    BY <1>2
  <2> QED BY <1>1, <1>2, <1>4, <2>1, <2>2, <2>3, <2>4 DEF InputInv, Copied
<1> QED BY <1>3, <1>4 DEF InputInv, Copied

\* in_queue_->push(): what is pushed is the message the callback was called with.
LEMMA CallbackPushKeeps ==
    ASSUME InputInv, CallbackPush
    PROVE  InputInv'
<1>1. /\ cbPc = "push" /\ ~echo /\ cbPc' = "idle"
      /\ pushed' = Append(pushed, Translate(received[Len(received)]))
      /\ UNCHANGED <<echo, inPort, inQueue, ipc, received, echoed>>
  BY DEF CallbackPush, InputInv
<1>2. Len(received) = Len(pushed) + 1 /\ Len(pushed) \in Nat
  BY <1>1 DEF InputInv, Copied
<1>3. received[Len(received)] \in Received
  BY <1>2 DEF InputInv, Copied
<1>4. Translate(received[Len(received)]) \in Received
  BY <1>3 DEF Translate, Received
<1>5. /\ pushed' \in Seq(Received) /\ Len(pushed') = Len(received)
      /\ DOMAIN pushed' = 1 .. Len(received)
      /\ pushed'[Len(received)] = Translate(received[Len(received)])
      /\ \A i \in 1 .. Len(pushed) : pushed'[i] = pushed[i]
  BY <1>1, <1>2, <1>4 DEF InputInv, Copied
<1>6. \A i \in DOMAIN pushed' : pushed'[i] = Translate(received[i])
  BY <1>1, <1>2, <1>5 DEF InputInv, Copied
<1> QED BY <1>1, <1>5, <1>6 DEF InputInv, Copied

(* InputInv is kept by every step of the program and of RtMidi's thread. *)
THEOREM InputInvariance == MidiSpec => []InputInv
<1>1. InputInv /\ [MidiNext]_midiVars => InputInv'
  <2> SUFFICES ASSUME InputInv, [MidiNext]_midiVars PROVE InputInv'
    OBVIOUS
  <2>1. CASE OpenInput
    BY <2>1, CopiedKept DEF OpenInput, InputInv
  <2>2. CASE OpenInputPort
    <3>1. ~inPort /\ cbPc = "idle"
      BY <2>2 DEF OpenInputPort, InputInv
    <3> QED BY <2>2, <3>1, CopiedKept DEF OpenInputPort, InputInv
  <2>3. CASE CancelCallback
    BY <2>3, CopiedKept DEF CancelCallback, InputInv
  <2>4. CASE CloseInputPort
    BY <2>4, CopiedKept, Zenon DEF CloseInputPort, InputInv
  <2>5. CASE ClearQueue
    BY <2>5, CopiedKept, Zenon DEF ClearQueue, InputInv
  <2>6. ASSUME UNCHANGED receiveVars PROVE InputInv'
    BY <2>6, CopiedKept DEF receiveVars, InputInv
  <2>7. CASE Output
    BY <2>6, <2>7, Zenon DEF Output, OpenPort, OpenVirtualPort, CloseBegin, CloseEnd, Send,
       SendTest, SendLock, SendMessage, SendThrows, SendTap
  <2>8. CASE UNCHANGED midiVars
    BY <2>6, <2>8 DEF midiVars
  <2> QED BY <2>1, <2>2, <2>3, <2>4, <2>5, <2>7, <2>8, CallbackBeginKeeps, CallbackPushKeeps DEF MidiNext, Input
<1> QED BY InputInit, <1>1, PTL DEF MidiSpec

(* midi_callback() never pushes into a queue that has been taken away, and no message
   is dropped for want of one, whenever close_input() and open_input_port() are called. *)
THEOREM QueueIsThere == MidiSpec => []InputQueueIsThere
<1>1. InputInv => InputQueueIsThere
  <2> SUFFICES ASSUME InputInv PROVE InputQueueIsThere
    OBVIOUS
  <2>1. CASE echo
    BY <2>1 DEF InputInv, Copied, InputQueueIsThere
  <2>2. CASE ~echo
    <3>1. /\ Handled \in Seq(Received) /\ Len(Handled) = Len(pushed)
          /\ \A i \in 1 .. Len(pushed) : Handled[i] = received[i]
      BY <2>2 DEF InputInv, Copied, Handled
    <3>2. pushed = [i \in DOMAIN Handled |-> Translate(Handled[i])]
      BY <2>2, <3>1 DEF InputInv, Copied
    <3> QED BY <2>2, <3>2 DEF InputInv, Copied, InputQueueIsThere
  <2> QED BY <2>1, <2>2
<1> QED BY InputInvariance, <1>1, PTL

-----------------------------------------------------------------------------
(* Two chained cipher modulators                                           *)

\* What a shift of a register does to its bits.
LEMMA ShiftType ==
    ASSUME NEW r \in [Bits -> BOOLEAN], NEW b \in BOOLEAN
    PROVE  /\ Shift(r, b) \in [Bits -> BOOLEAN]
           /\ Shift(r, b)[0] = b
           /\ \A i \in 1 .. Width - 1 : Shift(r, b)[i] = r[i - 1]
<1>1. \A i \in Bits : i # 0 => i - 1 \in Bits
  BY WidthAssumption DEF Bits
<1>2. 0 \in Bits /\ \A i \in 1 .. Width - 1 : i \in Bits /\ i # 0
  BY WidthAssumption DEF Bits
<1>3. QED
  BY <1>1, <1>2 DEF Shift

\* tick() of one cipher modulator, field by field.
LEMMA TickedFields ==
    ASSUME NEW c \in Registers, NEW clk \in BOOLEAN, NEW d1 \in BOOLEAN
    PROVE  /\ Ticked(c, clk, d1) \in Registers
           /\ Edge(c, clk) \in BOOLEAN /\ BitIn(c, d1) \in BOOLEAN
           /\ Ticked(c, clk, d1).inner =
                IF Edge(c, clk) THEN Shift(c.inner, BitIn(c, d1)) ELSE c.inner
           /\ Ticked(c, clk, d1).output =
                IF c.strobe THEN c.output ELSE Ticked(c, clk, d1).inner
           /\ Ticked(c, clk, d1).serial = (Edge(c, clk) /\ c.inner[Width - 1])
           /\ Ticked(c, clk, d1).prev = clk
           /\ Ticked(c, clk, d1).data2 = c.data2
           /\ Ticked(c, clk, d1).strobe = c.strobe
<1>1. 0 \in Bits /\ Width - 1 \in Bits
  BY WidthAssumption DEF Bits
<1>2. /\ c.inner \in [Bits -> BOOLEAN] /\ c.output \in [Bits -> BOOLEAN]
      /\ c.prev \in BOOLEAN /\ c.data1 \in BOOLEAN /\ c.strobe \in BOOLEAN
      /\ c.data2 \in {"absent", "low", "high"}
  BY DEF Registers
<1>3. Edge(c, clk) \in BOOLEAN
  BY <1>2 DEF Edge
<1>4. BitIn(c, d1) \in BOOLEAN
  BY <1>1, <1>2, Zenon DEF BitIn
<1> DEFINE in == IF Edge(c, clk) THEN Shift(c.inner, BitIn(c, d1)) ELSE c.inner
           ou == IF c.strobe THEN c.output ELSE in
           se == Edge(c, clk) /\ c.inner[Width - 1]
<1>5. in \in [Bits -> BOOLEAN]
  BY <1>2, <1>4, ShiftType, Zenon
<1>6. ou \in [Bits -> BOOLEAN] /\ se \in BOOLEAN
  BY <1>1, <1>2, <1>3, <1>5
<1>7. Ticked(c, clk, d1) = [c EXCEPT !.inner = in, !.output = ou, !.serial = se, !.prev = clk]
  BY DEF Ticked
<1> HIDE DEF in, ou, se
<1>8. Ticked(c, clk, d1) =
        [inner |-> in, output |-> ou, serial |-> se, prev |-> clk,
         data1 |-> c.data1, data2 |-> c.data2, strobe |-> c.strobe]
  BY <1>7, Zenon DEF Registers
<1>9. Ticked(c, clk, d1) \in Registers
  BY <1>2, <1>5, <1>6, <1>8 DEF Registers
<1>10. /\ Ticked(c, clk, d1).inner = in /\ Ticked(c, clk, d1).output = ou
      /\ Ticked(c, clk, d1).serial = se /\ Ticked(c, clk, d1).prev = clk
      /\ Ticked(c, clk, d1).data2 = c.data2 /\ Ticked(c, clk, d1).strobe = c.strobe
  BY <1>8
<1>11. QED
  BY <1>3, <1>4, <1>9, <1>10, Zenon DEF in, ou, se

\* One tick of the engine keeps the second register the bits that left the first,
\* and the frozen output the pattern that is still in the first.
LEMMA CipherTickKeeps ==
    ASSUME CipherInv, NEW clk \in BOOLEAN, CipherTick(clk)
    PROVE  CipherInv'
<1>1. /\ first \in Registers /\ second \in Registers
      /\ left \in [Bits -> BOOLEAN] /\ frozen \in 0 .. Width
      /\ second.prev = first.prev /\ second.data2 = "low"
      /\ second.inner = left
      /\ \A i \in frozen .. Width - 1 : first.inner[i] = first.output[i - frozen]
  BY Zenon DEF CipherInv, CipherPattern
<1>2. /\ first.data1 \in BOOLEAN /\ first.inner \in [Bits -> BOOLEAN]
      /\ first.output \in [Bits -> BOOLEAN] /\ first.strobe \in BOOLEAN
      /\ first.prev \in BOOLEAN /\ second.inner \in [Bits -> BOOLEAN]
  BY <1>1 DEF Registers
<1>3. first' = Ticked(first, clk, first.data1)
  BY DEF CipherTick
<1> DEFINE edge1 == Edge(first, clk)
           bit1 == BitIn(first, first.data1)
           out1 == first.inner[Width - 1]
<1>4. /\ first' \in Registers /\ edge1 \in BOOLEAN /\ bit1 \in BOOLEAN
      /\ first'.inner = (IF edge1 THEN Shift(first.inner, bit1) ELSE first.inner)
      /\ first'.output = (IF first.strobe THEN first.output ELSE first'.inner)
      /\ first'.serial = (edge1 /\ out1)
      /\ first'.prev = clk
  <2> DEFINE t == Ticked(first, clk, first.data1)
  <2>1. /\ t \in Registers /\ edge1 \in BOOLEAN /\ bit1 \in BOOLEAN
        /\ t.inner = (IF edge1 THEN Shift(first.inner, bit1) ELSE first.inner)
        /\ t.output = (IF first.strobe THEN first.output ELSE t.inner)
        /\ t.serial = (edge1 /\ out1)
        /\ t.prev = clk
    BY <1>1, <1>2, TickedFields
  <2>2. first' = t
    BY <1>3, Zenon
  <2> HIDE DEF t, edge1, bit1, out1
  <2> QED
    BY <2>1, <2>2, Zenon
<1>5. first'.serial \in BOOLEAN
  BY <1>4, Zenon DEF Registers
<1>6. second' = Ticked(second, clk, first'.serial)
  BY Zenon DEF CipherTick
<1>7. /\ second' \in Registers
      /\ second'.inner = (IF Edge(second, clk) THEN Shift(second.inner, BitIn(second, first'.serial))
                          ELSE second.inner)
      /\ second'.prev = clk /\ second'.data2 = second.data2
  <2> DEFINE t == Ticked(second, clk, first'.serial)
  <2>1. /\ t \in Registers
        /\ t.inner = (IF Edge(second, clk) THEN Shift(second.inner, BitIn(second, first'.serial))
                      ELSE second.inner)
        /\ t.prev = clk /\ t.data2 = second.data2
    BY <1>1, <1>5, TickedFields
  <2>2. second' = t
    BY <1>6, Zenon
  <2> HIDE DEF t
  <2> QED
    BY <2>1, <2>2, Zenon
<1>8. Edge(second, clk) = edge1
  BY <1>1 DEF Edge
<1>9. BitIn(second, first'.serial) = first'.serial
  BY <1>1, <1>5, Zenon DEF BitIn
<1>10. left' = IF edge1 THEN Shift(left, out1) ELSE left
  BY Zenon DEF CipherTick
<1>11. out1 \in BOOLEAN
  BY <1>2, WidthAssumption DEF Bits
<1>12. frozen' = IF ~first.strobe THEN 0
                 ELSE IF edge1 /\ frozen < Width THEN frozen + 1 ELSE frozen
  BY DEF CipherTick
<1> HIDE DEF edge1, bit1, out1
<1>13. second'.inner = left'
  <2>1. CASE edge1
    <3>1. first'.serial = out1
      BY <1>4, <1>11, <2>1
    <3>2. QED
      BY <1>1, <1>7, <1>8, <1>9, <1>10, <2>1, <3>1, Zenon
  <2>2. CASE ~edge1
    BY <1>1, <1>7, <1>8, <1>10, <2>2
  <2>3. QED
    BY <2>1, <2>2
<1>14. left' \in [Bits -> BOOLEAN]
  BY <1>1, <1>10, <1>11, ShiftType
<1>15. frozen' \in 0 .. Width
  BY <1>1, <1>12, WidthAssumption
<1>16. \A i \in frozen' .. Width - 1 : first'.inner[i] = first'.output[i - frozen']
  <2>1. CASE ~first.strobe
    <3>1. frozen' = 0 /\ first'.output = first'.inner
      BY <1>4, <1>12, <2>1
    <3>2. \A i \in 0 .. Width - 1 : i - 0 = i
      BY WidthAssumption
    <3>3. QED
      BY <3>1, <3>2
  <2>2. CASE first.strobe /\ ~edge1
    <3>1. frozen' = frozen /\ first'.output = first.output /\ first'.inner = first.inner
      BY <1>4, <1>12, <2>2
    <3>2. QED
      BY <1>1, <3>1
  <2>3. CASE first.strobe /\ edge1
    <3>1. first'.output = first.output /\ first'.inner = Shift(first.inner, bit1)
      BY <1>4, <2>3
    <3>2. CASE frozen = Width
      <4>1. frozen' = Width
        BY <1>12, <2>3, <3>2, WidthAssumption
      <4>2. \A i \in Width .. Width - 1 : FALSE
        BY WidthAssumption
      <4>3. QED
        BY <4>1, <4>2
    <3>3. CASE frozen # Width
      <4>1. frozen' = frozen + 1
        BY <1>1, <1>12, <2>3, <3>3, WidthAssumption
      <4>2. SUFFICES ASSUME NEW i \in frozen + 1 .. Width - 1
                     PROVE  first'.inner[i] = first'.output[i - (frozen + 1)]
        BY <4>1
      <4>3. i \in 1 .. Width - 1 /\ i - 1 \in frozen .. Width - 1
        BY <1>1, WidthAssumption
      <4>4. first'.inner[i] = first.inner[i - 1]
        <5>1. first.inner \in [Bits -> BOOLEAN] /\ bit1 \in BOOLEAN
          BY <1>2, <1>4
        <5>2. \A j \in 1 .. Width - 1 : Shift(first.inner, bit1)[j] = first.inner[j - 1]
          BY ONLY <5>1, ShiftType
        <5>3. QED
          BY <3>1, <4>3, <5>2
      <4>5. first.inner[i - 1] = first.output[(i - 1) - frozen]
        BY <1>1, <4>3
      <4>6. (i - 1) - frozen = i - (frozen + 1)
        BY <1>1, WidthAssumption
      <4>7. QED
        BY <3>1, <4>4, <4>5, <4>6
    <3>4. QED
      BY <3>2, <3>3
  <2>4. QED
    BY <1>2, <2>1, <2>2, <2>3
<1>17. second'.prev = first'.prev /\ second'.data2 = "low"
  BY <1>1, <1>4, <1>7
<1>18. QED
  BY <1>4, <1>7, <1>13, <1>14, <1>15, <1>16, <1>17, Zenon DEF CipherInv, CipherPattern

\* update() touches no register.
LEMMA CipherUpdateKeeps ==
    ASSUME CipherInv, CipherUpdate
    PROVE  CipherInv'
<1>1. first \in Registers
  BY DEF CipherInv
<1>2. /\ first' \in Registers
      /\ first'.inner = first.inner /\ first'.output = first.output /\ first'.prev = first.prev
  <2>1. CASE \E b \in BOOLEAN : first' = [first EXCEPT !.data1 = b]
    BY <1>1, <2>1 DEF Registers
  <2>2. CASE \E d \in {"absent", "low", "high"} : first' = [first EXCEPT !.data2 = d]
    BY <1>1, <2>2 DEF Registers
  <2>3. CASE \E b \in BOOLEAN : first' = [first EXCEPT !.strobe = b]
    BY <1>1, <2>3 DEF Registers
  <2>4. QED
    BY <2>1, <2>2, <2>3 DEF CipherUpdate
<1>3. second' = second /\ left' = left /\ frozen' = frozen
  BY DEF CipherUpdate
<1>4. QED
  BY <1>2, <1>3 DEF CipherInv, CipherPattern

\* The registers of two chained cipher modulators, at every width.
THEOREM CipherInvariance == CipherSpec => []CipherInv
<1>1. CipherInit => CipherInv
  <2> SUFFICES ASSUME CipherInit PROVE CipherInv
    OBVIOUS
  <2>1. Zero \in [Bits -> BOOLEAN]
    BY DEF Zero
  <2>2. first = Fresh("absent") /\ second = Fresh("low") /\ left = Zero /\ frozen = 0
    BY DEF CipherInit
  <2>3. first \in Registers /\ second \in Registers
    BY <2>1, <2>2 DEF Fresh, Registers
  <2>4. first.inner = Zero /\ first.output = Zero /\ second.inner = Zero
    BY <2>2 DEF Fresh
  <2>5. second.prev = first.prev /\ second.data2 = "low"
    BY <2>2 DEF Fresh
  <2>6. frozen \in 0 .. Width /\ \A i \in frozen .. Width - 1 : i - frozen = i
    BY <2>2, WidthAssumption
  <2>7. CipherPattern
    BY <2>2, <2>4, <2>6 DEF CipherPattern
  <2>8. QED
    BY <2>1, <2>2, <2>3, <2>5, <2>6, <2>7 DEF CipherInv
<1>2. CipherInv /\ [CipherNext]_cipherVars => CipherInv'
  <2>1. ASSUME CipherInv, UNCHANGED cipherVars
        PROVE  CipherInv'
    BY <2>1 DEF CipherInv, CipherPattern, cipherVars
  <2>2. QED
    BY <2>1, CipherTickKeeps, CipherUpdateKeeps DEF CipherNext
<1>3. QED
  BY <1>1, <1>2, PTL DEF CipherSpec

\* CipherPattern of the cipher modulator's tick(), for every width of its registers.
THEOREM PatternHolds == CipherSpec => []CipherPattern
<1>1. CipherInv => CipherPattern
  BY DEF CipherInv
<1>2. QED
  BY <1>1, CipherInvariance, PTL
================================================================================

-------------------------- MODULE EventSchedulerProofs --------------------------
(***************************************************************************)
(* The scheduler for every size of its queues and any number of messages:  *)
(* no accepted event is lost or fires twice, and each fires at the first   *)
(* tick that finds it due.                                                 *)
(***************************************************************************)
EXTENDS EventScheduler, FiniteSetTheorems, SequenceTheorems, TLAPS

-----------------------------------------------------------------------------
(* std::stable_sort: StableSort orders by beat and drops nothing.          *)

Beaten(s) == \A i \in 1 .. Len(s) : s[i].beat \in Nat

\* Of two positions one is after the other, and its rank is greater.
LEMMA RanksDiffer ==
    ASSUME NEW S, NEW s \in Seq(S), Beaten(s),
           NEW i \in 1 .. Len(s), NEW j \in 1 .. Len(s), i \in NotAfter(s, j), i # j
    PROVE  /\ IsFiniteSet(NotAfter(s, i)) /\ IsFiniteSet(NotAfter(s, j))
           /\ Cardinality(NotAfter(s, i)) < Cardinality(NotAfter(s, j))
<1>1. DOMAIN s = 1 .. Len(s) /\ Len(s) \in Nat
  OBVIOUS
<1>2. IsFiniteSet(1 .. Len(s))
  BY <1>1, FS_Interval
<1>3. NotAfter(s, i) \in SUBSET (1 .. Len(s)) /\ NotAfter(s, j) \in SUBSET (1 .. Len(s))
  BY <1>1 DEF NotAfter
<1>4. IsFiniteSet(NotAfter(s, i)) /\ IsFiniteSet(NotAfter(s, j))
  BY <1>2, <1>3, FS_Subset
<1>5. j \in NotAfter(s, j) /\ j \notin NotAfter(s, i)
  BY <1>1 DEF NotAfter, Beaten
<1>6. NotAfter(s, i) \in SUBSET NotAfter(s, j)
  BY <1>1 DEF NotAfter, Beaten
<1>7. /\ Cardinality(NotAfter(s, i)) <= Cardinality(NotAfter(s, j))
      /\ Cardinality(NotAfter(s, j)) # Cardinality(NotAfter(s, i))
  BY <1>4, <1>5, <1>6, FS_Subset
<1>8. Cardinality(NotAfter(s, i)) \in Nat /\ Cardinality(NotAfter(s, j)) \in Nat
  BY <1>4, FS_CardinalityType
<1> QED BY <1>4, <1>7, <1>8

\* Ranks are a permutation of the positions.
LEMMA RanksPermute ==
    ASSUME NEW S, NEW s \in Seq(S), Beaten(s)
    PROVE  /\ \A i \in 1 .. Len(s) : Cardinality(NotAfter(s, i)) \in 1 .. Len(s)
           /\ \A i, j \in 1 .. Len(s) :
                 Cardinality(NotAfter(s, i)) = Cardinality(NotAfter(s, j)) => i = j
           /\ \A k \in 1 .. Len(s) : \E i \in 1 .. Len(s) : Cardinality(NotAfter(s, i)) = k
<1> DEFINE n == Len(s)
           f == [i \in 1 .. n |-> Cardinality(NotAfter(s, i))]
<1>1. DOMAIN s = 1 .. n /\ n \in Nat
  OBVIOUS
<1>2. IsFiniteSet(1 .. n) /\ Cardinality(1 .. n) = n
  <2>1. 1 \in Int /\ n \in Int
    BY <1>1
  <2> HIDE DEF n
  <2>2. IsFiniteSet(1 .. n) /\ Cardinality(1 .. n) = IF 1 > n THEN 0 ELSE n - 1 + 1
    BY <2>1, FS_Interval
  <2> QED BY <1>1, <2>2
<1>3. ASSUME NEW i \in 1 .. n PROVE Cardinality(NotAfter(s, i)) \in 1 .. n
  <2>1. NotAfter(s, i) \in SUBSET (1 .. n) /\ i \in NotAfter(s, i)
    BY <1>1 DEF NotAfter, Beaten
  <2>2. IsFiniteSet(NotAfter(s, i)) /\ Cardinality(NotAfter(s, i)) <= n
    BY <1>2, <2>1, FS_Subset
  <2>3. Cardinality(NotAfter(s, i)) \in Nat
    BY <2>2, FS_CardinalityType
  <2>4. Cardinality(NotAfter(s, i)) # 0
    BY <2>1, <2>2, FS_EmptySet
  <2> QED BY <1>1, <2>2, <2>3, <2>4
<1>4. ASSUME NEW i \in 1 .. n, NEW j \in 1 .. n, i # j
      PROVE  Cardinality(NotAfter(s, i)) # Cardinality(NotAfter(s, j))
  <2>1. i \in NotAfter(s, j) \/ j \in NotAfter(s, i)
    BY <1>1 DEF NotAfter, Beaten
  <2>2. CASE i \in NotAfter(s, j)
    BY <1>3, <1>4, <2>2, RanksDiffer
  <2>3. CASE j \in NotAfter(s, i)
    BY <1>3, <1>4, <2>3, RanksDiffer
  <2> QED BY <2>1, <2>2, <2>3
<1>5. f \in Injection(1 .. n, 1 .. n)
  BY <1>3, <1>4 DEF Injection, IsInjective
<1>6. f \in Surjection(1 .. n, 1 .. n)
  BY <1>2, <1>5, FS_Injection
<1>7. \A k \in 1 .. n : \E i \in 1 .. n : f[i] = k
  BY <1>6, Zenon DEF Surjection
<1> QED BY <1>3, <1>4, <1>7

\* Each place of the sorted sequence holds an element, and each element has its place.
LEMMA SortPermutes ==
    ASSUME NEW S, NEW s \in Seq(S), Beaten(s)
    PROVE  /\ StableSort(s) \in Seq(S) /\ Len(StableSort(s)) = Len(s)
           /\ \A k \in 1 .. Len(s) : \E i \in 1 .. Len(s) :
                 Cardinality(NotAfter(s, i)) = k /\ StableSort(s)[k] = s[i]
           /\ \A i \in 1 .. Len(s) : \E k \in 1 .. Len(s) : StableSort(s)[k] = s[i]
<1> DEFINE pos(k) == CHOOSE i \in 1 .. Len(s) : Cardinality(NotAfter(s, i)) = k
<1>1. DOMAIN s = 1 .. Len(s) /\ Len(s) \in Nat
  OBVIOUS
<1>2. StableSort(s) = [k \in 1 .. Len(s) |-> s[pos(k)]]
  BY <1>1 DEF StableSort
<1>3. ASSUME NEW k \in 1 .. Len(s)
      PROVE  pos(k) \in 1 .. Len(s) /\ Cardinality(NotAfter(s, pos(k))) = k
  BY RanksPermute
<1> HIDE DEF pos
<1>4. StableSort(s) \in Seq(S) /\ Len(StableSort(s)) = Len(s)
  BY <1>1, <1>2, <1>3
<1>5. \A k \in 1 .. Len(s) : StableSort(s)[k] = s[pos(k)]
  BY <1>2
<1>6. ASSUME NEW i \in 1 .. Len(s)
      PROVE  \E k \in 1 .. Len(s) : StableSort(s)[k] = s[i]
  <2>1. Cardinality(NotAfter(s, i)) \in 1 .. Len(s)
    BY RanksPermute
  <2>2. pos(Cardinality(NotAfter(s, i))) = i
    BY <1>3, <2>1, RanksPermute
  <2> QED BY <1>5, <2>1, <2>2
<1> QED BY <1>3, <1>4, <1>5, <1>6

\* The beats of the sorted sequence do not decrease.
LEMMA SortSorts ==
    ASSUME NEW S, NEW s \in Seq(S), Beaten(s),
           NEW k \in 1 .. Len(s), NEW l \in 1 .. Len(s), k <= l
    PROVE  StableSort(s)[k].beat <= StableSort(s)[l].beat
<1>1. PICK i \in 1 .. Len(s) : Cardinality(NotAfter(s, i)) = k /\ StableSort(s)[k] = s[i]
  BY SortPermutes
<1>2. PICK j \in 1 .. Len(s) : Cardinality(NotAfter(s, j)) = l /\ StableSort(s)[l] = s[j]
  BY SortPermutes, Zenon
<1>3. SUFFICES ASSUME s[j].beat < s[i].beat PROVE FALSE
  BY <1>1, <1>2 DEF Beaten
<1>4. j \in NotAfter(s, i) /\ i # j
  BY <1>3 DEF NotAfter, Beaten
<1> QED BY <1>1, <1>2, <1>4, RanksDiffer

-----------------------------------------------------------------------------
(* The inductive invariant.                                                *)

\* An event before and after it has its number.
Staged      == [n : {0}, beat : Nat, kind : Kinds, bundle : 1 .. MaxMessages]
Numbered(a) == [n : 1 .. a, beat : Nat, kind : Kinds, bundle : 1 .. MaxMessages]
Shot(a)     == [ev : Numbered(a), at : Beats, seen : 0 .. a,
                route : {"callback", "queued", "dropped"}]

ControlType == messages \in 0 .. MaxMessages /\ todo \in Seq(Staged)

QueueType ==
    /\ accepted \in Nat /\ atBegin \in 0 .. accepted
    /\ staging \in Seq(Numbered(accepted)) /\ Len(staging) <= StagingBound
    /\ pending \in Seq(Numbered(accepted)) /\ it \in 1 .. (Len(pending) + 1)
    /\ tick \in {"idle", "drain", "fire"} /\ now \in Beats
    /\ fired \in Seq(Shot(accepted))

OscType ==
    /\ oscWired \in BOOLEAN
    /\ oscOut \in Seq(1 .. accepted) /\ Len(oscOut) <= OscBound
    /\ sent \in Seq(1 .. accepted)

\* The three places of an event.
InStaging(n) == \E i \in 1 .. Len(staging) : staging[i].n = n
InPending(n) == \E i \in it .. Len(pending) : pending[i].n = n
HasFired(n)  == \E i \in 1 .. Len(fired) : fired[i].ev.n = n

\* As many places as events, and a place for each: no event has two.
Counted ==
    /\ Len(staging) + (Len(pending) + 1 - it) + Len(fired) = accepted
    /\ \A n \in 1 .. accepted : InStaging(n) \/ InPending(n) \/ HasFired(n)

\* What tick() has established where it is: once it has found the queue empty, what
\* enters the queue was staged after it began; it fires along a sorted list; and it
\* returns with nothing that is due.
Phased ==
    /\ tick # "fire" => it = 1
    /\ tick # "drain" => \A i \in 1 .. Len(staging) : staging[i].n > atBegin
    /\ tick = "fire" => \A k, l \in 1 .. Len(pending) : k <= l => pending[k].beat <= pending[l].beat
    /\ tick = "idle" => \A i \in 1 .. Len(pending) : pending[i].beat > now
    /\ \A i \in 1 .. Len(fired) : fired[i].ev.beat <= fired[i].at

QueueInv == QueueType /\ Counted /\ Phased

SchedulerInv == ControlType /\ OscType /\ QueueInv

\* The empty scheduler.
LEMMA InitHolds == Init => SchedulerInv
<1> SUFFICES ASSUME Init PROVE SchedulerInv
  OBVIOUS
<1>1. ControlType /\ OscType
  BY SchedulerAssumption DEF Init, ControlType, OscType
<1>2. QueueType
  BY SchedulerAssumption DEF Init, QueueType, Beats
<1>3. Counted
  BY DEF Init, Counted
<1>4. Phased
  BY DEF Init, Phased
<1> QED BY <1>1, <1>2, <1>3, <1>4 DEF SchedulerInv, QueueInv

-----------------------------------------------------------------------------
(* One lemma for each step.                                                *)

\* More numbers, more events.
LEMMA MoreNumbers ==
    ASSUME NEW a \in Nat, NEW b \in Nat, a <= b
    PROVE  /\ Seq(Numbered(a)) \subseteq Seq(Numbered(b)) /\ Seq(Shot(a)) \subseteq Seq(Shot(b))
           /\ Seq(1 .. a) \subseteq Seq(1 .. b)
<1>1. Numbered(a) \subseteq Numbered(b) /\ 1 .. a \subseteq 1 .. b /\ 0 .. a \subseteq 0 .. b
  BY DEF Numbered
<1>2. Shot(a) \subseteq Shot(b)
  BY <1>1 DEF Shot
<1> QED BY <1>1, <1>2, SeqMonotonic

\* What has a number has a beat.
LEMMA NumberedBeats ==
    ASSUME NEW a, NEW s \in Seq(Numbered(a))
    PROVE  Beaten(s)
<1>1. \A i \in 1 .. Len(s) : s[i] \in Numbered(a)
  OBVIOUS
<1> QED BY <1>1 DEF Numbered, Beaten

\* push() of an event, on the control thread.
LEMMA StageKeeps ==
    ASSUME QueueInv, OscType, NEW ev \in Staged, Stage(ev),
           UNCHANGED <<scheduler, oscWired, oscOut, sent>>
    PROVE  QueueInv' /\ OscType'
<1>1. CASE ~(Len(staging) < StagingBound)
  BY <1>1 DEF Stage, scheduler, QueueInv, QueueType, OscType, Counted, Phased,
              InStaging, InPending, HasFired
<1>2. CASE Len(staging) < StagingBound
  <2> DEFINE e == [ev EXCEPT !.n = accepted + 1]
  <2>1. /\ accepted \in Nat /\ accepted' = accepted + 1 /\ staging' = Append(staging, e)
        /\ UNCHANGED <<pending, it, tick, now, atBegin, fired, oscWired, oscOut, sent>>
    BY <1>2 DEF Stage, scheduler, QueueInv, QueueType
  <2>2. e \in Numbered(accepted') /\ e.n = accepted'
    BY <2>1 DEF Staged, Numbered
  <2> HIDE DEF e
  <2>3. /\ staging \in Seq(Numbered(accepted')) /\ pending \in Seq(Numbered(accepted'))
        /\ fired \in Seq(Shot(accepted'))
        /\ oscOut \in Seq(1 .. accepted') /\ sent \in Seq(1 .. accepted')
    BY <2>1, MoreNumbers DEF QueueInv, QueueType, OscType
  <2>4. /\ staging' \in Seq(Numbered(accepted')) /\ Len(staging') = Len(staging) + 1
        /\ staging'[Len(staging) + 1] = e
        /\ \A i \in 1 .. Len(staging) : staging'[i] = staging[i]
    BY <2>1, <2>2, <2>3
  <2>5. QueueType' /\ OscType'
    BY <1>2, <2>1, <2>3, <2>4, SchedulerAssumption DEF QueueInv, QueueType, OscType
  <2>6. Counted'
    <3>1. ASSUME NEW n \in 1 .. accepted'
          PROVE  InStaging(n)' \/ InPending(n)' \/ HasFired(n)'
      <4>1. CASE n = accepted'
        <5>1. Len(staging) + 1 \in 1 .. Len(staging')
          BY <2>3, <2>4
        <5>2. staging'[Len(staging) + 1].n = n
          BY <2>2, <2>4, <4>1
        <5> QED BY <5>1, <5>2 DEF InStaging
      <4>2. CASE n # accepted'
        <5>1. n \in 1 .. accepted
          BY <2>1, <4>2
        <5>2. InStaging(n) => InStaging(n)'
          BY <2>4 DEF InStaging, QueueInv, QueueType
        <5>3. (InPending(n) => InPending(n)') /\ (HasFired(n) => HasFired(n)')
          BY <2>1 DEF InPending, HasFired
        <5> QED BY <5>1, <5>2, <5>3 DEF QueueInv, Counted
      <4> QED BY <4>1, <4>2
    <3>2. Len(staging') + (Len(pending') + 1 - it') + Len(fired') = accepted'
      BY <2>1, <2>4 DEF QueueInv, QueueType, Counted
    <3> QED BY <3>1, <3>2 DEF Counted
  <2>7. Phased'
    <3>1. tick' # "drain" => \A i \in 1 .. Len(staging') : staging'[i].n > atBegin'
      BY <2>1, <2>2, <2>4 DEF QueueInv, QueueType, Phased
    <3> QED BY <2>1, <3>1 DEF QueueInv, Phased
  <2> QED BY <2>5, <2>6, <2>7 DEF QueueInv
<1> QED BY <1>1, <1>2

\* tick() begins.
LEMMA TickBeginKeeps ==
    ASSUME QueueInv, NEW beat \in Beats, TickBegin(beat)
    PROVE  QueueInv'
<1>1. QueueType'
  BY DEF TickBegin, QueueInv, QueueType
<1>2. Counted'
  BY DEF TickBegin, QueueInv, Counted, InStaging, InPending, HasFired
<1>3. Phased'
  BY DEF TickBegin, QueueInv, Phased
<1> QED BY <1>1, <1>2, <1>3 DEF QueueInv

\* One event from staging_ to pending_.
LEMMA TickDrainKeeps ==
    ASSUME QueueInv, TickDrain
    PROVE  QueueInv'
<1> DEFINE S == Numbered(accepted)
<1>1. /\ staging \in Seq(S) /\ pending \in Seq(S) /\ staging # << >> /\ it = 1 /\ tick = "drain"
      /\ pending' = Append(pending, Head(staging)) /\ staging' = Tail(staging)
      /\ UNCHANGED <<accepted, it, tick, now, atBegin, fired>>
  BY DEF TickDrain, QueueInv, QueueType, Phased
<1> HIDE DEF S
<1>2. /\ staging' \in Seq(S) /\ Len(staging') = Len(staging) - 1
      /\ \A i \in 1 .. Len(staging') : staging'[i] = staging[i + 1]
      /\ Len(staging) \in Nat \ {0} /\ staging[1] \in S
  BY <1>1
<1>3. /\ pending' \in Seq(S) /\ Len(pending') = Len(pending) + 1
      /\ \A i \in 1 .. Len(pending) : pending'[i] = pending[i]
      /\ pending'[Len(pending) + 1] = staging[1]
  BY <1>1, <1>2
<1>4. /\ it = 1 /\ tick = "drain" /\ UNCHANGED <<accepted, it, tick, now, atBegin, fired>>
      /\ Len(pending) \in Nat /\ Len(fired) \in Nat /\ Len(staging') <= StagingBound
      /\ Len(staging) + (Len(pending) + 1 - it) + Len(fired) = accepted
  BY <1>1, <1>2, SchedulerAssumption DEF QueueInv, QueueType, Counted
<1>5. QueueType'
  <2>1. staging' \in Seq(Numbered(accepted')) /\ pending' \in Seq(Numbered(accepted'))
    BY <1>2, <1>3, <1>4 DEF S
  <2> QED BY <1>3, <1>4, <2>1 DEF QueueInv, QueueType
<1>6. Counted'
  <2>1. ASSUME NEW n \in 1 .. accepted, InStaging(n)
        PROVE  InStaging(n)' \/ InPending(n)'
    <3>1. PICK i \in 1 .. Len(staging) : staging[i].n = n
      BY <2>1 DEF InStaging
    <3>2. CASE i = 1
      BY <1>1, <1>3, <3>1, <3>2 DEF InPending
    <3>3. CASE i # 1
      <4>1. i - 1 \in 1 .. Len(staging') /\ staging'[i - 1] = staging[i]
        BY <1>2, <3>3
      <4> QED BY <3>1, <4>1 DEF InStaging
    <3> QED BY <3>2, <3>3
  <2>2. ASSUME NEW n \in 1 .. accepted, InPending(n)
        PROVE  InPending(n)'
    BY <1>1, <1>3, <2>2 DEF InPending
  <2>3. \A n : HasFired(n) => HasFired(n)'
    BY <1>1 DEF HasFired
  <2>4. Len(staging') + (Len(pending') + 1 - it') + Len(fired') = accepted'
    BY <1>2, <1>3, <1>4
  <2> QED BY <1>4, <2>1, <2>2, <2>3, <2>4 DEF QueueInv, Counted
<1>7. Phased'
  BY <1>4 DEF QueueInv, Phased
<1> QED BY <1>5, <1>6, <1>7 DEF QueueInv

\* The queue is found empty and pending_ is sorted.
LEMMA TickSortKeeps ==
    ASSUME QueueInv, TickSort
    PROVE  QueueInv'
<1>1. /\ tick = "drain" /\ it = 1 /\ staging = << >>
      /\ UNCHANGED <<accepted, staging, now, atBegin, fired>>
  BY DEF TickSort, QueueInv, Phased
<1>2. CASE pending = << >>
  <2>1. tick' = "idle" /\ UNCHANGED <<pending, it>>
    BY <1>2 DEF TickSort
  <2>2. QueueType'
    BY <1>1, <2>1 DEF QueueInv, QueueType
  <2>3. Counted'
    BY <1>1, <2>1 DEF QueueInv, Counted, InStaging, InPending, HasFired
  <2>4. Phased'
    BY <1>1, <1>2, <2>1 DEF QueueInv, Phased
  <2> QED BY <2>2, <2>3, <2>4 DEF QueueInv
<1>3. CASE pending # << >>
  <2>1. tick' = "fire" /\ it' = 1 /\ pending' = StableSort(pending)
    BY <1>3 DEF TickSort
  <2>2. pending \in Seq(Numbered(accepted)) /\ Beaten(pending)
    BY NumberedBeats DEF QueueInv, QueueType
  <2>3. /\ pending' \in Seq(Numbered(accepted)) /\ Len(pending') = Len(pending)
        /\ \A i \in 1 .. Len(pending) : \E k \in 1 .. Len(pending) : pending'[k] = pending[i]
    BY <2>1, <2>2, SortPermutes, Zenon
  <2>4. \A k, l \in 1 .. Len(pending) : k <= l => pending'[k].beat <= pending'[l].beat
    BY <2>1, <2>2, SortSorts
  <2>5. QueueType'
    <3>1. it' \in 1 .. (Len(pending') + 1)
      BY <1>1, <2>1, <2>3 DEF QueueInv, QueueType
    <3> QED BY <1>1, <2>1, <2>3, <3>1 DEF QueueInv, QueueType
  <2>6. Counted'
    <3>1. ASSUME NEW n, InPending(n) PROVE InPending(n)'
      <4>1. PICK i \in 1 .. Len(pending) : pending[i].n = n
        BY <1>1, <3>1 DEF InPending
      <4>2. PICK k \in 1 .. Len(pending) : pending'[k] = pending[i]
        BY <2>3, Zenon
      <4>3. k \in it' .. Len(pending') /\ pending'[k].n = n
        BY <2>1, <2>3, <4>1, <4>2
      <4> QED BY <4>3 DEF InPending
    <3>2. \A n : (InStaging(n) => InStaging(n)') /\ (HasFired(n) => HasFired(n)')
      BY <1>1 DEF InStaging, HasFired
    <3> QED BY <1>1, <2>1, <2>3, <3>1, <3>2 DEF QueueInv, Counted
  <2>7. Phased'
    BY <1>1, <2>1, <2>3, <2>4 DEF QueueInv, Phased
  <2> QED BY <2>5, <2>6, <2>7 DEF QueueInv
<1> QED BY <1>2, <1>3

\* A due event fires: it passes from pending_ to the callback or the OSC queue.
LEMMA TickFireKeeps ==
    ASSUME QueueInv, OscType, TickFire
    PROVE  QueueInv' /\ OscType'
<1> DEFINE ev   == pending[it]
           shot == [ev |-> ev, at |-> now, route |-> Route(ev),
                    seen |-> Len(fired) + Len(pending) - it + 1]
<1>1. /\ tick = "fire" /\ it <= Len(pending) /\ ev.beat <= now
      /\ it' = it + 1 /\ fired' = Append(fired, shot)
      /\ oscOut' = IF Route(ev) = "queued" THEN Append(oscOut, ev.n) ELSE oscOut
      /\ UNCHANGED <<accepted, staging, pending, tick, now, atBegin, oscWired, sent>>
  BY DEF TickFire, Due
<1>2. /\ accepted \in Nat /\ it \in 1 .. Len(pending) /\ Len(pending) \in Nat
      /\ Len(staging) \in Nat /\ Len(fired) \in Nat
      /\ Len(staging) + (Len(pending) + 1 - it) + Len(fired) = accepted
      /\ fired \in Seq(Shot(accepted)) /\ pending \in Seq(Numbered(accepted))
  BY <1>1 DEF QueueInv, QueueType, Counted
<1>3. ev \in Numbered(accepted)
  BY <1>2
<1>4. Route(ev) \in {"callback", "queued", "dropped"}
  BY DEF Route
<1>5. Route(ev) = "queued" => Len(oscOut) < OscBound
  BY DEF Route
<1>6. shot \in Shot(accepted) /\ shot.ev = ev /\ shot.at = now
  BY <1>2, <1>3, <1>4 DEF Shot, QueueInv, QueueType
<1> HIDE DEF shot
<1>7. /\ fired' \in Seq(Shot(accepted)) /\ Len(fired') = Len(fired) + 1
      /\ fired'[Len(fired) + 1] = shot
      /\ \A i \in 1 .. Len(fired) : fired'[i] = fired[i]
  BY <1>1, <1>2, <1>6
<1>8. OscType'
  <2>1. ev.n \in 1 .. accepted
    BY <1>3 DEF Numbered
  <2>2. oscOut \in Seq(1 .. accepted) /\ Len(oscOut) \in Nat /\ Len(oscOut) <= OscBound
    BY DEF OscType
  <2>3. oscOut' \in Seq(1 .. accepted) /\ Len(oscOut') <= OscBound
    <3>1. CASE Route(ev) = "queued"
      <4>1. oscOut' = Append(oscOut, ev.n) /\ Len(oscOut) < OscBound
        BY <1>1, <1>5, <3>1
      <4> QED BY <2>1, <2>2, <4>1, SchedulerAssumption
    <3>2. CASE Route(ev) # "queued"
      BY <1>1, <2>2, <3>2
    <3> QED BY <3>1, <3>2
  <2> QED BY <1>1, <2>3 DEF OscType
<1>9. QueueType'
  BY <1>1, <1>2, <1>7 DEF QueueInv, QueueType
<1>10. Counted'
  <2>1. ASSUME NEW n \in 1 .. accepted, InPending(n)
        PROVE  InPending(n)' \/ HasFired(n)'
    <3>1. PICK i \in it .. Len(pending) : pending[i].n = n
      BY <2>1 DEF InPending
    <3>2. CASE i = it
      BY <1>2, <1>6, <1>7, <3>1, <3>2 DEF HasFired
    <3>3. CASE i # it
      BY <1>1, <1>2, <3>1, <3>3 DEF InPending
    <3> QED BY <3>2, <3>3
  <2>2. UNCHANGED <<accepted, staging, pending>> /\ it' = it + 1
    BY <1>1
  <2>3. \A n : (InStaging(n) => InStaging(n)') /\ (HasFired(n) => HasFired(n)')
    <3>1. \A n : InStaging(n) => InStaging(n)'
      BY <2>2 DEF InStaging
    <3>2. \A i \in 1 .. Len(fired) : i \in 1 .. Len(fired') /\ fired'[i] = fired[i]
      BY <1>2, <1>7
    <3>3. \A n : HasFired(n) => HasFired(n)'
      BY <3>2 DEF HasFired
    <3> QED BY <3>1, <3>3
  <2>4. Len(staging') + (Len(pending') + 1 - it') + Len(fired') = accepted'
    <3>1. Len(fired') = Len(fired) + 1
      BY <1>7
    <3>2. /\ Len(staging') = Len(staging) /\ Len(pending') = Len(pending)
          /\ accepted' = accepted /\ it' = it + 1
      BY <2>2
    <3>3. /\ accepted \in Nat /\ it \in Nat /\ Len(pending) \in Nat
          /\ Len(staging) \in Nat /\ Len(fired) \in Nat
          /\ Len(staging) + (Len(pending) + 1 - it) + Len(fired) = accepted
      BY <1>2
    <3> QED BY <3>1, <3>2, <3>3
  <2> QED BY <2>1, <2>2, <2>3, <2>4 DEF QueueInv, Counted
<1>11. Phased'
  <2>1. \A i \in 1 .. Len(fired') : fired'[i].ev.beat <= fired'[i].at
    BY <1>1, <1>2, <1>6, <1>7 DEF QueueInv, Phased
  <2> QED BY <1>1, <2>1 DEF QueueInv, Phased
<1> QED BY <1>8, <1>9, <1>10, <1>11 DEF QueueInv

\* What has fired is erased and tick() returns.
LEMMA TickEraseKeeps ==
    ASSUME QueueInv, TickErase
    PROVE  QueueInv'
<1> DEFINE S == Numbered(accepted)
<1>1. /\ tick = "fire" /\ ~Due /\ it' = 1 /\ tick' = "idle"
      /\ pending' = SubSeq(pending, it, Len(pending))
      /\ UNCHANGED <<accepted, staging, now, atBegin, fired>>
  BY DEF TickErase
<1>2. /\ pending \in Seq(S) /\ Len(pending) \in Nat /\ it \in 1 .. (Len(pending) + 1)
      /\ \A i \in 1 .. Len(pending) : pending[i].beat \in Nat
      /\ now \in Nat
  BY SchedulerAssumption, NumberedBeats DEF QueueInv, QueueType, Beaten, Beats
<1> HIDE DEF S
<1>3. /\ pending' \in Seq(S) /\ Len(pending') = Len(pending) + 1 - it
      /\ \A i \in 1 .. Len(pending') : pending'[i] = pending[it + i - 1]
  BY <1>1, <1>2, SubSeqProperties
<1>4. \A i \in it .. Len(pending) : pending[i].beat > now
  <2>1. SUFFICES ASSUME NEW i \in it .. Len(pending) PROVE pending[i].beat > now
    OBVIOUS
  <2>2. it \in 1 .. Len(pending) /\ i \in 1 .. Len(pending) /\ it <= i
    BY <1>2
  <2>3. pending[it].beat <= pending[i].beat
    BY <1>1, <2>2 DEF QueueInv, Phased
  <2>4. ~(pending[it].beat <= now)
    BY <1>1, <2>2 DEF Due
  <2> QED BY <1>2, <2>2, <2>3, <2>4
<1>5. QueueType'
  <2>1. pending' \in Seq(Numbered(accepted')) /\ it' \in 1 .. (Len(pending') + 1)
    BY <1>1, <1>2, <1>3 DEF S
  <2> QED BY <1>1, <2>1 DEF QueueInv, QueueType
<1>6. Counted'
  <2>1. ASSUME NEW n, InPending(n) PROVE InPending(n)'
    <3>1. PICK i \in it .. Len(pending) : pending[i].n = n
      BY <2>1 DEF InPending
    <3>2. /\ i - it + 1 \in 1 .. Len(pending')
          /\ pending'[i - it + 1] = pending[i]
      BY <1>2, <1>3
    <3> QED BY <1>1, <3>1, <3>2, Zenon DEF InPending
  <2>2. \A n : (InStaging(n) => InStaging(n)') /\ (HasFired(n) => HasFired(n)')
    BY <1>1 DEF InStaging, HasFired
  <2>3. Len(staging') + (Len(pending') + 1 - it') + Len(fired') = accepted'
    <3>1. /\ UNCHANGED <<accepted, staging, fired>> /\ it' = 1
          /\ Len(staging) \in Nat /\ Len(fired) \in Nat
          /\ Len(staging) + (Len(pending) + 1 - it) + Len(fired) = accepted
      BY <1>1 DEF QueueInv, QueueType, Counted
    <3> QED BY <1>2, <1>3, <3>1
  <2>4. accepted' = accepted
    BY <1>1
  <2> QED BY <2>1, <2>2, <2>3, <2>4 DEF QueueInv, Counted
<1>7. Phased'
  <2>1. \A i \in 1 .. Len(pending') : pending'[i].beat > now
    <3>1. \A i \in 1 .. Len(pending') : it + i - 1 \in it .. Len(pending)
      BY <1>2, <1>3
    <3> QED BY <1>3, <1>4, <3>1
  <2> QED BY <1>1, <2>1, Zenon DEF QueueInv, Phased
<1> QED BY <1>5, <1>6, <1>7 DEF QueueInv

\* The sender thread takes a datagram.
LEMMA SendOscKeeps ==
    ASSUME OscType, SendOsc
    PROVE  OscType'
<1> DEFINE S == 1 .. accepted
<1>1. /\ oscOut \in Seq(S) /\ sent \in Seq(S) /\ oscOut # << >>
      /\ sent' = Append(sent, Head(oscOut)) /\ oscOut' = Tail(oscOut)
      /\ UNCHANGED <<accepted, oscWired>>
  BY DEF SendOsc, OscType
<1> HIDE DEF S
<1>2. /\ oscOut' \in Seq(S) /\ sent' \in Seq(S)
      /\ Len(oscOut') = Len(oscOut) - 1 /\ Len(oscOut) \in Nat
  BY <1>1
<1>3. UNCHANGED <<accepted, oscWired>>
  BY <1>1
<1> QED BY <1>2, <1>3, SchedulerAssumption DEF OscType, S

\* The variables of QueueInv.
queueVars == <<accepted, staging, scheduler>>

\* A step elsewhere leaves the queues' part alone.
LEMMA QueueUnchanged == QueueInv /\ UNCHANGED queueVars => QueueInv'
<1> SUFFICES ASSUME QueueInv, UNCHANGED queueVars PROVE QueueInv'
  OBVIOUS
<1>1. UNCHANGED <<accepted, staging, pending, it, tick, now, atBegin, fired>>
  BY DEF queueVars, scheduler
<1>2. QueueType'
  BY <1>1 DEF QueueInv, QueueType
<1>3. Counted'
  BY <1>1 DEF QueueInv, Counted, InStaging, InPending, HasFired
<1>4. Phased'
  BY <1>1 DEF QueueInv, Phased
<1> QED BY <1>2, <1>3, <1>4 DEF QueueInv

\* The control thread: a note, a bundle, or the next event of a bundle.
LEMMA ControlKeeps ==
    ASSUME SchedulerInv, Control
    PROVE  SchedulerInv'
<1>1. ASSUME NEW beat \in Beats, ScheduleNote(beat) PROVE SchedulerInv'
  <2>1. messages + 1 \in 1 .. MaxMessages
    BY <1>1, SchedulerAssumption DEF ScheduleNote, SchedulerInv, ControlType
  <2>2. Event(beat, "clap", messages + 1) \in Staged
    BY <2>1, SchedulerAssumption DEF Event, Staged, Kinds, Beats
  <2>3. QueueInv' /\ OscType'
    BY <1>1, <2>2, StageKeeps DEF ScheduleNote, SchedulerInv
  <2>4. ControlType'
    BY <1>1, <2>1 DEF ScheduleNote, SchedulerInv, ControlType
  <2> QED BY <2>3, <2>4 DEF SchedulerInv
<1>2. ASSUME NEW anchor \in Beats, NEW events \in Bundles, ScheduleBundle(anchor, events)
      PROVE  SchedulerInv'
  <2>1. messages + 1 \in 1 .. MaxMessages /\ messages' = messages + 1
    BY <1>2, SchedulerAssumption DEF ScheduleBundle, SchedulerInv, ControlType
  <2>2. /\ events \in Seq([tick : Nat, kind : Kinds])
        /\ DOMAIN events = 1 .. Len(events) /\ Len(events) \in Nat
    <3>1. events \in Seq([tick : Nat, kind : Kinds])
      BY SchedulerAssumption, Zenon
    <3> QED BY <3>1, LenProperties
  <2>3. ASSUME NEW i \in 1 .. Len(events)
        PROVE  Event(anchor + events[i].tick, events[i].kind, messages + 1) \in Staged
    <3>1. events[i] \in [tick : Nat, kind : Kinds]
      BY <2>2, ElementOfSeq, Zenon
    <3>2. anchor + events[i].tick \in Nat /\ events[i].kind \in Kinds
      BY <3>1, SchedulerAssumption DEF Beats
    <3> QED BY <2>1, <3>2 DEF Event, Staged
  <2>4. todo' \in Seq(Staged)
    BY <1>2, <2>2, <2>3 DEF ScheduleBundle
  <2>5. UNCHANGED queueVars /\ UNCHANGED <<oscWired, oscOut, sent, accepted>>
    BY <1>2 DEF ScheduleBundle, queueVars
  <2>6. QueueInv' /\ OscType'
    BY <2>5, QueueUnchanged DEF SchedulerInv, OscType
  <2> QED BY <2>1, <2>4, <2>6 DEF SchedulerInv, ControlType
<1>3. ASSUME StageNext PROVE SchedulerInv'
  <2>1. todo # << >> /\ todo \in Seq(Staged) /\ todo' = Tail(todo) /\ UNCHANGED messages
    BY <1>3 DEF StageNext, SchedulerInv, ControlType
  <2>2. Head(todo) \in Staged /\ todo' \in Seq(Staged)
    BY <2>1, HeadTailProperties
  <2>3. UNCHANGED <<scheduler, oscWired, oscOut, sent>>
    BY <1>3 DEF StageNext
  <2>4. CASE Head(todo).kind = "skipped"
    <3>1. UNCHANGED queueVars /\ UNCHANGED accepted
      BY <1>3, <2>3, <2>4 DEF StageNext, queueVars
    <3> QED BY <2>1, <2>2, <2>3, <3>1, QueueUnchanged DEF SchedulerInv, ControlType, OscType
  <2>5. CASE Head(todo).kind # "skipped"
    <3>1. Stage(Head(todo))
      BY <1>3, <2>5 DEF StageNext
    <3>2. QueueInv' /\ OscType'
      BY <2>2, <2>3, <3>1, StageKeeps DEF SchedulerInv
    <3> QED BY <2>1, <2>2, <3>2 DEF SchedulerInv, ControlType
  <2> QED BY <2>4, <2>5
<1> QED BY <1>1, <1>2, <1>3 DEF Control

\* tick(), and the sender thread.
LEMMA TickKeeps ==
    ASSUME SchedulerInv, Tick \/ SendOsc
    PROVE  SchedulerInv'
<1>1. UNCHANGED control
  BY DEF Tick, InTick, TickBegin, TickDrain, TickSort, TickFire, TickErase, SendOsc
<1>2. ControlType'
  BY <1>1 DEF control, SchedulerInv, ControlType
<1>3. CASE \E beat \in Beats : TickBegin(beat)
  BY <1>2, <1>3, TickBeginKeeps DEF TickBegin, SchedulerInv, OscType
<1>4. CASE TickDrain
  BY <1>2, <1>4, TickDrainKeeps DEF TickDrain, SchedulerInv, OscType
<1>5. CASE TickSort
  BY <1>2, <1>5, TickSortKeeps DEF TickSort, SchedulerInv, OscType
<1>6. CASE TickFire
  BY <1>2, <1>6, TickFireKeeps DEF SchedulerInv
<1>7. CASE TickErase
  BY <1>2, <1>7, TickEraseKeeps DEF TickErase, SchedulerInv, OscType
<1>8. CASE SendOsc
  BY <1>2, <1>8, SendOscKeeps, QueueUnchanged DEF SendOsc, queueVars, SchedulerInv
<1> QED BY <1>3, <1>4, <1>5, <1>6, <1>7, <1>8 DEF Tick, InTick

(* The inductive invariant of the scheduler holds, whatever the bundles, the sizes of
   the queues and the beats that tick() is called with. *)
THEOREM SchedulerInvariance == Spec => []SchedulerInv
<1>1. Init => SchedulerInv
  BY InitHolds
<1>2. SchedulerInv /\ [Next]_vars => SchedulerInv'
  <2> SUFFICES ASSUME SchedulerInv, [Next]_vars PROVE SchedulerInv'
    OBVIOUS
  <2>1. CASE Control
    BY <2>1, ControlKeeps
  <2>2. CASE Tick \/ SendOsc
    BY <2>2, TickKeeps
  <2>3. CASE UNCHANGED vars
    <3>1. UNCHANGED queueVars /\ UNCHANGED <<messages, todo, accepted, oscWired, oscOut, sent>>
      BY <2>3 DEF vars, queueVars, control
    <3> QED BY <3>1, QueueUnchanged DEF SchedulerInv, ControlType, OscType
  <2> QED BY <2>1, <2>2, <2>3 DEF Next
<1> QED BY <1>1, <1>2, PTL DEF Spec

(* tick() fires events "at the first tick where current_beat >= event.beat", for every
   timeline the host may pass. *)
THEOREM FiresWhenDue == Spec => []FiresWhenFirstDue
<1>1. SchedulerInv => FiresWhenFirstDue
  <2> SUFFICES ASSUME SchedulerInv PROVE FiresWhenFirstDue
    OBVIOUS
  <2>1. /\ DOMAIN fired = 1 .. Len(fired) /\ DOMAIN staging = 1 .. Len(staging)
        /\ accepted \in Nat /\ atBegin \in Nat
        /\ \A i \in 1 .. Len(staging) : staging[i].n \in Nat
    <3>1. \A i \in 1 .. Len(staging) : staging[i] \in Numbered(accepted)
      BY DEF SchedulerInv, QueueInv, QueueType
    <3>2. /\ DOMAIN fired = 1 .. Len(fired) /\ DOMAIN staging = 1 .. Len(staging)
          /\ accepted \in Nat /\ atBegin \in Nat
      BY DEF SchedulerInv, QueueInv, QueueType
    <3>3. \A x \in Numbered(accepted) : x.n \in Nat
      BY <3>2 DEF Numbered
    <3> QED BY <3>1, <3>2, <3>3
  <2>2. \A i \in DOMAIN fired : fired[i].ev.beat <= fired[i].at
    BY <2>1 DEF SchedulerInv, QueueInv, Phased
  <2>3. ASSUME tick = "idle", NEW e \in Kept, e.n <= atBegin PROVE e.beat > now
    <3>1. \A i \in 1 .. Len(staging) : e # staging[i]
      BY <2>1, <2>3 DEF SchedulerInv, QueueInv, Phased
    <3>2. PICK i \in it .. Len(pending) : e = pending[i]
      BY <2>1, <3>1 DEF Kept
    <3> QED BY <2>3, <3>2 DEF SchedulerInv, QueueInv, Phased
  <2> QED BY <2>2, <2>3 DEF FiresWhenFirstDue
<1> QED BY <1>1, SchedulerInvariance, PTL

\* The types of EventScheduler are wider than those of the invariant.
LEMMA TypesHold == SchedulerInv => TypeOK
<1> SUFFICES ASSUME SchedulerInv PROVE TypeOK
  OBVIOUS
<1>1. accepted \in Nat
  BY DEF SchedulerInv, QueueInv, QueueType
<1>2. Staged \subseteq Events /\ Numbered(accepted) \subseteq Events
  BY <1>1 DEF Staged, Numbered, Events
<1>3. Shot(accepted) \subseteq [ev : Events, at : Beats, seen : 0 .. accepted,
                                route : {"callback", "queued", "dropped"}]
  BY <1>2 DEF Shot
<1>4. /\ todo \in Seq(Events) /\ staging \in Seq(Events) /\ pending \in Seq(Events)
      /\ fired \in Seq([ev : Events, at : Beats, seen : 0 .. accepted,
                        route : {"callback", "queued", "dropped"}])
  BY <1>2, <1>3, SeqMonotonic, Zenon DEF SchedulerInv, ControlType, QueueInv, QueueType
<1> QED BY <1>4 DEF SchedulerInv, ControlType, OscType, QueueInv, QueueType, TypeOK

\* A function on 1 .. n is a sequence.
LEMMA FunctionIsSequence ==
    ASSUME NEW n \in Nat, NEW f \in [1 .. n -> Nat]
    PROVE  f \in Seq(Nat) /\ Len(f) = n
  OBVIOUS

\* What is in one of two sequences is in their concatenation.
LEMMA ConcatHolds ==
    ASSUME NEW s \in Seq(Nat), NEW t \in Seq(Nat)
    PROVE  /\ s \o t \in Seq(Nat) /\ Len(s \o t) = Len(s) + Len(t)
           /\ \A i \in 1 .. Len(s) : \E k \in 1 .. Len(s \o t) : (s \o t)[k] = s[i]
           /\ \A i \in 1 .. Len(t) : \E k \in 1 .. Len(s \o t) : (s \o t)[k] = t[i]
<1>1. /\ s \o t \in Seq(Nat) /\ Len(s \o t) = Len(s) + Len(t)
      /\ \A i \in 1 .. Len(s) + Len(t) : (s \o t)[i] = IF i <= Len(s) THEN s[i] ELSE t[i - Len(s)]
      /\ Len(s) \in Nat /\ Len(t) \in Nat
  BY ConcatProperties
<1> DEFINE st == s \o t
<1>2. /\ Len(st) = Len(s) + Len(t) /\ Len(s) \in Nat /\ Len(t) \in Nat
      /\ \A i \in 1 .. Len(s) + Len(t) : st[i] = IF i <= Len(s) THEN s[i] ELSE t[i - Len(s)]
  BY <1>1
<1> HIDE DEF st
<1>3. ASSUME NEW i \in 1 .. Len(s) PROVE i \in 1 .. Len(st) /\ st[i] = s[i]
  BY <1>2
<1>4. ASSUME NEW i \in 1 .. Len(t)
      PROVE  Len(s) + i \in 1 .. Len(st) /\ st[Len(s) + i] = t[i]
  <2>1. Len(s) + i \in 1 .. Len(s) + Len(t) /\ ~(Len(s) + i <= Len(s)) /\ Len(s) + i - Len(s) = i
    BY <1>2
  <2>2. st[Len(s) + i] = t[Len(s) + i - Len(s)]
    BY <1>2, <2>1
  <2> QED BY <1>2, <2>1, <2>2
<1> QED BY <1>1, <1>3, <1>4, Zenon DEF st

(* An event the staging queue has accepted is in one place, and fires once: neither the
   sort nor the erase of tick() loses or repeats one while the control thread pushes. *)
THEOREM FiresOnce == Spec => []EachEventOnce
<1>1. SchedulerInv => EachEventOnce
  <2> SUFFICES ASSUME SchedulerInv PROVE EachEventOnce
    OBVIOUS
  <2> DEFINE a == Numbers(staging)
             b == SubSeq(Numbers(pending), it, Len(pending))
             c == [i \in DOMAIN fired |-> fired[i].ev.n]
  <2>1. /\ staging \in Seq(Numbered(accepted)) /\ pending \in Seq(Numbered(accepted))
        /\ fired \in Seq(Shot(accepted)) /\ it \in 1 .. (Len(pending) + 1)
        /\ Len(staging) \in Nat /\ Len(pending) \in Nat /\ Len(fired) \in Nat
    BY DEF SchedulerInv, QueueInv, QueueType
  <2>2. /\ \A i \in 1 .. Len(staging) : staging[i].n \in Nat
        /\ \A i \in 1 .. Len(pending) : pending[i].n \in Nat
        /\ \A i \in 1 .. Len(fired) : fired[i].ev.n \in Nat
    <3>1. /\ \A i \in 1 .. Len(staging) : staging[i] \in Numbered(accepted)
          /\ \A i \in 1 .. Len(pending) : pending[i] \in Numbered(accepted)
          /\ \A i \in 1 .. Len(fired) : fired[i] \in Shot(accepted)
      BY <2>1
    <3>2. \A i \in 1 .. Len(fired) : fired[i].ev \in Numbered(accepted)
      BY <3>1 DEF Shot
    <3> QED BY <3>1, <3>2 DEF Numbered
  <2>3. /\ a \in Seq(Nat) /\ Len(a) = Len(staging)
        /\ \A i \in 1 .. Len(staging) : a[i] = staging[i].n
    <3>1. a \in [1 .. Len(staging) -> Nat]
      BY <2>1, <2>2 DEF Numbers
    <3>2. \A i \in 1 .. Len(staging) : a[i] = staging[i].n
      BY <2>1 DEF Numbers
    <3> HIDE DEF a
    <3> QED BY <2>1, <3>1, <3>2, FunctionIsSequence, Zenon
  <2>4. /\ b \in Seq(Nat) /\ Len(b) = Len(pending) + 1 - it
        /\ \A i \in 1 .. Len(b) : b[i] = pending[it + i - 1].n
    <3> DEFINE p == Numbers(pending)
    <3>1. /\ \A i \in 1 .. Len(pending) : p[i] = pending[i].n /\ p[i] \in Nat
          /\ \A i \in it .. Len(pending) : p[i] \in Nat
      BY <2>1, <2>2 DEF Numbers
    <3> HIDE DEF p
    <3>2. /\ SubSeq(p, it, Len(pending)) \in Seq(Nat)
          /\ Len(SubSeq(p, it, Len(pending))) = Len(pending) + 1 - it
          /\ \A i \in 1 .. Len(pending) - it + 1 :
                SubSeq(p, it, Len(pending))[i] = p[it + i - 1]
      BY <2>1, <3>1, SubSeqProperties
    <3>3. \A i \in 1 .. Len(pending) - it + 1 : it + i - 1 \in 1 .. Len(pending)
      BY <2>1
    <3> QED BY <2>1, <3>1, <3>2, <3>3 DEF p
  <2>5. /\ c \in Seq(Nat) /\ Len(c) = Len(fired)
        /\ \A i \in 1 .. Len(fired) : c[i] = fired[i].ev.n
    <3>1. c \in [1 .. Len(fired) -> Nat]
      BY <2>1, <2>2
    <3>2. \A i \in 1 .. Len(fired) : c[i] = fired[i].ev.n
      BY <2>1
    <3> HIDE DEF c
    <3> QED BY <2>1, <3>1, <3>2, FunctionIsSequence
  <2> HIDE DEF a, b, c
  <2> DEFINE ab  == a \o b
             all == ab \o c
  <2>6. /\ ab \in Seq(Nat) /\ Len(ab) = Len(a) + Len(b)
        /\ \A i \in 1 .. Len(a) : \E k \in 1 .. Len(ab) : ab[k] = a[i]
        /\ \A i \in 1 .. Len(b) : \E k \in 1 .. Len(ab) : ab[k] = b[i]
    BY <2>3, <2>4, ConcatHolds, Zenon
  <2> HIDE DEF ab
  <2>7. /\ all \in Seq(Nat) /\ Len(all) = Len(ab) + Len(c)
        /\ \A i \in 1 .. Len(ab) : \E k \in 1 .. Len(all) : all[k] = ab[i]
        /\ \A i \in 1 .. Len(c) : \E k \in 1 .. Len(all) : all[k] = c[i]
    BY <2>5, <2>6, ConcatHolds, Zenon
  <2> HIDE DEF all
  <2>8. Len(all) = accepted
    <3>1. Len(staging) + (Len(pending) + 1 - it) + Len(fired) = accepted
      BY DEF SchedulerInv, QueueInv, Counted
    <3>2. Len(all) = Len(staging) + (Len(pending) + 1 - it) + Len(fired)
      BY <2>3, <2>4, <2>5, <2>6, <2>7
    <3> QED BY <3>1, <3>2
  <2>9. ASSUME NEW n \in 1 .. accepted PROVE \E k \in 1 .. Len(all) : all[k] = n
    <3>1. CASE InStaging(n)
      <4>1. PICK i \in 1 .. Len(a) : a[i] = n
        BY <2>3, <3>1 DEF InStaging
      <4>2. PICK k \in 1 .. Len(ab) : ab[k] = n
        BY <2>6, <4>1
      <4> QED BY <2>7, <4>2
    <3>2. CASE InPending(n)
      <4>1. PICK i \in it .. Len(pending) : pending[i].n = n
        BY <3>2 DEF InPending
      <4>2. i - it + 1 \in 1 .. Len(b) /\ it + (i - it + 1) - 1 = i
        BY <2>1, <2>4
      <4>3. b[i - it + 1] = n
        BY <2>4, <4>1, <4>2
      <4>4. PICK k \in 1 .. Len(ab) : ab[k] = n
        BY <2>6, <4>2, <4>3
      <4> QED BY <2>7, <4>4
    <3>3. CASE HasFired(n)
      BY <2>5, <2>7, <3>3 DEF HasFired
    <3> QED BY <3>1, <3>2, <3>3 DEF SchedulerInv, QueueInv, Counted
  <2>10. DOMAIN all = 1 .. Len(all)
    BY <2>7
  <2> QED BY <2>8, <2>9, <2>10, TypesHold, Zenon DEF EachEventOnce, all, ab, a, b, c
<1> QED BY <1>1, SchedulerInvariance, PTL

-----------------------------------------------------------------------------
(* The order in which events fire.                                         *)

\* What tick() has taken from the staging queue so far.
Drained == accepted - Len(staging)

\* The queue holds the newest numbers in order, and what waits in pending_ is in order
\* of arrival within a beat.  An event that waits has arrived too late for any that
\* has fired and that it should have preceded.
OrderInv ==
    /\ \A i \in 1 .. Len(staging) : staging[i].n = Drained + i
    /\ \A i \in 1 .. Len(pending) : pending[i].n <= Drained
    /\ \A i, j \in 1 .. Len(pending) :
          i < j /\ pending[i].beat = pending[j].beat => pending[i].n < pending[j].n
    /\ \A i \in 1 .. Len(fired) : fired[i].seen <= Drained
    /\ \A i \in 1 .. Len(fired), k \in it .. Len(pending) :
          Precedes(pending[k], fired[i].ev) => pending[k].n > fired[i].seen
    /\ \A i, j \in 1 .. Len(fired) :
          i < j /\ Precedes(fired[j].ev, fired[i].ev) => fired[j].ev.n > fired[i].seen

\* Place k of the sorted sequence holds a smaller beat than place l, or an element
\* that came first.
Stable(s, k, l) ==
    \E i, j \in 1 .. Len(s) :
        /\ StableSort(s)[k] = s[i] /\ StableSort(s)[l] = s[j]
        /\ s[i].beat < s[j].beat \/ (s[i].beat = s[j].beat /\ i < j)

\* Of two places of the sorted sequence the first holds what should come first.
LEMMA SortStable ==
    ASSUME NEW S, NEW s \in Seq(S), Beaten(s),
           NEW k \in 1 .. Len(s), NEW l \in 1 .. Len(s), k < l
    PROVE  Stable(s, k, l)
<1>1. PICK i \in 1 .. Len(s) : Cardinality(NotAfter(s, i)) = k /\ StableSort(s)[k] = s[i]
  BY SortPermutes, Zenon
<1>2. PICK j \in 1 .. Len(s) : Cardinality(NotAfter(s, j)) = l /\ StableSort(s)[l] = s[j]
  BY SortPermutes, Zenon
<1>3. i # j
  BY <1>1, <1>2
<1>4. j \notin NotAfter(s, i)
  BY <1>1, <1>2, <1>3, RanksDiffer
<1>5. s[i].beat < s[j].beat \/ (s[i].beat = s[j].beat /\ i < j)
  BY <1>3, <1>4 DEF NotAfter, Beaten
<1> QED BY <1>1, <1>2, <1>5 DEF Stable

\* The numbers and lengths of a state of the scheduler.
LEMMA Measures ==
    ASSUME SchedulerInv
    PROVE  /\ accepted \in Nat /\ Len(staging) \in Nat /\ Len(pending) \in Nat /\ Len(fired) \in Nat
           /\ it \in 1 .. (Len(pending) + 1)
           /\ Drained = (Len(pending) + 1 - it) + Len(fired) /\ Drained \in Nat
           /\ \A i \in 1 .. Len(staging) : staging[i].n \in Nat /\ staging[i].beat \in Nat
           /\ \A i \in 1 .. Len(pending) : pending[i].n \in Nat /\ pending[i].beat \in Nat
           /\ \A i \in 1 .. Len(fired) :
                 fired[i].ev.n \in Nat /\ fired[i].ev.beat \in Nat /\ fired[i].seen \in Nat
<1>1. /\ accepted \in Nat /\ staging \in Seq(Numbered(accepted)) /\ pending \in Seq(Numbered(accepted))
      /\ fired \in Seq(Shot(accepted)) /\ it \in 1 .. (Len(pending) + 1)
      /\ Len(staging) + (Len(pending) + 1 - it) + Len(fired) = accepted
  BY DEF SchedulerInv, QueueInv, QueueType, Counted
<1>2. /\ Len(staging) \in Nat /\ Len(pending) \in Nat /\ Len(fired) \in Nat
      /\ \A i \in 1 .. Len(staging) : staging[i] \in Numbered(accepted)
      /\ \A i \in 1 .. Len(pending) : pending[i] \in Numbered(accepted)
      /\ \A i \in 1 .. Len(fired) : fired[i] \in Shot(accepted)
  BY <1>1
<1>3. \A i \in 1 .. Len(fired) : fired[i].ev \in Numbered(accepted) /\ fired[i].seen \in Nat
  BY <1>1, <1>2 DEF Shot
<1>4. Drained = (Len(pending) + 1 - it) + Len(fired) /\ Drained \in Nat
  BY <1>1, <1>2 DEF Drained
<1>5. \A e \in Numbered(accepted) : e.n \in Nat /\ e.beat \in Nat
  BY <1>1 DEF Numbered
<1>6. /\ \A i \in 1 .. Len(staging) : staging[i].n \in Nat /\ staging[i].beat \in Nat
      /\ \A i \in 1 .. Len(pending) : pending[i].n \in Nat /\ pending[i].beat \in Nat
  BY <1>2, <1>5
<1>7. \A i \in 1 .. Len(fired) :
         fired[i].ev.n \in Nat /\ fired[i].ev.beat \in Nat /\ fired[i].seen \in Nat
  BY <1>3, <1>5
<1> QED BY <1>1, <1>2, <1>4, <1>6, <1>7

\* push() gives an event the next number, at the end of the queue.
LEMMA StageKeepsOrder ==
    ASSUME SchedulerInv, OrderInv, NEW ev \in Staged, Stage(ev), UNCHANGED scheduler
    PROVE  OrderInv'
<1>1. UNCHANGED <<pending, it, fired>>
  BY DEF scheduler
<1>2. CASE ~(Len(staging) < StagingBound)
  BY <1>1, <1>2 DEF Stage, OrderInv, Drained
<1>3. CASE Len(staging) < StagingBound
  <2> DEFINE e == [ev EXCEPT !.n = accepted + 1]
  <2>1. accepted' = accepted + 1 /\ staging' = Append(staging, e) /\ e.n = accepted + 1
    BY <1>3 DEF Stage, Staged
  <2> HIDE DEF e
  <2>2. staging \in Seq(Numbered(accepted))
    BY DEF SchedulerInv, QueueInv, QueueType
  <2>3. /\ Len(staging') = Len(staging) + 1 /\ staging'[Len(staging) + 1] = e
        /\ \A i \in 1 .. Len(staging) : staging'[i] = staging[i]
    BY <2>1, <2>2
  <2>4. Drained' = Drained /\ accepted = Drained + Len(staging)
    <3>1. accepted \in Nat /\ Len(staging) \in Nat
      BY Measures
    <3>2. accepted' = accepted + 1 /\ Len(staging') = Len(staging) + 1
      BY <2>1, <2>3
    <3> QED BY <3>1, <3>2 DEF Drained
  <2>5. \A i \in 1 .. Len(staging') : staging'[i].n = Drained' + i
    <3>1. SUFFICES ASSUME NEW i \in 1 .. Len(staging') PROVE staging'[i].n = Drained' + i
      OBVIOUS
    <3>2. Len(staging) \in Nat
      BY Measures
    <3>3. CASE i = Len(staging) + 1
      <4>1. staging'[i].n = accepted + 1
        BY <2>1, <2>3, <3>3
      <4> QED BY <2>4, <3>2, <3>3, <4>1, Measures
    <3>4. CASE i # Len(staging) + 1
      <4>1. i \in 1 .. Len(staging)
        BY <2>3, <3>2, <3>4
      <4> QED BY <2>3, <2>4, <4>1 DEF OrderInv
    <3> QED BY <3>3, <3>4
  <2> QED BY <1>1, <2>4, <2>5 DEF OrderInv
<1> QED BY <1>2, <1>3

\* An event that is drained has a greater number than any drained before.
LEMMA TickDrainKeepsOrder ==
    ASSUME SchedulerInv, OrderInv, TickDrain
    PROVE  OrderInv'
<1>1. /\ staging \in Seq(Numbered(accepted)) /\ pending \in Seq(Numbered(accepted))
      /\ staging # << >> /\ pending' = Append(pending, Head(staging)) /\ staging' = Tail(staging)
  BY DEF TickDrain, SchedulerInv, QueueInv, QueueType
<1>2. /\ Len(staging') = Len(staging) - 1 /\ Len(staging) \in Nat \ {0}
      /\ \A i \in 1 .. Len(staging') : staging'[i] = staging[i + 1]
      /\ Len(pending') = Len(pending) + 1 /\ pending'[Len(pending) + 1] = staging[1]
      /\ \A i \in 1 .. Len(pending) : pending'[i] = pending[i]
  BY <1>1
<1>3. UNCHANGED <<accepted, it, fired>>
  BY DEF TickDrain
<1>4. Drained' = Drained + 1 /\ staging[1].n = Drained + 1
  <2>1. accepted \in Nat /\ Len(staging) \in Nat /\ 1 \in 1 .. Len(staging)
    BY <1>2, Measures
  <2>2. accepted' = accepted /\ Len(staging') = Len(staging) - 1
    BY <1>2, <1>3
  <2>3. staging[1].n = Drained + 1
    BY <2>1 DEF OrderInv
  <2>4. Drained' = Drained + 1
    BY <2>1, <2>2 DEF Drained
  <2> QED BY <2>3, <2>4
<1> DEFINE last == Len(pending) + 1
<1>5. ASSUME NEW i \in 1 .. Len(staging') PROVE staging'[i].n = Drained' + i
  <2>1. i + 1 \in 1 .. Len(staging) /\ staging'[i] = staging[i + 1]
    BY <1>2
  <2>2. staging[i + 1].n = Drained + (i + 1)
    BY <2>1 DEF OrderInv
  <2> QED BY <1>2, <1>4, <2>1, <2>2, Measures
<1>6. ASSUME NEW i \in 1 .. Len(pending'), i # last
      PROVE  /\ i \in 1 .. Len(pending) /\ i < last
             /\ pending'[i] = pending[i] /\ pending[i].n <= Drained /\ pending[i].n \in Nat
  <2>1. i \in 1 .. Len(pending) /\ i < last
    BY <1>2, <1>6, Measures
  <2> QED BY <1>2, <2>1, Measures DEF OrderInv
<1>7. /\ last \in 1 .. Len(pending') /\ Len(pending') = last /\ last \in Nat
      /\ pending'[last].n = Drained + 1 /\ Drained \in Nat
  BY <1>2, <1>4, Measures
<1> HIDE DEF last
<1>8. ASSUME NEW i \in 1 .. Len(pending') PROVE pending'[i].n <= Drained'
  <2>1. CASE i = last
    BY <1>4, <1>7, <2>1
  <2>2. CASE i # last
    BY <1>4, <1>6, <1>7, <2>2
  <2> QED BY <2>1, <2>2
<1>9. ASSUME NEW i \in 1 .. Len(pending'), NEW j \in 1 .. Len(pending'), i < j,
             pending'[i].beat = pending'[j].beat
      PROVE  pending'[i].n < pending'[j].n
  <2>1. i # last
    BY <1>9, <1>7
  <2>2. CASE j = last
    BY <1>6, <1>7, <2>1, <2>2
  <2>3. CASE j # last
    BY <1>9, <1>6, <2>1, <2>3 DEF OrderInv
  <2> QED BY <2>2, <2>3
<1>10. ASSUME NEW i \in 1 .. Len(fired) PROVE fired[i].seen <= Drained'
  <2>1. fired[i].seen <= Drained /\ fired[i].seen \in Nat
    BY Measures DEF OrderInv
  <2> QED BY <1>4, <1>7, <2>1
<1>11. ASSUME NEW i \in 1 .. Len(fired), NEW k \in it .. Len(pending'),
             Precedes(pending'[k], fired[i].ev)
      PROVE  pending'[k].n > fired[i].seen
  <2>1. CASE k = last
    <3>1. fired[i].seen <= Drained /\ fired[i].seen \in Nat
      BY Measures DEF OrderInv
    <3> QED BY <1>7, <2>1, <3>1
  <2>2. CASE k # last
    <3>1. k \in it .. Len(pending) /\ pending'[k] = pending[k]
      BY <1>2, <2>2, Measures DEF last
    <3> QED BY <1>11, <3>1 DEF OrderInv
  <2> QED BY <2>1, <2>2
<1> QED BY <1>3, <1>5, <1>8, <1>9, <1>10, <1>11 DEF OrderInv

\* The sort is stable.
LEMMA TickSortKeepsOrder ==
    ASSUME SchedulerInv, OrderInv, TickSort
    PROVE  OrderInv'
<1>1. it = 1 /\ UNCHANGED <<accepted, staging, fired>>
  BY DEF TickSort, SchedulerInv, QueueInv, Phased
<1>2. Drained' = Drained
  BY <1>1 DEF Drained
<1>3. CASE pending = << >>
  BY <1>1, <1>2, <1>3 DEF TickSort, OrderInv
<1>4. CASE pending # << >>
  <2>1. it' = 1 /\ pending' = StableSort(pending)
    BY <1>4 DEF TickSort
  <2>2. pending \in Seq(Numbered(accepted)) /\ Beaten(pending)
    BY NumberedBeats DEF SchedulerInv, QueueInv, QueueType
  <2>3. /\ Len(pending') = Len(pending)
        /\ \A k \in 1 .. Len(pending) : \E i \in 1 .. Len(pending) : pending'[k] = pending[i]
    BY <2>1, <2>2, SortPermutes, Zenon
  <2>4. ASSUME NEW k \in 1 .. Len(pending), NEW l \in 1 .. Len(pending), k < l,
               pending'[k].beat = pending'[l].beat
        PROVE  pending'[k].n < pending'[l].n
    <3>1. Stable(pending, k, l)
      BY <2>2, <2>4, SortStable
    <3>2. PICK i \in 1 .. Len(pending), j \in 1 .. Len(pending) :
             /\ pending'[k] = pending[i] /\ pending'[l] = pending[j]
             /\ pending[i].beat < pending[j].beat
                  \/ (pending[i].beat = pending[j].beat /\ i < j)
      BY <2>1, <3>1, Zenon DEF Stable
    <3>3. pending[i].beat = pending[j].beat
      BY <2>4, <3>2
    <3>4. pending[i].beat \in Nat /\ pending[j].beat \in Nat
      BY Measures
    <3>5. i < j
      BY <3>2, <3>3, <3>4
    <3>6. pending[i].n < pending[j].n
      BY <3>3, <3>5 DEF OrderInv
    <3> QED BY <3>2, <3>6
  <2>5. \A k \in 1 .. Len(pending') : pending'[k].n <= Drained
    BY <2>3 DEF OrderInv
  <2>6. \A i \in 1 .. Len(fired), k \in 1 .. Len(pending') :
           Precedes(pending'[k], fired[i].ev) => pending'[k].n > fired[i].seen
    BY <1>1, <2>3, Zenon DEF OrderInv
  <2> QED BY <1>1, <1>2, <2>1, <2>3, <2>4, <2>5, <2>6 DEF OrderInv
<1> QED BY <1>3, <1>4

\* The first event of a sorted list precedes what is left of it.
LEMMA TickFireKeepsOrder ==
    ASSUME SchedulerInv, OrderInv, TickFire
    PROVE  OrderInv'
<1> DEFINE ev   == pending[it]
           shot == [ev |-> ev, at |-> now, route |-> Route(ev),
                    seen |-> Len(fired) + Len(pending) - it + 1]
           last == Len(fired) + 1
<1>1. /\ tick = "fire" /\ it <= Len(pending) /\ it' = it + 1 /\ fired' = Append(fired, shot)
      /\ UNCHANGED <<accepted, staging, pending>>
  BY DEF TickFire, Due
<1>2. fired \in Seq(Shot(accepted)) /\ it \in 1 .. Len(pending)
  <2>1. fired \in Seq(Shot(accepted))
    BY DEF SchedulerInv, QueueInv, QueueType
  <2>2. it \in 1 .. (Len(pending) + 1) /\ Len(pending) \in Nat
    BY Measures
  <2> QED BY <1>1, <2>1, <2>2
<1>3. shot.ev = ev /\ shot.seen = Drained
  <2>1. shot.ev = ev /\ shot.seen = Len(fired) + Len(pending) - it + 1
    OBVIOUS
  <2>2. Drained = (Len(pending) + 1 - it) + Len(fired)
    BY Measures
  <2>3. Len(fired) \in Nat /\ Len(pending) \in Nat /\ it \in Nat
    BY <1>2, Measures
  <2> HIDE DEF shot
  <2> QED BY <2>1, <2>2, <2>3
<1> HIDE DEF shot
<1>4. /\ Len(fired') = last /\ fired'[last] = shot
      /\ \A i \in 1 .. Len(fired) : fired'[i] = fired[i]
  BY <1>1, <1>2
<1>5. /\ it' = it + 1 /\ Drained' = Drained /\ UNCHANGED <<staging, pending>>
  BY <1>1 DEF Drained
<1>6. ASSUME NEW i \in 1 .. Len(fired'), i # last
      PROVE  i \in 1 .. Len(fired) /\ fired'[i] = fired[i] /\ i < last
  <2>1. Len(fired) \in Nat /\ Len(fired') = Len(fired) + 1
    BY <1>4, Measures
  <2>2. i \in 1 .. Len(fired) /\ i < last
    BY <1>6, <2>1
  <2> QED BY <1>4, <2>2
<1>7. \A i \in 1 .. Len(fired') : fired'[i].seen <= Drained'
  <2>1. SUFFICES ASSUME NEW i \in 1 .. Len(fired') PROVE fired'[i].seen <= Drained
    BY <1>5
  <2>2. CASE i = last
    BY <1>3, <1>4, <2>2, Measures
  <2>3. CASE i # last
    BY <1>6, <2>3 DEF OrderInv
  <2> QED BY <2>2, <2>3
<1>8. ASSUME NEW k \in it + 1 .. Len(pending) PROVE ~Precedes(pending[k], ev)
  <2>1. k \in 1 .. Len(pending) /\ it < k
    BY <1>2, Measures
  <2>2. ev.beat <= pending[k].beat
    BY <1>1, <1>2, <2>1 DEF SchedulerInv, QueueInv, Phased
  <2>3. ev.beat = pending[k].beat => ev.n < pending[k].n
    BY <1>2, <2>1 DEF OrderInv
  <2>4. /\ ev.beat \in Nat /\ ev.n \in Nat
        /\ pending[k].beat \in Nat /\ pending[k].n \in Nat
    BY <1>2, <2>1, Measures
  <2> HIDE DEF ev
  <2> QED BY <2>2, <2>3, <2>4 DEF Precedes
<1>9. ASSUME NEW i \in 1 .. Len(fired'), NEW k \in it + 1 .. Len(pending),
             Precedes(pending[k], fired'[i].ev)
      PROVE  pending[k].n > fired'[i].seen
  <2>1. CASE i = last
    BY <1>3, <1>4, <1>8, <1>9, <2>1
  <2>2. CASE i # last
    <3>1. k \in it .. Len(pending)
      BY <1>2, Measures
    <3> QED BY <1>6, <1>9, <2>2, <3>1 DEF OrderInv
  <2> QED BY <2>1, <2>2
<1>10. ASSUME NEW i \in 1 .. Len(fired'), NEW j \in 1 .. Len(fired'), i < j,
              Precedes(fired'[j].ev, fired'[i].ev)
       PROVE  fired'[j].ev.n > fired'[i].seen
  <2>1. i # last /\ i \in 1 .. Len(fired) /\ fired'[i] = fired[i]
    BY <1>4, <1>6, <1>10, Measures
  <2>2. CASE j = last
    <3>1. fired'[j].ev = pending[it]
      BY <1>3, <1>4, <2>2
    <3>2. it \in it .. Len(pending)
      <4>1. Len(pending) \in Nat
        BY Measures
      <4> QED BY <1>2, <4>1
    <3> QED BY <1>10, <2>1, <3>1, <3>2 DEF OrderInv
  <2>3. CASE j # last
    BY <1>6, <1>10, <2>1, <2>3 DEF OrderInv
  <2> QED BY <2>2, <2>3
<1> QED BY <1>5, <1>7, <1>9, <1>10 DEF OrderInv

\* What waits keeps its order when the events before it are erased.
LEMMA TickEraseKeepsOrder ==
    ASSUME SchedulerInv, OrderInv, TickErase
    PROVE  OrderInv'
<1>1. /\ it' = 1 /\ pending' = SubSeq(pending, it, Len(pending))
      /\ UNCHANGED <<accepted, staging, fired>>
  BY DEF TickErase
<1>2. pending \in Seq(Numbered(accepted)) /\ it \in 1 .. (Len(pending) + 1) /\ Len(pending) \in Nat
  BY Measures DEF SchedulerInv, QueueInv, QueueType
<1>3. /\ Len(pending') = Len(pending) + 1 - it
      /\ \A i \in 1 .. Len(pending') : pending'[i] = pending[it + i - 1]
  BY <1>1, <1>2, SubSeqProperties
<1>4. it' = 1 /\ Drained' = Drained /\ UNCHANGED <<staging, fired>>
  BY <1>1 DEF Drained
<1>5. \A i \in 1 .. Len(pending') :
         it + i - 1 \in 1 .. Len(pending) /\ it + i - 1 \in it .. Len(pending)
  BY <1>2, <1>3
<1>6. \A i, j \in 1 .. Len(pending') : i < j => it + i - 1 < it + j - 1
  BY <1>2, <1>3
<1>7. \A i \in 1 .. Len(pending') : pending'[i].n <= Drained
  BY <1>3, <1>5 DEF OrderInv
<1>8. \A i, j \in 1 .. Len(pending') :
         i < j /\ pending'[i].beat = pending'[j].beat => pending'[i].n < pending'[j].n
  BY <1>3, <1>5, <1>6, Zenon DEF OrderInv
<1>9. \A i \in 1 .. Len(fired), k \in 1 .. Len(pending') :
         Precedes(pending'[k], fired[i].ev) => pending'[k].n > fired[i].seen
  BY <1>3, <1>5 DEF OrderInv
<1> QED BY <1>4, <1>7, <1>8, <1>9 DEF OrderInv

\* The variables of OrderInv.
orderVars == <<accepted, staging, pending, it, fired>>

\* A step elsewhere leaves the order alone.
LEMMA OrderUnchanged == OrderInv /\ UNCHANGED orderVars => OrderInv'
  BY DEF orderVars, OrderInv, Drained

\* Every step of the control thread, of tick() and of the sender keeps the order.
LEMMA OrderInvariance == Spec => []OrderInv
<1>1. Init => OrderInv
  BY DEF Init, OrderInv, Drained
<1>2. SchedulerInv /\ OrderInv /\ [Next]_vars => OrderInv'
  <2> SUFFICES ASSUME SchedulerInv, OrderInv, [Next]_vars PROVE OrderInv'
    OBVIOUS
  <2>1. ASSUME NEW beat \in Beats, ScheduleNote(beat) PROVE OrderInv'
    <3>1. Event(beat, "clap", messages + 1) \in Staged
      BY <2>1, SchedulerAssumption
         DEF ScheduleNote, SchedulerInv, ControlType, Event, Staged, Kinds, Beats
    <3> QED BY <2>1, <3>1, StageKeepsOrder DEF ScheduleNote
  <2>2. ASSUME NEW anchor \in Beats, NEW events \in Bundles, ScheduleBundle(anchor, events)
        PROVE  OrderInv'
    BY <2>2, OrderUnchanged DEF ScheduleBundle, orderVars, scheduler
  <2>3. CASE StageNext
    <3>1. Head(todo) \in Staged /\ UNCHANGED scheduler
      BY <2>3, HeadTailProperties DEF StageNext, SchedulerInv, ControlType
    <3>2. CASE Head(todo).kind = "skipped"
      BY <2>3, <3>1, <3>2, OrderUnchanged DEF StageNext, orderVars, scheduler
    <3>3. CASE Head(todo).kind # "skipped"
      BY <2>3, <3>1, <3>3, StageKeepsOrder DEF StageNext
    <3> QED BY <3>2, <3>3
  <2>4. CASE (\E beat \in Beats : TickBegin(beat)) \/ SendOsc
    BY <2>4, OrderUnchanged DEF TickBegin, SendOsc, orderVars, scheduler
  <2>5. CASE InTick
    BY <2>5, TickDrainKeepsOrder, TickSortKeepsOrder, TickFireKeepsOrder, TickEraseKeepsOrder
       DEF InTick
  <2>6. CASE UNCHANGED vars
    BY <2>6, OrderUnchanged DEF vars, orderVars, scheduler
  <2> QED BY <2>1, <2>2, <2>3, <2>4, <2>5, <2>6 DEF Next, Control, Tick
<1> QED BY <1>1, <1>2, SchedulerInvariance, PTL DEF Spec

--------------------------------------------------------------------------------
(* The sender thread gets the datagrams in the order they fired. *)

\* q lists, in order, the numbers of the entries of f that were queued.
Lists(q, f) ==
    \E at \in [1 .. Len(q) -> 1 .. Len(f)] :
        /\ \A k, l \in 1 .. Len(q) : k < l => at[k] < at[l]
        /\ \A k \in 1 .. Len(q) : f[at[k]].ev.n = q[k]
        /\ \A i \in 1 .. Len(f) : f[i].route = "queued" <=> \E k \in 1 .. Len(q) : at[k] = i

\* An entry that was not queued adds nothing to the list.
LEMMA ListsOther ==
    ASSUME NEW S, NEW q \in Seq(Nat), NEW f \in Seq(S), NEW x \in S,
           x.route # "queued", Lists(q, f)
    PROVE  Lists(q, Append(f, x))
<1> DEFINE g == Append(f, x)
<1>1. /\ Len(f) \in Nat /\ Len(q) \in Nat /\ Len(g) = Len(f) + 1 /\ g[Len(f) + 1] = x
      /\ \A i \in 1 .. Len(f) : g[i] = f[i]
  OBVIOUS
<1> HIDE DEF g
<1>2. PICK at \in [1 .. Len(q) -> 1 .. Len(f)] :
        /\ \A k, l \in 1 .. Len(q) : k < l => at[k] < at[l]
        /\ \A k \in 1 .. Len(q) : f[at[k]].ev.n = q[k]
        /\ \A i \in 1 .. Len(f) : f[i].route = "queued" <=> \E k \in 1 .. Len(q) : at[k] = i
  BY Zenon DEF Lists
<1>3. at \in [1 .. Len(q) -> 1 .. Len(g)]
  BY <1>1
<1>4. \A k \in 1 .. Len(q) : g[at[k]].ev.n = q[k]
  BY <1>1, <1>2, Zenon
<1>5. ASSUME NEW i \in 1 .. Len(g)
      PROVE  g[i].route = "queued" <=> \E k \in 1 .. Len(q) : at[k] = i
  <2>1. CASE i = Len(f) + 1
    <3>1. ASSUME NEW k \in 1 .. Len(q) PROVE at[k] # i
      <4>1. at[k] \in 1 .. Len(f)
        OBVIOUS
      <4> QED BY <1>1, <2>1, <4>1
    <3> QED BY <1>1, <2>1, <3>1
  <2>2. CASE i # Len(f) + 1
    <3>1. i \in 1 .. Len(f)
      BY <1>1, <2>2
    <3> QED BY <1>1, <1>2, <3>1, Zenon
  <2> QED BY <2>1, <2>2
<1>6. Lists(q, g)
  BY <1>2, <1>3, <1>4, <1>5, Zenon DEF Lists
<1> QED BY <1>6 DEF g

\* A queued entry adds its own number at the end.
LEMMA ListsQueued ==
    ASSUME NEW S, NEW q \in Seq(Nat), NEW f \in Seq(S), NEW x \in S,
           x.route = "queued", x.ev.n \in Nat, Lists(q, f)
    PROVE  Lists(Append(q, x.ev.n), Append(f, x))
<1> DEFINE g == Append(f, x)
           r == Append(q, x.ev.n)
<1>1. /\ Len(f) \in Nat /\ Len(g) = Len(f) + 1 /\ g[Len(f) + 1] = x
      /\ \A i \in 1 .. Len(f) : g[i] = f[i]
  OBVIOUS
<1>2. /\ Len(q) \in Nat /\ Len(r) = Len(q) + 1 /\ r[Len(q) + 1] = x.ev.n
      /\ \A k \in 1 .. Len(q) : r[k] = q[k]
  OBVIOUS
<1> HIDE DEF g, r
<1>3. PICK at \in [1 .. Len(q) -> 1 .. Len(f)] :
        /\ \A k, l \in 1 .. Len(q) : k < l => at[k] < at[l]
        /\ \A k \in 1 .. Len(q) : f[at[k]].ev.n = q[k]
        /\ \A i \in 1 .. Len(f) : f[i].route = "queued" <=> \E k \in 1 .. Len(q) : at[k] = i
  BY Zenon DEF Lists
<1> DEFINE up == [k \in 1 .. Len(r) |-> IF k = Len(q) + 1 THEN Len(f) + 1 ELSE at[k]]
<1>4. /\ up[Len(q) + 1] = Len(f) + 1
      /\ \A k \in 1 .. Len(q) : up[k] = at[k] /\ at[k] \in 1 .. Len(f)
  BY <1>2
<1>5. \A k \in 1 .. Len(r) : k = Len(q) + 1 \/ k \in 1 .. Len(q)
  BY <1>2
<1>6. up \in [1 .. Len(r) -> 1 .. Len(g)]
  BY <1>1, <1>2
<1> HIDE DEF up
<1>7. ASSUME NEW k \in 1 .. Len(r), NEW l \in 1 .. Len(r), k < l PROVE up[k] < up[l]
  <2>1. k \in 1 .. Len(q)
    BY <1>2, <1>7
  <2>2. CASE l = Len(q) + 1
    BY <1>1, <1>4, <2>1, <2>2
  <2>3. CASE l \in 1 .. Len(q)
    BY <1>3, <1>4, <1>7, <2>1, <2>3
  <2> QED BY <1>5, <2>2, <2>3
<1>8. ASSUME NEW k \in 1 .. Len(r) PROVE g[up[k]].ev.n = r[k]
  <2>1. CASE k = Len(q) + 1
    BY <1>1, <1>2, <1>4, <2>1
  <2>2. CASE k \in 1 .. Len(q)
    <3>1. up[k] = at[k] /\ g[at[k]] = f[at[k]]
      BY <1>1, <1>4, <2>2
    <3> QED BY <1>2, <1>3, <2>2, <3>1
  <2> QED BY <1>5, <2>1, <2>2
<1>9. ASSUME NEW i \in 1 .. Len(g)
      PROVE  g[i].route = "queued" <=> \E k \in 1 .. Len(r) : up[k] = i
  <2>1. CASE i = Len(f) + 1
    <3>1. Len(q) + 1 \in 1 .. Len(r)
      BY <1>2
    <3> QED BY <1>1, <1>4, <2>1, <3>1
  <2>2. CASE i # Len(f) + 1
    <3>1. i \in 1 .. Len(f)
      BY <1>1, <2>2
    <3>2. (\E k \in 1 .. Len(q) : at[k] = i) <=> (\E k \in 1 .. Len(r) : up[k] = i)
      <4>1. \A k \in 1 .. Len(q) : k \in 1 .. Len(r)
        BY <1>2
      <4> QED BY <1>4, <1>5, <2>2, <4>1, Zenon
    <3> QED BY <1>1, <1>3, <3>1, <3>2
  <2> QED BY <2>1, <2>2
<1>10. Lists(r, g)
  BY <1>6, <1>7, <1>8, <1>9, Zenon DEF Lists
<1> QED BY <1>10 DEF g, r

\* Handing the oldest datagram over changes neither the datagrams nor their order.
LEMMA MoveHead ==
    ASSUME NEW s \in Seq(Nat), NEW t \in Seq(Nat), t # << >>
    PROVE  Append(s, Head(t)) \o Tail(t) = s \o t
  OBVIOUS

\* A datagram that enters the queue goes behind all that were sent or queued.
LEMMA AppendLast ==
    ASSUME NEW s \in Seq(Nat), NEW t \in Seq(Nat), NEW n \in Nat
    PROVE  s \o Append(t, n) = Append(s \o t, n)
  OBVIOUS

\* Every datagram handed over or still queued is a queued entry of fired.
OscInv == Lists(sent \o oscOut, fired)

\* Only the firing loop adds a datagram, and only the sender takes one.
LEMMA OscInvariance == Spec => []OscInv
<1>1. Init => OscInv
  <2> SUFFICES ASSUME Init PROVE OscInv
    OBVIOUS
  <2>1. fired = << >> /\ sent \o oscOut = << >>
    BY DEF Init
  <2>2. [i \in {} |-> i] \in [1 .. 0 -> 1 .. 0]
    OBVIOUS
  <2> QED BY <2>1, <2>2, Zenon DEF OscInv, Lists
<1>2. SchedulerInv /\ OscInv /\ [Next]_vars => OscInv'
  <2> SUFFICES ASSUME SchedulerInv, OscInv, [Next]_vars PROVE OscInv'
    OBVIOUS
  <2>1. sent \in Seq(Nat) /\ oscOut \in Seq(Nat)
    <3>1. 1 .. accepted \subseteq Nat /\ sent \in Seq(1 .. accepted) /\ oscOut \in Seq(1 .. accepted)
      BY DEF SchedulerInv, QueueInv, QueueType, OscType
    <3>2. sent \in Seq(Nat)
      BY <3>1, SeqMonotonic, Zenon
    <3>3. oscOut \in Seq(Nat)
      BY <3>1, SeqMonotonic, Zenon
    <3> QED BY <3>2, <3>3
  <2>2. CASE SendOsc
    <3>1. sent' \o oscOut' = sent \o oscOut /\ fired' = fired
      BY <2>1, <2>2, MoveHead DEF SendOsc, scheduler
    <3> QED BY <3>1 DEF OscInv
  <2>3. CASE TickFire
    <3> DEFINE ev   == pending[it]
               shot == [ev |-> ev, at |-> now, route |-> Route(ev),
                        seen |-> Len(fired) + Len(pending) - it + 1]
               q    == sent \o oscOut
    <3>1. /\ fired' = Append(fired, shot) /\ sent' = sent
          /\ oscOut' = IF Route(ev) = "queued" THEN Append(oscOut, ev.n) ELSE oscOut
      BY <2>3 DEF TickFire
    <3>2. fired \in Seq(Shot(accepted))
      BY DEF SchedulerInv, QueueInv, QueueType
    <3>3. ev.n \in Nat
      <4>1. it \in 1 .. Len(pending)
        <5>1. it <= Len(pending)
          BY <2>3 DEF TickFire, Due
        <5>2. it \in 1 .. (Len(pending) + 1) /\ Len(pending) \in Nat
          BY Measures
        <5> QED BY <5>1, <5>2
      <4> QED BY <4>1, Measures
    <3>4. shot.route = Route(ev) /\ shot.ev = ev
      OBVIOUS
    <3>5. q \in Seq(Nat) /\ Lists(q, fired)
      BY <2>1 DEF OscInv
    <3> HIDE DEF shot, ev
    <3>6. fired \in Seq(Shot(accepted) \cup {shot}) /\ shot \in Shot(accepted) \cup {shot}
      BY <3>2
    <3> HIDE DEF q
    <3>7. CASE Route(ev) = "queued"
      <4>1. Lists(Append(q, shot.ev.n), Append(fired, shot))
        BY <3>3, <3>4, <3>5, <3>6, <3>7, ListsQueued
      <4>2. sent' \o oscOut' = Append(q, shot.ev.n)
        BY <2>1, <3>1, <3>3, <3>4, <3>7, AppendLast DEF q
      <4> QED BY <3>1, <4>1, <4>2, Zenon DEF OscInv
    <3>8. CASE Route(ev) # "queued"
      <4>1. Lists(q, Append(fired, shot))
        BY <3>4, <3>5, <3>6, <3>8, ListsOther
      <4> QED BY <3>1, <3>8, <4>1 DEF OscInv, q
    <3> QED BY <3>7, <3>8
  <2>4. ASSUME UNCHANGED <<sent, oscOut, fired>> PROVE OscInv'
    <3>1. sent' = sent /\ oscOut' = oscOut /\ fired' = fired
      BY <2>4
    <3> QED BY <3>1 DEF OscInv
  <2>5. CASE Control
    BY <2>4, <2>5 DEF Control, ScheduleNote, ScheduleBundle, StageNext, scheduler
  <2>6. CASE (\E beat \in Beats : TickBegin(beat)) \/ TickDrain \/ TickSort \/ TickErase
    BY <2>4, <2>6 DEF TickBegin, TickDrain, TickSort, TickErase
  <2>7. CASE UNCHANGED vars
    BY <2>4, <2>7 DEF vars, scheduler
  <2> QED BY <2>2, <2>3, <2>5, <2>6, <2>7 DEF Next, Tick, InTick
<1> QED BY <1>1, <1>2, SchedulerInvariance, PTL DEF Spec

(* tick() fires in beat order, and in arrival order within a beat, except for
   what arrived too late for the tick that fired the other; and the sender
   thread gets the datagrams that were queued, in that order, each once.  For
   any queue sizes, any messages and any course of the Link timeline. *)
THEOREM FiresInOrder == Spec => []FiresInBeatOrder
<1>1. SchedulerInv /\ OrderInv /\ OscInv => FiresInBeatOrder
  <2> SUFFICES ASSUME SchedulerInv, OrderInv, OscInv PROVE FiresInBeatOrder
    OBVIOUS
  <2> DEFINE q == sent \o oscOut
  <2>1. fired \in Seq(Shot(accepted)) /\ DOMAIN fired = 1 .. Len(fired)
    BY DEF SchedulerInv, QueueInv, QueueType
  <2>2. \A i, j \in DOMAIN fired :
           i < j /\ Precedes(fired[j].ev, fired[i].ev) => fired[j].ev.n > fired[i].seen
    BY <2>1 DEF OrderInv
  <2>3. DOMAIN q = 1 .. Len(q)
    BY DEF SchedulerInv, OscType
  <2>4. Lists(q, fired)
    BY DEF OscInv
  <2> HIDE DEF q
  <2>5. PICK at \in [1 .. Len(q) -> 1 .. Len(fired)] :
          /\ \A k, l \in 1 .. Len(q) : k < l => at[k] < at[l]
          /\ \A k \in 1 .. Len(q) : fired[at[k]].ev.n = q[k]
          /\ \A i \in 1 .. Len(fired) :
                fired[i].route = "queued" <=> \E k \in 1 .. Len(q) : at[k] = i
    BY <2>4 DEF Lists
  <2>6. at \in [DOMAIN q -> DOMAIN fired] /\ DOMAIN at = 1 .. Len(q)
    BY <2>1, <2>3
  <2>7. {at[k] : k \in DOMAIN at} = {i \in DOMAIN fired : fired[i].route = "queued"}
    BY <2>1, <2>5, <2>6
  <2> QED BY <2>2, <2>5, <2>6, <2>7, Zenon DEF FiresInBeatOrder, q
<1> QED BY <1>1, SchedulerInvariance, OrderInvariance, OscInvariance, PTL
================================================================================

--------------------------- MODULE BlockEventsProofs ---------------------------
(***************************************************************************)
(* Events through the audio block, for every list of input queues, every   *)
(* capacity and any number of blocks: input reaches the plugin once and in *)
(* order, and output leaves in the order it was made.                      *)
(***************************************************************************)
EXTENDS BlockEvents, TLAPS

-----------------------------------------------------------------------------
(* Types                                                                   *)

LEMMA Bounds ==
    /\ QueueBound \in Nat /\ MaxIn \in Nat /\ MaxOut \in Nat /\ BlockSize \in Nat /\ BlockSize > 0
    /\ 1 \in DOMAIN Sources /\ DOMAIN Sources = 1 .. Len(Sources) /\ Len(Sources) \in Nat
    /\ \A i \in DOMAIN Sources : Sources[i] \in Src
<1>1. /\ QueueBound \in Nat /\ MaxIn \in Nat /\ MaxOut \in Nat /\ BlockSize \in Nat \ {0}
      /\ Sources \in Seq(Src) /\ Sources # <<>>
  BY BlockAssumption DEF Src
<1> QED
  BY <1>1

\* TypeOK, in the parts that the steps change.
PlaceType ==
    /\ stage \in {"clear", "drain", "read", "process", "flush", "reset"}
    /\ at \in DOMAIN Sources
QueueType ==
    /\ input \in [Src -> Seq(Nat)] /\ accepted \in [Src -> Seq(Nat)] /\ offered \in [Src -> Nat]
    /\ \A s \in Src : Len(input[s]) <= QueueBound
BufferType ==
    buffer \in Seq(Src \X Nat) /\ seen \in Seq(Src \X Nat) /\ Len(buffer) <= MaxIn
CollectorType ==
    made \in Nat /\ collected \in Seq(Nat) /\ Len(collected) <= MaxOut /\ next \in Nat
MidiType ==
    /\ midi \in Seq(Seq(Nat)) /\ played \in Seq(Nat)
    /\ \A i \in DOMAIN midi : Len(midi[i]) \in 1 .. BlockSize

LEMMA TypeParts == TypeOK <=> PlaceType /\ QueueType /\ BufferType /\ CollectorType /\ MidiType
BY DEF TypeOK, PlaceType, QueueType, BufferType, CollectorType, MidiType

\* What flush_to() packs is a part of what was collected.
LEMMA PartType ==
    ASSUME NEW c \in Seq(Nat), NEW m \in Nat, NEW n \in 0 .. Len(c)
    PROVE  /\ SubSeq(c, m + 1, n) \in Seq(Nat)
           /\ Len(SubSeq(c, m + 1, n)) = IF m <= n THEN n - m ELSE 0
           /\ \A i \in 1 .. Len(SubSeq(c, m + 1, n)) : SubSeq(c, m + 1, n)[i] = c[m + i]
<1>1. \A i \in m + 1 .. n : c[i] \in Nat
  OBVIOUS
<1> QED
  BY <1>1

\* The end of the block that flush_to() fills next.
LEMMA BlockEndBounds ==
    ASSUME CollectorType, next < Len(collected)
    PROVE  /\ BlockEnd \in Nat /\ next < BlockEnd /\ BlockEnd <= Len(collected)
           /\ BlockEnd - next <= BlockSize
<1>1. Len(collected) \in Nat /\ next \in Nat
  BY DEF CollectorType
<1> QED
  BY <1>1, Bounds DEF BlockEnd

\* A part of the state that a step leaves alone keeps its type.
LEMMA TypeSame ==
    /\ UNCHANGED <<stage, at>> /\ PlaceType => PlaceType'
    /\ UNCHANGED <<input, accepted, offered>> /\ QueueType => QueueType'
    /\ UNCHANGED <<buffer, seen>> /\ BufferType => BufferType'
    /\ UNCHANGED <<made, collected, next>> /\ CollectorType => CollectorType'
    /\ UNCHANGED <<midi, played>> /\ MidiType => MidiType'
BY DEF PlaceType, QueueType, BufferType, CollectorType, MidiType

\* Types'.
TypesNext == PlaceType' /\ QueueType' /\ BufferType' /\ CollectorType' /\ MidiType'

LEMMA InputTypes ==
    ASSUME PlaceType, QueueType, BufferType, CollectorType, MidiType,
           (\E s \in Src : Produce(s)) \/ Clear \/ DrainPop \/ DrainEnds \/ PluginReads
    PROVE  TypesNext
<1> USE DEF TypesNext
<1>1. ASSUME NEW s \in Src, Produce(s) PROVE TypesNext
  <2>1. /\ UNCHANGED <<stage, at>> /\ UNCHANGED <<buffer, seen>>
        /\ UNCHANGED <<made, collected, next>> /\ UNCHANGED <<midi, played>>
    BY <1>1 DEF Produce, outVars
  <2>2. offered' \in [Src -> Nat] /\ offered'[s] \in Nat
    BY <1>1 DEF Produce, QueueType
  <2>3. CASE UNCHANGED <<input, accepted>>
    BY <2>1, <2>2, <2>3, TypeSame DEF QueueType
  <2>4. CASE /\ Len(input[s]) < QueueBound
             /\ input' = [input EXCEPT ![s] = Append(@, offered'[s])]
             /\ accepted' = [accepted EXCEPT ![s] = Append(@, offered'[s])]
    <3>1. input[s] \in Seq(Nat) /\ accepted[s] \in Seq(Nat)
      BY DEF QueueType
    <3>2. /\ Append(input[s], offered'[s]) \in Seq(Nat)
          /\ Append(accepted[s], offered'[s]) \in Seq(Nat)
          /\ Len(Append(input[s], offered'[s])) <= QueueBound
      BY <2>2, <2>4, <3>1, Bounds
    <3>3. QueueType'
      BY <2>2, <2>4, <3>2 DEF QueueType
    <3> QED
      BY <2>1, <3>3, TypeSame
  <2> QED
    BY <1>1, <2>3, <2>4 DEF Produce
<1>2. CASE Clear
  <2>1. BufferType'
    BY <1>2, Bounds DEF BufferType, Clear
  <2>2. PlaceType'
    BY <1>2, Bounds DEF PlaceType, Clear
  <2> QED
    BY <1>2, <2>1, <2>2, TypeSame DEF Clear, outVars
<1>3. CASE DrainPop
  <2> DEFINE s == Sources[at]
  <2>1. s \in Src /\ input[s] \in Seq(Nat) /\ input[s] # <<>> /\ Len(input[s]) <= QueueBound
    BY <1>3, Bounds DEF PlaceType, QueueType, DrainPop
  <2>2. /\ Head(input[s]) \in Nat /\ Tail(input[s]) \in Seq(Nat)
        /\ Len(Tail(input[s])) <= QueueBound
    BY <2>1, Bounds
  <2>3. <<s, Head(input[s])>> \in Src \X Nat
    BY <2>1, <2>2
  <2>4. /\ input' = [input EXCEPT ![s] = Tail(input[s])]
        /\ buffer' = Append(buffer, <<s, Head(input[s])>>)
        /\ Len(buffer) < MaxIn
        /\ UNCHANGED <<offered, accepted, seen>>
    BY <1>3 DEF DrainPop, Room
  <2> HIDE DEF s
  <2>5. QueueType'
    BY <2>1, <2>2, <2>4 DEF QueueType
  <2>6. BufferType'
    BY <2>3, <2>4, Bounds DEF BufferType
  <2> QED
    BY <1>3, <2>5, <2>6, TypeSame DEF DrainPop, outVars
<1>4. CASE DrainEnds
  <2>1. PlaceType'
    BY <1>4, Bounds DEF PlaceType, DrainEnds
  <2> QED
    BY <1>4, <2>1, TypeSame DEF DrainEnds, inVars, outVars
<1>5. CASE PluginReads
  <2>1. BufferType'
    BY <1>5 DEF BufferType, PluginReads
  <2>2. PlaceType'
    BY <1>5 DEF PlaceType, PluginReads
  <2> QED
    BY <1>5, <2>1, <2>2, TypeSame DEF PluginReads, outVars
<1> QED
  BY <1>1, <1>2, <1>3, <1>4, <1>5

LEMMA OutputTypes ==
    ASSUME PlaceType, QueueType, BufferType, CollectorType, MidiType,
           \/ \E translated \in BOOLEAN : TryPush(translated)
           \/ FlushBegin \/ FlushBlock \/ FlushEnds \/ Reset \/ MidiPop
    PROVE  TypesNext
<1> USE DEF TypesNext
<1>1. ASSUME NEW translated \in BOOLEAN, TryPush(translated) PROVE TypesNext
  <2>1. CollectorType'
    BY <1>1, Bounds DEF CollectorType, TryPush
  <2> QED
    BY <1>1, <2>1, TypeSame DEF TryPush, inVars
<1>2. CASE FlushBegin
  <2>1. PlaceType' /\ CollectorType'
    BY <1>2 DEF PlaceType, CollectorType, FlushBegin
  <2> QED
    BY <1>2, <2>1, TypeSame DEF FlushBegin, inVars
<1>3. CASE FlushBlock
  <2>1. /\ BlockEnd \in Nat /\ next < BlockEnd /\ BlockEnd <= Len(collected)
        /\ BlockEnd - next <= BlockSize
    BY <1>3, BlockEndBounds DEF FlushBlock
  <2>2. collected \in Seq(Nat) /\ next \in Nat /\ BlockEnd \in 0 .. Len(collected)
    BY <2>1 DEF CollectorType
  <2> DEFINE b == SubSeq(collected, next + 1, BlockEnd)
  <2>3. b \in Seq(Nat) /\ Len(b) = IF next <= BlockEnd THEN BlockEnd - next ELSE 0
    BY <2>2, PartType
  <2>4. Len(b) \in 1 .. BlockSize
    BY <2>1, <2>2, <2>3, Bounds
  <2>5. midi' = midi \/ midi' = Append(midi, b)
    BY <1>3 DEF FlushBlock
  <2> HIDE DEF b
  <2>6. MidiType'
    <3>1. CASE midi' = midi
      BY <1>3, <3>1 DEF MidiType, FlushBlock
    <3>2. CASE midi' = Append(midi, b)
      BY <1>3, <2>3, <2>4, <3>2 DEF MidiType, FlushBlock
    <3> QED
      BY <2>5, <3>1, <3>2
  <2>7. CollectorType'
    BY <1>3, <2>1 DEF CollectorType, FlushBlock
  <2> QED
    BY <1>3, <2>6, <2>7, TypeSame DEF FlushBlock, inVars
<1>4. CASE FlushEnds
  <2>1. PlaceType'
    BY <1>4 DEF PlaceType, FlushEnds
  <2> QED
    BY <1>4, <2>1, TypeSame DEF FlushEnds, inVars, outVars
<1>5. CASE Reset
  <2>1. PlaceType' /\ CollectorType'
    BY <1>5, Bounds DEF PlaceType, CollectorType, Reset
  <2> QED
    BY <1>5, <2>1, TypeSame DEF Reset, inVars
<1>6. CASE MidiPop
  <2>1. midi \in Seq(Seq(Nat)) /\ midi # <<>> /\ midi' = Tail(midi) /\ played' = played \o Head(midi)
    BY <1>6 DEF MidiType, MidiPop
  <2>2. Head(midi) \in Seq(Nat) /\ Tail(midi) \in Seq(Seq(Nat))
    BY <2>1
  <2>3. played' \in Seq(Nat) /\ midi' \in Seq(Seq(Nat))
    BY <2>1, <2>2 DEF MidiType
  <2>4. \A i \in DOMAIN midi' : i + 1 \in DOMAIN midi /\ midi'[i] = midi[i + 1]
    BY <2>1
  <2>5. MidiType'
    BY <2>3, <2>4 DEF MidiType
  <2> QED
    BY <1>6, <2>5, TypeSame DEF MidiPop, inVars
<1> QED
  BY <1>1, <1>2, <1>3, <1>4, <1>5, <1>6

LEMMA TypeStep ==
    ASSUME TypeOK, [Next]_vars
    PROVE  TypeOK'
<1>1. PlaceType /\ QueueType /\ BufferType /\ CollectorType /\ MidiType
  BY TypeParts
<1>2. TypesNext => TypeOK'
  BY DEF TypesNext, TypeOK, PlaceType, QueueType, BufferType, CollectorType, MidiType
<1>3. CASE UNCHANGED vars
  BY <1>1, <1>2, <1>3, TypeSame DEF vars, inVars, outVars, TypesNext
<1> QED
  BY <1>1, <1>2, <1>3, InputTypes, OutputTypes DEF Next, BlockStep

-----------------------------------------------------------------------------
(* Input: one source s, what was taken from all queues (t), what waits in the      *)
(* queue of s (q), what that queue accepted (a) and the last number offered (n).   *)

SourceInv(s, t, q, a, n) ==
    /\ Increasing(a) /\ Increasing(q)
    /\ EventsOf(t, s) \cup ToSet(q) = ToSet(a)
    /\ \A e \in EventsOf(t, s) : \A k \in DOMAIN q : e < q[k]
    /\ \A e \in ToSet(a) : e <= n
    /\ \A i, j \in DOMAIN t : i < j /\ t[i][1] = s /\ t[j][1] = s => t[i][2] < t[j][2]

LEMMA SetOfAppend ==
    ASSUME NEW S, NEW q \in Seq(S), NEW x
    PROVE  ToSet(Append(q, x)) = ToSet(q) \cup {x}
<1>1. /\ DOMAIN Append(q, x) = DOMAIN q \cup {Len(q) + 1}
      /\ \A i \in DOMAIN q : Append(q, x)[i] = q[i]
      /\ Append(q, x)[Len(q) + 1] = x
  OBVIOUS
<1> DEFINE r == Append(q, x)
<1> HIDE DEF r
<1>2. /\ DOMAIN r = DOMAIN q \cup {Len(q) + 1} /\ (\A i \in DOMAIN q : r[i] = q[i])
      /\ r[Len(q) + 1] = x
  BY <1>1 DEF r
<1>3. ToSet(r) = ToSet(q) \cup {x}
  BY <1>2 DEF ToSet
<1> QED
  BY <1>3 DEF r

LEMMA SetOfTail ==
    ASSUME NEW S, NEW q \in Seq(S), q # <<>>
    PROVE  ToSet(q) = {Head(q)} \cup ToSet(Tail(q))
<1>1. /\ \A i \in DOMAIN q : i = 1 \/ (i - 1 \in DOMAIN Tail(q) /\ q[i] = Tail(q)[i - 1])
      /\ \A i \in DOMAIN Tail(q) : i + 1 \in DOMAIN q /\ Tail(q)[i] = q[i + 1]
      /\ 1 \in DOMAIN q /\ Head(q) = q[1]
  OBVIOUS
<1>2. ASSUME NEW x \in ToSet(q) PROVE x \in {Head(q)} \cup ToSet(Tail(q))
  <2>1. PICK i \in DOMAIN q : x = q[i]
    BY DEF ToSet
  <2> QED
    BY <1>1, <2>1, Zenon DEF ToSet
<1>3. ASSUME NEW x \in {Head(q)} \cup ToSet(Tail(q)) PROVE x \in ToSet(q)
  <2>1. CASE x = Head(q)
    BY <1>1, <2>1, Zenon DEF ToSet
  <2>2. CASE x \in ToSet(Tail(q))
    <3>1. PICK i \in DOMAIN Tail(q) : x = Tail(q)[i]
      BY <2>2 DEF ToSet
    <3> QED
      BY <1>1, <3>1, Zenon DEF ToSet
  <2> QED
    BY <1>3, <2>1, <2>2
<1> QED
  BY <1>2, <1>3, Zenon

LEMMA EventsOfAppend ==
    ASSUME NEW t \in Seq(Src \X Nat), NEW r \in Src, NEW e \in Nat, NEW s
    PROVE  \A x : x \in EventsOf(Append(t, <<r, e>>), s) <=> x \in EventsOf(t, s) \/ (r = s /\ x = e)
<1> DEFINE u == Append(t, <<r, e>>)
           l == Len(t) + 1
<1>1. /\ DOMAIN u = DOMAIN t \cup {l} /\ l \notin DOMAIN t
      /\ \A i \in DOMAIN t : u[i] = t[i]
      /\ u[l] = <<r, e>>
  OBVIOUS
<1>2. u[l][1] = r /\ u[l][2] = e
  BY <1>1
<1> HIDE DEF u, l
<1>3. ASSUME NEW x PROVE x \in EventsOf(u, s) <=> x \in EventsOf(t, s) \/ (r = s /\ x = e)
  <2>1. /\ x \in EventsOf(u, s) <=> \E i \in DOMAIN u : u[i][1] = s /\ x = u[i][2]
        /\ x \in EventsOf(t, s) <=> \E i \in DOMAIN t : t[i][1] = s /\ x = t[i][2]
    BY Zenon DEF EventsOf
  <2>2. (\E i \in DOMAIN u : u[i][1] = s /\ x = u[i][2])
            <=> (\E i \in DOMAIN t : u[i][1] = s /\ x = u[i][2]) \/ (u[l][1] = s /\ x = u[l][2])
    BY <1>1
  <2>3. (\E i \in DOMAIN t : u[i][1] = s /\ x = u[i][2])
            <=> (\E i \in DOMAIN t : t[i][1] = s /\ x = t[i][2])
    BY <1>1
  <2> QED
    BY <1>2, <2>1, <2>2, <2>3
<1> QED
  BY <1>3, Zenon DEF u

LEMMA PushKeeps ==
    ASSUME NEW s, NEW t \in Seq(Src \X Nat), NEW q \in Seq(Nat), NEW a \in Seq(Nat), NEW n \in Nat,
           SourceInv(s, t, q, a, n)
    PROVE  /\ SourceInv(s, t, q, a, n + 1)
           /\ SourceInv(s, t, Append(q, n + 1), Append(a, n + 1), n + 1)
<1> DEFINE m == n + 1
           q2 == Append(q, m)
           a2 == Append(a, m)
<1>1. m \in Nat /\ (\A x \in Nat : x <= n => x < m)
  OBVIOUS
<1>2. ToSet(q2) = ToSet(q) \cup {m} /\ ToSet(a2) = ToSet(a) \cup {m}
  BY SetOfAppend, <1>1
<1>3. ToSet(a) \subseteq Nat /\ EventsOf(t, s) \subseteq ToSet(a) /\ ToSet(q) \subseteq ToSet(a)
  <2>1. ToSet(a) \subseteq Nat
    BY DEF ToSet
  <2> QED
    BY <2>1 DEF SourceInv
<1>4. \A e \in ToSet(a) : e <= n /\ e < m
  BY <1>1, <1>3 DEF SourceInv
<1>5. (\A i \in DOMAIN a : a[i] < m) /\ (\A i \in DOMAIN q : q[i] < m)
  <2>1. \A i \in DOMAIN a : a[i] \in ToSet(a)
    BY DEF ToSet
  <2>2. \A i \in DOMAIN q : q[i] \in ToSet(a)
    BY <1>3, Zenon DEF ToSet
  <2> QED
    BY <1>4, <2>1, <2>2
<1>6. SourceInv(s, t, q, a, m)
  <2>1. \A e \in ToSet(a) : e <= m
    BY <1>1, <1>3, <1>4
  <2> QED
    BY <2>1 DEF SourceInv
<1>7. Increasing(a2) /\ Increasing(q2)
  <2>1. Increasing(a2)
    BY <1>1, <1>5 DEF Increasing, SourceInv
  <2>2. Increasing(q2)
    BY <1>1, <1>5 DEF Increasing, SourceInv
  <2> QED
    BY <2>1, <2>2
<1>8. EventsOf(t, s) \cup ToSet(q2) = ToSet(a2)
  <2>1. EventsOf(t, s) \cup ToSet(q) = ToSet(a)
    BY DEF SourceInv
  <2> HIDE DEF q2, a2, m
  <2> QED
    BY <1>2, <2>1
<1>9. \A e \in EventsOf(t, s) : \A k \in DOMAIN q2 : e < q2[k]
  <2>1. \A k \in DOMAIN q2 : (k \in DOMAIN q /\ q2[k] = q[k]) \/ q2[k] = m
    OBVIOUS
  <2>2. \A e \in EventsOf(t, s) : e < m
    BY <1>3, <1>4
  <2> HIDE DEF q2, m
  <2> QED
    BY <2>1, <2>2, Zenon DEF SourceInv
<1>10. \A e \in ToSet(a2) : e <= m
  <2>1. m <= m
    BY <1>1
  <2>2. \A e \in ToSet(a) : e <= m
    BY <1>6 DEF SourceInv
  <2> HIDE DEF m, a2
  <2> QED
    BY <1>2, <2>1, <2>2
<1> HIDE DEF m, q2, a2
<1>11. SourceInv(s, t, q2, a2, m)
  BY <1>6, <1>7, <1>8, <1>9, <1>10 DEF SourceInv
<1> QED
  BY <1>6, <1>11 DEF m, q2, a2

LEMMA PopKeeps ==
    ASSUME NEW s \in Src, NEW t \in Seq(Src \X Nat), NEW q \in Seq(Nat), q # <<>>, NEW a, NEW n,
           SourceInv(s, t, q, a, n)
    PROVE  SourceInv(s, Append(t, <<s, Head(q)>>), Tail(q), a, n)
<1> DEFINE h == Head(q)
           l == Len(t) + 1
           u == Append(t, <<s, h>>)
           r == Tail(q)
<1>1. /\ h \in Nat /\ r \in Seq(Nat) /\ 1 \in DOMAIN q /\ h = q[1]
      /\ \A k \in DOMAIN r : k \in Nat /\ k + 1 \in DOMAIN q /\ r[k] = q[k + 1] /\ 1 < k + 1
  OBVIOUS
<1>2. /\ DOMAIN u = DOMAIN t \cup {l} /\ (\A i \in DOMAIN t : u[i] = t[i] /\ i < l /\ ~(l < i))
      /\ ~(l < l) /\ u[l][1] = s /\ u[l][2] = h
  OBVIOUS
<1>3. EventsOf(u, s) = EventsOf(t, s) \cup {h}
  <2>1. \A x : x \in EventsOf(u, s) <=> x \in EventsOf(t, s) \/ (s = s /\ x = h)
    <3>1. h \in Nat
      BY <1>1
    <3> HIDE DEF h
    <3> QED
      BY <3>1, EventsOfAppend, Zenon
  <2> HIDE DEF u, h
  <2> QED
    BY <2>1
<1>4. ToSet(q) = {h} \cup ToSet(r)
  BY SetOfTail
<1> HIDE DEF u, r, h, l
<1>5. Increasing(r)
  BY <1>1 DEF Increasing, SourceInv
<1>6. EventsOf(u, s) \cup ToSet(r) = ToSet(a)
  <2>1. EventsOf(t, s) \cup ToSet(q) = ToSet(a)
    BY DEF SourceInv
  <2> QED
    BY <1>3, <1>4, <2>1
<1>7. \A e \in EventsOf(u, s) : \A k \in DOMAIN r : e < r[k]
  <2>1. \A k \in DOMAIN r : h < r[k]
    BY <1>1 DEF Increasing, SourceInv
  <2>2. \A e \in EventsOf(t, s) : \A k \in DOMAIN r : e < r[k]
    BY <1>1 DEF SourceInv
  <2> QED
    BY <1>3, <2>1, <2>2
<1>8. \A i, j \in DOMAIN u : i < j /\ u[i][1] = s /\ u[j][1] = s => u[i][2] < u[j][2]
  <2>1. \A i \in DOMAIN t : t[i][1] = s => t[i][2] < h
    <3>1. \A e \in EventsOf(t, s) : e < h
      BY <1>1 DEF SourceInv
    <3> QED
      BY <3>1, Zenon DEF EventsOf
  <2>2. \A i, j \in DOMAIN t : i < j /\ t[i][1] = s /\ t[j][1] = s => t[i][2] < t[j][2]
    BY DEF SourceInv
  <2> QED
    BY <1>2, <2>1, <2>2, Zenon
<1> QED
  BY <1>5, <1>6, <1>7, <1>8, Zenon DEF SourceInv, u, r, h

LEMMA OthersKeep ==
    ASSUME NEW s, NEW r \in Src, r # s, NEW t \in Seq(Src \X Nat), NEW e \in Nat, NEW q, NEW a, NEW n,
           SourceInv(s, t, q, a, n)
    PROVE  SourceInv(s, Append(t, <<r, e>>), q, a, n)
<1> DEFINE u == Append(t, <<r, e>>)
           l == Len(t) + 1
<1>1. /\ DOMAIN u = DOMAIN t \cup {l} /\ (\A i \in DOMAIN t : u[i] = t[i])
      /\ u[l][1] # s
  OBVIOUS
<1>2. EventsOf(u, s) = EventsOf(t, s)
  <2>1. \A x : x \in EventsOf(u, s) <=> x \in EventsOf(t, s) \/ (r = s /\ x = e)
    BY EventsOfAppend, Zenon
  <2> HIDE DEF u
  <2> QED
    BY <2>1, Zenon
<1> HIDE DEF u, l
<1>3. \A i, j \in DOMAIN u : i < j /\ u[i][1] = s /\ u[j][1] = s => u[i][2] < u[j][2]
  BY <1>1, Zenon DEF SourceInv
<1> QED
  BY <1>2, <1>3 DEF SourceInv, u

InputInv == \A s \in Src : SourceInv(s, Taken, input[s], accepted[s], offered[s])

LEMMA TakenType == PlaceType /\ BufferType => Taken \in Seq(Src \X Nat)
BY DEF BufferType, Taken, Unread

\* Only drain() takes events; the plugin's reading them and the end of the block
\* change nothing in what was taken.
LEMMA TakenStep ==
    ASSUME BufferType
    PROVE  /\ (\E s \in Src : Produce(s)) \/ Clear \/ DrainEnds \/ PluginReads
               \/ (\E translated \in BOOLEAN : TryPush(translated))
               \/ FlushBegin \/ FlushBlock \/ FlushEnds \/ Reset \/ MidiPop \/ UNCHANGED vars
              => Taken' = Taken
           /\ DrainPop => Taken' = Append(Taken, <<Sources[at], Head(input[Sources[at]])>>)
<1>1. seen \in Seq(Src \X Nat) /\ buffer \in Seq(Src \X Nat) /\ <<>> \in Seq(Src \X Nat)
  BY DEF BufferType
<1>2. UNCHANGED <<stage, buffer, seen>> => Taken' = Taken
  BY DEF Taken, Unread
<1>3. (\E s \in Src : Produce(s)) \/ (\E translated \in BOOLEAN : TryPush(translated))
         \/ FlushBlock \/ MidiPop \/ UNCHANGED vars => UNCHANGED <<stage, buffer, seen>>
  BY Zenon DEF Produce, TryPush, FlushBlock, MidiPop, vars, inVars, outVars
<1>4. Clear => Taken' = Taken
  BY Zenon DEF Clear, Taken, Unread
<1>5. DrainEnds => Taken' = Taken
  BY DEF DrainEnds, inVars, Taken, Unread
<1>6. FlushBegin \/ FlushEnds \/ Reset => Taken' = Taken
  BY DEF FlushBegin, FlushEnds, Reset, inVars, Taken, Unread
<1>7. PluginReads => Taken' = Taken
  <2>1. (seen \o buffer) \o <<>> = seen \o buffer
    BY <1>1
  <2> QED
    BY <2>1 DEF PluginReads, Taken, Unread
<1>8. DrainPop => Taken' = Append(Taken, <<Sources[at], Head(input[Sources[at]])>>)
  <2> SUFFICES ASSUME DrainPop
               PROVE  Taken' = Append(Taken, <<Sources[at], Head(input[Sources[at]])>>)
    OBVIOUS
  <2> DEFINE x == <<Sources[at], Head(input[Sources[at]])>>
  <2>1. stage = "drain" /\ stage' = stage /\ seen' = seen /\ buffer' = Append(buffer, x)
    BY DEF DrainPop
  <2> HIDE DEF x
  <2>2. Taken = seen \o buffer /\ Taken' = seen \o Append(buffer, x)
    BY <2>1 DEF Taken, Unread
  <2>3. seen \o Append(buffer, x) = Append(seen \o buffer, x)
    BY <1>1
  <2> QED
    BY <2>2, <2>3 DEF x
<1> QED
  BY <1>2, <1>3, <1>4, <1>5, <1>6, <1>7, <1>8, Zenon

LEMMA InputStep ==
    ASSUME TypeOK, InputInv, [Next]_vars
    PROVE  InputInv'
<1>1. PlaceType /\ QueueType /\ BufferType /\ Taken \in Seq(Src \X Nat)
  BY TypeParts, TakenType
<1>2. ASSUME Taken' = Taken, UNCHANGED <<input, accepted, offered>> PROVE InputInv'
  BY <1>2 DEF InputInv
<1>3. ASSUME NEW s \in Src, Produce(s) PROVE InputInv'
  <2> DEFINE n == offered[s]
  <2>1. n \in Nat /\ input[s] \in Seq(Nat) /\ accepted[s] \in Seq(Nat)
    BY <1>1 DEF QueueType
  <2>2. Taken' = Taken /\ offered' = [offered EXCEPT ![s] = n + 1]
    BY <1>1, <1>3, TakenStep, Zenon DEF Produce
  <2>3. /\ SourceInv(s, Taken, input[s], accepted[s], n + 1)
        /\ SourceInv(s, Taken, Append(input[s], n + 1), Append(accepted[s], n + 1), n + 1)
    BY <1>1, <2>1, PushKeeps, Zenon DEF InputInv
  <2>4. offered'[s] = n + 1 /\ \A r \in Src \ {s} : offered'[r] = offered[r]
    BY <1>1, <2>2 DEF QueueType
  <2>5. CASE UNCHANGED <<input, accepted>>
    <3>1. ASSUME NEW r \in Src PROVE SourceInv(r, Taken, input[r], accepted[r], offered[r])'
      <4> HIDE DEF n
      <4>1. input' = input /\ accepted' = accepted
        BY <2>5
      <4>2. CASE r = s
        BY <2>2, <2>3, <2>4, <4>1, <4>2
      <4>3. CASE r # s
        BY <2>2, <2>4, <4>1, <4>3 DEF InputInv
      <4> QED
        BY <4>2, <4>3
    <3> QED
      BY <3>1 DEF InputInv
  <2>6. CASE /\ input' = [input EXCEPT ![s] = Append(@, offered'[s])]
             /\ accepted' = [accepted EXCEPT ![s] = Append(@, offered'[s])]
    <3>1. /\ input'[s] = Append(input[s], n + 1) /\ accepted'[s] = Append(accepted[s], n + 1)
          /\ \A r \in Src \ {s} : input'[r] = input[r] /\ accepted'[r] = accepted[r]
      BY <1>1, <2>4, <2>6 DEF QueueType
    <3>2. ASSUME NEW r \in Src PROVE SourceInv(r, Taken, input[r], accepted[r], offered[r])'
      <4> HIDE DEF n
      <4>1. CASE r = s
        BY <2>2, <2>3, <2>4, <3>1, <4>1, Zenon
      <4>2. CASE r # s
        BY <2>2, <2>4, <3>1, <4>2 DEF InputInv
      <4> QED
        BY <4>1, <4>2
    <3> QED
      BY <3>2 DEF InputInv
  <2> QED
    BY <1>3, <2>5, <2>6 DEF Produce
<1>4. CASE DrainPop
  <2> DEFINE s == Sources[at]
  <2>1. s \in Src /\ input[s] \in Seq(Nat) /\ input[s] # <<>> /\ Head(input[s]) \in Nat
    BY <1>1, <1>4, Bounds DEF PlaceType, QueueType, DrainPop
  <2>2. Taken' = Append(Taken, <<s, Head(input[s])>>)
    BY <1>1, <1>4, TakenStep
  <2>3. /\ input'[s] = Tail(input[s]) /\ accepted' = accepted /\ offered' = offered
        /\ \A r \in Src \ {s} : input'[r] = input[r]
    BY <1>1, <1>4, <2>1 DEF QueueType, DrainPop
  <2> HIDE DEF s
  <2>4. ASSUME NEW r \in Src PROVE SourceInv(r, Taken, input[r], accepted[r], offered[r])'
    <3>1. SourceInv(r, Taken, input[r], accepted[r], offered[r])
      BY DEF InputInv
    <3>2. CASE r = s
      <4>1. SourceInv(s, Append(Taken, <<s, Head(input[s])>>), Tail(input[s]), accepted[s], offered[s])
        BY <1>1, <2>1, <3>1, <3>2, PopKeeps, Zenon
      <4> QED
        BY <2>2, <2>3, <3>2, <4>1
    <3>3. CASE r # s
      <4>1. SourceInv(r, Append(Taken, <<s, Head(input[s])>>), input[r], accepted[r], offered[r])
        BY <1>1, <2>1, <3>1, <3>3, OthersKeep
      <4> QED
        BY <2>2, <2>3, <3>3, <4>1
    <3> QED
      BY <3>2, <3>3
  <2> QED
    BY <2>4 DEF InputInv
<1>5. CASE \/ Clear \/ DrainEnds \/ PluginReads
           \/ \E translated \in BOOLEAN : TryPush(translated)
           \/ FlushBegin \/ FlushBlock \/ FlushEnds \/ Reset \/ MidiPop \/ UNCHANGED vars
  <2>1. Taken' = Taken
    BY <1>1, <1>5, TakenStep, Zenon
  <2>2. UNCHANGED <<input, accepted, offered>>
    BY <1>5, Zenon DEF Clear, DrainEnds, PluginReads, TryPush, FlushBegin, FlushBlock, FlushEnds,
                       Reset, MidiPop, vars, inVars
  <2> QED
    BY <1>2, <2>1, <2>2
<1> QED
  BY <1>3, <1>4, <1>5, Zenon DEF Next, BlockStep

-----------------------------------------------------------------------------
(* Output: what was played (p), the blocks that wait (m), what is still to be      *)
(* packed (u) and the last number made (n).                                        *)

Below(q, r) == \A i \in DOMAIN q : \A j \in DOMAIN r : q[i] < r[j]

UpTo(q, n) == \A i \in DOMAIN q : q[i] <= n

Ordered(p, m, u, n) ==
    /\ Increasing(p) /\ Increasing(u) /\ Below(p, u) /\ UpTo(p, n) /\ UpTo(u, n)
    /\ \A a \in DOMAIN m : Increasing(m[a]) /\ Below(p, m[a]) /\ Below(m[a], u) /\ UpTo(m[a], n)
    /\ \A a, b \in DOMAIN m : a < b => Below(m[a], m[b])

\* Where the pieces are.
LEMMA PiecesAt ==
    ASSUME NEW p \in Seq(Nat), NEW m \in Seq(Seq(Nat)), NEW u \in Seq(Nat), NEW o, o = <<p>> \o m \o <<u>>
    PROVE  /\ DOMAIN o = 1 .. Len(m) + 2 /\ o[1] = p /\ o[Len(m) + 2] = u
           /\ \A a \in DOMAIN m : o[a + 1] = m[a]
<1>1. /\ Len(<<p>> \o m) = Len(m) + 1 /\ (<<p>> \o m)[1] = p
      /\ \A a \in DOMAIN m : (<<p>> \o m)[a + 1] = m[a]
      /\ <<p>> \o m \in Seq(Seq(Nat)) /\ Len(m) \in Nat
  OBVIOUS
<1> QED
  BY <1>1

\* The property and the bound, in terms of the pieces.
LEMMA PiecesOrdered ==
    ASSUME NEW p \in Seq(Nat), NEW m \in Seq(Seq(Nat)), NEW u \in Seq(Nat), NEW n \in Nat, NEW o,
           DOMAIN o = 1 .. Len(m) + 2, o[1] = p, o[Len(m) + 2] = u,
           \A a \in DOMAIN m : o[a + 1] = m[a]
    PROVE  IncreasingThrough(o) /\ (\A a \in DOMAIN o : \A i \in DOMAIN o[a] : o[a][i] <= n)
             <=> Ordered(p, m, u, n)
<1> DEFINE l == Len(m) + 2
<1>1. /\ DOMAIN o = 1 .. l /\ o[1] = p /\ o[l] = u /\ DOMAIN m = 1 .. Len(m) /\ Len(m) \in Nat
      /\ \A a \in DOMAIN m : o[a + 1] = m[a]
  OBVIOUS
<1>2. /\ 1 \in DOMAIN o /\ l \in DOMAIN o /\ 1 < l
      /\ \A a \in DOMAIN m : a + 1 \in DOMAIN o /\ 1 < a + 1 /\ a + 1 < l
      /\ \A a, b \in DOMAIN m : a < b => a + 1 < b + 1
  BY <1>1
<1>3. \A c \in DOMAIN o : c = 1 \/ c = l \/ \E a \in DOMAIN m : c = a + 1
  <2>1. ASSUME NEW c \in DOMAIN o, c # 1, c # l PROVE c - 1 \in DOMAIN m /\ c = (c - 1) + 1
    BY <1>1, <2>1
  <2> QED
    BY <2>1
<1>4. IncreasingThrough(o) <=> /\ \A c \in DOMAIN o : Increasing(o[c])
                               /\ \A c, d \in DOMAIN o : c < d => Below(o[c], o[d])
  <2>1. \A c \in DOMAIN o : ~(c < c)
    BY <1>1
  <2> HIDE DEF l
  <2> QED
    BY <2>1, Zenon DEF IncreasingThrough, Increasing, Below
<1>5. (\A a \in DOMAIN o : \A i \in DOMAIN o[a] : o[a][i] <= n) <=> \A c \in DOMAIN o : UpTo(o[c], n)
  BY DEF UpTo
<1>6. ASSUME /\ \A c \in DOMAIN o : Increasing(o[c]) /\ UpTo(o[c], n)
             /\ \A c, d \in DOMAIN o : c < d => Below(o[c], o[d])
      PROVE  Ordered(p, m, u, n)
  <2> HIDE DEF l
  <2>1. /\ Increasing(p) /\ Increasing(u) /\ Below(p, u) /\ UpTo(p, n) /\ UpTo(u, n)
    BY <1>1, <1>2, <1>6
  <2>2. \A a \in DOMAIN m : Increasing(m[a]) /\ Below(p, m[a]) /\ Below(m[a], u) /\ UpTo(m[a], n)
    BY <1>1, <1>2, <1>6, Zenon
  <2>3. \A a, b \in DOMAIN m : a < b => Below(m[a], m[b])
    BY <1>1, <1>2, <1>6
  <2> QED
    BY <2>1, <2>2, <2>3 DEF Ordered
<1>7. ASSUME Ordered(p, m, u, n)
      PROVE  /\ \A c \in DOMAIN o : Increasing(o[c]) /\ UpTo(o[c], n)
             /\ \A c, d \in DOMAIN o : c < d => Below(o[c], o[d])
  <2>1. \A c \in DOMAIN o : Increasing(o[c]) /\ UpTo(o[c], n)
    BY <1>1, <1>3, <1>7, Zenon DEF Ordered
  <2>2. ASSUME NEW c \in DOMAIN o, NEW d \in DOMAIN o, c < d PROVE Below(o[c], o[d])
    <3>1. CASE c = 1
      <4>1. d # 1
        BY <2>2, <3>1
      <4> HIDE DEF l
      <4> QED
        BY <1>1, <1>3, <1>7, <3>1, <4>1, Zenon DEF Ordered
    <3>2. CASE d = l
      <4>1. c # l
        BY <1>1, <2>2, <3>2
      <4> HIDE DEF l
      <4> QED
        BY <1>1, <1>3, <1>7, <3>2, <4>1, Zenon DEF Ordered
    <3>3. CASE c # 1 /\ d # l
      <4>1. c # l /\ d # 1 /\ c \in Nat /\ d \in Nat
        BY <1>1, <2>2
      <4>2. PICK a \in DOMAIN m : c = a + 1
        BY <1>3, <3>3, <4>1
      <4>3. PICK b \in DOMAIN m : d = b + 1
        BY <1>3, <3>3, <4>1
      <4>4. a < b
        BY <1>1, <2>2, <4>2, <4>3
      <4> QED
        BY <1>1, <1>7, <4>2, <4>3, <4>4, Zenon DEF Ordered
    <3> QED
      BY <3>1, <3>2, <3>3
  <2> QED
    BY <2>1, <2>2
<1> QED
  BY <1>4, <1>5, <1>6, <1>7, Zenon

\* try_push() collects the next number.
LEMMA CollectKeeps ==
    ASSUME NEW p \in Seq(Nat), NEW m \in Seq(Seq(Nat)), NEW u \in Seq(Nat), NEW n \in Nat,
           Ordered(p, m, u, n)
    PROVE  Ordered(p, m, u, n + 1) /\ Ordered(p, m, Append(u, n + 1), n + 1)
<1> DEFINE v == Append(u, n + 1)
<1>1. ASSUME NEW q \in Seq(Nat), UpTo(q, n) PROVE UpTo(q, n + 1) /\ (Below(q, u) => Below(q, v))
  <2>1. \A i \in DOMAIN q : q[i] \in Nat /\ q[i] <= n
    BY <1>1 DEF UpTo
  <2>2. \A i \in DOMAIN q : q[i] <= n + 1 /\ q[i] < n + 1
    BY <2>1
  <2>3. \A j \in DOMAIN v : (j \in DOMAIN u /\ v[j] = u[j]) \/ v[j] = n + 1
    OBVIOUS
  <2> HIDE DEF v
  <2> QED
    BY <2>2, <2>3, Zenon DEF UpTo, Below
<1>2. Increasing(v) /\ UpTo(v, n + 1)
  <2>1. \A i \in DOMAIN u : u[i] \in Nat /\ u[i] <= n
    BY DEF Ordered, UpTo
  <2>2. Increasing(v)
    BY <2>1 DEF Ordered, Increasing
  <2>3. UpTo(v, n + 1)
    BY <2>1 DEF UpTo
  <2> QED
    BY <2>2, <2>3
<1>3. \A a \in DOMAIN m : m[a] \in Seq(Nat)
  OBVIOUS
<1> HIDE DEF v
<1>4. Ordered(p, m, u, n + 1) /\ Ordered(p, m, v, n + 1)
  BY <1>1, <1>2, <1>3, Zenon DEF Ordered
<1> QED
  BY <1>4 DEF v

\* flush_to() takes a block b off the front of what is to be packed.
LEMMA PackKeeps ==
    ASSUME NEW p \in Seq(Nat), NEW m \in Seq(Seq(Nat)), NEW u \in Seq(Nat), NEW n \in Nat,
           NEW b \in Seq(Nat), NEW v \in Seq(Nat),
           \A i \in DOMAIN b : i \in DOMAIN u /\ b[i] = u[i],
           \A j \in DOMAIN v : Len(b) + j \in DOMAIN u /\ v[j] = u[Len(b) + j],
           Ordered(p, m, u, n)
    PROVE  Ordered(p, m, v, n) /\ Ordered(p, Append(m, b), v, n)
<1>1. Increasing(u) /\ UpTo(u, n)
  BY DEF Ordered
<1>2. Increasing(b) /\ UpTo(b, n)
  BY <1>1 DEF Increasing, UpTo
<1>3. Increasing(v) /\ UpTo(v, n)
  <2>1. UpTo(v, n)
    BY <1>1 DEF UpTo
  <2>2. \A i, j \in DOMAIN v : i < j => Len(b) + i < Len(b) + j
    OBVIOUS
  <2>3. Increasing(v)
    BY <1>1, <2>2, Zenon DEF Increasing
  <2> QED
    BY <2>1, <2>3
<1>4. Below(b, v)
  <2>1. \A i \in DOMAIN b : \A j \in DOMAIN v : i < Len(b) + j
    OBVIOUS
  <2> QED
    BY <1>1, <2>1, Zenon DEF Increasing, Below
<1>5. ASSUME NEW q, Below(q, u) PROVE Below(q, b) /\ Below(q, v)
  BY <1>5, Zenon DEF Below
<1>6. Ordered(p, m, v, n)
  BY <1>3, <1>5, Zenon DEF Ordered
<1>7. Ordered(p, Append(m, b), v, n)
  <2> DEFINE k == Append(m, b)
             l == Len(m) + 1
  <2>1. /\ DOMAIN k = DOMAIN m \cup {l} /\ k[l] = b /\ ~(l < l)
        /\ \A a \in DOMAIN m : k[a] = m[a] /\ ~(l < a)
    OBVIOUS
  <2> HIDE DEF k, l
  <2>2. \A a \in DOMAIN k : Increasing(k[a]) /\ Below(p, k[a]) /\ Below(k[a], v) /\ UpTo(k[a], n)
    <3>1. Below(p, b)
      BY <1>5 DEF Ordered
    <3> QED
      BY <1>2, <1>4, <1>6, <2>1, <3>1, Zenon DEF Ordered
  <2>3. ASSUME NEW a \in DOMAIN k, NEW c \in DOMAIN k, a < c PROVE Below(k[a], k[c])
    <3>1. a \in DOMAIN m /\ k[a] = m[a] /\ Below(m[a], u)
      BY <2>1, <2>3, Zenon DEF Ordered
    <3>2. CASE c = l
      BY <1>5, <2>1, <3>1, <3>2
    <3>3. CASE c # l
      BY <2>1, <2>3, <3>1, <3>3, Zenon DEF Ordered
    <3> QED
      BY <3>2, <3>3
  <2>4. Ordered(p, k, v, n)
    BY <1>6, <2>2, <2>3, Zenon DEF Ordered
  <2> QED
    BY <2>4 DEF k
<1> QED
  BY <1>6, <1>7

\* The MIDI thread plays the first block.
LEMMA PlayKeeps ==
    ASSUME NEW p \in Seq(Nat), NEW m \in Seq(Seq(Nat)), m # <<>>, NEW u, NEW n, Ordered(p, m, u, n)
    PROVE  Ordered(p \o Head(m), Tail(m), u, n)
<1> DEFINE h == Head(m)
           t == Tail(m)
           r == p \o h
<1>1. /\ h \in Seq(Nat) /\ 1 \in DOMAIN m /\ h = m[1] /\ DOMAIN t = 1 .. Len(m) - 1
      /\ \A a \in DOMAIN t : a \in Nat /\ a + 1 \in DOMAIN m /\ t[a] = m[a + 1] /\ 1 < a + 1
      /\ \A a, b \in DOMAIN t : a < b => a + 1 < b + 1
  OBVIOUS
<1> HIDE DEF h, t
<1>2. /\ \A i \in DOMAIN r : (i \in DOMAIN p /\ r[i] = p[i])
                              \/ (i - Len(p) \in DOMAIN h /\ i \notin DOMAIN p /\ r[i] = h[i - Len(p)])
      /\ DOMAIN r \subseteq Nat /\ DOMAIN p = 1 .. Len(p) /\ Len(p) \in Nat
  BY <1>1
<1> HIDE DEF r
<1>3. Increasing(p) /\ Increasing(h) /\ Below(p, h) /\ UpTo(p, n) /\ UpTo(h, n) /\ Below(h, u) /\ Below(p, u)
  BY <1>1 DEF Ordered
<1>4. \A q : Below(p, q) /\ Below(h, q) => Below(r, q)
  BY <1>2, Zenon DEF Below
<1>5. UpTo(r, n)
  BY <1>2, <1>3, Zenon DEF UpTo
<1>6. Increasing(r)
  <2> SUFFICES ASSUME NEW i \in DOMAIN r, NEW j \in DOMAIN r, i < j PROVE r[i] < r[j]
    BY DEF Increasing
  <2>1. CASE i \in DOMAIN p /\ j \in DOMAIN p
    BY <1>2, <1>3, <2>1 DEF Increasing
  <2>2. CASE i \in DOMAIN p /\ j \notin DOMAIN p
    BY <1>2, <1>3, <2>2, Zenon DEF Below
  <2>3. CASE i \notin DOMAIN p /\ j \notin DOMAIN p
    <3>1. i - Len(p) < j - Len(p)
      BY <1>2
    <3> QED
      BY <1>2, <1>3, <2>3, <3>1, Zenon DEF Increasing
  <2>4. i \notin DOMAIN p => j \notin DOMAIN p
    <3>1. i \in Nat /\ j \in Nat /\ DOMAIN p = 1 .. Len(p) /\ Len(p) \in Nat /\ i >= 1
      BY <1>1, <1>2 DEF r
    <3> QED
      BY <3>1
  <2> QED
    BY <2>1, <2>2, <2>3, <2>4
<1>7. Below(r, u)
  BY <1>3, <1>4
<1>8. ASSUME NEW a \in DOMAIN t
      PROVE  Increasing(t[a]) /\ Below(r, t[a]) /\ Below(t[a], u) /\ UpTo(t[a], n)
  <2>1. Increasing(t[a]) /\ Below(p, t[a]) /\ Below(h, t[a]) /\ Below(t[a], u) /\ UpTo(t[a], n)
    BY <1>1, Zenon DEF Ordered
  <2> QED
    BY <1>4, <2>1
<1>9. ASSUME NEW a \in DOMAIN t, NEW b \in DOMAIN t, a < b PROVE Below(t[a], t[b])
  BY <1>1, <1>9, Zenon DEF Ordered
<1>10. Ordered(r, t, u, n)
  BY <1>3, <1>5, <1>6, <1>7, <1>8, <1>9, Zenon DEF Ordered
<1> QED
  BY <1>10 DEF r, h, t

OutputInv == Ordered(played, midi, Unpacked, made)

CollectorInv ==
    /\ Increasing(collected) /\ (stage \in {"clear", "drain", "read"} => collected = <<>>)
    /\ stage = "flush" => next <= Len(collected)

\* What is still to be packed, stage by stage.
UnpackedIs ==
    /\ Unpacked \in Seq(Nat)
    /\ stage = "process" => Unpacked = collected
    /\ stage = "flush" => Unpacked = SubSeq(collected, next + 1, Len(collected))
    /\ stage \notin {"process", "flush"} => Unpacked = <<>>

LEMMA UnpackedType == CollectorType => UnpackedIs
<1> SUFFICES ASSUME CollectorType PROVE UnpackedIs
  OBVIOUS
<1>1. collected \in Seq(Nat) /\ next \in Nat /\ Len(collected) \in 0 .. Len(collected)
  BY DEF CollectorType
<1>2. SubSeq(collected, next + 1, Len(collected)) \in Seq(Nat)
  BY <1>1, PartType
<1>3. SubSeq(collected, 0 + 1, Len(collected)) = collected
  BY <1>1
<1>4. stage = "process" => Unpacked = collected
  BY <1>3 DEF Unpacked
<1>5. stage = "flush" => Unpacked = SubSeq(collected, next + 1, Len(collected))
  BY Zenon DEF Unpacked
<1>6. stage \notin {"process", "flush"} => Unpacked = <<>> /\ <<>> \in Seq(Nat)
  BY DEF Unpacked
<1> QED
  BY <1>1, <1>2, <1>4, <1>5, <1>6, Zenon DEF UnpackedIs

LEMMA NothingLeft ==
    ASSUME NEW p, NEW m, NEW u, NEW n, Ordered(p, m, u, n)
    PROVE  Ordered(p, m, <<>>, n)
<1>1. Increasing(<<>>) /\ UpTo(<<>>, n) /\ \A q : Below(q, <<>>)
  BY DEF Increasing, UpTo, Below
<1> QED
  BY <1>1 DEF Ordered

LEMMA OutputStep ==
    ASSUME TypeOK, TypeOK', OutputInv, CollectorInv, [Next]_vars
    PROVE  OutputInv' /\ CollectorInv'
<1>1. PlaceType /\ CollectorType /\ MidiType /\ played \in Seq(Nat) /\ midi \in Seq(Seq(Nat))
      /\ made \in Nat /\ collected \in Seq(Nat) /\ next \in Nat
  BY TypeParts DEF CollectorType, MidiType
<1>2. CollectorType'
  BY DEF TypeOK, CollectorType
<1>3. /\ Unpacked \in Seq(Nat)
      /\ stage = "process" => Unpacked = collected
      /\ stage = "flush" => Unpacked = SubSeq(collected, next + 1, Len(collected))
      /\ stage \notin {"process", "flush"} => Unpacked = <<>>
  BY <1>1, UnpackedType DEF UnpackedIs
<1>4. /\ Unpacked' \in Seq(Nat)
      /\ stage' = "process" => Unpacked' = collected'
      /\ stage' = "flush" => Unpacked' = SubSeq(collected', next' + 1, Len(collected'))
      /\ stage' \notin {"process", "flush"} => Unpacked' = <<>>
  <2>1. UnpackedIs'
    BY <1>2, UnpackedType, PTL
  <2> QED
    BY <2>1 DEF UnpackedIs
<1>5. ASSUME UNCHANGED <<made, midi, played>>, Unpacked' = Unpacked \/ Unpacked' = <<>> PROVE OutputInv'
  BY <1>5, NothingLeft DEF OutputInv
<1>6. ASSUME NEW s \in Src, Produce(s) PROVE OutputInv' /\ CollectorInv'
  <2>1. UNCHANGED <<stage, outVars>>
    BY <1>6 DEF Produce
  <2> QED
    BY <1>5, <2>1 DEF outVars, Unpacked, CollectorInv
<1>7. CASE Clear
  <2>1. UNCHANGED outVars /\ stage = "clear" /\ stage' = "drain"
    BY <1>7 DEF Clear
  <2> QED
    BY <1>4, <1>5, <2>1 DEF outVars, CollectorInv
<1>8. CASE DrainPop \/ DrainEnds
  <2>1. UNCHANGED outVars /\ stage = "drain" /\ stage' \in {"drain", "read"}
    BY <1>8 DEF DrainPop, DrainEnds
  <2> QED
    BY <1>4, <1>5, <2>1 DEF outVars, CollectorInv
<1>9. CASE PluginReads
  <2>1. UNCHANGED outVars /\ stage = "read" /\ stage' = "process"
    BY <1>9 DEF PluginReads
  <2>2. collected = <<>> /\ Unpacked' = <<>>
    BY <1>4, <2>1 DEF outVars, CollectorInv
  <2> QED
    BY <1>5, <2>1, <2>2 DEF outVars, CollectorInv
<1>10. ASSUME NEW translated \in BOOLEAN, TryPush(translated) PROVE OutputInv' /\ CollectorInv'
  <2>1. /\ stage = "process" /\ stage' = "process" /\ made' = made + 1 /\ midi' = midi /\ played' = played
        /\ collected' = collected \/ collected' = Append(collected, made + 1)
    BY <1>10 DEF TryPush
  <2>2. /\ Ordered(played, midi, collected, made + 1)
        /\ Ordered(played, midi, Append(collected, made + 1), made + 1)
    <3>1. Ordered(played, midi, collected, made)
      BY <1>3, <2>1 DEF OutputInv
    <3> QED
      BY <1>1, <3>1, CollectKeeps
  <2>3. Ordered(played', midi', collected', made')
    <3>1. CASE collected' = collected
      BY <2>1, <2>2, <3>1
    <3>2. CASE collected' = Append(collected, made + 1)
      BY <2>1, <2>2, <3>2
    <3> QED
      BY <2>1, <3>1, <3>2
  <2>4. OutputInv'
    BY <1>4, <2>1, <2>3 DEF OutputInv
  <2>5. Increasing(collected')
    BY <2>3 DEF Ordered
  <2> QED
    BY <2>1, <2>4, <2>5 DEF CollectorInv
<1>11. CASE FlushBegin
  <2>1. /\ stage = "process" /\ stage' = "flush" /\ next' = 0
        /\ UNCHANGED <<made, midi, played>> /\ collected' = collected
    BY <1>11 DEF FlushBegin
  <2>2. SubSeq(collected, 0 + 1, Len(collected)) = collected /\ 0 <= Len(collected)
    BY <1>1
  <2>3. Unpacked' = Unpacked
    BY <1>3, <1>4, <2>1, <2>2
  <2> QED
    BY <1>5, <2>1, <2>2, <2>3 DEF CollectorInv
<1>12. CASE FlushBlock
  <2> DEFINE b == SubSeq(collected, next + 1, BlockEnd)
             v == SubSeq(collected, BlockEnd + 1, Len(collected))
             l == Len(collected)
  <2>1. /\ stage = "flush" /\ stage' = "flush" /\ next' = BlockEnd /\ next < l
        /\ UNCHANGED <<made, collected, played>>
        /\ midi' = midi \/ midi' = Append(midi, b)
    BY <1>12 DEF FlushBlock
  <2>2. BlockEnd \in Nat /\ next < BlockEnd /\ BlockEnd <= l /\ l \in Nat
    BY <1>1, <2>1, BlockEndBounds
  <2>3. BlockEnd \in 0 .. l /\ l \in 0 .. l
    BY <2>2
  <2>4. b \in Seq(Nat) /\ Len(b) = BlockEnd - next /\ \A i \in 1 .. Len(b) : b[i] = collected[next + i]
    <3>1. /\ b \in Seq(Nat) /\ Len(b) = IF next <= BlockEnd THEN BlockEnd - next ELSE 0
          /\ \A i \in 1 .. Len(b) : b[i] = collected[next + i]
      BY <1>1, <2>3, PartType, Zenon
    <3>2. next <= BlockEnd
      BY <1>1, <2>2
    <3> HIDE DEF b
    <3> QED
      BY <3>1, <3>2
  <2>5. v \in Seq(Nat) /\ Len(v) = l - BlockEnd /\ \A i \in 1 .. Len(v) : v[i] = collected[BlockEnd + i]
    <3>1. /\ v \in Seq(Nat) /\ Len(v) = IF BlockEnd <= l THEN l - BlockEnd ELSE 0
          /\ \A i \in 1 .. Len(v) : v[i] = collected[BlockEnd + i]
      BY <1>1, <2>2, <2>3, PartType
    <3> HIDE DEF v, l
    <3> QED
      BY <2>2, <3>1
  <2>6. /\ Len(Unpacked) = l - next
        /\ \A i \in 1 .. Len(Unpacked) : Unpacked[i] = collected[next + i]
    <3> DEFINE u == SubSeq(collected, next + 1, l)
    <3>1. /\ Len(u) = IF next <= l THEN l - next ELSE 0
          /\ \A i \in 1 .. Len(u) : u[i] = collected[next + i]
      BY <1>1, <2>3, PartType, Zenon
    <3>2. Unpacked = u
      BY <1>3, <2>1
    <3> HIDE DEF u, l
    <3>3. next <= l
      BY <1>1, <2>2
    <3> QED
      BY <3>1, <3>2, <3>3
  <2>7. Unpacked' = v
    BY <1>4, <2>1
  <2> HIDE DEF b, v, l
  <2>8. \A i \in DOMAIN b : i \in DOMAIN Unpacked /\ b[i] = Unpacked[i]
    <3>1. DOMAIN b = 1 .. Len(b) /\ DOMAIN Unpacked = 1 .. Len(Unpacked)
      BY <1>3, <2>4
    <3>2. 1 .. Len(b) \subseteq 1 .. Len(Unpacked)
      BY <1>1, <2>2, <2>4, <2>6
    <3> QED
      BY <2>4, <2>6, <3>1, <3>2
  <2>9. \A j \in DOMAIN v : Len(b) + j \in DOMAIN Unpacked /\ v[j] = Unpacked[Len(b) + j]
    <3>1. DOMAIN v = 1 .. Len(v) /\ DOMAIN Unpacked = 1 .. Len(Unpacked)
      BY <1>3, <2>5
    <3>2. \A j \in 1 .. Len(v) : Len(b) + j \in 1 .. Len(Unpacked) /\ next + (Len(b) + j) = BlockEnd + j
      BY <1>1, <2>2, <2>4, <2>5, <2>6
    <3> QED
      BY <2>5, <2>6, <3>1, <3>2
  <2>10. Ordered(played, midi, v, made) /\ Ordered(played, Append(midi, b), v, made)
    BY <1>1, <1>3, <2>4, <2>5, <2>8, <2>9, PackKeeps, Zenon DEF OutputInv
  <2>11. OutputInv'
    <3>1. CASE midi' = midi
      BY <2>1, <2>7, <2>10, <3>1 DEF OutputInv
    <3>2. CASE midi' = Append(midi, b)
      BY <2>1, <2>7, <2>10, <3>2 DEF OutputInv
    <3> QED
      BY <2>1, <3>1, <3>2
  <2>12. CollectorInv'
    BY <2>1, <2>2 DEF CollectorInv, l
  <2> QED
    BY <2>11, <2>12
<1>13. CASE FlushEnds
  <2>1. stage' = "reset" /\ UNCHANGED outVars
    BY <1>13 DEF FlushEnds
  <2> QED
    BY <1>4, <1>5, <2>1 DEF outVars, CollectorInv
<1>14. CASE Reset
  <2>1. stage' = "clear" /\ collected' = <<>> /\ UNCHANGED <<made, midi, played>>
    BY <1>14 DEF Reset
  <2> QED
    BY <1>4, <1>5, <2>1 DEF CollectorInv, Increasing
<1>15. CASE MidiPop
  <2>1. /\ midi # <<>> /\ played' = played \o Head(midi) /\ midi' = Tail(midi)
        /\ UNCHANGED <<stage, made, collected, next>>
    BY <1>15 DEF MidiPop
  <2>2. Unpacked' = Unpacked /\ CollectorInv'
    BY <2>1 DEF Unpacked, CollectorInv
  <2>3. Ordered(played \o Head(midi), Tail(midi), Unpacked, made)
    BY <1>1, <2>1, PlayKeeps DEF OutputInv
  <2> QED
    BY <2>1, <2>2, <2>3 DEF OutputInv
<1>16. CASE UNCHANGED vars
  BY <1>5, <1>16 DEF vars, outVars, Unpacked, CollectorInv
<1> QED
  BY <1>6, <1>7, <1>8, <1>9, <1>10, <1>11, <1>12, <1>13, <1>14, <1>15, <1>16 DEF Next, BlockStep

-----------------------------------------------------------------------------
(* The theorems                                                            *)

\* BlockInv says, in the words of the properties, what the lemmas say by parts.
LEMMA BlockInvParts == BlockInv <=> TypeOK /\ InputInv /\ OutputInv /\ CollectorInv
<1>1. ASSUME TypeOK
      PROVE  /\ OutputInv <=> OutputInOrder /\ \A a \in DOMAIN Output : \A i \in DOMAIN Output[a] : Output[a][i] <= made
             /\ Taken \in Seq(Src \X Nat)
  <2>1. PlaceType /\ BufferType /\ CollectorType /\ MidiType
    BY <1>1, TypeParts
  <2>2. Unpacked \in Seq(Nat) /\ played \in Seq(Nat) /\ midi \in Seq(Seq(Nat)) /\ made \in Nat
    BY <2>1, UnpackedType DEF UnpackedIs, CollectorType, MidiType
  <2>3. /\ DOMAIN Output = 1 .. Len(midi) + 2 /\ Output[1] = played /\ Output[Len(midi) + 2] = Unpacked
        /\ \A a \in DOMAIN midi : Output[a + 1] = midi[a]
    BY <2>2, PiecesAt DEF Output
  <2>4. IncreasingThrough(Output) /\ (\A a \in DOMAIN Output : \A i \in DOMAIN Output[a] : Output[a][i] <= made)
          <=> Ordered(played, midi, Unpacked, made)
    BY <2>2, <2>3, PiecesOrdered, Zenon
  <2> QED
    BY <2>1, <2>4, TakenType DEF OutputInv, OutputInOrder
<1>2. ASSUME TypeOK
      PROVE  InputInv <=> InputOnceInOrder /\ \A s \in Src : \A n \in ToSet(accepted[s]) : n <= offered[s]
  <2>1. \A i \in DOMAIN Taken : Taken[i][1] \in Src
    BY <1>1, <1>2
  <2>2. (\A i, j \in DOMAIN Taken : i < j /\ Taken[i][1] = Taken[j][1] => Taken[i][2] < Taken[j][2])
          <=> \A s \in Src : \A i, j \in DOMAIN Taken :
                 i < j /\ Taken[i][1] = s /\ Taken[j][1] = s => Taken[i][2] < Taken[j][2]
    BY <2>1, Zenon
  <2> QED
    BY <1>2, <2>2, Zenon DEF InputInv, SourceInv, InputOnceInOrder
<1>3. InputOnceInOrder => TypeOK
  BY DEF InputOnceInOrder
<1> QED
  BY <1>1, <1>2, <1>3, Zenon DEF BlockInv, CollectorInv

LEMMA InitParts == Init => TypeOK /\ InputInv /\ OutputInv /\ CollectorInv
<1> SUFFICES ASSUME Init PROVE TypeOK /\ InputInv /\ OutputInv /\ CollectorInv
  OBVIOUS
<1>1. TypeOK
  BY Bounds DEF Init, TypeOK
<1>2. Taken = <<>> /\ Unpacked = <<>> /\ played = <<>> /\ midi = <<>>
  BY DEF Init, Taken, Unread, Unpacked
<1>3. \A s : EventsOf(<<>>, s) = {} /\ ToSet(<<>>) = {}
  BY DEF EventsOf, ToSet
<1>4. InputInv
  <2>1. \A s \in Src : input[s] = <<>> /\ accepted[s] = <<>>
    BY DEF Init
  <2> QED
    BY <1>2, <1>3, <2>1 DEF InputInv, SourceInv, Increasing
<1>5. OutputInv
  BY <1>2 DEF OutputInv, Ordered, Increasing, Below, UpTo
<1>6. CollectorInv
  BY DEF Init, CollectorInv, Increasing
<1> QED
  BY <1>1, <1>4, <1>5, <1>6

(* Every step of a block, of a producer and of the MIDI thread preserves BlockInv,
   whatever the capacities. *)
THEOREM BlockInvariance == Spec => []BlockInv
<1>1. Init => BlockInv
  BY InitParts, BlockInvParts
<1>2. ASSUME BlockInv, [Next]_vars PROVE BlockInv'
  <2>1. TypeOK /\ InputInv /\ OutputInv /\ CollectorInv
    BY <1>2, BlockInvParts
  <2>2. TypeOK' /\ InputInv' /\ OutputInv' /\ CollectorInv'
    BY <1>2, <2>1, TypeStep, InputStep, OutputStep
  <2>3. (TypeOK /\ InputInv /\ OutputInv /\ CollectorInv)' => BlockInv'
    BY BlockInvParts, PTL
  <2> QED
    BY <2>2, <2>3
<1> QED
  BY <1>1, <1>2, PTL DEF Spec

(* What an input queue accepted reaches the plugin once and in order, and no array
   is overrun: clear(), drain() and the plugin's reads, with producers running. *)
THEOREM InputSafety == Spec => []InputOnceInOrder
<1>1. BlockInv => InputOnceInOrder
  BY DEF BlockInv
<1> QED
  BY <1>1, BlockInvariance, PTL

(* The MIDI thread gets what try_push() collected in the order it was made and none
   of it twice, whichever blocks flush_to() had to drop. *)
THEOREM OutputSafety == Spec => []OutputInOrder
<1>1. BlockInv => OutputInOrder
  BY DEF BlockInv
<1> QED
  BY <1>1, BlockInvariance, PTL
================================================================================

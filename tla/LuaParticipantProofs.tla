------------------------- MODULE LuaParticipantProofs -------------------------
(***************************************************************************)
(* The Lua participant for every set of programs and any number of calls:  *)
(* one thread at a time in the Lua state, and each scheduled thunk once,   *)
(* at its beat.                                                            *)
(***************************************************************************)
EXTENDS LuaParticipant, SequenceTheorems, TLAPS

-----------------------------------------------------------------------------
(* table.remove                                                            *)

LEMMA RemoveAtProperties ==
    ASSUME NEW S, NEW s \in Seq(S), NEW k \in 1 .. Len(s)
    PROVE  /\ RemoveAt(s, k) \in Seq(S) /\ Len(RemoveAt(s, k)) = Len(s) - 1
           /\ \A j \in 1 .. Len(s) - 1 : RemoveAt(s, k)[j] = IF j < k THEN s[j] ELSE s[j + 1]
<1>1. k \in Nat /\ Len(s) \in Nat /\ 1 <= k /\ k <= Len(s)
  OBVIOUS
<1> DEFINE a == SubSeq(s, 1, k - 1)
           b == SubSeq(s, k + 1, Len(s))
<1>2. a \in Seq(S) /\ Len(a) = k - 1 /\ \A j \in 1 .. k - 1 : a[j] = s[j]
  <2>1. \A j \in 1 .. k - 1 : s[j] \in S
    BY <1>1
  <2> QED
    BY <1>1, <2>1, SubSeqProperties
<1>3. b \in Seq(S) /\ Len(b) = Len(s) - k /\ \A j \in 1 .. Len(s) - k : b[j] = s[k + j]
  <2>1. \A j \in k + 1 .. Len(s) : s[j] \in S
    BY <1>1
  <2>2. b \in Seq(S) /\ Len(b) = IF k + 1 <= Len(s) THEN Len(s) - (k + 1) + 1 ELSE 0
    BY <1>1, <2>1, SubSeqProperties
  <2>3. \A j \in 1 .. Len(b) : b[j] = s[(k + 1) + j - 1]
    BY <1>1, <2>1, SubSeqProperties
  <2> HIDE DEF b
  <2>4. Len(b) = Len(s) - k
    BY <1>1, <2>2
  <2>5. \A j \in 1 .. Len(s) - k : (k + 1) + j - 1 = k + j
    BY <1>1
  <2> QED
    BY <2>2, <2>3, <2>4, <2>5
<1>4. RemoveAt(s, k) = a \o b
  BY DEF RemoveAt
<1> HIDE DEF a, b
<1>5. /\ a \o b \in Seq(S) /\ Len(a \o b) = Len(a) + Len(b)
      /\ \A j \in 1 .. Len(a) + Len(b) : (a \o b)[j] = IF j <= Len(a) THEN a[j] ELSE b[j - Len(a)]
  BY <1>2, <1>3, ConcatProperties, Zenon
<1>6. ASSUME NEW j \in 1 .. Len(s) - 1 PROVE (a \o b)[j] = IF j < k THEN s[j] ELSE s[j + 1]
  <2>1. j \in 1 .. Len(a) + Len(b)
    BY <1>1, <1>2, <1>3
  <2>2. CASE j < k
    <3>1. j <= Len(a) /\ j \in 1 .. k - 1
      BY <1>1, <1>2, <2>2
    <3> QED
      BY <1>2, <1>5, <2>1, <2>2, <3>1
  <2>3. CASE ~(j < k)
    <3>1. ~(j <= Len(a)) /\ j - Len(a) \in 1 .. Len(s) - k /\ k + (j - Len(a)) = j + 1
      BY <1>1, <1>2, <2>3
    <3> QED
      BY <1>3, <1>5, <2>1, <2>3, <3>1
  <2> QED
    BY <2>2, <2>3, Zenon
<1> QED
  BY <1>1, <1>2, <1>3, <1>4, <1>5, <1>6

-----------------------------------------------------------------------------
(* The invariant by parts: the threads, the life cycle, the tick, the numbers.     *)

Thunk == [n : Nat, target : Nat, thunk : Programs]
Shot  == [n : Nat, target : Nat, at : Nat]

ThreadType ==
    /\ life \in {"prelude", "live", "join", "closed"}
    /\ mutex \in Threads \cup {NoOne}
    /\ pc \in [Threads -> {"idle", "wait", "enter", "loop", "run", "push", "relock", "return"}]
    /\ call \in [Threads -> {"none", "eval", "dispatch", "pull", "tick"}]
    /\ todo \in [Threads -> Programs \cup {"none"}]
    /\ calls \in 0 .. MaxCalls /\ beat \in 0 .. MaxBeat /\ hasSender \in BOOLEAN
LuaType ==
    /\ luaBeat \in 0 .. MaxBeat
    /\ scheduled \in Seq(Thunk) /\ created \in Nat /\ i \in 1 .. Len(scheduled) + 1
    /\ fired \in Seq(Shot) /\ handler \in Programs \cup {"none"}

LEMMA TypeParts == TypeOK <=> ThreadType /\ LuaType
BY DEF TypeOK, ThreadType, LuaType, Thunk, Shot

MutexInv == \A t \in Threads : mutex = t <=> pc[t] \notin {"idle", "wait"}

RunInv ==
    \A t \in Threads :
        /\ pc[t] = "loop" => t = "timer"
        /\ pc[t] = "run" \/ (t = "ipc" /\ pc[t] \in {"wait", "enter"}) => todo[t] \in Programs

LifeInv ==
    /\ life = "prelude" => scheduled = <<>> /\ ~Ticking
    /\ life # "live" => pc["ipc"] = "idle" /\ pc["osc"] = "idle"
    /\ life = "closed" => pc["timer"] = "idle"

TickInv ==
    /\ Ticking => \A j \in 1 .. i - 1 : scheduled[j].target > luaBeat
    /\ TickLeavesNothingDue

\* Every number given out is the number of a thunk that ran or of one that waits,
\* and there are as many of these as numbers.
CountInv ==
    /\ Len(fired) + Len(scheduled) = created
    /\ \A j \in DOMAIN fired : fired[j].n \in 1 .. created /\ fired[j].target <= fired[j].at
    /\ \A j \in DOMAIN scheduled : scheduled[j].n \in 1 .. created
    /\ \A n \in 1 .. created : \/ \E j \in DOMAIN fired : fired[j].n = n
                               \/ \E j \in DOMAIN scheduled : scheduled[j].n = n

Parts == ThreadType /\ LuaType /\ MutexInv /\ RunInv /\ LifeInv /\ TickInv /\ CountInv

\* The numbers are counted as the property counts them.
LEMMA CountMeans ==
    ASSUME NEW f \in Seq(Shot), NEW w \in Seq(Thunk), NEW c \in Nat
    PROVE  LET ran     == [j \in DOMAIN f |-> f[j].n]
               waiting == [j \in DOMAIN w |-> w[j].n]
           IN  Len(ran \o waiting) = c /\ ToSet(ran \o waiting) = 1 .. c
               <=> /\ Len(f) + Len(w) = c
                   /\ \A j \in DOMAIN f : f[j].n \in 1 .. c
                   /\ \A j \in DOMAIN w : w[j].n \in 1 .. c
                   /\ \A n \in 1 .. c : \/ \E j \in DOMAIN f : f[j].n = n
                                        \/ \E j \in DOMAIN w : w[j].n = n
<1> DEFINE ran     == [j \in DOMAIN f |-> f[j].n]
           waiting == [j \in DOMAIN w |-> w[j].n]
           both    == ran \o waiting
<1>1. /\ DOMAIN f = 1 .. Len(f) /\ Len(f) \in Nat /\ DOMAIN w = 1 .. Len(w) /\ Len(w) \in Nat
      /\ \A j \in DOMAIN f : f[j].n \in Nat
      /\ \A j \in DOMAIN w : w[j].n \in Nat
  <2>1. \A x \in Shot : x.n \in Nat
    BY DEF Shot
  <2>2. \A x \in Thunk : x.n \in Nat
    BY DEF Thunk
  <2>3. /\ DOMAIN f = 1 .. Len(f) /\ Len(f) \in Nat /\ DOMAIN w = 1 .. Len(w) /\ Len(w) \in Nat
        /\ \A j \in DOMAIN f : f[j] \in Shot
        /\ \A j \in DOMAIN w : w[j] \in Thunk
    OBVIOUS
  <2> QED
    BY <2>1, <2>2, <2>3
<1>2. ran \in Seq(Nat) /\ Len(ran) = Len(f) /\ waiting \in Seq(Nat) /\ Len(waiting) = Len(w)
  BY <1>1
<1>3. (\A j \in DOMAIN f : ran[j] = f[j].n) /\ (\A j \in DOMAIN w : waiting[j] = w[j].n)
  OBVIOUS
<1> HIDE DEF ran, waiting
<1>4. /\ Len(both) = Len(f) + Len(w) /\ DOMAIN both = 1 .. Len(f) + Len(w)
      /\ \A j \in DOMAIN f : j \in DOMAIN both /\ both[j] = ran[j]
      /\ \A j \in DOMAIN w : Len(f) + j \in DOMAIN both /\ both[Len(f) + j] = waiting[j]
  <2>1. /\ ran \o waiting \in Seq(Nat) /\ Len(ran \o waiting) = Len(ran) + Len(waiting)
        /\ \A j \in 1 .. Len(ran) + Len(waiting) :
              (ran \o waiting)[j] = IF j <= Len(ran) THEN ran[j] ELSE waiting[j - Len(ran)]
    BY <1>2, ConcatProperties, Zenon
  <2>2. Len(both) = Len(f) + Len(w) /\ DOMAIN both = 1 .. Len(f) + Len(w)
    BY <1>1, <1>2, <2>1
  <2>3. \A j \in DOMAIN f : j \in 1 .. Len(f) + Len(w) /\ j <= Len(f)
    BY <1>1
  <2>4. \A j \in DOMAIN w : /\ Len(f) + j \in 1 .. Len(f) + Len(w) /\ ~(Len(f) + j <= Len(f))
                            /\ Len(f) + j - Len(f) = j
    BY <1>1
  <2> QED
    <3>1. \A j \in DOMAIN f : both[j] = ran[j]
      BY <1>2, <2>1, <2>3
    <3>2. ASSUME NEW j \in DOMAIN w PROVE both[Len(f) + j] = waiting[j]
      <4>0. /\ Len(f) + j \in 1 .. Len(f) + Len(w) /\ ~(Len(f) + j <= Len(f))
            /\ Len(f) + j - Len(f) = j
        BY <2>4
      <4>1. PICK k \in 1 .. Len(ran) + Len(waiting) :
                k = Len(f) + j /\ ~(k <= Len(ran)) /\ k - Len(ran) = j
        <5>1. Len(ran) = Len(f) /\ Len(waiting) = Len(w)
          BY <1>2
        <5> QED
          BY <4>0, <5>1
      <4>2. (ran \o waiting)[k] = waiting[k - Len(ran)]
        BY <2>1, <4>1
      <4> QED
        BY <4>1, <4>2
    <3> QED
      BY <2>2, <2>3, <2>4, <3>1, <3>2
<1>5. \A k \in DOMAIN both : k \in DOMAIN f \/ \E j \in DOMAIN w : k = Len(f) + j
  <2>1. ASSUME NEW k \in DOMAIN both, k \notin DOMAIN f PROVE k - Len(f) \in DOMAIN w /\ k = Len(f) + (k - Len(f))
    BY <1>1, <1>4, <2>1
  <2> QED
    BY <2>1
<1> HIDE DEF both
<1>6. \A x : x \in ToSet(both) <=> \/ \E j \in DOMAIN f : f[j].n = x
                                   \/ \E j \in DOMAIN w : w[j].n = x
  <2>1. ASSUME NEW x, x \in ToSet(both)
        PROVE  (\E j \in DOMAIN f : f[j].n = x) \/ (\E j \in DOMAIN w : w[j].n = x)
    <3>1. PICK k \in DOMAIN both : both[k] = x
      BY <2>1 DEF ToSet
    <3>2. CASE k \in DOMAIN f
      BY <1>3, <1>4, <3>1, <3>2
    <3>3. ASSUME NEW j \in DOMAIN w, k = Len(f) + j PROVE \E a \in DOMAIN w : w[a].n = x
      BY <1>3, <1>4, <3>1, <3>3
    <3> QED
      BY <1>5, <3>2, <3>3
  <2>2. ASSUME NEW x, (\E j \in DOMAIN f : f[j].n = x) \/ (\E j \in DOMAIN w : w[j].n = x)
        PROVE  x \in ToSet(both)
    <3>1. ASSUME NEW j \in DOMAIN f, f[j].n = x PROVE j \in DOMAIN both /\ both[j] = x
      BY <1>3, <1>4, <3>1
    <3>2. ASSUME NEW j \in DOMAIN w, w[j].n = x PROVE Len(f) + j \in DOMAIN both /\ both[Len(f) + j] = x
      BY <1>3, <1>4, <3>2
    <3>3. \E k \in DOMAIN both : both[k] = x
      BY <2>2, <3>1, <3>2
    <3> QED
      BY <3>3 DEF ToSet
  <2> QED
    BY <2>1, <2>2
<1>7. ToSet(both) = 1 .. c
        <=> /\ \A j \in DOMAIN f : f[j].n \in 1 .. c
            /\ \A j \in DOMAIN w : w[j].n \in 1 .. c
            /\ \A n \in 1 .. c : \/ \E j \in DOMAIN f : f[j].n = n
                                 \/ \E j \in DOMAIN w : w[j].n = n
  <2> DEFINE I == 1 .. c
  <2> HIDE DEF I
  <2>1. ToSet(both) = I
        <=> /\ \A j \in DOMAIN f : f[j].n \in I
            /\ \A j \in DOMAIN w : w[j].n \in I
            /\ \A n \in I : \/ \E j \in DOMAIN f : f[j].n = n
                            \/ \E j \in DOMAIN w : w[j].n = n
    BY <1>6, Zenon
  <2> QED
    BY <2>1, Zenon DEF I
<1> QED
  BY <1>4, <1>7, Zenon DEF both, ran, waiting

LEMMA LuaInvParts == LuaInv <=> Parts
<1>1. LuaInv => TypeOK
  BY DEF LuaInv, ThunkRunsOnceWhenDue
<1>2. Parts => TypeOK
  BY TypeParts DEF Parts
<1>3. ASSUME TypeOK
      PROVE  (ThunkRunsOnceWhenDue <=> CountInv)
  <2>1. fired \in Seq(Shot) /\ scheduled \in Seq(Thunk) /\ created \in Nat
    BY <1>3, TypeParts DEF LuaType
  <2>2. LET ran     == [j \in DOMAIN fired |-> fired[j].n]
            waiting == [j \in DOMAIN scheduled |-> scheduled[j].n]
        IN  Len(ran \o waiting) = created /\ ToSet(ran \o waiting) = 1 .. created
            <=> /\ Len(fired) + Len(scheduled) = created
                /\ \A j \in DOMAIN fired : fired[j].n \in 1 .. created
                /\ \A j \in DOMAIN scheduled : scheduled[j].n \in 1 .. created
                /\ \A n \in 1 .. created : \/ \E j \in DOMAIN fired : fired[j].n = n
                                           \/ \E j \in DOMAIN scheduled : scheduled[j].n = n
    BY <2>1, CountMeans, Zenon
  <2> QED
    BY <1>3, <2>2, Zenon DEF ThunkRunsOnceWhenDue, CountInv
<1> QED
  BY <1>1, <1>2, <1>3, TypeParts, Zenon DEF LuaInv, Parts, MutexInv, RunInv, LifeInv, TickInv

-----------------------------------------------------------------------------
(* The threads                                                             *)

\* Steps that only move one thread, or none.
Quiet ==
    \/ PreludeDone \/ DestroyBegin \/ DestroyEnd \/ (\E b \in 0 .. MaxBeat : SetBeat(b))
    \/ (\E p \in Programs : Eval(p)) \/ (\E kind \in {"dispatch", "pull"} : Packet(kind)) \/ TimerWakes
    \/ (\E t \in Threads : Lock(t)) \/ EnterEval \/ EnterDispatch \/ EnterPull
    \/ (\E t \in Threads : RunValue(t) \/ PushEndpoints(t) \/ Return(t)) \/ UNCHANGED vars

LEMMA QuietLua == Quiet => UNCHANGED luaVars
BY Zenon DEF Quiet, PreludeDone, DestroyBegin, DestroyEnd, SetBeat, Eval, Packet, TimerWakes, Begin, Lock,
             EnterEval, EnterDispatch, EnterPull, RunValue, PushEndpoints, Return, vars

LEMMA Cases == [Next]_vars <=> \/ Quiet \/ EnterTick \/ TickFire \/ TickPass
                               \/ \E t \in Threads : RunSchedule(t) \/ RunRegister(t)
BY Zenon DEF Next, Working, InCall, Quiet

LEMMA ThreadStep ==
    ASSUME ThreadType, LuaType, MutexInv, RunInv, [Next]_vars
    PROVE  ThreadType' /\ MutexInv' /\ RunInv'
<1> USE DEF Threads, NoOne
<1> DEFINE Good == ThreadType' /\ MutexInv' /\ RunInv'
<1> SUFFICES Good
  OBVIOUS
<1>1. CASE PreludeDone \/ DestroyBegin \/ DestroyEnd
  BY <1>1 DEF ThreadType, MutexInv, RunInv, PreludeDone, DestroyBegin, DestroyEnd
<1>2. ASSUME NEW b \in 0 .. MaxBeat, SetBeat(b) PROVE Good
  BY <1>2 DEF SetBeat, ThreadType, MutexInv, RunInv
<1>3. ASSUME NEW p \in Programs, Eval(p) PROVE Good
  <2>1. calls' \in 0 .. MaxCalls
    BY <1>3, LuaAssumption DEF Eval, ThreadType
  <2>2. /\ pc["ipc"] = "idle" /\ pc' = [pc EXCEPT !["ipc"] = "wait"]
        /\ call' = [call EXCEPT !["ipc"] = "eval"] /\ todo' = [todo EXCEPT !["ipc"] = p]
        /\ UNCHANGED <<life, mutex, beat, hasSender>>
    BY <1>3 DEF Eval, Begin, Goto
  <2> QED
    BY <2>1, <2>2 DEF ThreadType, MutexInv, RunInv
<1>4. ASSUME NEW kind \in {"dispatch", "pull"}, Packet(kind) PROVE Good
  <2>1. calls' \in 0 .. MaxCalls
    BY <1>4, LuaAssumption DEF Packet, ThreadType
  <2>2. /\ pc["osc"] = "idle" /\ pc' = [pc EXCEPT !["osc"] = "wait"]
        /\ call' = [call EXCEPT !["osc"] = kind] /\ todo' = [todo EXCEPT !["osc"] = "none"]
        /\ UNCHANGED <<life, mutex, beat>> /\ hasSender' \in BOOLEAN
    BY <1>4 DEF Packet, Begin, Goto
  <2> QED
    BY <2>1, <2>2 DEF ThreadType, MutexInv, RunInv
<1>5. CASE TimerWakes
  <2>2. /\ pc["timer"] = "idle" /\ pc' = [pc EXCEPT !["timer"] = "wait"]
        /\ call' = [call EXCEPT !["timer"] = "tick"] /\ todo' = [todo EXCEPT !["timer"] = "none"]
        /\ UNCHANGED <<life, mutex, beat, calls, hasSender>>
    BY <1>5 DEF TimerWakes, Begin, Goto
  <2> QED
    BY <2>2 DEF ThreadType, MutexInv, RunInv
<1>6. ASSUME NEW t \in Threads, Lock(t) PROVE Good
  <2>1. /\ pc[t] = "wait" /\ mutex = NoOne /\ mutex' = t /\ pc' = [pc EXCEPT ![t] = "enter"]
        /\ UNCHANGED <<life, call, todo, calls, beat, hasSender>>
    BY <1>6 DEF Lock, Goto
  <2> QED
    BY <2>1 DEF ThreadType, MutexInv, RunInv
<1>7. CASE EnterEval
  BY <1>7 DEF EnterEval, Goto, ThreadType, MutexInv, RunInv
<1>8. CASE EnterDispatch
  <2>1. /\ pc["osc"] = "enter" /\ todo' = [todo EXCEPT !["osc"] = handler]
        /\ UNCHANGED <<life, mutex, call, calls, beat, hasSender>> /\ handler \in Programs \cup {"none"}
        /\ \/ handler = "none" /\ pc' = [pc EXCEPT !["osc"] = "return"]
           \/ handler \in Programs /\ pc' = [pc EXCEPT !["osc"] = "run"]
    BY <1>8, Zenon DEF EnterDispatch, Goto, LuaType
  <2> QED
    BY <2>1 DEF ThreadType, MutexInv, RunInv
<1>9. CASE EnterPull
  BY <1>9 DEF EnterPull, Goto, ThreadType, MutexInv, RunInv
<1>10. CASE EnterTick
  <2>1. /\ pc["timer"] = "enter" /\ UNCHANGED <<life, mutex, call, todo, calls, beat, hasSender>>
        /\ pc' = [pc EXCEPT !["timer"] = "return"] \/ pc' = [pc EXCEPT !["timer"] = "loop"]
    BY <1>10 DEF EnterTick, Goto
  <2> QED
    BY <2>1 DEF ThreadType, MutexInv, RunInv
<1>11. CASE TickFire
  <2>1. scheduled[i].thunk \in Programs
    <3>1. scheduled \in Seq(Thunk) /\ i \in 1 .. Len(scheduled)
      BY <1>11 DEF TickFire, LuaType
    <3>2. scheduled[i] \in Thunk
      BY <3>1
    <3> QED
      BY <3>2 DEF Thunk
  <2>2. /\ pc["timer"] = "loop" /\ UNCHANGED <<life, mutex, call, calls, beat, hasSender>>
        /\ todo' = [todo EXCEPT !["timer"] = scheduled[i].thunk] /\ pc' = [pc EXCEPT !["timer"] = "run"]
    BY <1>11 DEF TickFire, Goto
  <2> QED
    BY <2>1, <2>2 DEF ThreadType, MutexInv, RunInv
<1>12. CASE TickPass
  <2>1. /\ pc["timer"] = "loop" /\ UNCHANGED <<life, mutex, call, todo, calls, beat, hasSender>>
        /\ pc' = pc \/ pc' = [pc EXCEPT !["timer"] = "return"]
    BY <1>12 DEF TickPass, Goto
  <2> QED
    BY <2>1 DEF ThreadType, MutexInv, RunInv
<1>13. ASSUME NEW t \in Threads,
              RunValue(t) \/ RunSchedule(t) \/ RunRegister(t) \/ PushEndpoints(t)
       PROVE  Good
  <2>1. /\ pc[t] \in {"run", "push"} /\ UNCHANGED <<life, mutex, call, todo, calls, beat, hasSender>>
        /\ \E l \in {"push", "relock", Resume(t)} : pc' = [pc EXCEPT ![t] = l]
    BY <1>13 DEF RunValue, RunSchedule, RunRegister, PushEndpoints, Goto, luaVars
  <2>2. PICK l \in {"push", "relock", "loop", "return"} :
            pc' = [pc EXCEPT ![t] = l] /\ (l = "loop" => t = "timer")
    BY <2>1, Zenon DEF Resume
  <2> QED
    BY <2>1, <2>2 DEF ThreadType, MutexInv, RunInv
<1>14. ASSUME NEW t \in Threads, Return(t) PROVE Good
  <2>1. /\ pc[t] = "return" /\ mutex' = NoOne /\ pc' = [pc EXCEPT ![t] = "idle"]
        /\ UNCHANGED <<life, call, todo, calls, beat, hasSender>>
    BY <1>14 DEF Return, Goto
  <2> QED
    BY <2>1 DEF ThreadType, MutexInv, RunInv
<1>15. CASE UNCHANGED vars
  BY <1>15 DEF vars, ThreadType, MutexInv, RunInv
<1> HIDE DEF Good, Threads
<1>16. CASE Working
  <2>1. ASSUME NEW t \in Threads, InCall(t) PROVE Good
    BY <1>13, <1>14, <2>1 DEF InCall
  <2> QED
    BY <1>7, <1>8, <1>9, <1>10, <1>11, <1>12, <1>16, <2>1 DEF Working
<1> QED
  BY <1>1, <1>2, <1>3, <1>4, <1>5, <1>6, <1>15, <1>16 DEF Next

-----------------------------------------------------------------------------
(* The list of thunks                                                      *)

LEMMA QuietStep ==
    ASSUME Parts, Quiet, ThreadType'
    PROVE  LuaType' /\ LifeInv' /\ TickInv' /\ CountInv'
<1>1. /\ luaBeat' = luaBeat /\ i' = i /\ scheduled' = scheduled /\ created' = created
      /\ fired' = fired /\ handler' = handler
  BY QuietLua DEF luaVars
<1>2. LuaType' /\ CountInv'
  BY <1>1 DEF Parts, LuaType, CountInv
<1>3. LifeInv'
  <2> USE DEF Parts, LifeInv, Ticking, ThreadType, Threads
  <2>1. CASE PreludeDone \/ DestroyBegin \/ DestroyEnd
    BY <2>1 DEF PreludeDone, DestroyBegin, DestroyEnd
  <2>2. CASE (\E b \in 0 .. MaxBeat : SetBeat(b)) \/ UNCHANGED vars
    BY <1>1, <2>2 DEF SetBeat, vars
  <2>3. CASE \/ (\E p \in Programs : Eval(p)) \/ (\E kind \in {"dispatch", "pull"} : Packet(kind))
             \/ TimerWakes
    BY <1>1, <2>3 DEF Eval, Packet, TimerWakes, Begin, Goto
  <2>4. CASE \E t \in Threads : Lock(t)
    <3>1. PICK t \in Threads : pc[t] = "wait" /\ pc' = [pc EXCEPT ![t] = "enter"] /\ life' = life
      BY <2>4, Zenon DEF Lock, Goto
    <3> QED
      BY <1>1, <3>1
  <2>5. CASE EnterEval \/ EnterDispatch \/ EnterPull
    BY <1>1, <2>5 DEF EnterEval, EnterDispatch, EnterPull, Goto
  <2>6. CASE \E t \in Threads : RunValue(t) \/ PushEndpoints(t)
    <3>1. PICK t \in Threads : pc[t] \in {"run", "push"} /\ life' = life
                               /\ \E l \in {"relock", "loop", "return"} : pc' = [pc EXCEPT ![t] = l]
      BY <2>6 DEF RunValue, PushEndpoints, Goto, Resume
    <3>2. life = "live" \/ t = "timer"
      BY <3>1
    <3>3. life # "prelude" /\ life # "closed"
      BY <3>1, <3>2
    <3> QED
      BY <1>1, <3>1, <3>2, <3>3
  <2>7. CASE \E t \in Threads : Return(t)
    <3>1. PICK t \in Threads : pc[t] = "return" /\ pc' = [pc EXCEPT ![t] = "idle"] /\ life' = life
      BY <2>7, Zenon DEF Return, Goto
    <3> QED
      BY <1>1, <3>1
  <2> HIDE DEF Parts, LifeInv, Ticking, ThreadType, Threads
  <2> QED
    BY <2>1, <2>2, <2>3, <2>4, <2>5, <2>6, <2>7 DEF Quiet
<1>4. TickInv'
  <2>1. (Ticking' => Ticking) /\ (pc'["timer"] = "return" => pc["timer"] = "return")
    <3> USE DEF Parts, Ticking, ThreadType, Threads
    <3>1. CASE PreludeDone \/ DestroyBegin \/ DestroyEnd \/ (\E b \in 0 .. MaxBeat : SetBeat(b)) \/ UNCHANGED vars
      BY <3>1 DEF PreludeDone, DestroyBegin, DestroyEnd, SetBeat, vars
    <3>2. CASE \/ (\E p \in Programs : Eval(p)) \/ (\E kind \in {"dispatch", "pull"} : Packet(kind))
               \/ TimerWakes \/ EnterEval \/ EnterDispatch \/ EnterPull
      BY <3>2 DEF Eval, Packet, TimerWakes, Begin, Goto, EnterEval, EnterDispatch, EnterPull
    <3>3. CASE \E t \in Threads : Lock(t) \/ Return(t)
      <4>1. PICK t \in Threads : \E l \in {"enter", "idle"} : pc' = [pc EXCEPT ![t] = l]
        BY <3>3 DEF Lock, Return, Goto
      <4> QED
        BY <4>1
    <3>4. CASE \E t \in Threads : RunValue(t) \/ PushEndpoints(t)
      <4>1. PICK t \in Threads : pc[t] \in {"run", "push"}
                                 /\ \E l \in {"relock", Resume(t)} : pc' = [pc EXCEPT ![t] = l]
        BY <3>4 DEF RunValue, PushEndpoints, Goto
      <4> QED
        BY <4>1 DEF Resume
    <3> HIDE DEF Parts, Ticking, ThreadType, Threads
    <3> QED
      BY <3>1, <3>2, <3>3, <3>4 DEF Quiet
  <2> QED
    BY <1>1, <2>1 DEF Parts, TickInv, TickLeavesNothingDue
<1> QED
  BY <1>2, <1>3, <1>4

LEMMA EnterTickStep ==
    ASSUME Parts, EnterTick
    PROVE  LuaType' /\ LifeInv' /\ TickInv' /\ CountInv'
<1>1. /\ pc["timer"] = "enter" /\ i' = 1 /\ life' = life /\ scheduled' = scheduled /\ created' = created
      /\ fired' = fired /\ handler' = handler
      /\ \/ life = "prelude" /\ pc' = [pc EXCEPT !["timer"] = "return"] /\ luaBeat' = luaBeat
         \/ life # "prelude" /\ pc' = [pc EXCEPT !["timer"] = "loop"] /\ luaBeat' = beat
  BY DEF EnterTick, Goto
<1>2. /\ pc'["ipc"] = pc["ipc"] /\ pc'["osc"] = pc["osc"]
      /\ \/ life = "prelude" /\ pc'["timer"] = "return"
         \/ life # "prelude" /\ pc'["timer"] = "loop"
  BY <1>1 DEF Parts, ThreadType, Threads
<1>3. LuaType'
  <2>1. Len(scheduled) \in Nat /\ luaBeat' \in 0 .. MaxBeat
    BY <1>1 DEF Parts, LuaType, ThreadType
  <2>2. i' \in 1 .. Len(scheduled') + 1
    BY <1>1, <2>1
  <2> QED
    BY <1>1, <2>1, <2>2 DEF Parts, LuaType
<1>4. CountInv'
  BY <1>1 DEF Parts, CountInv
<1>5. LifeInv'
  BY <1>1, <1>2 DEF Parts, LifeInv, Ticking
<1>6. TickInv'
  <2>1. 1 .. i' - 1 = {}
    BY <1>1
  <2>2. pc'["timer"] = "return" => scheduled' = <<>>
    BY <1>1, <1>2 DEF Parts, LifeInv
  <2> QED
    BY <2>1, <2>2 DEF TickInv, TickLeavesNothingDue
<1> QED
  BY <1>3, <1>4, <1>5, <1>6

LEMMA TickPassStep ==
    ASSUME Parts, TickPass
    PROVE  LuaType' /\ LifeInv' /\ TickInv' /\ CountInv'
<1>1. /\ pc["timer"] = "loop" /\ life' = life /\ luaBeat' = luaBeat /\ scheduled' = scheduled
      /\ created' = created /\ fired' = fired /\ handler' = handler
      /\ \/ i <= Len(scheduled) /\ ~Due /\ i' = i + 1 /\ pc' = pc
         \/ ~(i <= Len(scheduled)) /\ i' = i /\ pc' = [pc EXCEPT !["timer"] = "return"]
  BY DEF TickPass, Goto
<1>2. /\ pc'["ipc"] = pc["ipc"] /\ pc'["osc"] = pc["osc"]
      /\ \/ i <= Len(scheduled) /\ pc'["timer"] = "loop"
         \/ ~(i <= Len(scheduled)) /\ pc'["timer"] = "return"
  BY <1>1 DEF Parts, ThreadType, Threads
<1>3. /\ i \in Nat /\ i >= 1 /\ i <= Len(scheduled) + 1 /\ Len(scheduled) \in Nat /\ luaBeat \in Nat
      /\ DOMAIN scheduled = 1 .. Len(scheduled)
      /\ \A j \in 1 .. Len(scheduled) : scheduled[j].target \in Nat
  <2>1. scheduled \in Seq(Thunk) /\ i \in 1 .. Len(scheduled) + 1 /\ luaBeat \in 0 .. MaxBeat
    BY DEF Parts, LuaType
  <2>2. Len(scheduled) \in Nat /\ DOMAIN scheduled = 1 .. Len(scheduled)
        /\ \A j \in 1 .. Len(scheduled) : scheduled[j] \in Thunk
    BY <2>1
  <2>3. \A x \in Thunk : x.target \in Nat
    BY DEF Thunk
  <2>4. i \in Nat /\ i >= 1 /\ i <= Len(scheduled) + 1 /\ luaBeat \in Nat
    BY <2>1, <2>2, LuaAssumption
  <2> QED
    BY <2>2, <2>3, <2>4
<1>4. LuaType'
  <2>1. i' \in 1 .. Len(scheduled) + 1
    BY <1>1, <1>3
  <2> QED
    BY <1>1, <2>1 DEF Parts, LuaType
<1>5. CountInv'
  BY <1>1 DEF Parts, CountInv
<1>6. LifeInv'
  BY <1>1, <1>2 DEF Parts, LifeInv, Ticking
<1>7. \A j \in 1 .. i - 1 : scheduled[j].target > luaBeat
  BY <1>1 DEF Parts, TickInv, Ticking
<1>8. TickInv'
  <2>1. CASE i <= Len(scheduled)
    <3>1. scheduled[i].target > luaBeat /\ i' = i + 1 /\ pc'["timer"] = "loop"
      BY <1>1, <1>2, <1>3, <2>1 DEF Due
    <3>2. \A j \in 1 .. i' - 1 : j = i \/ j \in 1 .. i - 1
      BY <1>3, <3>1
    <3> QED
      BY <1>1, <1>7, <3>1, <3>2 DEF TickInv, TickLeavesNothingDue
  <2>2. CASE ~(i <= Len(scheduled))
    <3>1. \A j \in DOMAIN scheduled : j \in 1 .. i - 1
      BY <1>3, <2>2
    <3> QED
      BY <1>1, <1>2, <1>7, <2>2, <3>1 DEF TickInv, TickLeavesNothingDue, Ticking
  <2> QED
    BY <2>1, <2>2
<1> QED
  BY <1>4, <1>5, <1>6, <1>8

\* What the types say of the list, its index and the numbers.
LEMMA ListFacts ==
    ASSUME LuaType
    PROVE  /\ scheduled \in Seq(Thunk) /\ fired \in Seq(Shot) /\ created \in Nat /\ luaBeat \in Nat
           /\ Len(scheduled) \in Nat /\ Len(fired) \in Nat
           /\ DOMAIN scheduled = 1 .. Len(scheduled) /\ DOMAIN fired = 1 .. Len(fired)
           /\ i \in Nat /\ i >= 1 /\ i <= Len(scheduled) + 1
<1>1. scheduled \in Seq(Thunk) /\ fired \in Seq(Shot) /\ created \in Nat /\ luaBeat \in Nat
  BY LuaAssumption DEF LuaType
<1>2. Len(scheduled) \in Nat /\ Len(fired) \in Nat
      /\ DOMAIN scheduled = 1 .. Len(scheduled) /\ DOMAIN fired = 1 .. Len(fired)
  BY <1>1
<1>3. i \in 1 .. Len(scheduled) + 1
  BY DEF LuaType
<1> QED
  BY <1>1, <1>2, <1>3

LEMMA TickFireStep ==
    ASSUME Parts, TickFire
    PROVE  LuaType' /\ LifeInv' /\ TickInv' /\ CountInv'
<1> DEFINE e == scheduled[i]
           shot == [n |-> e.n, target |-> e.target, at |-> luaBeat]
           l == Len(scheduled)
           m == Len(fired)
<1>1. /\ pc["timer"] = "loop" /\ life' = life /\ luaBeat' = luaBeat /\ created' = created
      /\ handler' = handler /\ i' = i /\ i <= l /\ e.target <= luaBeat
      /\ fired' = Append(fired, shot) /\ scheduled' = RemoveAt(scheduled, i)
      /\ pc' = [pc EXCEPT !["timer"] = "run"]
  BY DEF TickFire, Goto, Due
<1>2. pc'["ipc"] = pc["ipc"] /\ pc'["osc"] = pc["osc"] /\ pc'["timer"] = "run"
  BY <1>1 DEF Parts, ThreadType, Threads
<1>3. /\ scheduled \in Seq(Thunk) /\ fired \in Seq(Shot) /\ created \in Nat /\ luaBeat \in Nat
      /\ l \in Nat /\ m \in Nat /\ DOMAIN scheduled = 1 .. l /\ DOMAIN fired = 1 .. m
      /\ i \in Nat /\ i >= 1 /\ i <= l + 1
  BY ListFacts DEF Parts
<1>4. i \in 1 .. l
  BY <1>1, <1>3
<1>5. e \in Thunk
  BY <1>3, <1>4
<1>6. e.n \in Nat /\ e.target \in Nat
  BY <1>5 DEF Thunk
<1>7. shot \in Shot /\ shot.n = e.n /\ shot.target = e.target /\ shot.at = luaBeat
  <2> HIDE DEF e
  <2> QED
    BY <1>3, <1>6 DEF Shot
<1>8. /\ scheduled' \in Seq(Thunk) /\ Len(scheduled') = l - 1
      /\ \A j \in 1 .. l - 1 : scheduled'[j] = IF j < i THEN scheduled[j] ELSE scheduled[j + 1]
  BY <1>1, <1>3, <1>4, RemoveAtProperties, Zenon
<1>9. DOMAIN scheduled' = 1 .. l - 1
  BY <1>3, <1>8
<1> HIDE DEF shot
<1>10. /\ fired' \in Seq(Shot) /\ Len(fired') = m + 1 /\ DOMAIN fired' = 1 .. m + 1 /\ fired'[m + 1] = shot
       /\ \A j \in 1 .. m : fired'[j] = fired[j]
  BY <1>1, <1>3, <1>7
<1> HIDE DEF e, l, m
<1>11. LuaType'
  <2>1. i' \in 1 .. Len(scheduled') + 1
    BY <1>1, <1>3, <1>4, <1>8
  <2> QED
    BY <1>1, <1>8, <1>10, <2>1 DEF Parts, LuaType
<1>12. LifeInv'
  BY <1>1, <1>2 DEF Parts, LifeInv, Ticking
<1>13. TickInv'
  <2>1. \A j \in 1 .. i - 1 : scheduled[j].target > luaBeat
    BY <1>1 DEF Parts, TickInv, Ticking
  <2>2. \A j \in 1 .. i - 1 : j \in 1 .. l - 1 /\ j < i
    BY <1>3, <1>4
  <2> QED
    BY <1>1, <1>2, <1>8, <2>1, <2>2 DEF TickInv, TickLeavesNothingDue
<1>14. CountInv'
  <2>1. /\ Len(fired) + Len(scheduled) = created
        /\ \A j \in 1 .. m : fired[j].n \in 1 .. created /\ fired[j].target <= fired[j].at
        /\ \A j \in 1 .. l : scheduled[j].n \in 1 .. created
        /\ \A n \in 1 .. created : \/ \E j \in 1 .. m : fired[j].n = n
                                   \/ \E j \in 1 .. l : scheduled[j].n = n
    BY <1>3, Zenon DEF Parts, CountInv
  <2>2. Len(fired') + Len(scheduled') = created'
    <3>1. m + l = created
      BY <2>1 DEF m, l
    <3> QED
      BY <1>1, <1>3, <1>8, <1>10, <3>1
  <2>3. \A j \in DOMAIN fired' : fired'[j].n \in 1 .. created /\ fired'[j].target <= fired'[j].at
    <3>1. \A j \in 1 .. m + 1 : j \in 1 .. m \/ j = m + 1
      BY <1>3
    <3>2. shot.n \in 1 .. created /\ shot.target <= shot.at
      BY <1>1, <1>4, <1>7, <2>1 DEF e
    <3> QED
      BY <1>10, <2>1, <3>1, <3>2
  <2>4. \A j \in 1 .. l - 1 : j \in 1 .. l /\ j + 1 \in 1 .. l
    BY <1>3
  <2>5. \A j \in DOMAIN scheduled' : scheduled'[j].n \in 1 .. created
    BY <1>8, <1>9, <2>1, <2>4
  <2>6. ASSUME NEW n \in 1 .. created
        PROVE  (\E j \in DOMAIN fired' : fired'[j].n = n) \/ (\E j \in DOMAIN scheduled' : scheduled'[j].n = n)
    <3>1. ASSUME NEW j \in 1 .. m, fired[j].n = n PROVE \E k \in DOMAIN fired' : fired'[k].n = n
      <4>1. j \in 1 .. m + 1
        BY <1>3
      <4> QED
        BY <1>10, <3>1, <4>1
    <3>2. ASSUME NEW j \in 1 .. l, scheduled[j].n = n, j = i PROVE \E k \in DOMAIN fired' : fired'[k].n = n
      <4>1. m + 1 \in 1 .. m + 1
        BY <1>3
      <4> QED
        BY <1>7, <1>10, <3>2, <4>1 DEF e
    <3>3. ASSUME NEW j \in 1 .. l, scheduled[j].n = n, j < i PROVE \E k \in DOMAIN scheduled' : scheduled'[k].n = n
      <4>1. j \in 1 .. l - 1
        BY <1>3, <1>4, <3>3
      <4> QED
        BY <1>8, <1>9, <3>3, <4>1
    <3>4. ASSUME NEW j \in 1 .. l, scheduled[j].n = n, i < j PROVE \E k \in DOMAIN scheduled' : scheduled'[k].n = n
      <4>1. j - 1 \in 1 .. l - 1 /\ ~(j - 1 < i) /\ (j - 1) + 1 = j
        BY <1>3, <1>4, <3>4
      <4> QED
        BY <1>8, <1>9, <3>4, <4>1
    <3>5. \A j \in 1 .. l : j = i \/ j < i \/ i < j
      BY <1>3
    <3> QED
      BY <2>1, <3>1, <3>2, <3>3, <3>4, <3>5
  <2> QED
    BY <1>1, <2>2, <2>3, <2>5, <2>6 DEF CountInv
<1> QED
  BY <1>11, <1>12, <1>13, <1>14

\* A program that runs inside Lua leaves the tick where it is, and the life cycle.
LEMMA RunningKeeps ==
    ASSUME Parts, NEW t \in Threads, pc[t] = "run", life' = life,
           NEW l \in {"push", Resume(t)}, pc' = [pc EXCEPT ![t] = l]
    PROVE  /\ life # "prelude" /\ pc["timer"] # "return"
           /\ (Ticking' => Ticking) /\ pc'["timer"] # "return"
           /\ life # "live" => pc'["ipc"] = "idle" /\ pc'["osc"] = "idle"
           /\ life = "closed" => pc'["timer"] = "idle"
<1>1. mutex = t
  BY DEF Parts, MutexInv
<1>2. pc["timer"] # "return"
  BY <1>1 DEF Parts, MutexInv, Threads
<1>3. life # "prelude" /\ (life # "live" => t = "timer") /\ life # "closed"
  BY DEF Parts, LifeInv, Ticking, Threads
<1>4. (t # "timer" => pc'["timer"] = pc["timer"]) /\ (t = "timer" => pc'["timer"] # "return" /\ Ticking)
  BY DEF Parts, ThreadType, Threads, Resume, Ticking
<1>5. life # "live" => pc'["ipc"] = "idle" /\ pc'["osc"] = "idle"
  BY <1>3 DEF Parts, ThreadType, Threads, LifeInv
<1> QED
  BY <1>2, <1>3, <1>4, <1>5 DEF Ticking

LEMMA RunScheduleStep ==
    ASSUME Parts, NEW t \in Threads, RunSchedule(t)
    PROVE  LuaType' /\ LifeInv' /\ TickInv' /\ CountInv'
<1> DEFINE effect == EffectOf[todo[t]]
           e == [n |-> created + 1, target |-> luaBeat + effect.step, thunk |-> effect.then]
           l == Len(scheduled)
<1>1. /\ pc[t] = "run" /\ life' = life /\ luaBeat' = luaBeat /\ i' = i /\ fired' = fired
      /\ handler' = handler /\ created' = created + 1 /\ scheduled' = Append(scheduled, e)
      /\ pc' = [pc EXCEPT ![t] = Resume(t)]
  BY DEF RunSchedule, Goto
<1>2. /\ life # "prelude" /\ pc["timer"] # "return" /\ (Ticking' => Ticking) /\ pc'["timer"] # "return"
      /\ life # "live" => pc'["ipc"] = "idle" /\ pc'["osc"] = "idle"
      /\ life = "closed" => pc'["timer"] = "idle"
  BY <1>1, RunningKeeps, Zenon
<1>3. /\ scheduled \in Seq(Thunk) /\ fired \in Seq(Shot) /\ created \in Nat /\ luaBeat \in Nat
      /\ l \in Nat /\ Len(fired) \in Nat /\ DOMAIN scheduled = 1 .. l
      /\ i \in Nat /\ i >= 1 /\ i <= l + 1
  BY ListFacts DEF Parts
<1>4. effect.step \in Nat /\ effect.then \in Programs
  <2>1. todo[t] \in Programs
    BY <1>1 DEF Parts, RunInv
  <2> QED
    BY <2>1, LuaAssumption
<1>5. e \in Thunk /\ e.n = created + 1
  <2> HIDE DEF effect
  <2> QED
    BY <1>3, <1>4 DEF Thunk
<1> HIDE DEF e, effect
<1>6. /\ scheduled' \in Seq(Thunk) /\ Len(scheduled') = l + 1 /\ DOMAIN scheduled' = 1 .. l + 1
      /\ scheduled'[l + 1] = e /\ \A j \in 1 .. l : scheduled'[j] = scheduled[j]
  BY <1>1, <1>3, <1>5
<1> HIDE DEF l
<1>7. LuaType'
  <2>1. i' \in 1 .. Len(scheduled') + 1 /\ created' \in Nat
    BY <1>1, <1>3, <1>6
  <2> QED
    BY <1>1, <1>6, <2>1 DEF Parts, LuaType
<1>8. LifeInv'
  BY <1>1, <1>2 DEF LifeInv
<1>9. TickInv'
  <2>1. Ticking' => \A j \in 1 .. i - 1 : scheduled[j].target > luaBeat
    BY <1>2 DEF Parts, TickInv
  <2>2. \A j \in 1 .. i - 1 : j \in 1 .. l
    BY <1>3
  <2> QED
    BY <1>1, <1>2, <1>6, <2>1, <2>2, Zenon DEF TickInv, TickLeavesNothingDue
<1>10. CountInv'
  <2>1. /\ Len(fired) + l = created
        /\ \A j \in DOMAIN fired : fired[j].n \in 1 .. created /\ fired[j].target <= fired[j].at
        /\ \A j \in 1 .. l : scheduled[j].n \in 1 .. created
        /\ \A n \in 1 .. created : \/ \E j \in DOMAIN fired : fired[j].n = n
                                   \/ \E j \in 1 .. l : scheduled[j].n = n
    BY <1>3, Zenon DEF Parts, CountInv, l
  <2>2. Len(fired') + Len(scheduled') = created'
    BY <1>1, <1>3, <1>6, <2>1
  <2>3. /\ \A n \in 1 .. created : n \in 1 .. created + 1
        /\ \A n \in 1 .. created + 1 : n \in 1 .. created \/ n = created + 1
        /\ created + 1 \in 1 .. created + 1 /\ l + 1 \in 1 .. l + 1
        /\ \A j \in 1 .. l : j \in 1 .. l + 1
        /\ \A j \in 1 .. l + 1 : j \in 1 .. l \/ j = l + 1
    BY <1>3
  <2>4. \A j \in DOMAIN fired' : fired'[j].n \in 1 .. created' /\ fired'[j].target <= fired'[j].at
    BY <1>1, <2>1, <2>3
  <2>5. \A j \in DOMAIN scheduled' : scheduled'[j].n \in 1 .. created'
    BY <1>1, <1>5, <1>6, <2>1, <2>3
  <2>6. ASSUME NEW n \in 1 .. created'
        PROVE  (\E j \in DOMAIN fired' : fired'[j].n = n) \/ (\E j \in DOMAIN scheduled' : scheduled'[j].n = n)
    <3>1. CASE n = created + 1
      BY <1>5, <1>6, <2>3, <3>1
    <3>2. CASE n \in 1 .. created
      <4>1. CASE \E j \in DOMAIN fired : fired[j].n = n
        BY <1>1, <4>1
      <4>2. CASE \E j \in 1 .. l : scheduled[j].n = n
        BY <1>6, <2>3, <4>2
      <4> QED
        BY <2>1, <3>2, <4>1, <4>2
    <3> QED
      BY <1>1, <2>3, <3>1, <3>2
  <2> QED
    BY <2>2, <2>4, <2>5, <2>6 DEF CountInv
<1> QED
  BY <1>7, <1>8, <1>9, <1>10

LEMMA RunRegisterStep ==
    ASSUME Parts, NEW t \in Threads, RunRegister(t)
    PROVE  LuaType' /\ LifeInv' /\ TickInv' /\ CountInv'
<1>1. /\ pc[t] = "run" /\ life' = life /\ luaBeat' = luaBeat /\ i' = i /\ fired' = fired
      /\ created' = created /\ scheduled' = scheduled
      /\ handler' = "none" \/ handler' = EffectOf[todo[t]].then
  BY DEF RunRegister
<1>2. PICK l \in {"push", Resume(t)} : pc' = [pc EXCEPT ![t] = l]
  BY Zenon DEF RunRegister, Goto
<1>3. /\ life # "prelude" /\ pc["timer"] # "return" /\ (Ticking' => Ticking) /\ pc'["timer"] # "return"
      /\ life # "live" => pc'["ipc"] = "idle" /\ pc'["osc"] = "idle"
      /\ life = "closed" => pc'["timer"] = "idle"
  BY <1>1, <1>2, RunningKeeps, Zenon
<1>4. handler' \in Programs \cup {"none"}
  <2>1. todo[t] \in Programs
    BY <1>1 DEF Parts, RunInv
  <2>2. EffectOf[todo[t]].then \in Programs
    BY <2>1, LuaAssumption
  <2> QED
    BY <1>1, <2>2
<1>5. LuaType' /\ CountInv'
  BY <1>1, <1>4 DEF Parts, LuaType, CountInv
<1>6. LifeInv'
  BY <1>1, <1>3 DEF LifeInv
<1>7. TickInv'
  BY <1>1, <1>3 DEF Parts, TickInv, TickLeavesNothingDue
<1> QED
  BY <1>5, <1>6, <1>7

-----------------------------------------------------------------------------
(* The theorems                                                            *)

LEMMA InitParts == Init => Parts
<1> SUFFICES ASSUME Init PROVE Parts
  OBVIOUS
<1>1. ThreadType /\ MutexInv /\ RunInv
  <2>1. \A t \in Threads : pc[t] = "idle" /\ mutex # t
    BY DEF Init, Threads, NoOne
  <2>2. calls \in 0 .. MaxCalls /\ beat \in 0 .. MaxBeat
    BY LuaAssumption DEF Init
  <2>3. ThreadType
    BY <2>2, Zenon DEF Init, ThreadType
  <2> QED
    BY <2>1, <2>3 DEF MutexInv, RunInv
<1>2. LuaType
  BY LuaAssumption DEF Init, LuaType
<1>3. LifeInv /\ TickInv
  BY DEF Init, LifeInv, TickInv, TickLeavesNothingDue, Ticking, Threads
<1>4. CountInv
  BY DEF Init, CountInv
<1> QED
  BY <1>1, <1>2, <1>3, <1>4 DEF Parts

LEMMA PartsStep == Parts /\ [Next]_vars => Parts'
<1> SUFFICES ASSUME Parts, [Next]_vars PROVE Parts'
  OBVIOUS
<1>1. ThreadType' /\ MutexInv' /\ RunInv'
  BY ThreadStep DEF Parts
<1>2. LuaType' /\ LifeInv' /\ TickInv' /\ CountInv'
  BY <1>1, Cases, QuietStep, EnterTickStep, TickFireStep, TickPassStep, RunScheduleStep, RunRegisterStep
<1> QED
  BY <1>1, <1>2 DEF Parts

(* Every step of the loader, the IPC, the timer and the OSC thread preserves LuaInv,
   for every set of programs. *)
THEOREM LuaInvariance == Spec => []LuaInv
<1>1. Spec => []Parts
  BY InitParts, PartsStep, PTL DEF Spec
<1> QED
  BY <1>1, LuaInvParts, PTL

(* A thunk given to schedule-at runs at most once and never before its beat, and none
   is lost from the list, whatever the thunks that run schedule or register. *)
THEOREM ThunkSafety == Spec => []ThunkRunsOnceWhenDue
<1>1. LuaInv => ThunkRunsOnceWhenDue
  BY DEF LuaInv
<1> QED
  BY <1>1, LuaInvariance, PTL

(* nomos_rt_tick leaves nothing behind whose beat has come, though it removes from
   the list it walks and the thunks it runs append to it. *)
THEOREM TickSafety == Spec => []TickLeavesNothingDue
<1>1. LuaInv => TickLeavesNothingDue
  BY DEF LuaInv
<1> QED
  BY <1>1, LuaInvariance, PTL

(* mutex_ does its work once the prelude is loaded: no two threads are inside the Lua
   state together, and none is inside or on its way in after lua_close(). *)
THEOREM LuaExclusion == Spec => []OneInLua
<1>1. LuaInv => OneInLua
  <2> SUFFICES ASSUME LuaInv PROVE OneInLua
    OBVIOUS
  <2>1. life # "prelude" => \A s \in InLua : s \in Threads /\ mutex = s
    BY DEF LuaInv, InLua
  <2>2. life = "closed" => \A t \in Threads : pc[t] = "idle"
    BY DEF LuaInv, Threads
  <2> QED
    BY <2>1, <2>2 DEF OneInLua
<1> QED
  BY <1>1, LuaInvariance, PTL
================================================================================

---------------------------- MODULE LuaParticipant ----------------------------
(***************************************************************************)
(* luajit_participant: one Lua state shared by the thread that loads it,   *)
(* the IPC thread (eval), the 25 Hz timer thread (tick_once) and the OSC   *)
(* server's thread (dispatch_osc, get_osc_endpoints), and the Fennel       *)
(* prelude's scheduler and OSC registry that live inside that state.       *)
(*                                                                         *)
(* What a piece of Fennel does is a program: a value, schedule-at with a   *)
(* thunk, osc.register with a handler, or osc.unregister; a thunk or a     *)
(* handler is a program again, and handlers are registered for one path.   *)
(* The OSC server is here as far as it calls the participant and the       *)
(* participant calls it (push_endpoints).  A tick during load_prelude()    *)
(* uses the Lua state together with the loader: PreludeIsAlone shows that  *)
(* it happens, what it does to the Lua state is not modelled, and the      *)
(* other properties are about a state that has survived it.                *)
(***************************************************************************)
EXTENDS Naturals, Sequences, SequencesExt

CONSTANTS
    Programs,   \* names of programs
    EffectOf,   \* what each does: [kind, step, then]
    PushWired,  \* register_osc_push_fn() has been called
    MaxBeat,    \* bound: beats are 0 .. MaxBeat
    MaxCalls    \* bound: calls by the IPC and the OSC thread

Kinds == {"value", "schedule", "register", "unregister"}

ASSUME LuaAssumption ==
    /\ EffectOf \in [Programs -> [kind : Kinds, step : Nat, then : Programs]]
    /\ PushWired \in BOOLEAN /\ MaxBeat \in Nat /\ MaxCalls \in Nat

Threads == {"ipc", "timer", "osc"}
NoOne   == "none"

VARIABLES
    life,       \* "prelude" while load_prelude() runs, "live", "join", "closed"
    mutex,      \* who holds mutex_
    pc,         \* where each thread is in its call
    call,       \* which call it is: "eval", "dispatch", "pull" or "tick"
    todo,       \* the program each call is to run, or "none"
    calls,      \* calls begun so far
    beat,       \* beat_
    luaBeat,    \* the global nomos-beat
    i,          \* the loop variable of nomos_rt_tick
    scheduled,  \* the global nomos-scheduled
    created,    \* thunks scheduled so far; numbers them
    fired,      \* history: the thunks that have run
    handler,    \* the global nomos-osc-dispatch: a handler, or "none"
    hasSender   \* osc_server::has_sender_

luaVars == <<luaBeat, i, scheduled, created, fired, handler>>
vars    == <<life, mutex, pc, call, todo, calls, beat, luaVars, hasSender>>

Init ==
    /\ life = "prelude" /\ mutex = NoOne
    /\ pc = [t \in Threads |-> "idle"] /\ call = [t \in Threads |-> "none"]
    /\ todo = [t \in Threads |-> "none"] /\ calls = 0
    /\ beat = 0 /\ luaBeat = 0 /\ i = 1
    /\ scheduled = <<>> /\ created = 0 /\ fired = <<>>
    /\ handler = "none" /\ hasSender = FALSE

\* Thread t goes to l.
Goto(t, l) == pc' = [pc EXCEPT ![t] = l]

-----------------------------------------------------------------------------
(* Life cycle                                                              *)

\* load() has evaluated the prelude, without the mutex, and returns.  The
\* constructor has started the timer thread before.
PreludeDone ==
    /\ life = "prelude"
    /\ life' = "live"
    /\ UNCHANGED <<mutex, pc, call, todo, calls, beat, luaVars, hasSender>>

\* ~luajit_participant(), when nobody else calls it any more.
DestroyBegin ==
    /\ life = "live" /\ pc["ipc"] = "idle" /\ pc["osc"] = "idle"
    /\ life' = "join"
    /\ UNCHANGED <<mutex, pc, call, todo, calls, beat, luaVars, hasSender>>

\* tick_thread_.join(); lua_close(L_)
DestroyEnd ==
    /\ life = "join" /\ pc["timer"] = "idle"
    /\ life' = "closed"
    /\ UNCHANGED <<mutex, pc, call, todo, calls, beat, luaVars, hasSender>>

\* set_beat(): the host's timeline may stand still or jump.
SetBeat(b) ==
    /\ life = "live" /\ b # beat
    /\ beat' = b
    /\ UNCHANGED <<life, mutex, pc, call, todo, calls, luaVars, hasSender>>

-----------------------------------------------------------------------------
(* Calls: each begins by waiting for the mutex                             *)

Begin(t, kind, program) ==
    /\ pc[t] = "idle"
    /\ Goto(t, "wait")
    /\ call' = [call EXCEPT ![t] = kind]
    /\ todo' = [todo EXCEPT ![t] = program]
    /\ UNCHANGED <<life, mutex, beat, luaVars>>

Eval(program) ==
    /\ life = "live" /\ calls < MaxCalls
    /\ calls' = calls + 1
    /\ Begin("ipc", "eval", program)
    /\ UNCHANGED hasSender

\* The OSC thread receives a packet: run() notes its sender, then a path without a
\* static route goes to dispatch_osc(), /nous/endpoints to get_osc_endpoints().
Packet(kind) ==
    /\ life = "live" /\ calls < MaxCalls
    /\ calls' = calls + 1
    /\ Begin("osc", kind, "none")
    /\ hasSender' = TRUE

\* The timer thread wakes up while tick_running_ is set.
TimerWakes ==
    /\ life \in {"prelude", "live"}
    /\ Begin("timer", "tick", "none")
    /\ UNCHANGED <<calls, hasSender>>

\* std::lock_guard lk(mutex_)
Lock(t) ==
    /\ pc[t] = "wait" /\ mutex = NoOne
    /\ mutex' = t
    /\ Goto(t, "enter")
    /\ UNCHANGED <<life, call, todo, calls, beat, luaVars, hasSender>>

\* eval() runs its source.
EnterEval ==
    /\ pc["ipc"] = "enter"
    /\ Goto("ipc", "run")
    /\ UNCHANGED <<life, mutex, call, todo, calls, beat, luaVars, hasSender>>

\* dispatch_osc() runs the handler of the path if there is one.
EnterDispatch ==
    /\ pc["osc"] = "enter" /\ call["osc"] = "dispatch"
    /\ todo' = [todo EXCEPT !["osc"] = handler]
    /\ Goto("osc", IF handler = "none" THEN "return" ELSE "run")
    /\ UNCHANGED <<life, mutex, call, calls, beat, luaVars, hasSender>>

\* get_osc_endpoints() lists the registered paths.
EnterPull ==
    /\ pc["osc"] = "enter" /\ call["osc"] = "pull"
    /\ Goto("osc", "return")
    /\ UNCHANGED <<life, mutex, call, todo, calls, beat, luaVars, hasSender>>

\* tick_once(): nomos_rt_tick(beat, bpm), unless the prelude has yet to define it.
EnterTick ==
    /\ pc["timer"] = "enter"
    /\ IF life = "prelude" THEN Goto("timer", "return") /\ UNCHANGED luaBeat
                           ELSE Goto("timer", "loop") /\ luaBeat' = beat
    /\ i' = 1
    /\ UNCHANGED <<life, mutex, call, todo, calls, beat, scheduled, created, fired, handler,
                   hasSender>>

-----------------------------------------------------------------------------
(* Inside Lua                                                              *)

\* Mutant: a thunk is due only after its beat.
DueStrict == scheduled[i].target < luaBeat

\* (>= beat ev.target)
Due == scheduled[i].target <= luaBeat

\* Mutant: the thunk is called before it is removed, and is not removed.
TickFireKeeps ==
    /\ pc["timer"] = "loop" /\ i <= Len(scheduled) /\ Due
    /\ todo' = [todo EXCEPT !["timer"] = scheduled[i].thunk]
    /\ fired' = Append(fired, [n |-> scheduled[i].n, target |-> scheduled[i].target, at |-> luaBeat])
    /\ i' = i + 1
    /\ Goto("timer", "run")
    /\ UNCHANGED <<life, mutex, call, calls, beat, luaBeat, scheduled, created, handler, hasSender>>

\* (table.remove nomos-scheduled i) (pcall ev.thunk)
TickFire ==
    /\ pc["timer"] = "loop" /\ i <= Len(scheduled) /\ Due
    /\ todo' = [todo EXCEPT !["timer"] = scheduled[i].thunk]
    /\ fired' = Append(fired, [n |-> scheduled[i].n, target |-> scheduled[i].target, at |-> luaBeat])
    /\ scheduled' = RemoveAt(scheduled, i)
    /\ Goto("timer", "run")
    /\ UNCHANGED <<life, mutex, call, calls, beat, luaBeat, i, created, handler, hasSender>>

\* Mutant: the index does not move past a thunk that is not due.
TickPassStays ==
    /\ pc["timer"] = "loop"
    /\ i > Len(scheduled)
    /\ Goto("timer", "return")
    /\ UNCHANGED <<life, mutex, call, todo, calls, beat, luaVars, hasSender>>

\* (set i (+ i 1)), or the end of the loop.
TickPass ==
    /\ pc["timer"] = "loop"
    /\ IF i <= Len(scheduled) THEN ~Due /\ i' = i + 1 /\ UNCHANGED pc
                              ELSE Goto("timer", "return") /\ UNCHANGED i
    /\ UNCHANGED <<life, mutex, call, todo, calls, beat, luaBeat, scheduled, created, fired,
                   handler, hasSender>>

\* Where thread t goes on after its program.
Resume(t) == IF t = "timer" THEN "loop" ELSE "return"

\* The program returns a value, or fails inside pcall.
RunValue(t) ==
    /\ pc[t] = "run" /\ EffectOf[todo[t]].kind = "value"
    /\ Goto(t, Resume(t))
    /\ UNCHANGED <<life, mutex, call, todo, calls, beat, luaVars, hasSender>>

\* schedule-at: the target is nomos-beat plus one beat or one bar.
RunSchedule(t) ==
    /\ pc[t] = "run" /\ EffectOf[todo[t]].kind = "schedule"
    /\ LET e == EffectOf[todo[t]] IN
         scheduled' = Append(scheduled, [n |-> created + 1, target |-> luaBeat + e.step,
                                         thunk |-> e.then])
    /\ created' = created + 1
    /\ Goto(t, Resume(t))
    /\ UNCHANGED <<life, mutex, call, todo, calls, beat, luaBeat, i, fired, handler, hasSender>>

\* osc.register and osc.unregister, up to the call of nomos_osc_push_endpoints.
RunRegister(t) ==
    /\ pc[t] = "run" /\ EffectOf[todo[t]].kind \in {"register", "unregister"}
    /\ LET e == EffectOf[todo[t]] IN
         handler' = IF e.kind = "register" THEN e.then ELSE "none"
    /\ Goto(t, IF PushWired THEN "push" ELSE Resume(t))
    /\ UNCHANGED <<life, mutex, call, todo, calls, beat, luaBeat, i, scheduled, created, fired,
                   hasSender>>

\* osc_server::push_endpoints(), called from inside Lua: without a sender it
\* returns; with one it calls get_osc_endpoints(), which waits for mutex_.  The
\* caller holds that mutex, a std::mutex: it never gets past "relock".
PushEndpoints(t) ==
    /\ pc[t] = "push"
    /\ Goto(t, IF hasSender THEN "relock" ELSE Resume(t))
    /\ UNCHANGED <<life, mutex, call, todo, calls, beat, luaVars, hasSender>>

\* The lock_guard's destructor, and the end of the call.
Return(t) ==
    /\ pc[t] = "return"
    /\ mutex' = NoOne
    /\ Goto(t, "idle")
    /\ UNCHANGED <<life, call, todo, calls, beat, luaVars, hasSender>>

-----------------------------------------------------------------------------

InCall(t) ==
    RunValue(t) \/ RunSchedule(t) \/ RunRegister(t) \/ PushEndpoints(t) \/ Return(t)

Working ==
    \/ EnterEval \/ EnterDispatch \/ EnterPull \/ EnterTick
    \/ TickFire \/ TickPass
    \/ \E t \in Threads : InCall(t)

Next ==
    \/ PreludeDone \/ DestroyBegin \/ DestroyEnd
    \/ \E b \in 0 .. MaxBeat : SetBeat(b)
    \/ \E p \in Programs : Eval(p)
    \/ \E kind \in {"dispatch", "pull"} : Packet(kind)
    \/ TimerWakes
    \/ \E t \in Threads : Lock(t)
    \/ Working

Spec == Init /\ [][Next]_vars

\* load() finishes, the holder of the mutex runs on, the timer keeps waking up, and a
\* thread that waits for the mutex gets it in the end: the timer thread, the only
\* one that always comes back, sleeps 40 ms between two ticks.
FairSpec ==
    /\ Spec
    /\ WF_vars(PreludeDone) /\ WF_vars(Working) /\ WF_vars(TimerWakes) /\ WF_vars(DestroyEnd)
    /\ \A t \in Threads : SF_vars(Lock(t))

-----------------------------------------------------------------------------

TypeOK ==
    /\ life \in {"prelude", "live", "join", "closed"}
    /\ mutex \in Threads \cup {NoOne}
    /\ pc \in [Threads -> {"idle", "wait", "enter", "loop", "run", "push", "relock", "return"}]
    /\ call \in [Threads -> {"none", "eval", "dispatch", "pull", "tick"}]
    /\ todo \in [Threads -> Programs \cup {"none"}] /\ calls \in 0 .. MaxCalls
    /\ beat \in 0 .. MaxBeat /\ luaBeat \in 0 .. MaxBeat
    /\ scheduled \in Seq([n : Nat, target : Nat, thunk : Programs]) /\ created \in Nat
    /\ i \in 1 .. Len(scheduled) + 1
    /\ fired \in Seq([n : Nat, target : Nat, at : Nat])
    /\ handler \in Programs \cup {"none"} /\ hasSender \in BOOLEAN

\* The threads that are using the Lua state.
InLua ==
    {t \in Threads : pc[t] \notin {"idle", "wait"}}
        \cup (IF life = "prelude" THEN {"loader"} ELSE {})

(* The comment in load_prelude(): it "is called during load() before the tick thread
   starts, so no mutex is needed here": the loader is alone in the Lua state. *)
PreludeIsAlone == life = "prelude" => InLua = {"loader"}

(* A thunk given to schedule-at runs at most once and never before its beat, also when
   the thunks that run schedule others in the list the tick is walking. *)
ThunkRunsOnceWhenDue ==
    /\ TypeOK
    /\ \A j \in DOMAIN fired : fired[j].target <= fired[j].at
    /\ LET ran     == [j \in DOMAIN fired |-> fired[j].n]
           waiting == [j \in DOMAIN scheduled |-> scheduled[j].n]
       IN  Len(ran \o waiting) = created /\ ToSet(ran \o waiting) = 1 .. created

(* When nomos_rt_tick ends no thunk whose beat has come is left behind: removing
   from the list while walking it skips nothing. *)
TickLeavesNothingDue ==
    pc["timer"] = "return" => \A j \in DOMAIN scheduled : scheduled[j].target > luaBeat

(* Once the prelude is loaded at most one thread is inside the Lua state, the one
   that holds mutex_; after lua_close() no thread is inside it or waits to enter. *)
OneInLua ==
    /\ life # "prelude" => \A s, t \in InLua : s = t
    /\ life = "closed" => \A t \in Threads : pc[t] = "idle"

\* The timer thread is inside nomos_rt_tick.
Ticking == pc["timer"] \in {"loop", "run", "push", "relock"}

\* What every step preserves: besides the properties, that mutex_ is held by the one
\* thread inside, that whoever runs has a program, that nothing is scheduled before
\* the prelude is there, and that what the tick has walked past is not due.
LuaInv ==
    /\ ThunkRunsOnceWhenDue /\ TickLeavesNothingDue
    /\ \A t \in Threads : mutex = t <=> pc[t] \notin {"idle", "wait"}
    /\ \A t \in Threads :
          /\ pc[t] = "loop" => t = "timer"
          /\ pc[t] = "run" \/ (t = "ipc" /\ pc[t] \in {"wait", "enter"}) => todo[t] \in Programs
    /\ Ticking => \A j \in 1 .. i - 1 : scheduled[j].target > luaBeat
    /\ life = "prelude" => scheduled = <<>> /\ ~Ticking
    /\ life # "live" => pc["ipc"] = "idle" /\ pc["osc"] = "idle"
    /\ life = "closed" => pc["timer"] = "idle"

(* Every call that was begun returns: eval(), dispatch_osc(), get_osc_endpoints() and
   each tick, and with them the destructor. *)
CallsReturn ==
    /\ \A t \in Threads : (pc[t] # "idle") ~> (pc[t] = "idle")
    /\ (life = "join") ~> (life = "closed")

\* A thread waits for mutex_ while it holds it.
SelfLocked == \E t \in Threads : pc[t] = "relock" /\ mutex = t

(* The only thing that keeps a call, or the destructor, from returning is a Lua
   program that pushes the endpoints to a known sender: whatever else the threads
   do to each other, every call that was begun returns. *)
OnlySelfLockBlocks ==
    /\ \A t \in Threads : (pc[t] # "idle") ~> (pc[t] = "idle" \/ SelfLocked)
    /\ (life = "join") ~> (life = "closed" \/ SelfLocked)

(* A thunk runs once the beat has come and stays: no thunk is forgotten in the list. *)
ThunkRuns ==
    \A n \in 1 .. (2 * MaxCalls) :
        (\E j \in DOMAIN scheduled : scheduled[j].n = n)
            ~> \/ \E j \in DOMAIN fired : fired[j].n = n
               \/ \E j \in DOMAIN scheduled : scheduled[j].n = n /\ scheduled[j].target > beat
               \/ life \in {"join", "closed"} \/ SelfLocked
================================================================================

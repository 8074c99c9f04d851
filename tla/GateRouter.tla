----------------------------- MODULE GateRouter -----------------------------
(***************************************************************************)
(* The engine bridge (bridge/router.rs): how the agent loop turns a user's *)
(* messages, approvals and callbacks into calls on the thread manager and  *)
(* the pending gate store, what the web gateway does to the gates at the   *)
(* same time, and how all of it starts again after a crash.                *)
(*                                                                         *)
(* It composes ThreadManager, whose operations the agent calls and waits   *)
(* for, with GateBoard, the abstract store of pending gates that           *)
(* PendingGateStore implements.  agent_loop.rs handles one message at a    *)
(* time, to the end of the turn it started, so the agent is the only       *)
(* caller of the manager for the threads of conversations.  Beside it run  *)
(* the loops, the web gateway and the missions: the cron ticker, the event *)
(* listener, the missions a message fires and the watcher of each fire     *)
(* call the manager too, for threads of their own.                         *)
(***************************************************************************)
EXTENDS ThreadManager, GateBoard, FiniteSets

CONSTANTS
    Agent,          \* the agent loop
    AuthGates,      \* gates that ask for a credential
    ExternalGates,  \* gates that wait for an external callback; the others
                    \* ask for an approval
    FallbackGates,  \* authentication_fallback gates, for a thread whose
                    \* reply says that a credential was missing
    MissionThreads, \* threads the missions spawn
    OwnerThreads,   \* threads of the owner's project, the one recovery visits
    SlowTurns,      \* a turn may outlive await_thread_outcome's five minutes
    Crashes         \* whether the process may crash and restart

ASSUME RouterAssumption ==
    /\ Agent \in Callers
    /\ Keys = Threads
    /\ MissionThreads \subseteq Threads
    /\ KeyOf \in [Gates -> Threads \ MissionThreads]
    /\ AuthGates \subseteq Gates
    /\ ExternalGates \subseteq Gates \ AuthGates
    /\ FallbackGates \subseteq AuthGates
    /\ OwnerThreads \subseteq Threads
    /\ SlowTurns \in BOOLEAN
    /\ Crashes \in BOOLEAN

VARIABLES
    task,           \* where the agent's handler stands: its thread, the scope
                    \* of its message, the threads it has still to visit
    conv,           \* active_threads of the conversation of each scope
    web,            \* where the web gateway's handler stands
    callbacks,      \* gates whose ExternalCallback message is on its way
    phase           \* init_engine's progress; handlers run when it is "up"

routerVars == <<task, conv, web, callbacks, phase>>
vars == <<managerVars, boardVars, routerVars>>

TaskPC ==
    {"idle", "orphan", "fail", "route", "routing", "poll", "joining", "post",
     "fallback", "execute", "resuming", "stopping", "interrupt", "clear"}
IdleTask == [pc |-> "idle", thread |-> None, scope |-> None, todo |-> {}]

\* A message comes from the channel's main conversation, or is scoped to an
\* engine thread and has a conversation of its own.
Scopes == Threads \cup {None}
Conversations == Threads \ MissionThreads

WebPC == {"idle", "list", "discard", "configure"}
IdleWeb == [pc |-> "idle", gate |-> None, keys |-> {}, form |-> FALSE]

RouterTypeOK ==
    /\ TypeOK
    /\ posted \subseteq Gates /\ pending \subseteq posted
    /\ resolved \subseteq posted
    /\ task \in [pc : TaskPC, thread : Scopes, scope : Scopes,
                 todo : SUBSET Threads]
    /\ conv \in [Scopes -> SUBSET Conversations]
    /\ web \in [pc : WebPC, gate : Gates \cup {None}, keys : SUBSET Threads,
                form : BOOLEAN]
    /\ callbacks \subseteq posted
    /\ phase \in {"recover", "restore", "reconcile", "up"}

Init ==
    /\ ManagerInit
    /\ BoardInit
    /\ task = IdleTask
    /\ conv = [s \in Scopes |-> {}]
    /\ web = IdleWeb
    /\ callbacks = {}
    /\ phase = "up"

Waiting(t) == store[t] # None /\ store[t].state = "Waiting"
GatesOf(t) == {g \in pending : KeyOf[g] = t}
Untrack(t) == conv' = [s \in Scopes |-> conv[s] \ {t}]

\* The agent enters a manager operation and goes on when it has returned.
At(pc) == phase = "up" /\ task.pc = pc
Handle(pc, t) == task' = [IdleTask EXCEPT !.pc = pc, !.thread = t]
Goto(pc) == task' = [task EXCEPT !.pc = pc]
Finish == task' = IdleTask

Call(operation, t) ==
    op' = [op EXCEPT ![Agent] =
             [IdleOp EXCEPT !.pc = operation, !.thread = t]]
Answered == op[Agent].pc = "returned"
Consume == op' = [op EXCEPT ![Agent] = IdleOp]

\* What most steps of the agent leave alone.
keepManager == UNCHANGED <<store, loop, running, completed>>
keepRest == UNCHANGED <<web, callbacks, phase>>

-----------------------------------------------------------------------------
(* A message (handle_with_engine_inner).                                   *)

\* The gates of P a message may mean: all, or those of its scope.
GatesFor(scope, P) ==
    IF scope = None
    THEN P
    ELSE {g \in P : KeyOf[g] \in {scope} \cup conv[scope]}

\* A message that meets a gate repeats the prompt, or is itself the
\* resolution; with several gates and no scope it is refused as ambiguous,
\* with a scope the latest counts.  A gate that waits for a callback lets
\* the message through.
Admitted(scope, P) ==
    LET G == GatesFor(scope, P) IN
    /\ scope # None => store[scope] # None
    /\ G # {} => \E g \in G \cap ExternalGates : scope = None => G = {g}

\* If its scope names a thread, the handler first looks whether that thread
\* was left Waiting without a gate.
Receive(scope) ==
    task' = [pc |-> IF scope = None THEN "route" ELSE "orphan",
             thread |-> scope, scope |-> scope, todo |-> {}]

Message(scope) ==
    /\ At("idle")
    /\ Admitted(scope, pending)
    /\ Receive(scope)
    /\ keepManager /\ keepRest
    /\ UNCHANGED <<op, boardVars, conv>>

\* fail_orphaned_waiting_thread_if_needed and fail_waiting_thread, the latter
\* also when no backend can store a credential: a Waiting thread is failed
\* and the handler is done; otherwise a message goes on.
FailWaiting ==
    LET rec == store[task.thread]
        orphaned == /\ Waiting(task.thread)
                    /\ task.pc = "orphan" => GatesOf(task.thread) = {}
    IN
    /\ phase = "up" /\ task.pc \in {"orphan", "fail"}
    /\ IF orphaned
       THEN /\ store' = [store EXCEPT ![task.thread] =
                           [rec EXCEPT !.state = "Failed"]]
            /\ Finish
       ELSE /\ UNCHANGED store
            /\ IF task.pc = "orphan" THEN Goto("route") ELSE Finish
    /\ keepRest
    /\ UNCHANGED <<loop, running, completed, op, boardVars, conv>>

\* The safety checks refuse the text, or its project cannot be resolved.
Reject ==
    /\ At("route")
    /\ Finish
    /\ keepManager /\ keepRest
    /\ UNCHANGED <<op, boardVars, conv>>

\* handle_user_message: a running thread of the conversation gets the
\* message, a Suspended one is resumed with it, otherwise a thread is
\* spawned.  With no thread id left the bound on Threads ends the handler.
Route ==
    LET suspended(t) == store[t] # None /\ store[t].state = "Suspended"
        active == {t \in conv[task.scope] : IsRunning(t) \/ suspended(t)}
        fresh == {t \in Conversations : Fresh(t)}
        Enlist(operation, t) ==
            Call(operation, t) /\ task' = [task EXCEPT !.pc = "routing", !.thread = t]
    IN
    /\ At("route")
    /\ IF active # {}
       THEN \E t \in active : Enlist(IF IsRunning(t) THEN "inject" ELSE "resume", t)
       ELSE IF fresh # {}
            THEN \E t \in fresh : Enlist("spawn", t)
            ELSE Finish /\ UNCHANGED op
    /\ keepManager /\ keepRest
    /\ UNCHANGED <<boardVars, conv>>

\* The conversation tracks the thread once the operation has succeeded.
Routed ==
    /\ At("routing") /\ Answered
    /\ IF op[Agent].result = "Ok"
       THEN /\ conv' = [conv EXCEPT ![task.scope] = @ \cup {task.thread}]
            /\ Handle("poll", task.thread)
       ELSE Finish /\ UNCHANGED conv
    /\ Consume
    /\ keepManager /\ keepRest
    /\ UNCHANGED boardVars

-----------------------------------------------------------------------------
(* await_thread_outcome.                                                   *)

\* Mutant of Poll: the handler gives up a running thread and does not join it.
MutantPoll ==
    /\ At("poll")
    /\ IF IsRunning(task.thread)
       THEN Finish /\ UNCHANGED op
       ELSE Call("join", task.thread) /\ Goto("joining")
    /\ keepManager /\ keepRest
    /\ UNCHANGED <<boardVars, conv>>

\* Wait until the thread is not running any more, or for five minutes, and
\* join it either way.
Poll ==
    /\ At("poll")
    /\ ~IsRunning(task.thread) \/ SlowTurns
    /\ Call("join", task.thread)
    /\ Goto("joining")
    /\ keepManager /\ keepRest
    /\ UNCHANGED <<boardVars, conv>>

\* Record the outcome in the conversation, which keeps a paused thread.  A
\* failed join is an error the handler returns.  A completed turn whose
\* reply says authentication_required gets a gate after all.
Joined ==
    LET result == op[Agent].result IN
    /\ At("joining") /\ Answered
    /\ IF result \in Outcome \ {"GatePaused"}
       THEN Untrack(task.thread) ELSE UNCHANGED conv
    /\ \/ result = "GatePaused" /\ Goto("post")
       \/ result = "Completed" /\ Goto("fallback")
       \/ result # "GatePaused" /\ Finish
    /\ Consume
    /\ keepManager /\ keepRest
    /\ UNCHANGED boardVars

\* A fresh gate is stored for the paused or completed thread; a key that has
\* one refuses it, which is only logged.  With no gate id left the bound on
\* Gates ends the handler the same way.
PostGate ==
    LET kind == IF task.pc = "fallback" THEN FallbackGates ELSE Gates \ FallbackGates
        fresh == {g \in kind \ posted : KeyOf[g] = task.thread}
    IN
    /\ phase = "up" /\ task.pc \in {"post", "fallback"}
    /\ IF fresh = {}
       THEN UNCHANGED boardVars
       ELSE \E g \in fresh :
               IF OnePerKey(pending \cup {g}) THEN Post(g) ELSE Refuse(g)
    /\ Finish
    /\ keepManager /\ keepRest
    /\ UNCHANGED <<op, conv>>

-----------------------------------------------------------------------------
(* resolve_gate.                                                           *)

\* How a resolution goes on once take_verified has handed the gate out.
\* execute: an approval, or a credential or callback without a staged output,
\*          runs the gate's action; a fallback gate's is no action at all,
\*          and the error is returned;
\* resume:  a denial, or a staged output, resumes the thread;
\* requeue: a rejected credential or a pairing step stores another gate;
\* replay:  the credential of a fallback gate is stored, and the message that
\*          met its lack is handled again, in the scope of the answer;
\* fail:    no backend can store the credential;
\* drop:    storing the credential failed, which is only reported;
\* cancel:  the thread is to be stopped.
Resolutions == {"execute", "resume", "requeue", "replay", "fail", "drop", "cancel"}

RunAction(g) ==
    IF g \in FallbackGates THEN UNCHANGED task ELSE Handle("execute", KeyOf[g])

Requeue(g) ==
    Handle(IF g \in FallbackGates THEN "fallback" ELSE "post", KeyOf[g])

Replay(g) ==
    /\ g \in FallbackGates
    /\ \E scope \in Scopes :
          IF Admitted(scope, pending \ {g}) THEN Receive(scope) ELSE UNCHANGED task

ResolveGate(g, how) ==
    LET t == KeyOf[g] IN
    /\ At("idle")
    /\ Resolve(g)
    /\ CASE how = "execute" -> RunAction(g) /\ UNCHANGED op
         [] how = "resume"  -> Handle("resuming", t) /\ Call("resume", t)
         [] how = "requeue" -> Requeue(g) /\ UNCHANGED op
         [] how = "replay"  -> Replay(g) /\ UNCHANGED op
         [] how = "fail"    -> Handle("fail", t) /\ UNCHANGED op
         [] how = "drop"    -> UNCHANGED <<task, op>>
         [] how = "cancel"  -> Handle("stopping", t) /\ Call("stop", t)
    /\ keepManager /\ keepRest
    /\ UNCHANGED conv

\* The ExternalCallback message of a finished setup: its gate is executed, or
\* is gone and the callback fails.
Callback(g) ==
    /\ At("idle")
    /\ g \in callbacks
    /\ callbacks' = callbacks \ {g}
    /\ IF g \in pending
       THEN Resolve(g) /\ RunAction(g)
       ELSE UNCHANGED <<boardVars, task>>
    /\ keepManager
    /\ UNCHANGED <<op, conv, web, phase>>

\* execute_pending_gate_action: the action's output resumes the thread, the
\* action asks for another gate, or it fails and the error is returned.
Execute(result) ==
    /\ At("execute")
    /\ CASE result = "ok"     -> Goto("resuming") /\ Call("resume", task.thread)
         [] result = "paused" -> Goto("post") /\ UNCHANGED op
         [] result = "error"  -> Finish /\ UNCHANGED op
    /\ keepManager /\ keepRest
    /\ UNCHANGED <<boardVars, conv>>

Resumption ==
    /\ At("resuming") /\ Answered
    /\ IF op[Agent].result = "Ok" THEN Goto("poll") ELSE Finish
    /\ Consume
    /\ keepManager /\ keepRest
    /\ UNCHANGED <<boardVars, conv>>

-----------------------------------------------------------------------------
(* Interrupt, clear and the passing of time.                               *)

\* The stop that follows a cancellation, whatever it answers.
Stopped ==
    /\ At("stopping") /\ Answered
    /\ Finish
    /\ Consume
    /\ keepManager /\ keepRest
    /\ UNCHANGED <<boardVars, conv>>

\* handle_interrupt and clear_engine_conversation visit the threads of the
\* channel's main conversation, whatever the message's scope ...
Sweep(pc) ==
    /\ At("idle")
    /\ task' = [IdleTask EXCEPT !.pc = pc, !.todo = conv[None]]
    /\ keepManager /\ keepRest
    /\ UNCHANGED <<op, boardVars, conv>>

Sweeping == phase = "up" /\ task.pc \in {"interrupt", "clear"}

\* ... a running thread is sent a stop ...
SweepThread(t) ==
    /\ Sweeping /\ task.thread = None
    /\ t \in task.todo
    /\ task' = [task EXCEPT !.thread = t, !.todo = @ \ {t}]
    /\ IF IsRunning(t) THEN Call("stop", t) ELSE UNCHANGED op
    /\ keepManager /\ keepRest
    /\ UNCHANGED <<boardVars, conv>>

\* ... a clear also discards the thread's gates ...
SweepGates ==
    /\ Sweeping /\ task.thread # None
    /\ op[Agent].pc \in {"idle", "returned"}
    /\ Drop(IF task.pc = "clear" THEN GatesOf(task.thread) ELSE {})
    /\ task' = [task EXCEPT !.thread = None]
    /\ Consume
    /\ keepManager /\ keepRest
    /\ UNCHANGED conv

\* ... and in the end empties the conversation.
SweepEnd ==
    /\ Sweeping /\ task.thread = None /\ task.todo = {}
    /\ conv' = IF task.pc = "clear" THEN [conv EXCEPT ![None] = {}] ELSE conv
    /\ Finish
    /\ keepManager /\ keepRest
    /\ UNCHANGED <<op, boardVars>>

\* A gate older than its thirty minutes leaves the store.
Expire(g) ==
    /\ phase = "up"
    /\ g \in pending
    /\ Drop({g})
    /\ UNCHANGED <<managerVars, routerVars>>

-----------------------------------------------------------------------------
(* The web gateway, a task beside the agent: an extension's setup form     *)
(* (submitted for an auth gate's card) or an abandoned prompt.             *)

keepAgent ==
    UNCHANGED <<managerVars, task, conv, phase>>

\* Mutant of WebSubmit: a form for a gate that was never posted.
MutantWebSubmit(g, form) ==
    /\ phase = "up" /\ web.pc = "idle"
    /\ web' = [pc |-> "list", gate |-> g, keys |-> {}, form |-> form]
    /\ keepAgent
    /\ UNCHANGED <<boardVars, callbacks>>

WebSubmit(g, form) ==
    /\ phase = "up" /\ web.pc = "idle"
    /\ g \in posted \cap AuthGates
    /\ web' = [pc |-> "list", gate |-> g, keys |-> {}, form |-> form]
    /\ keepAgent
    /\ UNCHANGED <<boardVars, callbacks>>

\* clear_engine_pending_auth: the user's auth gates are listed ...
WebList ==
    /\ phase = "up" /\ web.pc = "list"
    /\ web' = [web EXCEPT !.pc = "discard",
                          !.keys = {KeyOf[g] : g \in pending \cap AuthGates}]
    /\ keepAgent
    /\ UNCHANGED <<boardVars, callbacks>>

\* ... and what is pending under their keys is discarded.
WebDiscard ==
    /\ phase = "up" /\ web.pc = "discard"
    /\ Drop({g \in pending : KeyOf[g] \in web.keys})
    /\ web' = IF web.form
              THEN [web EXCEPT !.pc = "configure", !.keys = {}] ELSE IdleWeb
    /\ keepAgent
    /\ UNCHANGED callbacks

\* configure() is done.  Ready: the callback of the form's gate is sent to
\* the agent.  PairingRequired: the gate is to be replaced, but is not found.
WebConfigured(ready) ==
    /\ phase = "up" /\ web.pc = "configure"
    /\ callbacks' = IF ready THEN callbacks \cup {web.gate} ELSE callbacks
    /\ web' = IdleWeb
    /\ keepAgent
    /\ UNCHANGED boardVars

-----------------------------------------------------------------------------
(* Crash and restart (init_engine).                                        *)

\* Everything in memory is gone; records, conversation and gate file stay.
Crash ==
    /\ Crashes
    /\ loop' = [h \in Loops |-> VacantLoop]
    /\ running' = [t \in Threads |-> None]
    /\ completed' = [t \in Threads |-> None]
    /\ op' = [c \in Callers |-> IdleOp]
    /\ task' = IdleTask
    /\ web' = IdleWeb
    /\ callbacks' = {}
    /\ phase' = "recover"
    /\ UNCHANGED <<store, boardVars, conv>>

\* Mutant of Recovered: only checkpointed and Waiting threads are looked at.
MutantRecovered(rec) ==
    CASE rec.ckpt /\ rec.state \in {"Running", "Suspended"} ->
            [rec EXCEPT !.state = "Suspended"]
      [] rec.state = "Waiting" -> [rec EXCEPT !.state = "Failed"]
      [] OTHER -> rec

\* recover_project_threads on one record.  No code outside the tests sets the
\* pending_approval key that would let a Waiting thread through.
Recovered(rec) ==
    CASE rec.state \in {"Done", "Failed", "Completed"} -> rec
      [] rec.ckpt /\ rec.state \in {"Running", "Suspended"} ->
            [rec EXCEPT !.state = "Suspended"]
      [] OTHER -> [rec EXCEPT !.state = "Failed"]

Recover ==
    /\ phase = "recover"
    /\ store' = [t \in Threads |->
                    IF t \in OwnerThreads /\ store[t] # None
                    THEN Recovered(store[t]) ELSE store[t]]
    /\ phase' = "restore"
    /\ UNCHANGED <<loop, running, completed, op, boardVars, task, conv, web,
                   callbacks>>

\* restore_from_persistence: the gates pending at the crash, or, where the
\* file had missed updates, others posted before.
RestoreGates(S) ==
    /\ phase = "restore"
    /\ Restart(S)
    /\ phase' = "reconcile"
    /\ UNCHANGED <<managerVars, task, conv, web, callbacks>>

\* Mutant of Reconcile: gates of threads that do not wait are kept.
MutantReconcile ==
    /\ phase = "reconcile"
    /\ Drop({})
    /\ store' = [t \in Threads |->
                    IF Waiting(t) /\ GatesOf(t) = {}
                    THEN [store[t] EXCEPT !.state = "Failed"] ELSE store[t]]
    /\ phase' = "up"
    /\ UNCHANGED <<loop, running, completed, op, task, conv, web, callbacks>>

\* reconcile_pending_gate_state: a gate needs a Waiting thread, and in every
\* project a Waiting thread needs a gate.
Reconcile ==
    /\ phase = "reconcile"
    /\ Drop({g \in pending : ~Waiting(KeyOf[g])})
    /\ store' = [t \in Threads |->
                    IF Waiting(t) /\ GatesOf(t) = {}
                    THEN [store[t] EXCEPT !.state = "Failed"] ELSE store[t]]
    /\ phase' = "up"
    /\ UNCHANGED <<loop, running, completed, op, task, conv, web, callbacks>>

-----------------------------------------------------------------------------
(* The steps of the manager and of its loops, under the router.            *)

Operate ==
    /\ OperationStep(Agent)
    /\ UNCHANGED <<boardVars, routerVars>>

Turn(h) ==
    /\ LoopStep(h)
    /\ UNCHANGED <<boardVars, routerVars>>

\* A mission fires on a tick, an event or a message: a thread is spawned,
\* beside whatever the agent does.  The ticker and the listener start right
\* after recovery, before the gates are restored ...
MissionFire(c, t) ==
    /\ phase # "recover"
    /\ op[c].pc = "idle" /\ Fresh(t)
    /\ op' = [op EXCEPT ![c] = [IdleOp EXCEPT !.pc = "spawn", !.thread = t]]
    /\ UNCHANGED <<store, loop, running, completed, boardVars, routerVars>>

MissionOperate(c) ==
    /\ phase # "recover"
    /\ OperationStep(c)
    /\ UNCHANGED <<boardVars, routerVars>>

\* ... and once it is started a watcher joins it, to the end.
MissionWatch(c) ==
    /\ phase # "recover"
    /\ op[c].pc = "returned"
    /\ op' = [op EXCEPT ![c] =
                IF op[c].result = "Ok"
                THEN [IdleOp EXCEPT !.pc = "join", !.thread = op[c].thread]
                ELSE IdleOp]
    /\ UNCHANGED <<store, loop, running, completed, boardVars, routerVars>>

MissionStep ==
    \E c \in Callers \ {Agent} :
        \/ \E t \in MissionThreads : MissionFire(c, t)
        \/ MissionOperate(c) \/ MissionWatch(c)

UserStep ==
    \/ \E scope \in Scopes : Message(scope)
    \/ \E pc \in {"interrupt", "clear"} : Sweep(pc)
    \/ \E g \in Gates : Callback(g)
    \/ \E g \in Gates, how \in Resolutions : ResolveGate(g, how)

HandlerStep ==
    \/ FailWaiting \/ Reject \/ Route \/ Routed \/ Poll \/ Joined
    \/ PostGate
    \/ \E result \in {"ok", "paused", "error"} : Execute(result)
    \/ Resumption \/ Stopped
    \/ \E t \in Threads : SweepThread(t)
    \/ SweepGates \/ SweepEnd

WebStep ==
    \/ \E g \in Gates, form \in BOOLEAN : WebSubmit(g, form)
    \/ WebList \/ WebDiscard
    \/ \E ready \in BOOLEAN : WebConfigured(ready)

Boot ==
    \/ Recover \/ Reconcile
    \/ \E S \in SUBSET Gates : RestoreGates(S)

Next ==
    \/ UserStep \/ HandlerStep \/ Operate \/ WebStep
    \/ \E h \in Loops : Turn(h)
    \/ MissionStep
    \/ \E g \in Gates : Expire(g)
    \/ Crash \/ Boot

Spec == Init /\ [][Next]_vars

\* The agent's task is polled whenever it can go on.
AgentFairness == WF_vars(HandlerStep) /\ WF_vars(Operate)

\* The agent and the loops go on, but a turn may last.
LastingTurnsSpec == Spec /\ AgentFairness /\ \A h \in Loops : WF_vars(Turn(h))

-----------------------------------------------------------------------------
(* Properties.                                                             *)

LiveLoops == {h \in Loops : loop[h].pc \in Live}
ConversationLoops == {h \in LiveLoops : loop[h].thread \in Conversations}

\* Whatever missions run beside it, no two loops are ever live on threads of
\* conversations, and the turn of a live one is the one the agent is waiting
\* for: the agent has entered the resumption, the spawn or the join of that
\* thread and has not been answered.
AgentOwnsTheTurn ==
    /\ Cardinality(ConversationLoops) <= 1
    /\ \A h \in ConversationLoops :
          /\ task.thread = loop[h].thread
          /\ task.pc \in {"routing", "resuming", "poll", "joining"}

\* A gate the user can resolve belongs to a thread that waits for it, its
\* stored record Waiting, or is a fallback gate, whose thread is done and
\* whose resolution begins a new turn.  No loop is at work on the thread.  This
\* is so as long as no turn outlives await_thread_outcome's five minutes: the
\* outcome of one that does may be read, and its gate posted, a second time.
GateMeansWaiting ==
    phase = "up" =>
        \A g \in pending :
            /\ \/ Waiting(KeyOf[g])
               \/ g \in FallbackGates /\ store[KeyOf[g]].state = "Done"
            /\ \A h \in LiveLoops : loop[h].thread # KeyOf[g]

\* Once the engine is up, a record of the owner's project that says Created
\* or Running has a loop that will write another state, or a caller that is
\* about to start one.
Abandoned(t) ==
    /\ store[t] # None /\ store[t].state \in {"Created", "Running"}
    /\ \A c \in Callers : ~(op[c].pc = "start" /\ op[c].thread = t)
    /\ \A h \in LiveLoops : loop[h].thread # t

OwnerRecordsAreLive ==
    phase = "up" => \A t \in OwnerThreads : ~Abandoned(t)

\* await_thread_outcome on its deadline: "break out to avoid hanging the user
\* session forever".
DeadlineBreaksOut == task.pc = "poll" ~> task.pc = "idle"
=============================================================================

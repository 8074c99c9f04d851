--------------------------- MODULE ThreadManager ---------------------------
(***************************************************************************)
(* The engine's thread manager (runtime/manager.rs) and the execution loop *)
(* it spawns for a thread (executor/loop_engine.rs, executor/orchestrator  *)
(* and orchestrator/default.py).                                           *)
(*                                                                         *)
(* A conversation thread is a persisted record.  While it executes, a      *)
(* tokio task, here a loop, owns a private copy of the record and writes   *)
(* it back whole.  The manager's `running` map holds the loop's handle and *)
(* signal sender, its `completed` map the outcome nobody has joined yet.   *)
(* Every operation of the manager is a sequence of steps between which the *)
(* locks are free: the steps of other callers and of the loops interleave. *)
(***************************************************************************)
EXTENDS Naturals, Sequences

CONSTANTS
    Threads,        \* ThreadIds
    Loops,          \* join handles of spawned loops
    Callers,        \* tasks that call the manager
    SignalCap,      \* capacity of a loop's signal channel (32 in start_thread)
    None            \* Option::None

ASSUME SignalCapAssumption == SignalCap \in Nat \ {0}

VARIABLES
    store,          \* Store: the persisted record of each thread
    loop,           \* the task behind each handle
    running,        \* ThreadManager.running: handle and sender per thread
    completed,      \* ThreadManager.completed: outcome per thread
    op              \* op[c]: the manager operation caller c is inside

managerVars == <<store, loop, running, completed, op>>

-----------------------------------------------------------------------------
(* Thread records and their states (types/thread.rs).                      *)

ThreadState ==
    {"Created", "Running", "Waiting", "Suspended", "Completed", "Done", "Failed"}

Transitions ==
    { <<"Created", "Running">>,   <<"Created", "Failed">>,
      <<"Running", "Waiting">>,   <<"Running", "Suspended">>,
      <<"Running", "Completed">>, <<"Running", "Failed">>,
      <<"Waiting", "Running">>,   <<"Waiting", "Failed">>,
      <<"Suspended", "Running">>, <<"Suspended", "Failed">>,
      <<"Completed", "Done">> }

CanTransition(from, to) == <<from, to>> \in Transitions

\* `ckpt`: the metadata map holds a runtime_checkpoint.
Record == [state : ThreadState, ckpt : BOOLEAN]
NewRecord == [state |-> "Created", ckpt |-> FALSE]

\* Completed stands for MaxIterations too: the two differ in the reply only.
Outcome == {"Completed", "Stopped", "Failed", "GatePaused"}
Signal == {"Stop", "Inject"}

Result == Outcome \cup {"Ok", "NotFound", "AlreadyRunning", "NotResumable"}

ASSUME NoneAssumption == None \notin Threads \cup Loops \cup Record \cup Result

-----------------------------------------------------------------------------
(* State.                                                                  *)

LoopPC ==
    {"vacant", "begin", "check", "work", "wrapup", "final", "report",
     "remove", "finished"}

\* From its first step until its outcome is published a loop acts on the
\* thread: it talks to the model, runs tools and writes the record.
Live == {"begin", "check", "work", "wrapup", "final"}

VacantLoop ==
    [pc |-> "vacant", thread |-> None, rec |-> NewRecord,
     outcome |-> None, inbox |-> << >>]

OpPC ==
    {"idle", "spawn", "resume", "load", "save", "start", "register",
     "stop", "inject", "sending", "join", "take", "awaiting", "clear",
     "returned"}

IdleOp ==
    [pc |-> "idle", thread |-> None, rec |-> NewRecord, loop |-> None,
     signal |-> "Stop", result |-> None]

LoopTask ==
    [pc : LoopPC, thread : Threads \cup {None}, rec : Record,
     outcome : Outcome \cup {None}, inbox : Seq(Signal)]

Operation ==
    [pc : OpPC, thread : Threads \cup {None}, rec : Record,
     loop : Loops \cup {None}, signal : Signal, result : Result \cup {None}]

\* The types, and no signal channel beyond its capacity.
TypeOK ==
    /\ store \in [Threads -> Record \cup {None}]
    /\ loop \in [Loops -> LoopTask]
    /\ \A h \in Loops : Len(loop[h].inbox) <= SignalCap
    /\ running \in [Threads -> Loops \cup {None}]
    /\ completed \in [Threads -> Outcome \cup {None}]
    /\ op \in [Callers -> Operation]

ManagerInit ==
    /\ store = [t \in Threads |-> None]
    /\ loop = [h \in Loops |-> VacantLoop]
    /\ running = [t \in Threads |-> None]
    /\ completed = [t \in Threads |-> None]
    /\ op = [c \in Callers |-> IdleOp]

\* is_running: the entry is there and its task has not ended.
IsRunning(t) ==
    /\ running[t] # None
    /\ loop[running[t]].pc # "finished"

\* A caller blocked on a full channel keeps its read guard on `running`.
RunningIsReadLocked == \E c \in Callers : op[c].pc = "sending"

\* The task may still be reached through its handle.
Referenced(h) ==
    \/ \E t \in Threads : running[t] = h
    \/ \E c \in Callers : op[c].loop = h

Step(c, pc) == op' = [op EXCEPT ![c] = [@ EXCEPT !.pc = pc]]

Return(c, result) ==
    op' = [op EXCEPT ![c] = [IdleOp EXCEPT !.pc = "returned",
                                           !.thread = op[c].thread,
                                           !.result = result]]

-----------------------------------------------------------------------------
(* The operations of the manager, step by step.                            *)

\* spawn_thread_with_history up to save_thread.
Spawn(c) ==
    /\ op[c].pc = "spawn"
    /\ store' = [store EXCEPT ![op[c].thread] = NewRecord]
    /\ op' = [op EXCEPT ![c] = [@ EXCEPT !.pc = "start", !.rec = NewRecord]]
    /\ UNCHANGED <<loop, running, completed>>

\* resume_thread: refuse a running thread ...
ResumeCheck(c) ==
    /\ op[c].pc = "resume"
    /\ IF IsRunning(op[c].thread)
       THEN Return(c, "AlreadyRunning")
       ELSE Step(c, "load")
    /\ UNCHANGED <<store, loop, running, completed>>

\* ... load the record, which must be Waiting or Suspended; a Waiting one
\* continues from the injected message and loses its checkpoint ...
Resumed(rec) ==
    IF rec.state = "Waiting" THEN [rec EXCEPT !.ckpt = FALSE] ELSE rec

ResumeLoad(c) ==
    LET rec == store[op[c].thread] IN
    /\ op[c].pc = "load"
    /\ IF rec = None
       THEN Return(c, "NotFound")
       ELSE IF rec.state \notin {"Waiting", "Suspended"}
            THEN Return(c, "NotResumable")
            ELSE op' = [op EXCEPT ![c] =
                          [@ EXCEPT !.pc = "save", !.rec = Resumed(rec)]]
    /\ UNCHANGED <<store, loop, running, completed>>

\* ... write the copy back, whatever the record has become meanwhile.
ResumeSave(c) ==
    /\ op[c].pc = "save"
    /\ store' = [store EXCEPT ![op[c].thread] = op[c].rec]
    /\ Step(c, "start")
    /\ UNCHANGED <<loop, running, completed>>

\* start_thread: the task is spawned first, its handle is stored afterwards.
StartLoop(c, h) ==
    /\ op[c].pc = "start"
    /\ loop[h].pc \in {"vacant", "finished"} /\ ~Referenced(h)
    /\ loop' = [loop EXCEPT ![h] = [VacantLoop EXCEPT !.pc = "begin",
                                                      !.thread = op[c].thread,
                                                      !.rec = op[c].rec]]
    /\ op' = [op EXCEPT ![c] = [@ EXCEPT !.pc = "register", !.loop = h]]
    /\ UNCHANGED <<store, running, completed>>

Register(c) ==
    /\ op[c].pc = "register"
    /\ ~RunningIsReadLocked
    /\ running' = [running EXCEPT ![op[c].thread] = op[c].loop]
    /\ Return(c, "Ok")
    /\ UNCHANGED <<store, loop, completed>>

\* The receiver lives as long as the task; a send to an ended task fails and
\* the failure is ignored.
Deliver(h, signal) ==
    loop' = IF loop[h].pc = "finished"
            THEN loop
            ELSE [loop EXCEPT ![h] =
                    [@ EXCEPT !.inbox = Append(loop[h].inbox, signal)]]

\* Mutant of Accepts: one signal more than the channel holds.
MutantAccepts(h) == Len(loop[h].inbox) <= SignalCap

Accepts(h) == loop[h].pc = "finished" \/ Len(loop[h].inbox) < SignalCap

\* stop_thread and inject_message: look the sender up and send, all under
\* the read guard of `running`.
Send(c) ==
    LET h == running[op[c].thread]
        signal == IF op[c].pc = "stop" THEN "Stop" ELSE "Inject"
    IN
    /\ op[c].pc \in {"stop", "inject"}
    /\ \/ h = None /\ Return(c, "NotFound") /\ UNCHANGED loop
       \/ h # None /\ Accepts(h) /\ Deliver(h, signal) /\ Return(c, "Ok")
       \/ /\ h # None /\ ~Accepts(h)
          /\ op' = [op EXCEPT ![c] = [@ EXCEPT !.pc = "sending", !.loop = h,
                                               !.signal = signal]]
          /\ UNCHANGED loop
    /\ UNCHANGED <<store, running, completed>>

\* The send that waited for room in the channel.
SendLate(c) ==
    /\ op[c].pc = "sending"
    /\ Accepts(op[c].loop)
    /\ Deliver(op[c].loop, op[c].signal)
    /\ Return(c, "Ok")
    /\ UNCHANGED <<store, running, completed>>

\* join_thread: an outcome that is already there is taken ...
Join(c) ==
    /\ op[c].pc = "join"
    /\ IF completed[op[c].thread] # None
       THEN /\ completed' = [completed EXCEPT ![op[c].thread] = None]
            /\ Return(c, completed[op[c].thread])
       ELSE Step(c, "take") /\ UNCHANGED completed
    /\ UNCHANGED <<store, loop, running>>

\* ... otherwise the handle is taken out of `running` ...
JoinTake(c) ==
    LET h == running[op[c].thread] IN
    /\ op[c].pc = "take"
    /\ ~RunningIsReadLocked
    /\ IF h = None
       THEN Return(c, "NotFound") /\ UNCHANGED running
       ELSE /\ running' = [running EXCEPT ![op[c].thread] = None]
            /\ op' = [op EXCEPT ![c] =
                        [@ EXCEPT !.pc = "awaiting", !.loop = h]]
    /\ UNCHANGED <<store, loop, completed>>

\* ... awaited ...
JoinAwait(c) ==
    /\ op[c].pc = "awaiting"
    /\ loop[op[c].loop].pc = "finished"
    /\ Step(c, "clear")
    /\ UNCHANGED <<store, loop, running, completed>>

\* ... and the outcome the task published is thrown away.
JoinClear(c) ==
    /\ op[c].pc = "clear"
    /\ completed' = [completed EXCEPT ![op[c].thread] = None]
    /\ Return(c, loop[op[c].loop].outcome)
    /\ UNCHANGED <<store, loop, running>>

-----------------------------------------------------------------------------
(* The execution loop of a thread.                                         *)

Loop(h, pc, rec, outcome, inbox) ==
    loop' = [loop EXCEPT ![h] = [@ EXCEPT !.pc = pc, !.rec = rec,
                                          !.outcome = outcome,
                                          !.inbox = inbox]]

SaveRecord(t, rec) == store' = [store EXCEPT ![t] = rec]

\* ExecutionLoop::run up to the orchestrator: to Running, persisted.  A
\* record that cannot become Running makes run() fail at once.
LoopBegin(h) ==
    LET me == loop[h]
        rec == [me.rec EXCEPT !.state = "Running"]
    IN
    /\ me.pc = "begin"
    /\ IF me.rec.state = "Running" \/ CanTransition(me.rec.state, "Running")
       THEN Loop(h, "check", rec, None, me.inbox) /\ SaveRecord(me.thread, rec)
       ELSE Loop(h, "final", me.rec, "Failed", me.inbox) /\ UNCHANGED store
    /\ UNCHANGED <<running, completed, op>>

\* Mutant of LoopCheck: reading a signal drains the channel.
MutantLoopCheck(h) ==
    LET me == loop[h] IN
    /\ me.pc = "check"
    /\ IF me.inbox # << >> /\ Head(me.inbox) = "Stop"
       THEN Loop(h, "wrapup", [me.rec EXCEPT !.state = "Completed"],
                 "Stopped", << >>)
       ELSE Loop(h, "work", me.rec, None, << >>)
    /\ UNCHANGED <<store, running, completed, op>>

\* __check_signals__ at the top of every iteration: one signal is read.
LoopCheck(h) ==
    LET me == loop[h] IN
    /\ me.pc = "check"
    /\ IF me.inbox = << >>
       THEN Loop(h, "work", me.rec, None, << >>)
       ELSE IF Head(me.inbox) = "Stop"
            THEN Loop(h, "wrapup", [me.rec EXCEPT !.state = "Completed"],
                      "Stopped", Tail(me.inbox))
            ELSE Loop(h, "work", me.rec, None, Tail(me.inbox))
    /\ UNCHANGED <<store, running, completed, op>>

\* The rest of an iteration: the model answers, actions and code run, and
\* the turn goes on with a checkpoint, or ends in one of these ways.
LoopWork(h, next) ==
    LET me == loop[h] IN
    /\ me.pc = "work"
    /\ CASE next = "Continue" ->
              Loop(h, "check", [me.rec EXCEPT !.ckpt = TRUE], None, me.inbox)
         [] next = "Completed" ->
              Loop(h, "wrapup", [me.rec EXCEPT !.state = "Completed"],
                   "Completed", me.inbox)
         [] next = "GatePaused" ->
              Loop(h, "wrapup", [state |-> "Waiting", ckpt |-> TRUE],
                   "GatePaused", me.inbox)
         [] next = "Failed" ->
              Loop(h, "wrapup", [me.rec EXCEPT !.state = "Failed"],
                   "Failed", me.inbox)
    /\ UNCHANGED <<store, running, completed, op>>

WorkResult == {"Continue", "Completed", "GatePaused", "Failed"}

\* run() after the orchestrator: the checkpoint is cleared and the record
\* persisted.
LoopWrapup(h) ==
    LET me == loop[h]
        rec == [me.rec EXCEPT !.ckpt = FALSE]
    IN
    /\ me.pc = "wrapup"
    /\ Loop(h, "final", rec, me.outcome, me.inbox)
    /\ SaveRecord(me.thread, rec)
    /\ UNCHANGED <<running, completed, op>>

\* The spawned task after run(): Completed becomes Done and is saved ...
LoopFinal(h) ==
    LET me == loop[h]
        rec == IF me.rec.state = "Completed"
               THEN [me.rec EXCEPT !.state = "Done"]
               ELSE me.rec
    IN
    /\ me.pc = "final"
    /\ Loop(h, "report", rec, me.outcome, me.inbox)
    /\ SaveRecord(me.thread, rec)
    /\ UNCHANGED <<running, completed, op>>

\* ... the outcome is published ...
LoopReport(h) ==
    LET me == loop[h] IN
    /\ me.pc = "report"
    /\ Loop(h, "remove", me.rec, me.outcome, me.inbox)
    /\ completed' = [completed EXCEPT ![me.thread] = me.outcome]
    /\ UNCHANGED <<store, running, op>>

\* ... and the thread's entry, this loop's or not, leaves `running`.  The
\* task ends and drops its receiver with what is left in the channel.
LoopRemove(h) ==
    LET me == loop[h] IN
    /\ me.pc = "remove"
    /\ ~RunningIsReadLocked
    /\ loop' = [loop EXCEPT ![h] = [VacantLoop EXCEPT !.pc = "finished",
                                                      !.outcome = me.outcome]]
    /\ running' = [running EXCEPT ![me.thread] = None]
    /\ UNCHANGED <<store, completed, op>>
-----------------------------------------------------------------------------
(* Callers that use the manager in every possible order.                   *)

Operations == {"spawn", "resume", "stop", "inject", "join"}

\* A spawned thread gets a fresh id; the other operations name a known one.
Fresh(t) ==
    /\ store[t] = None
    /\ \A c \in Callers : op[c].pc = "spawn" => op[c].thread # t

Enter(c, operation, t) ==
    /\ op[c].pc = "idle"
    /\ IF operation = "spawn" THEN Fresh(t) ELSE store[t] # None
    /\ op' = [op EXCEPT ![c] = [IdleOp EXCEPT !.pc = operation, !.thread = t]]
    /\ UNCHANGED <<store, loop, running, completed>>

Leave(c) ==
    /\ op[c].pc = "returned"
    /\ op' = [op EXCEPT ![c] = IdleOp]
    /\ UNCHANGED <<store, loop, running, completed>>

\* One step of the operation caller c is inside.
OperationStep(c) ==
    \/ Spawn(c) \/ ResumeCheck(c) \/ ResumeLoad(c) \/ ResumeSave(c)
    \/ \E h \in Loops : StartLoop(c, h)
    \/ Register(c) \/ Send(c) \/ SendLate(c)
    \/ Join(c) \/ JoinTake(c) \/ JoinAwait(c) \/ JoinClear(c)

LoopStep(h) ==
    \/ LoopBegin(h) \/ LoopCheck(h)
    \/ \E next \in WorkResult : LoopWork(h, next)
    \/ LoopWrapup(h) \/ LoopFinal(h) \/ LoopReport(h) \/ LoopRemove(h)

ManagerNext ==
    \/ \E c \in Callers, operation \in Operations, t \in Threads :
          Enter(c, operation, t)
    \/ \E c \in Callers : OperationStep(c) \/ Leave(c)
    \/ \E h \in Loops : LoopStep(h)

ManagerSpec == ManagerInit /\ [][ManagerNext]_managerVars

\* The runtime polls every task that can go on, and every model call and
\* tool call of an iteration returns.
ManagerFairness ==
    /\ \A c \in Callers : WF_managerVars(OperationStep(c))
    /\ \A h \in Loops : WF_managerVars(LoopStep(h))

ManagerFairSpec == ManagerSpec /\ ManagerFairness

\* The orchestrator runs at most max_iterations iterations, so a turn ends.
TurnsEnd ==
    \A h \in Loops :
        SF_managerVars(\E next \in WorkResult \ {"Continue"} : LoopWork(h, next))

ManagerTurnsEndSpec == ManagerFairSpec /\ TurnsEnd

-----------------------------------------------------------------------------
(* Properties.                                                             *)

\* A loop that a Stop has reached stops: the signals before it are consumed
\* one per iteration and no number of later ones can hold it up.
StopIsHeard ==
    \A h \in Loops :
        (loop[h].pc \in {"begin", "check", "work"}
            /\ \E i \in DOMAIN loop[h].inbox : loop[h].inbox[i] = "Stop")
        ~> loop[h].pc \notin {"begin", "check", "work"}

\* "Wait for a thread to finish and return its outcome": a join_thread that
\* waits for a thread whose turns end returns.
JoinReturns ==
    \A c \in Callers : op[c].pc = "join" ~> op[c].pc = "returned"
=============================================================================

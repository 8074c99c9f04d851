----------------------------- MODULE Containers -----------------------------
(***************************************************************************)
(* Jobs that run in Docker containers: the container manager               *)
(* (orchestrator/job_manager.rs) with its handles and the tokens of        *)
(* orchestrator/auth.rs, the callers that create a container (the tool     *)
(* create_job, which waits for the result or leaves it to a monitor, and   *)
(* the web gateway's restart), the worker inside it, the callers that      *)
(* cancel, and the reaper (orchestrator/reaper.rs), which removes the      *)
(* containers whose jobs are not active.                                   *)
(*                                                                         *)
(* Docker and the worker are external.  A crash loses contexts, handles    *)
(* and tokens; containers survive it.                                      *)
(***************************************************************************)
EXTENDS Integers, FiniteSets

CONSTANTS
    JobIds,
    MaxFaults,      \* bound: calls of Docker that fail
    MaxCrashes      \* bound: crashes of the process

ASSUME JobAssumption == IsFiniteSet(JobIds)
ASSUME BoundAssumption == MaxFaults \in Nat /\ MaxCrashes \in Nat

VARIABLES
    ctx,        \* state of the job in the ContextManager
    handle,     \* ContainerHandle: its state, whether container_id is set, the result
    token,      \* whether the TokenStore has a token and grants for the job
    kind,       \* who creates the container: "wait", "detached" or "restart"
    mode,       \* JobMode: what runs in the container
    maker,      \* where the creator stands
    monitor,    \* the job monitor: subscribed, or with a JobResult to apply
    complete,   \* where the handler of the worker's report stands
    op,         \* where each caller's stop_job stands
    todo,       \* containers that the reaper's scan has still to look at
    box,        \* the container in Docker
    old,        \* whether it is older than the orphan_threshold
    worker,     \* where the worker stands
    said,       \* the outcome the worker has come to
    faults, crashes

memory == <<ctx, handle, token, kind, maker, monitor, complete, op, todo>>
vars == <<memory, mode, box, old, worker, said, faults, crashes>>

Stoppers == {"maker", "user", "reaper"}
Outcomes == {"success", "failure"}
Modes == {"worker", "claude", "acp"}
Active == {"InProgress", "Stuck", "Completed"}

NoHandle == [state |-> "none", id |-> FALSE, result |-> "none"]

Types ==
    /\ ctx \in [JobIds -> Active \cup {"missing", "Failed", "Cancelled"}]
    /\ handle \in [JobIds -> [state : {"none", "Creating", "Running", "Stopped"},
                              id : BOOLEAN, result : Outcomes \cup {"none"}]]
    /\ token \in [JobIds -> BOOLEAN]
    /\ kind \in [JobIds -> {"none", "wait", "detached", "restart"}]
    /\ mode \in [JobIds -> Modes \cup {"none"}]
    /\ maker \in [JobIds -> {"none", "create", "start", "record", "undo", "fail",
                             "poll", "completed", "failed", "timeout", "done"}]
    /\ monitor \in [JobIds -> Outcomes \cup {"off", "on"}]
    /\ complete \in [JobIds -> {"none", "store", "docker", "revoke", "dropped"}]
    /\ op \in [Stoppers -> [JobIds -> {"none", "docker", "mark", "revoke", "direct", "over"}]]
    /\ todo \subseteq JobIds
    /\ box \in [JobIds -> {"none", "created", "running", "exited", "removed"}]
    /\ old \in [JobIds -> BOOLEAN]
    /\ worker \in [JobIds -> {"none", "work", "report", "accepted", "over"}]
    /\ said \in [JobIds -> Outcomes \cup {"none"}]
    /\ faults \in 0..MaxFaults
    /\ crashes \in 0..MaxCrashes

\* A handle with a container id was not left in Creating; only a running
\* worker is at work; a token belongs to a job that was begun.
Shape(j) ==
    /\ handle[j].id => handle[j].state \in {"Running", "Stopped"}
    /\ worker[j] \in {"work", "report"} => box[j] = "running"
    /\ token[j] => maker[j] # "none"

TypeOK == Types /\ \A j \in JobIds : Shape(j)

Init ==
    /\ ctx = [j \in JobIds |-> "missing"]
    /\ handle = [j \in JobIds |-> NoHandle]
    /\ token = [j \in JobIds |-> FALSE]
    /\ kind = [j \in JobIds |-> "none"]
    /\ mode = [j \in JobIds |-> "none"]
    /\ maker = [j \in JobIds |-> "none"]
    /\ monitor = [j \in JobIds |-> "off"]
    /\ complete = [j \in JobIds |-> "none"]
    /\ op = [a \in Stoppers |-> [j \in JobIds |-> "none"]]
    /\ todo = {}
    /\ box = [j \in JobIds |-> "none"]
    /\ old = [j \in JobIds |-> FALSE]
    /\ worker = [j \in JobIds |-> "none"]
    /\ said = [j \in JobIds |-> "none"]
    /\ faults = 0 /\ crashes = 0

-----------------------------------------------------------------------------

Exists(j) == box[j] \in {"created", "running", "exited"}

\* JobContext::transition_to; what is not allowed changes nothing.
CanTransition(from, to) ==
    <<from, to>> \in
        {<<"InProgress", "Completed">>, <<"InProgress", "Failed">>,
         <<"InProgress", "Stuck">>, <<"InProgress", "Cancelled">>,
         <<"Stuck", "InProgress">>, <<"Stuck", "Failed">>, <<"Stuck", "Cancelled">>,
         <<"Completed", "Completed">>, <<"Completed", "Failed">>}
TransitionTo(j, to) ==
    ctx' = [ctx EXCEPT ![j] = IF CanTransition(@, to) THEN to ELSE @]

Fault == faults < MaxFaults /\ faults' = faults + 1

\* stop_container, which ends the worker, and remove_container with force;
\* the first or both may fail.
DockerRemove(j) ==
    \/ /\ box' = [box EXCEPT ![j] = "removed"]
       /\ worker' = [worker EXCEPT ![j] = IF @ = "accepted" THEN @ ELSE "over"]
       /\ UNCHANGED faults
    \/ /\ Fault /\ Exists(j)
       /\ \/ UNCHANGED <<box, worker>>
          \/ /\ box[j] = "running"
             /\ box' = [box EXCEPT ![j] = "exited"]
             /\ worker' = [worker EXCEPT ![j] = IF @ = "accepted" THEN @ ELSE "over"]

keepDocker == UNCHANGED <<box, worker, faults>>
keepRest == UNCHANGED <<mode, old, said, crashes>>

-----------------------------------------------------------------------------
(* Creating a container.                                                   *)

\* execute_sandbox registers the job before its container exists; the restart
\* handler of the gateway registers nothing.  create_job makes the token and
\* the handle.
Begin(j, k, m) ==
    /\ maker[j] = "none"
    /\ kind' = [kind EXCEPT ![j] = k]
    /\ mode' = [mode EXCEPT ![j] = m]
    /\ ctx' = [ctx EXCEPT ![j] = IF k = "restart" THEN @ ELSE "InProgress"]
    /\ token' = [token EXCEPT ![j] = TRUE]
    /\ handle' = [handle EXCEPT ![j].state = "Creating"]
    /\ maker' = [maker EXCEPT ![j] = "create"]
    /\ UNCHANGED <<monitor, complete, op, todo, old, said, crashes>> /\ keepDocker

CreateContainer(j) ==
    /\ maker[j] = "create"
    /\ \/ /\ box' = [box EXCEPT ![j] = "created"]
          /\ maker' = [maker EXCEPT ![j] = "start"]
          /\ UNCHANGED faults
       \/ /\ Fault
          /\ maker' = [maker EXCEPT ![j] = "undo"]
          /\ UNCHANGED box
    /\ UNCHANGED <<ctx, handle, token, kind, monitor, complete, op, todo, worker>>
    /\ keepRest

StartContainer(j) ==
    /\ maker[j] = "start"
    /\ \/ /\ box' = [box EXCEPT ![j] = "running"]
          /\ worker' = [worker EXCEPT ![j] = "work"]
          /\ maker' = [maker EXCEPT ![j] = "record"]
          /\ UNCHANGED faults
       \/ /\ Fault
          /\ maker' = [maker EXCEPT ![j] = "undo"]
          /\ UNCHANGED <<box, worker>>
    /\ UNCHANGED <<ctx, handle, token, kind, monitor, complete, op, todo>>
    /\ keepRest

MutantRecordContainer(j) ==
    /\ maker[j] = "record"
    /\ handle' = [handle EXCEPT ![j].id = TRUE]
    /\ maker' = [maker EXCEPT ![j] = IF kind[j] = "wait" THEN "poll" ELSE "done"]
    /\ monitor' = [monitor EXCEPT ![j] = IF kind[j] = "detached" THEN "on" ELSE @]
    /\ UNCHANGED <<ctx, token, kind, complete, op, todo>> /\ keepDocker /\ keepRest

\* The handle is Running whatever it was.  The tool then waits, or subscribes
\* its monitor: events up to now are lost to it.
RecordContainer(j) ==
    /\ maker[j] = "record"
    /\ handle' = [handle EXCEPT ![j] = [@ EXCEPT !.id = TRUE, !.state = "Running"]]
    /\ maker' = [maker EXCEPT ![j] = IF kind[j] = "wait" THEN "poll" ELSE "done"]
    /\ monitor' = [monitor EXCEPT ![j] = IF kind[j] = "detached" THEN "on" ELSE @]
    /\ UNCHANGED <<ctx, token, kind, complete, op, todo>> /\ keepDocker /\ keepRest

\* create_job after an error: token and handle go; a created container stays.
Undo(j) ==
    /\ maker[j] = "undo"
    /\ token' = [token EXCEPT ![j] = FALSE]
    /\ handle' = [handle EXCEPT ![j] = NoHandle]
    /\ maker' = [maker EXCEPT ![j] = IF kind[j] = "restart" THEN "done" ELSE "fail"]
    /\ UNCHANGED <<ctx, kind, monitor, complete, op, todo>> /\ keepDocker /\ keepRest

\* update_context_state, in a task of its own.
UndoFail(j) ==
    /\ maker[j] = "fail"
    /\ TransitionTo(j, "Failed")
    /\ maker' = [maker EXCEPT ![j] = "done"]
    /\ UNCHANGED <<handle, token, kind, monitor, complete, op, todo>>
    /\ keepDocker /\ keepRest

-----------------------------------------------------------------------------
(* stop_job: by the tool's timeout, by a user's request and by the reaper. *)

Free(a, j) == op[a][j] \in {"none", "over"}

\* Without a container id there is nothing to stop and an error is returned.
StopBegin(a, j) == op' = [op EXCEPT ![a][j] = IF handle[j].id THEN "docker" ELSE @]

StopDocker(a, j) ==
    /\ op[a][j] = "docker"
    /\ DockerRemove(j)
    /\ op' = [op EXCEPT ![a][j] = "mark"]
    /\ UNCHANGED <<ctx, handle, token, kind, maker, monitor, complete, todo>>
    /\ keepRest

StopMark(a, j) ==
    /\ op[a][j] = "mark"
    /\ op' = [op EXCEPT ![a][j] = "revoke"]
    /\ handle' = [handle EXCEPT ![j].state = IF @ = "none" THEN @ ELSE "Stopped"]
    /\ UNCHANGED <<ctx, token, kind, maker, monitor, complete, todo>>
    /\ keepDocker /\ keepRest

MutantStopRevoke(a, j) ==
    /\ op[a][j] = "revoke"
    /\ op' = [op EXCEPT ![a][j] = "over"]
    /\ UNCHANGED <<ctx, handle, token, kind, maker, monitor, complete, todo>>
    /\ keepDocker /\ keepRest

StopRevoke(a, j) ==
    /\ op[a][j] = "revoke"
    /\ op' = [op EXCEPT ![a][j] = "over"]
    /\ token' = [token EXCEPT ![j] = FALSE]
    /\ UNCHANGED <<ctx, handle, kind, maker, monitor, complete, todo>>
    /\ keepDocker /\ keepRest

\* The tool cancel_job cancels the job first; the gateway's handler only
\* stops the container.
CancelTool(j) ==
    /\ Free("user", j)
    /\ CanTransition(ctx[j], "Cancelled")
    /\ TransitionTo(j, "Cancelled")
    /\ StopBegin("user", j)
    /\ UNCHANGED <<handle, token, kind, maker, monitor, complete, todo>>
    /\ keepDocker /\ keepRest

WebCancel(j) ==
    /\ Free("user", j) /\ handle[j].id
    /\ StopBegin("user", j)
    /\ UNCHANGED <<ctx, handle, token, kind, maker, monitor, complete, todo>>
    /\ keepDocker /\ keepRest

-----------------------------------------------------------------------------
(* The tool that waits.                                                    *)

\* A stopped job without a result, or without a handle, counts as completed.
Poll(j) ==
    /\ maker[j] = "poll" /\ handle[j].state \in {"Stopped", "none"}
    /\ maker' = [maker EXCEPT ![j] = IF handle[j].result = "failure" THEN "failed" ELSE "completed"]
    /\ UNCHANGED <<ctx, handle, token, kind, monitor, complete, op, todo>>
    /\ keepDocker /\ keepRest

PollEnd(j) ==
    /\ maker[j] \in {"failed", "completed"}
    /\ handle' = [handle EXCEPT ![j] = NoHandle]
    /\ TransitionTo(j, IF maker[j] = "failed" THEN "Failed" ELSE "Completed")
    /\ maker' = [maker EXCEPT ![j] = "done"]
    /\ UNCHANGED <<token, kind, monitor, complete, op, todo>> /\ keepDocker /\ keepRest

PollTimeout(j) ==
    /\ maker[j] = "poll"
    /\ StopBegin("maker", j)
    /\ maker' = [maker EXCEPT ![j] = "timeout"]
    /\ UNCHANGED <<ctx, handle, token, kind, monitor, complete, todo>>
    /\ keepDocker /\ keepRest

TimeoutEnd(j) ==
    /\ maker[j] = "timeout" /\ Free("maker", j)
    /\ handle' = [handle EXCEPT ![j] = NoHandle]
    /\ TransitionTo(j, "Failed")
    /\ maker' = [maker EXCEPT ![j] = "done"]
    /\ UNCHANGED <<token, kind, monitor, complete, op, todo>> /\ keepDocker /\ keepRest

-----------------------------------------------------------------------------
(* The worker, its report and the monitor.                                 *)

\* job_event_handler: the status of a result that reaches the monitor.  One
\* that has no status field is taken for a failure.
Deliver(j, status) ==
    monitor' = [monitor EXCEPT ![j] = IF @ = "on" /\ token[j] THEN status ELSE @]

\* The bridge of Claude Code forwards the results of each session, which need
\* not agree with the exit of the process it reports in the end.
SessionResult(j, status) ==
    /\ worker[j] = "work" /\ mode[j] = "claude"
    /\ Deliver(j, status)
    /\ UNCHANGED <<ctx, handle, token, kind, maker, complete, op, todo>>
    /\ keepDocker /\ keepRest

\* The worker emits its result as an event, and goes on to report it.  The
\* event may be missed by a lagging monitor; that of the T3Claw worker says
\* `success`, and has no status.
WorkerFinish(j, outcome, delivered) ==
    /\ worker[j] = "work"
    /\ worker' = [worker EXCEPT ![j] = "report"]
    /\ said' = [said EXCEPT ![j] = outcome]
    /\ IF delivered /\ mode[j] # "claude"
       THEN Deliver(j, IF mode[j] = "worker" THEN "failure" ELSE outcome)
       ELSE UNCHANGED monitor
    /\ UNCHANGED <<ctx, handle, token, kind, mode, maker, complete, op, todo, box, old,
                   faults, crashes>>

\* The process ends by itself: killed, or after its report.
WorkerExit(j) ==
    /\ box[j] = "running"
    /\ box' = [box EXCEPT ![j] = "exited"]
    /\ worker' = [worker EXCEPT ![j] = IF @ = "accepted" THEN @ ELSE "over"]
    /\ UNCHANGED <<memory, faults>> /\ keepRest

Monitor(j) ==
    /\ monitor[j] \in Outcomes
    /\ TransitionTo(j, IF monitor[j] = "success" THEN "Completed" ELSE "Failed")
    /\ monitor' = [monitor EXCEPT ![j] = "off"]
    /\ UNCHANGED <<handle, token, kind, maker, complete, op, todo>>
    /\ keepDocker /\ keepRest

\* report_complete, refused without a valid token.
Report(j) ==
    /\ worker[j] = "report" /\ token[j]
    /\ worker' = [worker EXCEPT ![j] = "accepted"]
    /\ complete' = [complete EXCEPT ![j] = "store"]
    /\ UNCHANGED <<ctx, handle, token, kind, maker, monitor, op, todo, box, faults>>
    /\ keepRest

MutantCompleteJob(j) ==
    /\ complete[j] = "store"
    /\ handle' = [handle EXCEPT ![j] = IF @ = NoHandle THEN @ ELSE [@ EXCEPT !.state = "Stopped"]]
    /\ complete' = [complete EXCEPT ![j] = "docker"]
    /\ UNCHANGED <<ctx, token, kind, maker, monitor, op, todo>> /\ keepDocker /\ keepRest

\* complete_job stores the result, ...
CompleteJob(j) ==
    /\ complete[j] = "store"
    /\ handle' = [handle EXCEPT ![j] =
                     IF @ = NoHandle THEN @ ELSE [@ EXCEPT !.state = "Stopped", !.result = said[j]]]
    /\ complete' = [complete EXCEPT ![j] = "docker"]
    /\ UNCHANGED <<ctx, token, kind, maker, monitor, op, todo>> /\ keepDocker /\ keepRest

\* ... stops the container, if the handle still has its id, ...
CompleteDocker(j) ==
    /\ complete[j] = "docker"
    /\ IF handle[j].id THEN DockerRemove(j) ELSE keepDocker
    /\ complete' = [complete EXCEPT ![j] = "revoke"]
    /\ UNCHANGED <<ctx, handle, token, kind, maker, monitor, op, todo>> /\ keepRest

\* ... which closes the connection of the report: the server may drop the
\* handler there.
CompleteDropped(j) ==
    /\ complete[j] \in {"store", "docker", "revoke"} /\ box[j] # "running"
    /\ complete' = [complete EXCEPT ![j] = "dropped"]
    /\ UNCHANGED <<ctx, handle, token, kind, maker, monitor, op, todo>>
    /\ keepDocker /\ keepRest

\* ... and revokes the token.
CompleteRevoke(j) ==
    /\ complete[j] = "revoke"
    /\ token' = [token EXCEPT ![j] = FALSE]
    /\ complete' = [complete EXCEPT ![j] = "none"]
    /\ UNCHANGED <<ctx, handle, kind, maker, monitor, op, todo>> /\ keepDocker /\ keepRest

-----------------------------------------------------------------------------
(* The reaper and self-repair.                                             *)

ReaperIdle == \A j \in JobIds : Free("reaper", j)

Scan ==
    /\ todo = {} /\ ReaperIdle
    /\ todo' = {j \in JobIds : Exists(j) /\ old[j]}
    /\ UNCHANGED <<ctx, handle, token, kind, maker, monitor, complete, op>>
    /\ keepDocker /\ keepRest

MutantReap(j) ==
    /\ j \in todo /\ ReaperIdle
    /\ todo' = todo \ {j}
    /\ op' = [op EXCEPT !["reaper"][j] =
                 IF ctx[j] \in Active \ {"Stuck"} THEN @
                 ELSE IF handle[j].id THEN "docker" ELSE "direct"]
    /\ UNCHANGED <<ctx, handle, token, kind, maker, monitor, complete>>
    /\ keepDocker /\ keepRest

\* Only the container of a job that is not active, or not known, is reaped:
\* by stop_job, or when that fails directly.
Reap(j) ==
    /\ j \in todo /\ ReaperIdle
    /\ todo' = todo \ {j}
    /\ op' = [op EXCEPT !["reaper"][j] =
                 IF ctx[j] \in Active THEN @
                 ELSE IF handle[j].id THEN "docker" ELSE "direct"]
    /\ UNCHANGED <<ctx, handle, token, kind, maker, monitor, complete>>
    /\ keepDocker /\ keepRest

MutantReapDirect(j) ==
    /\ op["reaper"][j] = "direct"
    /\ op' = [op EXCEPT !["reaper"][j] = "over"]
    /\ IF box[j] = "running" THEN DockerRemove(j) ELSE keepDocker
    /\ UNCHANGED <<ctx, handle, token, kind, maker, monitor, complete, todo>>
    /\ keepRest

ReapDirect(j) ==
    /\ op["reaper"][j] = "direct"
    /\ op' = [op EXCEPT !["reaper"][j] = "over"]
    /\ DockerRemove(j)
    /\ UNCHANGED <<ctx, handle, token, kind, maker, monitor, complete, todo>>
    /\ keepRest

\* The calls of Docker in create_job take less than the orphan_threshold.
Age(j) ==
    /\ Exists(j) /\ ~old[j] /\ maker[j] \notin {"start", "record"}
    /\ old' = [old EXCEPT ![j] = TRUE]
    /\ UNCHANGED <<memory, mode, said, crashes>> /\ keepDocker

\* Self-repair takes a sandbox job for any other: it marks it Stuck, puts it
\* back, and gives it up in the end (module Jobs).
Repair(j, to) ==
    /\ \/ ctx[j] = "InProgress" /\ to = "Stuck"
       \/ ctx[j] = "Stuck" /\ to \in {"InProgress", "Failed"}
    /\ TransitionTo(j, to)
    /\ UNCHANGED <<handle, token, kind, maker, monitor, complete, op, todo>>
    /\ keepDocker /\ keepRest

-----------------------------------------------------------------------------

Crash ==
    /\ crashes < MaxCrashes /\ crashes' = crashes + 1
    /\ ctx' = [j \in JobIds |-> "missing"]
    /\ handle' = [j \in JobIds |-> NoHandle]
    /\ token' = [j \in JobIds |-> FALSE]
    /\ maker' = [j \in JobIds |-> IF maker[j] = "none" THEN "none" ELSE "done"]
    /\ monitor' = [j \in JobIds |-> "off"]
    /\ complete' = [j \in JobIds |-> "none"]
    /\ op' = [a \in Stoppers |-> [j \in JobIds |-> "none"]]
    /\ todo' = {}
    /\ UNCHANGED <<kind, mode, box, old, worker, said, faults>>

Make(j) ==
    \/ CreateContainer(j) \/ StartContainer(j) \/ RecordContainer(j)
    \/ Undo(j) \/ UndoFail(j)
    \/ Poll(j) \/ PollEnd(j) \/ PollTimeout(j) \/ TimeoutEnd(j)
CompleteSteps(j) ==
    CompleteJob(j) \/ CompleteDocker(j) \/ CompleteDropped(j) \/ CompleteRevoke(j)
StopSteps(a, j) == StopDocker(a, j) \/ StopMark(a, j) \/ StopRevoke(a, j)
ReaperSteps == Scan \/ \E j \in JobIds : Reap(j) \/ ReapDirect(j) \/ StopSteps("reaper", j)

Next ==
    \/ \E j \in JobIds :
          \/ \E k \in {"wait", "detached", "restart"}, m \in Modes : Begin(j, k, m)
          \/ Make(j) \/ CancelTool(j) \/ WebCancel(j)
          \/ \E a \in {"maker", "user"} : StopSteps(a, j)
          \/ \E status \in Outcomes : SessionResult(j, status)
          \/ \E outcome \in Outcomes, delivered \in BOOLEAN : WorkerFinish(j, outcome, delivered)
          \/ WorkerExit(j) \/ Monitor(j) \/ Report(j) \/ CompleteSteps(j)
          \/ Age(j)
          \/ \E to \in {"Stuck", "InProgress", "Failed"} : Repair(j, to)
    \/ ReaperSteps \/ Crash

\* Tasks run, time passes and the reaper scans again and again.  (It is not
\* started if Docker cannot be reached when the process starts.)  Nothing is
\* assumed of workers, users and self-repair.
Fairness ==
    /\ WF_vars(Scan)
    /\ \A j \in JobIds :
          /\ WF_vars(Make(j)) /\ WF_vars(Age(j))
          /\ WF_vars(Reap(j)) /\ WF_vars(ReapDirect(j))
          /\ WF_vars(StopSteps("reaper", j)) /\ WF_vars(StopSteps("maker", j))

Spec == Init /\ [][Next]_vars /\ Fairness

-----------------------------------------------------------------------------
(* Properties.                                                             *)

\* The token, and with it the granted credentials, does not outlive the job:
\* it is there while the handle is Creating or Running, or while whoever has
\* ended the job is about to revoke it.  A report's handler that is dropped
\* never does, so after one the token may stay (complete is "dropped").
TokenEndsWithJob ==
    \A j \in JobIds :
        token[j] => \/ handle[j].state \in {"Creating", "Running"}
                    \/ complete[j] # "none"
                    \/ \E a \in Stoppers : op[a][j] = "revoke"

\* Although a job that stops without a result counts as completed, one whose
\* worker reported a failure is never recorded so, unless a user's request to
\* stop it came between, or a monitored session of Claude Code had said that
\* it completed.
FailureIsNotCompleted ==
    \A j \in JobIds :
        worker[j] = "accepted" /\ said[j] = "failure" /\ ctx[j] = "Completed"
            => \/ op["user"][j] # "none"
               \/ kind[j] = "detached" /\ mode[j] = "claude"

\* The reaper reads the job's state, and stops its container some awaits
\* later: it is still not active then, since such a state is final and a job
\* is registered before its container exists.
ReaperSparesActive ==
    [][\A j \in JobIds :
        op["reaper"][j] \in {"docker", "direct"} /\ op'["reaper"][j] # op["reaper"][j]
            => ctx[j] \notin Active]_vars

\* The container of a job that is not active goes in the end: after a failed
\* start, a cancellation while it was created, a failed call of Docker or a
\* crash anywhere, as long as the reaper was started.
OrphansAreReaped == \A j \in JobIds : (Exists(j) /\ ctx[j] \notin Active) ~> ~Exists(j)
=============================================================================

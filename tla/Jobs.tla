-------------------------------- MODULE Jobs --------------------------------
(***************************************************************************)
(* Jobs of the agent: their states (context/state.rs), the context manager *)
(* that admits them (context/manager.rs), the scheduler with its table of  *)
(* workers (agent/scheduler.rs), the workers (worker/job.rs), self-repair  *)
(* (agent/self_repair.rs), the command that helps a stuck job              *)
(* (agent/commands.rs), and the tools that register a sandbox job and      *)
(* cancel a job (tools/builtin/job.rs).  A sandbox job has a context and   *)
(* no worker: its container runs it, and one task waits for its result.    *)
(*                                                                         *)
(* The scheduler's table has one lock, which schedule and stop hold across *)
(* their awaits; a job's context has another, taken for one update at a    *)
(* time.  The model call that a worker waits for takes any time, so any    *)
(* job may exceed its timeout or the stuck_threshold.                      *)
(***************************************************************************)
EXTENDS Integers, FiniteSets

CONSTANTS
    JobIds,         \* bound: jobs that are dispatched or registered
    SandboxJobs,    \* those that create_job registers for a container
    Users,
    Owner,          \* the user of each job
    MaxParallel,    \* max_parallel_jobs, of the scheduler and the context manager
    MaxPerUser,     \* max_jobs_per_user
    MaxRepair,      \* max_repair_attempts
    MaxHelps,       \* bound: users' requests to help
    None

ASSUME JobAssumption == IsFiniteSet(JobIds) /\ None \notin JobIds \cup Nat
ASSUME SandboxAssumption == SandboxJobs \subseteq JobIds
ASSUME OwnerAssumption == Owner \in [JobIds -> Users]
ASSUME LimitAssumption ==
    /\ MaxParallel \in Nat \ {0} /\ MaxPerUser \in Nat \ {0}
    /\ MaxRepair \in Nat /\ MaxHelps \in Nat

VARIABLES
    state,      \* JobContext.state; "none" before the job is created
    repairs,    \* JobContext.repair_attempts
    call,       \* where the job's schedule_with_context stands
    table,      \* Scheduler.jobs: the jobs with an entry
    lock,       \* the job whose schedule or stop holds the table's write lock
    worker,     \* where the worker of each job stands; "watch": the task that
                \* waits for the result of a sandbox job
    told,       \* what stop has told the worker: WorkerMessage::Stop, then abort
    cleanup,    \* the clean-up task of each job
    found,      \* the job a repair pass has listed, and the attempts it read
    helps

vars == <<state, repairs, call, table, lock, worker, told, cleanup, found, helps>>

JobState == {"Pending", "InProgress", "Completed", "Submitted", "Accepted",
             "Failed", "Stuck", "Cancelled"}
Terminal == {"Accepted", "Failed", "Cancelled"}
ParallelBlocking == {"Pending", "InProgress", "Stuck"}

NoneFound == [job |-> None, attempts |-> 0]

TypeOK ==
    /\ state \in [JobIds -> JobState \cup {"none"}]
    /\ repairs \in [JobIds -> 0..(MaxRepair + MaxHelps)]
    /\ call \in [JobIds -> {"none", "wait", "start", "returned"}]
    /\ table \subseteq JobIds
    /\ lock \in JobIds \cup {None}
    /\ worker \in [JobIds -> {"none", "loop", "wrapup", "watch", "done"}]
    /\ told \in [JobIds -> {"nothing", "stop", "abort"}]
    /\ cleanup \in [JobIds -> {"none", "watch", "remove"}]
    /\ found \in [job : JobIds \cup {None}, attempts : Nat]
    /\ helps \in 0..MaxHelps

Init ==
    /\ state = [j \in JobIds |-> "none"]
    /\ repairs = [j \in JobIds |-> 0]
    /\ call = [j \in JobIds |-> "none"]
    /\ table = {} /\ lock = None
    /\ worker = [j \in JobIds |-> "none"]
    /\ told = [j \in JobIds |-> "nothing"]
    /\ cleanup = [j \in JobIds |-> "none"]
    /\ found = NoneFound
    /\ helps = 0

-----------------------------------------------------------------------------
(* JobContext.                                                             *)

MutantCanTransition(from, to) ==
    \/ <<from, to>> = <<"Completed", "Completed">>
    \/ from \notin Terminal \ {"Cancelled"} /\ from # to /\ to # "Pending"

CanTransition(from, to) ==
    <<from, to>> \in
        {<<"Completed", "Completed">>,
         <<"Pending", "InProgress">>, <<"Pending", "Failed">>, <<"Pending", "Cancelled">>,
         <<"InProgress", "Completed">>, <<"InProgress", "Failed">>,
         <<"InProgress", "Stuck">>, <<"InProgress", "Cancelled">>,
         <<"Completed", "Submitted">>, <<"Completed", "Failed">>,
         <<"Submitted", "Accepted">>, <<"Submitted", "Failed">>,
         <<"Stuck", "InProgress">>, <<"Stuck", "Failed">>, <<"Stuck", "Cancelled">>}

\* transition_to: a transition that is not allowed changes nothing.
TransitionTo(j, to) ==
    state' = [state EXCEPT ![j] = IF CanTransition(@, to) THEN to ELSE @]

MutantAttemptRecovery(j) ==
    /\ state' = [state EXCEPT ![j] = "InProgress"]
    /\ UNCHANGED repairs

\* attempt_recovery, of a stuck job.
AttemptRecovery(j) ==
    /\ state' = [state EXCEPT ![j] = "InProgress"]
    /\ repairs' = [repairs EXCEPT ![j] = @ + 1]

-----------------------------------------------------------------------------
(* dispatch_job, register_sandbox_job and schedule.                        *)

Blocking(S) == Cardinality({j \in S : state[j] \in ParallelBlocking})

\* insert_context refuses at max_jobs, else the job is Pending.  It is saved;
\* when that fails, dispatch_job returns and the job stays Pending.
CreateJob(j, saved) ==
    /\ j \notin SandboxJobs /\ call[j] = "none"
    /\ IF Blocking(JobIds) >= MaxParallel
       THEN call' = [call EXCEPT ![j] = "returned"] /\ UNCHANGED state
       ELSE /\ call' = [call EXCEPT ![j] = IF saved THEN "wait" ELSE "returned"]
            /\ state' = [state EXCEPT ![j] = "Pending"]
    /\ UNCHANGED <<repairs, table, lock, worker, told, cleanup,
                   found, helps>>

\* register_sandbox_job: max_jobs is checked, the limit of the user is not.
RegisterSandboxJob(j) ==
    /\ j \in SandboxJobs /\ call[j] = "none"
    /\ call' = [call EXCEPT ![j] = "returned"]
    /\ IF Blocking(JobIds) >= MaxParallel
       THEN UNCHANGED <<state, worker>>
       ELSE /\ state' = [state EXCEPT ![j] = "InProgress"]
            /\ worker' = [worker EXCEPT ![j] = "watch"]
    /\ UNCHANGED <<repairs, table, lock, told, cleanup, found, helps>>

\* The monitor, the watcher or the waiting tool call records the one result.
SandboxResult(j, to) ==
    /\ worker[j] = "watch"
    /\ worker' = [worker EXCEPT ![j] = "done"]
    /\ TransitionTo(j, to)
    /\ UNCHANGED <<repairs, call, table, lock, told, cleanup, found, helps>>

Returned(j) == call' = [call EXCEPT ![j] = "returned"] /\ lock' = None

\* The write lock is taken: an entry is there already, or the table is full.
ScheduleLock(j) ==
    /\ call[j] = "wait" /\ lock = None
    /\ IF j \in table \/ Cardinality(table) >= MaxParallel
       THEN Returned(j)
       ELSE call' = [call EXCEPT ![j] = "start"] /\ lock' = j
    /\ UNCHANGED <<state, repairs, table, worker, told, cleanup,
                   found, helps>>

JobsOf(u) == {j \in JobIds : Owner[j] = u}

\* The job that is being scheduled is one of those counted.
WithinUserLimit(j) == Blocking(JobsOf(Owner[j])) < MaxPerUser

\* Only a job that may become InProgress gets a worker, an entry and a
\* clean-up task.
ScheduleStart(j) ==
    /\ call[j] = "start"
    /\ Returned(j)
    /\ IF WithinUserLimit(j) /\ CanTransition(state[j], "InProgress")
       THEN /\ state' = [state EXCEPT ![j] = "InProgress"]
            /\ worker' = [worker EXCEPT ![j] = "loop"]
            /\ table' = table \cup {j}
            /\ cleanup' = [cleanup EXCEPT ![j] = "watch"]
       ELSE UNCHANGED <<state, worker, table, cleanup>>
    /\ UNCHANGED <<repairs, told, found, helps>>

-----------------------------------------------------------------------------
(* The clean-up task of a job.                                             *)

MutantCleanupRead(j) ==
    /\ cleanup[j] = "watch" /\ lock = None
    /\ cleanup' = [cleanup EXCEPT ![j] = "remove"]
    /\ UNCHANGED <<state, repairs, call, table, lock, worker, told,
                   found, helps>>

CleanupRead(j) ==
    /\ cleanup[j] = "watch" /\ lock = None
    /\ j \notin table \/ worker[j] = "done"
    /\ cleanup' = [cleanup EXCEPT ![j] = "remove"]
    /\ UNCHANGED <<state, repairs, call, table, lock, worker, told,
                   found, helps>>

CleanupRemove(j) ==
    /\ cleanup[j] = "remove" /\ lock = None
    /\ table' = table \ {j}
    /\ cleanup' = [cleanup EXCEPT ![j] = "none"]
    /\ UNCHANGED <<state, repairs, call, lock, worker, told,
                   found, helps>>

-----------------------------------------------------------------------------
(* stop, which keeps the write lock until the job is cancelled.            *)

Alive(j) == worker[j] \in {"loop", "wrapup"}

StopBegin(j) ==
    /\ j \in table /\ lock = None
    /\ lock' = j
    /\ table' = table \ {j}
    /\ told' = [told EXCEPT ![j] = "stop"]
    /\ UNCHANGED <<state, repairs, call, worker, cleanup, found, helps>>

\* A worker that has not finished by then is aborted; the job is cancelled.
StopEnd ==
    /\ lock # None /\ told[lock] = "stop"
    /\ lock' = None
    /\ told' = [told EXCEPT ![lock] = "abort"]
    /\ TransitionTo(lock, "Cancelled")
    /\ UNCHANGED <<repairs, call, table, worker, cleanup, found, helps>>

\* cancel_job of the model: the context alone.  A worker is neither told nor
\* aborted and keeps its entry.
CancelJobTool(j) ==
    /\ CanTransition(state[j], "Cancelled")
    /\ state' = [state EXCEPT ![j] = "Cancelled"]
    /\ UNCHANGED <<repairs, call, table, lock, worker, told, cleanup, found, helps>>

-----------------------------------------------------------------------------
(* The worker.                                                             *)

WorkerAt(j, from, to) ==
    /\ worker[j] = from
    /\ worker' = [worker EXCEPT ![j] = to]
    /\ UNCHANGED <<repairs, told, call, table, lock, cleanup, found, helps>>

\* check_signals: a stop message or a final state ends the loop; Stuck does not.
Stopped(j) ==
    /\ told[j] # "nothing" \/ state[j] \in Terminal \cup {"Completed", "Submitted"}
    /\ WorkerAt(j, "loop", "wrapup") /\ UNCHANGED state

\* The model's final answer; a job that was marked Stuck stays so.
Respond(j) == WorkerAt(j, "loop", "wrapup") /\ TransitionTo(j, "Completed")

\* The iteration cap or a failure ends the loop.  The token budget is checked
\* after each model call and does not end it.
LoopFailure(j, to) ==
    /\ CanTransition(state[j], "Failed")
    /\ WorkerAt(j, "loop", to) /\ TransitionTo(j, "Failed")

\* Any error, a failure that cannot be recorded included, and the timeout.
Error(j) == WorkerAt(j, "loop", "done") /\ TransitionTo(j, "Failed")
Timeout(j) == WorkerAt(j, "loop", "done") /\ TransitionTo(j, "Stuck")

\* run returned Ok: a job that is neither final nor Stuck is completed.  The
\* state is read first, but Completed is refused to whatever it becomes then.
WrapUp(j) == WorkerAt(j, "wrapup", "done") /\ TransitionTo(j, "Completed")

\* A worker that was aborted runs on to its next suspension.
Aborted(j) ==
    /\ told[j] = "abort"
    /\ WorkerAt(j, worker[j], "done") /\ UNCHANGED state

Worker(j) ==
    \/ Stopped(j) \/ Respond(j)
    \/ \E to \in {"loop", "wrapup"} : LoopFailure(j, to)
    \/ Error(j) \/ Timeout(j) \/ WrapUp(j) \/ Aborted(j)

-----------------------------------------------------------------------------
(* Self-repair: a pass lists the stuck jobs, then repairs them one by one, *)
(* each from what the listing has read; one of them is followed at a time. *)

\* A job that is InProgress beyond the threshold is marked Stuck, whether its
\* worker lives or not; started_at is never reset.
Detect(j) ==
    /\ found = NoneFound
    /\ state[j] \in {"InProgress", "Stuck"}
    /\ state' = [state EXCEPT ![j] = "Stuck"]
    /\ found' = [job |-> j, attempts |-> repairs[j]]
    /\ UNCHANGED <<repairs, call, table, lock, worker, told, cleanup, helps>>

MutantRepairStuckJob ==
    /\ found # NoneFound
    /\ found' = NoneFound
    /\ IF found.attempts > MaxRepair
       THEN TransitionTo(found.job, "Failed") /\ UNCHANGED repairs
       ELSE IF state[found.job] \in {"InProgress", "Stuck"}
       THEN AttemptRecovery(found.job)
       ELSE UNCHANGED <<state, repairs>>
    /\ UNCHANGED <<call, table, lock, worker, told, cleanup, helps>>

\* No worker is started.
RepairStuckJob ==
    /\ found # NoneFound
    /\ found' = NoneFound
    /\ IF found.attempts >= MaxRepair
       THEN TransitionTo(found.job, "Failed") /\ UNCHANGED repairs
       ELSE IF state[found.job] \in {"InProgress", "Stuck"}
       THEN AttemptRecovery(found.job)
       ELSE UNCHANGED <<state, repairs>>
    /\ UNCHANGED <<call, table, lock, worker, told, cleanup, helps>>

\* handle_help_job recovers a stuck job and schedules it.
HelpJob(j) ==
    /\ state[j] = "Stuck" /\ call[j] = "returned"
    /\ helps < MaxHelps /\ helps' = helps + 1
    /\ AttemptRecovery(j)
    /\ call' = [call EXCEPT ![j] = "wait"]
    /\ UNCHANGED <<table, lock, worker, told, cleanup, found>>

-----------------------------------------------------------------------------

Schedule(j) == ScheduleLock(j) \/ ScheduleStart(j)
Cleanup(j) == CleanupRead(j) \/ CleanupRemove(j)

Next ==
    \/ \E j \in JobIds :
          \/ \E saved \in BOOLEAN : CreateJob(j, saved)
          \/ RegisterSandboxJob(j)
          \/ \E to \in {"Completed", "Failed"} : SandboxResult(j, to)
          \/ Schedule(j) \/ Cleanup(j) \/ StopBegin(j) \/ CancelJobTool(j)
          \/ Worker(j) \/ Detect(j) \/ HelpJob(j)
    \/ StopEnd \/ RepairStuckJob

\* The lock is handed to every waiting call, and every job that stays
\* InProgress or Stuck exceeds the threshold of some pass.
Fairness ==
    /\ WF_vars(StopEnd) /\ WF_vars(RepairStuckJob)
    /\ \A j \in JobIds : SF_vars(Detect(j)) /\ WF_vars(ScheduleStart(j))

Spec == Init /\ [][Next]_vars /\ Fairness

-----------------------------------------------------------------------------
(* Properties.                                                             *)

\* A worker that nobody has aborted can be stopped: it is in the table, where
\* stop finds it, or the stop that removed it still holds the lock.  Neither
\* the clean-up task, which decides and removes under two locks, nor a
\* repeated schedule or cancel_job, which leaves the worker alone, loses it.
\* Once stop is through, the job is over, whatever its worker, a repair or a
\* help did meanwhile and does later.
LiveIsStoppable ==
    \A j \in JobIds :
        /\ Alive(j) /\ told[j] # "abort" => j \in table \/ lock = j
        /\ told[j] = "abort" => state[j] \in {"Completed", "Failed", "Cancelled"}

InExecution(S) == Cardinality({j \in S : state[j] \in {"InProgress", "Stuck"}})

\* Of the jobs that the scheduler runs, a user never has more in execution
\* than max_jobs_per_user, however dispatches, repairs, helps and sandbox jobs
\* overlap.
DispatchedWithinLimit ==
    \A u \in Users : InExecution(JobsOf(u) \ SandboxJobs) <= MaxPerUser

\* Nothing that the worker, a repair, a container or a user does later takes
\* back that a job was cancelled or has failed.  A completed job can still fail: by a
\* repair pass that had listed it as stuck before it was helped.
OutcomeStays ==
    [][\A j \in JobIds :
        /\ state[j] \in {"Failed", "Cancelled"} => state'[j] = state[j]
        /\ state[j] = "Completed" /\ state'[j] # "Completed" =>
              state'[j] = "Failed" /\ found.job = j]_vars

\* Although self-repair and help put a job back to InProgress without a
\* worker, every job that was started gets an outcome: at the latest, the
\* repair attempts are used up.
JobsSettle ==
    \A j \in JobIds : state[j] = "InProgress" ~> state[j] \in {"Completed", "Failed", "Cancelled"}
=============================================================================

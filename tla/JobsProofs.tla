----------------------------- MODULE JobsProofs -----------------------------
(***************************************************************************)
(* Proofs about Jobs, for any number of jobs and users and any limits.     *)
(*                                                                         *)
(* That a worker can be stopped rests on what stop, the clean-up task and  *)
(* schedule know of each other: who holds the table's lock, which jobs     *)
(* have lost their entry, and that an aborted job is never started again.  *)
(***************************************************************************)
EXTENDS Jobs, FiniteSetTheorems, TLAPS

\* A job whose dispatch has not begun does not exist, and one that was not
\* scheduled has neither worker nor entry.
NotStarted(j) ==
    /\ call[j] = "none" => state[j] = "none"
    /\ state[j] \in {"none", "Pending"} =>
          worker[j] = "none" /\ j \notin table /\ told[j] = "nothing" /\ cleanup[j] = "none"

\* Schedule and stop hold the lock; stop has taken the entry.
Locked(j) ==
    /\ call[j] = "start" => lock = j
    /\ told[j] = "stop" => lock = j /\ j \notin table /\ call[j] # "start"

\* What stop has stopped has no entry and cannot go on; nobody is left who
\* could still report a result of a completed job.
Ended(j) ==
    /\ told[j] = "abort" => j \notin table /\ state[j] \notin ParallelBlocking \cup {"none"}
    /\ state[j] # "Submitted" /\ state[j] # "Accepted"
    /\ state[j] = "Completed" => worker[j] \notin {"loop", "watch"}

\* A worker that was not told to stop has its entry, and the clean-up task
\* has not decided to remove it.
Entered(j) ==
    /\ Alive(j) /\ told[j] = "nothing" => j \in table
    /\ cleanup[j] = "remove" /\ Alive(j) => told[j] = "abort"

\* Attempts beyond max_repair_attempts come from users' helps, the one that
\* was read before a help included.
Repaired(j) ==
    /\ repairs[j] <= MaxRepair + helps
    /\ found.job = j => repairs[j] <= found.attempts + helps

JobOK(j) == NotStarted(j) /\ Locked(j) /\ Ended(j) /\ Entered(j)

JobInv ==
    /\ TypeOK
    /\ found.job = None => found = NoneFound
    /\ \A j \in JobIds : JobOK(j) /\ Repaired(j)
    /\ DispatchedWithinLimit

-----------------------------------------------------------------------------
(* Transitions.                                                            *)

\* Where a job may come from, by where it goes.
LEMMA Transitions ==
    ASSUME NEW from, NEW to, CanTransition(from, to)
    PROVE  /\ from \in JobState /\ to \in JobState
           /\ to # "Pending" /\ from \notin Terminal
           /\ to = "InProgress" => from \in {"Pending", "Stuck"}
           /\ to = "Stuck" => from = "InProgress"
           /\ to = "Cancelled" => from \in ParallelBlocking
           /\ from = "Completed" => to \in {"Completed", "Submitted", "Failed"}
           /\ to = "Completed" => from \in {"InProgress", "Completed"}
BY DEF CanTransition, JobState, Terminal, ParallelBlocking

LEMMA TransitionFacts ==
    ASSUME TypeOK, NEW j \in JobIds, NEW to \in JobState, TransitionTo(j, to)
    PROVE  /\ state' \in [JobIds -> JobState \cup {"none"}]
           /\ \A k \in JobIds \ {j} : state'[k] = state[k]
           /\ \/ state'[j] = state[j] /\ ~CanTransition(state[j], to)
              \/ state'[j] = to /\ CanTransition(state[j], to)
BY DEF TransitionTo, TypeOK

\* What is still running can be cancelled.
LEMMA BlockingCancels ==
    \A s \in ParallelBlocking : CanTransition(s, "Cancelled")
BY DEF ParallelBlocking, CanTransition

-----------------------------------------------------------------------------
(* Each step keeps the types and what a job's parts know of each other.    *)

\* Nothing of job k but perhaps the lock changes.
Untouched(k) ==
    /\ state'[k] = state[k] /\ call'[k] = call[k] /\ worker'[k] = worker[k]
    /\ told'[k] = told[k] /\ cleanup'[k] = cleanup[k] /\ (k \in table' <=> k \in table)

LEMMA UntouchedOK ==
    ASSUME NEW k, JobOK(k), Untouched(k), lock = k => lock' = k
    PROVE  JobOK(k)'
BY DEF JobOK, Untouched, NotStarted, Locked, Ended, Entered, Alive

\* A step of job j that holds the lock for itself or leaves it alone.
LEMMA OthersOK ==
    ASSUME NEW j \in JobIds, \A k \in JobIds : JobOK(k),
           \A k \in JobIds \ {j} : Untouched(k), lock' = lock \/ lock \in {None, j},
           JobOK(j)'
    PROVE  \A k \in JobIds : JobOK(k)'
<1>1. ASSUME NEW k \in JobIds \ {j} PROVE JobOK(k)'
  BY <1>1, UntouchedOK, JobAssumption
<1>. QED BY <1>1

StepOK == TypeOK' /\ (found.job = None => found = NoneFound)' /\ \A k \in JobIds : JobOK(k)'

LEMMA DispatchKeeps ==
    ASSUME JobInv, NEW j \in JobIds, NEW saved \in BOOLEAN, CreateJob(j, saved)
    PROVE  StepOK
<1>1. TypeOK /\ JobOK(j) /\ \A k \in JobIds : JobOK(k)
  BY DEF JobInv
<1>2. TypeOK'
  BY <1>1 DEF TypeOK, CreateJob, JobState
<1>3. \A k \in JobIds \ {j} : Untouched(k)
  BY <1>1 DEF CreateJob, Untouched, TypeOK
<1>4. JobOK(j)'
  <2>1. /\ state[j] = "none" /\ worker[j] = "none" /\ j \notin table
        /\ told[j] = "nothing" /\ cleanup[j] = "none"
    BY <1>1 DEF CreateJob, JobOK, NotStarted
  <2>2. /\ state'[j] \in {"none", "Pending"} /\ call'[j] \in {"wait", "returned"}
        /\ UNCHANGED <<worker, table, told, cleanup>>
    BY <1>1, <2>1 DEF CreateJob, TypeOK
  <2>. QED BY <2>1, <2>2 DEF JobOK, NotStarted, Locked, Ended, Entered, Alive
<1>. QED BY <1>1, <1>2, <1>3, <1>4, OthersOK DEF StepOK, JobInv, CreateJob

LEMMA ScheduleKeeps ==
    ASSUME JobInv, NEW j \in JobIds, Schedule(j)
    PROVE  StepOK
<1>1. TypeOK /\ JobOK(j) /\ \A k \in JobIds : JobOK(k)
  BY DEF JobInv
<1>2. CASE ScheduleLock(j)
  <2>1. TypeOK'
    BY <1>1, <1>2 DEF TypeOK, ScheduleLock, Returned
  <2>2. \A k \in JobIds \ {j} : Untouched(k)
    BY <1>1, <1>2 DEF ScheduleLock, Returned, Untouched, TypeOK
  <2>3. JobOK(j)'
    BY <1>1, <1>2, JobAssumption
    DEF ScheduleLock, Returned, JobOK, NotStarted, Locked, Ended, Entered, Alive, TypeOK
  <2>. QED BY <1>1, <1>2, <2>1, <2>2, <2>3, OthersOK DEF StepOK, JobInv, ScheduleLock
<1>3. CASE ScheduleStart(j)
  <2>1. TypeOK'
    BY <1>1, <1>3 DEF TypeOK, ScheduleStart, Returned, JobState
  <2>2. \A k \in JobIds \ {j} : Untouched(k)
    BY <1>1, <1>3 DEF ScheduleStart, Returned, Untouched, TypeOK
  <2>3. lock = j /\ told[j] # "stop" /\ call'[j] = "returned" /\ UNCHANGED told
    BY <1>1, <1>3 DEF ScheduleStart, Returned, JobOK, Locked, TypeOK
  <2>4. CASE WithinUserLimit(j) /\ CanTransition(state[j], "InProgress")
    <3>1. state[j] \in {"Pending", "Stuck"}
      BY <2>4, Transitions
    <3>2. told[j] = "nothing"
      BY <1>1, <2>3, <3>1 DEF JobOK, Ended, ParallelBlocking, TypeOK
    <3>3. /\ state'[j] = "InProgress" /\ worker'[j] = "loop" /\ j \in table'
          /\ cleanup'[j] = "watch"
      BY <1>1, <1>3, <2>4 DEF ScheduleStart, TypeOK
    <3>4. JobOK(j)'
      BY <2>3, <3>2, <3>3 DEF JobOK, NotStarted, Locked, Ended, Entered, Alive
    <3>. QED BY <1>1, <1>3, <2>1, <2>2, <2>3, <3>4, OthersOK DEF StepOK, JobInv, ScheduleStart
  <2>5. CASE ~(WithinUserLimit(j) /\ CanTransition(state[j], "InProgress"))
    <3>1. UNCHANGED <<state, worker, table, cleanup>>
      BY <1>3, <2>5 DEF ScheduleStart
    <3>2. JobOK(j)'
      BY <1>1, <1>3, <2>3, <3>1
      DEF ScheduleStart, JobOK, NotStarted, Locked, Ended, Entered, Alive
    <3>. QED BY <1>1, <1>3, <2>1, <2>2, <2>3, <3>2, OthersOK DEF StepOK, JobInv, ScheduleStart
  <2>. QED BY <2>4, <2>5
<1>. QED BY <1>2, <1>3 DEF Schedule

LEMMA CleanupKeeps ==
    ASSUME JobInv, NEW j \in JobIds, Cleanup(j)
    PROVE  StepOK
<1>1. TypeOK /\ JobOK(j) /\ \A k \in JobIds : JobOK(k)
  BY DEF JobInv
<1>2. TypeOK'
  BY <1>1 DEF TypeOK, Cleanup, CleanupRead, CleanupRemove
<1>3. \A k \in JobIds \ {j} : Untouched(k)
  BY <1>1 DEF Cleanup, CleanupRead, CleanupRemove, Untouched, TypeOK
<1>4. lock = None /\ told[j] # "stop"
  BY <1>1, JobAssumption DEF Cleanup, CleanupRead, CleanupRemove, JobOK, Locked
<1>5. told[j] \in {"nothing", "abort"}
  BY <1>1, <1>4 DEF TypeOK
<1>6. JobOK(j)'
  <2>1. CASE CleanupRead(j)
    BY <1>1, <1>5, <2>1
    DEF CleanupRead, JobOK, NotStarted, Locked, Ended, Entered, Alive, TypeOK
  <2>2. CASE CleanupRemove(j)
    BY <1>1, <1>5, <2>2
    DEF CleanupRemove, JobOK, NotStarted, Locked, Ended, Entered, Alive, TypeOK
  <2>. QED BY <2>1, <2>2 DEF Cleanup
<1>. QED
  BY <1>1, <1>2, <1>3, <1>4, <1>6, OthersOK DEF StepOK, JobInv, Cleanup, CleanupRead, CleanupRemove

LEMMA StopKeeps ==
    ASSUME JobInv, StopEnd \/ \E j \in JobIds : StopBegin(j)
    PROVE  StepOK
<1>0. TypeOK /\ \A k \in JobIds : JobOK(k)
  BY DEF JobInv
<1>1. ASSUME NEW j \in JobIds, StopBegin(j) PROVE StepOK
  <2>0. JobOK(j)
    BY <1>0
  <2>1. TypeOK'
    BY <1>0, <1>1 DEF TypeOK, StopBegin
  <2>2. \A k \in JobIds \ {j} : Untouched(k)
    BY <1>0, <1>1 DEF StopBegin, Untouched, TypeOK
  <2>3. /\ lock = None /\ j \in table /\ lock' = j /\ j \notin table' /\ told'[j] = "stop"
        /\ UNCHANGED <<state, call, worker, cleanup>>
    BY <1>0, <1>1 DEF StopBegin, TypeOK
  <2>4. call[j] # "start" /\ told[j] # "abort" /\ state[j] \notin {"none", "Pending"}
    BY <2>0, <2>3, JobAssumption DEF JobOK, NotStarted, Locked, Ended
  <2>5. JobOK(j)'
    BY <2>0, <2>3, <2>4 DEF JobOK, NotStarted, Locked, Ended, Entered, Alive
  <2>. QED BY <1>0, <1>1, <2>1, <2>2, <2>3, <2>5, OthersOK DEF StepOK, JobInv, StopBegin
<1>2. CASE StopEnd
  <2>1. PICK j \in JobIds : lock = j
    BY <1>0, <1>2 DEF StopEnd, TypeOK
  <2>2. TransitionTo(j, "Cancelled") /\ "Cancelled" \in JobState
    BY <1>2, <2>1 DEF StopEnd, JobState
  <2>3. /\ state' \in [JobIds -> JobState \cup {"none"}]
        /\ \A k \in JobIds \ {j} : state'[k] = state[k]
        /\ \/ state'[j] = state[j] /\ ~CanTransition(state[j], "Cancelled")
           \/ state'[j] = "Cancelled"
    BY <1>0, <2>2, TransitionFacts
  <2>4. /\ told[j] = "stop" /\ told' = [told EXCEPT ![j] = "abort"] /\ lock' = None
        /\ UNCHANGED <<repairs, call, table, worker, cleanup, found, helps>>
    BY <1>2, <2>1 DEF StopEnd
  <2>5. TypeOK'
    BY <1>0, <2>3, <2>4 DEF TypeOK
  <2>6. \A k \in JobIds \ {j} : Untouched(k)
    BY <1>0, <2>3, <2>4 DEF Untouched, TypeOK
  <2>7. j \notin table /\ state[j] \notin {"none", "Pending"} /\ call[j] # "start"
    BY <1>0, <2>1, <2>4 DEF JobOK, NotStarted, Locked
  <2>8. state'[j] \notin ParallelBlocking \cup {"none"}
    BY <2>3, <2>7, BlockingCancels DEF ParallelBlocking
  <2>9. /\ state'[j] = "Completed" => worker[j] \notin {"loop", "watch"}
        /\ state'[j] # "Submitted" /\ state'[j] # "Accepted"
    BY <1>0, <2>3 DEF JobOK, Ended
  <2>10. call[j] # "none"
    BY <1>0, <2>7 DEF JobOK, NotStarted
  <2>11. told'[j] = "abort"
    BY <1>0, <2>4 DEF TypeOK
  <2>12. JobOK(j)'
    BY <2>4, <2>7, <2>8, <2>9, <2>10, <2>11
    DEF JobOK, NotStarted, Locked, Ended, Entered, Alive, ParallelBlocking
  <2>. QED BY <1>0, <2>1, <2>4, <2>5, <2>6, <2>12, OthersOK DEF StepOK, JobInv
<1>. QED BY <1>1, <1>2

\* A step of a worker: only its own place and its job's state change, and the
\* state in the way transition_to allows.
LEMMA WorkerFacts ==
    ASSUME JobInv, NEW j \in JobIds, Worker(j)
    PROVE  /\ \E to \in {"loop", "wrapup", "done"} : worker' = [worker EXCEPT ![j] = to]
           /\ state' \in [JobIds -> JobState \cup {"none"}]
           /\ \A k \in JobIds \ {j} : state'[k] = state[k]
           /\ state'[j] # state[j] =>
                 /\ CanTransition(state[j], state'[j])
                 /\ state'[j] \in {"Completed", "Failed", "Stuck"}
                 /\ worker[j] = "loop" \/ state'[j] = "Completed"
           /\ state'[j] = "Completed" => worker'[j] # "loop"
           /\ worker'[j] # "watch"
           /\ worker'[j] \in {"loop", "wrapup"} => worker[j] = "loop"
           /\ worker[j] = "none" => told[j] = "abort"
           /\ UNCHANGED <<repairs, told, call, table, lock, cleanup, found, helps>>
<1>0. TypeOK /\ (state[j] = "Completed" => worker[j] # "loop")
  BY DEF JobInv, JobOK, Ended
<1>1. {"Completed", "Failed", "Stuck"} \subseteq JobState
  BY DEF JobState
<1>2. ASSUME NEW from \in {"loop", "wrapup"}, NEW to \in {"loop", "wrapup", "done"},
             WorkerAt(j, from, to)
      PROVE  /\ worker[j] = from /\ worker'[j] = to
             /\ worker' = [worker EXCEPT ![j] = to]
             /\ UNCHANGED <<repairs, told, call, table, lock, cleanup, found, helps>>
  BY <1>0, <1>2 DEF WorkerAt, TypeOK
<1>3. CASE Stopped(j)
  BY <1>0, <1>2, <1>3 DEF Stopped, TypeOK
<1>4. CASE Respond(j)
  BY <1>0, <1>1, <1>2, <1>4, TransitionFacts DEF Respond
<1>5. ASSUME NEW to \in {"loop", "wrapup"}, LoopFailure(j, to)
      PROVE  /\ worker' = [worker EXCEPT ![j] = to] /\ worker[j] = "loop" /\ worker'[j] = to
             /\ state'[j] = "Failed" /\ CanTransition(state[j], "Failed")
             /\ state' \in [JobIds -> JobState \cup {"none"}]
             /\ \A k \in JobIds \ {j} : state'[k] = state[k]
             /\ UNCHANGED <<repairs, told, call, table, lock, cleanup, found, helps>>
  BY <1>0, <1>1, <1>2, <1>5, TransitionFacts DEF LoopFailure
<1>6. CASE \E to \in {"loop", "wrapup"} : LoopFailure(j, to)
  BY <1>5, <1>6
<1>7. CASE Error(j) \/ Timeout(j)
  BY <1>0, <1>1, <1>2, <1>7, TransitionFacts DEF Error, Timeout
<1>8. CASE WrapUp(j)
  BY <1>0, <1>1, <1>2, <1>8, TransitionFacts DEF WrapUp
<1>9. CASE Aborted(j)
  BY <1>0, <1>9 DEF Aborted, WorkerAt, TypeOK
<1>. QED BY <1>3, <1>4, <1>6, <1>7, <1>8, <1>9 DEF Worker

LEMMA WorkerKeeps ==
    ASSUME JobInv, NEW j \in JobIds, Worker(j)
    PROVE  StepOK
<1>1. TypeOK /\ JobOK(j) /\ \A k \in JobIds : JobOK(k)
  BY DEF JobInv
<1>2. TypeOK'
  BY <1>1, WorkerFacts DEF TypeOK
<1>3. \A k \in JobIds \ {j} : Untouched(k)
  BY <1>1, WorkerFacts DEF Untouched, TypeOK
<1>4. state[j] \notin {"none", "Pending"} /\ state'[j] \notin {"none", "Pending"}
  <2>1. worker[j] # "none" \/ told[j] = "abort"
    BY WorkerFacts
  <2>2. state[j] \notin {"none", "Pending"}
    BY <1>1, <2>1 DEF JobOK, NotStarted
  <2>. QED BY <2>2, WorkerFacts
<1>5. state'[j] # state[j] => state[j] \notin Terminal /\ (state'[j] = "Stuck" => state[j] = "InProgress")
  BY WorkerFacts, Transitions
<1>6. told[j] = "abort" => state'[j] \notin ParallelBlocking \cup {"none"}
  BY <1>1, <1>4, <1>5, WorkerFacts DEF JobOK, Ended, ParallelBlocking
<1>7. NotStarted(j)' /\ Locked(j)'
  BY <1>1, <1>4, WorkerFacts DEF JobOK, NotStarted, Locked
<1>8. Ended(j)'
  BY <1>1, <1>6, WorkerFacts DEF JobOK, Ended
<1>9. Alive(j)' => Alive(j)
  BY WorkerFacts DEF Alive
<1>10. Entered(j)'
  BY <1>1, <1>9, WorkerFacts DEF JobOK, Entered
<1>11. JobOK(j)'
  BY <1>7, <1>8, <1>10 DEF JobOK
<1>. QED BY <1>1, <1>2, <1>3, <1>11, OthersOK, WorkerFacts DEF StepOK, JobInv

\* A step that only moves a job between InProgress and Stuck or fails it.
LEMMA StateOnlyKeeps ==
    ASSUME JobInv, NEW j \in JobIds, state' \in [JobIds -> JobState \cup {"none"}],
           \A k \in JobIds \ {j} : state'[k] = state[k],
           \/ state'[j] = state[j]
           \/ state[j] \in {"InProgress", "Stuck"} /\ state'[j] \in {"InProgress", "Stuck", "Failed"}
           \/ state[j] \notin {"none"} \cup Terminal /\ state'[j] = "Failed",
           \/ UNCHANGED call
           \/ call[j] = "returned" /\ call' = [call EXCEPT ![j] = "wait"],
           UNCHANGED <<table, lock, worker, told, cleanup>>
    PROVE  \A k \in JobIds : JobOK(k)'
<1>1. TypeOK /\ JobOK(j) /\ \A k \in JobIds : JobOK(k)
  BY DEF JobInv
<1>2. \A k \in JobIds \ {j} : Untouched(k)
  BY <1>1 DEF Untouched, TypeOK
<1>3. /\ call'[j] = "none" => call[j] = "none"
      /\ call'[j] = "start" => call[j] = "start"
  BY <1>1 DEF TypeOK
<1>4. NotStarted(j)'
  BY <1>1, <1>3 DEF JobOK, NotStarted
<1>5. Locked(j)' /\ Entered(j)'
  BY <1>1, <1>3 DEF JobOK, Locked, Entered, Alive
<1>6. Ended(j)'
  BY <1>1 DEF JobOK, Ended, ParallelBlocking
<1>7. JobOK(j)'
  BY <1>4, <1>5, <1>6 DEF JobOK
<1>. QED BY <1>1, <1>2, <1>7, OthersOK

\* The job that a repair pass has listed.
LEMMA FoundJob ==
    ASSUME JobInv, found # NoneFound
    PROVE  found.job \in JobIds /\ found.attempts \in Nat
BY DEF JobInv, TypeOK

\* What a repair does to the job: it fails, it goes on, or nothing happens.
LEMMA RepairFacts ==
    ASSUME JobInv, RepairStuckJob
    PROVE  /\ state' \in [JobIds -> JobState \cup {"none"}]
           /\ \A k \in JobIds \ {found.job} : state'[k] = state[k] /\ repairs'[k] = repairs[k]
           /\ \/ state'[found.job] = state[found.job]
              \/ /\ CanTransition(state[found.job], "Failed")
                 /\ state'[found.job] = "Failed"
              \/ /\ state[found.job] \in {"InProgress", "Stuck"}
                 /\ state'[found.job] = "InProgress"
           /\ \/ UNCHANGED repairs
              \/ /\ found.attempts < MaxRepair
                 /\ repairs' = [repairs EXCEPT ![found.job] = @ + 1]
           /\ found # NoneFound /\ found' = NoneFound
           /\ UNCHANGED <<call, table, lock, worker, told, cleanup, helps>>
<1>0. TypeOK /\ found # NoneFound
  BY DEF JobInv, RepairStuckJob
<1>1. found.job \in JobIds /\ found.attempts \in Nat /\ MaxRepair \in Nat
  BY <1>0, FoundJob, LimitAssumption
<1>2. CASE found.attempts >= MaxRepair
  <2>1. TransitionTo(found.job, "Failed") /\ UNCHANGED repairs
    BY <1>2 DEF RepairStuckJob
  <2>2. "Failed" \in JobState
    BY DEF JobState
  <2>. QED BY <1>0, <1>1, <2>1, <2>2, TransitionFacts DEF RepairStuckJob
<1>3. CASE ~(found.attempts >= MaxRepair)
  <2>1. CASE state[found.job] \in {"InProgress", "Stuck"}
    <3>1. AttemptRecovery(found.job)
      BY <1>3, <2>1 DEF RepairStuckJob
    <3>2. /\ state' \in [JobIds -> JobState \cup {"none"}]
          /\ \A k \in JobIds \ {found.job} : state'[k] = state[k] /\ repairs'[k] = repairs[k]
          /\ state'[found.job] = "InProgress"
          /\ repairs' = [repairs EXCEPT ![found.job] = @ + 1]
      BY <1>0, <1>1, <3>1 DEF AttemptRecovery, TypeOK, JobState
    <3>. QED BY <1>1, <1>3, <2>1, <3>2 DEF RepairStuckJob
  <2>2. CASE state[found.job] \notin {"InProgress", "Stuck"}
    BY <1>0, <1>3, <2>2 DEF RepairStuckJob, TypeOK
  <2>. QED BY <2>1, <2>2
<1>. QED BY <1>2, <1>3

LEMMA RepairKeeps ==
    ASSUME JobInv, RepairStuckJob
    PROVE  StepOK /\ \A k \in JobIds : Repaired(k)'
<1>0. TypeOK /\ found # NoneFound /\ found.job \in JobIds /\ found.attempts \in Nat
  BY FoundJob DEF JobInv, RepairStuckJob
<1>1. \A k \in JobIds : JobOK(k)'
  <2>1. \/ state'[found.job] = state[found.job]
        \/ state[found.job] \in {"InProgress", "Stuck"} /\ state'[found.job] \in {"InProgress", "Stuck", "Failed"}
        \/ state[found.job] \notin {"none"} \cup Terminal /\ state'[found.job] = "Failed"
    BY RepairFacts, Transitions DEF JobState
  <2>. QED BY <1>0, <2>1, RepairFacts, StateOnlyKeeps
<1>2. ASSUME NEW k \in JobIds
      PROVE  repairs'[k] \in Nat /\ repairs'[k] <= MaxRepair + helps
  <2>1. repairs[k] \in Nat /\ helps \in Nat /\ MaxRepair \in Nat /\ repairs[k] <= MaxRepair + helps
    BY <1>0, LimitAssumption DEF TypeOK, JobInv, Repaired
  <2>2. CASE UNCHANGED repairs
    BY <2>1, <2>2
  <2>3. CASE found.attempts < MaxRepair /\ repairs' = [repairs EXCEPT ![found.job] = @ + 1]
    <3>1. found.job = k => repairs[k] <= found.attempts + helps
      BY DEF JobInv, Repaired
    <3>2. repairs'[k] = IF k = found.job THEN repairs[k] + 1 ELSE repairs[k]
      BY <1>0, <2>3 DEF TypeOK
    <3>. QED BY <1>0, <2>1, <2>3, <3>1, <3>2
  <2>. QED BY <2>2, <2>3, RepairFacts
<1>3. repairs' \in [JobIds -> 0..(MaxRepair + MaxHelps)]
  <2>1. \A k \in JobIds : repairs'[k] \in 0..(MaxRepair + MaxHelps)
    BY <1>0, <1>2, LimitAssumption DEF TypeOK
  <2>2. DOMAIN repairs' = JobIds /\ repairs' = [k \in JobIds |-> repairs'[k]]
    BY <1>0, RepairFacts DEF TypeOK
  <2>. QED BY <2>1, <2>2
<1>4. TypeOK'
  BY <1>0, <1>3, RepairFacts DEF TypeOK, NoneFound
<1>5. \A k \in JobIds : Repaired(k)'
  BY <1>2, RepairFacts, JobAssumption DEF Repaired, NoneFound
<1>. QED BY <1>1, <1>4, <1>5, RepairFacts DEF StepOK

LEMMA DetectKeeps ==
    ASSUME JobInv, NEW j \in JobIds, Detect(j)
    PROVE  StepOK /\ \A k \in JobIds : Repaired(k)'
<1>0. TypeOK
  BY DEF JobInv
<1>1. TypeOK'
  BY <1>0 DEF TypeOK, Detect, JobState
<1>2. \A k \in JobIds : JobOK(k)'
  <2>1. /\ state' \in [JobIds -> JobState \cup {"none"}]
        /\ \A k \in JobIds \ {j} : state'[k] = state[k]
        /\ state[j] \in {"InProgress", "Stuck"} /\ state'[j] = "Stuck"
    BY <1>0, <1>1 DEF TypeOK, Detect
  <2>. QED BY <2>1, StateOnlyKeeps DEF Detect
<1>3. found'.job = j /\ found'.attempts = repairs[j] /\ UNCHANGED <<repairs, helps>>
  BY DEF Detect
<1>4. ASSUME NEW k \in JobIds PROVE Repaired(k)'
  <2>1. repairs[k] \in Nat /\ helps \in Nat /\ repairs[k] <= MaxRepair + helps
    BY <1>0 DEF TypeOK, JobInv, Repaired
  <2>. QED BY <1>3, <2>1 DEF Repaired
<1>. QED BY <1>1, <1>2, <1>3, <1>4, JobAssumption DEF StepOK

LEMMA HelpKeeps ==
    ASSUME JobInv, NEW j \in JobIds, HelpJob(j)
    PROVE  StepOK /\ \A k \in JobIds : Repaired(k)'
<1>0. TypeOK /\ helps \in Nat /\ helps' = helps + 1 /\ helps < MaxHelps
  BY LimitAssumption DEF JobInv, TypeOK, HelpJob
<1>1. /\ state' \in [JobIds -> JobState \cup {"none"}]
      /\ \A k \in JobIds \ {j} : state'[k] = state[k]
      /\ state[j] = "Stuck" /\ state'[j] = "InProgress"
  BY <1>0 DEF TypeOK, HelpJob, AttemptRecovery, JobState
<1>2. \A k \in JobIds : JobOK(k)'
  BY <1>1, StateOnlyKeeps DEF HelpJob
<1>3. ASSUME NEW k \in JobIds
      PROVE  /\ repairs'[k] \in 0..(MaxRepair + MaxHelps) /\ Repaired(k)'
  <2>1. repairs[k] \in Nat /\ MaxRepair \in Nat /\ MaxHelps \in Nat
    BY <1>0, LimitAssumption DEF TypeOK
  <2>2. repairs'[k] = repairs[k] \/ repairs'[k] = repairs[k] + 1
    BY <1>0 DEF TypeOK, HelpJob, AttemptRecovery
  <2>3. /\ repairs[k] <= MaxRepair + helps
        /\ found.job = k => repairs[k] <= found.attempts + helps
    BY DEF JobInv, Repaired
  <2>4. found.attempts \in Nat /\ UNCHANGED found
    BY <1>0 DEF TypeOK, HelpJob
  <2>. QED BY <1>0, <2>1, <2>2, <2>3, <2>4 DEF Repaired
<1>4. repairs' \in [JobIds -> 0..(MaxRepair + MaxHelps)]
  BY <1>0, <1>3 DEF HelpJob, AttemptRecovery, TypeOK
<1>5. TypeOK'
  BY <1>0, <1>1, <1>4, LimitAssumption DEF TypeOK, HelpJob
<1>. QED BY <1>2, <1>3, <1>5 DEF StepOK, JobInv, HelpJob

\* A sandbox job begins, gets its result, or any job is cancelled.
ContextStep(j) ==
    \/ RegisterSandboxJob(j) \/ CancelJobTool(j)
    \/ \E to \in {"Completed", "Failed"} : SandboxResult(j, to)

LEMMA ContextFacts ==
    ASSUME JobInv, NEW j \in JobIds, ContextStep(j)
    PROVE  /\ state' \in [JobIds -> JobState \cup {"none"}]
           /\ \A k \in JobIds \ {j} : state'[k] = state[k] /\ worker'[k] = worker[k]
           /\ \/ j \in SandboxJobs /\ state[j] = "none" /\ state'[j] = "InProgress"
              \/ state'[j] = state[j] /\ state[j] # "Completed"
              \/ state'[j] = "Cancelled" /\ CanTransition(state[j], "Cancelled")
              \/ /\ state'[j] \in {"Completed", "Failed"} /\ state[j] # "Completed"
                 /\ CanTransition(state[j], state'[j])
           /\ UNCHANGED <<repairs, table, lock, told, cleanup, found, helps>>
<1>0. TypeOK /\ JobOK(j) /\ {"Completed", "Failed", "Cancelled", "InProgress"} \subseteq JobState
  BY DEF JobInv, JobState
<1>1. CASE RegisterSandboxJob(j)
  <2>1. state[j] = "none"
    BY <1>0, <1>1 DEF RegisterSandboxJob, JobOK, NotStarted
  <2>. QED BY <1>0, <1>1, <2>1 DEF RegisterSandboxJob, TypeOK
<1>2. CASE CancelJobTool(j)
  BY <1>0, <1>2 DEF CancelJobTool, TypeOK
<1>3. ASSUME NEW to \in {"Completed", "Failed"}, SandboxResult(j, to)
      PROVE  /\ state' \in [JobIds -> JobState \cup {"none"}]
             /\ \A k \in JobIds \ {j} : state'[k] = state[k] /\ worker'[k] = worker[k]
             /\ state[j] # "Completed"
             /\ state'[j] = state[j] \/ (state'[j] = to /\ CanTransition(state[j], to))
             /\ UNCHANGED <<repairs, table, lock, told, cleanup, found, helps>>
  <2>1. TransitionTo(j, to) /\ to \in JobState /\ worker[j] = "watch"
    BY <1>0, <1>3 DEF SandboxResult
  <2>2. state[j] # "Completed"
    BY <1>0, <2>1 DEF JobOK, Ended
  <2>3. \A k \in JobIds \ {j} : worker'[k] = worker[k]
    BY <1>0, <1>3 DEF SandboxResult, TypeOK
  <2>4. /\ state' \in [JobIds -> JobState \cup {"none"}]
        /\ \A k \in JobIds \ {j} : state'[k] = state[k]
        /\ state'[j] = state[j] \/ (state'[j] = to /\ CanTransition(state[j], to))
    BY <1>0, <2>1, TransitionFacts
  <2>5. UNCHANGED <<repairs, table, lock, told, cleanup, found, helps>>
    BY <1>3 DEF SandboxResult
  <2>. QED BY <2>2, <2>3, <2>4, <2>5
<1>. QED BY <1>1, <1>2, <1>3 DEF ContextStep

LEMMA ContextKeeps ==
    ASSUME JobInv, NEW j \in JobIds, ContextStep(j)
    PROVE  StepOK
<1>0. TypeOK /\ JobOK(j) /\ \A k \in JobIds : JobOK(k)
  BY DEF JobInv
<1>1. TypeOK'
  <2>1. call' \in [JobIds -> {"none", "wait", "start", "returned"}]
    BY <1>0 DEF ContextStep, RegisterSandboxJob, CancelJobTool, SandboxResult, TypeOK
  <2>2. worker' \in [JobIds -> {"none", "loop", "wrapup", "watch", "done"}]
    BY <1>0 DEF ContextStep, RegisterSandboxJob, CancelJobTool, SandboxResult, TypeOK
  <2>. QED BY <1>0, <2>1, <2>2, ContextFacts DEF TypeOK
<1>2. \A k \in JobIds \ {j} : Untouched(k)
  <2>1. \A k \in JobIds \ {j} : call'[k] = call[k]
    BY <1>0 DEF ContextStep, RegisterSandboxJob, CancelJobTool, SandboxResult, TypeOK
  <2>. QED BY <2>1, ContextFacts DEF Untouched
<1>3. JobOK(j)'
  <2>1. CASE RegisterSandboxJob(j)
    <3>1. /\ state[j] = "none" /\ worker[j] = "none" /\ j \notin table
          /\ told[j] = "nothing" /\ cleanup[j] = "none"
      BY <1>0, <2>1 DEF RegisterSandboxJob, JobOK, NotStarted
    <3>2. /\ call'[j] = "returned"
          /\ \/ state'[j] = "none" /\ worker'[j] = "none"
             \/ state'[j] = "InProgress" /\ worker'[j] = "watch"
          /\ UNCHANGED <<table, told, cleanup>>
      BY <1>0, <2>1, <3>1 DEF RegisterSandboxJob, TypeOK
    <3>. QED BY <3>1, <3>2 DEF JobOK, NotStarted, Locked, Ended, Entered, Alive
  <2>2. CASE CancelJobTool(j)
    <3>1. /\ state'[j] = "Cancelled" /\ state[j] \in ParallelBlocking
          /\ UNCHANGED <<call, table, lock, worker, told, cleanup>>
      BY <1>0, <2>2, Transitions DEF CancelJobTool, TypeOK
    <3>2. call[j] # "none"
      BY <1>0, <3>1 DEF JobOK, NotStarted, ParallelBlocking
    <3>. QED BY <1>0, <3>1, <3>2
         DEF JobOK, NotStarted, Locked, Ended, Entered, Alive, ParallelBlocking
  <2>3. ASSUME NEW to \in {"Completed", "Failed"}, SandboxResult(j, to) PROVE JobOK(j)'
    <3>1. /\ worker[j] = "watch" /\ worker'[j] = "done"
          /\ UNCHANGED <<call, table, lock, told, cleanup>>
      BY <1>0, <2>3 DEF SandboxResult, TypeOK
    <3>2. state[j] \notin {"none", "Pending"} /\ call[j] # "none"
      BY <1>0, <3>1 DEF JobOK, NotStarted
    <3>3. state'[j] = state[j] \/ state'[j] \in {"Completed", "Failed"}
      BY <1>0, <2>3, TransitionFacts DEF SandboxResult, JobState
    <3>4. NotStarted(j)' /\ Locked(j)' /\ Entered(j)'
      BY <1>0, <3>1, <3>2, <3>3 DEF JobOK, NotStarted, Locked, Entered, Alive
    <3>5. Ended(j)'
      BY <1>0, <3>1, <3>3 DEF JobOK, Ended, ParallelBlocking
    <3>. QED BY <3>4, <3>5 DEF JobOK
  <2>. QED BY <2>1, <2>2, <2>3 DEF ContextStep
<1>. QED BY <1>0, <1>1, <1>2, <1>3, OthersOK, ContextFacts DEF StepOK, JobInv

-----------------------------------------------------------------------------
(* The limit of a user.                                                    *)

Executing(u) == {j \in JobsOf(u) \ SandboxJobs : state[j] \in {"InProgress", "Stuck"}}

LEMMA JobsFinite ==
    ASSUME NEW u, NEW S, S \subseteq JobsOf(u)
    PROVE  IsFiniteSet(S) /\ Cardinality(S) \in Nat
<1>1. S \subseteq JobIds
  BY DEF JobsOf
<1>. QED BY <1>1, JobAssumption, FS_Subset, FS_CardinalityType

LEMMA LimitShrinks ==
    ASSUME DispatchedWithinLimit,
           \A j \in JobIds \ SandboxJobs :
               state'[j] \in {"InProgress", "Stuck"} => state[j] \in {"InProgress", "Stuck"}
    PROVE  DispatchedWithinLimit'
<1>1. ASSUME NEW u \in Users PROVE Cardinality(Executing(u)') <= MaxPerUser
  <2>1. Executing(u)' \subseteq Executing(u) /\ Executing(u) \subseteq JobsOf(u)
    BY DEF Executing, JobsOf
  <2>2. /\ Cardinality(Executing(u)') <= Cardinality(Executing(u))
        /\ Cardinality(Executing(u)') \in Nat /\ Cardinality(Executing(u)) \in Nat
    BY <2>1, JobsFinite, FS_Subset
  <2>3. Cardinality(Executing(u)) <= MaxPerUser
    BY DEF DispatchedWithinLimit, InExecution, Executing
  <2>. QED BY <2>2, <2>3, LimitAssumption
<1>. QED BY <1>1 DEF DispatchedWithinLimit, InExecution, Executing, JobsOf

\* The job that is started is counted before it is started.
LEMMA LimitHolds ==
    ASSUME JobInv, NEW j \in JobIds, ScheduleStart(j)
    PROVE  DispatchedWithinLimit'
<1>0. TypeOK /\ DispatchedWithinLimit
  BY DEF JobInv
<1>1. CASE WithinUserLimit(j) /\ CanTransition(state[j], "InProgress")
  <2>1. state[j] \in {"Pending", "Stuck"} /\ state' = [state EXCEPT ![j] = "InProgress"]
    BY <1>1, Transitions DEF ScheduleStart
  <2>2. ASSUME NEW u \in Users PROVE Cardinality(Executing(u)') <= MaxPerUser
    <3>1. CASE u = Owner[j]
      <4>. DEFINE B == {k \in JobsOf(u) : state[k] \in ParallelBlocking}
      <4>1. Executing(u)' \subseteq B /\ B \subseteq JobsOf(u)
        BY <1>0, <2>1, <3>1 DEF Executing, JobsOf, ParallelBlocking, TypeOK
      <4>2. Cardinality(B) < MaxPerUser
        BY <1>1, <3>1 DEF WithinUserLimit, Blocking
      <4>. HIDE DEF B
      <4>3. /\ Cardinality(Executing(u)') <= Cardinality(B)
            /\ Cardinality(Executing(u)') \in Nat /\ Cardinality(B) \in Nat
        BY <4>1, JobsFinite, FS_Subset
      <4>. QED BY <4>2, <4>3, LimitAssumption
    <3>2. CASE u # Owner[j]
      <4>1. Executing(u)' = Executing(u)
        BY <1>0, <2>1, <3>2 DEF Executing, JobsOf, TypeOK
      <4>. QED BY <1>0, <4>1 DEF DispatchedWithinLimit, InExecution, Executing
    <3>. QED BY <3>1, <3>2
  <2>. QED BY <2>2 DEF DispatchedWithinLimit, InExecution, Executing, JobsOf
<1>2. CASE ~(WithinUserLimit(j) /\ CanTransition(state[j], "InProgress"))
  BY <1>0, <1>2, LimitShrinks DEF ScheduleStart
<1>. QED BY <1>1, <1>2

-----------------------------------------------------------------------------
(* The theorems.                                                           *)

\* Every step keeps the types and the jobs' parts.
LEMMA PartsStep == JobInv /\ [Next]_vars => StepOK /\ \A k \in JobIds : Repaired(k)'
<1>. SUFFICES ASSUME JobInv, [Next]_vars PROVE StepOK /\ \A k \in JobIds : Repaired(k)'
  OBVIOUS
<1>1. ASSUME UNCHANGED <<repairs, found, helps>> PROVE \A k \in JobIds : Repaired(k)'
  BY <1>1 DEF JobInv, Repaired
<1>2. ASSUME NEW j \in JobIds,
             (\E saved \in BOOLEAN : CreateJob(j, saved)) \/ Schedule(j) \/ Cleanup(j) \/ StopBegin(j)
      PROVE  UNCHANGED <<repairs, found, helps>>
  BY <1>2 DEF CreateJob, Schedule, ScheduleLock, ScheduleStart, Cleanup, CleanupRead,
              CleanupRemove, StopBegin
<1>3. StopEnd => UNCHANGED <<repairs, found, helps>>
  BY DEF StopEnd
<1>4. ASSUME NEW j \in JobIds, Worker(j) PROVE UNCHANGED <<repairs, found, helps>>
  BY <1>4, WorkerFacts
<1>5. CASE UNCHANGED vars
  BY <1>5 DEF JobInv, StepOK, TypeOK, JobOK, NotStarted, Locked, Ended, Entered, Alive, Repaired, vars
<1>. QED
  BY <1>1, <1>2, <1>3, <1>4, <1>5, DispatchKeeps, ScheduleKeeps, CleanupKeeps, StopKeeps,
     WorkerKeeps, DetectKeeps, HelpKeeps, RepairKeeps, ContextKeeps, ContextFacts
  DEF Next, ContextStep

LEMMA LimitStep == JobInv /\ [Next]_vars => DispatchedWithinLimit'
<1>. SUFFICES ASSUME JobInv, [Next]_vars PROVE DispatchedWithinLimit'
  OBVIOUS
<1>0. TypeOK /\ DispatchedWithinLimit
  BY DEF JobInv
<1>1. ASSUME UNCHANGED state PROVE DispatchedWithinLimit'
  BY <1>0, <1>1, LimitShrinks
<1>2. ASSUME NEW j \in JobIds, NEW saved \in BOOLEAN, CreateJob(j, saved) PROVE DispatchedWithinLimit'
  BY <1>0, <1>2, LimitShrinks DEF CreateJob, TypeOK
<1>3. ASSUME NEW j \in JobIds, ScheduleLock(j) \/ Cleanup(j) \/ StopBegin(j) PROVE UNCHANGED state
  BY <1>3 DEF ScheduleLock, Cleanup, CleanupRead, CleanupRemove, StopBegin
<1>4. CASE StopEnd
  <2>1. lock \in JobIds /\ "Cancelled" \in JobState
    BY <1>0, <1>4 DEF StopEnd, TypeOK, JobState
  <2>. QED BY <1>0, <1>4, <2>1, TransitionFacts, LimitShrinks DEF StopEnd
<1>5. ASSUME NEW j \in JobIds, Worker(j) PROVE DispatchedWithinLimit'
  <2>1. state'[j] = "Stuck" /\ state[j] # "Stuck" => state[j] = "InProgress"
    BY <1>5, WorkerFacts, Transitions
  <2>. QED BY <1>0, <1>5, <2>1, WorkerFacts, LimitShrinks
<1>6. ASSUME NEW j \in JobIds, Detect(j) \/ HelpJob(j) PROVE DispatchedWithinLimit'
  BY <1>0, <1>6, LimitShrinks DEF Detect, HelpJob, AttemptRecovery, TypeOK
<1>7. CASE RepairStuckJob
  BY <1>0, <1>7, RepairFacts, LimitShrinks
<1>8. ASSUME NEW j \in JobIds, ContextStep(j) PROVE DispatchedWithinLimit'
  <2>1. \A k \in JobIds \ SandboxJobs :
            state'[k] \in {"InProgress", "Stuck"} => state[k] \in {"InProgress", "Stuck"}
    BY <1>8, ContextFacts
  <2>. QED BY <1>0, <2>1, LimitShrinks
<1>. QED
  BY <1>1, <1>2, <1>3, <1>4, <1>5, <1>6, <1>7, <1>8, LimitHolds
  DEF Next, Schedule, ContextStep, vars

LEMMA JobInvInit == Init => JobInv
<1>. SUFFICES ASSUME Init PROVE JobInv
  OBVIOUS
<1>1. TypeOK
  BY LimitAssumption DEF Init, TypeOK, NoneFound
<1>2. \A j \in JobIds : JobOK(j) /\ Repaired(j)
  BY LimitAssumption, JobAssumption
  DEF Init, JobOK, NotStarted, Locked, Ended, Entered, Alive, Repaired, NoneFound
<1>3. DispatchedWithinLimit
  <2>1. ASSUME NEW u \in Users PROVE Executing(u) = {}
    BY DEF Init, Executing, JobsOf
  <2>. QED BY <2>1, FS_EmptySet, LimitAssumption DEF DispatchedWithinLimit, InExecution, Executing
<1>. QED BY <1>1, <1>2, <1>3 DEF JobInv, Init

LEMMA JobInvAlways == Spec => []JobInv
<1>1. JobInv /\ [Next]_vars => JobInv'
  BY PartsStep, LimitStep DEF JobInv, StepOK
<1>. QED BY <1>1, JobInvInit, PTL DEF Spec

\* The states, calls, workers and clean-up tasks of all jobs keep their
\* types; attempt_recovery runs at most max_repair_attempts times beyond the
\* users' helps, although a repair decides by a count it read earlier.
THEOREM JobTypeCorrect == Spec => []TypeOK
BY JobInvAlways, PTL DEF JobInv

\* The scheduler never loses a running worker: it has its entry in the table,
\* is being stopped, or was aborted, through any overlap of schedule, stop,
\* clean-up, cancel_job, self-repair and help; and a stop that has returned
\* leaves the job over for good.
THEOREM JobLiveIsStoppable == Spec => []LiveIsStoppable
<1>1. JobInv => LiveIsStoppable
  <2>. SUFFICES ASSUME JobInv, NEW j \in JobIds, Alive(j), told[j] # "abort"
                PROVE  j \in table \/ lock = j
    <3>1. ASSUME NEW j \in JobIds, told[j] = "abort", JobInv
          PROVE  state[j] \in {"Completed", "Failed", "Cancelled"}
      <4>1. state[j] \in JobState /\ Ended(j)
        BY <3>1 DEF JobInv, JobOK, TypeOK, Ended
      <4>. QED BY <3>1, <4>1 DEF Ended, JobState, ParallelBlocking
    <3>. QED BY <3>1 DEF LiveIsStoppable
  <2>1. told[j] \in {"nothing", "stop"}
    BY DEF JobInv, TypeOK
  <2>. QED BY <2>1 DEF JobInv, JobOK, Entered, Locked, Ended
<1>. QED BY <1>1, JobInvAlways, PTL

\* The scheduler's jobs of a user in execution are at most max_jobs_per_user,
\* for any number of users whose dispatches overlap with each other and with
\* sandbox jobs.
THEOREM JobDispatchedWithinLimit == Spec => []DispatchedWithinLimit
BY JobInvAlways, PTL DEF JobInv

\* No step takes back a failure or a cancellation, and only a repair that
\* had listed the job fails a job that was completed.
THEOREM JobOutcomeStays == Spec => OutcomeStays
<1>. DEFINE Stays == \A j \in JobIds :
               /\ state[j] \in {"Failed", "Cancelled"} => state'[j] = state[j]
               /\ state[j] = "Completed" /\ state'[j] # "Completed" =>
                     state'[j] = "Failed" /\ found.job = j
<1>1. JobInv /\ [Next]_vars => [Stays]_vars
  <2>. SUFFICES ASSUME JobInv, Next, NEW j \in JobIds,
                       state[j] \in {"Failed", "Cancelled", "Completed"}, state'[j] # state[j]
                PROVE  state[j] = "Completed" /\ state'[j] = "Failed" /\ found.job = j
    OBVIOUS
  <2>0. TypeOK /\ JobOK(j)
    BY DEF JobInv
  <2>1. ASSUME NEW k \in JobIds, NEW saved \in BOOLEAN, CreateJob(k, saved) PROVE FALSE
    <3>1. state[k] = "none"
      BY <2>1 DEF CreateJob, JobInv, JobOK, NotStarted
    <3>. QED BY <2>0, <2>1, <3>1 DEF CreateJob, TypeOK
  <2>2. ASSUME NEW k \in JobIds, Schedule(k) PROVE FALSE
    BY <2>0, <2>2, Transitions DEF Schedule, ScheduleLock, ScheduleStart, TypeOK
  <2>3. ASSUME NEW k \in JobIds, Cleanup(k) \/ StopBegin(k) PROVE FALSE
    BY <2>3 DEF Cleanup, CleanupRead, CleanupRemove, StopBegin
  <2>4. ASSUME StopEnd PROVE FALSE
    <3>1. lock \in JobIds /\ "Cancelled" \in JobState
      BY <2>0, <2>4 DEF StopEnd, TypeOK, JobState
    <3>2. lock = j /\ CanTransition(state[j], "Cancelled")
      BY <2>0, <2>4, <3>1, TransitionFacts DEF StopEnd
    <3>. QED BY <3>2, Transitions DEF ParallelBlocking
  <2>5. ASSUME NEW k \in JobIds, Worker(k) PROVE FALSE
    <3>1. k = j /\ CanTransition(state[j], state'[j]) /\ (worker[j] = "loop" \/ state'[j] = "Completed")
      BY <2>5, WorkerFacts
    <3>2. state[j] = "Completed" /\ worker[j] # "loop"
      BY <2>0, <3>1, Transitions DEF Terminal, JobOK, Ended
    <3>. QED BY <3>1, <3>2
  <2>6. ASSUME NEW k \in JobIds, Detect(k) \/ HelpJob(k) PROVE FALSE
    BY <2>0, <2>6 DEF Detect, HelpJob, AttemptRecovery, TypeOK
  <2>7. CASE RepairStuckJob
    <3>1. j = found.job
      BY <2>7, RepairFacts
    <3>. QED BY <2>7, <3>1, RepairFacts, Transitions DEF Terminal
  <2>8. ASSUME NEW k \in JobIds, ContextStep(k) PROVE FALSE
    <3>1. k = j
      BY <2>8, ContextFacts
    <3>. QED BY <2>8, <3>1, ContextFacts, Transitions DEF Terminal, ParallelBlocking
  <2>. QED BY <2>1, <2>2, <2>3, <2>4, <2>5, <2>6, <2>7, <2>8 DEF Next, ContextStep
<1>. QED BY <1>1, JobInvAlways, PTL DEF Spec, OutcomeStays
=============================================================================

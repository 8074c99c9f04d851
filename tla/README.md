# t3-claw: specifications, model checks and proofs

t3-claw is a personal agent: channels bring in messages, an agent loop turns
them into turns of a language model, the model calls tools, and tools that need
a person's consent or credential pause the turn behind a *gate*. This directory
holds TLA+ modules that model the part of the program where several tasks, a
crash or the passing of time meet shared state, TLC configurations that check
them on small instances, and proofs that hold for every instance.

Paths below are relative to the repository's root, so `src/bridge/router.rs` is
the main crate's file and `crates/t3claw_engine/src/...` the engine's.
`PROJECT.json` has the exact lines behind every definition.

## 1. Inventory

### The parts this version models

| part | state | operations | who else touches it |
|---|---|---|---|
| Thread manager (`t3claw_engine/src/runtime/manager.rs`) | `running` (handle and signal sender per thread), `completed` (unjoined outcomes); the thread records in the store | spawn, resume, stop, inject, join, recover | the spawned loops, which own a private copy of the record and write it back whole |
| Execution loop (`executor/loop_engine.rs`, `executor/orchestrator.rs`, `orchestrator/default.py`) | the record, its checkpoint, the signal channel | begin, check signals, iterate, wrap up, finish, publish | the manager |
| Pending gate store (`src/gate/store.rs`, `persistence.rs`, `pending.rs`) | two indices under a mutex, a JSON file under a file lock | insert, take_verified, peek, list, discard, discard_for_thread, expire_stale, restore | the agent, the web gateway, restarts |
| Engine bridge (`src/bridge/router.rs`, `runtime/conversation.rs`) | per-conversation active threads; what the handler in progress knows | message, approval, denial, cancel, credential, callback, replay, interrupt, clear, init_engine | the web gateway (`channels/web/features/extensions/mod.rs`), loops, missions, crashes |
| Cost guard (`src/agent/cost_guard.rs`) | daily total and date, exceeded flag, action window, per-user totals | check_allowed_for_user, record_llm_call_for_user | every task that calls the model, midnight, the hour |
| Circuit breaker (`src/llm/circuit_breaker.rs`) | state, failure count, opened_at, probe count | check_allowed, record_success, record_failure | every task that calls the provider |
| Capability leases (`capability/lease.rs`, `runtime/lease_refresh.rs`) | leases with grants, deadline and uses left, under one lock | grant, find, consume, refund, revoke, expire, derive for a child, refresh | both executors (`orchestrator.rs`, `scripting.rs`), the bridge (runs a paused call), the clock |
| Missions (`runtime/mission.rs`) | the mission's record in the store, the index of active ones, `last_fire_attempt` | tick, fire, pause, resume, complete, update | the watcher of every fired thread, restarts |
| Jobs (`src/agent/scheduler.rs`, `worker/job.rs`, `agent/self_repair.rs`, `context/`) | state and repair attempts of a job, the table of workers | create, schedule, stop, help, cancel_job, register_sandbox_job; repair passes | the workers, a clean-up task per job, the task that waits for a sandbox job |
| Container jobs (`src/orchestrator/`, `tools/builtin/job.rs`, `channels/web/features/jobs/`) | handles, tokens and grants, job contexts; containers in Docker | create, complete, stop, cancel, restart, reap | the worker in the container, the job monitor, self-repair, crashes |

How they interact. The agent loop takes one message at a time and awaits its
handler (`agent_loop.rs:1175`). The handler in the router asks the gate store
whether the message answers a gate; if not, the conversation manager injects it
into a running thread, resumes a suspended one or has the thread manager spawn a
new one. The router then polls until the thread is not running, joins it and acts
on the outcome: a final outcome untracks the thread, a gate outcome stores a gate
and leaves the thread Waiting. A later approval takes the gate out of the store
and resumes the thread. A completed reply that says `authentication_required` gets
a *fallback* gate, for a thread that is already done; the credential that resolves
it replays the original message as a new turn. Beside the agent, the loops run as
tasks of their own, missions spawn and join threads through the same manager (the
cron ticker, the event listener, and the message handler before it routes), and
the web gateway discards auth gates when an extension's setup form is submitted.
On a restart `init_engine` recovers the records, restores the gates from their
file and reconciles the two. Every model call passes the cost guard and, if one
is configured, the circuit breaker.

Inside a turn every tool call is made under a lease of its thread. Missions spawn
threads on a schedule and watch their outcome. The older agent (v1) runs jobs in
two ways: in workers of the scheduler, tasks of the same process, and in Docker
containers, which call back over HTTP with a token. Self-repair looks at both
through the job contexts; the reaper at containers only.

What is hard here:

- **Locks are released between the steps of one operation.** `resume_thread` and
  `join_thread` take the manager's maps one at a time; `insert` writes the gate's
  file after the mutex; the cost guard has four locks and a relaxed flag; the
  breaker is unlocked while the provider answers.
- **Locks are not released where they should be.** `inject_message` and
  `stop_thread` await a full channel under the read guard of `running`.
- **Copies.** A loop and a resumption both write back the whole record.
- **Read-modify-write over awaits.** `fire_mission` and the watcher save whole
  mission records they loaded some awaits ago; the scripting executor consumes a
  lease it found before it asked the policy; a repair pass acts on a list it made
  earlier; the reaper removes a container some awaits after it read the job.
- **Crashes** between a record's save, a conversation's save and the gate file's,
  and in the middle of the file's own rewrite.
- **Time.** Gates expire, turns outlive the five-minute poll, midnight passes
  between a check and its record.

What makes the parts correct, in short: one live loop per thread, and the agent
waits for the one of its conversation; a gate the user sees belongs to a thread
that waits for it, or to a new turn; a gate is handed to one caller; an approval never outlives the process that got it; a
stop that was delivered is heard; nothing recorded is lost or
counted on the wrong day; a budget is overshot by a bounded amount; a breaker
counts what was recorded and never stays open before a healthy provider; no use of
a lease is lost or made up, and a child's lease has none its parent lacks; a mission
counts a fire once and does not fire a slot twice; a worker can be stopped while
it lives, and every job ends; a container's token ends with its job, and a
container nobody needs is removed.

### The parts it does not model

`PROJECT.json` lists them all with their sources and the reason. The repository has
some 417,000 lines, most of them tools, channel and provider adapters, set-up,
user interfaces, storage and tests; the models cover the control of the parts
where several tasks meet shared state, about two percent of the
lines. The rest falls into four groups:

- *I/O and formats*: built-in, WASM and MCP tools, the effect adapter, the sandbox's
  Docker calls, channel protocol adapters, LLM providers, extensions, the set-up
  wizard, the terminal interface, workspace, database, secrets. Their control is a
  call and its error; the models that need one take its result as a free choice.
- *Pure functions of text or tables*: text classification, price tables, safety
  patterns, skills, ranking in the engine's memory, the policy's decision.
- *Sequential state under one owner*: the v1 sessions, threads and undo stacks, the
  dispatcher's turn, hooks, the tool registry. The agent loop takes one message at
  a time, and it alone calls `resolve_thread`.
- *Best effort*: the failover's cooldowns, the response cache, event streams. A race
  costs a call, and no caller depends on more.

## 2. Plan

Done, in this order: `CircuitBreaker`, `PendingGateStore` with its abstract
specification `GateBoard`, `ThreadManager`, `GateRouter` (which composes
`ThreadManager` with `GateBoard`), `CostGuard`; then `LeaseManager`, `Missions`,
`Jobs` and `Containers`; the proofs of every safety property of all of them.

What is left is outside the prover's reach: the liveness properties, which TLC
checks (section 6).

## 3. Modules and how they correspond to the code

Conventions. An action stands for the code between two points where other tasks
can run (an `.await`, the release of a lock). Program counters (`pc`) name where a
task is suspended. Ids are model values; bounded id sets (`Threads`, `Loops`,
`Gates`) are the only bounds on histories, and the comments name what happens
when they run out. History variables are marked as such and read by properties
only. Definitions named `Mutant...` are plausible faults of the definition that
follows them; they are not used by any specification and exist to show that each
property can fail.

**CircuitBreaker.** `CheckAllowed`, `RecordSuccess`, `RecordFailure`,
`RecordNothing` are the two critical sections of a call with the provider's
answer in between; `call[c]` says whether caller c has one in flight. The age of
`opened_at` is counted up to the timeout, since only that is compared. The
provider fails only while `backend` is degraded. A success recorded while the
circuit is open closes it, as in the release build. Refused calls change nothing
and have no action.

**PendingGateStore.** `by_key` and `by_request_id` are the two indices, `rows` and
`readable` the file. A task that has released the mutex *owes* the file a save
or removals (`owes`); these arrive in any order (`FileSave`, `FileRemove`), can
fail (`FileError`), and a crash inside `write_state` leaves the file empty or
unreadable (`Interrupted`). `peek` and the lists read only and appear as `Visible`
and `Held`. A gate's payload is reduced to its id, key, source channel and the
`approval_already_granted` flag.

**GateBoard.** What a caller may rely on: one pending gate per key, a gate is
posted once, and leaves once per life of the process. `PendingGateStore` is shown to
implement it (`posted <- inserted, pending <- Held`), and `GateRouter` is built on
it, so the router's checks carry over to the store's behaviour.

**ThreadManager.** `op[c]` is the operation a caller is inside, `loop[h]` the task
behind a join handle. `store` is the persisted record, reduced to its state and
whether it holds a checkpoint. Spawning a task and registering its handle are two
steps, as in `start_thread`. `RunningIsReadLocked` is the guard a blocked sender
keeps. `LoopWork` stands for the body of the orchestrator's iteration: what the
model and the tools do is a choice among the ways an iteration can end.
`Completed` also stands for the outcome of reaching max_iterations. The store
never fails in this model. The manager serves any callers; which ones there are is
the router's business.

**GateRouter.** `task` is where the agent's handler stands, `web` where the
gateway's does, `phase` how far `init_engine` got. The agent enters manager
operations (`Call`), whose steps are those of `ThreadManager` (`Operate`), and
continues when they return. `conv` has the channel's main conversation (scope
`None`) and one per thread-scoped message. `Admitted` is what a message meets
first: an approval or auth gate takes it, an external one lets it through, several
without a scope refuse it. `Resolutions` groups the arms of `resolve_gate` by what
they do next, `Replay` being the one of a fallback gate, which handles the original
message again in the scope of the answer. `Joined` and `PostGate` include the
fallback gate of a completed turn. The other callers of the manager are missions:
`MissionFire` spawns, `MissionWatch` joins to the end, `MissionOperate` is the steps
of either, on `MissionThreads`, from the moment recovery is through. What a mission
does to its own record is in `Missions`. Leases and OAuth exchanges are left out;
gates of one user only, since the store's keys keep users apart. `SlowTurns` allows
the five-minute deadline to fire at any time, `Crashes` allows a crash at any step,
also during a restart.

**CostGuard.** One step per lock of `check_allowed_for_user` and
`record_llm_call_for_user`. Dates are ages in days because the code only compares
them for equality. Amounts are whole cents: `to_cents` truncates, which does not
change a comparison with a limit in cents. All limits are configured; a limit of
`None` skips its check. The record under the lock of the total is one step,
although a reset also waits for the per-user lock there: every write of
`budget_exceeded` happens under the lock of the total, and a check that reads the
flag in the middle goes on to wait for that lock and decides by the total, as it
would have by the flag. So `FlagMatchesTotal` speaks of the moments when the lock
is free. The
budget gate of missions is a check without a record (`GiveUp` from "inflight").
The history variable `spent` sums what was recorded since midnight.

**LeaseManager.** `active` and `lease` are the manager's map; an id that left the map
keeps its record for the properties. `Begin` ... `End` is the life of a batch of
calls: `Find`, `NotFound`, `Deny`, `RequireApproval` and the two ways to consume,
`FindAndConsume` in one lock as the orchestrator does and `ConsumeFound`, by the id
found earlier, as scripts do; then `Executed` or `GatePaused`, which refunds.
`RequireApproval` and `GatePaused` leave the call behind a gate (`paused`), with a
copy of the lease or without; when its thread is at rest
`ExecutePendingGateAction` runs it, under the copy if that is still valid or a lease
found anew, and consumes nothing, as in the bridge; `Unpaused` is every other end of
the gate.
A batch is one task of its thread, a script has a task for each call in flight. `RefreshRead`,
`RefreshUpdate` and `RefreshGrant` are the locks of `reconcile_dynamic_tool_lease`,
`DeriveRead` and `DeriveInsert` those of `derive_child_leases`. The policy's answer
is a free choice.

**Missions.** One mission. `task[k]` is where a `fire_mission` stands, the ticker's or
one a user asked for, with the record it has loaded; `watch[t]` and `op[o]` are the
outcome watcher and the four requests, with theirs. `attempt` is the in-memory
`last_fire_attempt`. A fire instant is named by the thread of the fire, since no two
are equal, and `born` has its time. A save replaces the whole `store` and may fail (`MaxFaults`).
The schedule is a period, and its expression may turn out corrupt; `Restart`
loses the attempts, the threads and whatever was under way, and rebuilds the index
from the status. Event and webhook triggers,
learning missions, budgets and the text of the meta-prompt are left out: they end
in the same `fire_mission`.

**Jobs.** `call[j]` is where `schedule_with_context` stands, `lock` the job for which
schedule or stop holds the table across its awaits, `worker[j]` the worker's
position (`wrapup` is between its own completion and the code after its loop),
`told[j]` what stop has told it. `CleanupRead` and `CleanupRemove` are the two locks
of the clean-up task. `Detect` lists a job, `RepairStuckJob` acts on the list
later. Refused dispatches end in `Returned` and leave the job Pending.
`RegisterSandboxJob` puts the job of a container into the same context manager,
InProgress at once and asking for `max_jobs` only; `SandboxResult` is what the task
that waits for it writes. `CancelJobTool` sets the state to Cancelled and leaves
worker, entry and scheduler alone, as the tool does. The database
copies of a job's state are written by tasks nobody waits for and are not read
back while the process lives; they are left out.

**Containers.** `maker[j]` is the creator of the container (the waiting tool, the
detached tool or the web restart), `complete[j]` the handler of the worker's
report, `op[a][j]` a `stop_job` by the creator, a user or the reaper: each steps
from lock to Docker call to lock. `box`, `worker` and `said` are external. `mode[j]`
is the job's mode: the T3Claw worker's result event has no `status` and is
delivered as a failure (`WorkerFinish`, `Deliver`), Claude Code's sessions send
theirs before the process ends (`SessionResult`), ACP's says what it reports. A report's
handler may be dropped when its own connection closes (`CompleteDropped`), Docker
calls fail up to `MaxFaults` times, `Crash` keeps only what Docker and the workers
have. `Age` makes a container older than `orphan_threshold` and is not taken while
its creation is under way: the calls of one creation are taken to be quicker than
that threshold (10 minutes). `Repair` is what self-repair does to a job's context,
whose own steps are in `Jobs`.

`MCPendingGateStore`, `MCGateRouter`, `MCLeaseManager` and `MCJobs` give values to the constants that are
functions or sets with structure, and the symmetry set; the other modules are
instantiated by their configuration alone.

## 4. What the runs check

Numbers are distinct states found.

| run | instance | states | result |
|---|---|---|---|
| breaker | 3 callers, threshold 2, timeout 2 ticks, 2 probes | 238 | holds |
| gate_store | 3 gates, 2 keys, 2 tasks, 1 crash, failing writes | 203,145 | holds |
| manager | 1 thread, 2 callers, channel of 2 | 256,830 | holds |
| manager_join | the same, channel of 1 | 17,583 | `JoinReturns` fails |
| router | 1 conversation thread, 1 mission thread, 3 loop handles, 2 gates, crashes | 880,351 | holds |
| router_deadline | 1 thread, turns that last | 914 | `DeadlineBreaksOut` fails |
| cost_guard | 2 callers, limit 3, costs to 2, 2 actions an hour | 65,386 | holds |
| cost_renew | 1 caller, limit 1 | 239 | `BudgetRenews` fails |
| leases | 2 leases of 2 uses, a batch of 2 calls, 2 calls of a script, parent and child | 1,846,258 | holds |
| missions | 2 threads, ticker, a user, 1 request, 1 failing save, 1 restart | 904,335 | holds |
| jobs | 1 dispatched and 1 sandbox job, 1 repair, 1 help | 41,918 | holds |
| containers | 1 job of any mode, 2 failing calls, 1 crash | 700,348 | holds |

Where a run fails, TLC stops at the first trace it finds.

**breaker.** `CountsConsecutiveFailures`: in every overlap of calls a closed breaker
counts exactly the transient failures recorded since the last success, and one
that is open or probing keeps the count it tripped with. `OpenedAtMatchesState`:
`opened_at` is set exactly while the circuit is not closed, so the recovery arm of
`check_allowed` is dead. `ClosesWhenHealthy`: whatever was in flight, a provider
that stays healthy gets its circuit closed for good. Three callers let one trip
the circuit, one probe and one come late.

**gate_store.** `IndexesAgree`: the two maps describe the same gates through every
removal path and restart. `OneRowPerKey`: the unlocked writes never leave two rows
of one key. `GrantDiesWithProcess`: a granted approval is only ever found on a gate
this process inserted and still holds. `ImplementsBoard`: refinement of
`GateBoard`. Three gates on two keys give a refused insert and two gates that
follow each other under one key, two tasks give every race of two writes. The
board promises nothing across a restart; what the file fails to keep is told below.

**manager.** `StopIsHeard`: a stop in the channel ends the turn whatever else is
queued. The callers use the manager in any order, which is more than the router
does: what holds here holds under any client. Capacity 2 puts a signal before and
one after the stop; 32 in the code.

**router.** `GateMeansWaiting`: a gate the user can resolve belongs to a thread
whose record is Waiting, or is a fallback gate of a thread that is Done, and no loop
is at work on the thread, through resolutions of all kinds, replays, clears, the
gateway's discards, expiry, crashes and restarts. `AgentOwnsTheTurn`: whatever a
mission's loop does beside it, at most one loop is live on the threads of
conversations, and the agent is waiting for it. `OwnerRecordsAreLive`: once the engine
is up no record of the owner's project, a mission's included, is left Created or
Running unless a caller is about to start its loop or a loop is live on it. The gates
are one of an external callback, which lets messages pass, and a fallback gate; the
loop handles are interchangeable and declared symmetric. Turns end within the poll's
five minutes here (`SlowTurns` is FALSE): with longer ones a join that comes before
the loop has left takes the same outcome twice (below) and `GateMeansWaiting` does not
hold. The other properties are proved for turns of any length, and turns that last are
the subject of `router_deadline`.

**cost_guard.** `FlagMatchesTotal`: the flag that lets a check skip the lock agrees
with the total in every interleaving. `CountsToday`: nothing recorded is lost or
counted on another day, also for calls under way at midnight.
`OvershootBounded`, `RateBounded`: checking and recording are separate, so
concurrent calls overshoot, by at most one call each. No bound on the totals is
needed: the limits themselves keep the state space finite.

**leases.** `UsesConserved`: uses left, in the hands of calls and
gone with calls that an executor ran or an interrupted batch add up to `max_uses`,
through overlapping executors, the gap between find and consume, refunds after
pauses and the removal of stale leases. It does not bound the calls that run: the
bridge executes a paused call without a use (below).
`ChildWithinParent`: a derived lease never exceeds its parent's deadline, budget and
actions, except by what the child's own refresh adds. A thread runs a batch or a
script at a time: a batch has two calls over two uses, with revocation,
expiry, refresh, derivation and the resumption of paused calls in between, and two
calls of a script are in flight at once and meet the last use.

**missions.** `CountsOnce`: no copy of the record counts more fires than it lists
threads, although two writers record each fire. `ListedRunningBounded`: no copy
lists more running threads than `max_concurrent`; overlapping fires do exceed the
limit, but only by threads a stale save has dropped from the history.
`NoRefire`: one slot of the schedule is fired once within FIRE_COOLDOWN, also when
the save failed or was overwritten. `PausedIsNotTicked`: a tick that starts after a
pause has taken the mission out of the index does not spawn until a resume. `FireIsReconciled`: a thread whose fire was not
saved gets into the history by its watcher. Two threads are what `max_concurrent` 1
needs to be exceeded; three instants hold a slot, its cooldown and a new day.

**jobs.** `LiveIsStoppable`: a worker nobody has aborted is in the
table, where stop finds it, or a stop that has just taken it out holds the lock;
and once a stop is through the job is over, whatever its worker, a repair or
`cancel_job` did. `cancel_job` itself leaves the worker running, but not out of
reach. `OutcomeStays`: Failed and Cancelled
are final whoever writes late, and a completed job can fail only by a repair pass
that had listed it. `JobsSettle`: every started job gets an outcome, although help
and repair restart no worker. A dispatched and a sandbox job share the limits
and the repair pass. That the jobs a user has in the scheduler stay within
`max_jobs_per_user` however dispatches overlap (`DispatchedWithinLimit`) takes three
dispatched jobs to show and is proved instead.

**containers.** `TokenEndsWithJob`: whoever ends a job, a stop or a report, is still
going to revoke its token as long as the token is there; the exception is a report
whose handler is dropped with its connection, after which nobody does.
`FailureIsNotCompleted`: a stopped handle without a result is taken for a success,
but never for a worker that reported a failure, unless a user stopped the job or a
monitored session of Claude Code had said that it completed. `ReaperSparesActive`:
what the reaper read is still true when it acts. `OrphansAreReaped`: the container
of a job that is not active goes, also after faults and a crash at any point,
provided the reaper was started: `main.rs:1312` constructs it once, and if Docker
cannot be reached then none runs. One job is enough: jobs share nothing but the
reaper's queue, and the reaper handles one at a time. Every mode of a job is
included.

### Where the code and what it says of itself differ

Each of these is a run whose property states what the repository says of itself and
which TLC refutes.

- **manager_join** (`manager.rs:416`). "Wait for a thread to finish and return its
  outcome." A sender waiting for room in a full channel keeps the read guard of
  `running`; a loop past its last signal check needs the write guard before it ends
  and drops the channel; `join_thread` needs the same guard. None of the three goes
  on.
- **router_deadline** (`router.rs:3776`). "Break out to avoid hanging the user session
  forever" (`3740`). The deadline breaks out into `join_thread`, which has none.
- **cost_renew** (`cost_guard.rs:225`). The counter should reset at midnight UTC. Only
  a recorded call resets it, and a blown budget admits none.

The models show the following as well. A property that denies it would only name a
state the code plainly reaches, so there is no run for it; the passing properties are
worded so that they do not claim the opposite.

- "BUG: record_success() called while circuit breaker is Open — check_allowed() was
  bypassed" (`circuit_breaker.rs:172`). Two overlapping calls are admitted while
  Closed, failures trip the breaker, the other call succeeds late. A debug build
  panics, a release build closes the circuit before its timeout.
- "Backend for persisting pending gates across restarts" (`gate/store.rs:62`). The save
  of `insert` comes after the mutex is released (`117`); overtaken by the removal of
  the same gate it leaves the row of a resolved gate in the file, and a restart offers
  the gate again. So does a removal that fails (`174`). A crash after the truncation
  (`persistence.rs:98`) loses the gates of every thread, or leaves a file that does not
  parse; every later save then fails in `read_state` and gates live in memory only.
- "Suspended threads keep their checkpoint for restart" (`manager.rs:262`), and recovery
  suspends a Running thread as "resumable from checkpoint" (`592`).
  `__save_checkpoint__` (`orchestrator.rs:1799`) writes into the loop's own copy of the
  record, and no save of that copy comes before it is cleared: no stored record has a
  checkpoint, and a crashed turn is always failed. The proofs use this: nothing is ever
  Suspended.
- `max_uses` is the "Maximum number of action invocations"
  (`types/capability.rs:200`). A call that a gate paused has its use refunded, or never
  took one, and the bridge executes it without consuming (`router.rs:1049`): a lease
  for one invocation lets two calls run, the second also after a revocation.
- "Mission is paused — no new threads will be spawned" (`types/mission.rs:49`).
  `fire_mission` does not look at the status Paused (`mission.rs:617`), so a fire under
  way, and a manual one begun later, spawns. The ticker does not begin one, since it
  goes by the index (`PausedIsNotTicked`). And a fire saves the record it loaded before
  the pause, status included (`865`): the mission is Active again, and a restart puts
  it back into the index.
- "Maximum number of mission threads that may be running concurrently"
  (`types/mission.rs:156`). Two overlapping fires count the same history
  (`mission.rs:678`) and both spawn.
- "Maximum concurrent jobs per user" (`config/agent.rs:36`). `register_sandbox_job`
  (`context/manager.rs:69`) does not ask for that limit, and the scheduler's count
  includes the job that is being scheduled (`scheduler.rs:281`): a limit of n admits
  n - 1 dispatched jobs, and one admits none.
- The monitor sets the state so that "query tools show the final state"
  (`job_monitor.rs:96`). The T3Claw worker's result event has `success` and no `status`
  (`worker/container.rs:202`), which `api.rs:334` parses as a failure: every successful
  detached job of that mode is recorded as Failed.

Observed while modelling, of less weight:

*Breaker, gates and turns*

- Recovery fails every Waiting thread of the owner's project whose metadata lacks
  `pending_approval` (engine `manager.rs:575`), which only a test sets (`1354`);
  reconciliation then discards the gate, so a gate does not survive a restart. A
  fallback gate never does: its thread is done.
- `recover_project_threads` visits the owner's project only (`router.rs:1790`), so
  Created and Running records of other projects stay as they were; this is why
  `OwnerRecordsAreLive` speaks of `OwnerThreads`.
- A cancelled gate stops its thread, which is not running: the record stays
  Waiting without a gate until a scoped message or a restart fails it
  (`router.rs:2604`).
- The setup handler clears the auth gates before it sends the callback that needs
  one (`extensions/mod.rs:568`), and the clearing lists first and discards by key
  afterwards (`router.rs:3248`), so a newer gate under the same key goes too.
- A join can take the published outcome before the loop has removed its entry
  (`manager.rs:353-361`). The loop's tail then still counts as running: a message
  that comes in between is injected into it and lost, and the second join returns
  the old gate outcome again, for a thread that may have been failed since. This
  needs a join before the poll has seen the thread end, so only slow turns show
  it, and `GateMeansWaiting` is stated without them. If the user clears or interrupts
  twice in that moment, the second stop waits for room in the channel under the guard
  the loop needs, as in `manager_join`.
- `record_llm_call_for_user` reads the date before it waits for the per-user lock
  (`cost_guard.rs:312`): a record that waited over midnight can restart the entry
  with yesterday's date.

*Leases*

- Finding a lease accepts both spellings of a name, consuming one only the exact
  name (`lease.rs`): a call may be found leased and then refused.
- A RequireApproval in a batch loses the uses its earlier calls have consumed
  (`orchestrator.rs:1323`).
- Revoking a parent's lease does not reach the leases derived from it; its expiry
  does, through their deadline.
- The refresh grants a new lease without limits when it finds the thread's tools
  lease exhausted or revoked (`lease_refresh.rs`). Production code grants leases
  without limits, and only tests derive, revoke and expire them.

*Missions*

- Writers overwrite each other in other ways too: a fire that loaded the record
  before a completion makes it Active again; a fast thread's achievement is undone by the
  save of the `fire_mission` that spawned it; a pause and a resume in parallel can
  leave index and status in disagreement.
- Three things disarm FIRE_COOLDOWN, and `NoRefire` names them as exceptions: a
  corrupt schedule together with a failed save; a pause during a fire; and a manual
  fire that spawned before the ticker's but writes `last_fire_attempt` after it
  (`mission.rs:853` inserts whatever is there) and then saves its older schedule.
  The proof of `NoRefire` showed the third, which takes three threads.

*Jobs*

- A refused dispatch leaves its job Pending for good, counting against the limits.
- Help and self-repair put a stuck job back to InProgress, "recovered and will be
  retried", without a worker (`self_repair.rs:275`); a worker that finishes while its
  job is Stuck loses its completion.
- A stopped worker may complete its job within stop's 100 ms, and a completed job
  may fail by a repair pass that had listed it before it was helped.
- `cancel_job` sets a job's state to Cancelled and tells the scheduler nothing
  (`tools/builtin/job.rs:1347`): the worker goes on to its next check of the state,
  keeping its entry and its slot until then.
- `handle_cancel_job` writes Cancelled to the database and says so, also for a job
  that is not in the table or has completed.

*Container jobs*

- The web restart creates a container without registering the job's context
  (`channels/web/features/jobs/mod.rs:546`), so the reaper takes it for an orphan
  (`reaper.rs:101`) and removes a restarted job at work once it is ten minutes old.
- A worker that reports before the container's id is recorded: `complete_job` does
  not remove the container, the handle goes back to Running, and the waiting tool
  times out and reports a completed job as failed (`job_manager.rs:621`).
- The waiting tool's `cleanup_job` between the locks of `complete_job` leaves the
  container; those of Completed jobs count as active and stay until a restart.
- `stop_job` is refused while the handle is Creating: the cancelled job runs on until
  the reaper finds it. The web gateway's cancel does not touch the context: the
  waiting tool reports the job as completed, also when a failure was reported in
  between, and a detached job stays InProgress until self-repair gives it up.
- Self-repair takes long container jobs for stuck and fails them, and the reaper
  then removes the container at work.
- A result published before the job monitor has subscribed is lost; handles of
  detached and restarted jobs are never cleaned up.
- Stopping the container closes the connection of the report that asked for it. If
  the server drops the handler then, the token is not revoked.
- A session of Claude Code that announces its completion and then exits with an error
  is recorded as Completed by the monitor, which takes the first result.

*Sessions* (not modelled)

- `last_active_at` is set when a thread is created, loaded, switched to or an
  approval is handled, so `prune_stale_sessions` (`session_manager.rs:375`) prunes a
  session that is in constant use of one thread. It removes by user name what it
  found idle some awaits earlier.

## 5. Fairness

- `CircuitBreaker!FairSpec`: time passes and callers keep calling (weak fairness);
  a call that is made again and again is not cancelled or failed for a reason that
  is not recorded every single time (strong fairness of `RecordSuccess`). The
  conclusion is only claimed for a backend that stays healthy.
- `ThreadManager!ManagerFairSpec`: the tokio runtime polls every task that can go
  on, and every model and tool call returns. Nothing forces a turn to end, nor
  callers to call. `ManagerTurnsEndSpec` adds that a loop does not choose
  "Continue" for ever: the orchestrator counts its iterations against
  `max_iterations`. It is used to show that `JoinReturns` fails *even then*.
- `GateRouter!LastingTurnsSpec`: the agent's task is polled and the loops are, but a
  turn may last: nothing in the code bounds how long a model or tool call takes. No
  fairness is assumed of users, the web gateway, missions, expiry, crashes or the
  boot. It is used to show that `DeadlineBreaksOut` fails.
- `CostGuard!FairSpec`: days and hours pass and callers call again; used only by the
  run whose property fails under it.
- `Missions!Fairness`: fired threads end, as the thread manager sees to, and their
  watchers are polled. Nothing is assumed of the ticker, users and saves.
- `Jobs!Fairness`: a lock that is free is given to the call that waits for it and its
  holder goes on; a repair pass acts on what it listed; a job that keeps being InProgress or
  Stuck is listed by some pass, also if it changes between the two (strong fairness
  of `Detect`: the pass runs on an interval and compares times that only grow).
  Nothing is assumed of workers: a model call may never return.
- `Containers!Fairness`: time passes, the reaper scans on its interval, and the steps
  of creators and of the reaper are polled; that there is a reaper is assumed (see
  section 4). Nothing is assumed of workers, users
  and self-repair. Docker's faults are finitely many, so a retry succeeds.

Deadlock is not checked where the system may stop for lack of ids (all threads
finished, all gates used) or because nobody calls: the gate store, the manager,
the router and the four later modules. It is checked for the breaker and the cost guard.

## 6. Proofs

All theorems are about `Spec`, without bounds on the constants beyond the named
assumptions, which TLC evaluates in the runs.

**CircuitBreakerProofs** (`ConfigAssumption`: the three configured numbers are
naturals). `BreakerInv` is the conjunction of the type invariant and the two
state properties; it is inductive as it stands. The lemma that carries the
arithmetic, `ThresholdFacts`, says that a threshold of 0 acts as 1. Theorems
`BreakerTypeCorrect`, `BreakerCountsExactly`, `BreakerOpenedAtMatches`.

**PendingGateStoreProofs** (`StoreAssumption`). `StoreInv` adds `Bookkeeping` to the
properties: what is held, written or owed was inserted, and a process that is
down holds and owes nothing. Without it a restart could bring up a row that was
never inserted, and the refinement's `Restart` step would not be allowed.
`RemovalKeepsInv` covers the four removal paths at once. Theorems `StoreTypeCorrect`,
`StoreIndexesAgree`, `StoreGrantDies`, `StoreOneRowPerKey`, and
`StoreImplementsBoard`: every step of the store is a step of the board or a
stutter.

**EngineProofs**, the thread manager (`SignalCapAssumption`, `NoneAssumption`: the
absent value is no thread, handle, record or result). `ManagerInv` says what the
private records of loops and operations look like at each place: a loop carries a
checkpoint only in "check", "work" and "wrapup", none of which saves the record as it
is, so nothing stored is checkpointed or Suspended, which the bridge's proofs need;
and what a loop is about to write fits the outcome it is about to publish. Theorem
`ManagerTypeCorrect`, with the channel's bound.

**EngineProofs**, the bridge (`RouterAssumption`: the agent is one of the callers, a
gate's key is a thread that is not a mission's). `AgentOwnsTheTurn` says nothing of
how the agent comes to know a loop, so `EngineInv` follows the loop's handle. `Place`
says which manager operation is under way at each position of the handler, and that
it is about the handler's thread. `Acting` is the time between the start of a loop and
the answer that carries its outcome. `Turns`: a loop of a conversation that has not
ended is held (`Held`) by its thread's entry in `running`, by the operation that is
about to store the handle there or by the join that has taken it out, and until it
has published its outcome the agent is acting for its thread. Since an entry holds one
handle and `Dues` says that a registration or a join finds no other loop of the
thread, no thread has two. A loop's last record is one a resumption or the end of a
thread accounts for, and `Published` carries this over to outcomes nobody has taken:
their thread is at rest and has no gate. `Cleared` says that the handler works on a
thread without a gate, which is why a gate cannot be resolved under a turn. `Others`
says that every other caller is inside a spawn or a join of a mission's thread, and
the lemmas on `Beside` that its steps, and those of its loops, leave the agent's part
alone. `Down` is what a crash leaves, and `Kept` says who will write the next state of
a record that says Created or Running: a caller about to start its loop, or a loop
that has not finished.
Theorems `RouterTypeCorrect`, `AgentKeepsTheTurn`, `OwnerRecordsStayLive`, for turns
of any length, any number of missions and crashes at any step.

`GatesMeanWaiting` is stated for turns that end within the poll's deadline
(`~SlowTurns`), the case `router` checks: section 4 tells how a late join
breaks it. `FastInv` says what such turns keep. An entry names a loop of its thread or
one that has ended (`Entries`); an outcome that has not been taken is the one the
agent waits for, and a loop that has ended has published one (`Untaken`); a join
finds no loop at work (`Joining`). So each outcome is taken once, and what the agent
read, that the thread paused or is done, is still what the record says when it posts,
executes or requeues the gate (`Paused`, with `Told` for what an outcome tells of the
record). `Settled` is what is shown of every pending gate: its thread is Waiting, or it
is a fallback gate and its thread is Done, which no later step changes.

**CostGuardProofs** (`CallersAssumption`: finitely many callers; limits are
positive; costs are naturals up to MaxCost). `FlagAgrees` and `TodayIsCounted` are
inductive with the types. The bounds are not: a check admits a call and the cost
comes later. `BudgetInv` charges every call that has been admitted and not yet
recorded with the most it can cost, `total + MaxCost * |Admitted| <= Limit - 1 +
MaxCost * N`; a check keeps it because it only admits below the limit, a record
because it exchanges the estimate for the cost. `RateInv` does the same with
actions. Theorems `GuardTypeCorrect`, `FlagAgrees`, `TodayIsCounted`,
`OvershootIsBounded`, `RateIsBounded`.

**LeaseManagerProofs** (`LeaseManager`'s assumptions on leases, threads, limits and
tasks). `UsesConserved` counts the slots that hold a use of a lease, so the
invariant says that a lease id is fresh until it is granted (`FreshIds`), that slots
name granted leases (`SlotsBehind`) and that a task has one call per slot
(`OneCall`). `ChildWithinParent` compares a lease with one that may have been
refreshed or removed since it was copied: `SnapWithin` bounds the copies of a
derivation under way, and `RefreshExact` says what a refresh between its locks may
write. Theorems `LeaseTypeCorrect`, `LeaseUsesConserved`, `LeaseChildWithinParent`.

**JobsProofs.** `LiveIsStoppable` is not inductive: schedule and stop hold the table's
lock across awaits, and the clean-up task removes an entry it judged under an
earlier lock. `Locked` says where the lock's holder stands, `Ended` that what stop has
aborted is over, `Entered` that whoever is about to remove an entry has seen a worker
that is over, `NotStarted` that a worker is started once, after its entry; `Repaired`
bounds the attempts of self-repair by what it has read. `cancel_job` keeps all of it,
as it touches neither the table nor the worker. `DispatchedWithinLimit` rests on the
count at the start, which is of all of a user's jobs and so of at least the
scheduler's. `OutcomeStays` follows from the table of transitions and the types.
Theorems `JobTypeCorrect`, `JobLiveIsStoppable`, `JobDispatchedWithinLimit`,
`JobOutcomeStays`.

**ContainersProofs.** The invariant is per job. `Early` says what does not exist yet
while the creator has not recorded the container, `Stops` what a stop under way
tells of the job (that the reaper's concerns a job that is not active is
`ReaperSparesActive`), `Reports` and `Completes` where a recorded outcome came from,
for each mode.
Theorems `ContTypeCorrect`, `ContTokenEndsWithJob`, `ContFailureIsNotCompleted`,
`ContReaperSparesActive`.

**MissionsProofs** (`LimitAssumption`: FIRE_COOLDOWN and the periods are positive).
Since any copy of the record may be the next to be saved, the invariant speaks of
all of them: `Sound` says that a copy lists only spawned threads, counts no more
than it lists and lists at most `max_concurrent` running ones. It survives other
writers because threads only start outside a history and end inside it. For
`NoRefire`, `Behind` says that a copy which still has the suppressed slot carries a
`last_fire_at` older than the suppressed fire, and `FiredOK` that
`last_fire_attempt` has that fire or a later one; the two disagree, which is what
`tick` looks for. `PausedIsNotTicked` rests on `QuietOK`: while the mission is to be
quiet, neither the index has it nor a resume is under way. Theorems
`MissionTypeCorrect`, `MissionCountsOnce`, `MissionListedRunningBounded`,
`MissionNoRefire`, `MissionPausedIsNotTicked`.

TLC checked each of these inductive invariants on a small instance before it was
proved.

`StoreTypeCorrect` and `JobDispatchedWithinLimit` have no run of their own; the other
theorems state properties of the runs that hold.

Model-checked only: the liveness properties `ClosesWhenHealthy`, `StopIsHeard`,
`FireIsReconciled`, `JobsSettle` and `OrphansAreReaped`, since the
prover does not reason about fairness.

## 7. Limits

- The bounds of the runs are small on purpose; what they cannot exclude is named
  above, and the proofs lift the safety properties of all nine modules to any size.
  That every handler of the router ends is not claimed: it does not when a turn lasts,
  nor when a stop meets a full channel (section 4).
- The database and the engine's store are atomic and do not fail. The exceptions
  are the gate file, the saves of a mission's record and Docker.
- The components are checked one by one, except for `GateRouter`, which composes
  two. That a mission's threads end, what self-repair does to a container job and
  what a gate does to a lease are assumed as stated in section 3.
- One user, one channel in the router; channel authorisation is in
  `PendingGateStore`.
- What the model says or a tool does is nondeterministic; no property depends on
  it.

## 8. Running

From this directory: `tlc -config CircuitBreaker.cfg CircuitBreaker` and the same
for the other pairs of configuration and module in `PROJECT.json`;
`tlapm CircuitBreakerProofs.tla` and the same for the other `...Proofs` modules.
The longest runs, `leases` (three to four minutes), `missions` and `containers` (under
two), take a while; the proofs take about a quarter of an hour together.

------------------------------ MODULE Missions ------------------------------
(***************************************************************************)
(* A mission and those who write its record (runtime/mission.rs): the cron *)
(* ticker and manual fires, which run fire_mission; the outcome watcher of *)
(* every fired thread; pause, resume, complete and update.                 *)
(*                                                                         *)
(* All but pause and complete load the record, await other work and save   *)
(* the whole record back, so a writer may overwrite what others have       *)
(* written since it loaded.  The mission has a cron cadence and one owner; *)
(* time is counted in ticks of the ticker's interval.                      *)
(***************************************************************************)
EXTENDS Integers, FiniteSets

CONSTANTS
    MaxThreads,     \* bound: threads the mission spawns
    Ticker,         \* the task of start_cron_ticker
    Manual,         \* tasks that fire on a user's request
    Ops,            \* tasks that pause, resume, complete or update
    FireCooldown,   \* FIRE_COOLDOWN
    Cooldown,       \* cooldown_secs; 0 is off, as are the next two
    MaxPerDay,      \* max_threads_per_day
    MaxConcurrent,  \* max_concurrent
    Period,         \* of the cron schedule
    DayLength,
    Horizon,        \* bound: the clock
    MaxFaults,      \* bound: saves that fail
    MaxCrashes,     \* bound: restarts of the process
    MaxRequests,    \* bound: what users ask for, resuming apart
    None

Threads == 1..MaxThreads   \* in the order they are spawned
Tasks == {Ticker} \cup Manual

ASSUME TaskAssumption == IsFiniteSet(Tasks) /\ Ticker \notin Manual
ASSUME LimitAssumption ==
    /\ FireCooldown \in Nat \ {0} /\ Cooldown \in Nat /\ MaxPerDay \in Nat
    /\ MaxConcurrent \in Nat /\ None \notin Nat
    /\ Period \in Nat \ {0} /\ DayLength \in Nat \ {0}
ASSUME BoundAssumption ==
    /\ MaxThreads \in Nat /\ Horizon \in Nat
    /\ MaxFaults \in Nat /\ MaxCrashes \in Nat /\ MaxRequests \in Nat

VARIABLES
    now,
    store,          \* the mission's record
    indexed,        \* whether MissionManager.active has it
    attempt,        \* last_fire_attempt
    thread,         \* the mission's threads
    born,           \* the clock at the fire that spawned each
    task,           \* where each fire_mission stands
    ticked,         \* the ticker's interval: the clock at its last tick
    op,             \* pause, resume, complete and update under way
    watch,          \* the outcome watcher of each thread
    faults, crashes, requests,
    fired,          \* history: slot and time of the ticker's last spawn, while
                    \* FIRE_COOLDOWN is to suppress another
    quiet           \* history: a pause or completion has taken it out of the index,
                    \* and no resume has begun since

vars == <<now, store, indexed, attempt, thread, born, task, ticked, op,
          watch, faults, crashes, requests, fired, quiet>>

Time == 0..Horizon
\* A fire's instant is named by the thread it spawned, as no two fires have the
\* same; born says when it was.
Instant == Threads \cup {None}

\* corrupt: the cron expression does not parse any more.
Record == [status : {"Active", "Paused", "Completed"}, history : SUBSET Threads,
           today : Nat, last : Instant, next : Nat, corrupt : BOOLEAN]
FirstRecord == [status |-> "Active", history |-> {}, today |-> 0, last |-> None,
                next |-> Period, corrupt |-> FALSE]

NextCronFire == (now \div Period + 1) * Period

\* pc names the await a task is suspended at; at is the clock that tick read,
\* fire the fire instant of fire_mission.
Task == [pc : {"idle", "due", "load", "reset", "guard", "spawn",
               "arm", "save"},
         rec : Record, at : Time, fire : Instant, slot : Nat, quiet : BOOLEAN]
IdleTask == [pc |-> "idle", rec |-> FirstRecord, at |-> 0, fire |-> None,
             slot |-> 0, quiet |-> FALSE]

Op == [kind : {"idle", "pause", "resume", "complete", "update"},
       pc : {"load", "write", "index", "forget"}, rec : Record]
IdleOp == [kind |-> "idle", pc |-> "load", rec |-> FirstRecord]

\* The fire instant that was passed to the watcher is that of its thread; "lost"
\* is a watcher whose save failed, which is logged and not tried again.
Watch == [pc : {"none", "join", "save", "lost"}, rec : Record]
NoWatch == [pc |-> "none", rec |-> FirstRecord]

NotFired == [slot |-> 0, fire |-> None]

TypeOK ==
    /\ now \in Time
    /\ store \in Record
    /\ indexed \in BOOLEAN
    /\ attempt \in Instant
    /\ thread \in [Threads -> {"unborn", "running", "ended"}]
    /\ born \in [Threads -> Time]
    /\ task \in [Tasks -> Task]
    /\ ticked \in Time
    /\ op \in [Ops -> Op]
    /\ watch \in [Threads -> Watch]
    /\ faults \in 0..MaxFaults /\ crashes \in 0..MaxCrashes
    /\ requests \in 0..MaxRequests
    /\ fired \in [slot : Nat, fire : Instant]
    /\ quiet \in BOOLEAN

Init ==
    /\ now = 0
    /\ store \in {[FirstRecord EXCEPT !.corrupt = c] : c \in BOOLEAN}
    /\ indexed = TRUE
    /\ attempt = None
    /\ thread = [t \in Threads |-> "unborn"]
    /\ born = [t \in Threads |-> 0]
    /\ task = [k \in Tasks |-> IdleTask]
    /\ ticked = 0
    /\ op = [o \in Ops |-> IdleOp]
    /\ watch = [t \in Threads |-> NoWatch]
    /\ faults = 0 /\ crashes = 0 /\ requests = 0
    /\ fired = NotFired
    /\ quiet = FALSE

\* save_mission: the whole record is written, or the store fails.
SaveMission(rec) ==
    \/ store' = rec /\ UNCHANGED faults
    \/ faults < MaxFaults /\ faults' = faults + 1 /\ UNCHANGED store

-----------------------------------------------------------------------------
(* tick.                                                                   *)

\* One tick at a time, one per interval.  The clock is read here, entries
\* whose cooldown has elapsed are pruned, and the index is copied.
Tick ==
    /\ task[Ticker].pc = "idle" /\ now > ticked
    /\ ticked' = now
    /\ attempt' = IF attempt # None /\ now - born[attempt] >= FireCooldown THEN None ELSE attempt
    /\ task' = IF indexed
               THEN [task EXCEPT ![Ticker] = [IdleTask EXCEPT !.pc = "due", !.at = now,
                                                              !.quiet = quiet]]
               ELSE task
    /\ UNCHANGED <<now, store, indexed, thread, born, op, watch, faults, crashes, requests, fired, quiet>>

\* The record in the store disagrees with the attempt in memory.
MutantOnCooldown(m, tick) ==
    attempt # None /\ tick - born[attempt] < Cooldown /\ m.last # attempt
OnCooldown(m, tick) ==
    attempt # None /\ tick - born[attempt] < FireCooldown /\ m.last # attempt

\* Active, due and not held back by the cooldown: fire.
TickDue ==
    LET tick == task[Ticker].at IN
    /\ task[Ticker].pc = "due"
    /\ task' = [task EXCEPT ![Ticker] =
                  IF store.status = "Active" /\ store.next <= tick /\ ~OnCooldown(store, tick)
                  THEN [@ EXCEPT !.pc = "load", !.at = 0, !.slot = store.next]
                  ELSE IdleTask]
    /\ UNCHANGED <<now, store, indexed, attempt, thread, born, ticked, op, watch,
                   faults, crashes, requests, fired, quiet>>

-----------------------------------------------------------------------------
(* fire_mission.                                                           *)

Request == requests < MaxRequests /\ requests' = requests + 1

FireManually(k) ==
    /\ k \in Manual /\ task[k].pc = "idle"
    /\ Request
    /\ task' = [task EXCEPT ![k].pc = "load"]
    /\ UNCHANGED <<now, store, indexed, attempt, thread, born, ticked, op, watch,
                   faults, crashes, fired, quiet>>

\* The counter belongs to an earlier day.
Stale(m) ==
    m.today > 0 /\ (m.last = None \/ born[m.last] \div DayLength < now \div DayLength)

\* Terminal missions do not fire; a paused one does.
Load(k) ==
    /\ task[k].pc = "load"
    /\ task' = [task EXCEPT ![k] =
                  IF store.status = "Completed" THEN IdleTask
                  ELSE IF Stale(store)
                  THEN [@ EXCEPT !.pc = "reset", !.rec = [store EXCEPT !.today = 0]]
                  ELSE [@ EXCEPT !.pc = "guard", !.rec = store]]
    /\ UNCHANGED <<now, store, indexed, attempt, thread, born, ticked, op, watch,
                   faults, crashes, requests, fired, quiet>>

Reset(k) ==
    /\ task[k].pc = "reset"
    /\ SaveMission(task[k].rec)
    /\ task' = [task EXCEPT ![k].pc = "guard"]
    /\ UNCHANGED <<now, indexed, attempt, thread, born, ticked, op, watch, crashes, requests, fired, quiet>>

RunningThreads(m) == {t \in m.history : thread[t] = "running"}

\* count_running_threads against max_concurrent.
MutantBelowLimit(m) == MaxConcurrent > 0 => Cardinality(RunningThreads(m)) <= MaxConcurrent
BelowLimit(m) == MaxConcurrent > 0 => Cardinality(RunningThreads(m)) < MaxConcurrent

\* Daily budget, cooldown and concurrency, of the record that was loaded.
\* Nothing but the end of threads comes between these checks.
Guard(k) ==
    LET m == task[k].rec
        allowed == /\ MaxPerDay > 0 => m.today < MaxPerDay
                   /\ Cooldown > 0 /\ m.last # None => now - born[m.last] >= Cooldown
                   /\ BelowLimit(m)
    IN
    /\ task[k].pc = "guard"
    /\ task' = [task EXCEPT ![k] = IF allowed THEN [@ EXCEPT !.pc = "spawn"] ELSE IdleTask]
    /\ UNCHANGED <<now, store, indexed, attempt, thread, born, ticked, op, watch,
                   faults, crashes, requests, fired, quiet>>

\* The user's rate limit or the budget gate refuses, or spawn_thread fails.
NotSpawned(k) ==
    /\ task[k].pc = "spawn"
    /\ task' = [task EXCEPT ![k] = IdleTask]
    /\ UNCHANGED <<now, store, indexed, attempt, thread, born, ticked, op, watch,
                   faults, crashes, requests, fired, quiet>>

\* The record to be saved.  A cron expression that does not parse leaves the
\* schedule and last_fire_at as they were.
Updated(m, t) ==
    [m EXCEPT !.history = @ \cup {t}, !.today = @ + 1,
              !.next = IF m.corrupt THEN @ ELSE NextCronFire,
              !.last = IF m.corrupt THEN @ ELSE t]

Unborn(t) == \A u \in Threads : thread[u] = "unborn" <=> u >= t

\* The watcher is installed before the record is saved.
MutantSpawn(k, t) ==
    /\ task[k].pc = "spawn" /\ Unborn(t)
    /\ thread' = [thread EXCEPT ![t] = "running"]
    /\ born' = [born EXCEPT ![t] = now]
    /\ task' = [task EXCEPT ![k] = [IdleTask EXCEPT !.pc = "arm", !.fire = t,
                                                    !.rec = Updated(task[k].rec, t)]]
    /\ fired' = IF k = Ticker THEN [slot |-> task[k].slot, fire |-> t] ELSE fired
    /\ UNCHANGED <<now, store, indexed, attempt, ticked, op, watch, faults, crashes, requests, quiet>>

Spawn(k, t) ==
    /\ task[k].pc = "spawn" /\ Unborn(t)
    /\ thread' = [thread EXCEPT ![t] = "running"]
    /\ born' = [born EXCEPT ![t] = now]
    /\ watch' = [watch EXCEPT ![t] = [NoWatch EXCEPT !.pc = "join"]]
    /\ task' = [task EXCEPT ![k] = [IdleTask EXCEPT !.pc = "arm", !.fire = t,
                                                    !.rec = Updated(task[k].rec, t)]]
    /\ fired' = IF k = Ticker THEN [slot |-> task[k].slot, fire |-> t] ELSE fired
    /\ UNCHANGED <<now, store, indexed, attempt, ticked, op, faults, crashes, requests, quiet>>

MutantArm(k) ==
    /\ task[k].pc = "arm"
    /\ attempt' = task[k].rec.next
    /\ task' = [task EXCEPT ![k] = [@ EXCEPT !.pc = "save", !.fire = None]]
    /\ fired' = IF fired.fire # None /\ task[k].fire < fired.fire THEN NotFired ELSE fired
    /\ UNCHANGED <<now, store, indexed, thread, born, ticked, op, watch, faults, crashes, requests, quiet>>

\* last_fire_attempt is written before the record is saved, over whatever a
\* later fire may have left there.
Arm(k) ==
    /\ task[k].pc = "arm"
    /\ attempt' = task[k].fire
    /\ task' = [task EXCEPT ![k] = [@ EXCEPT !.pc = "save", !.fire = None]]
    /\ fired' = IF fired.fire # None /\ task[k].fire < fired.fire THEN NotFired ELSE fired
    /\ UNCHANGED <<now, store, indexed, thread, born, ticked, op, watch, faults, crashes, requests, quiet>>

Save(k) ==
    /\ task[k].pc = "save"
    /\ SaveMission(task[k].rec)
    /\ task' = [task EXCEPT ![k] = IdleTask]
    /\ UNCHANGED <<now, indexed, attempt, thread, born, ticked, op, watch, crashes, requests, fired, quiet>>

-----------------------------------------------------------------------------
(* The thread ends and its watcher writes the outcome.                     *)

ThreadEnds(t) ==
    /\ thread[t] = "running"
    /\ thread' = [thread EXCEPT ![t] = "ended"]
    /\ UNCHANGED <<now, born, store, indexed, attempt, task, ticked, op, watch,
                   faults, crashes, requests, fired, quiet>>

MutantReconciled(m, t) ==
    [m EXCEPT !.history = @ \cup {t}, !.today = @ + 1, !.last = t,
              !.next = IF @ <= now /\ ~m.corrupt THEN NextCronFire ELSE @]

\* A fire that fire_mission could not save is added now.
Reconciled(m, t) ==
    IF t \in m.history THEN m
    ELSE [m EXCEPT !.history = @ \cup {t}, !.today = @ + 1, !.last = t,
                   !.next = IF @ <= now /\ ~m.corrupt THEN NextCronFire ELSE @]

\* The response may say that the goal is achieved.
WatchLoad(t, achieved) ==
    LET m == Reconciled(store, t) IN
    /\ watch[t].pc = "join" /\ thread[t] = "ended"
    /\ watch' = [watch EXCEPT ![t] =
                   [pc |-> "save",
                    rec |-> IF achieved THEN [m EXCEPT !.status = "Completed"] ELSE m]]
    /\ fired' = IF m.corrupt /\ m # store THEN NotFired ELSE fired
    /\ UNCHANGED <<now, store, indexed, attempt, thread, born, task, ticked, op,
                   faults, crashes, requests, quiet>>

WatchSave(t) ==
    /\ watch[t].pc = "save"
    /\ SaveMission(watch[t].rec)
    /\ watch' = [watch EXCEPT ![t] = [NoWatch EXCEPT !.pc = IF faults' = faults
                                                          THEN "none" ELSE "lost"]]
    /\ UNCHANGED <<now, indexed, attempt, thread, born, task, ticked, op, crashes, requests, fired, quiet>>

-----------------------------------------------------------------------------
(* pause_mission, resume_mission, complete_mission, update_mission.        *)

\* Only a paused mission is resumed, and only if its expression parses.
OpLoad(o, kind) ==
    /\ op[o].kind = "idle"
    /\ kind = "resume" => store.status = "Paused" /\ ~store.corrupt
    /\ op' = [op EXCEPT ![o] = [kind |-> kind, pc |-> "write",
                                rec |-> IF kind \in {"resume", "update"} THEN store
                                        ELSE FirstRecord]]
    /\ IF kind = "resume" THEN UNCHANGED requests ELSE Request
    /\ quiet' = (quiet /\ kind # "resume")
    /\ UNCHANGED <<now, store, indexed, attempt, thread, born, task, ticked, watch,
                   faults, crashes, fired>>

\* update_mission_status changes one field of the record as it is now.
SetStatus(o) ==
    /\ op[o].pc = "write" /\ op[o].kind \in {"pause", "complete"}
    /\ store' = [store EXCEPT !.status = IF op[o].kind = "pause" THEN "Paused" ELSE "Completed"]
    /\ op' = [op EXCEPT ![o].pc = "index"]
    /\ UNCHANGED <<now, indexed, attempt, thread, born, task, ticked, watch,
                   faults, crashes, requests, fired, quiet>>

MutantUnindex(o) ==
    /\ op[o].pc = "index" /\ op[o].kind \in {"pause", "complete"}
    /\ op' = [op EXCEPT ![o].pc = "forget"]
    /\ quiet' = \A p \in Ops : op[p].kind # "resume"
    /\ UNCHANGED <<now, store, indexed, attempt, thread, born, task, ticked, watch,
                   faults, crashes, requests, fired>>

Unindex(o) ==
    /\ op[o].pc = "index" /\ op[o].kind \in {"pause", "complete"}
    /\ indexed' = FALSE
    /\ op' = [op EXCEPT ![o].pc = "forget"]
    /\ quiet' = \A p \in Ops : op[p].kind # "resume"
    /\ UNCHANGED <<now, store, attempt, thread, born, task, ticked, watch,
                   faults, crashes, requests, fired>>

\* The entry of last_fire_attempt is dropped.
Forget(o) ==
    /\ op[o].pc = "forget"
    /\ attempt' = None
    /\ op' = [op EXCEPT ![o] = IdleOp]
    /\ fired' = NotFired
    /\ UNCHANGED <<now, store, indexed, thread, born, task, ticked, watch,
                   faults, crashes, requests, quiet>>

\* The record that was loaded, Active and with a new schedule; or, for an
\* update, with other fields changed and the schedule recomputed if a new
\* cadence, which must parse, is among them.
SaveOp(o, cadence) ==
    LET resume == op[o].kind = "resume"
        rec    == [op[o].rec EXCEPT !.status = IF resume THEN "Active" ELSE @,
                                    !.next = IF resume \/ cadence THEN NextCronFire ELSE @,
                                    !.corrupt = @ /\ ~cadence]
    IN
    /\ op[o].pc = "write" /\ op[o].kind \in {"resume", "update"}
    /\ SaveMission(rec)
    /\ op' = [op EXCEPT ![o] = IF resume /\ faults' = faults
                               THEN [@ EXCEPT !.pc = "index"] ELSE IdleOp]
    /\ UNCHANGED <<now, indexed, attempt, thread, born, task, ticked, watch, crashes, requests, fired, quiet>>

Index(o) ==
    /\ op[o].pc = "index" /\ op[o].kind = "resume"
    /\ indexed' = TRUE
    /\ op' = [op EXCEPT ![o] = IdleOp]
    /\ UNCHANGED <<now, store, attempt, thread, born, task, ticked, watch,
                   faults, crashes, requests, fired, quiet>>

-----------------------------------------------------------------------------
(* Time, and a restart: bootstrap_project indexes an active mission.  The  *)
(* threads of the old process are recovered as failed, without a watcher.  *)

ClockTick ==
    /\ now < Horizon
    /\ now' = now + 1
    /\ fired' = IF fired.fire # None /\ now' - born[fired.fire] >= FireCooldown THEN NotFired ELSE fired
    /\ UNCHANGED <<store, indexed, attempt, thread, born, task, ticked, op, watch,
                   faults, crashes, requests, quiet>>

Restart ==
    /\ crashes < MaxCrashes
    /\ crashes' = crashes + 1
    /\ indexed' = (store.status = "Active")
    /\ attempt' = None
    /\ thread' = [t \in Threads |-> IF thread[t] = "running" THEN "ended" ELSE thread[t]]
    /\ task' = [k \in Tasks |-> IdleTask]
    /\ op' = [o \in Ops |-> IdleOp]
    /\ watch' = [t \in Threads |-> NoWatch]
    /\ fired' = NotFired
    /\ quiet' = FALSE
    /\ UNCHANGED <<now, born, store, ticked, faults, requests>>

-----------------------------------------------------------------------------

Fire(k) ==
    \/ Load(k) \/ Reset(k) \/ Guard(k)
    \/ NotSpawned(k) \/ \E t \in Threads : Spawn(k, t)
    \/ Arm(k) \/ Save(k)

Watcher(t) == WatchSave(t) \/ \E achieved \in BOOLEAN : WatchLoad(t, achieved)

Operate(o) ==
    \/ \E kind \in {"pause", "resume", "complete", "update"} : OpLoad(o, kind)
    \/ SetStatus(o) \/ Unindex(o) \/ Forget(o) \/ Index(o)
    \/ \E cadence \in BOOLEAN : SaveOp(o, cadence)

Next ==
    \/ Tick \/ TickDue
    \/ \E k \in Tasks : FireManually(k) \/ Fire(k)
    \/ \E t \in Threads : ThreadEnds(t) \/ Watcher(t)
    \/ \E o \in Ops : Operate(o)
    \/ ClockTick \/ Restart

\* Threads end, as the thread manager sees to, and the tasks of the runtime
\* are scheduled.
Fairness == \A t \in Threads : WF_vars(ThreadEnds(t)) /\ WF_vars(Watcher(t))

Spec == Init /\ [][Next]_vars /\ Fairness

-----------------------------------------------------------------------------
(* Properties.                                                             *)

\* Every copy of the record, in the store or in the hands of a writer.
Copies ==
    {store} \cup {task[k].rec : k \in Tasks} \cup {op[o].rec : o \in Ops}
            \cup {watch[t].rec : t \in Threads}

\* A fire is counted once, although fire_mission and the outcome watcher both
\* record it and overwrite each other's copies: threads_today never exceeds
\* the threads in thread_history.
CountsOnce == \A m \in Copies : m.today <= Cardinality(m.history)

\* No copy of the record ever lists more running threads than max_concurrent,
\* whatever overlapping fires, watchers and updates overwrite: threads beyond
\* the limit are always ones a stale save has dropped from the history, or whose
\* fire has not recorded them yet.  So it does not bound the threads that run.
ListedRunningBounded ==
    MaxConcurrent > 0 => \A m \in Copies : Cardinality(RunningThreads(m)) <= MaxConcurrent

\* While the process lives, the ticker does not fire one slot of the schedule
\* again within FIRE_COOLDOWN, although the save of the first fire failed,
\* another writer put the old schedule back or the expression is corrupt.
\* Three things end the suppression early: a pause; a watcher that reconciles a
\* mission with a corrupt expression, as it writes last_fire_at and cannot
\* advance the schedule; and a fire that began earlier and arms later, as it
\* puts its own instant, and then its own schedule, in place of the newer ones.
Spawns(k) == task[k].pc = "spawn" /\ task'[k].pc = "arm"
NoRefire ==
    [][Spawns(Ticker) => fired.fire = None \/ fired.slot # task[Ticker].slot]_vars

\* A tick that starts after a pause or a completion has taken the mission out
\* of the index spawns nothing until a resume or a restart, even if a writer
\* that had loaded the record earlier makes it Active again.  A fire that was
\* under way and a manual one do spawn, although MissionStatus::Paused says "no
\* new threads will be spawned".
PausedIsNotTicked == [][Spawns(Ticker) => ~task[Ticker].quiet]_vars

\* A fired thread gets into the history although the save of fire_mission may
\* fail or be overwritten, unless its watcher's own save fails too or the
\* process restarts.
FireIsReconciled ==
    \A t \in Threads :
        thread[t] = "running" ~>
            (t \in store.history \/ watch[t].pc = "lost" \/ crashes = MaxCrashes)
=============================================================================

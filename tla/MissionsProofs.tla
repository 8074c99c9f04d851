--------------------------- MODULE MissionsProofs ---------------------------
(***************************************************************************)
(* Proofs about Missions.  The safety properties follow from what holds of *)
(* every copy of the record, in the store or in the hands of a writer, so  *)
(* that it does not matter which copy is saved last.                       *)
(***************************************************************************)
EXTENDS Missions, FiniteSetTheorems, TLAPS

Running(S, th) == {t \in S : th[t] = "running"}

\* What a copy of the record promises about the threads it lists.
Sound(m, th) ==
    /\ m.history \subseteq {t \in Threads : th[t] # "unborn"}
    /\ m.today <= Cardinality(m.history)
    /\ MaxConcurrent > 0 => Cardinality(Running(m.history, th)) <= MaxConcurrent
    /\ m.last # None => th[m.last] # "unborn"

\* A copy whose schedule still has the slot of the fire f was last fired
\* before f, so that it disagrees with last_fire_attempt.
Behind(m, f) ==
    f.fire # None /\ m.next = f.slot => m.last = None \/ m.last < f.fire

Copy(m, th, f) == Sound(m, th) /\ Behind(m, f)

Born(t) == t \in Threads /\ thread[t] # "unborn"

TaskOK(k) ==
    /\ Copy(task[k].rec, thread, fired)
    /\ task[k].pc = "spawn" => BelowLimit(task[k].rec)
    /\ task[k].pc = "arm" => Born(task[k].fire)

CopiesOK ==
    /\ Copy(store, thread, fired)
    /\ \A k \in Tasks : TaskOK(k)
    /\ \A o \in Ops : Copy(op[o].rec, thread, fired)
    /\ \A t \in Threads : Copy(watch[t].rec, thread, fired)

\* Threads are spawned in their order, and none in the future.
Ordered ==
    /\ \A t, u \in Threads :
          t < u /\ thread[u] # "unborn" => thread[t] # "unborn" /\ born[t] <= born[u]
    /\ \A t \in Threads : thread[t] # "unborn" => born[t] <= now
    /\ attempt # None => thread[attempt] # "unborn"

\* While a fire of the ticker is to be suppressed, last_fire_attempt has it or a
\* later one, unless the ticker is about to write it.
FiredOK ==
    fired.fire # None =>
        /\ thread[fired.fire] # "unborn"
        /\ fired.slot <= now
        /\ now - born[fired.fire] < FireCooldown
        /\ IF task[Ticker].pc = "arm" THEN task[Ticker].fire = fired.fire
           ELSE attempt # None /\ fired.fire <= attempt

Chosen == {"load", "reset", "guard", "spawn"}
TickerOK ==
    /\ task[Ticker].at <= now
    /\ task[Ticker].pc \in Chosen =>
          /\ task[Ticker].slot <= now
          /\ fired.fire = None \/ fired.slot # task[Ticker].slot

MissionInv == TypeOK /\ CopiesOK /\ Ordered /\ FiredOK /\ TickerOK

-----------------------------------------------------------------------------
(* Lemmas about the record and its copies.                                 *)

USE TaskAssumption, LimitAssumption, BoundAssumption

\* A multiple of the period is chosen that lies in the future, so a schedule
\* that has advanced does not show a slot that has been fired.
LEMMA NextFireLater ==
    ASSUME now \in Nat
    PROVE  NextCronFire \in Nat /\ NextCronFire > now
  <1>1. now \in Int /\ now >= 0 /\ Period \in Int /\ Period > 0
    OBVIOUS
  <1>2. PICK q \in Int : q = now \div Period
    BY <1>1
  <1>3. (q + 1) * Period > now
    BY <1>1, <1>2
  <1>4. (q + 1) * Period \in Int
    BY <1>1, <1>2
  <1> QED BY <1>1, <1>2, <1>3, <1>4 DEF NextCronFire

LEMMA ThreadsFinite ==
    ASSUME NEW S, S \subseteq Threads
    PROVE  IsFiniteSet(S) /\ Cardinality(S) \in Nat
  <1>1. IsFiniteSet(Threads)
    BY FS_Interval DEF Threads
  <1> QED BY <1>1, FS_Subset, FS_CardinalityType

\* Threads end and unborn ones are spawned: neither adds a running thread to a
\* history that lists none that is unborn.
Evolves(th, th2) ==
    \A t \in Threads : th[t] # "unborn" =>
        th2[t] # "unborn" /\ (th2[t] = "running" => th[t] = "running")

LEMMA RunningShrinks ==
    ASSUME NEW S, NEW th, NEW th2, S \subseteq {t \in Threads : th[t] # "unborn"},
           Evolves(th, th2)
    PROVE  /\ Cardinality(Running(S, th2)) <= Cardinality(Running(S, th))
           /\ Cardinality(Running(S, th)) \in Nat /\ Cardinality(Running(S, th2)) \in Nat
  <1>1. Running(S, th2) \subseteq Running(S, th) /\ Running(S, th) \subseteq Threads
    BY DEF Evolves, Running
  <1>2. IsFiniteSet(Running(S, th))
    BY <1>1, ThreadsFinite
  <1>3. Cardinality(Running(S, th2)) <= Cardinality(Running(S, th))
    BY <1>1, <1>2, FS_Subset
  <1> QED BY <1>1, <1>3, ThreadsFinite

LEMMA SoundKept ==
    ASSUME NEW m \in Record, NEW th, NEW th2, Sound(m, th), Evolves(th, th2)
    PROVE  Sound(m, th2)
  <1>1. m.history \subseteq {t \in Threads : th2[t] # "unborn"}
    BY DEF Sound, Evolves, Record
  <1>2. MaxConcurrent > 0 => Cardinality(Running(m.history, th2)) <= MaxConcurrent
    BY RunningShrinks DEF Sound
  <1>3. m.last # None => th2[m.last] # "unborn"
    BY DEF Sound, Evolves, Record, Instant
  <1> QED BY <1>1, <1>2, <1>3 DEF Sound

LEMMA CopyKept ==
    ASSUME NEW m \in Record, NEW th, NEW th2, NEW f, NEW f2,
           Copy(m, th, f), Evolves(th, th2), f2 = f \/ f2 = NotFired
    PROVE  Copy(m, th2, f2)
  <1>1. Sound(m, th2)
    BY SoundKept DEF Copy
  <1>2. Behind(m, f2)
    BY DEF Copy, Behind, NotFired
  <1> QED BY <1>1, <1>2 DEF Copy

LEMMA FirstCopy ==
    ASSUME NEW th, NEW f
    PROVE  FirstRecord \in Record /\ Copy(FirstRecord, th, f)
  <1>1. FirstRecord \in Record
    BY DEF FirstRecord, Record, Instant
  <1>2. Cardinality({}) = 0 /\ Running({}, th) = {}
    BY FS_EmptySet DEF Running
  <1> QED BY <1>1, <1>2 DEF FirstRecord, Copy, Sound, Behind

\* fire_mission lists one more running thread, which max_concurrent allowed.
LEMMA UpdatedSound ==
    ASSUME TypeOK, NEW m \in Record, NEW t \in Threads, Sound(m, thread),
           BelowLimit(m), thread[t] = "unborn",
           NEW th2, th2 = [thread EXCEPT ![t] = "running"]
    PROVE  /\ Evolves(thread, th2)
           /\ Updated(m, t) \in Record
           /\ Sound(Updated(m, t), th2)
  <1> DEFINE u == Updated(m, t)
             R == Running(m.history, thread)
  <1>1. Evolves(thread, th2) /\ th2[t] = "running"
    BY DEF Evolves, TypeOK
  <1>2. u \in Record
    <2>1. NextCronFire \in Nat
      BY NextFireLater DEF TypeOK, Time
    <2>2. PICK n \in Nat : n = IF m.corrupt THEN m.next ELSE NextCronFire
      BY <2>1 DEF Record
    <2>3. PICK l \in Instant : l = IF m.corrupt THEN m.last ELSE t
      BY DEF Record, Instant
    <2>4. u = [m EXCEPT !.history = m.history \cup {t}, !.today = m.today + 1,
                        !.next = n, !.last = l]
      BY <2>2, <2>3 DEF Updated, Record
    <2>5. m.history \cup {t} \in SUBSET Threads /\ m.today + 1 \in Nat
      BY DEF Record
    <2> QED BY <2>4, <2>5 DEF Record
  <1>3. u.history = m.history \cup {t} /\ u.today = m.today + 1 /\ t \notin m.history
    BY DEF Updated, Record, Sound
  <1>4. IsFiniteSet(m.history) /\ Cardinality(m.history) \in Nat
    BY ThreadsFinite DEF Record
  <1>5. Cardinality(u.history) = Cardinality(m.history) + 1
    BY <1>3, <1>4, FS_AddElement
  <1>6. u.today <= Cardinality(u.history)
    BY <1>3, <1>4, <1>5 DEF Sound, Record
  <1>7. Running(u.history, th2) = R \cup {t} /\ t \notin R
    <2>1. \A x \in m.history : th2[x] = thread[x]
      BY <1>3 DEF TypeOK, Record
    <2> QED BY <1>1, <1>3, <2>1 DEF Running
  <1>8. IsFiniteSet(R) /\ Cardinality(R) \in Nat
    BY ThreadsFinite DEF Running, Record
  <1>9. Cardinality(Running(u.history, th2)) = Cardinality(R) + 1
    BY <1>7, <1>8, FS_AddElement
  <1>10. MaxConcurrent > 0 => Cardinality(Running(u.history, th2)) <= MaxConcurrent
    <2>1. RunningThreads(m) = R
      BY DEF RunningThreads, Running
    <2> QED BY <1>8, <1>9, <2>1 DEF BelowLimit
  <1>11. u.history \subseteq {x \in Threads : th2[x] # "unborn"}
    BY <1>1, <1>3 DEF Sound, Evolves
  <1>12. u.last # None => th2[u.last] # "unborn"
    BY <1>1 DEF Updated, Record, Sound, Evolves, Instant
  <1> QED BY <1>1, <1>2, <1>6, <1>10, <1>11, <1>12 DEF Sound

\* Its schedule has passed every slot that was due, unless the expression is
\* corrupt, and then last_fire_at is the old one.
LEMMA UpdatedBehind ==
    ASSUME TypeOK, NEW m \in Record, NEW t \in Threads, NEW f,
           f.slot \in Nat, f.slot <= now,
           Behind(m, f) \/ (f.fire = t /\ (m.last # None => m.last < t))
    PROVE  Behind(Updated(m, t), f)
  <1>1. NextCronFire \in Nat /\ NextCronFire > now /\ now \in Nat
    BY NextFireLater DEF TypeOK, Time
  <1>2. CASE m.corrupt
    <2>1. Updated(m, t).next = m.next /\ Updated(m, t).last = m.last
      BY <1>2 DEF Updated, Record
    <2> QED BY <2>1 DEF Behind
  <1>3. CASE ~m.corrupt
    <2>1. Updated(m, t).next = NextCronFire
      BY <1>3 DEF Updated, Record
    <2> QED BY <1>1, <2>1 DEF Behind
  <1> QED BY <1>2, <1>3

\* The watcher lists a thread that has ended.
LEMMA ReconciledSound ==
    ASSUME TypeOK, NEW m \in Record, NEW t \in Threads, Sound(m, thread),
           thread[t] = "ended"
    PROVE  Reconciled(m, t) \in Record /\ Sound(Reconciled(m, t), thread)
  <1> DEFINE u == Reconciled(m, t)
  <1>1. CASE t \in m.history
    BY <1>1 DEF Reconciled
  <1>2. CASE t \notin m.history
    <2>1. u \in Record
      <3>1. NextCronFire \in Nat
        BY NextFireLater DEF TypeOK, Time
      <3>2. PICK n \in Nat : n = IF m.next <= now /\ ~m.corrupt THEN NextCronFire ELSE m.next
        BY <3>1 DEF Record
      <3>3. u = [m EXCEPT !.history = m.history \cup {t}, !.today = m.today + 1,
                          !.last = t, !.next = n]
        BY <1>2, <3>2 DEF Reconciled, Record
      <3>4. m.history \cup {t} \in SUBSET Threads /\ m.today + 1 \in Nat /\ t \in Instant
        BY DEF Record, Instant
      <3> QED BY <3>3, <3>4 DEF Record
    <2>2. u.history = m.history \cup {t} /\ u.today = m.today + 1 /\ u.last = t
      BY <1>2 DEF Reconciled, Record
    <2>3. IsFiniteSet(m.history) /\ Cardinality(m.history) \in Nat
      BY ThreadsFinite DEF Record
    <2>4. Cardinality(u.history) = Cardinality(m.history) + 1
      BY <1>2, <2>2, <2>3, FS_AddElement
    <2>5. u.today <= Cardinality(u.history)
      BY <2>2, <2>3, <2>4 DEF Sound, Record
    <2>6. Running(u.history, thread) = Running(m.history, thread)
      BY <2>2 DEF Running
    <2> QED BY <2>1, <2>2, <2>5, <2>6 DEF Sound
  <1> QED BY <1>1, <1>2

LEMMA ReconciledBehind ==
    ASSUME TypeOK, NEW m \in Record, NEW t \in Threads, NEW f,
           f.slot \in Nat, f.slot <= now, Behind(m, f), ~m.corrupt \/ t \in m.history
    PROVE  Behind(Reconciled(m, t), f)
  <1>1. NextCronFire \in Nat /\ NextCronFire > now /\ now \in Nat
    BY NextFireLater DEF TypeOK, Time
  <1>2. CASE t \in m.history
    BY <1>2 DEF Reconciled
  <1>3. CASE t \notin m.history
    <2>1. Reconciled(m, t).next > now
      BY <1>1, <1>3 DEF Reconciled, Record
    <2> QED BY <1>1, <2>1 DEF Behind
  <1> QED BY <1>2, <1>3

-----------------------------------------------------------------------------
(* What a step leaves alone.                                               *)

\* The copies that a step does not write keep their promises.
Frame ==
    /\ Evolves(thread, thread')
    /\ \A m \in Record : Copy(m, thread, fired) => Copy(m, thread', fired')

LEMMA FrameSame ==
    ASSUME Evolves(thread, thread'), fired' = fired \/ fired' = NotFired
    PROVE  Frame
  BY CopyKept DEF Frame

LEMMA TaskKept ==
    ASSUME TypeOK, NEW k \in Tasks, TaskOK(k), Frame, task'[k] = task[k]
    PROVE  TaskOK(k)'
  <1>1. PICK m \in Record : m = task[k].rec
    BY DEF TypeOK, Task
  <1>2. Copy(m, thread, fired) /\ Copy(m, thread', fired')
    BY <1>1 DEF TaskOK, Frame
  <1>3. ASSUME task[k].pc = "spawn"
        PROVE  BelowLimit(m)'
    <2>1. Cardinality(Running(m.history, thread')) <= Cardinality(Running(m.history, thread))
          /\ Cardinality(Running(m.history, thread)) \in Nat
          /\ Cardinality(Running(m.history, thread')) \in Nat
      BY <1>2, RunningShrinks DEF Frame, Copy, Sound
    <2>2. BelowLimit(m)
      BY <1>1, <1>3 DEF TaskOK
    <2> QED BY <2>1, <2>2 DEF BelowLimit, RunningThreads, Running
  <1>4. task[k].pc = "arm" => Born(task[k].fire)'
    BY DEF TaskOK, Born, Frame, Evolves
  <1> QED BY <1>1, <1>2, <1>3, <1>4 DEF TaskOK

LEMMA CopiesKept ==
    ASSUME TypeOK, CopiesOK, Frame,
           store' = store \/ Copy(store', thread', fired'),
           \A k \in Tasks : task'[k] = task[k] \/ TaskOK(k)',
           \A o \in Ops : op'[o].rec = op[o].rec \/ Copy(op'[o].rec, thread', fired'),
           \A t \in Threads : watch'[t].rec = watch[t].rec
                              \/ Copy(watch'[t].rec, thread', fired')
    PROVE  CopiesOK'
  <1>1. Copy(store', thread', fired')
    BY DEF CopiesOK, Frame, TypeOK
  <1>2. \A k \in Tasks : TaskOK(k)'
    BY TaskKept DEF CopiesOK
  <1>3. \A o \in Ops : Copy(op'[o].rec, thread', fired')
    BY DEF CopiesOK, Frame, TypeOK, Op
  <1>4. \A t \in Threads : Copy(watch'[t].rec, thread', fired')
    BY DEF CopiesOK, Frame, TypeOK, Watch
  <1> QED BY <1>1, <1>2, <1>3, <1>4 DEF CopiesOK

\* A step of this kind spawns nothing, and suppresses what was suppressed or
\* gives the suppression up.
Calm ==
    /\ \A t \in Threads : thread'[t] = "unborn" <=> thread[t] = "unborn"
    /\ Evolves(thread, thread')
    /\ born' = born /\ now' = now
    /\ \/ fired' = fired /\ attempt' = attempt
       \/ fired' = NotFired /\ attempt' \in {attempt, None}
       \/ fired.fire = None /\ fired' = fired /\ attempt' \in {attempt, None}

\* The ticker does not move, or moves on with the slot it has chosen.
TickerCalm ==
    /\ task'[Ticker].at <= now
    /\ task'[Ticker].pc = "arm" <=> task[Ticker].pc = "arm"
    /\ task'[Ticker].pc = "arm" => task'[Ticker].fire = task[Ticker].fire
    /\ task'[Ticker].pc \in Chosen =>
          task[Ticker].pc \in Chosen /\ task'[Ticker].slot = task[Ticker].slot

LEMMA CalmKeeps ==
    ASSUME MissionInv, Calm
    PROVE  Frame /\ Ordered'
  <1>1. Frame
    BY FrameSame DEF Calm
  <1>2. Ordered'
    BY DEF MissionInv, Ordered, Calm, TypeOK, Instant, Threads
  <1> QED BY <1>1, <1>2

LEMMA TickerCalmKeeps ==
    ASSUME MissionInv, Calm, TickerCalm
    PROVE  FiredOK' /\ TickerOK'
  <1>1. CASE fired' = NotFired
    BY <1>1 DEF FiredOK, NotFired, TickerOK, TickerCalm, Calm, MissionInv
  <1>2. CASE fired' = fired /\ attempt' = attempt
    <2>1. FiredOK'
      BY <1>2 DEF FiredOK, TickerCalm, Calm, MissionInv, TypeOK, Instant
    <2>2. TickerOK'
      BY <1>2 DEF TickerOK, TickerCalm, Calm, MissionInv
    <2> QED BY <2>1, <2>2
  <1>3. CASE fired.fire = None /\ fired' = fired
    BY <1>3 DEF FiredOK, TickerOK, TickerCalm, Calm, MissionInv
  <1> QED BY <1>1, <1>2, <1>3 DEF Calm

LEMMA TickerTask ==
    Ticker \in Tasks /\ IdleTask \in Task /\ NoWatch \in Watch /\ IdleOp \in Op
    /\ IdleTask.rec = FirstRecord /\ NoWatch.rec = FirstRecord /\ IdleOp.rec = FirstRecord
  BY FirstCopy DEF Tasks, IdleTask, Task, NoWatch, Watch, IdleOp, Op, Time, Instant, NotFired

LEMMA EmptyTask ==
    ASSUME NEW k \in Tasks, task'[k].rec = FirstRecord, task'[k].pc \notin {"spawn", "arm"}
    PROVE  TaskOK(k)'
  BY FirstCopy DEF TaskOK

LEMMA EvolvesSame ==
    ASSUME thread' = thread
    PROVE  Evolves(thread, thread')
  BY DEF Evolves

\* A save leaves a sound copy in the store, whether it succeeds or not.
LEMMA SaveKeeps ==
    ASSUME TypeOK, NEW rec \in Record, SaveMission(rec)
    PROVE  store' \in {store, rec} /\ store' \in Record /\ faults' \in 0..MaxFaults
  BY DEF SaveMission, TypeOK

-----------------------------------------------------------------------------
(* tick and fire_mission.                                                  *)

LEMMA TickStep ==
    ASSUME MissionInv, Tick
    PROVE  MissionInv'
  <1>1. Ticker \in Tasks /\ now \in Nat /\ now \in Time
    BY TickerTask DEF MissionInv, TypeOK, Time
  <1>2. PICK v : v = [IdleTask EXCEPT !.pc = "due", !.at = now, !.quiet = quiet]
    OBVIOUS
  <1>3. v \in Task /\ v.rec = FirstRecord /\ v.pc = "due" /\ v.at = now
    BY <1>1, <1>2, TickerTask DEF MissionInv, TypeOK, IdleTask, Task
  <1>4. task' = task \/ task' = [task EXCEPT ![Ticker] = v]
    BY <1>2 DEF Tick
  <1>5. task' \in [Tasks -> Task]
    BY <1>1, <1>3, <1>4 DEF MissionInv, TypeOK
  <1>6. \A k \in Tasks : task'[k] = task[k] \/ TaskOK(k)'
    BY <1>1, <1>3, <1>4, EmptyTask DEF MissionInv, TypeOK
  \* A suppressed fire, or a later one, is in last_fire_attempt and not pruned.
  <1>7. Calm
    <2>1. attempt' = attempt \/ (attempt' = None /\ fired.fire = None)
      <3> SUFFICES ASSUME fired.fire # None, attempt # None,
                          now - born[attempt] >= FireCooldown
                   PROVE  FALSE
        BY DEF Tick
      <3>1. fired.fire \in Threads /\ attempt \in Threads /\ fired.fire <= attempt
        BY DEF MissionInv, TypeOK, Instant, FiredOK, Tick
      <3>2. born[fired.fire] <= born[attempt]
        BY <3>1 DEF MissionInv, TypeOK, Ordered, Threads, Time
      <3>3. now - born[fired.fire] < FireCooldown
        BY DEF MissionInv, FiredOK
      <3>4. born[fired.fire] \in Nat /\ born[attempt] \in Nat
        BY <3>1 DEF MissionInv, TypeOK, Time
      <3> QED BY <1>1, <3>2, <3>3, <3>4
    <2> QED BY <2>1, EvolvesSame DEF Tick, Calm
  <1>8. TickerCalm
    <2>1. task'[Ticker] = task[Ticker] \/ task'[Ticker] = v
      BY <1>1, <1>4 DEF MissionInv, TypeOK
    <2> QED BY <1>1, <1>3, <2>1 DEF TickerCalm, Chosen, MissionInv, TickerOK, Tick
  <1>9. TypeOK'
    BY <1>1, <1>5 DEF MissionInv, TypeOK, Tick, Instant
  <1>10. CopiesOK'
    BY <1>6, <1>7, CalmKeeps, CopiesKept DEF MissionInv, Tick
  <1> QED BY <1>7, <1>8, <1>9, <1>10, CalmKeeps, TickerCalmKeeps DEF MissionInv

\* A slot that is still suppressed is not chosen: the store has it with an
\* older last_fire_at than last_fire_attempt.
LEMMA TickDueStep ==
    ASSUME MissionInv, TickDue
    PROVE  MissionInv'
  <1>1. Ticker \in Tasks /\ now \in Nat /\ task[Ticker] \in Task /\ store \in Record
    BY TickerTask DEF MissionInv, TypeOK, Time
  <1>2. PICK tick : tick = task[Ticker].at
    OBVIOUS
  <1>3. tick \in Nat /\ tick \in Time /\ tick <= now
    BY <1>1, <1>2 DEF Task, Time, MissionInv, TickerOK
  <1> DEFINE go == store.status = "Active" /\ store.next <= tick /\ ~OnCooldown(store, tick)
  <1>4. PICK w : w = [task[Ticker] EXCEPT !.pc = "load", !.at = 0, !.slot = store.next]
    OBVIOUS
  <1>5. /\ w \in Task /\ w.pc = "load" /\ w.at = 0 /\ w.slot = store.next
        /\ w.rec = task[Ticker].rec
    <2>1. store.next \in Nat /\ 0 \in Time
      BY <1>1 DEF Record, Time
    <2> QED BY <1>1, <1>4, <2>1 DEF Task
  <1>6. PICK v : v = IF go THEN w ELSE IdleTask
    OBVIOUS
  <1>7. v \in Task /\ task' = [task EXCEPT ![Ticker] = v]
    BY <1>2, <1>4, <1>5, <1>6, TickerTask DEF TickDue
  <1>8. task' \in [Tasks -> Task] /\ task'[Ticker] = v
    BY <1>1, <1>7 DEF MissionInv, TypeOK
  <1>9. TypeOK'
    BY <1>8 DEF MissionInv, TypeOK, TickDue
  <1>10. Calm
    BY EvolvesSame DEF TickDue, Calm
  <1>11. Frame /\ Ordered'
    BY <1>10, CalmKeeps
  <1>12. TaskOK(Ticker)'
    <2>1. CASE go
      <3>1. Copy(task[Ticker].rec, thread', fired') /\ task'[Ticker].rec = task[Ticker].rec
        BY <1>1, <1>5, <1>6, <1>8, <2>1 DEF MissionInv, CopiesOK, TaskOK, TickDue
      <3> QED BY <1>5, <1>6, <1>8, <2>1, <3>1 DEF TaskOK
    <2>2. CASE ~go
      BY <1>1, <1>6, <1>8, <2>2, EmptyTask, TickerTask DEF IdleTask
    <2> QED BY <2>1, <2>2
  <1>13. CopiesOK'
    <2>1. \A k \in Tasks : task'[k] = task[k] \/ TaskOK(k)'
      BY <1>7, <1>12 DEF MissionInv, TypeOK
    <2> QED BY <1>11, <2>1, CopiesKept DEF MissionInv, TickDue
  <1>14. v.pc \in {"load", "idle"} /\ v.at <= now
    BY <1>1, <1>5, <1>6 DEF IdleTask
  <1>15. FiredOK'
    BY <1>8, <1>14 DEF MissionInv, FiredOK, TickDue
  <1>16. TickerOK'
    <2>1. ASSUME go
          PROVE  fired.fire = None \/ fired.slot # store.next
      <3> SUFFICES ASSUME fired.fire # None, fired.slot = store.next
                   PROVE  OnCooldown(store, tick)
        BY <2>1
      <3>1. /\ fired.fire \in Threads /\ attempt \in Threads /\ fired.fire <= attempt
            /\ attempt # None
        BY DEF MissionInv, TypeOK, Instant, FiredOK, TickDue
      <3>2. born[fired.fire] <= born[attempt]
        BY <3>1 DEF MissionInv, TypeOK, Ordered, Threads, Time
      <3>3. now - born[fired.fire] < FireCooldown
        BY DEF MissionInv, FiredOK
      <3>4. born[fired.fire] \in Nat /\ born[attempt] \in Nat
        BY <3>1 DEF MissionInv, TypeOK, Time
      <3>5. tick - born[attempt] < FireCooldown
        BY <1>1, <1>3, <3>2, <3>3, <3>4
      <3>6. store.last = None \/ store.last < fired.fire
        BY DEF MissionInv, CopiesOK, Copy, Behind
      <3>7. store.last # attempt
        BY <1>1, <3>1, <3>6 DEF Record, Instant, Threads
      <3> QED BY <3>1, <3>5, <3>7 DEF OnCooldown
    <2>2. CASE go
      BY <1>1, <1>3, <1>5, <1>6, <1>8, <1>14, <2>1, <2>2 DEF TickerOK, TickDue, Record
    <2>3. CASE ~go
      <3>1. v.pc = "idle" /\ now' = now
        BY <1>6, <2>3 DEF TickDue, IdleTask
      <3> QED BY <1>8, <1>14, <3>1 DEF TickerOK, Chosen
    <2> QED BY <2>2, <2>3
  <1> QED BY <1>9, <1>11, <1>13, <1>15, <1>16 DEF MissionInv

\* A step of one fire_mission that spawns nothing and arms nothing.
LEMMA TaskStep ==
    ASSUME MissionInv, NEW k \in Tasks, NEW v \in Task,
           task' = [task EXCEPT ![k] = v],
           UNCHANGED <<now, indexed, attempt, thread, born, ticked, op, watch, crashes, fired, quiet>>,
           faults' \in 0..MaxFaults, requests' \in 0..MaxRequests,
           store' \in Record, store' = store \/ Copy(store', thread, fired),
           Copy(v.rec, thread, fired), v.pc = "spawn" => BelowLimit(v.rec),
           v.pc # "arm", task[k].pc # "arm",
           k = Ticker => /\ v.at <= now
                         /\ v.pc \in Chosen => task[k].pc \in Chosen /\ v.slot = task[k].slot
    PROVE  MissionInv'
  <1>1. task' \in [Tasks -> Task] /\ task'[k] = v
    BY DEF MissionInv, TypeOK
  <1>2. TypeOK'
    BY <1>1 DEF MissionInv, TypeOK
  <1>3. Calm
    BY EvolvesSame DEF Calm
  <1>4. TickerCalm
    <2>1. CASE k = Ticker
      BY <1>1, <2>1 DEF TickerCalm
    <2>2. CASE k # Ticker
      <3>1. task'[Ticker] = task[Ticker]
        BY <2>2, TickerTask DEF MissionInv, TypeOK
      <3> QED BY <3>1 DEF TickerCalm, MissionInv, TickerOK
    <2> QED BY <2>1, <2>2
  <1>5. TaskOK(k)'
    <2>1. v.pc = "spawn" => BelowLimit(v.rec)'
      BY DEF BelowLimit, RunningThreads
    <2> QED BY <1>1, <2>1 DEF TaskOK
  <1>6. \A i \in Tasks : task'[i] = task[i] \/ TaskOK(i)'
    BY <1>5 DEF MissionInv, TypeOK
  <1>7. CopiesOK'
    BY <1>3, <1>6, CalmKeeps, CopiesKept DEF MissionInv
  <1> QED BY <1>2, <1>3, <1>4, <1>7, CalmKeeps, TickerCalmKeeps DEF MissionInv

LEMMA TaskIdles ==
    ASSUME MissionInv, NEW k \in Tasks, task[k].pc # "arm",
           task' = [task EXCEPT ![k] = IdleTask],
           UNCHANGED <<now, indexed, attempt, thread, born, ticked, op, watch, crashes, requests, fired, quiet>>,
           faults' \in 0..MaxFaults,
           store' \in Record, store' = store \/ Copy(store', thread, fired)
    PROVE  MissionInv'
  <1>1. IdleTask \in Task /\ Copy(IdleTask.rec, thread, fired)
    BY TickerTask, FirstCopy
  <1>2. IdleTask.pc = "idle" /\ IdleTask.at <= now /\ requests' \in 0..MaxRequests
    BY DEF IdleTask, MissionInv, TypeOK, Time
  <1> QED BY <1>1, <1>2, TaskStep DEF Chosen

LEMMA FireManuallyStep ==
    ASSUME MissionInv, NEW k \in Tasks, FireManually(k)
    PROVE  MissionInv'
  <1>1. PICK v : v = [task[k] EXCEPT !.pc = "load"]
    OBVIOUS
  <1>2. v \in Task /\ v.rec = task[k].rec /\ v.pc = "load" /\ task' = [task EXCEPT ![k] = v]
    BY <1>1 DEF MissionInv, TypeOK, Task, FireManually
  <1>3. k # Ticker /\ task[k].pc = "idle"
    BY DEF FireManually
  <1>4. Copy(v.rec, thread, fired)
    BY <1>2 DEF MissionInv, CopiesOK, TaskOK
  <1>5. requests' \in 0..MaxRequests /\ faults' \in 0..MaxFaults /\ store' \in Record
    BY DEF MissionInv, TypeOK, FireManually, Request
  <1> QED BY <1>2, <1>3, <1>4, <1>5, TaskStep DEF FireManually

LEMMA LoadStep ==
    ASSUME MissionInv, NEW k \in Tasks, Load(k)
    PROVE  MissionInv'
  <1>1. /\ task[k] \in Task /\ store \in Record /\ Copy(store, thread, fired)
        /\ requests \in 0..MaxRequests /\ faults \in 0..MaxFaults /\ task[k].pc = "load"
        /\ k = Ticker => task[k].at <= now
    BY DEF MissionInv, TypeOK, CopiesOK, TickerOK, Load
  <1>2. CASE store.status = "Completed"
    <2>1. task' = [task EXCEPT ![k] = IdleTask]
      BY <1>2 DEF Load
    <2> QED BY <1>1, <2>1, TaskIdles DEF Load
  <1>3. CASE store.status # "Completed"
    <2>1. PICK r : r = [store EXCEPT !.today = 0]
      OBVIOUS
    <2>2. /\ r \in Record /\ r.history = store.history /\ r.today = 0
          /\ r.last = store.last /\ r.next = store.next
      BY <1>1, <2>1 DEF Record
    <2>3. Copy(r, thread, fired)
      <3>1. Cardinality(store.history) \in Nat
        BY <1>1, ThreadsFinite DEF Record
      <3> QED BY <1>1, <2>2, <3>1 DEF Copy, Sound, Behind
    <2>4. PICK v : v = IF Stale(store) THEN [task[k] EXCEPT !.pc = "reset", !.rec = r]
                       ELSE [task[k] EXCEPT !.pc = "guard", !.rec = store]
      OBVIOUS
    <2>5. /\ v \in Task /\ v.pc \in {"reset", "guard"} /\ v.rec \in {r, store}
          /\ v.slot = task[k].slot /\ v.at = task[k].at
      BY <1>1, <2>2, <2>4 DEF Task
    <2>6. task' = [task EXCEPT ![k] = v]
      BY <1>3, <2>1, <2>4 DEF Load
    <2> QED BY <1>1, <2>3, <2>5, <2>6, TaskStep DEF Load, Chosen
  <1> QED BY <1>2, <1>3

LEMMA ResetStep ==
    ASSUME MissionInv, NEW k \in Tasks, Reset(k)
    PROVE  MissionInv'
  <1>1. /\ task[k] \in Task /\ task[k].rec \in Record /\ Copy(task[k].rec, thread, fired)
        /\ requests' \in 0..MaxRequests /\ task[k].pc = "reset"
        /\ k = Ticker => task[k].at <= now
    BY DEF MissionInv, TypeOK, CopiesOK, TaskOK, TickerOK, Reset, Task
  <1>2. store' \in {store, task[k].rec} /\ store' \in Record /\ faults' \in 0..MaxFaults
    BY <1>1, SaveKeeps DEF MissionInv, Reset
  <1>3. PICK v : v = [task[k] EXCEPT !.pc = "guard"]
    OBVIOUS
  <1>4. /\ v \in Task /\ v.pc = "guard" /\ v.rec = task[k].rec
        /\ v.slot = task[k].slot /\ v.at = task[k].at /\ task' = [task EXCEPT ![k] = v]
    BY <1>1, <1>3 DEF Task, Reset
  <1> QED BY <1>1, <1>2, <1>4, TaskStep DEF Reset, Chosen

LEMMA GuardStep ==
    ASSUME MissionInv, NEW k \in Tasks, Guard(k)
    PROVE  MissionInv'
  <1>1. /\ task[k] \in Task /\ Copy(task[k].rec, thread, fired) /\ task[k].pc = "guard"
        /\ requests' \in 0..MaxRequests /\ faults' \in 0..MaxFaults /\ store' \in Record
        /\ k = Ticker => task[k].at <= now
    BY DEF MissionInv, TypeOK, CopiesOK, TaskOK, TickerOK, Guard
  <1>2. PICK v : v = [task[k] EXCEPT !.pc = "spawn"]
    OBVIOUS
  <1>3. /\ v \in Task /\ v.pc = "spawn" /\ v.rec = task[k].rec
        /\ v.slot = task[k].slot /\ v.at = task[k].at
    BY <1>1, <1>2 DEF Task
  <1>4. CASE task' = [task EXCEPT ![k] = v] /\ BelowLimit(task[k].rec)
    BY <1>1, <1>3, <1>4, TaskStep DEF Guard, Chosen
  <1>5. CASE task' = [task EXCEPT ![k] = IdleTask]
    BY <1>1, <1>5, TaskIdles DEF Guard
  <1> QED BY <1>2, <1>4, <1>5 DEF Guard

LEMMA NotSpawnedStep ==
    ASSUME MissionInv, NEW k \in Tasks, NotSpawned(k)
    PROVE  MissionInv'
  <1>1. faults' \in 0..MaxFaults /\ store' \in Record
    BY DEF MissionInv, TypeOK, NotSpawned
  <1> QED BY <1>1, TaskIdles DEF NotSpawned

LEMMA SaveStep ==
    ASSUME MissionInv, NEW k \in Tasks, Save(k)
    PROVE  MissionInv'
  <1>1. task[k].rec \in Record /\ Copy(task[k].rec, thread, fired) /\ task[k].pc = "save"
    BY DEF MissionInv, TypeOK, CopiesOK, TaskOK, Save, Task
  <1>2. store' \in {store, task[k].rec} /\ store' \in Record /\ faults' \in 0..MaxFaults
    BY <1>1, SaveKeeps DEF MissionInv, Save
  <1> QED BY <1>1, <1>2, TaskIdles DEF Save

\* The spawned thread is newer than every instant in a copy of the record.
LEMMA SpawnFrame ==
    ASSUME MissionInv, NEW k \in Tasks, NEW t \in Threads, Spawn(k, t)
    PROVE  /\ thread[t] = "unborn" /\ \A u \in Threads : thread[u] # "unborn" => u < t
           /\ \A m \in Record : Sound(m, thread) /\ m.last # None => m.last < t
           /\ Frame
  <1>1. thread[t] = "unborn" /\ \A u \in Threads : thread[u] # "unborn" => u < t
    BY DEF Spawn, Unborn, Threads
  <1>2. \A m \in Record : Sound(m, thread) /\ m.last # None => m.last < t
    BY <1>1 DEF Sound, Record, Instant
  <1>3. Evolves(thread, thread')
    BY <1>1 DEF Spawn, Evolves, MissionInv, TypeOK
  <1>4. CASE k # Ticker
    BY <1>1, <1>2, <1>3, <1>4, FrameSame DEF Spawn
  <1>5. CASE k = Ticker
    <2>1. fired'.fire = t
      BY <1>5 DEF Spawn
    <2>2. ASSUME NEW m \in Record, Copy(m, thread, fired)
          PROVE  Copy(m, thread', fired')
      <3>1. Sound(m, thread')
        BY <1>3, <2>2, SoundKept DEF Copy
      <3>2. Behind(m, fired')
        BY <1>2, <2>1, <2>2 DEF Copy, Behind
      <3> QED BY <3>1, <3>2 DEF Copy
    <2> QED BY <1>1, <1>2, <1>3, <2>2 DEF Frame
  <1> QED BY <1>4, <1>5

LEMMA SpawnStep ==
    ASSUME MissionInv, NEW k \in Tasks, NEW t \in Threads, Spawn(k, t)
    PROVE  MissionInv'
  <1>1. /\ thread[t] = "unborn" /\ \A u \in Threads : thread[u] # "unborn" => u < t
        /\ \A m \in Record : Sound(m, thread) /\ m.last # None => m.last < t
        /\ Frame
    BY SpawnFrame
  <1>2. PICK m : m = task[k].rec
    OBVIOUS
  <1>3. m \in Record /\ Copy(m, thread, fired) /\ BelowLimit(m) /\ TypeOK /\ now \in Nat /\ now \in Time
    BY <1>2 DEF MissionInv, TypeOK, Task, CopiesOK, TaskOK, Spawn, Time
  <1>4. Updated(m, t) \in Record /\ Sound(Updated(m, t), thread')
    BY <1>1, <1>3, UpdatedSound DEF Copy, Spawn
  <1>5. PICK v : v = [IdleTask EXCEPT !.pc = "arm", !.fire = t, !.rec = Updated(m, t)]
    OBVIOUS
  <1>6. /\ v \in Task /\ v.pc = "arm" /\ v.fire = t /\ v.rec = Updated(m, t) /\ v.at = 0
        /\ task' = [task EXCEPT ![k] = v]
    <2>1. t \in Instant
      BY DEF Instant
    <2> QED BY <1>2, <1>4, <1>5, <2>1, TickerTask DEF IdleTask, Task, Spawn
  <1>7. task' \in [Tasks -> Task] /\ task'[k] = v
    BY <1>6 DEF MissionInv, TypeOK
  <1>8. thread' \in [Threads -> {"unborn", "running", "ended"}] /\ thread'[t] = "running"
    BY DEF MissionInv, TypeOK, Spawn
  <1>9. born' \in [Threads -> Time] /\ born'[t] = now
    BY <1>3 DEF MissionInv, TypeOK, Spawn
  <1>10. watch' \in [Threads -> Watch] /\ \A u \in Threads : watch'[u].rec \in {watch[u].rec, FirstRecord}
    <2>1. PICK w : w = [NoWatch EXCEPT !.pc = "join"]
      OBVIOUS
    <2>2. w \in Watch /\ w.rec = FirstRecord /\ watch' = [watch EXCEPT ![t] = w]
      BY <2>1, TickerTask DEF NoWatch, Watch, Spawn
    <2> QED BY <2>2 DEF MissionInv, TypeOK
  <1>11. (fired' \in [slot : Nat, fire : Instant] /\ fired'.slot <= now) \/ fired' = fired
    <2>1. CASE k = Ticker
      <3>1. fired' = [slot |-> task[k].slot, fire |-> t]
        BY <2>1 DEF Spawn
      <3>2. task[k].slot \in Nat /\ task[k].slot <= now
        BY <2>1 DEF MissionInv, TypeOK, Task, TickerOK, Chosen, Spawn
      <3> QED BY <3>1, <3>2 DEF Instant
    <2>2. CASE k # Ticker
      BY <2>2 DEF Spawn
    <2> QED BY <2>1, <2>2
  <1>12. TypeOK'
    <2>1. fired' \in [slot : Nat, fire : Instant]
      BY <1>11 DEF MissionInv, TypeOK
    <2> QED BY <1>7, <1>8, <1>9, <1>10, <2>1 DEF MissionInv, TypeOK, Spawn
  <1>13. Behind(Updated(m, t), fired')
    <2>1. CASE fired'.fire = None
      BY <2>1 DEF Behind
    <2>2. CASE fired'.fire # None
      <3>1. fired'.slot \in Nat /\ fired'.slot <= now
        BY <1>11, <1>12, <2>2 DEF TypeOK, MissionInv, FiredOK
      <3>2. Behind(m, fired') \/ (fired'.fire = t /\ (m.last # None => m.last < t))
        BY <1>1, <1>3 DEF Spawn, Copy
      <3> QED BY <1>3, <3>1, <3>2, UpdatedBehind
    <2> QED BY <2>1, <2>2
  <1>14. CopiesOK'
    <2>1. TaskOK(k)'
      BY <1>4, <1>6, <1>7, <1>8, <1>13 DEF TaskOK, Copy, Born
    <2>2. \A i \in Tasks : task'[i] = task[i] \/ TaskOK(i)'
      BY <1>6, <2>1 DEF MissionInv, TypeOK
    <2>3. \A u \in Threads : watch'[u].rec = watch[u].rec \/ Copy(watch'[u].rec, thread', fired')
      BY <1>10, FirstCopy
    <2> QED BY <1>1, <2>2, <2>3, CopiesKept DEF MissionInv, Spawn
  <1>15. Ordered'
    <2>1. \A u \in Threads : u # t => thread'[u] = thread[u] /\ born'[u] = born[u]
      BY DEF MissionInv, TypeOK, Spawn
    <2>2. now' = now /\ attempt' = attempt
      BY DEF Spawn
    <2>3. \A u \in Threads : thread'[u] # "unborn" => born'[u] <= now
      BY <1>3, <1>9, <2>1 DEF MissionInv, Ordered
    <2>4. ASSUME NEW x \in Threads, NEW y \in Threads, x < y, thread'[y] # "unborn"
          PROVE  thread'[x] # "unborn" /\ born'[x] <= born'[y]
      <3>1. CASE y = t
        <4>1. x # t /\ thread[x] # "unborn"
          BY <2>4, <3>1 DEF Spawn, Unborn, Threads
        <4> QED BY <1>9, <2>1, <2>3, <3>1, <4>1
      <3>2. CASE y # t
        <4>1. thread[y] # "unborn" /\ y < t
          BY <1>1, <2>1, <2>4, <3>2
        <4>2. x # t
          BY <2>4, <4>1 DEF Threads
        <4> QED BY <2>1, <2>4, <3>2, <4>1, <4>2 DEF MissionInv, Ordered
      <3> QED BY <3>1, <3>2
    <2>5. attempt' # None => thread'[attempt'] # "unborn"
      BY <1>8, <2>1, <2>2 DEF MissionInv, TypeOK, Instant, Ordered
    <2> QED BY <2>2, <2>3, <2>4, <2>5 DEF Ordered
  <1>16. FiredOK' /\ TickerOK'
    <2>1. CASE k = Ticker
      <3>1. fired' = [slot |-> task[k].slot, fire |-> t] /\ task'[Ticker] = v /\ now' = now
        BY <1>7, <2>1 DEF Spawn
      <3>2. task[k].slot <= now
        BY <2>1 DEF MissionInv, TickerOK, Chosen, Spawn
      <3>3. FiredOK'
        BY <1>3, <1>6, <1>8, <1>9, <3>1, <3>2 DEF FiredOK
      <3>4. TickerOK'
        BY <1>3, <1>6, <3>1 DEF TickerOK, Chosen
      <3> QED BY <3>3, <3>4
    <2>2. CASE k # Ticker
      <3>1. task'[Ticker] = task[Ticker] /\ fired' = fired /\ now' = now /\ attempt' = attempt
        BY <1>6, <2>2, TickerTask DEF MissionInv, TypeOK, Spawn
      <3>2. fired.fire # None => thread'[fired.fire] = thread[fired.fire] /\ born'[fired.fire] = born[fired.fire]
        BY <1>1 DEF MissionInv, TypeOK, FiredOK, Instant, Spawn
      <3>3. FiredOK'
        BY <3>1, <3>2 DEF MissionInv, FiredOK
      <3>4. TickerOK'
        BY <3>1 DEF MissionInv, TickerOK
      <3> QED BY <3>3, <3>4
    <2> QED BY <2>1, <2>2
  <1> QED BY <1>12, <1>14, <1>15, <1>16 DEF MissionInv

\* A fire that arms after a later one gives its suppression up; any other is
\* not older than the fire that is to be suppressed.
LEMMA ArmStep ==
    ASSUME MissionInv, NEW k \in Tasks, Arm(k)
    PROVE  MissionInv'
  <1>1. /\ task[k] \in Task /\ task[k].fire \in Threads /\ thread[task[k].fire] # "unborn"
        /\ Copy(task[k].rec, thread, fired) /\ task[k].pc = "arm"
    BY DEF MissionInv, TypeOK, CopiesOK, TaskOK, Born, Arm
  <1>2. PICK v : v = [task[k] EXCEPT !.pc = "save", !.fire = None]
    OBVIOUS
  <1>3. /\ v \in Task /\ v.pc = "save" /\ v.rec = task[k].rec /\ v.at = task[k].at
        /\ task' = [task EXCEPT ![k] = v]
    BY <1>1, <1>2 DEF Task, Instant, Arm
  <1>4. task' \in [Tasks -> Task] /\ task'[k] = v
    BY <1>3 DEF MissionInv, TypeOK
  <1>5. fired' = NotFired \/ (fired' = fired /\ (fired.fire # None => ~(task[k].fire < fired.fire)))
    BY DEF Arm
  <1>6. TypeOK'
    <2>1. attempt' \in Instant
      BY <1>1 DEF Arm, Instant
    <2>2. fired' \in [slot : Nat, fire : Instant]
      BY <1>5 DEF MissionInv, TypeOK, NotFired, Instant
    <2> QED BY <1>4, <2>1, <2>2 DEF MissionInv, TypeOK, Arm
  <1>7. Frame
    BY <1>5, EvolvesSame, FrameSame DEF Arm
  <1>8. CopiesOK'
    <2>1. Copy(v.rec, thread', fired')
      BY <1>1, <1>3, <1>7 DEF Frame, Task
    <2>2. TaskOK(k)'
      BY <1>3, <1>4, <2>1 DEF TaskOK
    <2>3. \A i \in Tasks : task'[i] = task[i] \/ TaskOK(i)'
      BY <1>3, <2>2 DEF MissionInv, TypeOK
    <2> QED BY <1>7, <2>3, CopiesKept DEF MissionInv, Arm
  <1>9. Ordered'
    BY <1>1 DEF MissionInv, Ordered, Arm
  <1>10. FiredOK'
    <2>1. CASE fired' = NotFired
      BY <2>1 DEF FiredOK, NotFired
    <2>2. CASE fired' = fired /\ fired.fire # None /\ ~(task[k].fire < fired.fire)
      <3>1. fired.fire \in Threads /\ fired.fire <= task[k].fire
        BY <1>1, <2>2 DEF MissionInv, TypeOK, Instant, Threads
      <3>2. attempt' = task[k].fire /\ task[k].fire # None
        BY <1>1 DEF Arm, Threads
      <3>3. task'[Ticker] = task[Ticker] \/ task'[Ticker] = v
        BY <1>3, TickerTask DEF MissionInv, TypeOK
      <3>4. thread' = thread /\ now' = now /\ born' = born
        BY DEF Arm
      <3> QED BY <1>3, <2>2, <3>1, <3>2, <3>3, <3>4 DEF MissionInv, FiredOK
    <2>3. CASE fired' = fired /\ fired.fire = None
      BY <2>3 DEF FiredOK
    <2> QED BY <1>5, <2>1, <2>2, <2>3
  <1>11. TickerOK'
    <2>1. task'[Ticker] = task[Ticker] \/ (k = Ticker /\ task'[Ticker] = v)
      BY <1>3, TickerTask DEF MissionInv, TypeOK
    <2>2. now' = now
      BY DEF Arm
    <2> QED BY <1>3, <1>5, <2>1, <2>2 DEF MissionInv, TickerOK, NotFired, Chosen
  <1> QED BY <1>6, <1>8, <1>9, <1>10, <1>11 DEF MissionInv

-----------------------------------------------------------------------------
(* The thread, its watcher and the other writers.                          *)

LEMMA OtherStep ==
    ASSUME MissionInv, TypeOK', Calm, task' = task,
           store' = store \/ Copy(store', thread', fired'),
           \A o \in Ops : op'[o].rec = op[o].rec \/ Copy(op'[o].rec, thread', fired'),
           \A t \in Threads : watch'[t].rec = watch[t].rec
                              \/ Copy(watch'[t].rec, thread', fired')
    PROVE  MissionInv'
  <1>1. TickerCalm
    BY DEF TickerCalm, MissionInv, TickerOK
  <1>2. CopiesOK'
    BY CalmKeeps, CopiesKept DEF MissionInv
  <1> QED BY <1>1, <1>2, CalmKeeps, TickerCalmKeeps DEF MissionInv

LEMMA ThreadEndsStep ==
    ASSUME MissionInv, NEW t \in Threads, ThreadEnds(t)
    PROVE  MissionInv'
  <1>1. thread' \in [Threads -> {"unborn", "running", "ended"}]
    BY DEF MissionInv, TypeOK, ThreadEnds
  <1>2. TypeOK'
    BY <1>1 DEF MissionInv, TypeOK, ThreadEnds
  <1>3. Calm
    BY DEF MissionInv, TypeOK, ThreadEnds, Calm, Evolves
  <1> QED BY <1>2, <1>3, OtherStep DEF ThreadEnds

LEMMA WatchLoadStep ==
    ASSUME MissionInv, NEW t \in Threads, NEW achieved \in BOOLEAN, WatchLoad(t, achieved)
    PROVE  MissionInv'
  <1>1. store \in Record /\ Copy(store, thread, fired) /\ thread[t] = "ended" /\ TypeOK
    BY DEF MissionInv, TypeOK, CopiesOK, WatchLoad
  <1>2. PICK m : m = Reconciled(store, t)
    OBVIOUS
  <1>3. m \in Record /\ Sound(m, thread)
    BY <1>1, <1>2, ReconciledSound DEF Copy
  <1>4. PICK r : r = IF achieved THEN [m EXCEPT !.status = "Completed"] ELSE m
    OBVIOUS
  <1>5. /\ r \in Record /\ r.history = m.history /\ r.today = m.today
        /\ r.last = m.last /\ r.next = m.next
    BY <1>3, <1>4 DEF Record
  <1>6. thread' = thread /\ fired' = IF m.corrupt /\ m # store THEN NotFired ELSE fired
    BY <1>2 DEF WatchLoad
  <1>7. Calm
    BY <1>6, EvolvesSame DEF Calm, WatchLoad
  <1>8. Behind(m, fired')
    <2>1. CASE fired'.fire = None
      BY <2>1 DEF Behind
    <2>2. CASE fired'.fire # None
      <3>1. fired' = fired /\ fired.slot \in Nat /\ fired.slot <= now
        BY <1>6, <2>2 DEF NotFired, MissionInv, TypeOK, FiredOK
      <3>2. ~store.corrupt \/ t \in store.history
        <4> SUFFICES ASSUME store.corrupt, t \notin store.history
                     PROVE  FALSE
          OBVIOUS
        <4>1. m.corrupt /\ t \in m.history
          BY <1>1, <1>2 DEF Reconciled, Record
        <4> QED BY <1>6, <2>2, <4>1 DEF NotFired
      <3> QED BY <1>1, <1>2, <3>1, <3>2, ReconciledBehind DEF Copy
    <2> QED BY <2>1, <2>2
  <1>9. Copy(r, thread', fired')
    BY <1>3, <1>5, <1>6, <1>8 DEF Copy, Sound, Behind
  <1>10. watch' = [watch EXCEPT ![t] = [pc |-> "save", rec |-> r]]
    BY <1>2, <1>4 DEF WatchLoad
  <1>11. watch' \in [Threads -> Watch] /\ \A u \in Threads : watch'[u].rec \in {watch[u].rec, r}
    <2>1. [pc |-> "save", rec |-> r] \in Watch
      BY <1>5 DEF Watch
    <2> QED BY <1>10, <2>1 DEF MissionInv, TypeOK
  <1>12. TypeOK'
    <2>1. fired' \in [slot : Nat, fire : Instant]
      BY <1>6 DEF MissionInv, TypeOK, NotFired, Instant
    <2> QED BY <1>11, <2>1 DEF MissionInv, TypeOK, WatchLoad
  <1>13. \A u \in Threads : watch'[u].rec = watch[u].rec \/ Copy(watch'[u].rec, thread', fired')
    BY <1>9, <1>11
  <1> QED BY <1>7, <1>12, <1>13, OtherStep DEF WatchLoad

LEMMA WatchSaveStep ==
    ASSUME MissionInv, NEW t \in Threads, WatchSave(t)
    PROVE  MissionInv'
  <1>1. watch[t].rec \in Record /\ Copy(watch[t].rec, thread, fired)
    BY DEF MissionInv, TypeOK, CopiesOK, Watch
  <1>2. store' \in {store, watch[t].rec} /\ store' \in Record /\ faults' \in 0..MaxFaults
    BY <1>1, SaveKeeps DEF MissionInv, WatchSave
  <1>3. PICK w : w = [NoWatch EXCEPT !.pc = IF faults' = faults THEN "none" ELSE "lost"]
    OBVIOUS
  <1>4. w \in Watch /\ w.rec = FirstRecord
    BY <1>3, TickerTask DEF NoWatch, Watch
  <1>5. watch' \in [Threads -> Watch] /\ \A u \in Threads : watch'[u].rec \in {watch[u].rec, FirstRecord}
    BY <1>3, <1>4 DEF MissionInv, TypeOK, WatchSave
  <1>6. TypeOK'
    BY <1>2, <1>5 DEF MissionInv, TypeOK, WatchSave
  <1>7. Calm
    BY EvolvesSame DEF Calm, WatchSave
  <1>8. store' = store \/ Copy(store', thread', fired')
    BY <1>1, <1>2 DEF WatchSave
  <1>9. \A u \in Threads : watch'[u].rec = watch[u].rec \/ Copy(watch'[u].rec, thread', fired')
    BY <1>5, FirstCopy
  <1> QED BY <1>6, <1>7, <1>8, <1>9, OtherStep DEF WatchSave

LEMMA OpLoadStep ==
    ASSUME MissionInv, NEW o \in Ops, NEW kind \in {"pause", "resume", "complete", "update"},
           OpLoad(o, kind)
    PROVE  MissionInv'
  <1>1. store \in Record /\ Copy(store, thread, fired)
    BY DEF MissionInv, TypeOK, CopiesOK
  <1>2. PICK r : r = IF kind \in {"resume", "update"} THEN store ELSE FirstRecord
    OBVIOUS
  <1>3. r \in Record /\ Copy(r, thread, fired)
    BY <1>1, <1>2, FirstCopy
  <1>4. op' = [op EXCEPT ![o] = [kind |-> kind, pc |-> "write", rec |-> r]]
    BY <1>2 DEF OpLoad
  <1>5. op' \in [Ops -> Op] /\ \A p \in Ops : op'[p].rec \in {op[p].rec, r}
    <2>1. [kind |-> kind, pc |-> "write", rec |-> r] \in Op
      BY <1>3 DEF Op
    <2> QED BY <1>4, <2>1 DEF MissionInv, TypeOK
  <1>6. requests' \in 0..MaxRequests
    BY DEF MissionInv, TypeOK, OpLoad, Request
  <1>7. TypeOK'
    BY <1>5, <1>6 DEF MissionInv, TypeOK, OpLoad
  <1>8. Calm
    BY EvolvesSame DEF Calm, OpLoad
  <1>9. \A p \in Ops : op'[p].rec = op[p].rec \/ Copy(op'[p].rec, thread', fired')
    BY <1>3, <1>5 DEF OpLoad
  <1> QED BY <1>7, <1>8, <1>9, OtherStep DEF OpLoad

\* A step of pause, complete or resume that leaves the copy in its hands alone.
LEMMA OpMoves ==
    ASSUME MissionInv, NEW o \in Ops, NEW pc \in {"index", "forget"},
           op' = [op EXCEPT ![o].pc = pc] \/ op' = [op EXCEPT ![o] = IdleOp]
    PROVE  /\ op' \in [Ops -> Op]
           /\ \A p \in Ops : op'[p].rec = op[p].rec \/ Copy(op'[p].rec, thread', fired')
  <1>1. CASE op' = [op EXCEPT ![o] = IdleOp]
    BY <1>1, TickerTask, FirstCopy DEF MissionInv, TypeOK
  <1>2. CASE op' = [op EXCEPT ![o].pc = pc]
    <2>1. PICK v : v = [op[o] EXCEPT !.pc = pc]
      OBVIOUS
    <2>2. v \in Op /\ v.rec = op[o].rec /\ op' = [op EXCEPT ![o] = v]
      BY <1>2, <2>1 DEF MissionInv, TypeOK, Op
    <2> QED BY <2>2 DEF MissionInv, TypeOK
  <1> QED BY <1>1, <1>2

LEMMA SetStatusStep ==
    ASSUME MissionInv, NEW o \in Ops, SetStatus(o)
    PROVE  MissionInv'
  <1>1. store \in Record /\ Copy(store, thread, fired)
    BY DEF MissionInv, TypeOK, CopiesOK
  <1>2. /\ store' \in Record /\ store'.history = store.history /\ store'.today = store.today
        /\ store'.last = store.last /\ store'.next = store.next
    BY <1>1 DEF SetStatus, Record
  <1>3. Copy(store', thread', fired')
    BY <1>1, <1>2 DEF Copy, Sound, Behind, SetStatus
  <1>4. /\ op' \in [Ops -> Op]
        /\ \A p \in Ops : op'[p].rec = op[p].rec \/ Copy(op'[p].rec, thread', fired')
    BY OpMoves DEF SetStatus
  <1>5. TypeOK'
    BY <1>2, <1>4 DEF MissionInv, TypeOK, SetStatus
  <1>6. Calm
    BY EvolvesSame DEF Calm, SetStatus
  <1> QED BY <1>3, <1>4, <1>5, <1>6, OtherStep DEF SetStatus

LEMMA UnindexStep ==
    ASSUME MissionInv, NEW o \in Ops, Unindex(o)
    PROVE  MissionInv'
  <1>1. /\ op' \in [Ops -> Op]
        /\ \A p \in Ops : op'[p].rec = op[p].rec \/ Copy(op'[p].rec, thread', fired')
    BY OpMoves DEF Unindex
  <1>2. TypeOK'
    BY <1>1 DEF MissionInv, TypeOK, Unindex
  <1>3. Calm
    BY EvolvesSame DEF Calm, Unindex
  <1> QED BY <1>1, <1>2, <1>3, OtherStep DEF Unindex

LEMMA IndexStep ==
    ASSUME MissionInv, NEW o \in Ops, Index(o)
    PROVE  MissionInv'
  <1>1. /\ op' \in [Ops -> Op]
        /\ \A p \in Ops : op'[p].rec = op[p].rec \/ Copy(op'[p].rec, thread', fired')
    BY OpMoves DEF Index
  <1>2. TypeOK'
    BY <1>1 DEF MissionInv, TypeOK, Index
  <1>3. Calm
    BY EvolvesSame DEF Calm, Index
  <1> QED BY <1>1, <1>2, <1>3, OtherStep DEF Index

LEMMA ForgetStep ==
    ASSUME MissionInv, NEW o \in Ops, Forget(o)
    PROVE  MissionInv'
  <1>1. /\ op' \in [Ops -> Op]
        /\ \A p \in Ops : op'[p].rec = op[p].rec \/ Copy(op'[p].rec, thread', fired')
    BY OpMoves DEF Forget
  <1>2. TypeOK'
    BY <1>1 DEF MissionInv, TypeOK, Forget, Instant, NotFired
  <1>3. Calm
    BY EvolvesSame DEF Calm, Forget
  <1> QED BY <1>1, <1>2, <1>3, OtherStep DEF Forget

LEMMA SaveOpStep ==
    ASSUME MissionInv, NEW o \in Ops, NEW cadence \in BOOLEAN, SaveOp(o, cadence)
    PROVE  MissionInv'
  <1>1. op[o] \in Op /\ op[o].rec \in Record /\ Copy(op[o].rec, thread, fired) /\ TypeOK
    BY DEF MissionInv, TypeOK, CopiesOK, Op
  <1>2. PICK m : m = op[o].rec
    OBVIOUS
  <1> DEFINE resume == op[o].kind = "resume"
  <1>3. NextCronFire \in Nat /\ NextCronFire > now /\ now \in Nat
    BY <1>1, NextFireLater DEF TypeOK, Time
  <1>4. PICK n \in Nat : n = IF resume \/ cadence THEN NextCronFire ELSE m.next
    BY <1>1, <1>2, <1>3 DEF Record
  <1>5. PICK st \in {"Active", "Paused", "Completed"} : st = IF resume THEN "Active" ELSE m.status
    BY <1>1, <1>2 DEF Record
  <1>6. PICK c \in BOOLEAN : c = (m.corrupt /\ ~cadence)
    OBVIOUS
  <1>7. PICK r : r = [m EXCEPT !.status = st, !.next = n, !.corrupt = c]
    OBVIOUS
  <1>8. /\ r \in Record /\ r.history = m.history /\ r.today = m.today
        /\ r.last = m.last /\ r.next = n
    BY <1>1, <1>2, <1>7 DEF Record
  <1>9. SaveMission(r)
    <2>1. r = [op[o].rec EXCEPT !.status = IF resume THEN "Active" ELSE @,
                                !.next = IF resume \/ cadence THEN NextCronFire ELSE @,
                                !.corrupt = @ /\ ~cadence]
      BY <1>1, <1>2, <1>4, <1>5, <1>6, <1>7 DEF Record
    <2> QED BY <2>1 DEF SaveOp
  <1>10. Copy(r, thread, fired)
    <2>1. Behind(r, fired)
      <3>1. CASE n = m.next
        BY <1>1, <1>2, <1>8, <3>1 DEF Copy, Behind
      <3>2. CASE n = NextCronFire
        BY <1>3, <1>8, <3>2 DEF Behind, MissionInv, FiredOK, TypeOK
      <3> QED BY <1>4, <3>1, <3>2
    <2> QED BY <1>1, <1>2, <1>8, <2>1 DEF Copy, Sound
  <1>11. store' \in {store, r} /\ store' \in Record /\ faults' \in 0..MaxFaults
    BY <1>1, <1>8, <1>9, SaveKeeps
  <1>12. op' = [op EXCEPT ![o].pc = "index"] \/ op' = [op EXCEPT ![o] = IdleOp]
    BY DEF SaveOp
  <1>13. /\ op' \in [Ops -> Op]
         /\ \A p \in Ops : op'[p].rec = op[p].rec \/ Copy(op'[p].rec, thread', fired')
    BY <1>12, OpMoves
  <1>14. TypeOK'
    BY <1>11, <1>13 DEF MissionInv, TypeOK, SaveOp
  <1>15. Calm
    BY EvolvesSame DEF Calm, SaveOp
  <1>16. store' = store \/ Copy(store', thread', fired')
    BY <1>10, <1>11 DEF SaveOp
  <1> QED BY <1>13, <1>14, <1>15, <1>16, OtherStep DEF SaveOp

-----------------------------------------------------------------------------
(* Time and restarts.                                                      *)

LEMMA ClockTickStep ==
    ASSUME MissionInv, ClockTick
    PROVE  MissionInv'
  <1>1. now \in Nat /\ now' = now + 1 /\ now' \in Time
    BY DEF MissionInv, TypeOK, Time, ClockTick
  <1>2. fired' = NotFired \/ (fired' = fired /\ (fired.fire # None => ~(now' - born[fired.fire] >= FireCooldown)))
    BY DEF ClockTick
  <1>3. TypeOK'
    <2>1. fired' \in [slot : Nat, fire : Instant]
      BY <1>2 DEF MissionInv, TypeOK, NotFired, Instant
    <2> QED BY <1>1, <2>1 DEF MissionInv, TypeOK, ClockTick
  <1>4. Frame
    BY <1>2, EvolvesSame, FrameSame DEF ClockTick
  <1>5. CopiesOK'
    BY <1>4, CopiesKept DEF MissionInv, ClockTick
  <1>6. Ordered'
    BY <1>1 DEF MissionInv, Ordered, ClockTick, TypeOK, Time
  <1>7. FiredOK'
    <2>1. CASE fired' = NotFired
      BY <2>1 DEF FiredOK, NotFired
    <2>2. CASE fired' = fired /\ fired.fire # None
      <3>1. born[fired.fire] \in Nat
        BY <2>2 DEF MissionInv, TypeOK, Instant, Time
      <3>2. now' - born[fired.fire] < FireCooldown /\ fired.slot <= now'
        BY <1>1, <1>2, <2>2, <3>1 DEF MissionInv, FiredOK, NotFired, TypeOK
      <3> QED BY <2>2, <3>2 DEF MissionInv, FiredOK, ClockTick
    <2>3. CASE fired' = fired /\ fired.fire = None
      BY <2>3 DEF FiredOK
    <2> QED BY <1>2, <2>1, <2>2, <2>3
  <1>8. TickerOK'
    <2>1. task[Ticker].at \in Nat /\ task[Ticker].slot \in Nat /\ task' = task
      BY TickerTask DEF MissionInv, TypeOK, Task, Time, ClockTick
    <2> QED BY <1>1, <1>2, <2>1 DEF MissionInv, TickerOK, NotFired
  <1> QED BY <1>3, <1>5, <1>6, <1>7, <1>8 DEF MissionInv

LEMMA RestartStep ==
    ASSUME MissionInv, Restart
    PROVE  MissionInv'
  <1>1. \A t \in Threads : /\ thread'[t] \in {"unborn", "running", "ended"}
                           /\ thread'[t] = "unborn" <=> thread[t] = "unborn"
                           /\ thread'[t] # "running"
    BY DEF MissionInv, TypeOK, Restart
  <1>2. Calm
    BY <1>1 DEF Calm, Evolves, Restart
  <1>3. TypeOK'
    <2>1. thread' \in [Threads -> {"unborn", "running", "ended"}]
      BY <1>1 DEF Restart
    <2>2. /\ task' \in [Tasks -> Task] /\ op' \in [Ops -> Op] /\ watch' \in [Threads -> Watch]
      BY TickerTask DEF Restart
    <2>3. fired' \in [slot : Nat, fire : Instant] /\ attempt' \in Instant
      BY DEF Restart, NotFired, Instant
    <2>4. crashes' \in 0..MaxCrashes
      BY DEF MissionInv, TypeOK, Restart
    <2>5. indexed' \in BOOLEAN /\ quiet' \in BOOLEAN
      BY Zenon DEF Restart
    <2> QED BY <2>1, <2>2, <2>3, <2>4, <2>5 DEF MissionInv, TypeOK, Restart
  <1>4. \A k \in Tasks : TaskOK(k)'
    BY EmptyTask, TickerTask DEF Restart, IdleTask
  <1>5. /\ \A o \in Ops : Copy(op'[o].rec, thread', fired')
        /\ \A t \in Threads : Copy(watch'[t].rec, thread', fired')
    BY TickerTask, FirstCopy DEF Restart
  <1>6. CopiesOK'
    BY <1>2, <1>4, <1>5, CalmKeeps, CopiesKept DEF MissionInv, Restart
  <1>7. FiredOK'
    BY DEF FiredOK, Restart, NotFired
  <1>8. TickerOK'
    <2>1. task'[Ticker] = IdleTask /\ now' = now /\ now \in Nat
      BY TickerTask DEF Restart, MissionInv, TypeOK, Time
    <2> QED BY <2>1 DEF TickerOK, IdleTask, Chosen
  <1> QED BY <1>2, <1>3, <1>6, <1>7, <1>8, CalmKeeps DEF MissionInv

-----------------------------------------------------------------------------
(* The invariant and the theorems.                                         *)

LEMMA MissionInit ==
    ASSUME Init
    PROVE  MissionInv
  <1>1. PICK c \in BOOLEAN : store = [FirstRecord EXCEPT !.corrupt = c]
    BY DEF Init
  <1>2. /\ store \in Record /\ store.history = {} /\ store.today = 0 /\ store.last = None
    BY <1>1, FirstCopy DEF FirstRecord, Record
  <1>3. TypeOK
    <2>1. 0 \in Time /\ None \in Instant /\ NotFired \in [slot : Nat, fire : Instant]
      BY DEF Time, Instant, NotFired
    <2>2. /\ task \in [Tasks -> Task] /\ op \in [Ops -> Op] /\ watch \in [Threads -> Watch]
      BY TickerTask DEF Init
    <2>3. /\ thread \in [Threads -> {"unborn", "running", "ended"}] /\ born \in [Threads -> Time]
      BY <2>1 DEF Init
    <2>4. indexed \in BOOLEAN /\ quiet \in BOOLEAN
      BY Zenon DEF Init
    <2> QED BY <1>2, <2>1, <2>2, <2>3, <2>4 DEF Init, TypeOK
  <1>4. Copy(store, thread, fired)
    <2>1. Cardinality({}) = 0 /\ Running({}, thread) = {}
      BY FS_EmptySet DEF Running
    <2> QED BY <1>2, <2>1 DEF Copy, Sound, Behind
  <1>5. \A k \in Tasks : TaskOK(k)
    <2>1. IdleTask.pc = "idle" /\ Copy(IdleTask.rec, thread, fired)
      BY TickerTask, FirstCopy DEF IdleTask
    <2> QED BY <2>1 DEF Init, TaskOK
  <1>6. CopiesOK
    BY <1>4, <1>5, TickerTask, FirstCopy DEF Init, CopiesOK
  <1>7. Ordered /\ FiredOK
    BY DEF Init, Ordered, FiredOK, NotFired
  <1>8. TickerOK
    BY TickerTask DEF Init, TickerOK, IdleTask, Chosen
  <1> QED BY <1>3, <1>6, <1>7, <1>8 DEF MissionInv

LEMMA MissionNext ==
    ASSUME MissionInv, [Next]_vars
    PROVE  MissionInv'
  <1>1. CASE Tick
    BY <1>1, TickStep
  <1>2. CASE TickDue
    BY <1>2, TickDueStep
  <1>3. ASSUME NEW k \in Tasks, FireManually(k) \/ Fire(k)
        PROVE  MissionInv'
    <2>1. CASE FireManually(k)
      BY <2>1, FireManuallyStep
    <2>2. CASE Load(k)
      BY <2>2, LoadStep
    <2>3. CASE Reset(k)
      BY <2>3, ResetStep
    <2>4. CASE Guard(k)
      BY <2>4, GuardStep
    <2>5. CASE NotSpawned(k)
      BY <2>5, NotSpawnedStep
    <2>6. CASE \E t \in Threads : Spawn(k, t)
      BY <2>6, SpawnStep
    <2>7. CASE Arm(k)
      BY <2>7, ArmStep
    <2>8. CASE Save(k)
      BY <2>8, SaveStep
    <2> QED BY <1>3, <2>1, <2>2, <2>3, <2>4, <2>5, <2>6, <2>7, <2>8 DEF Fire
  <1>4. ASSUME NEW t \in Threads, ThreadEnds(t) \/ Watcher(t)
        PROVE  MissionInv'
    <2>1. CASE ThreadEnds(t)
      BY <2>1, ThreadEndsStep
    <2>2. CASE WatchSave(t)
      BY <2>2, WatchSaveStep
    <2>3. CASE \E achieved \in BOOLEAN : WatchLoad(t, achieved)
      BY <2>3, WatchLoadStep
    <2> QED BY <1>4, <2>1, <2>2, <2>3 DEF Watcher
  <1>5. ASSUME NEW o \in Ops, Operate(o)
        PROVE  MissionInv'
    <2>1. CASE \E kind \in {"pause", "resume", "complete", "update"} : OpLoad(o, kind)
      BY <2>1, OpLoadStep
    <2>2. CASE SetStatus(o)
      BY <2>2, SetStatusStep
    <2>3. CASE Unindex(o)
      BY <2>3, UnindexStep
    <2>4. CASE Forget(o)
      BY <2>4, ForgetStep
    <2>5. CASE Index(o)
      BY <2>5, IndexStep
    <2>6. CASE \E cadence \in BOOLEAN : SaveOp(o, cadence)
      BY <2>6, SaveOpStep
    <2> QED BY <1>5, <2>1, <2>2, <2>3, <2>4, <2>5, <2>6 DEF Operate
  <1>6. CASE ClockTick
    BY <1>6, ClockTickStep
  <1>7. CASE Restart
    BY <1>7, RestartStep
  <1>8. CASE UNCHANGED vars
    <2>1. UNCHANGED <<now, store, indexed, attempt, thread, born, task, ticked, op, watch,
                      faults, crashes, requests, fired, quiet>>
      BY <1>8 DEF vars
    <2>2. TypeOK'
      BY <2>1 DEF MissionInv, TypeOK
    <2>3. Calm
      BY <2>1, EvolvesSame DEF Calm
    <2> QED BY <2>1, <2>2, <2>3, OtherStep
  <1> QED BY <1>1, <1>2, <1>3, <1>4, <1>5, <1>6, <1>7, <1>8 DEF Next

LEMMA MissionAlways == Spec => []MissionInv
  BY MissionInit, MissionNext, PTL DEF Spec

\* Whatever the writers of a mission overwrite, its record and every copy of it
\* keep their types, and the instants they name are those of threads.
THEOREM MissionTypeCorrect == Spec => []TypeOK
  <1>1. MissionInv => TypeOK
    BY DEF MissionInv
  <1> QED BY <1>1, MissionAlways, PTL

\* For any number of tasks, threads, failing saves and restarts: no copy of the
\* record counts more fires of the day than it lists threads, although
\* fire_mission and the outcome watcher both record a fire.
THEOREM MissionCountsOnce == Spec => []CountsOnce
  <1>1. MissionInv => CountsOnce
    BY DEF MissionInv, CopiesOK, TaskOK, Copy, Sound, CountsOnce, Copies
  <1> QED BY <1>1, MissionAlways, PTL

\* No copy of the record lists more running threads than max_concurrent, though
\* the check of fire_mission and the save of what it spawned are awaits apart.
THEOREM MissionListedRunningBounded == Spec => []ListedRunningBounded
  <1>1. MissionInv => ListedRunningBounded
    <2> SUFFICES ASSUME MissionInv, MaxConcurrent > 0, NEW m \in Copies
                 PROVE  Cardinality(RunningThreads(m)) <= MaxConcurrent
      BY DEF ListedRunningBounded
    <2>1. Sound(m, thread)
      BY DEF MissionInv, CopiesOK, TaskOK, Copy, Copies
    <2> QED BY <2>1 DEF Sound, Running, RunningThreads
  <1> QED BY <1>1, MissionAlways, PTL

\* The ticker fires no slot of the schedule again while last_fire_attempt is to
\* suppress it, whatever saves failed and whichever stale copy was saved last.
THEOREM MissionNoRefire == Spec => NoRefire
  <1>1. MissionInv => (Spawns(Ticker) => fired.fire = None \/ fired.slot # task[Ticker].slot)
    BY DEF MissionInv, TickerOK, Chosen, Spawns
  <1> QED BY <1>1, MissionAlways, PTL DEF NoRefire

-----------------------------------------------------------------------------
(* Pausing.                                                                *)

\* The index has the mission only if a resume or a restart has put it back, so
\* no tick that starts while it is to be quiet looks at it.
QuietOK ==
    /\ quiet => ~indexed /\ \A o \in Ops : op[o].kind # "resume"
    /\ task[Ticker].quiet = FALSE

LEMMA TaskQuiet ==
    ASSUME TypeOK, NEW k \in Tasks, FireManually(k) \/ Fire(k), QuietOK
    PROVE  QuietOK'
  <1>1. UNCHANGED <<quiet, indexed, op>>
    BY DEF FireManually, Fire, Load, Reset, Guard, NotSpawned, Spawn, Arm, Save
  <1>2. task'[Ticker].quiet \in {task[Ticker].quiet, FALSE}
    <2>1. Ticker \in Tasks /\ task \in [Tasks -> Task] /\ task[k] \in Task /\ IdleTask.quiet = FALSE
      BY TickerTask DEF TypeOK, IdleTask
    <2>2. CASE FireManually(k)
      BY <2>1, <2>2 DEF FireManually, Task
    <2>3. CASE Load(k)
      BY <2>1, <2>3 DEF Load, Task
    <2>4. CASE Reset(k)
      BY <2>1, <2>4 DEF Reset, Task
    <2>5. CASE Guard(k)
      BY <2>1, <2>5 DEF Guard, Task
    <2>6. CASE NotSpawned(k)
      BY <2>1, <2>6 DEF NotSpawned, Task
    <2>7. CASE \E t \in Threads : Spawn(k, t)
      BY <2>1, <2>7 DEF Spawn, Task, IdleTask
    <2>8. CASE Arm(k)
      BY <2>1, <2>8 DEF Arm, Task
    <2>9. CASE Save(k)
      BY <2>1, <2>9 DEF Save, Task
    <2> QED BY <2>2, <2>3, <2>4, <2>5, <2>6, <2>7, <2>8, <2>9 DEF Fire
  <1> QED BY <1>1, <1>2 DEF QuietOK

LEMMA OpQuiet ==
    ASSUME TypeOK, NEW o \in Ops, Operate(o), QuietOK
    PROVE  QuietOK'
  <1>1. task' = task
    BY DEF Operate, OpLoad, SetStatus, Unindex, Forget, Index, SaveOp
  <1>2. CASE \E kind \in {"pause", "resume", "complete", "update"} : OpLoad(o, kind)
    <2>1. PICK kind \in {"pause", "resume", "complete", "update"} : OpLoad(o, kind)
      BY <1>2
    <2>2. CASE kind = "resume"
      BY <1>1, <2>1, <2>2 DEF OpLoad, QuietOK
    <2>3. CASE kind # "resume"
      <3>1. \A p \in Ops : op'[p].kind \in {op[p].kind, kind}
        BY <2>1 DEF OpLoad, TypeOK
      <3>2. indexed' = indexed /\ (quiet' => quiet)
        BY <2>1 DEF OpLoad
      <3> QED BY <1>1, <2>3, <3>1, <3>2 DEF QuietOK
    <2> QED BY <2>2, <2>3
  <1>3. CASE Unindex(o)
    <2>1. \A p \in Ops : op'[p].kind = op[p].kind
      BY <1>3 DEF Unindex, TypeOK, Op
    <2> QED BY <1>1, <1>3, <2>1 DEF Unindex, QuietOK
  <1>4. CASE Index(o)
    <2>1. op[o].kind = "resume" /\ quiet' = quiet
      BY <1>4 DEF Index
    <2> QED BY <1>1, <2>1 DEF QuietOK
  <1>5. CASE SetStatus(o) \/ Forget(o) \/ \E cadence \in BOOLEAN : SaveOp(o, cadence)
    <2>1. quiet' = quiet /\ indexed' = indexed
      BY <1>5 DEF SetStatus, Forget, SaveOp
    <2>2. op \in [Ops -> Op] /\ op[o] \in Op /\ IdleOp.kind = "idle"
      BY DEF TypeOK, IdleOp
    <2>3. \A p \in Ops : op'[p].kind \in {op[p].kind, "idle"}
      <3>1. CASE SetStatus(o)
        BY <2>2, <3>1 DEF SetStatus, Op
      <3>2. CASE Forget(o)
        BY <2>2, <3>2 DEF Forget
      <3>3. CASE \E cadence \in BOOLEAN : SaveOp(o, cadence)
        BY <2>2, <3>3 DEF SaveOp, Op
      <3> QED BY <1>5, <3>1, <3>2, <3>3
    <2> QED BY <1>1, <2>1, <2>3 DEF QuietOK
  <1> QED BY <1>2, <1>3, <1>4, <1>5 DEF Operate

LEMMA QuietNext ==
    ASSUME TypeOK, QuietOK, [Next]_vars
    PROVE  QuietOK'
  <1>1. CASE Tick
    <2>1. UNCHANGED <<quiet, indexed, op>>
      BY <1>1 DEF Tick
    <2>2. CASE indexed
      <3>1. quiet = FALSE
        BY <2>2 DEF QuietOK, TypeOK
      <3>2. task'[Ticker].quiet = quiet
        BY <1>1, <2>2, TickerTask DEF Tick, TypeOK, IdleTask
      <3> QED BY <2>1, <3>1, <3>2 DEF QuietOK
    <2>3. CASE ~indexed
      BY <1>1, <2>1, <2>3 DEF Tick, QuietOK
    <2> QED BY <2>2, <2>3
  <1>2. CASE TickDue
    <2>1. UNCHANGED <<quiet, indexed, op>>
      BY <1>2 DEF TickDue
    <2>2. task'[Ticker].quiet \in {task[Ticker].quiet, FALSE}
      BY <1>2, TickerTask DEF TickDue, TypeOK, IdleTask, Task
    <2> QED BY <2>1, <2>2 DEF QuietOK
  <1>3. CASE \E k \in Tasks : FireManually(k) \/ Fire(k)
    BY <1>3, TaskQuiet
  <1>4. CASE \E t \in Threads : ThreadEnds(t) \/ Watcher(t)
    BY <1>4 DEF ThreadEnds, Watcher, WatchSave, WatchLoad, QuietOK
  <1>5. CASE \E o \in Ops : Operate(o)
    BY <1>5, OpQuiet
  <1>6. CASE ClockTick
    BY <1>6 DEF ClockTick, QuietOK
  <1>7. CASE Restart
    BY <1>7, TickerTask DEF Restart, QuietOK, IdleTask
  <1>8. CASE UNCHANGED vars
    BY <1>8 DEF vars, QuietOK
  <1> QED BY <1>1, <1>2, <1>3, <1>4, <1>5, <1>6, <1>7, <1>8 DEF Next

\* Whatever stale copy makes a mission Active again: a tick that starts after
\* pause or complete has taken it out of the index spawns nothing until a
\* resume or a restart, for any number of overlapping requests.
THEOREM MissionPausedIsNotTicked == Spec => PausedIsNotTicked
  <1>1. Init => QuietOK
    BY TickerTask DEF Init, QuietOK, IdleTask
  <1>2. TypeOK /\ QuietOK /\ [Next]_vars => QuietOK'
    BY QuietNext
  <1>3. QuietOK => (Spawns(Ticker) => ~task[Ticker].quiet)
    BY DEF QuietOK
  <1> QED BY <1>1, <1>2, <1>3, MissionTypeCorrect, PTL DEF Spec, PausedIsNotTicked
=============================================================================

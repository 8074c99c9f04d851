---------------------------- MODULE EngineProofs ----------------------------
(***************************************************************************)
(* Proofs about the thread manager and about the bridge that drives it,    *)
(* for any sets of threads, loops, gates and callers and any capacity of   *)
(* the signal channels.                                                    *)
(*                                                                         *)
(* The thread manager.  ManagerInv adds to the types what the private      *)
(* records of the loops and of the operations look like when they are      *)
(* written to the store.  No checkpoint ever gets there, so recovery       *)
(* suspends no thread and no resumption meets a Suspended one.             *)
(*                                                                         *)
(* The bridge.  EngineInv relates where the agent's handler stands, which  *)
(* manager operation it is inside, the loop that operation started or took *)
(* over, the published outcome and the record of the handler's thread.     *)
(* The missions act beside it, on threads of their own.  Kept says who     *)
(* tends a record that is not settled, and FastInv adds what holds as long *)
(* as no turn outlives the poll.                                           *)
(***************************************************************************)
EXTENDS GateRouter, SequenceTheorems, FiniteSetTheorems, TLAPS

\* A loop carries a checkpoint only where its next step is no save as it is.
Carries == {"check", "work", "wrapup"}
Busy == {"begin", "check", "work", "wrapup", "final", "report", "remove"}

\* The state a loop begins with, and the states it ends in.
Startable == {"Created", "Waiting"}
Over == {"Completed", "Waiting", "Failed", "Done"}

\* What a loop has learnt of its turn fits the record it is about to write.
RecordFits(p, r, out) ==
    /\ p \notin Carries => ~r.ckpt
    /\ p = "begin" => r.state \in Startable
    /\ p \in {"check", "work"} => r.state = "Running"
    /\ p \in {"wrapup", "final", "report"} =>
          /\ r.state \in Over /\ out # None
          /\ out = "GatePaused" => r.state = "Waiting"
          /\ out = "Completed" => r.state \in {"Completed", "Done"}
    /\ p = "report" => r.state # "Completed"

LoopOK(l) ==
    /\ Len(l.inbox) <= SignalCap
    /\ l.pc \in Busy => l.thread \in Threads
    /\ RecordFits(l.pc, l.rec, l.outcome)

\* An operation never carries a checkpoint.
OpOK(o) ==
    /\ o.pc \notin {"idle", "returned"} => o.thread \in Threads
    /\ o.pc \in {"register", "sending", "awaiting", "clear"} => o.loop \in Loops
    /\ o.pc \in {"save", "start"} => o.rec.state \in Startable
    /\ ~o.rec.ckpt

\* What is stored has none, and so nothing is ever Suspended.
Plain(r) == ~r.ckpt /\ r.state # "Suspended"

LoopsInv == loop \in [Loops -> LoopTask] /\ \A h \in Loops : LoopOK(loop[h])
OpsInv == op \in [Callers -> Operation] /\ \A c \in Callers : OpOK(op[c])
StoreInv ==
    /\ store \in [Threads -> Record \cup {None}]
    /\ \A t \in Threads : store[t] # None => Plain(store[t])
MapsInv ==
    /\ running \in [Threads -> Loops \cup {None}]
    /\ completed \in [Threads -> Outcome \cup {None}]

ManagerInv == LoopsInv /\ OpsInv /\ StoreInv /\ MapsInv

-----------------------------------------------------------------------------
(* The records the steps build.                                            *)

LEMMA NewRecordType ==
    NewRecord \in Record /\ ~NewRecord.ckpt /\ NewRecord.state = "Created" /\ Plain(NewRecord)
BY DEF NewRecord, Record, ThreadState, Plain

LEMMA IdleOpType == IdleOp \in Operation /\ OpOK(IdleOp)
<1>1. IdleOp \in Operation
  BY NewRecordType DEF IdleOp, Operation, OpPC, Signal
<1>2. OpOK(IdleOp)
  BY NewRecordType DEF IdleOp, OpOK
<1>. QED BY <1>1, <1>2

LEMMA VacantLoopType == VacantLoop \in LoopTask /\ LoopOK(VacantLoop)
<1>1. VacantLoop \in LoopTask
  BY NewRecordType DEF VacantLoop, LoopTask, LoopPC
<1>2. LoopOK(VacantLoop)
  BY NewRecordType, SignalCapAssumption DEF VacantLoop, LoopOK, RecordFits, Busy
<1>. QED BY <1>1, <1>2

\* One operation, one loop or one stored record changes to a good one.
LEMMA OpChange ==
    ASSUME OpsInv, NEW c \in Callers, NEW o \in Operation, OpOK(o),
           op' = [op EXCEPT ![c] = o]
    PROVE  OpsInv'
BY DEF OpsInv

LEMMA LoopChange ==
    ASSUME LoopsInv, NEW h \in Loops, NEW l \in LoopTask, LoopOK(l),
           loop' = [loop EXCEPT ![h] = l]
    PROVE  LoopsInv'
BY DEF LoopsInv

LEMMA StoreChange ==
    ASSUME StoreInv, NEW t \in Threads, NEW r \in Record, Plain(r),
           store' = [store EXCEPT ![t] = r]
    PROVE  StoreInv'
BY DEF StoreInv

LEMMA KeepOps == ASSUME OpsInv, UNCHANGED op PROVE OpsInv'
BY DEF OpsInv
LEMMA KeepLoops == ASSUME LoopsInv, UNCHANGED loop PROVE LoopsInv'
BY DEF LoopsInv
LEMMA KeepStore == ASSUME StoreInv, UNCHANGED store PROVE StoreInv'
BY DEF StoreInv
LEMMA KeepMaps == ASSUME MapsInv, UNCHANGED <<running, completed>> PROVE MapsInv'
BY DEF MapsInv

\* What Return and Step do to the caller's operation.
LEMMA ReturnKeeps ==
    ASSUME OpsInv, NEW c \in Callers, NEW r \in Result \cup {None}, Return(c, r)
    PROVE  OpsInv'
<1>. DEFINE o == [IdleOp EXCEPT !.pc = "returned", !.thread = op[c].thread,
                                !.result = r]
<1>1. op[c].thread \in Threads \cup {None}
  BY DEF OpsInv, Operation
<1>2. o \in Operation
  BY <1>1, IdleOpType DEF Operation, OpPC
<1>3. o.pc = "returned" /\ o.rec = IdleOp.rec
  BY IdleOpType DEF Operation
<1>4. OpOK(o)
  BY <1>3, IdleOpType DEF OpOK
<1>. QED BY <1>2, <1>4, OpChange DEF Return

LEMMA StepKeeps ==
    ASSUME OpsInv, NEW c \in Callers, NEW p \in OpPC, Step(c, p),
           op[c].pc \notin {"idle", "returned"},
           p \in {"register", "sending", "awaiting", "clear"} => op[c].loop \in Loops,
           p \in {"save", "start"} => op[c].rec.state \in Startable
    PROVE  OpsInv'
<1>. DEFINE o == [op[c] EXCEPT !.pc = p]
<1>1. op[c] \in Operation /\ OpOK(op[c])
  BY DEF OpsInv
<1>2. o \in Operation
  BY <1>1 DEF Operation
<1>3. o.pc = p /\ o.rec = op[c].rec /\ o.loop = op[c].loop /\ o.thread = op[c].thread
  BY <1>1 DEF Operation
<1>4. OpOK(o)
  BY <1>1, <1>3 DEF OpOK
<1>. QED BY <1>2, <1>4, OpChange DEF Step

\* What a loop's step does to its task.
LEMMA LoopKeeps ==
    ASSUME LoopsInv, NEW h \in Loops, NEW p \in Busy, NEW r \in Record,
           NEW out \in Outcome \cup {None}, NEW q \in Seq(Signal),
           loop[h].pc \in Busy, Len(q) <= SignalCap, RecordFits(p, r, out),
           Loop(h, p, r, out, q)
    PROVE  LoopsInv'
<1>. DEFINE l == [loop[h] EXCEPT !.pc = p, !.rec = r, !.outcome = out, !.inbox = q]
<1>1. loop[h] \in LoopTask /\ LoopOK(loop[h])
  BY DEF LoopsInv
<1>2. l \in LoopTask
  BY <1>1 DEF LoopTask, Busy, LoopPC
<1>3. l.pc = p /\ l.rec = r /\ l.outcome = out /\ l.inbox = q /\ l.thread = loop[h].thread
  BY <1>1 DEF LoopTask
<1>4. LoopOK(l)
  BY <1>1, <1>3 DEF LoopOK
<1>. QED BY <1>2, <1>4, LoopChange DEF Loop

-----------------------------------------------------------------------------
(* Every step keeps the invariant: the manager's operations.               *)

LEMMA EnterKeeps ==
    ASSUME ManagerInv, NEW c \in Callers, NEW p \in Operations, NEW t \in Threads,
           Enter(c, p, t)
    PROVE  ManagerInv'
<1>. DEFINE o == [IdleOp EXCEPT !.pc = p, !.thread = t]
<1>1. o \in Operation
  BY IdleOpType DEF Operation, OpPC, Operations
<1>2. o.pc = p /\ o.thread = t /\ o.rec = IdleOp.rec
  BY IdleOpType DEF Operation
<1>3. OpOK(o)
  BY <1>2, IdleOpType DEF OpOK, Operations
<1>4. OpsInv'
  BY <1>1, <1>3, OpChange DEF Enter, ManagerInv
<1>. QED BY <1>4, KeepLoops, KeepStore, KeepMaps DEF Enter, ManagerInv

LEMMA LeaveKeeps ==
    ASSUME ManagerInv, NEW c \in Callers, Leave(c)
    PROVE  ManagerInv'
<1>1. OpsInv'
  BY IdleOpType, OpChange DEF Leave, ManagerInv
<1>. QED BY <1>1, KeepLoops, KeepStore, KeepMaps DEF Leave, ManagerInv

LEMMA SpawnKeeps ==
    ASSUME ManagerInv, NEW c \in Callers, Spawn(c)
    PROVE  ManagerInv'
<1>. DEFINE o == [op[c] EXCEPT !.pc = "start", !.rec = NewRecord]
<1>1. op[c] \in Operation /\ OpOK(op[c]) /\ op[c].pc = "spawn"
  BY DEF ManagerInv, OpsInv, Spawn
<1>2. o \in Operation
  BY <1>1, NewRecordType DEF Operation, OpPC
<1>3. o.pc = "start" /\ o.thread = op[c].thread /\ o.rec = NewRecord
  BY <1>1 DEF Operation
<1>4. op[c].thread \in Threads
  BY <1>1 DEF OpOK
<1>5. OpOK(o)
  BY <1>3, <1>4, NewRecordType DEF OpOK, Startable
<1>6. OpsInv'
  BY <1>2, <1>5, OpChange DEF Spawn, ManagerInv
<1>7. StoreInv'
  BY <1>4, NewRecordType, StoreChange DEF Spawn, ManagerInv
<1>. QED BY <1>6, <1>7, KeepLoops, KeepMaps DEF Spawn, ManagerInv

LEMMA ResumeCheckKeeps ==
    ASSUME ManagerInv, NEW c \in Callers, ResumeCheck(c)
    PROVE  ManagerInv'
<1>1. OpsInv'
  BY ReturnKeeps, StepKeeps DEF ResumeCheck, ManagerInv, Result, OpPC
<1>. QED BY <1>1, KeepLoops, KeepStore, KeepMaps DEF ResumeCheck, ManagerInv

\* resume_thread never takes a checkpoint over from the store.
LEMMA ResumedType ==
    ASSUME NEW r \in Record, Plain(r), r.state \in {"Waiting", "Suspended"}
    PROVE  /\ Resumed(r) \in Record /\ ~Resumed(r).ckpt
           /\ Resumed(r).state \in Startable
BY DEF Resumed, Record, Plain, Startable

LEMMA ResumeLoadKeeps ==
    ASSUME ManagerInv, NEW c \in Callers, ResumeLoad(c)
    PROVE  ManagerInv'
<1>. DEFINE r == store[op[c].thread]
            o == [op[c] EXCEPT !.pc = "save", !.rec = Resumed(r)]
<1>1. op[c] \in Operation /\ OpOK(op[c]) /\ op[c].pc = "load"
  BY DEF ManagerInv, OpsInv, ResumeLoad
<1>2. op[c].thread \in Threads
  BY <1>1 DEF OpOK
<1>3. CASE r = None
  BY <1>3, ReturnKeeps, KeepLoops, KeepStore, KeepMaps DEF ResumeLoad, ManagerInv, Result
<1>4. CASE r # None /\ r.state \notin {"Waiting", "Suspended"}
  BY <1>4, ReturnKeeps, KeepLoops, KeepStore, KeepMaps DEF ResumeLoad, ManagerInv, Result
<1>5. CASE r # None /\ r.state \in {"Waiting", "Suspended"}
  <2>1. r \in Record /\ Plain(r)
    BY <1>2, <1>5 DEF ManagerInv, StoreInv
  <2>2. o \in Operation
    BY <1>1, <1>5, <2>1, ResumedType DEF Operation, OpPC
  <2>3. o.pc = "save" /\ o.thread = op[c].thread /\ o.rec = Resumed(r)
    BY <1>1 DEF Operation
  <2>4. OpOK(o)
    BY <1>2, <1>5, <2>1, <2>3, ResumedType DEF OpOK
  <2>5. OpsInv'
    BY <1>5, <2>2, <2>4, OpChange DEF ResumeLoad, ManagerInv
  <2>. QED BY <2>5, KeepLoops, KeepStore, KeepMaps DEF ResumeLoad, ManagerInv
<1>. QED BY <1>3, <1>4, <1>5

LEMMA ResumeSaveKeeps ==
    ASSUME ManagerInv, NEW c \in Callers, ResumeSave(c)
    PROVE  ManagerInv'
<1>1. op[c] \in Operation /\ OpOK(op[c]) /\ op[c].pc = "save"
  BY DEF ManagerInv, OpsInv, ResumeSave
<1>2. /\ op[c].thread \in Threads /\ op[c].rec \in Record
      /\ op[c].rec.state \in Startable /\ Plain(op[c].rec)
  BY <1>1 DEF OpOK, Operation, Plain, Startable
<1>3. StoreInv'
  BY <1>2, StoreChange DEF ResumeSave, ManagerInv
<1>4. OpsInv'
  BY <1>1, <1>2, StepKeeps DEF ResumeSave, ManagerInv, OpPC
<1>. QED BY <1>3, <1>4, KeepLoops, KeepMaps DEF ResumeSave, ManagerInv

LEMMA StartLoopKeeps ==
    ASSUME ManagerInv, NEW c \in Callers, NEW h \in Loops, StartLoop(c, h)
    PROVE  ManagerInv'
<1>. DEFINE o == [op[c] EXCEPT !.pc = "register", !.loop = h]
            l == [VacantLoop EXCEPT !.pc = "begin", !.thread = op[c].thread,
                                    !.rec = op[c].rec]
<1>1. op[c] \in Operation /\ OpOK(op[c]) /\ op[c].pc = "start"
  BY DEF ManagerInv, OpsInv, StartLoop
<1>2. /\ op[c].thread \in Threads /\ op[c].rec \in Record
      /\ ~op[c].rec.ckpt /\ op[c].rec.state \in Startable
  BY <1>1 DEF OpOK, Operation
<1>3. l \in LoopTask
  BY <1>2, VacantLoopType DEF LoopTask, LoopPC
<1>4. /\ l.pc = "begin" /\ l.thread = op[c].thread /\ l.rec = op[c].rec
      /\ l.inbox = VacantLoop.inbox
  BY VacantLoopType DEF LoopTask
<1>5. LoopOK(l)
  BY <1>2, <1>4, VacantLoopType DEF LoopOK, RecordFits
<1>6. LoopsInv'
  BY <1>3, <1>5, LoopChange DEF StartLoop, ManagerInv
<1>7. o \in Operation
  BY <1>1 DEF Operation, OpPC
<1>8. /\ o.pc = "register" /\ o.loop = h
      /\ o.thread = op[c].thread /\ o.rec = op[c].rec
  BY <1>1 DEF Operation
<1>9. OpOK(o)
  BY <1>2, <1>8 DEF OpOK
<1>10. OpsInv'
  BY <1>7, <1>9, OpChange DEF StartLoop, ManagerInv
<1>. QED BY <1>6, <1>10, KeepStore, KeepMaps DEF StartLoop, ManagerInv

LEMMA RegisterKeeps ==
    ASSUME ManagerInv, NEW c \in Callers, Register(c)
    PROVE  ManagerInv'
<1>1. op[c].loop \in Loops
  BY DEF ManagerInv, OpsInv, OpOK, Register
<1>2. OpsInv'
  BY ReturnKeeps DEF Register, ManagerInv, Result
<1>3. MapsInv'
  BY <1>1 DEF Register, ManagerInv, MapsInv
<1>. QED BY <1>2, <1>3, KeepLoops, KeepStore DEF Register, ManagerInv

\* A signal joins a channel with room for it, or is lost with the task.
LEMMA DeliverKeeps ==
    ASSUME LoopsInv, NEW h \in Loops, NEW s \in Signal, Accepts(h), Deliver(h, s)
    PROVE  LoopsInv'
<1>. DEFINE q == Append(loop[h].inbox, s)
            l == [loop[h] EXCEPT !.inbox = q]
<1>1. CASE loop[h].pc = "finished"
  BY <1>1, KeepLoops DEF Deliver
<1>2. CASE loop[h].pc # "finished"
  <2>1. loop[h] \in LoopTask /\ LoopOK(loop[h]) /\ loop[h].inbox \in Seq(Signal)
    BY DEF LoopsInv, LoopTask
  <2>2. q \in Seq(Signal) /\ Len(q) = Len(loop[h].inbox) + 1
    BY <2>1
  <2>3. Len(q) <= SignalCap
    BY <1>2, <2>1, <2>2, SignalCapAssumption DEF Accepts
  <2>4. l \in LoopTask
    BY <2>1, <2>2 DEF LoopTask
  <2>5. /\ l.inbox = q /\ l.pc = loop[h].pc /\ l.outcome = loop[h].outcome
        /\ l.thread = loop[h].thread /\ l.rec = loop[h].rec
    BY <2>1 DEF LoopTask
  <2>6. LoopOK(l)
    BY <2>1, <2>3, <2>5 DEF LoopOK
  <2>7. loop' = [loop EXCEPT ![h] = l]
    BY <1>2 DEF Deliver
  <2>. QED BY <2>4, <2>6, <2>7, LoopChange
<1>. QED BY <1>1, <1>2

LEMMA SendKeeps ==
    ASSUME ManagerInv, NEW c \in Callers, Send(c)
    PROVE  ManagerInv'
<1>. DEFINE h == running[op[c].thread]
            s == IF op[c].pc = "stop" THEN "Stop" ELSE "Inject"
            o == [op[c] EXCEPT !.pc = "sending", !.loop = h, !.signal = s]
<1>1. op[c] \in Operation /\ OpOK(op[c]) /\ op[c].pc \in {"stop", "inject"}
  BY DEF ManagerInv, OpsInv, Send
<1>2. op[c].thread \in Threads /\ s \in Signal
  BY <1>1 DEF OpOK, Signal
<1>3. h \in Loops \cup {None}
  BY <1>2 DEF ManagerInv, MapsInv
<1>4. StoreInv' /\ MapsInv'
  BY KeepStore, KeepMaps DEF Send, ManagerInv
<1>5. CASE h = None /\ Return(c, "NotFound") /\ UNCHANGED loop
  BY <1>4, <1>5, ReturnKeeps, KeepLoops DEF ManagerInv, Result
<1>6. CASE h # None /\ Accepts(h) /\ Deliver(h, s) /\ Return(c, "Ok")
  BY <1>2, <1>3, <1>4, <1>6, ReturnKeeps, DeliverKeeps DEF ManagerInv, Result
<1>7. CASE /\ h # None
           /\ op' = [op EXCEPT ![c] = o]
           /\ UNCHANGED loop
  <2>1. h \in Loops
    BY <1>3, <1>7
  <2>2. o \in Operation
    BY <1>1, <1>2, <2>1 DEF Operation, OpPC
  <2>3. /\ o.pc = "sending" /\ o.loop = h
        /\ o.thread = op[c].thread /\ o.rec = op[c].rec
    BY <1>1 DEF Operation
  <2>4. OpOK(o)
    BY <1>1, <1>2, <2>1, <2>3 DEF OpOK
  <2>5. OpsInv'
    BY <1>7, <2>2, <2>4, OpChange DEF ManagerInv
  <2>. QED BY <1>4, <1>7, <2>5, KeepLoops DEF ManagerInv
<1>. QED BY <1>5, <1>6, <1>7 DEF Send

LEMMA SendLateKeeps ==
    ASSUME ManagerInv, NEW c \in Callers, SendLate(c)
    PROVE  ManagerInv'
<1>1. op[c].loop \in Loops /\ op[c].signal \in Signal
  BY DEF ManagerInv, OpsInv, OpOK, Operation, SendLate
<1>2. LoopsInv'
  BY <1>1, DeliverKeeps DEF SendLate, ManagerInv
<1>3. OpsInv'
  BY ReturnKeeps DEF SendLate, ManagerInv, Result
<1>. QED BY <1>2, <1>3, KeepStore, KeepMaps DEF SendLate, ManagerInv

LEMMA JoinKeeps ==
    ASSUME ManagerInv, NEW c \in Callers, Join(c)
    PROVE  ManagerInv'
<1>1. op[c].thread \in Threads
  BY DEF ManagerInv, OpsInv, OpOK, Join
<1>2. completed[op[c].thread] \in Result \cup {None}
  BY <1>1 DEF ManagerInv, MapsInv, Result
<1>3. OpsInv'
  BY <1>2, ReturnKeeps, StepKeeps DEF Join, ManagerInv, OpPC
<1>4. MapsInv'
  BY DEF Join, ManagerInv, MapsInv
<1>. QED BY <1>3, <1>4, KeepLoops, KeepStore DEF Join, ManagerInv

LEMMA JoinTakeKeeps ==
    ASSUME ManagerInv, NEW c \in Callers, JoinTake(c)
    PROVE  ManagerInv'
<1>. DEFINE h == running[op[c].thread]
            o == [op[c] EXCEPT !.pc = "awaiting", !.loop = h]
<1>1. op[c] \in Operation /\ OpOK(op[c]) /\ op[c].pc = "take"
  BY DEF ManagerInv, OpsInv, JoinTake
<1>2. op[c].thread \in Threads
  BY <1>1 DEF OpOK
<1>3. MapsInv'
  BY DEF JoinTake, ManagerInv, MapsInv
<1>4. CASE h = None
  BY <1>3, <1>4, ReturnKeeps, KeepLoops, KeepStore DEF JoinTake, ManagerInv, Result
<1>5. CASE h # None
  <2>1. h \in Loops
    BY <1>2, <1>5 DEF ManagerInv, MapsInv
  <2>2. o \in Operation
    BY <1>1, <2>1 DEF Operation, OpPC
  <2>3. /\ o.pc = "awaiting" /\ o.loop = h
        /\ o.thread = op[c].thread /\ o.rec = op[c].rec
    BY <1>1 DEF Operation
  <2>4. OpOK(o)
    BY <1>1, <1>2, <2>1, <2>3 DEF OpOK
  <2>5. OpsInv'
    BY <1>5, <2>2, <2>4, OpChange DEF JoinTake, ManagerInv
  <2>. QED BY <1>3, <2>5, KeepLoops, KeepStore DEF JoinTake, ManagerInv
<1>. QED BY <1>4, <1>5

LEMMA JoinAwaitKeeps ==
    ASSUME ManagerInv, NEW c \in Callers, JoinAwait(c)
    PROVE  ManagerInv'
<1>1. op[c].loop \in Loops /\ op[c].pc = "awaiting"
  BY DEF ManagerInv, OpsInv, OpOK, JoinAwait
<1>2. OpsInv'
  BY <1>1, StepKeeps DEF JoinAwait, ManagerInv, OpPC
<1>. QED BY <1>2, KeepLoops, KeepStore, KeepMaps DEF JoinAwait, ManagerInv

LEMMA JoinClearKeeps ==
    ASSUME ManagerInv, NEW c \in Callers, JoinClear(c)
    PROVE  ManagerInv'
<1>1. op[c].loop \in Loops
  BY DEF ManagerInv, OpsInv, OpOK, JoinClear
<1>2. loop[op[c].loop].outcome \in Result \cup {None}
  BY <1>1 DEF ManagerInv, LoopsInv, LoopTask, Result
<1>3. OpsInv'
  BY <1>2, ReturnKeeps DEF JoinClear, ManagerInv
<1>4. MapsInv'
  BY DEF JoinClear, ManagerInv, MapsInv
<1>. QED BY <1>3, <1>4, KeepLoops, KeepStore DEF JoinClear, ManagerInv

-----------------------------------------------------------------------------
(* Every step keeps the invariant: the loops.                              *)

\* What a loop at work has at hand.
LEMMA LoopFacts ==
    ASSUME LoopsInv, NEW h \in Loops, loop[h].pc \in Busy
    PROVE  /\ loop[h].thread \in Threads
           /\ loop[h].rec \in Record
           /\ loop[h].outcome \in Outcome \cup {None}
           /\ loop[h].inbox \in Seq(Signal) /\ Len(loop[h].inbox) <= SignalCap
           /\ RecordFits(loop[h].pc, loop[h].rec, loop[h].outcome)
BY DEF LoopsInv, LoopOK, LoopTask

\* A record with a new state, or a new checkpoint flag.
LEMMA RecordChange ==
    ASSUME NEW r \in Record, NEW s \in ThreadState
    PROVE  /\ [r EXCEPT !.state = s] \in Record
           /\ [r EXCEPT !.state = s].ckpt = r.ckpt /\ [r EXCEPT !.state = s].state = s
BY DEF Record

LEMMA CheckpointChange ==
    ASSUME NEW r \in Record, NEW b \in BOOLEAN
    PROVE  /\ [r EXCEPT !.ckpt = b] \in Record
           /\ [r EXCEPT !.ckpt = b].ckpt = b /\ [r EXCEPT !.ckpt = b].state = r.state
BY DEF Record

LEMMA LoopBeginKeeps ==
    ASSUME ManagerInv, NEW h \in Loops, LoopBegin(h)
    PROVE  ManagerInv'
<1>. DEFINE me == loop[h]
            rec == [me.rec EXCEPT !.state = "Running"]
<1>1. LoopsInv /\ me.pc = "begin" /\ me.pc \in Busy /\ me.pc \notin Carries
  BY DEF ManagerInv, LoopBegin, Busy, Carries
<1>2. RecordFits("begin", me.rec, me.outcome)
  BY <1>1, LoopFacts
<1>3. /\ rec \in Record /\ RecordFits("check", rec, None) /\ Plain(rec)
  BY <1>1, <1>2, LoopFacts, RecordChange DEF ThreadState, RecordFits, Plain, Carries
<1>4. CanTransition(me.rec.state, "Running")
  BY <1>2 DEF RecordFits, Startable, CanTransition, Transitions
<1>5. Loop(h, "check", rec, None, me.inbox) /\ SaveRecord(me.thread, rec)
  BY <1>4 DEF LoopBegin
<1>6. LoopsInv'
  BY <1>1, <1>3, <1>5, LoopFacts, LoopKeeps DEF Busy
<1>7. StoreInv'
  BY <1>1, <1>3, <1>5, LoopFacts, StoreChange DEF SaveRecord, ManagerInv
<1>. QED BY <1>6, <1>7, KeepOps, KeepMaps DEF LoopBegin, ManagerInv

LEMMA LoopCheckKeeps ==
    ASSUME ManagerInv, NEW h \in Loops, LoopCheck(h)
    PROVE  ManagerInv'
<1>. DEFINE me == loop[h]
            rec == [me.rec EXCEPT !.state = "Completed"]
<1>1. LoopsInv /\ me.pc = "check" /\ me.pc \in Busy
  BY DEF ManagerInv, LoopCheck, Busy
<1>2. /\ rec \in Record /\ RecordFits("wrapup", rec, "Stopped")
      /\ RecordFits("work", me.rec, None)
  BY <1>1, LoopFacts, RecordChange, NoneAssumption
     DEF ThreadState, RecordFits, Carries, Over, Result, Outcome
<1>3. OpsInv' /\ StoreInv' /\ MapsInv'
  BY KeepOps, KeepStore, KeepMaps DEF LoopCheck, ManagerInv
<1>4. CASE me.inbox = << >>
  <2>1. << >> \in Seq(Signal) /\ Len(<< >>) <= SignalCap
    BY SignalCapAssumption
  <2>2. LoopsInv'
    BY <1>1, <1>2, <1>4, <2>1, LoopFacts, LoopKeeps DEF LoopCheck, Busy
  <2>. QED BY <1>3, <2>2 DEF ManagerInv
<1>5. CASE me.inbox # << >>
  <2>1. me.inbox \in Seq(Signal) /\ Len(me.inbox) <= SignalCap
    BY <1>1, LoopFacts
  <2>2. Tail(me.inbox) \in Seq(Signal) /\ Len(Tail(me.inbox)) = Len(me.inbox) - 1
    BY <1>5, <2>1, HeadTailProperties
  <2>3. Len(Tail(me.inbox)) <= SignalCap
    BY <2>1, <2>2, SignalCapAssumption
  <2>4. CASE Loop(h, "wrapup", rec, "Stopped", Tail(me.inbox))
    BY <1>1, <1>2, <1>3, <2>2, <2>3, <2>4, LoopKeeps DEF ManagerInv, Busy, Outcome
  <2>5. CASE Loop(h, "work", me.rec, None, Tail(me.inbox))
    BY <1>1, <1>2, <1>3, <2>2, <2>3, <2>5, LoopFacts, LoopKeeps DEF ManagerInv, Busy
  <2>. QED BY <1>5, <2>4, <2>5 DEF LoopCheck
<1>. QED BY <1>4, <1>5

LEMMA LoopWorkKeeps ==
    ASSUME ManagerInv, NEW h \in Loops, NEW next \in WorkResult, LoopWork(h, next)
    PROVE  ManagerInv'
<1>. DEFINE me == loop[h]
            To(s) == [me.rec EXCEPT !.state = s]
            paused == [state |-> "Waiting", ckpt |-> TRUE]
<1>1. LoopsInv /\ me.pc = "work" /\ me.pc \in Busy
  BY DEF ManagerInv, LoopWork, Busy
<1>2. OpsInv' /\ StoreInv' /\ MapsInv'
  BY KeepOps, KeepStore, KeepMaps DEF LoopWork, ManagerInv
<1>3. CASE next = "Continue"
  <2>1. /\ [me.rec EXCEPT !.ckpt = TRUE] \in Record
        /\ RecordFits("check", [me.rec EXCEPT !.ckpt = TRUE], None)
    BY <1>1, LoopFacts, CheckpointChange DEF RecordFits, Carries
  <2>2. LoopsInv'
    BY <1>1, <1>3, <2>1, LoopFacts, LoopKeeps DEF LoopWork, Busy
  <2>. QED BY <1>2, <2>2 DEF ManagerInv
<1>4. CASE next = "Completed"
  <2>1. To("Completed") \in Record /\ RecordFits("wrapup", To("Completed"), "Completed")
    BY <1>1, LoopFacts, RecordChange, NoneAssumption
       DEF ThreadState, RecordFits, Carries, Over, Result, Outcome
  <2>2. LoopsInv'
    BY <1>1, <1>4, <2>1, LoopFacts, LoopKeeps DEF LoopWork, Busy, Outcome
  <2>. QED BY <1>2, <2>2 DEF ManagerInv
<1>5. CASE next = "GatePaused"
  <2>1. paused \in Record /\ RecordFits("wrapup", paused, "GatePaused")
    BY NoneAssumption DEF Record, ThreadState, RecordFits, Carries, Over, Result, Outcome
  <2>2. LoopsInv'
    BY <1>1, <1>5, <2>1, LoopFacts, LoopKeeps DEF LoopWork, Busy, Outcome
  <2>. QED BY <1>2, <2>2 DEF ManagerInv
<1>6. CASE next = "Failed"
  <2>1. To("Failed") \in Record /\ RecordFits("wrapup", To("Failed"), "Failed")
    BY <1>1, LoopFacts, RecordChange, NoneAssumption
       DEF ThreadState, RecordFits, Carries, Over, Result, Outcome
  <2>2. LoopsInv'
    BY <1>1, <1>6, <2>1, LoopFacts, LoopKeeps DEF LoopWork, Busy, Outcome
  <2>. QED BY <1>2, <2>2 DEF ManagerInv
<1>. QED BY <1>3, <1>4, <1>5, <1>6 DEF WorkResult

\* The save after the orchestrator: the checkpoint is gone before it.
LEMMA LoopWrapupKeeps ==
    ASSUME ManagerInv, NEW h \in Loops, LoopWrapup(h)
    PROVE  ManagerInv'
<1>. DEFINE me == loop[h]
            rec == [me.rec EXCEPT !.ckpt = FALSE]
<1>1. LoopsInv /\ me.pc = "wrapup" /\ me.pc \in Busy
  BY DEF ManagerInv, LoopWrapup, Busy
<1>2. rec \in Record /\ Plain(rec) /\ RecordFits("final", rec, me.outcome)
  BY <1>1, LoopFacts, CheckpointChange DEF RecordFits, Carries, Over, Plain
<1>3. LoopsInv'
  BY <1>1, <1>2, LoopFacts, LoopKeeps DEF LoopWrapup, Busy
<1>4. StoreInv'
  BY <1>1, <1>2, LoopFacts, StoreChange DEF LoopWrapup, SaveRecord, ManagerInv
<1>. QED BY <1>3, <1>4, KeepOps, KeepMaps DEF LoopWrapup, ManagerInv

LEMMA LoopFinalKeeps ==
    ASSUME ManagerInv, NEW h \in Loops, LoopFinal(h)
    PROVE  ManagerInv'
<1>. DEFINE me == loop[h]
            rec == IF me.rec.state = "Completed"
                   THEN [me.rec EXCEPT !.state = "Done"] ELSE me.rec
<1>1. LoopsInv /\ me.pc = "final" /\ me.pc \in Busy /\ me.pc \notin Carries
  BY DEF ManagerInv, LoopFinal, Busy, Carries
<1>2. rec \in Record /\ Plain(rec) /\ RecordFits("report", rec, me.outcome)
  BY <1>1, LoopFacts, RecordChange DEF ThreadState, RecordFits, Carries, Over, Plain
<1>3. LoopsInv'
  BY <1>1, <1>2, LoopFacts, LoopKeeps DEF LoopFinal, Busy
<1>4. StoreInv'
  BY <1>1, <1>2, LoopFacts, StoreChange DEF LoopFinal, SaveRecord, ManagerInv
<1>. QED BY <1>3, <1>4, KeepOps, KeepMaps DEF LoopFinal, ManagerInv

LEMMA LoopReportKeeps ==
    ASSUME ManagerInv, NEW h \in Loops, LoopReport(h)
    PROVE  ManagerInv'
<1>1. /\ LoopsInv /\ loop[h].pc = "report"
      /\ loop[h].pc \in Busy /\ loop[h].pc \notin Carries
  BY DEF ManagerInv, LoopReport, Busy, Carries
<1>2. RecordFits("remove", loop[h].rec, loop[h].outcome)
  BY <1>1, LoopFacts DEF RecordFits
<1>4. LoopsInv'
  BY <1>1, <1>2, LoopFacts, LoopKeeps DEF LoopReport, Busy
<1>3. MapsInv'
  BY <1>1, LoopFacts DEF LoopReport, ManagerInv, MapsInv
<1>. QED BY <1>3, <1>4, KeepOps, KeepStore DEF LoopReport, ManagerInv

LEMMA LoopRemoveKeeps ==
    ASSUME ManagerInv, NEW h \in Loops, LoopRemove(h)
    PROVE  ManagerInv'
<1>. DEFINE l == [VacantLoop EXCEPT !.pc = "finished", !.outcome = loop[h].outcome]
<1>1. LoopsInv /\ loop[h].pc = "remove" /\ loop[h].pc \in Busy
  BY DEF ManagerInv, LoopRemove, Busy
<1>2. l \in LoopTask
  BY <1>1, LoopFacts, VacantLoopType DEF LoopTask, LoopPC
<1>3. /\ l.pc = "finished" /\ l.rec = VacantLoop.rec
      /\ l.inbox = VacantLoop.inbox /\ l.thread = VacantLoop.thread
  BY VacantLoopType DEF LoopTask
<1>4. LoopOK(l)
  BY <1>3, VacantLoopType DEF LoopOK, RecordFits, Busy, Carries, VacantLoop
<1>5. LoopsInv'
  BY <1>2, <1>4, LoopChange DEF LoopRemove, ManagerInv
<1>6. MapsInv'
  BY DEF LoopRemove, ManagerInv, MapsInv
<1>. QED BY <1>5, <1>6, KeepOps, KeepStore DEF LoopRemove, ManagerInv

-----------------------------------------------------------------------------
(* The theorems.                                                           *)

LEMMA ManagerInitInv == ManagerInit => ManagerInv
<1>1. ManagerInit => LoopsInv
  BY VacantLoopType DEF ManagerInit, LoopsInv
<1>2. ManagerInit => OpsInv
  BY IdleOpType DEF ManagerInit, OpsInv
<1>3. ManagerInit => StoreInv /\ MapsInv
  BY DEF ManagerInit, StoreInv, MapsInv
<1>. QED BY <1>1, <1>2, <1>3 DEF ManagerInv

LEMMA OperationStepKeeps ==
    ASSUME ManagerInv, NEW c \in Callers, OperationStep(c)
    PROVE  ManagerInv'
BY SpawnKeeps, ResumeCheckKeeps, ResumeLoadKeeps, ResumeSaveKeeps, StartLoopKeeps,
   RegisterKeeps, SendKeeps, SendLateKeeps, JoinKeeps, JoinTakeKeeps,
   JoinAwaitKeeps, JoinClearKeeps
   DEF OperationStep

LEMMA LoopStepKeeps ==
    ASSUME ManagerInv, NEW h \in Loops, LoopStep(h)
    PROVE  ManagerInv'
BY LoopBeginKeeps, LoopCheckKeeps, LoopWorkKeeps, LoopWrapupKeeps, LoopFinalKeeps,
   LoopReportKeeps, LoopRemoveKeeps
   DEF LoopStep

LEMMA ManagerNextInv == ManagerInv /\ [ManagerNext]_managerVars => ManagerInv'
<1>. SUFFICES ASSUME ManagerInv, [ManagerNext]_managerVars PROVE ManagerInv'
  OBVIOUS
<1>1. CASE ManagerNext
  BY <1>1, EnterKeeps, LeaveKeeps, OperationStepKeeps, LoopStepKeeps DEF ManagerNext
<1>2. CASE UNCHANGED managerVars
  BY <1>2, KeepOps, KeepLoops, KeepStore, KeepMaps DEF managerVars, ManagerInv
<1>. QED BY <1>1, <1>2

LEMMA ManagerSpecInv == ManagerSpec => []ManagerInv
BY ManagerInitInv, ManagerNextInv, PTL DEF ManagerSpec

\* Whatever callers and loops interleave, the manager's state keeps its types
\* and no loop's channel holds more than its capacity.
THEOREM ManagerTypeCorrect == ManagerSpec => []TypeOK
<1>1. ManagerInv => TypeOK
  BY DEF ManagerInv, LoopsInv, OpsInv, StoreInv, MapsInv, LoopOK, TypeOK
<1>. QED BY <1>1, ManagerSpecInv, PTL

-----------------------------------------------------------------------------
(* The engine bridge: types.                                               *)

Task == [pc : TaskPC, thread : Scopes, scope : Scopes, todo : SUBSET Conversations]

\* A handler that works on a thread knows which, and it is no mission's; the
\* gateway's form names a gate that was posted.
RouterTypes ==
    /\ posted \subseteq Gates /\ pending \subseteq posted
    /\ resolved \subseteq posted
    /\ task \in Task
    /\ conv \in [Scopes -> SUBSET Conversations]
    /\ web \in [pc : WebPC, gate : Gates \cup {None}, keys : SUBSET Threads,
                form : BOOLEAN]
    /\ callbacks \subseteq posted
    /\ phase \in {"recover", "restore", "reconcile", "up"}
    /\ task.pc \notin {"idle", "orphan", "route", "interrupt", "clear"}
          => task.thread \in Conversations
    /\ task.pc = "orphan" => task.thread \in Threads
    /\ web.pc # "idle" => web.gate \in posted

Types == ManagerInv /\ RouterTypes

\* The operation the agent is inside, and those the missions are inside.
Mine == op[Agent]

MissionOp(o) ==
    o.pc # "idle" =>
        /\ o.thread \in MissionThreads
        /\ o.pc \in {"spawn", "start", "register", "join", "take", "awaiting",
                     "clear", "returned"}

Others == \A c \in Callers : c # Agent => MissionOp(op[c])

LEMMA IdleTaskType ==
    IdleTask \in Task /\ IdleTask.pc = "idle" /\ IdleTask.thread = None
BY DEF IdleTask, Task, TaskPC, Scopes

LEMMA IdleWebType ==
    /\ IdleWeb \in [pc : WebPC, gate : Gates \cup {None}, keys : SUBSET Threads,
                    form : BOOLEAN]
    /\ IdleWeb.pc = "idle"
BY DEF IdleWeb, WebPC

\* What the agent's own steps and the steps of its operation do to Mine.
LEMMA MineChange ==
    ASSUME OpsInv, NEW o, op' = [op EXCEPT ![Agent] = o]
    PROVE  Mine' = o /\ (Others => Others')
BY RouterAssumption DEF OpsInv, Mine, Others

LEMMA CallEffect ==
    ASSUME OpsInv, NEW p \in Operations, NEW t \in Threads, Call(p, t)
    PROVE  /\ OpsInv'
           /\ Mine'.pc = p /\ Mine'.thread = t
           /\ Others => Others'
<1>. DEFINE o == [IdleOp EXCEPT !.pc = p, !.thread = t]
<1>1. o \in Operation
  BY IdleOpType DEF Operation, OpPC, Operations
<1>2. o.pc = p /\ o.thread = t /\ o.rec = IdleOp.rec
  BY IdleOpType DEF Operation
<1>3. OpOK(o)
  BY <1>2, IdleOpType DEF OpOK, Operations
<1>4. OpsInv'
  BY <1>1, <1>3, OpChange, RouterAssumption DEF Call
<1>5. Mine' = o /\ (Others => Others')
  BY MineChange DEF Call
<1>. QED BY <1>2, <1>4, <1>5

LEMMA ConsumeEffect ==
    ASSUME OpsInv, Consume
    PROVE  OpsInv' /\ Mine'.pc = "idle" /\ (Others => Others')
<1>1. OpsInv'
  BY IdleOpType, OpChange, RouterAssumption DEF Consume
<1>2. Mine' = IdleOp /\ (Others => Others')
  BY MineChange DEF Consume
<1>. QED BY <1>1, <1>2 DEF IdleOp

LEMMA ReturnEffect ==
    ASSUME OpsInv, NEW r \in Result \cup {None}, Return(Agent, r)
    PROVE  /\ Mine'.pc = "returned" /\ Mine'.result = r
           /\ Mine'.thread = Mine.thread
           /\ Others => Others'
<1>. DEFINE o == [IdleOp EXCEPT !.pc = "returned", !.thread = op[Agent].thread,
                                !.result = r]
<1>1. o.pc = "returned" /\ o.result = r /\ o.thread = Mine.thread
  BY IdleOpType DEF Operation, Mine
<1>2. Mine' = o /\ (Others => Others')
  BY MineChange DEF Return
<1>. QED BY <1>1, <1>2

LEMMA StepEffect ==
    ASSUME OpsInv, NEW p \in OpPC, Step(Agent, p)
    PROVE  /\ Mine'.pc = p /\ Mine'.thread = Mine.thread
           /\ Mine'.rec = Mine.rec /\ Mine'.loop = Mine.loop
           /\ Others => Others'
<1>. DEFINE o == [op[Agent] EXCEPT !.pc = p]
<1>1. Mine \in Operation
  BY RouterAssumption DEF OpsInv, Mine
<1>2. o.pc = p /\ o.thread = Mine.thread /\ o.rec = Mine.rec /\ o.loop = Mine.loop
  BY <1>1 DEF Operation, Mine
<1>3. Mine' = o /\ (Others => Others')
  BY MineChange DEF Step
<1>. QED BY <1>2, <1>3

\* A step of the agent that keeps the manager's maps keeps its types.
LEMMA ManagerKept ==
    ASSUME ManagerInv, OpsInv', UNCHANGED <<store, loop, running, completed>>
    PROVE  ManagerInv'
BY KeepLoops, KeepStore, KeepMaps DEF ManagerInv

LEMMA OpsOf == ManagerInv => OpsInv
BY DEF ManagerInv

LEMMA OpKept == ASSUME OpsInv, UNCHANGED op PROVE OpsInv' /\ Mine' = Mine /\ (Others => Others')
BY KeepOps DEF Mine, Others

-----------------------------------------------------------------------------
(* The engine bridge: the invariant.                                       *)

BusyOn(h, t) == loop[h].pc \in Busy /\ loop[h].thread = t

\* Where the agent's operation stands while its handler waits for it.
Waits == {"resume", "load", "save", "start", "register", "returned"}

Place ==
    /\ Others
    /\ task.pc \in {"idle", "orphan", "fail", "route", "poll", "post", "fallback", "execute"}
          => Mine.pc = "idle"
    /\ task.pc = "routing" => Mine.pc \in Waits \cup {"spawn", "inject", "sending"}
    /\ task.pc = "resuming" => Mine.pc \in Waits
    /\ task.pc = "joining"
          => Mine.pc \in {"join", "take", "awaiting", "clear", "returned"}
    /\ task.pc = "stopping" => Mine.pc \in {"stop", "sending", "returned"}
    /\ task.pc \in {"interrupt", "clear"}
          => Mine.pc \in {"idle", "stop", "sending", "returned"}
    /\ Mine.pc # "idle" => Mine.thread = task.thread /\ task.thread \in Conversations
    /\ task.pc = "orphan" => task.scope = task.thread

AtWork(h) == loop[h].pc \in Busy /\ loop[h].thread \in Conversations

\* Until the engine is up only missions run, and before recovery nothing.
Down ==
    /\ phase # "up" =>
          /\ task.pc = "idle"
          /\ \A h \in Loops : ~AtWork(h)
          /\ \A t \in Conversations : completed[t] = None /\ running[t] = None
    /\ phase = "recover" => \A h \in Loops : loop[h].pc \notin Busy

\* The agent has begun a turn of its thread and not learnt its outcome.
Acting ==
    \/ /\ task.pc \in {"routing", "resuming"}
       /\ Mine.pc = "register" \/ (Mine.pc = "returned" /\ Mine.result = "Ok")
    \/ task.pc = "poll"
    \/ task.pc = "joining" /\ Mine.pc \in {"join", "take", "awaiting"}

\* A loop at work is reached through its thread's entry, or through the
\* operation that is about to store it there or has taken it out.
Held(h) ==
    \/ running[loop[h].thread] = h
    \/ /\ Mine.pc \in {"register", "awaiting"}
       /\ Mine.loop = h /\ Mine.thread = loop[h].thread

\* Until it has published its outcome the agent acts for it.
TurnOK(h) ==
    /\ Held(h)
    /\ store[loop[h].thread] # None
    /\ loop[h].pc # "remove" =>
          /\ Acting /\ task.thread = loop[h].thread
          /\ completed[loop[h].thread] = None
    /\ loop[h].pc = "report" => store[loop[h].thread] = loop[h].rec

Turns == \A h \in Loops : AtWork(h) => TurnOK(h)

\* What the agent's operation relies on.
Dues ==
    /\ Mine.pc \in {"load", "save", "start"} =>
          \A h \in Loops : ~BusyOn(h, Mine.thread)
    /\ Mine.pc \in {"register", "awaiting"} =>
          \A h \in Loops : BusyOn(h, Mine.thread) => h = Mine.loop
    /\ Mine.pc = "spawn" => store[Mine.thread] = None
    /\ Mine.pc = "start" => store[Mine.thread] # None
    /\ Mine.pc \in {"spawn", "resume", "load", "save", "start"} =>
          completed[Mine.thread] = None
    /\ task.pc \in {"post", "fallback", "execute"} => completed[task.thread] = None
    /\ (task.pc = "joining" /\ Mine.pc = "returned" /\ Mine.result \in Outcome)
          => completed[task.thread] = None

\* Threads that have been spawned.
Known ==
    /\ (Acting \/ task.pc \in {"joining", "post", "fallback", "execute"}) =>
          store[task.thread] # None
    /\ Mine.pc = "sending" => store[Mine.thread] # None
    /\ \A t \in Conversations : running[t] # None => store[t] # None
    /\ \A g \in posted : store[KeyOf[g]] # None

\* An outcome nobody has taken belongs to a thread that has come to rest and
\* that nobody can resume through a gate.
Published ==
    \A t \in Conversations :
        completed[t] # None =>
            store[t] # None /\ store[t].state \in Over /\ GatesOf(t) = {}

\* Who begins a turn, and the loop that is in one, has no gate.
Beginning == {"spawn", "resume", "load", "save", "start", "register"}

InTurn(h) == AtWork(h) /\ loop[h].pc # "remove"
TurnsCleared == \A h \in Loops : InTurn(h) => GatesOf(loop[h].thread) = {}

Cleared ==
    /\ OnePerKey(pending)
    /\ task.pc \in {"resuming", "execute", "fail"} => GatesOf(task.thread) = {}
    /\ Mine.pc \in Beginning => GatesOf(Mine.thread) = {}
    /\ TurnsCleared

EngineInv ==
    /\ Types /\ Place /\ Down /\ Turns /\ Dues
    /\ Known /\ Published /\ Cleared

-----------------------------------------------------------------------------
(* The engine bridge: steps of the agent's handler.                        *)

\* A step of the agent between two operations changes neither the loops nor
\* the manager's maps; if it begins no turn it must not lose sight of one.
LEMMA AgentStep ==
    ASSUME EngineInv, phase = "up", UNCHANGED <<store, loop, running, completed, phase>>,
           Mine.pc \in {"idle", "returned"}, OpsInv', RouterTypes',
           Acting => Acting' /\ task'.thread = task.thread
    PROVE  Types' /\ Down' /\ Turns'
<1>1. Types'
  BY ManagerKept DEF EngineInv, Types
<1>2. Down'
  BY DEF Down
<1>3. Turns'
  BY DEF EngineInv, Turns, TurnOK, Held, AtWork
<1>. QED BY <1>1, <1>2, <1>3

\* Gates that leave the board change nothing for the others.
LEMMA FewerGates ==
    ASSUME EngineInv, pending' \subseteq pending, UNCHANGED <<store, completed, loop>>
    PROVE  /\ Published' /\ OnePerKey(pending') /\ TurnsCleared'
           /\ \A t \in Threads : GatesOf(t) = {} => GatesOf(t)' = {}
<1>1. Published' /\ OnePerKey(pending')
  BY DEF EngineInv, Published, Cleared, OnePerKey, GatesOf
<1>2. TurnsCleared'
  BY DEF EngineInv, Cleared, TurnsCleared, InTurn, AtWork, GatesOf
<1>3. \A t \in Threads : GatesOf(t) = {} => GatesOf(t)' = {}
  BY DEF GatesOf
<1>. QED BY <1>1, <1>2, <1>3

LEMMA ConversationsAreThreads == Conversations \subseteq Threads
BY DEF Conversations

LEMMA NoGatesOf ==
    ASSUME EngineInv, NEW g \in pending
    PROVE  \A k \in pending \ {g} : KeyOf[k] # KeyOf[g]
BY DEF EngineInv, Cleared, OnePerKey

\* A message begins, or is begun again.
LEMMA ReceiveKeeps ==
    ASSUME EngineInv, phase = "up", task.pc = "idle", NEW scope \in Scopes, Receive(scope),
           UNCHANGED <<op, store, loop, running, completed, phase, posted, conv, web>>,
           pending' \subseteq pending, resolved' \subseteq posted, callbacks' \subseteq posted
    PROVE  EngineInv'
<1>1. Mine.pc = "idle" /\ ~Acting
  BY DEF EngineInv, Place, Acting
<1>2. /\ task'.pc = IF scope = None THEN "route" ELSE "orphan"
      /\ task'.thread = scope /\ task'.scope = scope /\ (scope # None => scope \in Threads)
      /\ task' \in Task
  BY DEF Receive, Scopes, Task, TaskPC
<1>3. OpsInv' /\ Mine' = Mine /\ Others'
  BY OpKept DEF EngineInv, Types, ManagerInv, Place
<1>4. RouterTypes'
  BY <1>2 DEF EngineInv, Types, RouterTypes
<1>5. Types' /\ Down' /\ Turns'
  BY <1>1, <1>3, <1>4, AgentStep
<1>6. Place'
  BY <1>1, <1>2, <1>3 DEF Place
<1>7. Dues'
  BY <1>1, <1>2, <1>3 DEF Dues
<1>8. Known'
  BY <1>1, <1>2, <1>3 DEF EngineInv, Known, Acting
<1>9. Published' /\ Cleared'
  BY <1>1, <1>2, <1>3, FewerGates DEF Cleared, Beginning
<1>. QED BY <1>5, <1>6, <1>7, <1>8, <1>9 DEF EngineInv

LEMMA MessageKeeps ==
    ASSUME EngineInv, NEW scope \in Scopes, Message(scope)
    PROVE  EngineInv'
<1>1. /\ phase = "up" /\ task.pc = "idle" /\ Receive(scope)
      /\ UNCHANGED <<op, store, loop, running, completed, phase, posted, pending, conv, web>>
      /\ UNCHANGED <<resolved, callbacks>>
  BY DEF Message, At, keepManager, keepRest, boardVars
<1>2. resolved' \subseteq posted /\ callbacks' \subseteq posted
  BY <1>1 DEF EngineInv, Types, RouterTypes
<1>. QED BY <1>1, <1>2, ReceiveKeeps

\* The fields of a task that goes on, begins or ends.
LEMMA TaskMoves ==
    ASSUME RouterTypes, NEW p \in TaskPC
    PROVE  /\ Goto(p) => /\ task'.pc = p /\ task'.thread = task.thread
                         /\ task'.scope = task.scope /\ task'.todo = task.todo
                         /\ task' \in Task
           /\ \A t \in Threads :
                 Handle(p, t) => /\ task'.pc = p /\ task'.thread = t
                                 /\ task' \in Task
           /\ Finish => /\ task'.pc = "idle" /\ task'.thread = None
                        /\ task' \in Task
<1>1. ASSUME Goto(p)
      PROVE  /\ task'.pc = p /\ task'.thread = task.thread
             /\ task'.scope = task.scope /\ task'.todo = task.todo
             /\ task' \in Task
  BY <1>1 DEF RouterTypes, Goto, Task
<1>2. ASSUME NEW t \in Threads, Handle(p, t)
      PROVE  /\ task'.pc = p /\ task'.thread = t
             /\ task' \in Task
  BY <1>2 DEF Handle, IdleTask, Scopes, Task
<1>3. Finish => /\ task'.pc = "idle" /\ task'.thread = None
                /\ task' \in Task
  BY IdleTaskType DEF Finish
<1>. QED BY <1>1, <1>2, <1>3

LEMMA FailWaitingKeeps ==
    ASSUME EngineInv, FailWaiting
    PROVE  EngineInv'
<1>. DEFINE t == task.thread
            failed == [store[t] EXCEPT !.state = "Failed"]
<1>1. /\ phase = "up" /\ task.pc \in {"orphan", "fail"} /\ Mine.pc = "idle" /\ ~Acting
      /\ t \in Threads /\ UNCHANGED <<op, loop, running, completed, phase, posted, pending, conv>>
  BY ConversationsAreThreads
     DEF EngineInv, Types, RouterTypes, FailWaiting, Place, Acting, keepRest, boardVars
<1>2. OpsInv' /\ Mine' = Mine /\ Others'
  BY <1>1, OpKept DEF EngineInv, Types, ManagerInv, Place
<1>3. \/ Goto("route") /\ task.pc = "orphan" /\ UNCHANGED store
      \/ Finish /\ UNCHANGED store
      \/ Finish /\ Waiting(t) /\ store' = [store EXCEPT ![t] = failed]
  BY DEF FailWaiting
<1>4. /\ \/ task'.pc = "route" /\ task'.scope = task.scope /\ task.pc = "orphan"
         \/ task'.pc = "idle"
      /\ task' \in Task
  BY <1>3, TaskMoves DEF EngineInv, Types, TaskPC
<1>5. RouterTypes'
  BY <1>1, <1>4 DEF EngineInv, Types, RouterTypes, FailWaiting, keepRest, boardVars
<1>6. ~Acting' /\ Place'
  BY <1>1, <1>2, <1>4 DEF Place, Acting
<1>7. Dues'
  BY <1>1, <1>2, <1>4 DEF Dues
<1>8. Cleared'
  <2>1. OnePerKey(pending)' /\ TurnsCleared'
    BY <1>1 DEF EngineInv, Cleared, OnePerKey, TurnsCleared, InTurn, AtWork, GatesOf
  <2>. QED BY <1>1, <1>2, <1>4, <2>1 DEF Cleared, Beginning
<1>9. CASE UNCHANGED store
  <2>1. Types' /\ Down' /\ Turns'
    BY <1>1, <1>2, <1>5, <1>9, AgentStep
  <2>2. Known'
    BY <1>1, <1>2, <1>4, <1>6, <1>9 DEF EngineInv, Known
  <2>3. Published'
    BY <1>1, <1>9, FewerGates
  <2>. QED BY <1>6, <1>7, <1>8, <2>1, <2>2, <2>3 DEF EngineInv
<1>10. CASE Waiting(t) /\ store' = [store EXCEPT ![t] = failed]
  <2>1. /\ store[t] \in Record /\ ~store[t].ckpt
        /\ store \in [Threads -> Record \cup {None}]
    BY <1>1, <1>10 DEF EngineInv, Types, ManagerInv, StoreInv, Plain, Waiting
  <2>2. failed \in Record /\ Plain(failed) /\ failed.state = "Failed"
    BY <2>1 DEF Record, ThreadState, Plain
  <2>3. failed # None
    BY <2>2, NoneAssumption
  <2>4. Types'
    BY <1>1, <1>2, <1>5, <1>10, <2>2, StoreChange, KeepLoops, KeepMaps
       DEF EngineInv, Types, ManagerInv
  <2>5. Down'
    BY <1>1 DEF Down
  <2>6. \A k \in Threads : store'[k] = IF k = t THEN failed ELSE store[k]
    BY <1>1, <1>10, <2>1
  <2>8. Turns'
    BY <1>1, <1>2, <2>3, <2>6, ConversationsAreThreads
       DEF EngineInv, Turns, TurnOK, Held, AtWork
  <2>9. Known'
    BY <1>1, <1>2, <1>4, <1>6, <2>3, <2>6, RouterAssumption, ConversationsAreThreads
       DEF EngineInv, Known, Types, RouterTypes
  <2>10. Published'
    BY <1>1, <2>2, <2>3, <2>6, ConversationsAreThreads
       DEF EngineInv, Published, GatesOf, Over
  <2>. QED BY <1>6, <1>7, <1>8, <2>4, <2>5, <2>8, <2>9, <2>10 DEF EngineInv
<1>. QED BY <1>3, <1>9, <1>10

\* Whom a message goes to: a thread that is spawned for it has no gate, and
\* nobody is Suspended.
LEMMA RouteKeeps ==
    ASSUME EngineInv, Route
    PROVE  EngineInv'
<1>1. /\ phase = "up" /\ task.pc = "route" /\ Mine.pc = "idle" /\ ~Acting
      /\ UNCHANGED <<store, loop, running, completed, phase, posted, pending, resolved, conv>>
  BY DEF EngineInv, Route, At, Place, Acting, keepManager, keepRest, boardVars
<1>2. task.scope \in Scopes /\ conv[task.scope] \subseteq Conversations
  BY DEF EngineInv, Types, RouterTypes, Task
<1>3. OpsInv /\ Others
  BY DEF EngineInv, Types, ManagerInv, Place
<1>4. CASE Finish /\ UNCHANGED op
  <2>1. OpsInv' /\ Mine' = Mine /\ Others'
    BY <1>3, <1>4, OpKept
  <2>2. /\ task'.pc = "idle"
        /\ task' \in Task
    BY <1>4, TaskMoves DEF EngineInv, Types, TaskPC
  <2>3. RouterTypes'
    BY <1>1, <2>2 DEF EngineInv, Types, RouterTypes, Route, keepRest
  <2>4. Types' /\ Down' /\ Turns'
    BY <1>1, <2>1, <2>3, AgentStep
  <2>5. Place' /\ Dues' /\ ~Acting'
    BY <1>1, <2>1, <2>2 DEF Place, Dues, Acting
  <2>6. Known'
    BY <1>1, <2>1, <2>2, <2>5 DEF EngineInv, Known
  <2>7. Published' /\ Cleared'
    BY <1>1, <2>1, <2>2, FewerGates DEF Cleared, Beginning
  <2>. QED BY <2>4, <2>5, <2>6, <2>7 DEF EngineInv
<1>5. ASSUME NEW t \in Conversations, NEW p \in {"spawn", "inject"},
             Call(p, t), task' = [task EXCEPT !.pc = "routing", !.thread = t],
             p = "spawn" => store[t] = None /\ completed[t] = None /\ GatesOf(t) = {}
      PROVE  EngineInv'
  <2>1. OpsInv' /\ Mine'.pc = p /\ Mine'.thread = t /\ Others'
    BY <1>3, <1>5, CallEffect, ConversationsAreThreads DEF Operations
  <2>2. /\ task'.pc = "routing" /\ task'.thread = t
        /\ task' \in Task
    BY <1>5, ConversationsAreThreads DEF EngineInv, Types, RouterTypes, Task, TaskPC, Scopes
  <2>3. RouterTypes'
    BY <1>1, <2>2 DEF EngineInv, Types, RouterTypes, Route, keepRest
  <2>4. Types' /\ Down' /\ Turns'
    BY <1>1, <2>1, <2>3, AgentStep
  <2>5. Place' /\ ~Acting'
    BY <1>1, <2>1, <2>2 DEF Place, Waits, Acting
  <2>6. Dues'
    BY <1>1, <1>5, <2>1, <2>2 DEF Dues
  <2>7. Known'
    BY <1>1, <2>1, <2>2, <2>5 DEF EngineInv, Known
  <2>8. Published' /\ Cleared'
    BY <1>1, <1>5, <2>1, <2>2, FewerGates, ConversationsAreThreads DEF Cleared, Beginning
  <2>. QED BY <2>4, <2>5, <2>6, <2>7, <2>8 DEF EngineInv
<1>7. ASSUME NEW t \in Conversations, Fresh(t)
      PROVE  store[t] = None /\ completed[t] = None /\ GatesOf(t) = {}
  BY <1>7 DEF Fresh, EngineInv, Published, Known, GatesOf, Types, RouterTypes
<1>8. \A t \in Threads : store[t] # None => store[t].state # "Suspended"
  BY DEF EngineInv, Types, ManagerInv, StoreInv, Plain
<1>. DEFINE To(p, t) == Call(p, t) /\ task' = [task EXCEPT !.pc = "routing", !.thread = t]
<1>9. \/ Finish /\ UNCHANGED op
      \/ \E t \in Conversations : To("inject", t)
      \/ \E t \in Conversations : Fresh(t) /\ To("spawn", t)
  BY <1>2, <1>8, ConversationsAreThreads DEF Route
<1>. QED BY <1>4, <1>5, <1>7, <1>9

\* A message the safety checks refuse.
LEMMA RejectKeeps ==
    ASSUME EngineInv, Reject
    PROVE  EngineInv'
<1>1. /\ phase = "up" /\ task.pc = "route" /\ Mine.pc = "idle" /\ ~Acting
      /\ UNCHANGED <<op, store, loop, running, completed, phase, posted, pending, resolved, conv>>
  BY DEF EngineInv, Reject, At, Place, Acting, keepManager, keepRest, boardVars
<1>2. OpsInv' /\ Mine' = Mine /\ Others'
  BY <1>1, OpKept DEF EngineInv, Types, ManagerInv, Place
<1>3. task'.pc = "idle" /\ task' \in Task
  BY TaskMoves DEF EngineInv, Types, TaskPC, Reject
<1>4. RouterTypes'
  BY <1>1, <1>3 DEF EngineInv, Types, RouterTypes, Reject, keepRest
<1>5. Types' /\ Down' /\ Turns'
  BY <1>1, <1>2, <1>4, AgentStep
<1>6. Place' /\ Dues' /\ ~Acting'
  BY <1>1, <1>2, <1>3 DEF Place, Dues, Acting
<1>7. Known'
  BY <1>1, <1>2, <1>3, <1>6 DEF EngineInv, Known
<1>8. Published' /\ Cleared'
  BY <1>1, <1>2, <1>3, FewerGates DEF Cleared, Beginning
<1>. QED BY <1>5, <1>6, <1>7, <1>8 DEF EngineInv

LEMMA RoutedKeeps ==
    ASSUME EngineInv, Routed
    PROVE  EngineInv'
<1>. DEFINE ok == Mine.result = "Ok"
<1>1. /\ phase = "up" /\ task.pc = "routing" /\ Mine.pc = "returned"
      /\ ok <=> Acting
      /\ task.thread \in Conversations /\ task.thread \in Threads /\ task.scope \in Scopes
      /\ UNCHANGED <<store, loop, running, completed, phase, posted, pending, resolved, web, callbacks>>
  BY ConversationsAreThreads
     DEF EngineInv, Types, RouterTypes, Task, Routed, At, Answered, Mine, Acting, keepManager,
         keepRest, boardVars
<1>2. OpsInv' /\ Mine'.pc = "idle" /\ Others'
  BY ConsumeEffect DEF EngineInv, Types, ManagerInv, Place, Routed
<1>3. /\ ok => task'.pc = "poll" /\ task'.thread = task.thread
      /\ ~ok => task'.pc = "idle"
      /\ task' \in Task
  BY <1>1, TaskMoves DEF EngineInv, Types, Routed, Mine, TaskPC
<1>4. conv' \in [Scopes -> SUBSET Conversations]
  BY <1>1 DEF EngineInv, Types, RouterTypes, Routed
<1>5. RouterTypes'
  BY <1>1, <1>3, <1>4 DEF EngineInv, Types, RouterTypes
<1>6. Acting => Acting' /\ task'.thread = task.thread
  BY <1>1, <1>3 DEF Acting
<1>7. Types' /\ Down' /\ Turns'
  BY <1>1, <1>2, <1>5, <1>6, AgentStep
<1>8. Place'
  BY <1>2, <1>3 DEF Place
<1>9. Dues'
  BY <1>2, <1>3 DEF Dues
<1>10. Known'
  BY <1>1, <1>2, <1>3 DEF EngineInv, Known, Acting
<1>11. Published' /\ Cleared'
  BY <1>1, <1>2, <1>3, FewerGates DEF EngineInv, Cleared, Beginning
<1>. QED BY <1>7, <1>8, <1>9, <1>10, <1>11 DEF EngineInv

LEMMA PollKeeps ==
    ASSUME EngineInv, Poll
    PROVE  EngineInv'
<1>1. /\ phase = "up" /\ task.pc = "poll" /\ Mine.pc = "idle" /\ Acting
      /\ task.thread \in Conversations /\ task.thread \in Threads
      /\ UNCHANGED <<store, loop, running, completed, phase, posted, pending, resolved, conv, web, callbacks>>
  BY ConversationsAreThreads
     DEF EngineInv, Types, RouterTypes, Poll, At, Place, Acting, keepManager,
         keepRest, boardVars
<1>2. OpsInv' /\ Mine'.pc = "join" /\ Mine'.thread = task.thread /\ Others'
  BY <1>1, CallEffect DEF EngineInv, Types, ManagerInv, Place, Poll, Operations
<1>3. /\ task'.pc = "joining" /\ task'.thread = task.thread
      /\ task' \in Task
  BY TaskMoves DEF EngineInv, Types, Poll, TaskPC
<1>4. RouterTypes'
  BY <1>1, <1>3 DEF EngineInv, Types, RouterTypes
<1>5. Acting'
  BY <1>2, <1>3 DEF Acting
<1>6. Types' /\ Down' /\ Turns'
  BY <1>1, <1>2, <1>3, <1>4, <1>5, AgentStep
<1>7. Place'
  BY <1>1, <1>2, <1>3 DEF Place
<1>8. Dues'
  BY <1>2, <1>3 DEF Dues
<1>9. Known'
  BY <1>1, <1>2, <1>3 DEF EngineInv, Known
<1>10. Published' /\ Cleared'
  BY <1>1, <1>2, <1>3, FewerGates DEF EngineInv, Cleared, Beginning
<1>. QED BY <1>6, <1>7, <1>8, <1>9, <1>10 DEF EngineInv

LEMMA JoinedKeeps ==
    ASSUME EngineInv, Joined
    PROVE  EngineInv'
<1>1. /\ phase = "up" /\ task.pc = "joining" /\ Mine.pc = "returned" /\ ~Acting
      /\ task.thread \in Conversations
      /\ UNCHANGED <<store, loop, running, completed, phase, posted, pending, resolved, web, callbacks>>
  BY DEF EngineInv, Types, RouterTypes, Joined, At, Answered, Mine, Acting, keepManager,
         keepRest, boardVars
<1>2. OpsInv' /\ Mine'.pc = "idle" /\ Others'
  BY ConsumeEffect DEF EngineInv, Types, ManagerInv, Place, Joined
<1>3. /\ \/ /\ task'.pc \in {"post", "fallback"} /\ task'.thread = task.thread
            /\ Mine.result \in Outcome
         \/ task'.pc = "idle"
      /\ task' \in Task
  BY TaskMoves DEF EngineInv, Types, Joined, Mine, TaskPC, Outcome
<1>4. conv' \in [Scopes -> SUBSET Conversations]
  BY <1>1 DEF EngineInv, Types, RouterTypes, Joined, Untrack
<1>5. RouterTypes'
  BY <1>1, <1>3, <1>4 DEF EngineInv, Types, RouterTypes
<1>6. Types' /\ Down' /\ Turns'
  BY <1>1, <1>2, <1>5, AgentStep
<1>7. Place' /\ ~Acting'
  BY <1>2, <1>3 DEF Place, Acting
<1>8. Dues'
  BY <1>1, <1>2, <1>3 DEF EngineInv, Dues
<1>9. Known'
  BY <1>1, <1>2, <1>3, <1>7 DEF EngineInv, Known
<1>10. Published' /\ Cleared'
  BY <1>1, <1>2, <1>3, FewerGates DEF EngineInv, Cleared, Beginning
<1>. QED BY <1>6, <1>7, <1>8, <1>9, <1>10 DEF EngineInv

\* A step of the agent outside a turn that posts no gate.
LEMMA ErrandKeeps ==
    ASSUME EngineInv, phase = "up", ~Acting, Mine.pc \in {"idle", "returned"},
           UNCHANGED <<store, loop, running, completed, phase, posted>>,
           pending' \subseteq pending, OpsInv', RouterTypes', Place', ~Acting',
           Mine'.pc \in {"idle", "resume", "stop"},
           task'.pc \notin {"orphan", "route", "joining"},
           (Mine'.pc = "resume" \/ task'.pc \in {"post", "fallback", "execute"}) =>
               completed[task'.thread] = None,
           task'.pc \in {"post", "fallback", "execute"} => store[task'.thread] # None,
           (Mine'.pc = "resume" \/ task'.pc \in {"resuming", "execute", "fail"}) =>
               GatesOf(task.thread)' = {}
    PROVE  EngineInv'
<1>1. Types' /\ Down' /\ Turns'
  BY AgentStep
<1>2. Dues'
  BY DEF Dues, Place
<1>3. Known'
  BY DEF EngineInv, Known
<1>4. Published' /\ OnePerKey(pending') /\ TurnsCleared'
  BY FewerGates
<1>5. Mine'.pc \in Beginning => GatesOf(Mine.thread)' = {}
  BY DEF Beginning, Place
<1>6. Cleared'
  BY <1>4, <1>5 DEF Cleared
<1>. QED BY <1>1, <1>2, <1>3, <1>4, <1>6 DEF EngineInv

\* A gate that is pending belongs to a thread at rest whose outcome has been
\* taken, and is the only one there.
LEMMA PendingFacts ==
    ASSUME EngineInv, NEW g \in pending, Resolve(g)
    PROVE  /\ KeyOf[g] \in Conversations /\ KeyOf[g] \in Threads
           /\ completed[KeyOf[g]] = None /\ store[KeyOf[g]] # None /\ GatesOf(KeyOf[g])' = {}
           /\ pending' \subseteq pending /\ posted' = posted /\ resolved' \subseteq posted
<1>1. g \in Gates /\ g \in posted
  BY DEF EngineInv, Types, RouterTypes
<1>2. KeyOf[g] \in Conversations /\ KeyOf[g] \in Threads
  BY <1>1, RouterAssumption DEF Conversations
<1>3. completed[KeyOf[g]] = None
  BY <1>2 DEF EngineInv, Published, GatesOf
<1>4. store[KeyOf[g]] # None
  BY <1>1 DEF EngineInv, Known
<1>5. GatesOf(KeyOf[g])' = {}
  BY NoGatesOf DEF Resolve, GatesOf
<1>6. pending' \subseteq pending /\ posted' = posted /\ resolved' \subseteq posted
  BY <1>1 DEF Resolve, EngineInv, Types, RouterTypes
<1>. QED BY <1>2, <1>3, <1>4, <1>5, <1>6

LEMMA ResolveGateKeeps ==
    ASSUME EngineInv, NEW g \in Gates, NEW how \in Resolutions, ResolveGate(g, how)
    PROVE  EngineInv'
<1>. DEFINE t == KeyOf[g]
<1>1. /\ phase = "up" /\ task.pc = "idle" /\ Mine.pc = "idle" /\ ~Acting
      /\ g \in pending /\ Resolve(g)
      /\ UNCHANGED <<store, loop, running, completed, phase, conv, web, callbacks>>
  BY DEF EngineInv, ResolveGate, Resolve, At, Place, Acting, keepManager, keepRest
<1>2. /\ t \in Conversations /\ t \in Threads
      /\ completed[t] = None /\ store[t] # None /\ GatesOf(t)' = {}
      /\ pending' \subseteq pending /\ posted' = posted /\ resolved' \subseteq posted
  BY <1>1, PendingFacts
<1>3. OpsInv /\ Others /\ RouterTypes
  BY DEF EngineInv, Types, ManagerInv, Place
<1>4. ASSUME UNCHANGED op, \E p \in {"execute", "post", "fallback", "fail"} : Handle(p, t)
      PROVE  EngineInv'
  <2>2. OpsInv' /\ Mine' = Mine /\ Others'
    BY <1>3, <1>4, OpKept
  <2>3. /\ task'.pc \in {"execute", "post", "fallback", "fail"} /\ task'.thread = t
        /\ task' \in Task
    BY <1>2, <1>3, <1>4, TaskMoves DEF TaskPC
  <2>4. RouterTypes'
    BY <1>1, <1>2, <1>3, <2>3 DEF RouterTypes
  <2>5. Place' /\ ~Acting'
    BY <1>1, <2>2, <2>3 DEF Place, Acting
  <2>. QED BY <1>1, <1>2, <2>2, <2>3, <2>4, <2>5, ErrandKeeps
<1>5. ASSUME UNCHANGED <<task, op>>
      PROVE  EngineInv'
  <2>1. OpsInv' /\ Mine' = Mine /\ Others' /\ task' = task
    BY <1>3, <1>5, OpKept
  <2>2. RouterTypes'
    BY <1>1, <1>2, <1>3, <2>1 DEF RouterTypes
  <2>3. Place' /\ ~Acting'
    BY <1>1, <2>1 DEF Place, Acting
  <2>. QED BY <1>1, <1>2, <2>1, <2>2, <2>3, ErrandKeeps
<1>6. CASE how = "resume"
  <2>1. OpsInv' /\ Mine'.pc = "resume" /\ Mine'.thread = t /\ Others'
    BY <1>2, <1>3, <1>6, CallEffect DEF ResolveGate, Operations
  <2>2. /\ task'.pc = "resuming" /\ task'.thread = t
        /\ task' \in Task
    BY <1>2, <1>3, <1>6, TaskMoves DEF ResolveGate, TaskPC
  <2>3. RouterTypes'
    BY <1>1, <1>2, <1>3, <2>2 DEF RouterTypes
  <2>4. Place' /\ ~Acting'
    BY <1>2, <2>1, <2>2 DEF Place, Acting, Waits
  <2>. QED BY <1>1, <1>2, <2>1, <2>2, <2>3, <2>4, ErrandKeeps
<1>7. CASE how = "cancel"
  <2>1. OpsInv' /\ Mine'.pc = "stop" /\ Mine'.thread = t /\ Others'
    BY <1>2, <1>3, <1>7, CallEffect DEF ResolveGate, Operations
  <2>2. /\ task'.pc = "stopping" /\ task'.thread = t
        /\ task' \in Task
    BY <1>2, <1>3, <1>7, TaskMoves DEF ResolveGate, TaskPC
  <2>3. RouterTypes'
    BY <1>1, <1>2, <1>3, <2>2 DEF RouterTypes
  <2>4. Place' /\ ~Acting'
    BY <1>2, <2>1, <2>2 DEF Place, Acting
  <2>. QED BY <1>1, <1>2, <2>1, <2>2, <2>3, <2>4, ErrandKeeps
<1>8. ASSUME UNCHANGED op, NEW scope \in Scopes, Receive(scope)
      PROVE  EngineInv'
  <2>1. callbacks' \subseteq posted
    BY <1>1, <1>3 DEF RouterTypes
  <2>. QED BY <1>1, <1>2, <1>8, <2>1, ReceiveKeeps
<1>9. CASE how \in {"execute", "requeue", "fail", "drop"}
  BY <1>4, <1>5, <1>9 DEF ResolveGate, RunAction, Requeue
<1>10. CASE how = "replay"
  BY <1>5, <1>8, <1>10 DEF ResolveGate, Replay
<1>. QED BY <1>6, <1>7, <1>9, <1>10 DEF Resolutions

LEMMA CallbackKeeps ==
    ASSUME EngineInv, NEW g \in Gates, Callback(g)
    PROVE  EngineInv'
<1>1. /\ phase = "up" /\ task.pc = "idle" /\ Mine.pc = "idle" /\ ~Acting
      /\ callbacks' \subseteq callbacks
      /\ UNCHANGED <<op, store, loop, running, completed, phase, conv, web>>
  BY DEF EngineInv, Callback, At, Place, Acting, keepManager
<1>2. OpsInv' /\ Mine' = Mine /\ Others'
  BY <1>1, OpKept DEF EngineInv, Types, ManagerInv, Place
<1>3. CASE g \in pending
  <2>1. Resolve(g) /\ (Handle("execute", KeyOf[g]) \/ UNCHANGED task)
    BY <1>3 DEF Callback, RunAction
  <2>2. /\ KeyOf[g] \in Conversations /\ KeyOf[g] \in Threads /\ completed[KeyOf[g]] = None
        /\ store[KeyOf[g]] # None /\ GatesOf(KeyOf[g])' = {}
        /\ pending' \subseteq pending /\ posted' = posted /\ resolved' \subseteq posted
    BY <1>3, <2>1, PendingFacts
  <2>3. /\ (task'.pc = "execute" /\ task'.thread = KeyOf[g]) \/ task' = task
        /\ task' \in Task
    BY <2>1, <2>2, TaskMoves DEF EngineInv, Types, RouterTypes, TaskPC
  <2>4. RouterTypes'
    BY <1>1, <2>2, <2>3 DEF EngineInv, Types, RouterTypes
  <2>5. Place' /\ ~Acting'
    BY <1>1, <1>2, <2>3 DEF Place, Acting
  <2>. QED BY <1>1, <1>2, <2>2, <2>3, <2>4, <2>5, ErrandKeeps
<1>4. CASE g \notin pending
  <2>1. UNCHANGED <<posted, pending, resolved, task>>
    BY <1>4 DEF Callback, boardVars
  <2>2. RouterTypes'
    BY <1>1, <2>1 DEF EngineInv, Types, RouterTypes
  <2>3. Place' /\ ~Acting'
    BY <1>1, <1>2, <2>1 DEF Place, Acting
  <2>. QED BY <1>1, <1>2, <2>1, <2>2, <2>3, ErrandKeeps
<1>. QED BY <1>3, <1>4

LEMMA ExecuteKeeps ==
    ASSUME EngineInv, NEW result \in {"ok", "paused", "error"}, Execute(result)
    PROVE  EngineInv'
<1>. DEFINE t == task.thread
<1>1. /\ phase = "up" /\ task.pc = "execute" /\ Mine.pc = "idle" /\ ~Acting
      /\ UNCHANGED <<store, loop, running, completed, phase, posted, pending, resolved, conv, web, callbacks>>
  BY DEF EngineInv, Execute, At, Place, Acting, keepManager, keepRest, boardVars
<1>2. /\ t \in Conversations /\ t \in Threads
      /\ completed[t] = None /\ store[t] # None /\ GatesOf(t) = {}
  BY <1>1, ConversationsAreThreads DEF EngineInv, Types, RouterTypes, Dues, Known, Cleared
<1>4. OpsInv /\ Others /\ RouterTypes
  BY DEF EngineInv, Types, ManagerInv, Place
<1>5. CASE result = "ok"
  <2>1. OpsInv' /\ Mine'.pc = "resume" /\ Mine'.thread = t /\ Others'
    BY <1>2, <1>4, <1>5, CallEffect DEF Execute, Operations
  <2>2. /\ task'.pc = "resuming" /\ task'.thread = t
        /\ task' \in Task
    BY <1>4, <1>5, TaskMoves DEF Execute, TaskPC
  <2>3. RouterTypes'
    BY <1>1, <1>2, <1>4, <2>2 DEF RouterTypes
  <2>4. Place' /\ ~Acting'
    BY <1>1, <1>2, <2>1, <2>2 DEF Place, Acting, Waits
  <2>5. GatesOf(task.thread)' = {}
    BY <1>1, <1>2, <2>2 DEF GatesOf
  <2>. QED BY <1>1, <1>2, <2>1, <2>2, <2>3, <2>4, <2>5, ErrandKeeps
<1>6. CASE result \in {"paused", "error"}
  <2>1. UNCHANGED op /\ (Goto("post") \/ Finish)
    BY <1>6 DEF Execute
  <2>2. OpsInv' /\ Mine' = Mine /\ Others'
    BY <1>4, <2>1, OpKept
  <2>3. /\ task'.pc = "idle" \/ (task'.pc = "post" /\ task'.thread = t)
        /\ task' \in Task
    BY <1>4, <2>1, TaskMoves DEF TaskPC
  <2>4. RouterTypes'
    BY <1>1, <1>2, <1>4, <2>3 DEF RouterTypes
  <2>5. Place' /\ ~Acting'
    BY <1>1, <2>2, <2>3 DEF Place, Acting
  <2>6. task'.pc = "post" => GatesOf(task.thread)' = {}
    BY <1>1, <1>2, <2>3 DEF GatesOf
  <2>. QED BY <1>1, <1>2, <2>2, <2>3, <2>4, <2>5, <2>6, ErrandKeeps
<1>. QED BY <1>5, <1>6

LEMMA ResumptionKeeps ==
    ASSUME EngineInv, Resumption
    PROVE  EngineInv'
<1>. DEFINE ok == Mine.result = "Ok"
<1>1. /\ phase = "up" /\ task.pc = "resuming" /\ Mine.pc = "returned"
      /\ ok <=> Acting
      /\ task.thread \in Conversations
      /\ UNCHANGED <<store, loop, running, completed, phase, posted, pending, resolved,
                     conv, web, callbacks>>
  BY DEF EngineInv, Types, RouterTypes, Resumption, At, Answered, Mine, Acting,
         keepManager, keepRest, boardVars
<1>2. OpsInv' /\ Mine'.pc = "idle" /\ Others'
  BY ConsumeEffect DEF EngineInv, Types, ManagerInv, Place, Resumption
<1>3. /\ ok => task'.pc = "poll" /\ task'.thread = task.thread
      /\ ~ok => task'.pc = "idle"
      /\ task' \in Task
  BY TaskMoves DEF EngineInv, Types, Resumption, Mine, TaskPC
<1>4. RouterTypes'
  BY <1>1, <1>3 DEF EngineInv, Types, RouterTypes
<1>5. Acting => Acting' /\ task'.thread = task.thread
  BY <1>1, <1>3 DEF Acting
<1>6. Types' /\ Down' /\ Turns'
  BY <1>1, <1>2, <1>4, <1>5, AgentStep
<1>7. Place'
  BY <1>2, <1>3 DEF Place
<1>8. Dues'
  BY <1>2, <1>3 DEF Dues
<1>9. Known'
  BY <1>1, <1>2, <1>3 DEF EngineInv, Known, Acting
<1>10. Published' /\ Cleared'
  BY <1>1, <1>2, <1>3, FewerGates DEF EngineInv, Cleared, Beginning
<1>. QED BY <1>6, <1>7, <1>8, <1>9, <1>10 DEF EngineInv

LEMMA StoppedKeeps ==
    ASSUME EngineInv, Stopped
    PROVE  EngineInv'
<1>1. /\ phase = "up" /\ task.pc = "stopping" /\ Mine.pc = "returned" /\ ~Acting
      /\ UNCHANGED <<store, loop, running, completed, phase, posted, pending, resolved,
                     conv, web, callbacks>>
  BY DEF Stopped, At, Answered, Mine, Acting, keepManager, keepRest, boardVars
<1>2. OpsInv' /\ Mine'.pc = "idle" /\ Others'
  BY ConsumeEffect DEF EngineInv, Types, ManagerInv, Place, Stopped
<1>3. /\ task'.pc = "idle"
      /\ task' \in Task
  BY TaskMoves DEF EngineInv, Types, Stopped, TaskPC
<1>4. RouterTypes'
  BY <1>1, <1>3 DEF EngineInv, Types, RouterTypes
<1>5. Place' /\ ~Acting'
  BY <1>2, <1>3 DEF Place, Acting
<1>. QED BY <1>1, <1>2, <1>3, <1>4, <1>5, ErrandKeeps

LEMMA SweepKeeps ==
    ASSUME EngineInv, NEW pc \in {"interrupt", "clear"}, Sweep(pc)
    PROVE  EngineInv'
<1>1. /\ phase = "up" /\ task.pc = "idle" /\ Mine.pc = "idle" /\ ~Acting
      /\ UNCHANGED <<op, store, loop, running, completed, phase, posted, pending, resolved,
                     conv, web, callbacks>>
  BY DEF EngineInv, Sweep, At, Place, Acting, keepManager, keepRest, boardVars
<1>2. OpsInv' /\ Mine' = Mine /\ Others'
  BY <1>1, OpKept DEF EngineInv, Types, ManagerInv, Place
<1>3. conv[None] \subseteq Conversations
  BY DEF EngineInv, Types, RouterTypes, Scopes
<1>4. /\ task'.pc = pc
      /\ task' \in Task
  BY <1>3 DEF Sweep, IdleTask, Task, TaskPC, Scopes
<1>5. RouterTypes'
  BY <1>1, <1>4 DEF EngineInv, Types, RouterTypes
<1>6. Place' /\ ~Acting'
  BY <1>1, <1>2, <1>4 DEF Place, Acting
<1>. QED BY <1>1, <1>2, <1>4, <1>5, <1>6, ErrandKeeps

LEMMA SweepThreadKeeps ==
    ASSUME EngineInv, NEW t \in Threads, SweepThread(t)
    PROVE  EngineInv'
<1>1. /\ phase = "up" /\ task.pc \in {"interrupt", "clear"} /\ task.thread = None /\ ~Acting
      /\ UNCHANGED <<store, loop, running, completed, phase, posted, pending, resolved,
                     conv, web, callbacks>>
  BY DEF SweepThread, Sweeping, Acting, keepManager, keepRest, boardVars
<1>2. Mine.pc = "idle"
  BY <1>1, NoneAssumption, ConversationsAreThreads DEF EngineInv, Place
<1>3. /\ task'.pc = task.pc /\ task'.thread = t /\ t \in Conversations
      /\ task' \in Task
  BY DEF EngineInv, Types, RouterTypes, Task, SweepThread, Scopes
<1>4. OpsInv' /\ (Mine'.pc = "idle" \/ (Mine'.pc = "stop" /\ Mine'.thread = t)) /\ Others'
  <2>1. CASE IsRunning(t)
    BY <2>1, CallEffect DEF EngineInv, Types, ManagerInv, Place, SweepThread, Operations
  <2>2. CASE ~IsRunning(t)
    BY <1>2, <2>2, OpKept DEF EngineInv, Types, ManagerInv, Place, SweepThread
  <2>. QED BY <2>1, <2>2
<1>5. RouterTypes'
  BY <1>1, <1>3 DEF EngineInv, Types, RouterTypes
<1>6. Place' /\ ~Acting'
  BY <1>1, <1>3, <1>4 DEF Place, Acting
<1>. QED BY <1>1, <1>2, <1>3, <1>4, <1>5, <1>6, ErrandKeeps

LEMMA SweepGatesKeeps ==
    ASSUME EngineInv, SweepGates
    PROVE  EngineInv'
<1>1. /\ phase = "up" /\ task.pc \in {"interrupt", "clear"} /\ ~Acting
      /\ Mine.pc \in {"idle", "returned"}
      /\ pending' \subseteq pending
      /\ UNCHANGED <<store, loop, running, completed, phase, posted, resolved,
                     conv, web, callbacks>>
  BY DEF SweepGates, Sweeping, Mine, Acting, keepManager, keepRest, Drop
<1>2. OpsInv' /\ Mine'.pc = "idle" /\ Others'
  BY ConsumeEffect DEF EngineInv, Types, ManagerInv, Place, SweepGates
<1>3. /\ task'.pc = task.pc
      /\ task' \in Task
  BY DEF EngineInv, Types, RouterTypes, Task, SweepGates, Scopes
<1>4. RouterTypes'
  BY <1>1, <1>3 DEF EngineInv, Types, RouterTypes
<1>5. Place' /\ ~Acting'
  BY <1>1, <1>2, <1>3 DEF Place, Acting
<1>. QED BY <1>1, <1>2, <1>3, <1>4, <1>5, ErrandKeeps

LEMMA SweepEndKeeps ==
    ASSUME EngineInv, SweepEnd
    PROVE  EngineInv'
<1>1. /\ phase = "up" /\ task.pc \in {"interrupt", "clear"} /\ task.thread = None /\ ~Acting
      /\ UNCHANGED <<op, store, loop, running, completed, phase, posted, pending, resolved,
                     web, callbacks>>
  BY DEF SweepEnd, Sweeping, Acting, keepManager, keepRest, boardVars
<1>2. Mine.pc = "idle"
  BY <1>1, NoneAssumption, ConversationsAreThreads DEF EngineInv, Place
<1>3. OpsInv' /\ Mine' = Mine /\ Others'
  BY <1>1, OpKept DEF EngineInv, Types, ManagerInv, Place
<1>4. /\ task'.pc = "idle"
      /\ task' \in Task
  BY TaskMoves DEF EngineInv, Types, SweepEnd, TaskPC
<1>5. conv' \in [Scopes -> SUBSET Conversations]
  BY DEF EngineInv, Types, RouterTypes, SweepEnd
<1>6. RouterTypes'
  BY <1>1, <1>4, <1>5 DEF EngineInv, Types, RouterTypes
<1>7. Place' /\ ~Acting'
  BY <1>2, <1>3, <1>4 DEF Place, Acting
<1>. QED BY <1>1, <1>2, <1>3, <1>4, <1>6, <1>7, ErrandKeeps

\* The thread of a gate that is posted has no other gate, and no outcome of
\* it is left to be taken.
LEMMA PostGateKeeps ==
    ASSUME EngineInv, PostGate
    PROVE  EngineInv'
<1>. DEFINE t == task.thread
<1>1. /\ phase = "up" /\ task.pc \in {"post", "fallback"} /\ Mine.pc = "idle" /\ ~Acting
      /\ UNCHANGED <<op, store, loop, running, completed, phase, conv, web, callbacks>>
  BY DEF EngineInv, PostGate, At, Place, Acting, keepManager, keepRest
<1>2. t \in Conversations /\ completed[t] = None /\ store[t] # None
  BY <1>1 DEF EngineInv, Types, RouterTypes, Dues, Known
<1>3. OpsInv' /\ Mine' = Mine /\ Others'
  BY <1>1, OpKept DEF EngineInv, Types, ManagerInv, Place
<1>4. /\ task'.pc = "idle"
      /\ task' \in Task
  BY TaskMoves DEF EngineInv, Types, PostGate, TaskPC
<1>5. /\ posted \subseteq posted' /\ posted' \subseteq Gates
      /\ pending' \subseteq posted' /\ resolved' = resolved
      /\ \A g \in posted' \ posted : KeyOf[g] = t
      /\ \A g \in pending' \ pending : KeyOf[g] = t
      /\ OnePerKey(pending')
  <2>1. /\ posted \subseteq Gates /\ pending \subseteq posted /\ resolved \subseteq posted
        /\ OnePerKey(pending)
    BY DEF EngineInv, Types, RouterTypes, Cleared
  <2>2. \/ UNCHANGED boardVars
        \/ \E g \in Gates : /\ KeyOf[g] = t
                            /\ IF OnePerKey(pending \cup {g}) THEN Post(g) ELSE Refuse(g)
    BY <2>1, RouterAssumption DEF PostGate
  <2>. QED BY <2>1, <2>2 DEF Post, Refuse, boardVars
<1>6. RouterTypes'
  BY <1>1, <1>4, <1>5 DEF EngineInv, Types, RouterTypes
<1>7. Types' /\ Down' /\ Turns'
  BY <1>1, <1>3, <1>6, AgentStep
<1>8. Place' /\ ~Acting' /\ Dues'
  BY <1>1, <1>3, <1>4 DEF Place, Acting, Dues
<1>9. Known'
  BY <1>1, <1>2, <1>3, <1>4, <1>5, <1>8 DEF EngineInv, Known
<1>10. Published'
  BY <1>1, <1>2, <1>5 DEF EngineInv, Published, GatesOf
<1>11. TurnsCleared'
  BY <1>1 DEF EngineInv, Turns, TurnOK, TurnsCleared, InTurn, AtWork
<1>12. Cleared'
  BY <1>1, <1>3, <1>4, <1>5, <1>11 DEF Cleared, Beginning
<1>. QED BY <1>7, <1>8, <1>9, <1>10, <1>12 DEF EngineInv

-----------------------------------------------------------------------------
(* The engine bridge: the gateway and the passing of time.                 *)

\* What happens beside the agent: gates leave the board, nothing else.
LEMMA AsideKeeps ==
    ASSUME EngineInv, UNCHANGED <<store, loop, running, completed, op, task, conv, phase>>,
           UNCHANGED <<posted, resolved>>, pending' \subseteq pending, RouterTypes'
    PROVE  EngineInv'
<1>1. Mine' = Mine /\ (Acting' <=> Acting)
  BY DEF Mine, Acting
<1>2. ManagerInv'
  BY KeepOps, ManagerKept DEF EngineInv, Types, ManagerInv
<1>3. Place'
  BY <1>1 DEF EngineInv, Place, Others
<1>4. Down' /\ Turns'
  BY <1>1 DEF EngineInv, Down, Turns, TurnOK, Held, AtWork
<1>5. Dues' /\ Known'
  BY <1>1 DEF EngineInv, Dues, Known, BusyOn
<1>7. Published'
  BY FewerGates
<1>8. Cleared'
  BY <1>1, FewerGates DEF EngineInv, Cleared, GatesOf
<1>. QED BY <1>2, <1>3, <1>4, <1>5, <1>7, <1>8 DEF EngineInv, Types

LEMMA ExpireKeeps ==
    ASSUME EngineInv, NEW g \in Gates, Expire(g)
    PROVE  EngineInv'
<1>1. /\ UNCHANGED <<store, loop, running, completed, op, task, conv, phase, web, callbacks>>
      /\ UNCHANGED <<posted, resolved>> /\ pending' \subseteq pending
  BY DEF Expire, Drop, managerVars, routerVars
<1>2. RouterTypes'
  BY <1>1 DEF EngineInv, Types, RouterTypes
<1>. QED BY <1>1, <1>2, AsideKeeps

LEMMA WebKeeps ==
    ASSUME EngineInv, WebStep
    PROVE  EngineInv'
<1>1. /\ UNCHANGED <<store, loop, running, completed, op, task, conv, phase>>
      /\ UNCHANGED <<posted, resolved>> /\ pending' \subseteq pending
  BY DEF WebStep, WebSubmit, WebList, WebDiscard, WebConfigured, keepAgent, managerVars,
         boardVars, Drop
<1>. DEFINE Webs == [pc : WebPC, gate : Gates \cup {None}, keys : SUBSET Threads,
                     form : BOOLEAN]
<1>2. web \in Webs /\ (web.pc # "idle" => web.gate \in posted) /\ posted \subseteq Gates
      /\ callbacks \subseteq posted /\ pending \subseteq posted
  BY DEF EngineInv, Types, RouterTypes
<1>3. ASSUME NEW g \in Gates, NEW form \in BOOLEAN, WebSubmit(g, form)
      PROVE  web' \in Webs /\ web'.gate \in posted /\ callbacks' = callbacks
  BY <1>2, <1>3 DEF WebSubmit, WebPC
<1>4. ASSUME WebList
      PROVE  web' \in Webs /\ web'.gate \in posted /\ callbacks' = callbacks
  <2>1. {KeyOf[g] : g \in pending \cap AuthGates} \subseteq Threads
    BY <1>2, RouterAssumption
  <2>. QED BY <1>2, <1>4, <2>1 DEF WebList, WebPC
<1>5. ASSUME WebDiscard
      PROVE  /\ web' \in Webs /\ (web'.pc # "idle" => web'.gate \in posted)
             /\ callbacks' = callbacks
  BY <1>2, <1>5, IdleWebType DEF WebDiscard, WebPC
<1>6. ASSUME NEW ready \in BOOLEAN, WebConfigured(ready)
      PROVE  web' \in Webs /\ web'.pc = "idle" /\ callbacks' \subseteq posted
  BY <1>2, <1>6, IdleWebType DEF WebConfigured
<1>7. /\ web' \in Webs /\ (web'.pc # "idle" => web'.gate \in posted)
      /\ callbacks' \subseteq posted
  BY <1>2, <1>3, <1>4, <1>5, <1>6 DEF WebStep
<1>8. RouterTypes'
  BY <1>1, <1>7 DEF EngineInv, Types, RouterTypes
<1>. QED BY <1>1, <1>8, AsideKeeps

-----------------------------------------------------------------------------
(* The engine bridge: the steps of the agent's operation.                  *)

\* What they leave to be shown.
Moved == Place' /\ Turns' /\ Dues' /\ Known' /\ Published' /\ Cleared'

\* They post no gate; who begins a turn, and the loop in it, has none.
LEMMA ClearedMoves ==
    ASSUME EngineInv, UNCHANGED <<boardVars, routerVars>>,
           Mine'.pc \in Beginning => Mine.pc \in Beginning /\ Mine'.thread = Mine.thread,
           \A h \in Loops : InTurn(h)' =>
               \/ (loop'[h].thread = loop[h].thread /\ InTurn(h))
               \/ (loop'[h].thread = Mine.thread /\ Mine.pc \in Beginning)
    PROVE  Cleared'
<1>1. UNCHANGED <<task, pending>>
  BY DEF boardVars, routerVars
<1>2. TurnsCleared'
  BY <1>1 DEF EngineInv, Cleared, TurnsCleared, GatesOf
<1>. QED BY <1>1, <1>2 DEF EngineInv, Cleared, GatesOf, OnePerKey

LEMMA OperationFacts ==
    ASSUME EngineInv, Mine.pc \notin {"idle", "returned"}
    PROVE  /\ Mine \in Operation /\ Mine.thread = task.thread
           /\ Mine.thread \in Threads /\ Mine.thread \in Conversations
           /\ Mine.rec \in Record /\ phase = "up" /\ OpsInv
           /\ Mine.pc \in {"register", "sending", "awaiting", "clear"} => Mine.loop \in Loops
           /\ store \in [Threads -> Record \cup {None}]
           /\ running \in [Threads -> Loops \cup {None}]
           /\ completed \in [Threads -> Outcome \cup {None}]
           /\ \A h \in Loops : loop[h].pc \in Busy => loop[h].thread \in Threads
<1>1. OpsInv /\ LoopsInv /\ StoreInv /\ MapsInv
  BY DEF EngineInv, Types, ManagerInv
<1>2. Mine \in Operation /\ OpOK(Mine)
  BY <1>1, RouterAssumption DEF OpsInv, Mine
<1>3. /\ Mine.thread = task.thread /\ phase = "up"
      /\ Mine.thread \in Threads /\ Mine.thread \in Conversations
  BY ConversationsAreThreads DEF EngineInv, Place, Down
<1>. QED BY <1>1, <1>2, <1>3 DEF Operation, OpOK, StoreInv, MapsInv, LoopsInv, LoopOK

\* A pc that names an operation names the handlers that wait for it.
LEMMA Handlers ==
    ASSUME EngineInv
    PROVE  /\ task.pc \in TaskPC
           /\ Mine.pc = "spawn" => task.pc = "routing"
           /\ Mine.pc \in {"resume", "load", "save", "start", "register"} =>
                 task.pc \in {"routing", "resuming"}
           /\ Mine.pc \in {"join", "take", "awaiting", "clear"} => task.pc = "joining"
           /\ Mine.pc \in {"stop", "inject", "sending"} =>
                 task.pc \in {"routing", "stopping", "interrupt", "clear"}
<1>1. task.pc \in TaskPC
  BY DEF EngineInv, Types, RouterTypes, Task
<1>. QED BY <1>1 DEF EngineInv, Place, Waits, TaskPC

LEMMA SpawnMoves ==
    ASSUME EngineInv, Spawn(Agent), UNCHANGED <<boardVars, routerVars>>
    PROVE  Moved
<1>. DEFINE t == Mine.thread
            o == [op[Agent] EXCEPT !.pc = "start", !.rec = NewRecord]
<1>1. /\ Mine.pc = "spawn" /\ task.pc = "routing" /\ ~Acting
      /\ UNCHANGED <<loop, running, completed, task, phase, posted, pending>>
  BY Handlers DEF Spawn, Mine, Acting, boardVars, routerVars
<1>2. /\ Mine \in Operation /\ t = task.thread /\ t \in Threads /\ t \in Conversations /\ OpsInv
      /\ store \in [Threads -> Record \cup {None}] /\ phase = "up"
      /\ \A h \in Loops : loop[h].pc \in Busy => loop[h].thread \in Threads
  BY <1>1, OperationFacts
<1>3. Mine' = o /\ Others'
  BY <1>2, MineChange DEF Spawn, EngineInv, Place
<1>4. Mine'.pc = "start" /\ Mine'.thread = t /\ Mine'.rec = NewRecord
  BY <1>2, <1>3 DEF Mine, Operation
<1>5. /\ store'[t] = NewRecord /\ NewRecord # None
      /\ \A k \in Threads : k # t => store'[k] = store[k]
  BY <1>2, NewRecordType, NoneAssumption DEF Spawn, Mine
<1>6. \A h \in Loops : ~BusyOn(h, t)
  BY <1>2, <1>1 DEF EngineInv, Turns, AtWork, TurnOK, Dues, BusyOn
<1>7. Place' /\ ~Acting'
  BY <1>1, <1>2, <1>3, <1>4 DEF Place, Waits, Acting
<1>8. Turns'
  BY <1>1, <1>2, <1>5, <1>6 DEF EngineInv, Turns, AtWork, TurnOK, Held, BusyOn
<1>9. Dues'
  BY <1>1, <1>2, <1>4, <1>5, <1>6 DEF EngineInv, Dues, BusyOn
<1>10. Known'
  BY ConversationsAreThreads, <1>1, <1>4, <1>5, <1>7, RouterAssumption DEF EngineInv, Known, Types, RouterTypes
<1>11. Published'
  BY ConversationsAreThreads, <1>1, <1>5 DEF EngineInv, Published, Dues, GatesOf
<1>12. Cleared'
  BY <1>1, <1>4, ClearedMoves DEF InTurn, AtWork, Beginning
<1>. QED BY <1>7, <1>8, <1>9, <1>10, <1>11, <1>12 DEF Moved

\* A step of the operation that only moves the operation on, and leaves or
\* enters no turn.
LEMMA OnlyOpMoves ==
    ASSUME EngineInv, UNCHANGED <<store, loop, running, completed, boardVars, routerVars>>,
           Place', Dues',
           Mine.pc \notin {"start", "register", "awaiting"},
           Acting => Acting',
           Acting' => store[task.thread] # None,
           Mine'.pc # "sending",
           Mine'.pc \in Beginning => Mine.pc \in Beginning /\ Mine'.thread = Mine.thread
    PROVE  Moved
<1>1. UNCHANGED <<task, phase, posted, pending>>
  BY DEF boardVars, routerVars
<1>2. Turns'
  BY <1>1 DEF EngineInv, Turns, AtWork, TurnOK, Held
<1>3. Known'
  BY <1>1 DEF EngineInv, Known
<1>4. Published'
  BY <1>1 DEF EngineInv, Published, GatesOf
<1>5. Cleared'
  BY ClearedMoves DEF InTurn, AtWork
<1>. QED BY <1>2, <1>3, <1>4, <1>5 DEF Moved

LEMMA ResumeCheckMoves ==
    ASSUME EngineInv, ResumeCheck(Agent), UNCHANGED <<boardVars, routerVars>>
    PROVE  Moved
<1>. DEFINE t == Mine.thread
<1>1. /\ Mine.pc = "resume" /\ task.pc \in {"routing", "resuming"} /\ ~Acting
      /\ UNCHANGED <<store, loop, running, completed, task>>
  BY Handlers DEF ResumeCheck, Mine, Acting, routerVars
<1>2. t = task.thread /\ t \in Threads /\ t \in Conversations /\ OpsInv
  BY <1>1, OperationFacts
<1>3. CASE IsRunning(t)
  <2>1. Return(Agent, "AlreadyRunning")
    BY <1>3 DEF ResumeCheck, Mine
  <2>2. Mine'.pc = "returned" /\ Mine'.result = "AlreadyRunning" /\ Mine'.thread = t /\ Others'
    BY <1>2, <2>1, ReturnEffect DEF EngineInv, Place, Result
  <2>3. Place' /\ Dues' /\ ~Acting'
    BY <1>1, <1>2, <2>2 DEF Place, Waits, Dues, Acting
  <2>. QED BY <1>1, <2>2, <2>3, OnlyOpMoves DEF Beginning
<1>4. CASE ~IsRunning(t)
  <2>1. Step(Agent, "load")
    BY <1>4 DEF ResumeCheck, Mine
  <2>2. Mine'.pc = "load" /\ Mine'.thread = t /\ Others'
    BY <1>2, <2>1, StepEffect DEF EngineInv, Place, OpPC
  <2>3. \A h \in Loops : ~BusyOn(h, t)
    BY <1>2, <1>1, <1>4, NoneAssumption
       DEF EngineInv, Turns, AtWork, TurnOK, Held, BusyOn, IsRunning, Busy
  <2>4. Place' /\ ~Acting'
    BY <1>1, <1>2, <2>2 DEF Place, Waits, Acting
  <2>5. Dues'
    BY <1>1, <2>2, <2>3 DEF EngineInv, Dues, BusyOn
  <2>. QED BY <1>1, <2>2, <2>4, <2>5, OnlyOpMoves DEF Beginning
<1>. QED BY <1>3, <1>4

LEMMA ResumeLoadMoves ==
    ASSUME EngineInv, ResumeLoad(Agent), UNCHANGED <<boardVars, routerVars>>
    PROVE  Moved
<1>. DEFINE t == Mine.thread
            r == store[t]
            o == [op[Agent] EXCEPT !.pc = "save", !.rec = Resumed(r)]
<1>1. /\ Mine.pc = "load" /\ task.pc \in {"routing", "resuming"} /\ ~Acting
      /\ UNCHANGED <<store, loop, running, completed, task>>
  BY Handlers DEF ResumeLoad, Mine, Acting, routerVars
<1>2. /\ t = task.thread /\ t \in Threads /\ t \in Conversations /\ OpsInv /\ Mine \in Operation
      /\ store \in [Threads -> Record \cup {None}]
  BY <1>1, OperationFacts
<1>3. ASSUME NEW e \in {"NotFound", "NotResumable"}, Return(Agent, e) PROVE Moved
  <2>1. Mine'.pc = "returned" /\ Mine'.result = e /\ Mine'.thread = t /\ Others'
    BY <1>2, <1>3, ReturnEffect DEF EngineInv, Place, Result
  <2>2. Place' /\ Dues' /\ ~Acting'
    BY <1>1, <1>2, <2>1 DEF Place, Waits, Dues, Acting
  <2>. QED BY <1>1, <2>1, <2>2, OnlyOpMoves DEF Beginning
<1>4. ASSUME r # None, r.state \in {"Waiting", "Suspended"}, op' = [op EXCEPT ![Agent] = o]
      PROVE  Moved
  <2>1. Mine' = o /\ Others'
    BY <1>2, <1>4, MineChange DEF EngineInv, Place
  <2>2. Mine'.pc = "save" /\ Mine'.thread = t /\ Mine'.rec = Resumed(r)
    BY <1>2, <2>1 DEF Mine, Operation
  <2>4. Place' /\ ~Acting'
    BY <1>1, <1>2, <2>1, <2>2 DEF Place, Waits, Acting
  <2>5. Dues'
    BY <1>1, <2>2 DEF EngineInv, Dues, BusyOn
  <2>. QED BY <1>1, <2>2, <2>4, <2>5, OnlyOpMoves DEF Beginning
<1>. QED BY <1>3, <1>4 DEF ResumeLoad, Mine

LEMMA ResumeSaveMoves ==
    ASSUME EngineInv, ResumeSave(Agent), UNCHANGED <<boardVars, routerVars>>
    PROVE  Moved
<1>. DEFINE t == Mine.thread
<1>1. /\ Mine.pc = "save" /\ task.pc \in {"routing", "resuming"} /\ ~Acting
      /\ UNCHANGED <<loop, running, completed, task, phase, posted, pending>>
  BY Handlers DEF ResumeSave, Mine, Acting, boardVars, routerVars
<1>2. /\ t = task.thread /\ t \in Threads /\ t \in Conversations /\ OpsInv /\ Mine.rec \in Record
      /\ store \in [Threads -> Record \cup {None}] /\ phase = "up"
      /\ \A h \in Loops : loop[h].pc \in Busy => loop[h].thread \in Threads
  BY <1>1, OperationFacts
<1>3. Mine'.pc = "start" /\ Mine'.thread = t /\ Mine'.rec = Mine.rec /\ Others'
  BY <1>2, StepEffect DEF ResumeSave, EngineInv, Place, OpPC
<1>4. /\ store'[t] = Mine.rec /\ Mine.rec # None
      /\ \A k \in Threads : k # t => store'[k] = store[k]
  BY <1>2, NoneAssumption DEF ResumeSave, Mine
<1>5. (\A h \in Loops : ~BusyOn(h, t)) /\ completed[t] = None
  BY <1>1 DEF EngineInv, Dues
<1>6. Place' /\ ~Acting'
  BY <1>1, <1>2, <1>3 DEF Place, Waits, Acting
<1>7. Turns'
  BY <1>1, <1>2, <1>4, <1>5 DEF EngineInv, Turns, AtWork, TurnOK, Held, BusyOn
<1>8. Dues'
  BY <1>1, <1>3, <1>4, <1>5 DEF Dues, BusyOn
<1>9. Known'
  BY ConversationsAreThreads, <1>1, <1>3, <1>4, <1>6, RouterAssumption DEF EngineInv, Known, Types, RouterTypes
<1>10. Published'
  BY ConversationsAreThreads, <1>1, <1>4, <1>5 DEF EngineInv, Published, GatesOf
<1>11. Cleared'
  BY <1>1, <1>3, ClearedMoves DEF InTurn, AtWork, Beginning
<1>. QED BY <1>6, <1>7, <1>8, <1>9, <1>10, <1>11 DEF Moved

\* The turn begins: no other loop is at work on the thread.
LEMMA StartLoopMoves ==
    ASSUME EngineInv, NEW h \in Loops, StartLoop(Agent, h), UNCHANGED <<boardVars, routerVars>>
    PROVE  Moved
<1>. DEFINE t == Mine.thread
            o == [op[Agent] EXCEPT !.pc = "register", !.loop = h]
            l == [VacantLoop EXCEPT !.pc = "begin", !.thread = t, !.rec = Mine.rec]
<1>1. /\ Mine.pc = "start" /\ task.pc \in {"routing", "resuming"} /\ ~Acting
      /\ UNCHANGED <<store, running, completed, task, phase, posted, pending>>
  BY Handlers DEF StartLoop, Mine, Acting, boardVars, routerVars
<1>2. /\ t = task.thread /\ t \in Threads /\ t \in Conversations /\ OpsInv /\ Mine \in Operation
      /\ Mine.rec \in Record /\ phase = "up"
  BY <1>1, OperationFacts
<1>3. Mine' = o /\ Others'
  BY <1>2, MineChange DEF StartLoop, EngineInv, Place
<1>4. Mine'.pc = "register" /\ Mine'.thread = t /\ Mine'.loop = h
  BY <1>2, <1>3 DEF Mine, Operation
<1>5. l.pc = "begin" /\ l.thread = t /\ l.rec = Mine.rec
  BY VacantLoopType DEF LoopTask
<1>6. loop'[h] = l /\ \A k \in Loops : k # h => loop'[k] = loop[k]
  BY DEF StartLoop, Mine, EngineInv, Types, ManagerInv, LoopsInv
<1>7. /\ \A k \in Loops : ~BusyOn(k, t)
      /\ completed[t] = None /\ store[t] # None
  BY <1>1 DEF EngineInv, Dues
<1>8. Place' /\ Acting'
  BY <1>1, <1>2, <1>3, <1>4 DEF Place, Waits, Acting
<1>9. Turns'
  <2>1. TurnOK(h)'
    BY <1>1, <1>2, <1>4, <1>5, <1>6, <1>7, <1>8 DEF AtWork, TurnOK, Held
  <2>2. ASSUME NEW k \in Loops, k # h, AtWork(k)' PROVE TurnOK(k)'
    BY <1>1, <1>6, <2>2 DEF EngineInv, Turns, AtWork, TurnOK, Held
  <2>. QED BY <2>1, <2>2 DEF Turns, AtWork
<1>10. Dues'
  BY <1>1, <1>4, <1>6, <1>7 DEF Dues, BusyOn
<1>11. Known'
  BY <1>1, <1>2, <1>4, <1>7 DEF EngineInv, Known
<1>12. Published'
  BY <1>1 DEF EngineInv, Published, GatesOf
<1>13. Cleared'
  <2>1. /\ Mine.pc \in Beginning /\ loop'[h].thread = Mine.thread
        /\ \A k \in Loops : k # h => (InTurn(k)' <=> InTurn(k)) /\ loop'[k].thread = loop[k].thread
    BY <1>1, <1>5, <1>6 DEF InTurn, AtWork, Beginning
  <2>2. \A k \in Loops : InTurn(k)' => \/ (loop'[k].thread = loop[k].thread /\ InTurn(k))
                                       \/ (loop'[k].thread = Mine.thread /\ Mine.pc \in Beginning)
    BY <2>1
  <2>. QED BY <1>4, <2>1, <2>2, ClearedMoves
<1>. QED BY <1>8, <1>9, <1>10, <1>11, <1>12, <1>13 DEF Moved

LEMMA RegisterMoves ==
    ASSUME EngineInv, Register(Agent), UNCHANGED <<boardVars, routerVars>>
    PROVE  Moved
<1>. DEFINE t == Mine.thread
<1>1. /\ Mine.pc = "register" /\ task.pc \in {"routing", "resuming"} /\ Acting
      /\ UNCHANGED <<store, loop, completed, task, phase, posted, pending>>
  BY Handlers DEF Register, Mine, Acting, boardVars, routerVars
<1>2. /\ t = task.thread /\ t \in Threads /\ t \in Conversations /\ OpsInv /\ Mine.loop \in Loops
      /\ running \in [Threads -> Loops \cup {None}]
      /\ \A h \in Loops : loop[h].pc \in Busy => loop[h].thread \in Threads
  BY <1>1, OperationFacts
<1>3. Mine'.pc = "returned" /\ Mine'.result = "Ok" /\ Mine'.thread = t /\ Others'
  BY <1>2, ReturnEffect DEF Register, EngineInv, Place, Result
<1>4. running'[t] = Mine.loop /\ \A k \in Threads : k # t => running'[k] = running[k]
  BY <1>2 DEF Register, Mine
<1>5. Place' /\ Acting'
  BY <1>1, <1>2, <1>3 DEF Place, Waits, Acting
<1>6. Turns'
  <2>1. ASSUME NEW h \in Loops, AtWork(h) PROVE Held(h)'
    BY <1>1, <1>2, <1>4, <2>1 DEF EngineInv, Turns, AtWork, TurnOK, Held, Dues, BusyOn
  <2>. QED BY <1>1, <1>5, <2>1 DEF EngineInv, Turns, AtWork, TurnOK
<1>7. Dues'
  BY <1>1, <1>3 DEF Dues
<1>8. store[t] # None
  BY <1>1, <1>2 DEF EngineInv, Known
<1>9. Known'
  BY ConversationsAreThreads, <1>1, <1>2, <1>3, <1>4, <1>8 DEF EngineInv, Known
<1>10. Published'
  BY <1>1 DEF EngineInv, Published, GatesOf
<1>11. Cleared'
  BY <1>1, <1>3, ClearedMoves DEF InTurn, AtWork, Beginning
<1>. QED BY <1>5, <1>6, <1>7, <1>9, <1>10, <1>11 DEF Moved

\* A signal changes nothing of a loop but its channel.
LEMMA DeliverEffect ==
    ASSUME LoopsInv, NEW h \in Loops, NEW s \in Signal, Deliver(h, s)
    PROVE  \A k \in Loops : /\ loop'[k].pc = loop[k].pc
                            /\ loop'[k].thread = loop[k].thread
                            /\ loop'[k].rec = loop[k].rec
                            /\ loop'[k].outcome = loop[k].outcome
<1>. DEFINE l == [loop[h] EXCEPT !.inbox = Append(loop[h].inbox, s)]
<1>1. CASE loop[h].pc = "finished"
  BY <1>1 DEF Deliver
<1>2. CASE loop[h].pc # "finished"
  <2>1. /\ l.pc = loop[h].pc /\ l.thread = loop[h].thread
        /\ l.rec = loop[h].rec /\ l.outcome = loop[h].outcome
    BY DEF LoopsInv, LoopTask
  <2>2. \A k \in Loops : loop'[k] = IF k = h THEN l ELSE loop[k]
    BY <1>2 DEF LoopsInv, Deliver
  <2>. QED BY <2>1, <2>2
<1>. QED BY <1>1, <1>2

\* The loops keep everything but their channels, and no turn is left.
LEMMA SendingMoves ==
    ASSUME EngineInv, UNCHANGED <<store, running, completed, boardVars, routerVars>>,
           Mine.pc \in {"stop", "inject", "sending"}, Others',
           Mine'.pc \in {"sending", "returned"}, Mine'.thread = Mine.thread,
           store[Mine.thread] # None \/ (Mine'.pc = "returned" /\ Mine'.result # "Ok"),
           \A k \in Loops : /\ loop'[k].pc = loop[k].pc
                            /\ loop'[k].thread = loop[k].thread
                            /\ loop'[k].rec = loop[k].rec
                            /\ loop'[k].outcome = loop[k].outcome
    PROVE  Moved
<1>1. UNCHANGED <<task, phase, posted, pending>> /\ task.pc # "joining" /\ ~Acting
  BY Handlers DEF boardVars, routerVars, Acting
<1>2. task.pc \in {"routing", "stopping", "interrupt", "clear"} /\ Mine.thread = task.thread
      /\ task.thread \in Conversations
  BY Handlers, OperationFacts
<1>3. Place'
  BY <1>1, <1>2 DEF Place, Waits
<1>4. Turns'
  BY <1>1 DEF EngineInv, Turns, AtWork, TurnOK, Held
<1>5. Dues'
  BY <1>1, <1>2 DEF Dues
<1>6. Acting' => store[task.thread] # None
  BY <1>1, <1>2 DEF Acting
<1>7. Known'
  BY <1>1, <1>2, <1>6 DEF EngineInv, Known
<1>8. Published'
  BY <1>1 DEF EngineInv, Published, GatesOf
<1>9. Cleared'
  BY ClearedMoves DEF InTurn, AtWork, Beginning
<1>. QED BY <1>3, <1>4, <1>5, <1>7, <1>8, <1>9 DEF Moved

LEMMA SendMoves ==
    ASSUME EngineInv, Send(Agent), UNCHANGED <<boardVars, routerVars>>
    PROVE  Moved
<1>. DEFINE t == Mine.thread
            h == running[t]
            s == IF Mine.pc = "stop" THEN "Stop" ELSE "Inject"
            o == [op[Agent] EXCEPT !.pc = "sending", !.loop = h, !.signal = s]
<1>1. Mine.pc \in {"stop", "inject"} /\ UNCHANGED <<store, running, completed>>
  BY DEF Send, Mine
<1>2. /\ t \in Threads /\ t \in Conversations /\ OpsInv /\ Mine \in Operation
      /\ running \in [Threads -> Loops \cup {None}]
  BY <1>1, OperationFacts
<1>3. h # None => store[t] # None
  BY <1>2 DEF EngineInv, Known
<1>4. CASE h = None /\ Return(Agent, "NotFound") /\ UNCHANGED loop
  <2>1. Mine'.pc = "returned" /\ Mine'.result = "NotFound" /\ Mine'.thread = t /\ Others'
    BY <1>2, <1>4, ReturnEffect DEF EngineInv, Place, Result
  <2>. QED BY <1>1, <1>4, <2>1, SendingMoves
<1>5. CASE h # None /\ Deliver(h, s) /\ Return(Agent, "Ok")
  <2>1. Mine'.pc = "returned" /\ Mine'.thread = t /\ Others'
    BY <1>2, <1>5, ReturnEffect DEF EngineInv, Place, Result
  <2>2. h \in Loops /\ s \in Signal /\ LoopsInv
    BY <1>2, <1>5 DEF Signal, EngineInv, Types, ManagerInv
  <2>. QED BY <1>1, <1>3, <1>5, <2>1, <2>2, DeliverEffect, SendingMoves
<1>6. CASE h # None /\ op' = [op EXCEPT ![Agent] = o] /\ UNCHANGED loop
  <2>1. Mine' = o /\ Others'
    BY <1>2, <1>6, MineChange DEF EngineInv, Place
  <2>2. Mine'.pc = "sending" /\ Mine'.thread = t
    BY <1>2, <2>1 DEF Mine, Operation
  <2>. QED BY <1>1, <1>3, <1>6, <2>1, <2>2, SendingMoves
<1>. QED BY <1>4, <1>5, <1>6 DEF Send, Mine

LEMMA SendLateMoves ==
    ASSUME EngineInv, SendLate(Agent), UNCHANGED <<boardVars, routerVars>>
    PROVE  Moved
<1>1. Mine.pc = "sending" /\ UNCHANGED <<store, running, completed>>
  BY DEF SendLate, Mine
<1>2. OpsInv /\ Mine \in Operation /\ Mine.loop \in Loops
  BY <1>1, OperationFacts
<1>3. Mine'.pc = "returned" /\ Mine'.thread = Mine.thread /\ Others'
  BY <1>2, ReturnEffect DEF SendLate, EngineInv, Place, Result
<1>4. store[Mine.thread] # None
  BY <1>1 DEF EngineInv, Known
<1>5. LoopsInv /\ Mine.signal \in Signal /\ Deliver(Mine.loop, Mine.signal)
  BY <1>2 DEF EngineInv, Types, ManagerInv, Operation, SendLate, Mine
<1>. QED BY <1>1, <1>2, <1>3, <1>4, <1>5, DeliverEffect, SendingMoves

\* An outcome is published by a loop that does not act any more.
LEMMA JoinMoves ==
    ASSUME EngineInv, Join(Agent), UNCHANGED <<boardVars, routerVars>>
    PROVE  Moved
<1>. DEFINE t == Mine.thread
<1>1. /\ Mine.pc = "join" /\ task.pc = "joining" /\ Acting
      /\ UNCHANGED <<store, loop, running, task, phase, posted, pending>>
  BY Handlers DEF Join, Mine, Acting, boardVars, routerVars
<1>2. /\ t = task.thread /\ t \in Threads /\ t \in Conversations /\ OpsInv
      /\ completed \in [Threads -> Outcome \cup {None}]
      /\ \A h \in Loops : loop[h].pc \in Busy => loop[h].thread \in Threads
  BY <1>1, OperationFacts
<1>3. CASE completed[t] = None
  <2>1. Step(Agent, "take") /\ UNCHANGED completed
    BY <1>3 DEF Join, Mine
  <2>2. Mine'.pc = "take" /\ Mine'.thread = t /\ Others'
    BY <1>2, <2>1, StepEffect DEF EngineInv, Place, OpPC
  <2>3. Place' /\ Acting' /\ Dues'
    BY <1>1, <1>2, <2>2 DEF Place, Acting, Dues
  <2>4. store[task.thread] # None
    BY <1>1 DEF EngineInv, Known
  <2>. QED BY <1>1, <2>1, <2>2, <2>3, <2>4, OnlyOpMoves DEF Beginning
<1>4. CASE completed[t] # None
  <2>1. /\ Return(Agent, completed[t])
        /\ completed'[t] = None /\ \A k \in Threads : k # t => completed'[k] = completed[k]
    BY <1>2, <1>4 DEF Join, Mine
  <2>2. completed[t] \in Result \cup {None}
    BY <1>2 DEF Result
  <2>3. Mine'.pc = "returned" /\ Mine'.thread = t /\ Others'
    BY <1>2, <2>1, <2>2, ReturnEffect DEF EngineInv, Place
  <2>4. Place' /\ ~Acting'
    BY <1>1, <1>2, <2>3 DEF Place, Acting
  <2>5. Turns'
    BY <1>1, <1>2, <1>4, <2>1 DEF EngineInv, Turns, AtWork, TurnOK, Held
  <2>6. Dues'
    BY <1>1, <1>2, <2>1, <2>3 DEF Dues
  <2>7. Known'
    BY <1>1, <2>3 DEF EngineInv, Known
  <2>8. Published'
    BY ConversationsAreThreads, <1>1, <2>1 DEF EngineInv, Published, GatesOf
  <2>9. Cleared'
    BY <1>1, <2>3, ClearedMoves DEF InTurn, AtWork, Beginning
  <2>. QED BY <2>4, <2>5, <2>6, <2>7, <2>8, <2>9 DEF Moved
<1>. QED BY <1>3, <1>4

LEMMA JoinTakeMoves ==
    ASSUME EngineInv, JoinTake(Agent), UNCHANGED <<boardVars, routerVars>>
    PROVE  Moved
<1>. DEFINE t == Mine.thread
            h == running[t]
            o == [op[Agent] EXCEPT !.pc = "awaiting", !.loop = h]
<1>1. /\ Mine.pc = "take" /\ task.pc = "joining" /\ Acting
      /\ UNCHANGED <<store, loop, completed, task, phase, posted, pending>>
  BY Handlers DEF JoinTake, Mine, Acting, boardVars, routerVars
<1>2. /\ t = task.thread /\ t \in Threads /\ t \in Conversations /\ OpsInv /\ Mine \in Operation
      /\ running \in [Threads -> Loops \cup {None}]
      /\ \A k \in Loops : loop[k].pc \in Busy => loop[k].thread \in Threads
  BY <1>1, OperationFacts
<1>3. \A k \in Loops : BusyOn(k, t) => k = h
  BY <1>2, <1>1 DEF EngineInv, Turns, AtWork, TurnOK, Held, BusyOn
<1>4. Published'
  BY <1>1 DEF EngineInv, Published, GatesOf
<1>5. CASE h = None
  <2>1. Return(Agent, "NotFound") /\ UNCHANGED running
    BY <1>5 DEF JoinTake, Mine
  <2>2. Mine'.pc = "returned" /\ Mine'.result = "NotFound" /\ Mine'.thread = t /\ Others'
    BY <1>2, <2>1, ReturnEffect DEF EngineInv, Place, Result
  <2>3. Place' /\ ~Acting' /\ Dues'
    BY <1>1, <1>2, <2>2 DEF Place, Acting, Dues, Outcome
  <2>4. \A k \in Loops : ~BusyOn(k, t)
    BY <1>3, <1>5, NoneAssumption
  <2>5. Turns'
    BY <1>1, <1>2, <2>1, <2>4 DEF EngineInv, Turns, AtWork, TurnOK, Held, BusyOn
  <2>6. Known'
    BY <1>1, <2>1, <2>2 DEF EngineInv, Known
  <2>7. Cleared'
    BY <1>1, <2>2, ClearedMoves DEF InTurn, AtWork, Beginning
  <2>. QED BY <1>4, <2>3, <2>5, <2>6, <2>7 DEF Moved
<1>6. CASE h # None
  <2>1. /\ op' = [op EXCEPT ![Agent] = o]
        /\ running'[t] = None /\ \A k \in Threads : k # t => running'[k] = running[k]
    BY <1>2, <1>6 DEF JoinTake, Mine
  <2>2. Mine' = o /\ Others'
    BY <1>2, <2>1, MineChange DEF EngineInv, Place
  <2>3. Mine'.pc = "awaiting" /\ Mine'.thread = t /\ Mine'.loop = h
    BY <1>2, <2>2 DEF Mine, Operation
  <2>4. Place' /\ Acting'
    BY <1>1, <1>2, <2>2, <2>3 DEF Place, Acting
  <2>5. Turns'
    <3>1. ASSUME NEW k \in Loops, AtWork(k) PROVE Held(k)'
      BY <1>1, <1>2, <1>3, <2>1, <2>3, <3>1 DEF EngineInv, Turns, AtWork, TurnOK, Held, BusyOn
    <3>. QED BY <1>1, <2>4, <3>1 DEF EngineInv, Turns, AtWork, TurnOK
  <2>6. Dues'
    BY <1>1, <1>3, <2>3 DEF Dues, BusyOn
  <2>7. Known'
    BY ConversationsAreThreads, <1>1, <2>1, <2>3 DEF EngineInv, Known
  <2>8. Cleared'
    BY <1>1, <2>3, ClearedMoves DEF InTurn, AtWork, Beginning
  <2>. QED BY <1>4, <2>4, <2>5, <2>6, <2>7, <2>8 DEF Moved
<1>. QED BY <1>5, <1>6

LEMMA JoinAwaitMoves ==
    ASSUME EngineInv, JoinAwait(Agent), UNCHANGED <<boardVars, routerVars>>
    PROVE  Moved
<1>. DEFINE t == Mine.thread
<1>1. /\ Mine.pc = "awaiting" /\ task.pc = "joining" /\ loop[Mine.loop].pc = "finished"
      /\ UNCHANGED <<store, loop, running, completed, task, phase, posted, pending>>
  BY Handlers DEF JoinAwait, Mine, boardVars, routerVars
<1>2. /\ t = task.thread /\ t \in Threads /\ t \in Conversations /\ OpsInv
  BY <1>1, OperationFacts
<1>3. Mine'.pc = "clear" /\ Mine'.thread = t /\ Others'
  BY <1>2, StepEffect DEF JoinAwait, EngineInv, Place, OpPC
<1>4. \A k \in Loops : ~BusyOn(k, t)
  BY <1>1 DEF EngineInv, Dues, BusyOn, Busy
<1>5. Place' /\ ~Acting' /\ Dues'
  BY <1>1, <1>2, <1>3 DEF Place, Acting, Dues
<1>6. Turns'
  BY <1>1, <1>2, <1>4 DEF EngineInv, Turns, AtWork, TurnOK, Held, BusyOn
<1>7. Known'
  BY <1>1, <1>3 DEF EngineInv, Known
<1>8. Published'
  BY <1>1 DEF EngineInv, Published, GatesOf
<1>9. Cleared'
  BY <1>1, <1>3, ClearedMoves DEF InTurn, AtWork, Beginning
<1>. QED BY <1>5, <1>6, <1>7, <1>8, <1>9 DEF Moved

LEMMA JoinClearMoves ==
    ASSUME EngineInv, JoinClear(Agent), UNCHANGED <<boardVars, routerVars>>
    PROVE  Moved
<1>. DEFINE t == Mine.thread
            r == loop[Mine.loop].outcome
<1>1. /\ Mine.pc = "clear" /\ task.pc = "joining" /\ ~Acting
      /\ UNCHANGED <<store, loop, running, task, phase, posted, pending>>
  BY Handlers DEF JoinClear, Mine, Acting, boardVars, routerVars
<1>2. /\ t = task.thread /\ t \in Threads /\ t \in Conversations /\ OpsInv /\ Mine.loop \in Loops
      /\ completed \in [Threads -> Outcome \cup {None}]
      /\ \A h \in Loops : loop[h].pc \in Busy => loop[h].thread \in Threads
  BY <1>1, OperationFacts
<1>3. r \in Result \cup {None}
  BY <1>2 DEF EngineInv, Types, ManagerInv, LoopsInv, LoopTask, Result
<1>4. Mine'.pc = "returned" /\ Mine'.thread = t /\ Others'
  BY <1>2, <1>3, ReturnEffect DEF JoinClear, EngineInv, Place, Mine
<1>5. completed'[t] = None /\ \A k \in Threads : k # t => completed'[k] = completed[k]
  BY <1>2 DEF JoinClear, Mine
<1>6. Place' /\ ~Acting' /\ Dues'
  BY <1>1, <1>2, <1>4, <1>5 DEF Place, Acting, Dues
<1>7. Turns'
  BY <1>1, <1>2, <1>5 DEF EngineInv, Turns, AtWork, TurnOK, Held
<1>8. Known'
  BY <1>1, <1>4 DEF EngineInv, Known
<1>9. Published'
  BY ConversationsAreThreads, <1>1, <1>5 DEF EngineInv, Published, GatesOf
<1>10. Cleared'
  BY <1>1, <1>4, ClearedMoves DEF InTurn, AtWork, Beginning
<1>. QED BY <1>6, <1>7, <1>8, <1>9, <1>10 DEF Moved

LEMMA OperateKeeps ==
    ASSUME EngineInv, Operate
    PROVE  EngineInv'
<1>1. Moved
  BY SpawnMoves, ResumeCheckMoves, ResumeLoadMoves, ResumeSaveMoves, StartLoopMoves,
     RegisterMoves, SendMoves, SendLateMoves, JoinMoves, JoinTakeMoves, JoinAwaitMoves,
     JoinClearMoves
     DEF Operate, OperationStep
<1>2. UNCHANGED <<task, conv, web, callbacks, phase, posted, pending, resolved>>
  BY DEF Operate, boardVars, routerVars
<1>3. ManagerInv'
  BY OperationStepKeeps, RouterAssumption DEF Operate, EngineInv, Types
<1>4. RouterTypes'
  BY <1>2 DEF EngineInv, Types, RouterTypes
<1>5. Mine.pc \notin {"idle", "returned"}
  BY DEF Operate, OperationStep, Mine, Spawn, ResumeCheck, ResumeLoad, ResumeSave,
         StartLoop, Register, Send, SendLate, Join, JoinTake, JoinAwait, JoinClear
<1>6. Down'
  BY <1>2, <1>5, OperationFacts DEF Down
<1>. QED BY <1>1, <1>3, <1>4, <1>6 DEF EngineInv, Types, Moved

-----------------------------------------------------------------------------
(* The engine bridge: the steps of a loop.                                 *)

\* No two loops are at work on a thread.
LEMMA OneTurn ==
    ASSUME EngineInv, NEW h \in Loops, NEW k \in Loops,
           AtWork(h), AtWork(k), loop[h].thread = loop[k].thread
    PROVE  h = k
<1>1. Held(h) /\ Held(k)
  BY DEF EngineInv, Turns, AtWork, TurnOK
<1>2. CASE Mine.pc \in {"register", "awaiting"} /\ Mine.thread = loop[h].thread
  BY <1>2 DEF EngineInv, Dues, BusyOn, AtWork
<1>3. CASE ~(Mine.pc \in {"register", "awaiting"} /\ Mine.thread = loop[h].thread)
  BY <1>1, <1>3 DEF Held
<1>. QED BY <1>2, <1>3

LEMMA LoopEffect ==
    ASSUME LoopsInv, NEW h \in Loops, NEW p, NEW r, NEW out, NEW q,
           Loop(h, p, r, out, q)
    PROVE  /\ loop'[h].pc = p /\ loop'[h].rec = r /\ loop'[h].outcome = out
           /\ loop'[h].thread = loop[h].thread
           /\ \A k \in Loops : k # h => loop'[k] = loop[k]
<1>. DEFINE l == [loop[h] EXCEPT !.pc = p, !.rec = r, !.outcome = out, !.inbox = q]
<1>1. l.pc = p /\ l.rec = r /\ l.outcome = out /\ l.thread = loop[h].thread
  BY DEF LoopsInv, LoopTask
<1>2. loop'[h] = l /\ \A k \in Loops : k # h => loop'[k] = loop[k]
  BY DEF LoopsInv, Loop
<1>. QED BY <1>1, <1>2

\* What a loop that acts can count on.
LEMMA TurnFacts ==
    ASSUME EngineInv, NEW h \in Loops, InTurn(h)
    PROVE  /\ LoopsInv /\ loop[h].thread \in Threads /\ loop[h].rec \in Record
           /\ loop[h].inbox \in Seq(Signal)
           /\ store \in [Threads -> Record \cup {None}]
           /\ RecordFits(loop[h].pc, loop[h].rec, loop[h].outcome)
           /\ TurnOK(h) /\ Acting /\ task.thread = loop[h].thread /\ GatesOf(loop[h].thread) = {}
           /\ completed[loop[h].thread] = None /\ store[loop[h].thread] # None
           /\ phase = "up" /\ Mine.pc \notin {"spawn", "resume", "load", "save", "start"}
           /\ task.pc \notin {"post", "fallback", "execute"}
           /\ ~(task.pc = "joining" /\ Mine.pc = "returned")
<1>1. LoopsInv /\ StoreInv
  BY DEF EngineInv, Types, ManagerInv
<1>2. TurnOK(h) /\ Acting /\ task.thread = loop[h].thread
      /\ completed[loop[h].thread] = None /\ store[loop[h].thread] # None
      /\ GatesOf(loop[h].thread) = {} /\ loop[h].pc \in Busy
  BY DEF EngineInv, Turns, TurnOK, InTurn, AtWork, Cleared, TurnsCleared
<1>3. phase = "up" /\ task.pc \notin {"post", "fallback", "execute"}
      /\ ~(task.pc = "joining" /\ Mine.pc = "returned")
      /\ Mine.pc \notin {"spawn", "resume", "load", "save", "start"}
  BY <1>2 DEF EngineInv, Place, Down, Acting, InTurn
<1>. QED BY <1>1, <1>2, <1>3, LoopFacts DEF StoreInv

\* A step of a loop that acts before and after it.  Only its own thread's
\* record changes.
LEMMA TurnStep ==
    ASSUME EngineInv, NEW h \in Loops, InTurn(h),
           UNCHANGED <<running, completed, op, boardVars, routerVars>>,
           loop'[h].thread = loop[h].thread,
           loop'[h].pc \in {"check", "work", "wrapup", "final", "report"},
           \A k \in Loops : k # h => loop'[k] = loop[k],
           store'[loop[h].thread] # None,
           \A k \in Threads : k # loop[h].thread => store'[k] = store[k],
           loop'[h].pc = "report" => store'[loop[h].thread] = loop'[h].rec
    PROVE  Moved
<1>. DEFINE t == loop[h].thread
<1>1. /\ t \in Threads /\ TurnOK(h) /\ Acting /\ task.thread = t /\ completed[t] = None
      /\ phase = "up" /\ Mine.pc \notin {"spawn", "resume", "load", "save", "start"}
      /\ task.pc \notin {"post", "fallback", "execute"} /\ ~(task.pc = "joining" /\ Mine.pc = "returned")
  BY TurnFacts
<1>2. UNCHANGED <<task, phase, posted, pending>> /\ Mine' = Mine /\ (Acting' <=> Acting)
  BY DEF boardVars, routerVars, Mine, Acting
<1>3. Place'
  BY <1>2 DEF EngineInv, Place, Others
<1>4. Turns'
  <2>1. TurnOK(h)'
    BY <1>1, <1>2 DEF TurnOK, Held
  <2>2. ASSUME NEW k \in Loops, k # h, AtWork(k)' PROVE TurnOK(k)'
    <3>1. loop'[k] = loop[k] /\ AtWork(k) /\ TurnOK(k)
      BY <2>2 DEF EngineInv, Turns, AtWork
    <3>2. loop[k].thread # t /\ loop[k].thread \in Threads
      BY <2>2, <3>1, OneTurn, ConversationsAreThreads DEF AtWork, InTurn
    <3>. QED BY <1>2, <3>1, <3>2 DEF TurnOK, Held
  <2>. QED BY <2>1, <2>2 DEF Turns, AtWork
<1>5. Dues'
  <2>1. \A k \in Loops : \A s : BusyOn(k, s)' => BusyOn(k, s)
    BY DEF BusyOn, InTurn, AtWork
  <2>. QED BY <1>1, <1>2, <2>1 DEF EngineInv, Dues
<1>6. \A k \in Threads : store[k] # None => store'[k] # None
  OBVIOUS
<1>7. Known'
  <2>1. Mine.pc = "sending" => Mine.thread \in Threads
    BY OperationFacts
  <2>2. \A g \in posted : KeyOf[g] \in Threads
    BY RouterAssumption DEF EngineInv, Types, RouterTypes
  <2>. QED BY ConversationsAreThreads, <1>1, <1>2, <1>6, <2>1, <2>2 DEF EngineInv, Known
<1>8. Published'
  BY ConversationsAreThreads, <1>1, <1>2 DEF EngineInv, Published, GatesOf
<1>9. Cleared'
  BY ClearedMoves, <1>2 DEF InTurn, AtWork, Beginning
<1>. QED BY <1>3, <1>4, <1>5, <1>7, <1>8, <1>9 DEF Moved

LEMMA LoopBeginMoves ==
    ASSUME EngineInv, NEW h \in Loops, LoopBegin(h),
           UNCHANGED <<boardVars, routerVars>>, loop[h].thread \in Conversations
    PROVE  Moved
<1>. DEFINE me == loop[h]
            rec == [me.rec EXCEPT !.state = "Running"]
<1>1. me.pc = "begin" /\ UNCHANGED <<running, completed, op>>
  BY DEF LoopBegin
<1>2. /\ LoopsInv /\ me.thread \in Threads /\ me.rec \in Record
      /\ store \in [Threads -> Record \cup {None}] /\ me.rec.state \in Startable
  BY <1>1, TurnFacts DEF InTurn, AtWork, Busy, RecordFits
<1>3. CanTransition(me.rec.state, "Running")
  BY <1>1, <1>2 DEF Startable, CanTransition, Transitions
<1>4. Loop(h, "check", rec, None, me.inbox) /\ SaveRecord(me.thread, rec)
  BY <1>3 DEF LoopBegin
<1>5. rec # None
  <2>1. "Running" \in ThreadState
    BY DEF ThreadState
  <2>2. rec \in Record
    BY <1>2, <2>1, RecordChange
  <2>. QED BY <2>2, NoneAssumption
<1>6. /\ loop'[h].pc = "check" /\ loop'[h].thread = me.thread
      /\ \A k \in Loops : k # h => loop'[k] = loop[k]
  BY <1>2, <1>4, LoopEffect
<1>7. /\ store'[me.thread] # None
      /\ \A k \in Threads : k # me.thread => store'[k] = store[k]
  BY <1>2, <1>4, <1>5 DEF SaveRecord
<1>. QED BY <1>1, <1>6, <1>7, TurnStep DEF InTurn, AtWork, Busy

LEMMA LoopCheckMoves ==
    ASSUME EngineInv, NEW h \in Loops, LoopCheck(h),
           UNCHANGED <<boardVars, routerVars>>, loop[h].thread \in Conversations
    PROVE  Moved
<1>. DEFINE me == loop[h]
            rec == [me.rec EXCEPT !.state = "Completed"]
<1>1. me.pc = "check" /\ UNCHANGED <<store, running, completed, op>>
  BY DEF LoopCheck
<1>2. LoopsInv /\ me.rec \in Record /\ store[me.thread] # None
  BY <1>1, TurnFacts DEF InTurn, AtWork, Busy
<1>3. \/ \E q : Loop(h, "work", me.rec, None, q)
      \/ \E q : Loop(h, "wrapup", rec, "Stopped", q)
  BY DEF LoopCheck
<1>4. /\ loop'[h].pc \in {"work", "wrapup"} /\ loop'[h].thread = me.thread
      /\ \A k \in Loops : k # h => loop'[k] = loop[k]
  BY <1>2, <1>3, LoopEffect
<1>. QED BY <1>1, <1>2, <1>4, TurnStep, TurnFacts DEF InTurn, AtWork, Busy

LEMMA LoopWorkMoves ==
    ASSUME EngineInv, NEW h \in Loops, NEW next \in WorkResult, LoopWork(h, next),
           UNCHANGED <<boardVars, routerVars>>, loop[h].thread \in Conversations
    PROVE  Moved
<1>. DEFINE me == loop[h]
<1>1. me.pc = "work" /\ UNCHANGED <<store, running, completed, op>>
  BY DEF LoopWork
<1>2. LoopsInv /\ me.rec \in Record /\ store[me.thread] # None
  BY <1>1, TurnFacts DEF InTurn, AtWork, Busy
<1>3. \E p \in {"check", "wrapup"} : \E r, out, q : Loop(h, p, r, out, q)
  BY DEF LoopWork, WorkResult
<1>4. /\ loop'[h].pc \in {"check", "wrapup"} /\ loop'[h].thread = me.thread
      /\ \A k \in Loops : k # h => loop'[k] = loop[k]
  BY <1>2, <1>3, LoopEffect
<1>. QED BY <1>1, <1>2, <1>4, TurnStep, TurnFacts DEF InTurn, AtWork, Busy

LEMMA LoopWrapupMoves ==
    ASSUME EngineInv, NEW h \in Loops, LoopWrapup(h),
           UNCHANGED <<boardVars, routerVars>>, loop[h].thread \in Conversations
    PROVE  Moved
<1>. DEFINE me == loop[h]
            rec == [me.rec EXCEPT !.ckpt = FALSE]
<1>1. /\ me.pc = "wrapup" /\ UNCHANGED <<running, completed, op>>
      /\ Loop(h, "final", rec, me.outcome, me.inbox) /\ SaveRecord(me.thread, rec)
  BY DEF LoopWrapup
<1>2. /\ LoopsInv /\ me.thread \in Threads /\ me.rec \in Record /\ TurnOK(h)
      /\ store \in [Threads -> Record \cup {None}]
  BY <1>1, TurnFacts DEF InTurn, AtWork, Busy
<1>3. rec \in Record /\ rec.state = me.rec.state
  BY <1>2 DEF Record
<1>4. rec # None
  BY <1>3, NoneAssumption
<1>5. /\ loop'[h].pc = "final" /\ loop'[h].thread = me.thread
      /\ loop'[h].outcome = me.outcome /\ loop'[h].rec = rec
      /\ \A k \in Loops : k # h => loop'[k] = loop[k]
  BY <1>1, <1>2, LoopEffect
<1>6. /\ store'[me.thread] = rec
      /\ \A k \in Threads : k # me.thread => store'[k] = store[k]
  BY <1>1, <1>2 DEF SaveRecord
<1>. QED BY <1>1, <1>3, <1>4, <1>5, <1>6, TurnStep DEF InTurn, AtWork, Busy

LEMMA LoopFinalMoves ==
    ASSUME EngineInv, NEW h \in Loops, LoopFinal(h),
           UNCHANGED <<boardVars, routerVars>>, loop[h].thread \in Conversations
    PROVE  Moved
<1>. DEFINE me == loop[h]
            rec == IF me.rec.state = "Completed"
                   THEN [me.rec EXCEPT !.state = "Done"] ELSE me.rec
<1>1. /\ me.pc = "final" /\ UNCHANGED <<running, completed, op>>
      /\ Loop(h, "report", rec, me.outcome, me.inbox) /\ SaveRecord(me.thread, rec)
  BY DEF LoopFinal
<1>2. /\ LoopsInv /\ me.thread \in Threads /\ me.rec \in Record /\ TurnOK(h)
      /\ store \in [Threads -> Record \cup {None}]
  BY <1>1, TurnFacts DEF InTurn, AtWork, Busy
<1>3. /\ rec \in Record
      /\ rec.state = IF me.rec.state = "Completed" THEN "Done" ELSE me.rec.state
  BY <1>2 DEF Record, ThreadState
<1>4. rec # None
  BY <1>3, NoneAssumption
<1>5. /\ loop'[h].pc = "report" /\ loop'[h].thread = me.thread
      /\ loop'[h].outcome = me.outcome /\ loop'[h].rec = rec
      /\ \A k \in Loops : k # h => loop'[k] = loop[k]
  BY <1>1, <1>2, LoopEffect
<1>6. /\ store'[me.thread] = rec
      /\ \A k \in Threads : k # me.thread => store'[k] = store[k]
  BY <1>1, <1>2 DEF SaveRecord
<1>. HIDE DEF rec
<1>. QED BY <1>1, <1>4, <1>5, <1>6, TurnStep DEF InTurn, AtWork, Busy

LEMMA LoopReportMoves ==
    ASSUME EngineInv, NEW h \in Loops, LoopReport(h),
           UNCHANGED <<boardVars, routerVars>>, loop[h].thread \in Conversations
    PROVE  Moved
<1>. DEFINE me == loop[h]
            t == me.thread
<1>1. /\ me.pc = "report" /\ UNCHANGED <<store, running, op, task, phase, posted, pending>>
      /\ Loop(h, "remove", me.rec, me.outcome, me.inbox)
  BY DEF LoopReport, boardVars, routerVars
<1>2. /\ LoopsInv /\ t \in Threads /\ TurnOK(h) /\ Acting /\ task.thread = t
      /\ GatesOf(t) = {} /\ RecordFits(me.pc, me.rec, me.outcome)
      /\ phase = "up" /\ Mine.pc \notin {"spawn", "resume", "load", "save", "start"}
      /\ task.pc \notin {"post", "fallback", "execute"} /\ ~(task.pc = "joining" /\ Mine.pc = "returned")
  BY <1>1, TurnFacts DEF InTurn, AtWork, Busy
<1>3. /\ loop'[h].pc = "remove" /\ loop'[h].thread = t
      /\ \A k \in Loops : k # h => loop'[k] = loop[k]
  BY <1>1, <1>2, LoopEffect
<1>4. \A k \in Threads : k # t => completed'[k] = completed[k]
  BY <1>2 DEF LoopReport, EngineInv, Types, ManagerInv, MapsInv
<1>5. Mine' = Mine /\ (Acting' <=> Acting) /\ Place'
  BY <1>1 DEF EngineInv, Place, Others, Mine, Acting
<1>6. Turns'
  <2>1. TurnOK(h)'
    BY <1>1, <1>2, <1>3, <1>5 DEF TurnOK, Held
  <2>2. ASSUME NEW k \in Loops, k # h, AtWork(k)' PROVE TurnOK(k)'
    <3>1. loop'[k] = loop[k] /\ AtWork(k) /\ TurnOK(k)
      BY <1>3, <2>2 DEF EngineInv, Turns, AtWork
    <3>2. loop[k].thread # t /\ loop[k].thread \in Threads
      BY <1>1, <2>2, <3>1, OneTurn, ConversationsAreThreads DEF AtWork, Busy
    <3>. QED BY <1>1, <1>4, <1>5, <3>1, <3>2 DEF TurnOK, Held
  <2>. QED BY <2>1, <2>2 DEF Turns, AtWork
<1>7. Dues'
  <2>1. \A k \in Loops : \A s : BusyOn(k, s)' => BusyOn(k, s)
    BY <1>1, <1>3 DEF BusyOn, Busy
  <2>. QED BY <1>1, <1>2, <1>5, <2>1 DEF EngineInv, Dues
<1>8. Known'
  BY <1>1, <1>5 DEF EngineInv, Known
<1>9. Published'
  <2>1. store[t] # None /\ store[t].state \in Over
    BY <1>1, <1>2 DEF TurnOK, RecordFits
  <2>. QED BY <1>1, <1>2, <1>4, <2>1, ConversationsAreThreads DEF EngineInv, Published, GatesOf
<1>10. Cleared'
  BY <1>1, <1>3, <1>5, ClearedMoves DEF InTurn, AtWork, Beginning, Busy
<1>. QED BY <1>5, <1>6, <1>7, <1>8, <1>9, <1>10 DEF Moved

\* The entry a loop removes is its own or has been taken out.
LEMMA LoopRemoveMoves ==
    ASSUME EngineInv, NEW h \in Loops, LoopRemove(h),
           UNCHANGED <<boardVars, routerVars>>, loop[h].thread \in Conversations
    PROVE  Moved
<1>. DEFINE t == loop[h].thread
            l == [VacantLoop EXCEPT !.pc = "finished", !.outcome = loop[h].outcome]
<1>1. /\ loop[h].pc = "remove" /\ UNCHANGED <<store, completed, op, task, phase, posted, pending>>
  BY DEF LoopRemove, boardVars, routerVars
<1>2. LoopsInv /\ t \in Threads /\ running \in [Threads -> Loops \cup {None}]
  BY <1>1, LoopFacts DEF EngineInv, Types, ManagerInv, MapsInv, Busy
<1>3. l.pc = "finished"
  BY VacantLoopType DEF LoopTask
<1>4. loop'[h].pc = "finished" /\ \A k \in Loops : k # h => loop'[k] = loop[k]
  BY <1>2, <1>3 DEF LoopRemove, LoopsInv
<1>5. running'[t] = None /\ \A k \in Threads : k # t => running'[k] = running[k]
  BY <1>2 DEF LoopRemove
<1>6. Mine' = Mine /\ (Acting' <=> Acting) /\ Place'
  BY <1>1 DEF EngineInv, Place, Others, Mine, Acting
<1>7. Turns'
  <2>1. ASSUME NEW k \in Loops, AtWork(k)' PROVE TurnOK(k)'
    <3>1. k # h
      BY <1>4, <2>1 DEF AtWork, Busy
    <3>2. loop'[k] = loop[k] /\ AtWork(k) /\ TurnOK(k)
      BY <1>4, <2>1, <3>1 DEF EngineInv, Turns, AtWork
    <3>3. loop[k].thread # t /\ loop[k].thread \in Threads
      BY <1>1, <3>1, <3>2, OneTurn, ConversationsAreThreads DEF AtWork, Busy
    <3>. QED BY <1>1, <1>5, <1>6, <3>2, <3>3 DEF TurnOK, Held
  <2>. QED BY <2>1 DEF Turns, AtWork
<1>8. Dues'
  <2>1. \A k \in Loops : \A s : BusyOn(k, s)' => BusyOn(k, s)
    BY <1>4 DEF BusyOn, Busy
  <2>. QED BY <1>1, <1>6, <2>1 DEF EngineInv, Dues, Outcome
<1>9. Known'
  BY <1>1, <1>5, <1>6, ConversationsAreThreads DEF EngineInv, Known
<1>10. Published'
  BY <1>1 DEF EngineInv, Published, GatesOf
<1>11. Cleared'
  BY <1>1, <1>4, <1>6, ClearedMoves DEF InTurn, AtWork, Beginning, Busy
<1>. QED BY <1>6, <1>7, <1>8, <1>9, <1>10, <1>11 DEF Moved

\* What a step of a loop leaves alone.
LEMMA LoopFrame ==
    ASSUME ManagerInv, NEW h \in Loops, LoopStep(h)
    PROVE  /\ loop[h].pc \in Busy /\ loop[h].thread \in Threads /\ op' = op
           /\ \A k \in Loops : k # h => loop'[k] = loop[k]
           /\ \/ loop'[h].pc = "finished"
              \/ loop'[h].thread = loop[h].thread /\ loop'[h].pc \in Busy
           /\ \A t \in Threads :
                 t # loop[h].thread => /\ store'[t] = store[t]
                                       /\ running'[t] = running[t]
                                       /\ completed'[t] = completed[t]
<1>. DEFINE l == [VacantLoop EXCEPT !.pc = "finished", !.outcome = loop[h].outcome]
<1>1. LoopsInv /\ StoreInv /\ MapsInv
  BY DEF ManagerInv
<1>2. loop[h].pc \in Busy /\ op' = op
  BY DEF LoopStep, LoopBegin, LoopCheck, LoopWork, LoopWrapup, LoopFinal,
         LoopReport, LoopRemove, Busy
<1>3. loop[h].thread \in Threads
  BY <1>1, <1>2, LoopFacts
<1>4. \/ \E p \in Busy : \E r, out, q : Loop(h, p, r, out, q)
      \/ loop' = [loop EXCEPT ![h] = l]
  BY DEF LoopStep, LoopBegin, LoopCheck, LoopWork, LoopWrapup, LoopFinal,
         LoopReport, LoopRemove, WorkResult, Busy
<1>5. CASE loop' = [loop EXCEPT ![h] = l]
  <2>1. l.pc = "finished"
    BY VacantLoopType DEF LoopTask
  <2>2. loop'[h].pc = "finished" /\ \A k \in Loops : k # h => loop'[k] = loop[k]
    BY <1>1, <1>5, <2>1 DEF LoopsInv
  <2>3. \/ /\ UNCHANGED <<store, completed>>
           /\ running' = [running EXCEPT ![loop[h].thread] = None]
        \/ \E p \in Busy : \E r, out, q : Loop(h, p, r, out, q)
    BY DEF LoopStep, LoopBegin, LoopCheck, LoopWork, LoopWrapup, LoopFinal,
           LoopReport, LoopRemove, WorkResult, Busy
  <2>4. ~ \E p \in Busy : \E r, out, q : Loop(h, p, r, out, q)
    BY <1>1, <2>2, LoopEffect DEF Busy
  <2>. QED BY <1>1, <1>2, <1>3, <2>2, <2>3, <2>4 DEF MapsInv
<1>6. CASE \E p \in Busy : \E r, out, q : Loop(h, p, r, out, q)
  <2>1. /\ loop'[h].thread = loop[h].thread /\ loop'[h].pc \in Busy
        /\ \A k \in Loops : k # h => loop'[k] = loop[k]
    BY <1>1, <1>6, LoopEffect
  <2>2. \/ UNCHANGED <<store, running, completed>>
        \/ /\ UNCHANGED <<running, completed>>
           /\ \E r : store' = [store EXCEPT ![loop[h].thread] = r]
        \/ /\ UNCHANGED <<store, running>>
           /\ completed' = [completed EXCEPT ![loop[h].thread] = loop[h].outcome]
        \/ loop' = [loop EXCEPT ![h] = l]
    BY DEF LoopStep, LoopBegin, LoopCheck, LoopWork, LoopWrapup, LoopFinal,
           LoopReport, LoopRemove, SaveRecord
  <2>3. loop' # [loop EXCEPT ![h] = l]
    <3>1. l.pc = "finished"
      BY VacantLoopType DEF LoopTask
    <3>. HIDE DEF l
    <3>. QED BY <1>1, <2>1, <3>1 DEF LoopsInv, Busy
  <2>. QED BY <1>1, <1>2, <1>3, <2>1, <2>2, <2>3 DEF StoreInv, MapsInv
<1>. QED BY <1>4, <1>5, <1>6

\* A step for a thread of a mission, beside the agent: nothing it does
\* concerns the threads of conversations.
Beside ==
    /\ UNCHANGED <<boardVars, routerVars>> /\ phase # "recover" /\ Mine' = Mine
    /\ \A t \in Conversations : /\ store'[t] = store[t]
                                /\ running'[t] = running[t]
                                /\ completed'[t] = completed[t]
    /\ \A h \in Loops : AtWork(h) \/ AtWork(h)' => loop'[h] = loop[h]
    /\ \A h \in Loops : loop[h].pc = "finished" /\ Referenced(h) => loop'[h] = loop[h]

LEMMA BesideKeeps ==
    ASSUME EngineInv, Beside, ManagerInv', Others'
    PROVE  EngineInv'
<1>1. UNCHANGED <<task, conv, web, callbacks, phase, posted, pending, resolved>>
      /\ phase # "recover" /\ Mine' = Mine /\ (Acting' <=> Acting)
  BY DEF Beside, boardVars, routerVars, Acting
<1>3. Place'
  BY <1>1 DEF EngineInv, Place
<1>4. \A h \in Loops : AtWork(h)' <=> AtWork(h)
  BY DEF Beside, AtWork
<1>2. RouterTypes' /\ Down'
  BY <1>1, <1>4 DEF EngineInv, Types, RouterTypes, Down, Beside
<1>5. Turns'
  <2>1. ASSUME NEW h \in Loops, AtWork(h)' PROVE TurnOK(h)'
    <3>1. TurnOK(h) /\ loop'[h] = loop[h] /\ loop[h].thread \in Conversations
      BY <1>4, <2>1 DEF EngineInv, Turns, Beside, AtWork
    <3>. QED BY <1>1, <3>1 DEF TurnOK, Held, Beside
  <2>. QED BY <2>1 DEF Turns
<1>6. Mine.pc # "idle" => Mine.thread \in Conversations /\ Mine.thread = task.thread
  BY DEF EngineInv, Place
<1>7. \A h \in Loops : \A t \in Conversations : BusyOn(h, t)' <=> BusyOn(h, t)
  BY <1>4 DEF BusyOn, AtWork, Beside
<1>8. task.pc \in {"poll", "joining", "post", "fallback", "execute"} => task.thread \in Conversations
  BY DEF EngineInv, Types, RouterTypes
<1>9. Dues'
  BY <1>1, <1>6, <1>7, <1>8 DEF EngineInv, Dues, Beside
<1>10. Acting => task.thread \in Conversations
  BY <1>6, <1>8 DEF Acting
<1>11. \A g \in posted : KeyOf[g] \in Conversations
  BY RouterAssumption DEF EngineInv, Types, RouterTypes, Conversations
<1>12. Known'
  BY <1>1, <1>6, <1>8, <1>10, <1>11 DEF EngineInv, Known, Beside
<1>13. Published'
  BY <1>1 DEF EngineInv, Published, Beside, GatesOf
<1>14. Cleared'
  BY <1>1, <1>4 DEF EngineInv, Cleared, TurnsCleared, InTurn, Beside, GatesOf
<1>. QED BY <1>2, <1>3, <1>5, <1>9, <1>12, <1>13, <1>14 DEF EngineInv, Types

LEMMA MissionTurn ==
    ASSUME EngineInv, NEW h \in Loops, Turn(h), loop[h].thread \notin Conversations
    PROVE  Beside /\ ManagerInv' /\ Others'
<1>1. ManagerInv /\ LoopStep(h) /\ UNCHANGED <<boardVars, routerVars>>
  BY DEF EngineInv, Types, Turn
<1>2. /\ op' = op /\ loop[h].pc \in Busy
      /\ \A k \in Loops : k # h => loop'[k] = loop[k]
      /\ \/ loop'[h].pc = "finished"
         \/ loop'[h].thread = loop[h].thread /\ loop'[h].pc \in Busy
      /\ \A t \in Threads :
            t # loop[h].thread => /\ store'[t] = store[t]
                                  /\ running'[t] = running[t]
                                  /\ completed'[t] = completed[t]
  BY <1>1, LoopFrame
<1>3. Mine' = Mine /\ Others'
  BY <1>2 DEF Mine, EngineInv, Place, Others
<1>4. phase # "recover"
  BY <1>2 DEF EngineInv, Down
<1>5. ~AtWork(h) /\ ~AtWork(h)' /\ loop[h].pc # "finished"
  BY <1>2 DEF AtWork, Busy
<1>6. Beside
  BY <1>1, <1>2, <1>3, <1>4, <1>5, ConversationsAreThreads DEF Beside
<1>. QED BY <1>1, <1>3, <1>6, LoopStepKeeps

LEMMA TurnKeeps ==
    ASSUME EngineInv, NEW h \in Loops, Turn(h)
    PROVE  EngineInv'
<1>1. CASE loop[h].thread \notin Conversations
  BY <1>1, MissionTurn, BesideKeeps
<1>2. CASE loop[h].thread \in Conversations
  <2>1. Moved
    BY <1>2, LoopBeginMoves, LoopCheckMoves, LoopWorkMoves, LoopWrapupMoves, LoopFinalMoves,
       LoopReportMoves, LoopRemoveMoves
       DEF Turn, LoopStep
  <2>2. UNCHANGED <<task, conv, web, callbacks, phase, posted, pending, resolved>>
    BY DEF Turn, boardVars, routerVars
  <2>3. ManagerInv'
    BY LoopStepKeeps DEF Turn, EngineInv, Types
  <2>4. RouterTypes'
    BY <2>2 DEF EngineInv, Types, RouterTypes
  <2>5. loop[h].pc \in Busy
    BY LoopFrame DEF Turn, EngineInv, Types
  <2>6. Down'
    BY <1>2, <2>2, <2>5 DEF EngineInv, Down, AtWork
  <2>. QED BY <2>1, <2>3, <2>4, <2>6 DEF EngineInv, Types, Moved
<1>. QED BY <1>1, <1>2

-----------------------------------------------------------------------------
(* The engine bridge: the missions.                                        *)

\* A step of another caller's operation leaves the agent's alone.
LEMMA OtherChange ==
    ASSUME EngineInv, NEW c \in Callers, c # Agent, NEW o, MissionOp(o),
           op' = [op EXCEPT ![c] = o]
    PROVE  Mine' = Mine /\ Others'
BY RouterAssumption DEF EngineInv, Types, ManagerInv, OpsInv, Place, Others, Mine

\* An operation on a mission's thread touches that thread and a loop that
\* nobody refers to.
LEMMA MissionOperateBeside ==
    ASSUME EngineInv, NEW c \in Callers, c # Agent, MissionOperate(c)
    PROVE  Beside /\ ManagerInv' /\ Others'
<1>. DEFINE t == op[c].thread
<1>1. /\ ManagerInv /\ OperationStep(c) /\ UNCHANGED <<boardVars, routerVars>> /\ phase # "recover"
      /\ MissionOp(op[c]) /\ op[c] \in Operation
  BY DEF EngineInv, Types, ManagerInv, OpsInv, MissionOperate, Place, Others
<1>2. LoopsInv /\ StoreInv /\ MapsInv
  BY <1>1 DEF ManagerInv
<1>3. op[c].pc # "idle"
  BY <1>1 DEF OperationStep, Spawn, ResumeCheck, ResumeLoad, ResumeSave,
         StartLoop, Register, Send, SendLate, Join, JoinTake, JoinAwait, JoinClear
<1>4. t \in MissionThreads /\ t \in Threads /\ t \notin Conversations
  BY <1>1, <1>3, RouterAssumption DEF MissionOp, Conversations
<1>5. \/ Spawn(c) \/ (\E h \in Loops : StartLoop(c, h)) \/ Register(c)
      \/ Join(c) \/ JoinTake(c) \/ JoinAwait(c) \/ JoinClear(c)
  BY <1>1, <1>3 DEF MissionOp, OperationStep, ResumeCheck, ResumeLoad, ResumeSave, Send, SendLate
<1>. DEFINE Kept == /\ \A k \in Conversations : /\ store'[k] = store[k]
                                                /\ running'[k] = running[k]
                                                /\ completed'[k] = completed[k]
                    /\ \A h \in Loops : AtWork(h) \/ AtWork(h)' => loop'[h] = loop[h]
                    /\ \A h \in Loops :
                          loop[h].pc = "finished" /\ Referenced(h) => loop'[h] = loop[h]
            Other == \E o : MissionOp(o) /\ op' = [op EXCEPT ![c] = o]
<1>6. ASSUME NEW p \in {"take", "clear"}, Step(c, p) PROVE Other
  <2>1. MissionOp([op[c] EXCEPT !.pc = p])
    BY <1>1, <1>4 DEF MissionOp, Operation
  <2>. QED BY <1>6, <2>1 DEF Step
<1>7. ASSUME NEW r, Return(c, r) PROVE Other
  <2>1. MissionOp([IdleOp EXCEPT !.pc = "returned", !.thread = op[c].thread, !.result = r])
    BY <1>4 DEF MissionOp, IdleOp
  <2>. QED BY <1>7, <2>1 DEF Return
<1>8. CASE Spawn(c)
  <2>1. MissionOp([op[c] EXCEPT !.pc = "start", !.rec = NewRecord])
    BY <1>1, <1>4 DEF MissionOp, Operation
  <2>2. Other
    BY <1>8, <2>1 DEF Spawn
  <2>3. Kept
    BY <1>2, <1>4, <1>8, ConversationsAreThreads DEF Spawn, StoreInv, AtWork
  <2>. QED BY <1>1, <2>2, <2>3, OtherChange, OperationStepKeeps DEF Beside
<1>9. ASSUME NEW h \in Loops, StartLoop(c, h) PROVE Beside /\ ManagerInv' /\ Others'
  <2>. DEFINE l == [VacantLoop EXCEPT !.pc = "begin", !.thread = t, !.rec = op[c].rec]
  <2>1. MissionOp([op[c] EXCEPT !.pc = "register", !.loop = h])
    BY <1>1, <1>4 DEF MissionOp, Operation
  <2>2. Other
    BY <1>9, <2>1 DEF StartLoop
  <2>3. l.thread = t
    BY VacantLoopType DEF LoopTask
  <2>4. loop'[h] = l /\ loop[h].pc \notin Busy /\ \A k \in Loops : k # h => loop'[k] = loop[k]
    BY <1>2, <1>9 DEF StartLoop, LoopsInv, Busy
  <2>5. Kept
    BY <1>4, <1>9, <2>3, <2>4 DEF StartLoop, AtWork
  <2>. QED BY <1>1, <2>2, <2>5, OtherChange, OperationStepKeeps DEF Beside
<1>10. CASE Register(c) \/ Join(c) \/ JoinAwait(c) \/ JoinClear(c)
  <2>1. Other
    BY <1>6, <1>7, <1>10 DEF Register, Join, JoinAwait, JoinClear
  <2>2. Kept
    BY <1>2, <1>4, <1>10, ConversationsAreThreads
       DEF Register, Join, JoinAwait, JoinClear, MapsInv, AtWork
  <2>. QED BY <1>1, <2>1, <2>2, OtherChange, OperationStepKeeps DEF Beside
<1>11. CASE JoinTake(c)
  <2>1. MissionOp([op[c] EXCEPT !.pc = "awaiting", !.loop = running[t]])
    BY <1>1, <1>4 DEF MissionOp, Operation
  <2>2. Other
    BY <1>7, <1>11, <2>1 DEF JoinTake
  <2>3. Kept
    BY <1>2, <1>4, <1>11, ConversationsAreThreads DEF JoinTake, MapsInv, AtWork
  <2>. QED BY <1>1, <2>2, <2>3, OtherChange, OperationStepKeeps DEF Beside
<1>. QED BY <1>5, <1>8, <1>9, <1>10, <1>11

LEMMA MissionBeside ==
    ASSUME EngineInv, MissionStep
    PROVE  Beside /\ ManagerInv' /\ Others'
<1>1. ASSUME NEW c \in Callers, c # Agent, NEW o \in Operation, MissionOp(o), OpOK(o),
             op' = [op EXCEPT ![c] = o], phase # "recover",
             UNCHANGED <<store, loop, running, completed, boardVars, routerVars>>
      PROVE  Beside /\ ManagerInv' /\ Others'
  <2>1. Mine' = Mine /\ Others'
    BY <1>1, OtherChange
  <2>2. OpsInv'
    BY <1>1, OpChange DEF EngineInv, Types, ManagerInv
  <2>3. ManagerInv'
    BY <1>1, <2>2, ManagerKept DEF EngineInv, Types
  <2>. QED BY <1>1, <2>1, <2>3 DEF Beside
<1>2. ASSUME NEW p \in {"spawn", "join"}, NEW t \in MissionThreads
      PROVE  LET o == [IdleOp EXCEPT !.pc = p, !.thread = t]
             IN  o \in Operation /\ MissionOp(o) /\ OpOK(o)
  <2>1. t \in Threads
    BY <1>2, RouterAssumption
  <2>. QED BY <2>1, IdleOpType DEF Operation, OpPC, MissionOp, OpOK, IdleOp
<1>3. ASSUME NEW c \in Callers, c # Agent, NEW t \in MissionThreads, MissionFire(c, t)
      PROVE  Beside /\ ManagerInv' /\ Others'
  BY <1>1, <1>2, <1>3 DEF MissionFire
<1>4. ASSUME NEW c \in Callers, c # Agent, MissionWatch(c)
      PROVE  Beside /\ ManagerInv' /\ Others'
  <2>1. op[c].thread \in MissionThreads
    BY <1>4 DEF EngineInv, Place, Others, MissionOp, MissionWatch
  <2>2. IdleOp \in Operation /\ MissionOp(IdleOp) /\ OpOK(IdleOp)
    BY IdleOpType DEF MissionOp, IdleOp
  <2>. QED BY <1>1, <1>2, <1>4, <2>1, <2>2 DEF MissionWatch
<1>. QED BY <1>3, <1>4, MissionOperateBeside DEF MissionStep

-----------------------------------------------------------------------------
(* The engine bridge: crash and restart.                                   *)

LEMMA CrashKeeps ==
    ASSUME EngineInv, Crash
    PROVE  EngineInv'
<1>1. /\ \A c \in Callers : op'[c] = IdleOp
      /\ \A h \in Loops : loop'[h] = VacantLoop
      /\ \A t \in Threads : running'[t] = None /\ completed'[t] = None
      /\ task' = IdleTask /\ web' = IdleWeb /\ callbacks' = {} /\ phase' = "recover"
      /\ UNCHANGED <<store, posted, pending, resolved, conv>>
  BY DEF Crash, boardVars
<1>2. ManagerInv'
  <2>1. LoopsInv'
    BY VacantLoopType DEF Crash, LoopsInv
  <2>2. OpsInv'
    BY IdleOpType DEF Crash, OpsInv
  <2>3. StoreInv' /\ MapsInv'
    BY KeepStore DEF Crash, MapsInv, EngineInv, Types, ManagerInv
  <2>. QED BY <2>1, <2>2, <2>3 DEF ManagerInv
<1>3. task'.pc = "idle" /\ Mine'.pc = "idle" /\ Others'
  BY <1>1, IdleTaskType, RouterAssumption DEF Mine, Others, MissionOp, IdleOp
<1>4. RouterTypes'
  BY <1>1, IdleTaskType, IdleWebType DEF EngineInv, Types, RouterTypes
<1>5. \A h \in Loops : loop'[h].pc \notin Busy
  BY <1>1 DEF VacantLoop, Busy
<1>6. Place' /\ ~Acting' /\ Dues'
  BY <1>3 DEF Place, Acting, Dues
<1>7. Down' /\ Turns'
  BY <1>1, <1>3, <1>5, ConversationsAreThreads DEF Down, Turns, AtWork
<1>8. Known'
  BY <1>1, <1>3, <1>6, ConversationsAreThreads DEF EngineInv, Known
<1>9. Published' /\ Cleared'
  BY <1>1, <1>3, <1>5, ConversationsAreThreads
     DEF EngineInv, Published, Cleared, OnePerKey, TurnsCleared, InTurn, AtWork, Beginning
<1>. QED BY <1>2, <1>4, <1>6, <1>7, <1>8, <1>9 DEF EngineInv, Types

\* A step of the restart: nothing runs, records may change but stay.
LEMMA BootStep ==
    ASSUME EngineInv, phase # "up",
           UNCHANGED <<loop, running, completed, op, task, conv, web, callbacks, posted>>,
           phase' \in {"restore", "reconcile", "up"},
           StoreInv', \A t \in Threads : store[t] # None => store'[t] # None,
           pending' \subseteq posted, resolved' \subseteq posted, OnePerKey(pending')
    PROVE  EngineInv'
<1>1. /\ task.pc = "idle" /\ \A h \in Loops : ~AtWork(h)
      /\ \A t \in Conversations : completed[t] = None /\ running[t] = None
  BY DEF EngineInv, Down
<1>2. Mine' = Mine /\ Mine.pc = "idle" /\ Others'
  BY <1>1 DEF EngineInv, Place, Mine, Others
<1>3. ManagerInv'
  BY KeepLoops, KeepOps, KeepMaps DEF EngineInv, Types, ManagerInv
<1>4. RouterTypes'
  BY DEF EngineInv, Types, RouterTypes
<1>5. Place' /\ ~Acting' /\ Dues'
  BY <1>1, <1>2 DEF Place, Acting, Dues
<1>6. Down' /\ Turns'
  BY <1>1 DEF Down, Turns, AtWork
<1>7. Known'
  <2>1. \A g \in posted : KeyOf[g] \in Threads
    BY RouterAssumption DEF EngineInv, Types, RouterTypes
  <2>. QED BY <1>1, <1>2, <1>5, <2>1, ConversationsAreThreads DEF EngineInv, Known
<1>8. Published' /\ Cleared'
  BY <1>1, <1>2, ConversationsAreThreads
     DEF Published, Cleared, OnePerKey, TurnsCleared, InTurn, AtWork, Beginning
<1>. QED BY <1>3, <1>4, <1>5, <1>6, <1>7, <1>8 DEF EngineInv, Types

LEMMA RecoveredType ==
    ASSUME NEW r \in Record, Plain(r)
    PROVE  /\ Recovered(r) \in Record /\ Plain(Recovered(r))
           /\ Recovered(r).state \notin {"Created", "Running"}
BY DEF Recovered, Record, ThreadState, Plain

\* Every record of the owner's project is visited.
LEMMA RecoverKeeps ==
    ASSUME EngineInv, Recover
    PROVE  EngineInv'
<1>1. /\ phase = "recover" /\ phase' = "restore"
      /\ UNCHANGED <<loop, running, completed, op, task, conv, web, callbacks>>
      /\ UNCHANGED <<posted, pending, resolved>>
  BY DEF Recover, boardVars
<1>2. \A t \in Threads : store[t] # None => store[t] \in Record /\ Plain(store[t])
  BY DEF EngineInv, Types, ManagerInv, StoreInv
<1>3. /\ \A t \in Threads : store'[t] = IF t \in OwnerThreads /\ store[t] # None
                                        THEN Recovered(store[t]) ELSE store[t]
      /\ store' = [t \in Threads |-> store'[t]]
  BY DEF Recover
<1>4. ASSUME NEW t \in Threads, store[t] # None
      PROVE  /\ store'[t] \in Record /\ Plain(store'[t]) /\ store'[t] # None
             /\ t \in OwnerThreads => store'[t].state \notin {"Created", "Running"}
  BY <1>2, <1>3, <1>4, RecoveredType, NoneAssumption
<1>5. \A t \in Threads : store[t] = None => store'[t] = None
  BY <1>3
<1>6. StoreInv'
  BY <1>3, <1>4, <1>5 DEF StoreInv
<1>8. pending' \subseteq posted /\ resolved' \subseteq posted /\ OnePerKey(pending')
  BY <1>1 DEF EngineInv, Types, RouterTypes, Cleared, OnePerKey
<1>. QED BY <1>1, <1>4, <1>6, <1>8, BootStep

LEMMA RestoreGatesKeeps ==
    ASSUME EngineInv, NEW S \in SUBSET Gates, RestoreGates(S)
    PROVE  EngineInv'
<1>1. /\ phase = "restore" /\ phase' = "reconcile"
      /\ UNCHANGED <<store, loop, running, completed, op, task, conv, web, callbacks, posted>>
      /\ pending' \subseteq posted /\ resolved' \subseteq posted /\ OnePerKey(pending')
  BY DEF RestoreGates, Restart, managerVars, OnePerKey
<1>2. StoreInv'
  BY <1>1, KeepStore DEF EngineInv, Types, ManagerInv
<1>. QED BY <1>1, <1>2, BootStep

LEMMA ReconcileKeeps ==
    ASSUME EngineInv, Reconcile
    PROVE  EngineInv'
<1>. DEFINE failed(t) == [store[t] EXCEPT !.state = "Failed"]
<1>1. /\ phase = "reconcile" /\ phase' = "up"
      /\ UNCHANGED <<loop, running, completed, op, task, conv, web, callbacks, posted, resolved>>
      /\ pending' \subseteq pending
  BY DEF Reconcile, Drop
<1>2. \A t \in Threads : store[t] # None => store[t] \in Record /\ Plain(store[t])
  BY DEF EngineInv, Types, ManagerInv, StoreInv
<1>3. /\ \A t \in Threads : store'[t] = IF Waiting(t) /\ GatesOf(t) = {}
                                        THEN failed(t) ELSE store[t]
      /\ store' = [t \in Threads |-> store'[t]]
  BY DEF Reconcile
<1>4. ASSUME NEW t \in Threads, store[t] # None
      PROVE  failed(t) \in Record /\ Plain(failed(t)) /\ failed(t).state = "Failed"
  BY <1>2, <1>4 DEF Record, ThreadState, Plain
<1>5. ASSUME NEW t \in Threads, store[t] # None
      PROVE  /\ store'[t] \in Record /\ Plain(store'[t]) /\ store'[t] # None
             /\ store'[t].state = "Failed" \/ store'[t] = store[t]
  BY <1>2, <1>3, <1>4, <1>5, NoneAssumption
<1>6. \A t \in Threads : store[t] = None => store'[t] = None
  BY <1>3 DEF Waiting
<1>7. StoreInv'
  BY <1>3, <1>5, <1>6 DEF StoreInv
<1>9. pending' \subseteq posted /\ resolved' \subseteq posted /\ OnePerKey(pending')
  BY <1>1 DEF EngineInv, Types, RouterTypes, Cleared, OnePerKey
<1>. QED BY <1>1, <1>5, <1>7, <1>9, BootStep

-----------------------------------------------------------------------------
(* The engine bridge: the theorems.                                        *)

LEMMA EngineInit == Init => EngineInv
<1>. SUFFICES ASSUME Init PROVE EngineInv
  OBVIOUS
<1>1. ManagerInv
  BY ManagerInitInv DEF Init
<1>2. RouterTypes
  BY IdleTaskType, IdleWebType DEF Init, BoardInit, RouterTypes
<1>3. task.pc = "idle" /\ Mine.pc = "idle" /\ Others
  BY IdleTaskType, RouterAssumption DEF Init, ManagerInit, Mine, Others, MissionOp, IdleOp
<1>4. \A h \in Loops : loop[h].pc \notin Busy
  BY DEF Init, ManagerInit, VacantLoop, Busy
<1>5. Place /\ ~Acting /\ Dues
  BY <1>3 DEF Place, Acting, Dues
<1>6. Down /\ Turns
  BY <1>4 DEF Init, Down, Turns, AtWork
<1>7. Known /\ Published /\ Cleared
  BY <1>3, <1>4, <1>5, ConversationsAreThreads
     DEF Init, ManagerInit, BoardInit, Known, Published, Cleared, OnePerKey, TurnsCleared,
         InTurn, AtWork, Beginning
<1>. QED BY <1>1, <1>2, <1>5, <1>6, <1>7 DEF EngineInv, Types

LEMMA EngineNext == EngineInv /\ [Next]_vars => EngineInv'
<1>. SUFFICES ASSUME EngineInv, [Next]_vars PROVE EngineInv'
  OBVIOUS
<1>1. CASE UserStep
  BY <1>1, MessageKeeps, SweepKeeps, CallbackKeeps, ResolveGateKeeps DEF UserStep
<1>2. CASE HandlerStep
  BY <1>2, FailWaitingKeeps, RejectKeeps, RouteKeeps, RoutedKeeps, PollKeeps, JoinedKeeps,
     PostGateKeeps, ExecuteKeeps, ResumptionKeeps, StoppedKeeps, SweepThreadKeeps,
     SweepGatesKeeps, SweepEndKeeps
     DEF HandlerStep
<1>3. CASE Operate
  BY <1>3, OperateKeeps
<1>4. CASE WebStep
  BY <1>4, WebKeeps
<1>5. CASE \E h \in Loops : Turn(h)
  BY <1>5, TurnKeeps
<1>6. CASE \E g \in Gates : Expire(g)
  BY <1>6, ExpireKeeps
<1>7. CASE Crash
  BY <1>7, CrashKeeps
<1>8. CASE Boot
  BY <1>8, RecoverKeeps, ReconcileKeeps, RestoreGatesKeeps DEF Boot
<1>9. CASE UNCHANGED vars
  <2>1. /\ UNCHANGED <<store, loop, running, completed, op, task, conv, phase>>
        /\ UNCHANGED <<posted, resolved, pending, web, callbacks>>
    BY <1>9 DEF vars, managerVars, boardVars, routerVars
  <2>2. RouterTypes'
    BY <2>1 DEF EngineInv, Types, RouterTypes
  <2>. QED BY <2>1, <2>2, AsideKeeps
<1>10. CASE MissionStep
  BY <1>10, MissionBeside, BesideKeeps
<1>. QED BY <1>1, <1>2, <1>3, <1>4, <1>5, <1>6, <1>7, <1>8, <1>9, <1>10 DEF Next

LEMMA EngineSpec == Spec => []EngineInv
BY EngineInit, EngineNext, PTL DEF Spec

\* Whatever the user, the gateway, the loops and crashes interleave, the
\* bridge, the manager and the board of gates keep their types: a callback
\* names a gate that was posted, and no channel is over its capacity.
THEOREM RouterTypeCorrect == Spec => []RouterTypeOK
<1>1. EngineInv => RouterTypeOK
  BY DEF EngineInv, Types, ManagerInv, LoopsInv, OpsInv, StoreInv, MapsInv, LoopOK,
         TypeOK, RouterTypes, RouterTypeOK, Task, Conversations
<1>. QED BY <1>1, EngineSpec, PTL

\* A set of at most one element.
LEMMA AtMostOne ==
    ASSUME NEW S, \A x, y \in S : x = y
    PROVE  Cardinality(S) <= 1
<1>1. CASE S = {}
  BY <1>1, FS_EmptySet
<1>2. CASE S # {}
  <2>1. PICK x \in S : S = {x}
    BY <1>2
  <2>. QED BY <2>1, FS_Singleton
<1>. QED BY <1>1, <1>2

\* However long turns last, whatever the missions run and whenever the process
\* crashes, at most one loop is live on threads of conversations, and its turn
\* is the one the agent waits for: no handler returns and no other message is
\* handled while such a turn goes on.
THEOREM AgentKeepsTheTurn == Spec => []AgentOwnsTheTurn
<1>1. EngineInv => AgentOwnsTheTurn
  <2>. SUFFICES ASSUME EngineInv PROVE AgentOwnsTheTurn
    OBVIOUS
  <2>1. ASSUME NEW h \in ConversationLoops
        PROVE  /\ h \in Loops /\ AtWork(h)
               /\ task.thread = loop[h].thread /\ Acting
    <3>1. h \in Loops /\ InTurn(h)
      BY DEF ConversationLoops, LiveLoops, Live, Busy, InTurn, AtWork
    <3>. QED BY <3>1, TurnFacts DEF InTurn
  <2>2. \A h \in ConversationLoops : task.pc \in {"routing", "resuming", "poll", "joining"}
    BY <2>1 DEF Acting
  <2>3. \A h, k \in ConversationLoops : h = k
    BY <2>1, OneTurn
  <2>4. Cardinality(ConversationLoops) <= 1
    BY <2>3, AtMostOne
  <2>. QED BY <2>1, <2>2, <2>4 DEF AgentOwnsTheTurn
<1>. QED BY <1>1, EngineSpec, PTL

-----------------------------------------------------------------------------
(* The engine bridge: the records of the owner's project.                  *)

Unsettled == {"Created", "Running"}
Writing == {"begin", "check", "work", "wrapup"}

\* Somebody is about to start the thread's loop, or its loop has still to
\* write the record.
Tended(t) ==
    \/ \E c \in Callers : op[c].pc = "start" /\ op[c].thread = t
    \/ \E h \in Loops : loop[h].pc \in Writing /\ loop[h].thread = t

Kept ==
    phase # "recover" =>
        \A t \in OwnerThreads :
            (store[t] # None /\ store[t].state \in Unsettled) => Tended(t)

\* A step that starts no loop and gives up no start, and after which a record
\* is as it was or settled.
LEMMA KeptQuietly ==
    ASSUME Kept, phase # "recover",
           \A h \in Loops : loop'[h].pc = loop[h].pc /\ loop'[h].thread = loop[h].thread,
           \A c \in Callers : op[c].pc = "start" => op'[c] = op[c],
           \A t \in Threads : store'[t] = store[t] \/ store'[t].state \notin Unsettled
    PROVE  Kept'
<1>1. \A t \in Threads : Tended(t) => Tended(t)'
  BY DEF Tended
<1>. QED BY <1>1, RouterAssumption DEF Kept

\* Where the agent stands before a step of its handler.
LEMMA AgentActs ==
    ASSUME EngineInv, UserStep \/ HandlerStep
    PROVE  /\ phase = "up" /\ UNCHANGED loop /\ op[Agent].pc \in {"idle", "returned"}
           /\ op' = op \/ \E o : op' = [op EXCEPT ![Agent] = o]
           /\ UNCHANGED store \/ FailWaiting
<1>. DEFINE Quiet == /\ phase = "up" /\ UNCHANGED loop
                     /\ op' = op \/ \E o : op' = [op EXCEPT ![Agent] = o]
                     /\ UNCHANGED store \/ FailWaiting
<1>1. CASE UserStep
  <2>1. task.pc = "idle" /\ Quiet
    BY <1>1 DEF UserStep, Message, Sweep, Callback, ResolveGate, At, keepManager, Call, Resolutions
  <2>. QED BY <2>1 DEF EngineInv, Place, Mine
<1>2. CASE FailWaiting
  BY <1>2 DEF FailWaiting, EngineInv, Place, Mine
<1>3. CASE Reject \/ Route \/ Poll \/ PostGate \/ \E result \in {"ok", "paused", "error"} : Execute(result)
  <2>1. task.pc \in {"route", "poll", "post", "fallback", "execute"} /\ Quiet
    <3>1. CASE Reject \/ Poll \/ PostGate
      BY <3>1 DEF Reject, Poll, PostGate, At, keepManager, Call
    <3>2. CASE Route
      BY <3>2 DEF Route, At, keepManager, Call
    <3>3. CASE \E result \in {"ok", "paused", "error"} : Execute(result)
      BY <3>3 DEF Execute, At, keepManager, Call
    <3>. QED BY <1>3, <3>1, <3>2, <3>3
  <2>. QED BY <2>1 DEF EngineInv, Place, Mine
<1>4. CASE Routed \/ Joined \/ Resumption \/ Stopped
  BY <1>4 DEF Routed, Joined, Resumption, Stopped, At, Answered, Consume, keepManager
<1>5. ASSUME NEW t \in Threads, SweepThread(t)
      PROVE  Quiet /\ op[Agent].pc \in {"idle", "returned"}
  <2>1. task.thread = None /\ task.pc \in {"interrupt", "clear"} /\ Quiet
    BY <1>5 DEF SweepThread, Sweeping, keepManager, Call
  <2>. QED BY <2>1, NoneAssumption, ConversationsAreThreads DEF EngineInv, Place, Mine
<1>6. CASE SweepGates
  BY <1>6 DEF SweepGates, Sweeping, keepManager, Consume
<1>7. CASE SweepEnd
  <2>1. task.thread = None /\ task.pc \in {"interrupt", "clear"} /\ Quiet
    BY <1>7 DEF SweepEnd, Sweeping, keepManager
  <2>. QED BY <2>1, NoneAssumption, ConversationsAreThreads DEF EngineInv, Place, Mine
<1>. QED BY <1>1, <1>2, <1>3, <1>4, <1>5, <1>6, <1>7 DEF HandlerStep

LEMMA KeptByAgent ==
    ASSUME EngineInv, Kept, UserStep \/ HandlerStep
    PROVE  Kept'
<1>1. /\ phase = "up" /\ UNCHANGED loop /\ op[Agent].pc \in {"idle", "returned"}
      /\ op' = op \/ \E o : op' = [op EXCEPT ![Agent] = o]
      /\ UNCHANGED store \/ FailWaiting
  BY AgentActs
<1>2. op \in [Callers -> Operation] /\ StoreInv
  BY DEF EngineInv, Types, ManagerInv, OpsInv
<1>3. \A c \in Callers : op[c].pc = "start" => op'[c] = op[c]
  BY <1>1, <1>2
<1>4. \A t \in Threads : store'[t] = store[t] \/ store'[t].state \notin Unsettled
  <2>1. CASE UNCHANGED store
    BY <2>1
  <2>2. CASE FailWaiting
    <3>1. /\ task.thread \in Threads
          /\ \/ UNCHANGED store
             \/ /\ Waiting(task.thread)
                /\ store' = [store EXCEPT ![task.thread] =
                               [store[task.thread] EXCEPT !.state = "Failed"]]
      BY <2>2, ConversationsAreThreads DEF FailWaiting, EngineInv, Types, RouterTypes
    <3>2. Waiting(task.thread) => [store[task.thread] EXCEPT !.state = "Failed"].state = "Failed"
      BY <1>2, <3>1 DEF Waiting, StoreInv, Record
    <3>. QED BY <1>2, <3>1, <3>2 DEF StoreInv, Unsettled
  <2>. QED BY <1>1, <2>1, <2>2
<1>. QED BY <1>1, <1>3, <1>4, KeptQuietly

LEMMA KeptByOperation ==
    ASSUME ManagerInv, Kept, NEW c \in Callers, OperationStep(c), phase # "recover"
    PROVE  Kept'
<1>0. PICK t : t = op[c].thread
  OBVIOUS
<1>1. LoopsInv /\ StoreInv /\ op \in [Callers -> Operation] /\ OpOK(op[c])
  BY DEF ManagerInv, OpsInv
<1>2. \E o : op' = [op EXCEPT ![c] = o]
  BY DEF OperationStep, Spawn, ResumeCheck, ResumeLoad, ResumeSave, Step, Return,
         StartLoop, Register, Send, SendLate, Join, JoinTake, JoinAwait, JoinClear
<1>3. \A k \in Callers : k # c => op'[k] = op[k]
  BY <1>1, <1>2
<1>4. ASSUME op[c].pc # "start", UNCHANGED store,
             \A h \in Loops : loop'[h].pc = loop[h].pc /\ loop'[h].thread = loop[h].thread
      PROVE  Kept'
  BY <1>3, <1>4, KeptQuietly
<1>5. CASE ResumeCheck(c) \/ ResumeLoad(c) \/ Register(c) \/ Join(c) \/ JoinTake(c)
           \/ JoinAwait(c) \/ JoinClear(c)
  <2>1. op[c].pc # "start" /\ UNCHANGED <<store, loop>>
    BY <1>5 DEF ResumeCheck, ResumeLoad, Register, Join, JoinTake, JoinAwait, JoinClear
  <2>. QED BY <1>4, <2>1
<1>6. CASE Send(c) \/ SendLate(c)
  <2>1. op[c].pc \in {"stop", "inject", "sending"} /\ UNCHANGED store
    BY <1>6 DEF Send, SendLate
  <2>2. \/ UNCHANGED loop
        \/ \E h \in Loops : \E s \in Signal : Deliver(h, s)
    <3>1. CASE Send(c)
      BY <1>1, <2>1, <3>1 DEF Send, Signal, ManagerInv, MapsInv, OpOK
    <3>2. CASE SendLate(c)
      BY <1>1, <3>2 DEF SendLate, OpOK, Operation
    <3>. QED BY <1>6, <3>1, <3>2
  <2>3. \A h \in Loops : loop'[h].pc = loop[h].pc /\ loop'[h].thread = loop[h].thread
    BY <1>1, <2>2, DeliverEffect
  <2>. QED BY <1>4, <2>1, <2>3
<1>7. CASE Spawn(c) \/ ResumeSave(c)
  <2>1. /\ op[c].pc # "start" /\ UNCHANGED loop /\ t \in Threads
        /\ \E r : store' = [store EXCEPT ![t] = r]
    BY <1>0, <1>1, <1>7 DEF Spawn, ResumeSave, OpOK
  <2>2. op'[c].pc = "start" /\ op'[c].thread = t
    <3>1. \A r : /\ [op[c] EXCEPT !.pc = "start", !.rec = r].pc = "start"
                 /\ [op[c] EXCEPT !.pc = "start", !.rec = r].thread = t
      BY <1>0, <1>1 DEF Operation
    <3>2. /\ [op[c] EXCEPT !.pc = "start"].pc = "start"
          /\ [op[c] EXCEPT !.pc = "start"].thread = t
      BY <1>0, <1>1 DEF Operation
    <3>3. \/ op'[c] = [op[c] EXCEPT !.pc = "start", !.rec = NewRecord]
          \/ op'[c] = [op[c] EXCEPT !.pc = "start"]
      BY <1>1, <1>7 DEF Spawn, ResumeSave, Step
    <3>. QED BY <3>1, <3>2, <3>3
  <2>3. Tended(t)' /\ \A k \in Threads : Tended(k) => Tended(k)'
    BY <1>3, <2>1, <2>2 DEF Tended
  <2>4. \A k \in Threads : k # t => store'[k] = store[k]
    BY <1>1, <2>1 DEF StoreInv
  <2>. QED BY <2>3, <2>4, RouterAssumption DEF Kept
<1>8. ASSUME NEW h \in Loops, StartLoop(c, h) PROVE Kept'
  <2>. DEFINE l == [VacantLoop EXCEPT !.pc = "begin", !.thread = t, !.rec = op[c].rec]
  <2>1. UNCHANGED store /\ op[c].pc = "start"
    BY <1>8 DEF StartLoop
  <2>2. l.pc = "begin" /\ l.thread = t
    BY VacantLoopType DEF LoopTask
  <2>3. loop'[h] = l /\ loop[h].pc \notin Writing /\ \A k \in Loops : k # h => loop'[k] = loop[k]
    BY <1>0, <1>1, <1>8 DEF StartLoop, LoopsInv, Writing
  <2>4. loop'[h].pc \in Writing /\ loop'[h].thread = op[c].thread
    BY <1>0, <2>2, <2>3 DEF Writing
  <2>5. \A k \in Threads : Tended(k) => Tended(k)'
    BY <1>3, <2>3, <2>4 DEF Tended
  <2>. QED BY <2>1, <2>5, RouterAssumption DEF Kept
<1>. QED BY <1>5, <1>6, <1>7, <1>8 DEF OperationStep

\* A loop leaves the record settled with the step in which it stops writing.
LEMMA KeptByLoop ==
    ASSUME ManagerInv, Kept, NEW h \in Loops, LoopStep(h), phase # "recover"
    PROVE  Kept'
<1>0. PICK t : t = loop[h].thread
  OBVIOUS
<1>. DEFINE me == loop[h]
            same == store'[t] = store[t]
            settled == store'[t].state \notin Unsettled
            writing == loop'[h].pc \in Writing /\ loop'[h].thread = t
<1>1. LoopsInv /\ StoreInv
  BY DEF ManagerInv
<1>2. /\ me.pc \in Busy /\ t \in Threads /\ op' = op
      /\ \A k \in Loops : k # h => loop'[k] = loop[k]
      /\ \A k \in Threads : k # t => store'[k] = store[k]
  BY <1>0, LoopFrame
<1>3. me.rec \in Record /\ RecordFits(me.pc, me.rec, me.outcome)
  BY <1>1, <1>2, LoopFacts
<1>4. settled \/ writing \/ (same /\ me.pc \notin Writing)
  <2>1. CASE LoopBegin(h)
    <3>1. CanTransition(me.rec.state, "Running") /\ me.pc = "begin"
      BY <1>3, <2>1 DEF LoopBegin, RecordFits, Startable, CanTransition, Transitions
    <3>2. \E p \in Writing : \E r, out, q : Loop(h, p, r, out, q)
      BY <2>1, <3>1 DEF LoopBegin, Writing
    <3>. QED BY <1>0, <1>1, <3>2, LoopEffect
  <2>2. CASE LoopCheck(h)
    <3>1. \E p \in Writing : \E r, out, q : Loop(h, p, r, out, q)
      BY <2>2 DEF LoopCheck, Writing
    <3>. QED BY <1>0, <1>1, <3>1, LoopEffect
  <2>3. ASSUME NEW next \in WorkResult, LoopWork(h, next) PROVE writing
    <3>1. \E p \in Writing : \E r, out, q : Loop(h, p, r, out, q)
      BY <2>3 DEF LoopWork, Writing, WorkResult
    <3>. QED BY <1>0, <1>1, <3>1, LoopEffect
  <2>4. CASE LoopWrapup(h)
    <3>. DEFINE r == [me.rec EXCEPT !.ckpt = FALSE]
    <3>1. store'[t] = r /\ me.pc = "wrapup"
      BY <1>0, <1>1, <1>2, <2>4 DEF LoopWrapup, SaveRecord, StoreInv
    <3>2. r.state = me.rec.state
      BY <1>3 DEF Record
    <3>. QED BY <1>3, <3>1, <3>2 DEF RecordFits, Over, Unsettled
  <2>5. CASE LoopFinal(h)
    <3>. DEFINE r == IF me.rec.state = "Completed"
                     THEN [me.rec EXCEPT !.state = "Done"] ELSE me.rec
    <3>1. store'[t] = r /\ me.pc = "final"
      BY <1>0, <1>1, <1>2, <2>5 DEF LoopFinal, SaveRecord, StoreInv
    <3>2. r.state \in {"Done", me.rec.state}
      BY <1>3 DEF Record
    <3>. QED BY <1>3, <3>1, <3>2 DEF RecordFits, Over, Unsettled
  <2>6. CASE LoopReport(h) \/ LoopRemove(h)
    BY <2>6 DEF LoopReport, LoopRemove, Writing
  <2>. QED BY <2>1, <2>2, <2>3, <2>4, <2>5, <2>6 DEF LoopStep
<1>5. \A k \in Threads : k # t => (Tended(k) => Tended(k)')
  BY <1>0, <1>2 DEF Tended
<1>6. writing => Tended(t)'
  BY DEF Tended
<1>7. me.pc \notin Writing => (Tended(t) => Tended(t)')
  BY <1>0, <1>2 DEF Tended
<1>. QED BY <1>2, <1>4, <1>5, <1>6, <1>7, RouterAssumption DEF Kept

LEMMA KeptByMission ==
    ASSUME EngineInv, Kept, MissionStep
    PROVE  Kept'
<1>1. op \in [Callers -> Operation] /\ ManagerInv
  BY DEF EngineInv, Types, ManagerInv, OpsInv
<1>2. ASSUME NEW c \in Callers, NEW o, op' = [op EXCEPT ![c] = o], op[c].pc # "start",
             phase # "recover", UNCHANGED <<store, loop>>
      PROVE  Kept'
  <2>1. \A k \in Callers : op[k].pc = "start" => op'[k] = op[k]
    BY <1>1, <1>2
  <2>. QED BY <1>2, <2>1, KeptQuietly
<1>3. ASSUME NEW c \in Callers, NEW t \in MissionThreads, MissionFire(c, t) PROVE Kept'
  BY <1>2, <1>3 DEF MissionFire
<1>4. ASSUME NEW c \in Callers, MissionWatch(c) PROVE Kept'
  BY <1>2, <1>4 DEF MissionWatch
<1>5. ASSUME NEW c \in Callers, MissionOperate(c) PROVE Kept'
  BY <1>1, <1>5, KeptByOperation DEF MissionOperate
<1>. QED BY <1>3, <1>4, <1>5 DEF MissionStep

LEMMA KeptByBoot ==
    ASSUME EngineInv, Kept, Boot
    PROVE  Kept'
<1>1. \A t \in Threads : store[t] # None => store[t] \in Record /\ Plain(store[t])
  BY DEF EngineInv, Types, ManagerInv, StoreInv
<1>2. CASE Recover
  BY <1>1, <1>2, RecoveredType, RouterAssumption DEF Recover, Kept, Unsettled
<1>3. ASSUME NEW S \in SUBSET Gates, RestoreGates(S) PROVE Kept'
  BY <1>3, KeptQuietly DEF RestoreGates, managerVars
<1>4. CASE Reconcile
  <2>1. \A t \in Threads : Waiting(t) => [store[t] EXCEPT !.state = "Failed"].state = "Failed"
    BY <1>1 DEF Waiting, Record
  <2>2. \A t \in Threads : store'[t] = store[t] \/ store'[t].state = "Failed"
    BY <1>4, <2>1 DEF Reconcile
  <2>. QED BY <1>4, <2>2, KeptQuietly DEF Reconcile, Unsettled
<1>. QED BY <1>2, <1>3, <1>4 DEF Boot

LEMMA KeptInit == Init => Kept
BY RouterAssumption DEF Init, ManagerInit, Kept

LEMMA KeptNext == EngineInv /\ Kept /\ [Next]_vars => Kept'
<1>. SUFFICES ASSUME EngineInv, Kept, [Next]_vars PROVE Kept'
  OBVIOUS
<1>1. CASE UserStep \/ HandlerStep
  BY <1>1, KeptByAgent
<1>2. CASE Operate
  <2>1. phase = "up"
    <3>1. Mine.pc # "idle"
      BY <1>2 DEF Operate, OperationStep, Mine, Spawn, ResumeCheck, ResumeLoad, ResumeSave,
             StartLoop, Register, Send, SendLate, Join, JoinTake, JoinAwait, JoinClear
    <3>. QED BY <3>1 DEF EngineInv, Down, Place
  <2>. QED BY <1>2, <2>1, KeptByOperation, RouterAssumption DEF Operate, EngineInv, Types
<1>3. ASSUME NEW h \in Loops, Turn(h) PROVE Kept'
  <2>1. ManagerInv /\ LoopStep(h)
    BY <1>3 DEF EngineInv, Types, Turn
  <2>2. phase # "recover"
    BY <2>1, LoopFrame DEF EngineInv, Down
  <2>. QED BY <2>1, <2>2, KeptByLoop
<1>4. CASE WebStep \/ (\E g \in Gates : Expire(g)) \/ UNCHANGED vars
  <2>1. UNCHANGED <<store, loop, op, phase>>
    BY <1>4 DEF WebStep, WebSubmit, WebList, WebDiscard, WebConfigured, keepAgent, Expire,
           vars, managerVars, routerVars
  <2>. QED BY <2>1 DEF Kept, Tended
<1>5. CASE Crash
  BY <1>5 DEF Crash, Kept
<1>6. CASE MissionStep
  BY <1>6, KeptByMission
<1>7. CASE Boot
  BY <1>7, KeptByBoot
<1>. QED BY <1>1, <1>2, <1>3, <1>4, <1>5, <1>6, <1>7 DEF Next

\* Whatever a crash interrupts, once the engine is up again no record of the
\* owner's project says Created or Running without a caller that is about to
\* start its loop or a loop that has still to write it.
THEOREM OwnerRecordsStayLive == Spec => []OwnerRecordsAreLive
<1>1. Kept => OwnerRecordsAreLive
  BY DEF Kept, OwnerRecordsAreLive, Abandoned, Tended, LiveLoops, Live, Writing, Unsettled
<1>2. Spec => []Kept
  BY KeptInit, KeptNext, EngineSpec, PTL DEF Spec
<1>. QED BY <1>1, <1>2, PTL

-----------------------------------------------------------------------------
(* The engine bridge: gates of threads that wait.                          *)
(*                                                                         *)
(* A join that comes before the poll has seen the thread end may take an   *)
(* outcome whose loop still has its entry, and a second one the same       *)
(* outcome again, for a thread that was failed in between.  As long as     *)
(* turns end within the deadline this does not happen: the agent joins a   *)
(* thread without a loop, and takes what it finds published.               *)

Done(t) == store[t] # None /\ store[t].state = "Done"

\* What an outcome says of the record of its thread.
Told(out, t) ==
    /\ out = "GatePaused" => Waiting(t)
    /\ out = "Completed" => Done(t)

Settled(g) == Waiting(KeyOf[g]) \/ (g \in FallbackGates /\ Done(KeyOf[g]))

\* An entry names a loop of the thread or one that has ended.
Entries ==
    /\ \A t \in Conversations :
          running[t] # None =>
              loop[running[t]].pc = "finished" \/ BusyOn(running[t], t)
    /\ Mine.pc = "register" =>
          loop[Mine.loop].pc = "finished" \/ BusyOn(Mine.loop, Mine.thread)

\* An outcome nobody has taken is the one the agent waits for, and a loop that
\* has ended has published one.
Untaken ==
    /\ \A t \in Conversations : completed[t] # None => Acting /\ task.thread = t
    /\ (Mine.pc = "register" /\ loop[Mine.loop].pc \in {"remove", "finished"}) =>
          completed[Mine.thread] # None
    /\ (Acting /\ Mine.pc # "register" /\ running[task.thread] # None
          /\ loop[running[task.thread]].pc = "finished") => completed[task.thread] # None
    /\ (Mine.pc \in {"inject", "sending"} /\ task.pc = "routing"
          /\ running[task.thread] # None) => loop[running[task.thread]].pc # "finished"

\* A join finds the loop gone and its outcome published, or nothing at all.
Joining ==
    /\ task.pc = "joining" => \A h \in Loops : ~BusyOn(h, task.thread)
    /\ Mine.pc \notin {"awaiting", "clear"}
    /\ Mine.pc = "take" => completed[Mine.thread] = None /\ running[Mine.thread] = None

\* What the agent knows of a pause or an end is still so.
Paused ==
    /\ \A t \in Conversations : Told(completed[t], t)
    /\ (task.pc = "joining" /\ Mine.pc = "returned") => Told(Mine.result, task.thread)
    /\ task.pc \in {"post", "execute"} => Waiting(task.thread)
    /\ task.pc = "fallback" => Waiting(task.thread) \/ Done(task.thread)
    /\ phase = "up" => \A g \in pending : Settled(g)

FastInv == Entries /\ Untaken /\ Joining /\ Paused

\* Steps of the agent between two operations.
LEMMA FastAgentStep ==
    ASSUME EngineInv, FastInv, phase = "up",
           UNCHANGED <<store, loop, running, completed, phase>>,
           Mine'.pc \in {"idle", "spawn", "resume", "join", "stop", "inject"},
           Acting <=> Acting', Acting => task'.thread = task.thread /\ Mine.pc # "register",
           Mine'.pc = "inject" => IsRunning(task'.thread),
           task'.pc = "joining" => \A h \in Loops : ~BusyOn(h, task'.thread),
           task'.pc \in {"post", "execute"} => Waiting(task'.thread),
           task'.pc = "fallback" => Waiting(task'.thread) \/ Done(task'.thread),
           \A g \in pending' : Settled(g)
    PROVE  FastInv'
<1>2. Entries'
  BY DEF FastInv, Entries, BusyOn
<1>3. Untaken'
  BY DEF FastInv, Untaken, IsRunning
<1>4. Joining'
  BY DEF Joining, BusyOn
<1>5. Paused'
  BY DEF FastInv, Paused, Told, Settled, Waiting, Done
<1>. QED BY <1>2, <1>3, <1>4, <1>5 DEF FastInv

LEMMA StillWaiting ==
    ASSUME FastInv, phase = "up", pending' \subseteq pending
    PROVE  \A g \in pending' : Settled(g)
BY DEF FastInv, Paused

LEMMA FastUserStep ==
    ASSUME EngineInv, FastInv, UserStep
    PROVE  FastInv'
<1>1. /\ phase = "up" /\ task.pc = "idle"
      /\ UNCHANGED <<store, loop, running, completed, phase>> /\ pending' \subseteq pending
  BY DEF UserStep, Message, Sweep, Callback, ResolveGate, At, keepManager, keepRest,
         boardVars, Resolve
<1>2. OpsInv /\ RouterTypes /\ Mine.pc = "idle" /\ ~Acting
  BY <1>1 DEF EngineInv, Types, ManagerInv, Place, Acting
<1>3. \A g \in pending : KeyOf[g] \in Threads /\ Settled(g)
  BY <1>1, <1>2, RouterAssumption DEF RouterTypes, FastInv, Paused
<1>4. ASSUME UNCHANGED op,
             \/ task'.pc \in {"idle", "orphan", "route", "interrupt", "clear", "fail"}
             \/ task'.pc \in {"execute", "post"} /\ Waiting(task'.thread)
             \/ task'.pc = "fallback" /\ (Waiting(task'.thread) \/ Done(task'.thread))
      PROVE  FastInv'
  <2>1. Mine' = Mine /\ ~Acting'
    BY <1>2, <1>4 DEF Mine, Acting
  <2>. QED BY <1>1, <1>2, <1>4, <2>1, StillWaiting, FastAgentStep
<1>5. ASSUME NEW p \in {"resume", "stop"}, NEW t \in Threads, Call(p, t),
             task'.pc \in {"resuming", "stopping"}
      PROVE  FastInv'
  <2>1. Mine'.pc = p
    BY <1>2, <1>5, CallEffect DEF Operations
  <2>2. ~Acting'
    BY <1>5, <2>1 DEF Acting
  <2>. QED BY <1>1, <1>2, <1>5, <2>1, <2>2, StillWaiting, FastAgentStep
<1>6. ASSUME NEW scope \in Scopes, Message(scope) PROVE FastInv'
  BY <1>4, <1>6 DEF Message, Receive
<1>7. ASSUME NEW pc \in {"interrupt", "clear"}, Sweep(pc) PROVE FastInv'
  <2>1. task'.pc = pc
    BY <1>7 DEF Sweep, IdleTask
  <2>. QED BY <1>4, <1>7, <2>1 DEF Sweep
<1>10. ASSUME NEW g \in pending, UNCHANGED op, RunAction(g) PROVE FastInv'
  <2>1. CASE g \in FallbackGates
    BY <1>1, <1>4, <1>10, <2>1 DEF RunAction
  <2>2. CASE g \notin FallbackGates
    <3>1. task'.pc = "execute" /\ task'.thread = KeyOf[g]
      BY <1>2, <1>3, <1>10, <2>2, TaskMoves DEF RunAction, TaskPC
    <3>2. Waiting(KeyOf[g])
      BY <1>3, <2>2 DEF Settled
    <3>. QED BY <1>4, <1>10, <3>1, <3>2
  <2>. QED BY <2>1, <2>2
<1>8. ASSUME NEW g \in Gates, Callback(g) PROVE FastInv'
  <2>1. CASE g \in pending
    <3>1. UNCHANGED op /\ RunAction(g)
      BY <1>8, <2>1 DEF Callback
    <3>. QED BY <1>10, <2>1, <3>1
  <2>2. CASE g \notin pending
    BY <1>1, <1>4, <1>8, <2>2 DEF Callback
  <2>. QED BY <2>1, <2>2
<1>9. ASSUME NEW g \in Gates, NEW how \in Resolutions, ResolveGate(g, how) PROVE FastInv'
  <2>1. g \in pending /\ KeyOf[g] \in Threads /\ Settled(g)
    BY <1>3, <1>9 DEF ResolveGate, Resolve
  <2>2. CASE how = "execute"
    <3>1. UNCHANGED op /\ RunAction(g)
      BY <1>9, <2>2 DEF ResolveGate
    <3>. QED BY <1>10, <2>1, <3>1
  <2>6. CASE how = "requeue"
    <3>1. UNCHANGED op /\ Requeue(g)
      BY <1>9, <2>6 DEF ResolveGate
    <3>2. /\ task'.pc = IF g \in FallbackGates THEN "fallback" ELSE "post"
          /\ task'.thread = KeyOf[g]
      BY <1>2, <2>1, <3>1, TaskMoves DEF Requeue, TaskPC
    <3>. QED BY <1>4, <2>1, <3>1, <3>2 DEF Settled
  <2>7. CASE how = "fail"
    <3>1. UNCHANGED op /\ Handle("fail", KeyOf[g])
      BY <1>9, <2>7 DEF ResolveGate
    <3>2. task'.pc = "fail"
      BY <1>2, <2>1, <3>1, TaskMoves DEF TaskPC
    <3>. QED BY <1>4, <3>1, <3>2
  <2>8. CASE how = "replay"
    <3>1. UNCHANGED op /\ Replay(g)
      BY <1>9, <2>8 DEF ResolveGate
    <3>2. task'.pc \in {"route", "orphan", "idle"}
      BY <1>1, <3>1 DEF Replay, Receive
    <3>. QED BY <1>4, <3>1, <3>2
  <2>3. CASE how = "drop"
    BY <1>1, <1>4, <1>9, <2>3 DEF ResolveGate
  <2>4. CASE how = "resume"
    <3>1. Call("resume", KeyOf[g]) /\ task'.pc = "resuming"
      BY <1>2, <1>9, <2>1, <2>4, TaskMoves DEF ResolveGate, TaskPC
    <3>. QED BY <1>5, <2>1, <3>1
  <2>5. CASE how = "cancel"
    <3>1. Call("stop", KeyOf[g]) /\ task'.pc = "stopping"
      BY <1>2, <1>9, <2>1, <2>5, TaskMoves DEF ResolveGate, TaskPC
    <3>. QED BY <1>5, <2>1, <3>1
  <2>. QED BY <2>2, <2>3, <2>4, <2>5, <2>6, <2>7, <2>8 DEF Resolutions
<1>. QED BY <1>6, <1>7, <1>8, <1>9 DEF UserStep

\* The record the handler fails has no gate, and no outcome is left of it.
LEMMA FastFailWaiting ==
    ASSUME EngineInv, FastInv, FailWaiting
    PROVE  FastInv'
<1>. DEFINE t == task.thread
<1>1. /\ phase = "up" /\ task.pc \in {"orphan", "fail"} /\ Mine.pc = "idle" /\ ~Acting
      /\ t \in Threads /\ Mine' = Mine
      /\ UNCHANGED <<loop, running, completed, phase, pending>>
  BY ConversationsAreThreads
     DEF EngineInv, Types, RouterTypes, FailWaiting, Place, Acting, Mine, keepRest, boardVars
<1>2. task'.pc \in {"route", "idle"}
  BY TaskMoves DEF EngineInv, Types, FailWaiting, TaskPC
<1>3. ~Acting'
  BY <1>2 DEF Acting
<1>4. Entries' /\ Untaken' /\ Joining'
  BY <1>1, <1>2, <1>3 DEF FastInv, Entries, Untaken, Joining, BusyOn
<1>5. GatesOf(t) = {} \/ UNCHANGED store
  BY <1>1 DEF EngineInv, Cleared, FailWaiting
<1>6. \A k \in Threads : k # t => store'[k] = store[k]
  BY DEF FailWaiting, EngineInv, Types, ManagerInv, StoreInv
<1>7. \A g \in pending : Settled(g)'
  <2>1. \A g \in pending : KeyOf[g] \in Threads /\ Settled(g)
    BY <1>1, RouterAssumption DEF EngineInv, Types, RouterTypes, FastInv, Paused
  <2>2. CASE GatesOf(t) = {}
    BY <1>6, <2>1, <2>2 DEF GatesOf, Settled, Waiting, Done
  <2>3. CASE UNCHANGED store
    BY <2>1, <2>3 DEF Settled, Waiting, Done
  <2>. QED BY <1>5, <2>2, <2>3
<1>8. \A k \in Conversations : completed[k] = None
  BY <1>1 DEF FastInv, Untaken
<1>9. \A k \in Conversations : Told(completed[k], k)'
  BY <1>1, <1>8, NoneAssumption DEF Told, Result, Outcome
<1>10. Paused'
  BY <1>1, <1>2, <1>7, <1>9 DEF Paused
<1>. QED BY <1>4, <1>10 DEF FastInv

LEMMA FastRoute ==
    ASSUME EngineInv, FastInv, Route
    PROVE  FastInv'
<1>1. /\ phase = "up" /\ task.pc = "route" /\ Mine.pc = "idle" /\ ~Acting
      /\ UNCHANGED <<store, loop, running, completed, phase, pending>>
      /\ OpsInv /\ RouterTypes /\ conv[task.scope] \subseteq Threads
  BY ConversationsAreThreads
     DEF EngineInv, Types, RouterTypes, Task, ManagerInv, Route, At, Place, Acting,
         keepManager, keepRest, boardVars
<1>2. CASE Finish /\ UNCHANGED op
  <2>1. task'.pc = "idle" /\ Mine' = Mine
    BY <1>1, <1>2, TaskMoves DEF TaskPC, Mine
  <2>2. ~Acting'
    BY <2>1 DEF Acting
  <2>. QED BY <1>1, <2>1, <2>2, StillWaiting, FastAgentStep
<1>3. ASSUME NEW t \in Threads, NEW p \in {"spawn", "resume", "inject"},
             Call(p, t), task' = [task EXCEPT !.pc = "routing", !.thread = t],
             p = "inject" => IsRunning(t)
      PROVE  FastInv'
  <2>1. Mine'.pc = p
    BY <1>1, <1>3, CallEffect DEF Operations
  <2>2. task'.pc = "routing" /\ task'.thread = t
    BY <1>1, <1>3 DEF RouterTypes, Task
  <2>3. ~Acting'
    BY <1>3, <2>1, <2>2 DEF Acting
  <2>. QED BY <1>1, <1>3, <2>1, <2>2, <2>3, StillWaiting, FastAgentStep
<1>. DEFINE To(p, t) == Call(p, t) /\ task' = [task EXCEPT !.pc = "routing", !.thread = t]
<1>4. \/ Finish /\ UNCHANGED op
      \/ \E t \in conv[task.scope] : To(IF IsRunning(t) THEN "inject" ELSE "resume", t)
      \/ \E t \in Threads : To("spawn", t)
  BY ConversationsAreThreads DEF Route
<1>5. ASSUME NEW t \in conv[task.scope], To(IF IsRunning(t) THEN "inject" ELSE "resume", t)
      PROVE  FastInv'
  <2>1. CASE IsRunning(t)
    BY <1>1, <1>3, <1>5, <2>1
  <2>2. CASE ~IsRunning(t)
    BY <1>1, <1>3, <1>5, <2>2
  <2>. QED BY <2>1, <2>2
<1>. QED BY <1>2, <1>3, <1>4, <1>5

LEMMA FastReject ==
    ASSUME EngineInv, FastInv, Reject
    PROVE  FastInv'
<1>1. /\ phase = "up" /\ Mine.pc = "idle" /\ ~Acting /\ Mine' = Mine
      /\ UNCHANGED <<store, loop, running, completed, phase, pending>>
  BY DEF EngineInv, Reject, At, Place, Acting, Mine, keepManager, keepRest, boardVars
<1>2. task'.pc = "idle"
  BY TaskMoves DEF EngineInv, Types, Reject, TaskPC
<1>3. ~Acting'
  BY <1>2 DEF Acting
<1>. QED BY <1>1, <1>2, <1>3, StillWaiting, FastAgentStep

LEMMA FastPoll ==
    ASSUME ~SlowTurns, EngineInv, FastInv, Poll
    PROVE  FastInv'
<1>1. /\ phase = "up" /\ task.pc = "poll" /\ Mine.pc = "idle" /\ Acting
      /\ task.thread \in Threads /\ task.thread \in Conversations
      /\ ~IsRunning(task.thread)
      /\ UNCHANGED <<store, loop, running, completed, phase, pending>>
  BY ConversationsAreThreads
     DEF EngineInv, Types, RouterTypes, Poll, At, Place, Acting, keepManager,
         keepRest, boardVars
<1>2. Mine'.pc = "join"
  BY <1>1, CallEffect DEF EngineInv, Types, ManagerInv, Poll, Operations
<1>3. task'.pc = "joining" /\ task'.thread = task.thread
  BY TaskMoves DEF EngineInv, Types, Poll, TaskPC
<1>4. Acting'
  BY <1>2, <1>3 DEF Acting
<1>5. \A h \in Loops : ~BusyOn(h, task.thread)
  BY <1>1, NoneAssumption DEF EngineInv, Turns, AtWork, TurnOK, Held, BusyOn, IsRunning, Busy
<1>. QED BY <1>1, <1>2, <1>3, <1>4, <1>5, StillWaiting, FastAgentStep

LEMMA FastJoined ==
    ASSUME EngineInv, FastInv, Joined
    PROVE  FastInv'
<1>1. /\ phase = "up" /\ task.pc = "joining" /\ Mine.pc = "returned" /\ ~Acting
      /\ UNCHANGED <<store, loop, running, completed, phase, pending>>
  BY DEF Joined, At, Answered, Mine, Acting, keepManager, keepRest, boardVars
<1>2. Mine'.pc = "idle"
  BY ConsumeEffect DEF EngineInv, Types, ManagerInv, Joined
<1>3. \/ task'.pc = "idle"
      \/ Mine.result = "GatePaused" /\ task'.pc = "post" /\ task'.thread = task.thread
      \/ Mine.result = "Completed" /\ task'.pc = "fallback" /\ task'.thread = task.thread
  BY TaskMoves DEF EngineInv, Types, Joined, Mine, TaskPC
<1>4. ~Acting'
  BY <1>3 DEF Acting
<1>5. /\ task'.pc = "post" => Waiting(task'.thread)
      /\ task'.pc = "fallback" => Done(task'.thread)
  BY <1>1, <1>3 DEF FastInv, Paused, Told
<1>. QED BY <1>1, <1>2, <1>3, <1>4, <1>5, StillWaiting, FastAgentStep

\* The gate that is posted is one of a thread that waits, or a fallback gate
\* of a thread that is done.
LEMMA FastPostGate ==
    ASSUME EngineInv, FastInv, PostGate
    PROVE  FastInv'
<1>1. /\ phase = "up" /\ task.pc \in {"post", "fallback"} /\ Mine.pc = "idle" /\ ~Acting /\ Mine' = Mine
      /\ UNCHANGED <<store, loop, running, completed, phase>>
  BY DEF EngineInv, PostGate, At, Place, Acting, Mine, keepManager, keepRest
<1>2. task'.pc = "idle"
  BY TaskMoves DEF EngineInv, Types, PostGate, TaskPC
<1>3. ~Acting'
  BY <1>2 DEF Acting
<1>4. \A g \in pending' :
          \/ g \in pending
          \/ KeyOf[g] = task.thread /\ (task.pc = "fallback" => g \in FallbackGates)
  BY DEF PostGate, Post, Refuse, boardVars
<1>5. \A g \in pending' : Settled(g)
  BY <1>1, <1>4 DEF FastInv, Paused, Settled
<1>. QED BY <1>1, <1>2, <1>3, <1>5, FastAgentStep

LEMMA FastExecute ==
    ASSUME EngineInv, FastInv, NEW result \in {"ok", "paused", "error"}, Execute(result)
    PROVE  FastInv'
<1>1. /\ phase = "up" /\ task.pc = "execute" /\ Mine.pc = "idle" /\ ~Acting
      /\ task.thread \in Threads /\ OpsInv /\ RouterTypes
      /\ UNCHANGED <<store, loop, running, completed, phase, pending>>
  BY ConversationsAreThreads
     DEF EngineInv, Types, RouterTypes, ManagerInv, Execute, At, Place, Acting,
         keepManager, keepRest, boardVars
<1>2. \/ task'.pc = "resuming" /\ Call("resume", task.thread)
      \/ task'.pc = "post" /\ task'.thread = task.thread /\ UNCHANGED op
      \/ task'.pc = "idle" /\ UNCHANGED op
  BY <1>1, TaskMoves DEF Execute, TaskPC
<1>3. \/ task'.pc = "resuming" /\ Mine'.pc = "resume"
      \/ task'.pc = "post" /\ task'.thread = task.thread /\ Mine'.pc = "idle"
      \/ task'.pc = "idle" /\ Mine'.pc = "idle"
  BY <1>1, <1>2, CallEffect DEF Operations, Mine
<1>4. ~Acting'
  BY <1>3 DEF Acting
<1>5. task'.pc = "post" => Waiting(task'.thread)
  BY <1>1, <1>3 DEF FastInv, Paused
<1>. QED BY <1>1, <1>3, <1>4, <1>5, StillWaiting, FastAgentStep

\* The handler takes the answer of an operation.
LEMMA FastAnswered ==
    ASSUME EngineInv, FastInv, Routed \/ Resumption \/ Stopped
    PROVE  FastInv'
<1>1. /\ phase = "up" /\ task.pc \in {"routing", "resuming", "stopping"}
      /\ Mine.pc = "returned"
      /\ UNCHANGED <<store, loop, running, completed, phase, pending>>
      /\ task.thread \in Threads
  BY ConversationsAreThreads
     DEF EngineInv, Types, RouterTypes, Routed, Resumption, Stopped, At, Answered, Mine,
         keepManager, keepRest, boardVars
<1>2. Mine'.pc = "idle"
  BY ConsumeEffect DEF EngineInv, Types, ManagerInv, Routed, Resumption, Stopped
<1>3. IF task.pc # "stopping" /\ Mine.result = "Ok"
      THEN task'.pc = "poll" /\ task'.thread = task.thread
      ELSE task'.pc = "idle"
  BY <1>1, TaskMoves DEF EngineInv, Types, Routed, Resumption, Stopped, At, Mine, TaskPC
<1>4. Acting <=> Acting'
  BY <1>1, <1>3 DEF Acting
<1>5. Acting => task'.thread = task.thread
  BY <1>1, <1>3 DEF Acting
<1>. QED BY <1>1, <1>2, <1>3, <1>4, <1>5, StillWaiting, FastAgentStep

LEMMA FastSweeps ==
    ASSUME EngineInv, FastInv,
           (\E t \in Threads : SweepThread(t)) \/ SweepGates \/ SweepEnd
    PROVE  FastInv'
<1>1. /\ phase = "up" /\ task.pc \in {"interrupt", "clear"} /\ ~Acting
      /\ UNCHANGED <<store, loop, running, completed, phase>> /\ pending' \subseteq pending
  BY DEF SweepThread, SweepGates, SweepEnd, Sweeping, Acting, keepManager, keepRest,
         boardVars, Drop
<1>2. task'.pc \in {"interrupt", "clear", "idle"}
  BY <1>1, TaskMoves
     DEF EngineInv, Types, RouterTypes, Task, SweepThread, SweepGates, SweepEnd, TaskPC
<1>3. ~Acting'
  BY <1>2 DEF Acting
<1>4. OpsInv
  BY DEF EngineInv, Types, ManagerInv
<1>5. Mine'.pc \in {"idle", "stop"}
  <2>1. ASSUME NEW t \in Threads, SweepThread(t) PROVE Mine'.pc \in {"idle", "stop"}
    <3>1. Mine.pc = "idle"
      BY <1>1, <2>1, NoneAssumption, ConversationsAreThreads DEF EngineInv, Place, SweepThread
    <3>2. CASE IsRunning(t)
      BY <1>4, <2>1, <3>2, CallEffect DEF SweepThread, Operations
    <3>3. CASE ~IsRunning(t)
      BY <2>1, <3>1, <3>3 DEF SweepThread, Mine
    <3>. QED BY <3>2, <3>3
  <2>2. ASSUME SweepGates PROVE Mine'.pc = "idle"
    BY <1>4, <2>2, ConsumeEffect DEF SweepGates
  <2>3. ASSUME SweepEnd PROVE Mine'.pc = "idle"
    BY <1>1, <2>3, NoneAssumption, ConversationsAreThreads DEF EngineInv, Place, SweepEnd, Mine
  <2>. QED BY <2>1, <2>2, <2>3
<1>. QED BY <1>1, <1>2, <1>3, <1>5, StillWaiting, FastAgentStep

LEMMA FastAside ==
    ASSUME FastInv, UNCHANGED <<store, loop, running, completed, op, task, phase>>,
           pending' \subseteq pending
    PROVE  FastInv'
<1>1. Mine' = Mine /\ (Acting' <=> Acting)
  BY DEF Mine, Acting
<1>2. Entries' /\ Untaken' /\ Joining'
  BY <1>1 DEF FastInv, Entries, Untaken, Joining, BusyOn
<1>3. Paused'
  BY <1>1 DEF FastInv, Paused, Told, Settled, Waiting, Done
<1>. QED BY <1>2, <1>3 DEF FastInv

\* Steps of the operation that leave the loops, the maps and the records alone
\* and begin no turn.
LEMMA FastOnlyOp ==
    ASSUME EngineInv, FastInv,
           UNCHANGED <<store, loop, running, completed, boardVars, routerVars>>,
           task.pc \in {"routing", "resuming"}, ~Acting, ~Acting',
           Mine'.pc \in {"load", "save", "returned"}
    PROVE  FastInv'
<1>1. UNCHANGED <<task, phase, pending>>
  BY DEF boardVars, routerVars
<1>2. Entries' /\ Untaken' /\ Joining'
  BY <1>1 DEF FastInv, Entries, Untaken, Joining, BusyOn
<1>3. Paused'
  BY <1>1 DEF FastInv, Paused, Told, Settled, Waiting, Done
<1>. QED BY <1>2, <1>3 DEF FastInv

\* The record of the agent's thread is written: it has no gate and no
\* outcome nobody has taken.
LEMMA FastWrites ==
    ASSUME EngineInv, FastInv, UNCHANGED <<completed, boardVars, routerVars>>,
           task.pc \in {"routing", "resuming", "poll"}, task.thread \in Threads,
           completed[task.thread] = None, GatesOf(task.thread) = {},
           \A k \in Threads : k # task.thread => store'[k] = store[k]
    PROVE  Paused'
<1>1. UNCHANGED <<task, phase, pending>>
  BY DEF boardVars, routerVars
<1>2. \A g \in pending : KeyOf[g] \in Threads /\ KeyOf[g] # task.thread
  BY RouterAssumption DEF EngineInv, Types, RouterTypes, GatesOf
<1>3. \A t \in Conversations : Told(completed[t], t)'
  BY <1>1, NoneAssumption, ConversationsAreThreads
     DEF FastInv, Paused, Told, Waiting, Done, Result, Outcome
<1>4. phase = "up" => \A g \in pending : Settled(g)'
  BY <1>2 DEF FastInv, Paused, Settled, Waiting, Done
<1>. QED BY <1>1, <1>3, <1>4 DEF Paused

LEMMA FastSpawnSave ==
    ASSUME EngineInv, FastInv, Spawn(Agent) \/ ResumeSave(Agent),
           UNCHANGED <<boardVars, routerVars>>
    PROVE  FastInv'
<1>1. /\ Mine.pc \in {"spawn", "save"} /\ task.pc \in {"routing", "resuming"} /\ ~Acting
      /\ UNCHANGED <<loop, running, completed, task>>
  BY Handlers DEF Spawn, ResumeSave, Mine, Acting, routerVars
<1>2. /\ Mine.thread = task.thread /\ task.thread \in Threads /\ OpsInv /\ Mine \in Operation
      /\ store \in [Threads -> Record \cup {None}] /\ completed[task.thread] = None
      /\ GatesOf(task.thread) = {}
  BY <1>1, OperationFacts DEF EngineInv, Dues, Cleared, Beginning
<1>3. \A k \in Threads : k # task.thread => store'[k] = store[k]
  BY <1>2 DEF Spawn, ResumeSave, Mine
<1>4. Mine'.pc = "start"
  <2>1. CASE Spawn(Agent)
    <3>. DEFINE o == [op[Agent] EXCEPT !.pc = "start", !.rec = NewRecord]
    <3>1. Mine' = o
      BY <1>2, <2>1, MineChange DEF Spawn
    <3>. QED BY <1>2, <3>1 DEF Mine, Operation
  <2>2. CASE ResumeSave(Agent)
    BY <1>2, <2>2, StepEffect DEF ResumeSave, OpPC
  <2>. QED BY <2>1, <2>2
<1>5. ~Acting'
  BY <1>1, <1>4 DEF Acting
<1>6. Paused'
  BY <1>1, <1>2, <1>3, FastWrites
<1>7. Entries' /\ Untaken' /\ Joining'
  BY <1>1, <1>4, <1>5 DEF FastInv, Entries, Untaken, Joining, BusyOn
<1>. QED BY <1>6, <1>7 DEF FastInv

LEMMA FastResumeCheck ==
    ASSUME EngineInv, FastInv, ResumeCheck(Agent), UNCHANGED <<boardVars, routerVars>>
    PROVE  FastInv'
<1>1. /\ Mine.pc = "resume" /\ task.pc \in {"routing", "resuming"} /\ ~Acting
      /\ UNCHANGED <<store, loop, running, completed, task>>
  BY Handlers DEF ResumeCheck, Mine, Acting, routerVars
<1>2. OpsInv
  BY DEF EngineInv, Types, ManagerInv
<1>3. \/ Mine'.pc = "load"
      \/ Mine'.pc = "returned" /\ Mine'.result = "AlreadyRunning"
  BY <1>2, StepEffect, ReturnEffect DEF ResumeCheck, Result, OpPC
<1>4. ~Acting'
  BY <1>1, <1>3 DEF Acting
<1>. QED BY <1>1, <1>3, <1>4, FastOnlyOp

LEMMA FastResumeLoad ==
    ASSUME EngineInv, FastInv, ResumeLoad(Agent), UNCHANGED <<boardVars, routerVars>>
    PROVE  FastInv'
<1>. DEFINE o == [op[Agent] EXCEPT !.pc = "save", !.rec = Resumed(store[Mine.thread])]
<1>1. /\ Mine.pc = "load" /\ task.pc \in {"routing", "resuming"} /\ ~Acting
      /\ UNCHANGED <<store, loop, running, completed, task>>
  BY Handlers DEF ResumeLoad, Mine, Acting, routerVars
<1>2. OpsInv /\ Mine \in Operation
  BY <1>1, OperationFacts
<1>3. \/ Return(Agent, "NotFound") \/ Return(Agent, "NotResumable")
      \/ op' = [op EXCEPT ![Agent] = o]
  BY DEF ResumeLoad, Mine
<1>4. \/ Mine'.pc = "save"
      \/ Mine'.pc = "returned" /\ Mine'.result \in {"NotFound", "NotResumable"}
  <2>1. CASE op' = [op EXCEPT ![Agent] = o]
    <3>1. Mine' = o
      BY <1>2, <2>1, MineChange
    <3>. QED BY <1>2, <3>1 DEF Mine, Operation
  <2>2. ASSUME NEW e \in {"NotFound", "NotResumable"}, Return(Agent, e)
        PROVE  Mine'.pc = "returned" /\ Mine'.result = e
    BY <1>2, <2>2, ReturnEffect DEF Result
  <2>. QED BY <1>3, <2>1, <2>2
<1>5. ~Acting'
  BY <1>1, <1>4 DEF Acting
<1>. QED BY <1>1, <1>4, <1>5, FastOnlyOp

LEMMA FastStartLoop ==
    ASSUME EngineInv, FastInv, NEW h \in Loops, StartLoop(Agent, h),
           UNCHANGED <<boardVars, routerVars>>
    PROVE  FastInv'
<1>. DEFINE t == Mine.thread
            o == [op[Agent] EXCEPT !.pc = "register", !.loop = h]
            l == [VacantLoop EXCEPT !.pc = "begin", !.thread = t, !.rec = Mine.rec]
<1>1. /\ Mine.pc = "start" /\ task.pc \in {"routing", "resuming"} /\ ~Acting
      /\ UNCHANGED <<store, running, completed, task, phase, pending>>
      /\ \A k \in Threads : running[k] # h
  BY Handlers DEF StartLoop, Mine, Acting, boardVars, routerVars, Referenced
<1>2. /\ t = task.thread /\ t \in Threads /\ t \in Conversations /\ OpsInv
      /\ Mine \in Operation /\ running \in [Threads -> Loops \cup {None}]
      /\ GatesOf(task.thread) = {}
  BY <1>1, OperationFacts DEF EngineInv, Cleared, Beginning
<1>3. Mine' = o
  BY <1>2, MineChange DEF StartLoop
<1>4. Mine'.pc = "register" /\ Mine'.thread = t /\ Mine'.loop = h
  BY <1>2, <1>3 DEF Mine, Operation
<1>5. l.pc = "begin" /\ l.thread = t
  BY VacantLoopType DEF LoopTask
<1>6. loop'[h] = l /\ \A k \in Loops : k # h => loop'[k] = loop[k]
  BY DEF StartLoop, Mine, EngineInv, Types, ManagerInv, LoopsInv
<1>7. Entries'
  BY <1>1, <1>2, <1>4, <1>5, <1>6, ConversationsAreThreads DEF FastInv, Entries, BusyOn, Busy
<1>8. \A k \in Conversations : completed[k] = None
  BY <1>1 DEF FastInv, Untaken
<1>9. Untaken'
  BY <1>1, <1>4, <1>5, <1>6, <1>8 DEF Untaken
<1>10. Joining'
  BY <1>1, <1>4 DEF Joining
<1>11. Paused'
  BY <1>1, <1>2, <1>8, FastWrites
<1>. QED BY <1>7, <1>9, <1>10, <1>11 DEF FastInv

LEMMA FastRegister ==
    ASSUME EngineInv, FastInv, Register(Agent), UNCHANGED <<boardVars, routerVars>>
    PROVE  FastInv'
<1>. DEFINE t == Mine.thread
<1>1. /\ Mine.pc = "register" /\ task.pc \in {"routing", "resuming"} /\ Acting
      /\ UNCHANGED <<store, loop, completed, task, phase, pending>>
  BY Handlers DEF Register, Mine, Acting, boardVars, routerVars
<1>2. /\ t = task.thread /\ t \in Threads /\ OpsInv /\ Mine.loop \in Loops
      /\ t \in Conversations
      /\ running \in [Threads -> Loops \cup {None}]
  BY <1>1, OperationFacts
<1>3. Mine'.pc = "returned" /\ Mine'.result = "Ok"
  BY <1>2, ReturnEffect DEF Register, Result
<1>4. running'[t] = Mine.loop /\ \A k \in Threads : k # t => running'[k] = running[k]
  BY <1>2 DEF Register, Mine
<1>5. Acting'
  BY <1>1, <1>3 DEF Acting
<1>6. Entries'
  BY <1>1, <1>2, <1>3, <1>4, ConversationsAreThreads DEF FastInv, Entries, BusyOn
<1>7. Untaken'
  BY <1>1, <1>2, <1>3, <1>4, <1>5 DEF FastInv, Untaken
<1>8. Joining'
  BY <1>1, <1>3 DEF Joining
<1>9. Paused'
  BY <1>1 DEF FastInv, Paused, Told, Settled, Waiting, Done
<1>. QED BY <1>6, <1>7, <1>8, <1>9 DEF FastInv

LEMMA FastSending ==
    ASSUME EngineInv, FastInv,
           UNCHANGED <<store, running, completed, boardVars, routerVars>>,
           Mine.pc \in {"stop", "inject", "sending"},
           Mine'.pc \in {"sending", "returned"},
           \A k \in Loops : loop'[k].pc = loop[k].pc /\ loop'[k].thread = loop[k].thread
    PROVE  FastInv'
<1>1. UNCHANGED <<task, phase, pending>> /\ task.pc # "joining" /\ ~Acting
  BY Handlers DEF boardVars, routerVars, Acting
<1>2. /\ task.pc \in {"routing", "stopping", "interrupt", "clear"}
      /\ task.thread \in Threads /\ running \in [Threads -> Loops \cup {None}]
  BY Handlers, OperationFacts
<1>3. task.pc = "routing" => Mine.pc # "stop"
  BY DEF EngineInv, Place, Waits
<1>4. \A k \in Conversations : completed[k] = None
  BY <1>1 DEF FastInv, Untaken
<1>5. Entries'
  BY <1>2, ConversationsAreThreads DEF FastInv, Entries, BusyOn
<1>6. Acting' => task.pc = "routing"
  BY <1>1, <1>2 DEF Acting
<1>7. Untaken'
  BY <1>1, <1>2, <1>3, <1>4, <1>6 DEF FastInv, Untaken
<1>8. Joining'
  BY <1>1 DEF Joining
<1>9. Paused'
  BY <1>1, <1>2 DEF FastInv, Paused, Told, Settled, Waiting, Done
<1>. QED BY <1>5, <1>7, <1>8, <1>9 DEF FastInv

LEMMA FastSend ==
    ASSUME EngineInv, FastInv, Send(Agent), UNCHANGED <<boardVars, routerVars>>
    PROVE  FastInv'
<1>. DEFINE t == Mine.thread
            h == running[t]
            s == IF Mine.pc = "stop" THEN "Stop" ELSE "Inject"
            o == [op[Agent] EXCEPT !.pc = "sending", !.loop = h, !.signal = s]
<1>1. Mine.pc \in {"stop", "inject"} /\ UNCHANGED <<store, running, completed>>
  BY DEF Send, Mine
<1>2. /\ t \in Threads /\ OpsInv /\ Mine \in Operation
      /\ running \in [Threads -> Loops \cup {None}]
  BY <1>1, OperationFacts
<1>3. CASE h = None /\ Return(Agent, "NotFound") /\ UNCHANGED loop
  <2>1. Mine'.pc = "returned"
    BY <1>2, <1>3, ReturnEffect DEF Result
  <2>. QED BY <1>1, <1>3, <2>1, FastSending
<1>4. CASE h # None /\ Deliver(h, s) /\ Return(Agent, "Ok")
  <2>1. Mine'.pc = "returned"
    BY <1>2, <1>4, ReturnEffect DEF Result
  <2>2. h \in Loops /\ s \in Signal /\ LoopsInv
    BY <1>2, <1>4 DEF Signal, EngineInv, Types, ManagerInv
  <2>. QED BY <1>1, <1>4, <2>1, <2>2, DeliverEffect, FastSending
<1>5. CASE h # None /\ op' = [op EXCEPT ![Agent] = o] /\ UNCHANGED loop
  <2>1. Mine' = o /\ Others'
    BY <1>2, <1>5, MineChange DEF EngineInv, Place
  <2>2. Mine'.pc = "sending"
    BY <1>2, <2>1 DEF Mine, Operation
  <2>. QED BY <1>1, <1>5, <2>2, FastSending
<1>. QED BY <1>3, <1>4, <1>5 DEF Send, Mine

LEMMA FastSendLate ==
    ASSUME EngineInv, FastInv, SendLate(Agent), UNCHANGED <<boardVars, routerVars>>
    PROVE  FastInv'
<1>1. Mine.pc = "sending" /\ UNCHANGED <<store, running, completed>>
  BY DEF SendLate, Mine
<1>2. OpsInv /\ Mine \in Operation /\ Mine.loop \in Loops
  BY <1>1, OperationFacts
<1>3. Mine'.pc = "returned"
  BY <1>2, ReturnEffect DEF SendLate, Result
<1>4. LoopsInv /\ Mine.signal \in Signal /\ Deliver(Mine.loop, Mine.signal)
  BY <1>2 DEF EngineInv, Types, ManagerInv, Operation, SendLate, Mine
<1>. QED BY <1>1, <1>2, <1>3, <1>4, DeliverEffect, FastSending

\* The join: the outcome is published, or there is nothing to wait for.
LEMMA FastJoin ==
    ASSUME EngineInv, FastInv, Join(Agent), UNCHANGED <<boardVars, routerVars>>
    PROVE  FastInv'
<1>. DEFINE t == Mine.thread
<1>1. /\ Mine.pc = "join" /\ task.pc = "joining" /\ Acting
      /\ UNCHANGED <<store, loop, running, task, phase, pending>>
  BY Handlers DEF Join, Mine, Acting, boardVars, routerVars
<1>2. /\ t = task.thread /\ t \in Threads /\ t \in Conversations /\ OpsInv
      /\ completed \in [Threads -> Outcome \cup {None}]
  BY <1>1, OperationFacts
<1>5. CASE completed[t] = None
  <2>1. Step(Agent, "take") /\ UNCHANGED completed
    BY <1>5 DEF Join, Mine
  <2>2. Mine'.pc = "take" /\ Mine'.thread = t
    BY <1>2, <2>1, StepEffect DEF OpPC
  <2>3. Acting'
    BY <1>1, <2>2 DEF Acting
  <2>4. running[t] = None
    BY <1>1, <1>2, <1>5 DEF FastInv, Entries, Untaken, Joining, BusyOn, EngineInv, Types,
                            ManagerInv, MapsInv
  <2>5. Entries' /\ Untaken'
    BY <1>1, <2>1, <2>2, <2>3 DEF FastInv, Entries, Untaken, BusyOn
  <2>6. Joining'
    BY <1>1, <1>5, <2>1, <2>2, <2>4 DEF FastInv, Joining, BusyOn
  <2>7. Paused'
    BY <1>1, <2>1, <2>2 DEF FastInv, Paused, Told, Settled, Waiting, Done
  <2>. QED BY <2>5, <2>6, <2>7 DEF FastInv
<1>6. CASE completed[t] # None
  <2>1. /\ Return(Agent, completed[t])
        /\ completed'[t] = None /\ \A k \in Threads : k # t => completed'[k] = completed[k]
    BY <1>2, <1>6 DEF Join, Mine
  <2>2. completed[t] \in Result \cup {None}
    BY <1>2 DEF Result
  <2>3. Mine'.pc = "returned" /\ Mine'.result = completed[t]
    BY <1>2, <2>1, <2>2, ReturnEffect
  <2>4. \A k \in Conversations : completed'[k] = None
    BY <1>1, <1>2, <2>1, ConversationsAreThreads DEF FastInv, Untaken
  <2>5. ~Acting'
    BY <1>1, <2>3 DEF Acting
  <2>6. Entries' /\ Untaken' /\ Joining'
    BY <1>1, <2>3, <2>4, <2>5 DEF FastInv, Entries, Untaken, Joining, BusyOn
  <2>7. \A k \in Conversations : Told(completed[k], k)'
    BY <2>4, NoneAssumption DEF Told, Result, Outcome
  <2>8. Told(completed[t], t)
    BY <1>2 DEF FastInv, Paused
  <2>9. Told(Mine.result, task.thread)'
    BY <1>1, <1>2, <2>3, <2>8 DEF Told, Waiting, Done
  <2>10. phase = "up" => \A g \in pending : Settled(g)'
    BY <1>1 DEF FastInv, Paused, Settled, Waiting, Done
  <2>11. Paused'
    BY <1>1, <2>7, <2>9, <2>10 DEF Paused
  <2>. QED BY <2>6, <2>11 DEF FastInv
<1>. QED BY <1>5, <1>6

LEMMA FastJoinTake ==
    ASSUME EngineInv, FastInv, JoinTake(Agent), UNCHANGED <<boardVars, routerVars>>
    PROVE  FastInv'
<1>. DEFINE t == Mine.thread
<1>1. /\ Mine.pc = "take" /\ task.pc = "joining" /\ Acting
      /\ UNCHANGED <<store, loop, completed, task, phase, pending>>
  BY Handlers DEF JoinTake, Mine, Acting, boardVars, routerVars
<1>2. t = task.thread /\ t \in Threads /\ t \in Conversations /\ OpsInv
  BY <1>1, OperationFacts
<1>3. running[t] = None /\ \A k \in Conversations : completed[k] = None
  BY <1>1, <1>2 DEF FastInv, Untaken, Joining
<1>4. Return(Agent, "NotFound") /\ UNCHANGED running
  BY <1>3 DEF JoinTake, Mine
<1>5. Mine'.pc = "returned" /\ Mine'.result = "NotFound"
  BY <1>2, <1>4, ReturnEffect DEF Result
<1>6. ~Acting'
  BY <1>1, <1>5 DEF Acting
<1>7. Entries' /\ Untaken' /\ Joining'
  BY <1>1, <1>3, <1>4, <1>5, <1>6 DEF FastInv, Entries, Untaken, Joining, BusyOn
<1>8. Paused'
  BY <1>1, <1>5 DEF FastInv, Paused, Told, Settled, Waiting, Done
<1>. QED BY <1>7, <1>8 DEF FastInv

LEMMA FastOperate ==
    ASSUME EngineInv, FastInv, Operate
    PROVE  FastInv'
<1>1. ~JoinAwait(Agent) /\ ~JoinClear(Agent)
  BY DEF FastInv, Joining, JoinAwait, JoinClear, Mine
<1>. QED BY <1>1, FastSpawnSave, FastResumeCheck, FastResumeLoad, FastStartLoop,
            FastRegister, FastSend, FastSendLate, FastJoin, FastJoinTake
     DEF Operate, OperationStep

-----------------------------------------------------------------------------
(* Gates of threads that wait: the steps of a loop and the restart.        *)

\* A loop at work is not one of the thread the agent joins.
LEMMA NotJoining ==
    ASSUME EngineInv, FastInv, NEW h \in Loops, InTurn(h)
    PROVE  /\ task.pc \in {"routing", "resuming", "poll"} /\ task.thread = loop[h].thread
           /\ task.thread \in Threads /\ completed[task.thread] = None
           /\ GatesOf(task.thread) = {} /\ Mine.pc # "take"
<1>1. /\ Acting /\ task.thread = loop[h].thread /\ completed[loop[h].thread] = None
      /\ loop[h].thread \in Threads /\ GatesOf(loop[h].thread) = {}
  BY TurnFacts
<1>2. task.pc # "joining"
  BY <1>1 DEF FastInv, Joining, BusyOn, InTurn, AtWork
<1>. QED BY <1>1, <1>2, Handlers DEF Acting

\* Where the entries and the operation point.
LEMMA Pointers ==
    ASSUME EngineInv
    PROVE  /\ \A t \in Threads : running[t] # None => running[t] \in Loops
           /\ Mine.pc = "register" => Mine.loop \in Loops /\ Mine.thread \in Threads
           /\ Acting => task.thread \in Threads
           /\ Mine.pc \in {"inject", "sending", "take"} => task.thread \in Threads
           /\ Mine.pc # "idle" => Mine.thread = task.thread
<1>1. running \in [Threads -> Loops \cup {None}]
  BY DEF EngineInv, Types, ManagerInv, MapsInv
<1>2. Acting => task.thread \in Threads
  BY ConversationsAreThreads DEF EngineInv, Types, RouterTypes, Acting
<1>. QED BY <1>1, <1>2, OperationFacts DEF EngineInv, Place

\* A step of a loop that acts before and after it.
LEMMA FastTurnStep ==
    ASSUME EngineInv, FastInv, NEW h \in Loops, InTurn(h),
           UNCHANGED <<running, completed, op, boardVars, routerVars>>,
           loop'[h].thread = loop[h].thread, loop'[h].pc \in Busy \ {"remove"},
           \A k \in Loops : k # h => loop'[k] = loop[k],
           \A k \in Threads : k # loop[h].thread => store'[k] = store[k]
    PROVE  FastInv'
<1>1. /\ task.pc \in {"routing", "resuming", "poll"} /\ task.thread = loop[h].thread
      /\ task.thread \in Threads /\ completed[task.thread] = None
      /\ GatesOf(task.thread) = {}
  BY NotJoining
<1>2. UNCHANGED <<task, phase, pending>> /\ Mine' = Mine /\ (Acting' <=> Acting)
  BY DEF boardVars, routerVars, Mine, Acting
<1>3. \A k \in Loops :
          /\ \A t : BusyOn(k, t)' <=> BusyOn(k, t)
          /\ loop'[k].pc = "finished" <=> loop[k].pc = "finished"
          /\ loop'[k].pc = "remove" <=> loop[k].pc = "remove"
  BY DEF BusyOn, Busy, InTurn, AtWork
<1>4. Entries'
  BY <1>2, <1>3, Pointers, ConversationsAreThreads DEF FastInv, Entries, BusyOn
<1>5. Untaken'
  BY <1>2, <1>3, Pointers DEF FastInv, Untaken
<1>6. Joining'
  BY <1>2, <1>3 DEF FastInv, Joining, BusyOn
<1>7. Paused'
  BY <1>1, FastWrites
<1>. QED BY <1>4, <1>5, <1>6, <1>7 DEF FastInv

LEMMA FastLoopBegin ==
    ASSUME EngineInv, FastInv, NEW h \in Loops, loop[h].thread \in Conversations,
           LoopBegin(h), UNCHANGED <<boardVars, routerVars>>
    PROVE  FastInv'
<1>1. loop[h].pc = "begin" /\ InTurn(h) /\ UNCHANGED <<running, completed, op>>
  BY DEF LoopBegin, InTurn, AtWork, Busy
<1>2. LoopsInv /\ store \in [Threads -> Record \cup {None}]
  BY <1>1, TurnFacts
<1>3. \E p \in {"check", "final"} : \E r, out : Loop(h, p, r, out, loop[h].inbox)
  BY DEF LoopBegin
<1>4. /\ loop'[h].pc \in {"check", "final"} /\ loop'[h].thread = loop[h].thread
      /\ \A k \in Loops : k # h => loop'[k] = loop[k]
  BY <1>2, <1>3, LoopEffect
<1>5. \A k \in Threads : k # loop[h].thread => store'[k] = store[k]
  BY <1>2 DEF LoopBegin, SaveRecord
<1>. QED BY <1>1, <1>4, <1>5, FastTurnStep DEF Busy

LEMMA FastLoopCheck ==
    ASSUME EngineInv, FastInv, NEW h \in Loops, loop[h].thread \in Conversations,
           LoopCheck(h), UNCHANGED <<boardVars, routerVars>>
    PROVE  FastInv'
<1>1. loop[h].pc = "check" /\ InTurn(h) /\ UNCHANGED <<store, running, completed, op>>
  BY DEF LoopCheck, InTurn, AtWork, Busy
<1>2. LoopsInv
  BY <1>1, TurnFacts
<1>3. \E p \in {"work", "wrapup"} : \E r, out, q : Loop(h, p, r, out, q)
  BY DEF LoopCheck
<1>4. /\ loop'[h].pc \in {"work", "wrapup"} /\ loop'[h].thread = loop[h].thread
      /\ \A k \in Loops : k # h => loop'[k] = loop[k]
  BY <1>2, <1>3, LoopEffect
<1>. QED BY <1>1, <1>4, FastTurnStep DEF Busy

LEMMA FastLoopWork ==
    ASSUME EngineInv, FastInv, NEW h \in Loops, loop[h].thread \in Conversations,
           NEW next \in WorkResult, LoopWork(h, next),
           UNCHANGED <<boardVars, routerVars>>
    PROVE  FastInv'
<1>1. loop[h].pc = "work" /\ InTurn(h) /\ UNCHANGED <<store, running, completed, op>>
  BY DEF LoopWork, InTurn, AtWork, Busy
<1>2. LoopsInv
  BY <1>1, TurnFacts
<1>3. \E p \in {"check", "wrapup"} : \E r, out : Loop(h, p, r, out, loop[h].inbox)
  BY DEF LoopWork, WorkResult
<1>4. /\ loop'[h].pc \in {"check", "wrapup"} /\ loop'[h].thread = loop[h].thread
      /\ \A k \in Loops : k # h => loop'[k] = loop[k]
  BY <1>2, <1>3, LoopEffect
<1>. QED BY <1>1, <1>4, FastTurnStep DEF Busy

LEMMA FastLoopEnds ==
    ASSUME EngineInv, FastInv, NEW h \in Loops, loop[h].thread \in Conversations,
           LoopWrapup(h) \/ LoopFinal(h), UNCHANGED <<boardVars, routerVars>>
    PROVE  FastInv'
<1>1. loop[h].pc \in {"wrapup", "final"} /\ InTurn(h) /\ UNCHANGED <<running, completed, op>>
  BY DEF LoopWrapup, LoopFinal, InTurn, AtWork, Busy
<1>2. LoopsInv /\ store \in [Threads -> Record \cup {None}]
  BY <1>1, TurnFacts
<1>3. \E p \in {"final", "report"} :
          \E r : Loop(h, p, r, loop[h].outcome, loop[h].inbox)
  BY DEF LoopWrapup, LoopFinal
<1>4. /\ loop'[h].pc \in {"final", "report"} /\ loop'[h].thread = loop[h].thread
      /\ \A k \in Loops : k # h => loop'[k] = loop[k]
  BY <1>2, <1>3, LoopEffect
<1>5. \A k \in Threads : k # loop[h].thread => store'[k] = store[k]
  BY <1>2 DEF LoopWrapup, LoopFinal, SaveRecord
<1>. QED BY <1>1, <1>4, <1>5, FastTurnStep DEF Busy

\* The outcome that is published is the first, and a pause has left the
\* thread Waiting.
LEMMA FastLoopReport ==
    ASSUME EngineInv, FastInv, NEW h \in Loops, loop[h].thread \in Conversations,
           LoopReport(h), UNCHANGED <<boardVars, routerVars>>
    PROVE  FastInv'
<1>. DEFINE t == loop[h].thread
            out == loop[h].outcome
<1>1. /\ loop[h].pc = "report" /\ UNCHANGED <<store, running, op, task, phase, pending>>
      /\ Loop(h, "remove", loop[h].rec, out, loop[h].inbox)
  BY DEF LoopReport, boardVars, routerVars
<1>2. /\ LoopsInv /\ TurnOK(h) /\ Acting
      /\ task.pc \in {"routing", "resuming", "poll"} /\ task.thread = t
      /\ t \in Threads /\ completed[t] = None /\ Mine.pc # "take"
      /\ t \in Conversations /\ RecordFits("report", loop[h].rec, out)
      /\ store[t] = loop[h].rec /\ store[t] # None
  BY <1>1, TurnFacts, NotJoining DEF InTurn, AtWork, Busy, TurnOK
<1>3. out # None /\ Told(out, t)
  BY <1>2 DEF RecordFits, Told, Waiting, Done
<1>4. /\ loop'[h].pc = "remove" /\ loop'[h].thread = t
      /\ \A k \in Loops : k # h => loop'[k] = loop[k]
  BY <1>1, <1>2, LoopEffect
<1>5. completed'[t] = out /\ \A k \in Threads : k # t => completed'[k] = completed[k]
  BY <1>2 DEF LoopReport, EngineInv, Types, ManagerInv, MapsInv
<1>6. Mine' = Mine /\ (Acting' <=> Acting)
  BY <1>1 DEF Mine, Acting
<1>7. \A k \in Loops :
          /\ \A s : BusyOn(k, s)' <=> BusyOn(k, s)
          /\ loop'[k].pc = "finished" <=> loop[k].pc = "finished"
  BY <1>1, <1>4 DEF BusyOn, Busy
<1>8. Entries'
  BY <1>1, <1>6, <1>7, Pointers, ConversationsAreThreads DEF FastInv, Entries, BusyOn
<1>9. Untaken'
  <2>1. completed'[task'.thread] # None /\ (Mine.pc = "register" => Mine.thread = t)
    BY <1>1, <1>2, <1>3, <1>5, Pointers
  <2>2. \A k \in Conversations : completed'[k] # None => Acting' /\ task'.thread = k
    BY <1>1, <1>2, <1>5, <1>6, ConversationsAreThreads DEF FastInv, Untaken
  <2>3. (Mine.pc \in {"inject", "sending"} /\ task.pc = "routing"
          /\ running[t] # None) => loop'[running[t]].pc # "finished"
    BY <1>2, <1>7, Pointers DEF FastInv, Untaken
  <2>. QED BY <1>1, <1>2, <1>6, <2>1, <2>2, <2>3 DEF Untaken
<1>10. Joining'
  BY <1>1, <1>2, <1>6 DEF FastInv, Joining
<1>11. Paused'
  <2>1. \A k \in Conversations : Told(completed[k], k)'
    BY <1>1, <1>3, <1>5, ConversationsAreThreads DEF FastInv, Paused, Told, Waiting, Done
  <2>2. phase = "up" => \A g \in pending : Settled(g)'
    BY <1>1 DEF FastInv, Paused, Settled, Waiting, Done
  <2>. QED BY <1>1, <1>2, <2>1, <2>2 DEF Paused
<1>. QED BY <1>8, <1>9, <1>10, <1>11 DEF FastInv

\* The entry that is removed is the loop's own.
LEMMA FastLoopRemove ==
    ASSUME EngineInv, FastInv, NEW h \in Loops, loop[h].thread \in Conversations,
           LoopRemove(h), UNCHANGED <<boardVars, routerVars>>
    PROVE  FastInv'
<1>. DEFINE t == loop[h].thread
            l == [VacantLoop EXCEPT !.pc = "finished", !.outcome = loop[h].outcome]
<1>1. /\ loop[h].pc = "remove" /\ UNCHANGED <<store, completed, op, task, phase, pending>>
  BY DEF LoopRemove, boardVars, routerVars
<1>2. LoopsInv /\ t \in Threads /\ running \in [Threads -> Loops \cup {None}]
  BY <1>1, LoopFacts DEF EngineInv, Types, ManagerInv, MapsInv, Busy
<1>3. l.pc = "finished"
  BY VacantLoopType DEF LoopTask
<1>4. loop'[h].pc = "finished" /\ \A k \in Loops : k # h => loop'[k] = loop[k]
  BY <1>2, <1>3 DEF LoopRemove, LoopsInv
<1>5. running'[t] = None /\ \A k \in Threads : k # t => running'[k] = running[k]
  BY <1>2 DEF LoopRemove
<1>6. Mine' = Mine /\ (Acting' <=> Acting)
  BY <1>1 DEF Mine, Acting
<1>7. ASSUME NEW k \in Conversations, running'[k] # None
      PROVE  /\ k # t /\ running'[k] = running[k] /\ running[k] \in Loops
             /\ running[k] # h /\ loop'[running[k]] = loop[running[k]]
  <2>1. k # t /\ running'[k] = running[k] /\ running[k] \in Loops
    BY <1>5, <1>7, Pointers, ConversationsAreThreads
  <2>2. running[k] # h
    BY <1>1, <1>7, <2>1 DEF FastInv, Entries, BusyOn
  <2>. QED BY <1>4, <2>1, <2>2
<1>8. \A k \in Loops : \A s : BusyOn(k, s)' => BusyOn(k, s)
  BY <1>4 DEF BusyOn, Busy
<1>9. Entries'
  <2>1. \A k \in Conversations : running'[k] # None =>
            loop'[running'[k]].pc = "finished" \/ BusyOn(running[k], k)'
    BY <1>7 DEF FastInv, Entries, BusyOn
  <2>2. Mine.pc = "register" =>
            \/ loop'[Mine.loop].pc = "finished"
            \/ loop'[Mine.loop].pc \in Busy /\ loop'[Mine.loop].thread = Mine.thread
    BY <1>4, Pointers DEF FastInv, Entries, BusyOn
  <2>. QED BY <1>6, <2>1, <2>2 DEF Entries, BusyOn
<1>10. Untaken'
  <2>1. (Mine.pc = "register" /\ loop'[Mine.loop].pc \in {"remove", "finished"}) =>
          completed[Mine.thread] # None
    BY <1>1, <1>4, Pointers DEF FastInv, Untaken
  <2>2. \A k \in Conversations : running'[k] # None =>
            running[k] # None /\ loop'[running'[k]].pc = loop[running[k]].pc
    BY <1>7
  <2>3. Acting \/ Mine.pc \in {"inject", "sending"} => task.thread \in Conversations
    BY OperationFacts DEF EngineInv, Types, RouterTypes, Acting
  <2>. QED BY <1>1, <1>6, <2>1, <2>2, <2>3 DEF FastInv, Untaken
<1>11. Joining'
  BY <1>1, <1>5, <1>6, <1>8, Pointers DEF FastInv, Joining
<1>12. Paused'
  BY <1>1, <1>6 DEF FastInv, Paused, Told, Settled, Waiting, Done
<1>. QED BY <1>9, <1>10, <1>11, <1>12 DEF FastInv

\* A step for a mission's thread leaves the loops the entries name alone.
LEMMA FastBeside ==
    ASSUME EngineInv, FastInv, Beside
    PROVE  FastInv'
<1>1. UNCHANGED <<task, phase, pending>> /\ Mine' = Mine /\ (Acting' <=> Acting)
  BY DEF Beside, boardVars, routerVars, Acting
<1>2. \A t \in Conversations :
          running'[t] = running[t] /\ completed'[t] = completed[t] /\ store'[t] = store[t]
  BY DEF Beside
<1>3. \A h \in Loops : \A t \in Conversations : BusyOn(h, t)' <=> BusyOn(h, t)
  BY DEF BusyOn, AtWork, Beside
<1>4. ASSUME NEW t \in Conversations, running[t] # None
      PROVE  running[t] \in Loops /\ loop'[running[t]] = loop[running[t]]
  <2>1. t \in Threads /\ running[t] \in Loops
    BY <1>4, Pointers, ConversationsAreThreads
  <2>2. Referenced(running[t])
    BY <2>1 DEF Referenced
  <2>3. loop[running[t]].pc = "finished" \/ AtWork(running[t])
    BY <1>4 DEF FastInv, Entries, BusyOn, AtWork
  <2>. QED BY <2>1, <2>2, <2>3 DEF Beside
<1>5. ASSUME Mine.pc = "register"
      PROVE  Mine.loop \in Loops /\ loop'[Mine.loop] = loop[Mine.loop]
  <2>1. Mine.loop \in Loops /\ Mine.thread \in Conversations
    BY <1>5, OperationFacts
  <2>2. Referenced(Mine.loop)
    BY RouterAssumption DEF Referenced, Mine
  <2>3. loop[Mine.loop].pc = "finished" \/ AtWork(Mine.loop)
    BY <1>5, <2>1 DEF FastInv, Entries, BusyOn, AtWork
  <2>. QED BY <2>1, <2>2, <2>3 DEF Beside
<1>6. /\ Acting \/ Mine.pc # "idle" => task.thread \in Conversations
      /\ Mine.pc # "idle" => Mine.thread = task.thread
      /\ task.pc \in {"joining", "post", "execute", "fallback"} => task.thread \in Conversations
  BY DEF EngineInv, Types, RouterTypes, Acting, Place
<1>7. Entries'
  BY <1>1, <1>2, <1>4, <1>5 DEF FastInv, Entries, BusyOn
<1>8. Untaken'
  BY <1>1, <1>2, <1>4, <1>5, <1>6 DEF FastInv, Untaken
<1>9. Joining'
  BY <1>1, <1>2, <1>3, <1>6 DEF FastInv, Joining
<1>10. \A g \in pending : KeyOf[g] \in Conversations
  BY RouterAssumption DEF EngineInv, Types, RouterTypes, Conversations
<1>11. Paused'
  BY <1>1, <1>2, <1>6, <1>10 DEF FastInv, Paused, Told, Settled, Waiting, Done
<1>. QED BY <1>7, <1>8, <1>9, <1>11 DEF FastInv

LEMMA FastTurn ==
    ASSUME EngineInv, FastInv, NEW h \in Loops, Turn(h)
    PROVE  FastInv'
<1>1. CASE loop[h].thread \notin Conversations
  BY <1>1, MissionTurn, FastBeside
<1>2. CASE loop[h].thread \in Conversations
  BY <1>2, FastLoopBegin, FastLoopCheck, FastLoopWork, FastLoopEnds, FastLoopReport,
     FastLoopRemove
     DEF Turn, LoopStep
<1>. QED BY <1>1, <1>2

LEMMA FastCrash ==
    ASSUME EngineInv, Crash
    PROVE  FastInv'
<1>1. /\ op'[Agent] = IdleOp /\ task' = IdleTask /\ phase' = "recover"
      /\ \A t \in Threads : running'[t] = None /\ completed'[t] = None
  BY RouterAssumption DEF Crash
<1>2. Mine'.pc = "idle" /\ task'.pc = "idle"
  BY <1>1 DEF Mine, IdleOp, IdleTask
<1>3. Entries' /\ Joining'
  BY <1>1, <1>2, ConversationsAreThreads DEF Entries, Joining
<1>4. ~Acting'
  BY <1>2 DEF Acting
<1>5. Untaken'
  BY <1>1, <1>2, <1>4, ConversationsAreThreads DEF Untaken
<1>6. Paused'
  BY <1>1, <1>2, NoneAssumption, ConversationsAreThreads DEF Paused, Told, Result, Outcome
<1>. QED BY <1>3, <1>5, <1>6 DEF FastInv

\* When the engine is up again every gate is one of a thread that waits: a
\* fallback gate is gone.
LEMMA FastBoot ==
    ASSUME EngineInv, FastInv, Boot
    PROVE  FastInv'
<1>1. phase # "up" /\ UNCHANGED <<loop, running, completed, op, task>>
  BY DEF Boot, Recover, Reconcile, RestoreGates, managerVars
<1>2. /\ task.pc = "idle" /\ Mine.pc = "idle"
      /\ \A t \in Conversations : completed[t] = None /\ running[t] = None
  BY <1>1 DEF EngineInv, Down, Place
<1>3. Mine' = Mine /\ ~Acting'
  BY <1>1, <1>2 DEF Mine, Acting
<1>4. Entries' /\ Untaken' /\ Joining'
  BY <1>1, <1>2, <1>3, ConversationsAreThreads DEF Entries, Untaken, Joining
<1>5. phase' = "up" => \A g \in pending' : Settled(g)'
  <2>1. ASSUME Reconcile, NEW g \in pending' PROVE Settled(g)'
    <3>1. g \in pending /\ Waiting(KeyOf[g]) /\ KeyOf[g] \in Threads
      BY <2>1, RouterAssumption DEF Reconcile, Drop, EngineInv, Types, RouterTypes
    <3>2. store'[KeyOf[g]] = store[KeyOf[g]]
      BY <2>1, <3>1 DEF Reconcile, GatesOf
    <3>. QED BY <3>1, <3>2 DEF Settled, Waiting
  <2>2. Reconcile \/ phase' # "up"
    BY DEF Boot, Recover, RestoreGates
  <2>. QED BY <2>1, <2>2
<1>6. Paused'
  BY <1>1, <1>2, <1>3, <1>5, NoneAssumption, ConversationsAreThreads
     DEF Paused, Told, Result, Outcome
<1>. QED BY <1>4, <1>6 DEF FastInv

LEMMA FastInit == Init => FastInv
<1>. SUFFICES ASSUME Init PROVE FastInv
  OBVIOUS
<1>1. Mine.pc = "idle" /\ task.pc = "idle" /\ pending = {}
  BY RouterAssumption DEF Init, ManagerInit, BoardInit, Mine, IdleOp, IdleTask
<1>2. \A t \in Threads : running[t] = None /\ completed[t] = None
  BY DEF Init, ManagerInit
<1>3. Entries /\ Joining
  BY <1>1, <1>2, ConversationsAreThreads DEF Entries, Joining
<1>4. Untaken
  BY <1>1, <1>2, ConversationsAreThreads DEF Untaken, Acting
<1>5. Paused
  BY <1>1, <1>2, NoneAssumption, ConversationsAreThreads DEF Paused, Told, Result, Outcome
<1>. QED BY <1>3, <1>4, <1>5 DEF FastInv

LEMMA FastNext == ~SlowTurns /\ EngineInv /\ FastInv /\ [Next]_vars => FastInv'
<1>. SUFFICES ASSUME ~SlowTurns, EngineInv, FastInv, [Next]_vars PROVE FastInv'
  OBVIOUS
<1>1. CASE UserStep
  BY <1>1, FastUserStep
<1>2. CASE HandlerStep
  BY <1>2, FastFailWaiting, FastReject, FastRoute, FastAnswered, FastPoll, FastJoined, FastPostGate,
     FastExecute, FastSweeps
     DEF HandlerStep
<1>3. CASE Operate
  BY <1>3, FastOperate
<1>4. CASE WebStep \/ \E g \in Gates : Expire(g)
  BY <1>4, FastAside
     DEF WebStep, WebSubmit, WebList, WebDiscard, WebConfigured, keepAgent, Expire, Drop,
         managerVars, boardVars, routerVars
<1>5. CASE \E h \in Loops : Turn(h)
  BY <1>5, FastTurn
<1>6. CASE Crash
  BY <1>6, FastCrash
<1>7. CASE Boot
  BY <1>7, FastBoot
<1>8. CASE UNCHANGED vars
  BY <1>8, FastAside DEF vars, managerVars, boardVars, routerVars
<1>9. CASE MissionStep
  BY <1>9, MissionBeside, FastBeside
<1>. QED BY <1>1, <1>2, <1>3, <1>4, <1>5, <1>6, <1>7, <1>8, <1>9 DEF Next

\* As long as turns end within await_thread_outcome's deadline, whatever the
\* user, the gateway, the missions, expiry and crashes do, a gate that can be
\* resolved belongs to a thread whose record is Waiting, or is a fallback
\* gate of a thread whose record is Done, and no loop is at work on it.
THEOREM GatesMeanWaiting == ~SlowTurns => (Spec => []GateMeansWaiting)
<1>. SUFFICES ASSUME ~SlowTurns PROVE Spec => []GateMeansWaiting
  OBVIOUS
<1>1. EngineInv /\ FastInv => GateMeansWaiting
  <2>. SUFFICES ASSUME EngineInv, FastInv, phase = "up", NEW g \in pending
                PROVE  /\ \/ Waiting(KeyOf[g])
                          \/ g \in FallbackGates /\ store[KeyOf[g]].state = "Done"
                       /\ \A h \in LiveLoops : loop[h].thread # KeyOf[g]
    BY DEF GateMeansWaiting
  <2>1. Settled(g)
    BY DEF FastInv, Paused
  <2>2. KeyOf[g] \in Conversations
    BY RouterAssumption DEF EngineInv, Types, RouterTypes, Conversations
  <2>3. ASSUME NEW h \in LiveLoops, loop[h].thread = KeyOf[g] PROVE FALSE
    <3>1. h \in Loops /\ InTurn(h)
      BY <2>2, <2>3 DEF LiveLoops, Live, InTurn, AtWork, Busy
    <3>2. GatesOf(loop[h].thread) = {}
      BY <3>1 DEF EngineInv, Cleared, TurnsCleared
    <3>. QED BY <2>3, <3>2 DEF GatesOf
  <2>. QED BY <2>1, <2>3 DEF Settled, Done
<1>2. EngineInv /\ FastInv /\ [Next]_vars => FastInv'
  BY FastNext
<1>. QED BY <1>1, <1>2, FastInit, EngineSpec, PTL DEF Spec
=============================================================================

-------------------------- MODULE ContainersProofs --------------------------
(***************************************************************************)
(* Proofs about Containers, for any number of jobs, failing calls of       *)
(* Docker and crashes.                                                     *)
(*                                                                         *)
(* Creator, worker, report handler, callers of stop_job and reaper meet in *)
(* the handle of a job; the invariant says for each place where one of     *)
(* them stands what the others can have done by then.                      *)
(***************************************************************************)
EXTENDS Containers, TLAPS

\* Until the container id is recorded nobody can stop the job, and the
\* reaper does not see a container that is too young.
Early(j) ==
    /\ maker[j] \in {"none", "create", "start", "record"} =>
          /\ \A a \in Stoppers : op[a][j] = "none"
          /\ ~old[j] /\ j \notin todo /\ ~handle[j].id
    /\ maker[j] \in {"none", "create", "start"} => worker[j] = "none"
    /\ maker[j] \in {"none", "create"} => box[j] = "none"
    /\ maker[j] = "start" => box[j] = "created"

\* What a stop_job that has begun, or is over, tells of the job.
Stops(j) ==
    /\ op["reaper"][j] \notin {"none", "over"} => ctx[j] \notin Active
    /\ op["maker"][j] # "none" => maker[j] \in {"timeout", "done"}
    /\ maker[j] = "timeout" => op["maker"][j] # "none"
    /\ \A a \in {"maker", "user"} : op[a][j] = "over" => ~token[j]

\* The creator that waits has a handle, and one that has seen the end of the
\* job saw its handle stopped.
Waits(j) ==
    /\ maker[j] = "poll" => handle[j].id
    /\ maker[j] \in {"completed", "failed"} => handle[j].state \in {"Stopped", "none"}

\* Whatever was recorded as the worker's outcome is what it said.
Reports(j) ==
    /\ worker[j] \in {"none", "work"} => said[j] = "none"
    /\ worker[j] \in {"report", "accepted"} => said[j] # "none"
    /\ complete[j] # "none" => worker[j] = "accepted"
    /\ handle[j].result # "none" => handle[j].result = said[j]

\* Only a job that nobody waits for has a monitor.  A success that it was told
\* of is the worker's, or that of a session of Claude Code.
Session(j) == kind[j] = "detached" /\ mode[j] = "claude"
Monitors(j) ==
    /\ maker[j] \in {"none", "create", "start", "record"} => monitor[j] = "off"
    /\ monitor[j] # "off" => kind[j] = "detached"
    /\ monitor[j] = "success" => said[j] = "success" \/ mode[j] = "claude"

\* A job that stopped without a result was stopped, and if it counts as
\* completed for that, a user has stopped it.
Completes(j) ==
    /\ handle[j].state = "Stopped" /\ handle[j].result = "none" =>
          op["user"][j] # "none" \/ op["maker"][j] # "none" \/ ctx[j] \notin Active
    /\ maker[j] = "completed" =>
          said[j] = "success" \/ op["user"][j] # "none" \/ ctx[j] \notin Active
    /\ maker[j] = "none" => ctx[j] # "Completed"
    /\ ctx[j] = "Completed" =>
          said[j] = "success" \/ op["user"][j] # "none" \/ Session(j)

TokenEnds(j) ==
    token[j] => \/ handle[j].state \in {"Creating", "Running"}
                \/ complete[j] # "none"
                \/ \E a \in Stoppers : op[a][j] = "revoke"

JobOK(j) ==
    Shape(j) /\ Early(j) /\ Stops(j) /\ Waits(j) /\ Reports(j) /\ Monitors(j) /\ Completes(j) /\ TokenEnds(j)

ContInv == Types /\ \A j \in JobIds : JobOK(j)

-----------------------------------------------------------------------------
(* The parts that actions are made of.                                     *)

LEMMA OpSet ==
    ASSUME Types, NEW a \in Stoppers, NEW j \in JobIds,
           NEW v \in {"none", "docker", "mark", "revoke", "direct", "over"},
           op' = [op EXCEPT ![a][j] = v]
    PROVE  /\ op' \in [Stoppers -> [JobIds -> {"none", "docker", "mark", "revoke", "direct", "over"}]]
           /\ op'[a][j] = v
           /\ \A b \in Stoppers \ {a} : op'[b][j] = op[b][j]
           /\ \A b \in Stoppers, k \in JobIds \ {j} : op'[b][k] = op[b][k]
BY DEF Types

Handle == [state : {"none", "Creating", "Running", "Stopped"},
           id : BOOLEAN, result : Outcomes \cup {"none"}]

\* The fields of a handle.
LEMMA HandleFields ==
    ASSUME Types, NEW j \in JobIds
    PROVE  /\ handle[j].state \in {"none", "Creating", "Running", "Stopped"}
           /\ handle[j].id \in BOOLEAN /\ handle[j].result \in Outcomes \cup {"none"}
BY DEF Types

LEMMA TransitionFacts ==
    ASSUME Types, NEW j \in JobIds,
           NEW to \in Active \cup {"Failed", "Cancelled"}, TransitionTo(j, to)
    PROVE  /\ ctx' \in [JobIds -> Active \cup {"missing", "Failed", "Cancelled"}]
           /\ \A k \in JobIds \ {j} : ctx'[k] = ctx[k]
           /\ ctx'[j] = ctx[j] \/ (ctx'[j] = to /\ ctx[j] \in Active)
BY DEF TransitionTo, CanTransition, Active, Types

LEMMA DockerFacts ==
    ASSUME Types, NEW j \in JobIds, DockerRemove(j) \/ keepDocker
    PROVE  /\ box' \in [JobIds -> {"none", "created", "running", "exited", "removed"}]
           /\ worker' \in [JobIds -> {"none", "work", "report", "accepted", "over"}]
           /\ faults' \in 0..MaxFaults
           /\ \A k \in JobIds \ {j} : box'[k] = box[k] /\ worker'[k] = worker[k]
           /\ worker'[j] = worker[j] \/ (worker[j] # "accepted" /\ worker'[j] = "over")
           /\ worker'[j] \in {"work", "report"} => box'[j] = box[j]
<1>1. CASE keepDocker
  BY <1>1 DEF keepDocker, Types
<1>2. CASE box' = [box EXCEPT ![j] = "removed"] /\ UNCHANGED faults
           /\ worker' = [worker EXCEPT ![j] = IF @ = "accepted" THEN @ ELSE "over"]
  BY <1>2 DEF Types
<1>3. CASE Fault /\ UNCHANGED <<box, worker>>
  BY <1>3, BoundAssumption DEF Fault, Types
<1>4. CASE Fault /\ box' = [box EXCEPT ![j] = "exited"]
           /\ worker' = [worker EXCEPT ![j] = IF @ = "accepted" THEN @ ELSE "over"]
  BY <1>4, BoundAssumption DEF Fault, Types
<1>. QED BY <1>1, <1>2, <1>3, <1>4 DEF DockerRemove

\* Nothing of job k changes.
Untouched(k) ==
    /\ ctx'[k] = ctx[k] /\ handle'[k] = handle[k] /\ token'[k] = token[k]
    /\ kind'[k] = kind[k] /\ mode'[k] = mode[k]
    /\ maker'[k] = maker[k] /\ monitor'[k] = monitor[k] /\ complete'[k] = complete[k]
    /\ \A a \in Stoppers : op'[a][k] = op[a][k]
    /\ (k \in todo' <=> k \in todo)
    /\ box'[k] = box[k] /\ old'[k] = old[k] /\ worker'[k] = worker[k] /\ said'[k] = said[k]

LEMMA UntouchedOK ==
    ASSUME NEW k \in JobIds, JobOK(k), Untouched(k)
    PROVE  JobOK(k)'
<1>1. /\ op'["reaper"][k] = op["reaper"][k] /\ op'["maker"][k] = op["maker"][k]
      /\ op'["user"][k] = op["user"][k]
  BY DEF Untouched, Stoppers
<1>2. Shape(k)' /\ Early(k)'
  BY DEF JobOK, Untouched, Shape, Early
<1>3. Stops(k)' /\ Waits(k)'
  BY <1>1 DEF JobOK, Untouched, Stops, Waits
<1>4. Reports(k)' /\ Monitors(k)' /\ Completes(k)'
  BY <1>1 DEF JobOK, Untouched, Reports, Monitors, Completes, Session
<1>5. TokenEnds(k)'
  BY DEF JobOK, Untouched, TokenEnds
<1>. QED BY <1>2, <1>3, <1>4, <1>5 DEF JobOK

\* A step of job j.
LEMMA OneJob ==
    ASSUME ContInv, NEW j \in JobIds, Types', JobOK(j)', \A k \in JobIds \ {j} : Untouched(k)
    PROVE  ContInv'
<1>1. ASSUME NEW k \in JobIds \ {j} PROVE JobOK(k)'
  BY <1>1, UntouchedOK DEF ContInv
<1>. QED BY <1>1 DEF ContInv

-----------------------------------------------------------------------------
(* Creating a container.                                                   *)

LEMMA BeginKeeps ==
    ASSUME ContInv, NEW j \in JobIds, NEW k \in {"wait", "detached", "restart"}, NEW m \in Modes,
           Begin(j, k, m)
    PROVE  ContInv'
<1>0. Types /\ JobOK(j)
  BY DEF ContInv
<1>1. Types'
  <2>1. handle[j] \in Handle
    BY <1>0 DEF Types, Handle
  <2>2. [handle[j] EXCEPT !.state = "Creating"] \in Handle
    BY <2>1 DEF Handle
  <2>3. handle' \in [JobIds -> Handle]
    BY <1>0, <2>2 DEF Types, Begin, Handle
  <2>4. ctx' \in [JobIds -> Active \cup {"missing", "Failed", "Cancelled"}]
    BY <1>0 DEF Types, Begin, Active
  <2>. QED BY <1>0, <2>3, <2>4 DEF Types, Begin, keepDocker, keepRest, Handle
<1>2. \A i \in JobIds \ {j} : Untouched(i)
  BY <1>0 DEF Types, Begin, keepDocker, keepRest, Untouched
<1>3. /\ maker[j] = "none" /\ maker'[j] = "create" /\ token'[j]
      /\ handle'[j].state = "Creating" /\ handle'[j].id = handle[j].id
      /\ handle'[j].result = handle[j].result
      /\ ctx'[j] \in {ctx[j], "InProgress"}
      /\ monitor[j] = "off"
      /\ UNCHANGED <<monitor, complete, op, todo, box, worker, old, said>>
  BY <1>0 DEF Types, Begin, keepDocker, JobOK, Monitors
<1>4. JobOK(j)'
  BY <1>0, <1>3 DEF JobOK, Shape, Early, Stops, Waits, Reports, Monitors, Completes, Session, TokenEnds, Stoppers, Active
<1>. QED BY <1>1, <1>2, <1>4, OneJob

LEMMA CreateKeeps ==
    ASSUME ContInv, NEW j \in JobIds, CreateContainer(j) \/ StartContainer(j)
    PROVE  ContInv'
<1>0. Types /\ JobOK(j)
  BY DEF ContInv
<1>1. Types'
  <2>1. faults' \in 0..MaxFaults
    BY <1>0, BoundAssumption DEF Types, CreateContainer, StartContainer, Fault
  <2>2. \/ UNCHANGED box
        \/ \E v \in {"created", "running"} : box' = [box EXCEPT ![j] = v]
    BY DEF CreateContainer, StartContainer
  <2>3. UNCHANGED worker \/ worker' = [worker EXCEPT ![j] = "work"]
    BY DEF CreateContainer, StartContainer
  <2>4. \E v \in {"start", "record", "undo"} : maker' = [maker EXCEPT ![j] = v]
    BY DEF CreateContainer, StartContainer
  <2>5. UNCHANGED <<ctx, handle, token, kind, monitor, complete, op, todo, old, said, crashes, mode>>
    BY DEF CreateContainer, StartContainer, keepRest
  <2>6. box' \in [JobIds -> {"none", "created", "running", "exited", "removed"}]
    BY <1>0, <2>2 DEF Types
  <2>7. worker' \in [JobIds -> {"none", "work", "report", "accepted", "over"}]
    BY <1>0, <2>3 DEF Types
  <2>8. maker' \in [JobIds -> {"none", "create", "start", "record", "undo", "fail",
                              "poll", "completed", "failed", "timeout", "done"}]
    BY <1>0, <2>4 DEF Types
  <2>. QED BY <1>0, <2>1, <2>5, <2>6, <2>7, <2>8 DEF Types
<1>2. \A i \in JobIds \ {j} : Untouched(i)
  BY <1>0 DEF Types, CreateContainer, StartContainer, keepRest, Untouched
<1>3. JobOK(j)'
  <2>1. CASE CreateContainer(j)
    BY <1>0, <2>1 DEF CreateContainer, keepRest, Types,
       JobOK, Shape, Early, Stops, Waits, Reports, Monitors, Completes, Session, TokenEnds
  <2>2. CASE StartContainer(j)
    BY <1>0, <2>2 DEF StartContainer, keepRest, Types,
       JobOK, Shape, Early, Stops, Waits, Reports, Monitors, Completes, Session, TokenEnds
  <2>. QED BY <2>1, <2>2
<1>. QED BY <1>1, <1>2, <1>3, OneJob

LEMMA RecordKeeps ==
    ASSUME ContInv, NEW j \in JobIds, RecordContainer(j)
    PROVE  ContInv'
<1>0. Types /\ JobOK(j)
  BY DEF ContInv
<1>1. /\ handle' \in [JobIds -> Handle]
      /\ handle'[j].state = "Running" /\ handle'[j].id
      /\ handle'[j].result = handle[j].result
      /\ \A i \in JobIds \ {j} : handle'[i] = handle[i]
  <2>1. handle \in [JobIds -> Handle] /\ handle[j] \in Handle
    BY <1>0 DEF Types, Handle
  <2>2. [handle[j] EXCEPT !.id = TRUE, !.state = "Running"] \in Handle
    BY <2>1 DEF Handle
  <2>3. handle' = [handle EXCEPT ![j] = [handle[j] EXCEPT !.id = TRUE, !.state = "Running"]]
    BY DEF RecordContainer
  <2>. QED BY <2>1, <2>2, <2>3 DEF Handle
<1>2. Types'
  BY <1>0, <1>1 DEF Types, RecordContainer, keepDocker, keepRest, Handle
<1>3. \A i \in JobIds \ {j} : Untouched(i)
  BY <1>0, <1>1 DEF Types, RecordContainer, keepDocker, keepRest, Untouched
<1>4. /\ maker[j] = "record" /\ maker'[j] \in {"poll", "done"}
      /\ monitor'[j] = monitor[j] \/ (monitor'[j] = "on" /\ kind[j] = "detached")
      /\ UNCHANGED <<ctx, token, complete, op, todo, box, worker, old, said, mode, kind>>
  BY <1>0 DEF Types, RecordContainer, keepDocker, keepRest
<1>5. JobOK(j)'
  BY <1>0, <1>1, <1>4
  DEF JobOK, Shape, Early, Stops, Waits, Reports, Monitors, Completes, Session, TokenEnds, Stoppers, Outcomes
<1>. QED BY <1>2, <1>3, <1>5, OneJob

LEMMA UndoKeeps ==
    ASSUME ContInv, NEW j \in JobIds, Undo(j) \/ UndoFail(j)
    PROVE  ContInv'
<1>0. Types /\ JobOK(j)
  BY DEF ContInv
<1>1. CASE Undo(j)
  <2>1. Types'
    BY <1>0, <1>1 DEF Types, Undo, NoHandle, keepDocker, keepRest
  <2>2. \A i \in JobIds \ {j} : Untouched(i)
    BY <1>0, <1>1 DEF Types, Undo, keepDocker, keepRest, Untouched
  <2>3. /\ maker[j] = "undo" /\ maker'[j] \in {"done", "fail"} /\ ~token'[j]
        /\ handle'[j].state = "none" /\ ~handle'[j].id /\ handle'[j].result = "none"
        /\ UNCHANGED <<ctx, monitor, complete, op, todo, box, worker, old, said, mode, kind>>
    BY <1>0, <1>1 DEF Types, Undo, NoHandle, keepDocker, keepRest
  <2>4. JobOK(j)'
    BY <1>0, <2>3 DEF JobOK, Shape, Early, Stops, Waits, Reports, Monitors, Completes, Session, TokenEnds
  <2>. QED BY <2>1, <2>2, <2>4, OneJob
<1>2. CASE UndoFail(j)
  <2>1. /\ ctx' \in [JobIds -> Active \cup {"missing", "Failed", "Cancelled"}]
        /\ \A k \in JobIds \ {j} : ctx'[k] = ctx[k]
        /\ ctx'[j] \in {ctx[j], "Failed"}
    BY <1>0, <1>2, TransitionFacts DEF UndoFail
  <2>2. Types'
    BY <1>0, <1>2, <2>1 DEF Types, UndoFail, keepDocker, keepRest
  <2>3. \A i \in JobIds \ {j} : Untouched(i)
    BY <1>0, <1>2, <2>1 DEF Types, UndoFail, keepDocker, keepRest, Untouched
  <2>4. /\ maker[j] = "fail" /\ maker'[j] = "done"
        /\ UNCHANGED <<handle, token, monitor, complete, op, todo, box, worker, old, said, mode, kind>>
    BY <1>0, <1>2 DEF Types, UndoFail, keepDocker, keepRest
  <2>5. JobOK(j)'
    BY <1>0, <2>1, <2>4 DEF JobOK, Shape, Early, Stops, Waits, Reports, Monitors, Completes, Session, TokenEnds, Active
  <2>. QED BY <2>2, <2>3, <2>5, OneJob
<1>. QED BY <1>1, <1>2

-----------------------------------------------------------------------------
(* stop_job and its callers.                                               *)

LEMMA StopDockerKeeps ==
    ASSUME ContInv, NEW a \in Stoppers, NEW j \in JobIds, StopDocker(a, j)
    PROVE  ContInv'
<1>0. Types /\ JobOK(j)
  BY DEF ContInv
<1>1. /\ op' \in [Stoppers -> [JobIds -> {"none", "docker", "mark", "revoke", "direct", "over"}]]
      /\ op'[a][j] = "mark" /\ op[a][j] = "docker"
      /\ \A b \in Stoppers \ {a} : op'[b][j] = op[b][j]
      /\ \A b \in Stoppers, k \in JobIds \ {j} : op'[b][k] = op[b][k]
  BY <1>0, OpSet DEF StopDocker
<1>2. DockerRemove(j)
  BY DEF StopDocker
<1>3. Types'
  BY <1>0, <1>1, <1>2, DockerFacts DEF Types, StopDocker, keepRest
<1>4. \A i \in JobIds \ {j} : Untouched(i)
  BY <1>0, <1>1, <1>2, DockerFacts DEF StopDocker, keepRest, Untouched
<1>5. maker[j] \notin {"none", "create", "start", "record"}
  BY <1>0, <1>1 DEF JobOK, Early
<1>6. UNCHANGED <<ctx, handle, token, maker, monitor, complete, todo, old, said, mode, kind>>
  BY DEF StopDocker, keepRest
<1>7. Shape(j)' /\ Early(j)' /\ Waits(j)' /\ Reports(j)' /\ Monitors(j)'
  BY <1>0, <1>2, <1>5, <1>6, DockerFacts DEF JobOK, Shape, Early, Waits, Reports, Monitors
<1>8. /\ op'["reaper"][j] \notin {"none", "over"} => op["reaper"][j] \notin {"none", "over"}
      /\ op'["maker"][j] = "none" <=> op["maker"][j] = "none"
      /\ op'["user"][j] = "none" <=> op["user"][j] = "none"
      /\ \A b \in Stoppers : /\ op'[b][j] = "over" => op[b][j] = "over"
                             /\ op[b][j] = "revoke" => op'[b][j] = "revoke"
  BY <1>1 DEF Stoppers
<1>9. Stops(j)' /\ Completes(j)'
  BY <1>0, <1>6, <1>8 DEF JobOK, Stops, Completes, Session, Stoppers
<1>10. TokenEnds(j)'
  BY <1>0, <1>6, <1>8 DEF JobOK, TokenEnds
<1>. QED BY <1>3, <1>4, <1>7, <1>9, <1>10, OneJob DEF JobOK

LEMMA StopMarkKeeps ==
    ASSUME ContInv, NEW a \in Stoppers, NEW j \in JobIds, StopMark(a, j)
    PROVE  ContInv'
<1>0. Types /\ JobOK(j)
  BY DEF ContInv
<1>1. /\ op' \in [Stoppers -> [JobIds -> {"none", "docker", "mark", "revoke", "direct", "over"}]]
      /\ op'[a][j] = "revoke" /\ op[a][j] = "mark"
      /\ \A b \in Stoppers \ {a} : op'[b][j] = op[b][j]
      /\ \A b \in Stoppers, k \in JobIds \ {j} : op'[b][k] = op[b][k]
  BY <1>0, OpSet DEF StopMark
<1>2. /\ handle' \in [JobIds -> Handle]
      /\ handle'[j].state \in {"none", "Stopped"}
      /\ handle'[j].state = "none" => handle[j].state = "none"
      /\ handle'[j].id = handle[j].id /\ handle'[j].result = handle[j].result
      /\ \A i \in JobIds \ {j} : handle'[i] = handle[i]
  <2>1. handle \in [JobIds -> Handle] /\ handle[j] \in Handle
    BY <1>0 DEF Types, Handle
  <2>2. handle' = [handle EXCEPT ![j].state = IF @ = "none" THEN @ ELSE "Stopped"]
    BY DEF StopMark
  <2>. QED BY <2>1, <2>2 DEF Handle
<1>3. UNCHANGED <<ctx, token, kind, maker, monitor, complete, todo, box, worker, faults, old, said, crashes, mode>>
  BY DEF StopMark, keepDocker, keepRest
<1>4. Types'
  BY <1>0, <1>1, <1>2, <1>3 DEF Types, Handle
<1>5. \A i \in JobIds \ {j} : Untouched(i)
  BY <1>1, <1>2, <1>3 DEF Untouched
<1>6. maker[j] \notin {"none", "create", "start", "record"}
  BY <1>0, <1>1 DEF JobOK, Early
<1>7. Shape(j)' /\ Early(j)' /\ Waits(j)' /\ Reports(j)' /\ Monitors(j)'
  BY <1>0, <1>2, <1>3, <1>6 DEF JobOK, Shape, Early, Waits, Reports, Monitors
<1>8. /\ op'["reaper"][j] \notin {"none", "over"} => op["reaper"][j] \notin {"none", "over"}
      /\ op'["maker"][j] = "none" <=> op["maker"][j] = "none"
      /\ op'["user"][j] = "none" <=> op["user"][j] = "none"
      /\ \A b \in Stoppers : op'[b][j] = "over" => op[b][j] = "over"
  BY <1>1 DEF Stoppers
<1>9. Stops(j)'
  BY <1>0, <1>3, <1>8 DEF JobOK, Stops, Stoppers
<1>10. Completes(j)'
  <2>1. op["user"][j] # "none" \/ op["maker"][j] # "none" \/ ctx[j] \notin Active
    BY <1>0, <1>1 DEF JobOK, Stops, Stoppers
  <2>. QED BY <1>0, <1>3, <1>8, <2>1 DEF JobOK, Completes, Session
<1>11. TokenEnds(j)'
  BY <1>1 DEF TokenEnds
<1>. QED BY <1>4, <1>5, <1>7, <1>9, <1>10, <1>11, OneJob DEF JobOK

LEMMA StopRevokeKeeps ==
    ASSUME ContInv, NEW a \in Stoppers, NEW j \in JobIds, StopRevoke(a, j)
    PROVE  ContInv'
<1>0. Types /\ JobOK(j)
  BY DEF ContInv
<1>1. /\ op' \in [Stoppers -> [JobIds -> {"none", "docker", "mark", "revoke", "direct", "over"}]]
      /\ op'[a][j] = "over" /\ op[a][j] = "revoke"
      /\ \A b \in Stoppers \ {a} : op'[b][j] = op[b][j]
      /\ \A b \in Stoppers, k \in JobIds \ {j} : op'[b][k] = op[b][k]
  BY <1>0, OpSet DEF StopRevoke
<1>2. /\ token' \in [JobIds -> BOOLEAN] /\ ~token'[j]
      /\ \A i \in JobIds \ {j} : token'[i] = token[i]
  BY <1>0 DEF Types, StopRevoke
<1>3. UNCHANGED <<ctx, handle, kind, maker, monitor, complete, todo, box, worker, faults, old, said, crashes, mode>>
  BY DEF StopRevoke, keepDocker, keepRest
<1>4. Types'
  BY <1>0, <1>1, <1>2, <1>3 DEF Types
<1>5. \A i \in JobIds \ {j} : Untouched(i)
  BY <1>1, <1>2, <1>3 DEF Untouched
<1>6. maker[j] \notin {"none", "create", "start", "record"}
  BY <1>0, <1>1 DEF JobOK, Early
<1>7. Shape(j)' /\ Early(j)' /\ Waits(j)' /\ Reports(j)' /\ Monitors(j)' /\ TokenEnds(j)'
  BY <1>0, <1>2, <1>3, <1>6 DEF JobOK, Shape, Early, Waits, Reports, Monitors, TokenEnds
<1>8. /\ op'["reaper"][j] \notin {"none", "over"} => op["reaper"][j] \notin {"none", "over"}
      /\ op'["maker"][j] = "none" <=> op["maker"][j] = "none"
      /\ op'["user"][j] = "none" <=> op["user"][j] = "none"
  BY <1>1 DEF Stoppers
<1>9. Stops(j)' /\ Completes(j)'
  BY <1>0, <1>2, <1>3, <1>8 DEF JobOK, Stops, Completes, Session
<1>. QED BY <1>4, <1>5, <1>7, <1>9, OneJob DEF JobOK

LEMMA CancelKeeps ==
    ASSUME ContInv, NEW j \in JobIds, CancelTool(j) \/ WebCancel(j)
    PROVE  ContInv'
<1>0. Types /\ JobOK(j) /\ "user" \in Stoppers
  BY DEF ContInv, Stoppers
<1>1. op["user"][j] \in {"none", "over"}
  BY DEF CancelTool, WebCancel, Free
<1>v. PICK v \in {"none", "docker", "mark", "revoke", "direct", "over"} :
           /\ op' = [op EXCEPT !["user"][j] = v]
           /\ v = op["user"][j] \/ (v = "docker" /\ handle[j].id)
  <2>1. op' = [op EXCEPT !["user"][j] = IF handle[j].id THEN "docker" ELSE op["user"][j]]
    BY DEF CancelTool, WebCancel, StopBegin
  <2>2. CASE handle[j].id
    BY <2>1, <2>2
  <2>3. CASE ~handle[j].id
    BY <1>1, <2>1, <2>3
  <2>. QED BY <2>2, <2>3
<1>2. /\ op' \in [Stoppers -> [JobIds -> {"none", "docker", "mark", "revoke", "direct", "over"}]]
      /\ op'["user"][j] = v
      /\ \A b \in Stoppers \ {"user"} : op'[b][j] = op[b][j]
      /\ \A b \in Stoppers, k \in JobIds \ {j} : op'[b][k] = op[b][k]
  BY <1>0, <1>v, OpSet
<1>3. /\ ctx' \in [JobIds -> Active \cup {"missing", "Failed", "Cancelled"}]
      /\ \A k \in JobIds \ {j} : ctx'[k] = ctx[k]
      /\ ctx'[j] \in {ctx[j], "Cancelled"}
  BY <1>0, TransitionFacts DEF CancelTool, WebCancel, Types
<1>4. UNCHANGED <<handle, token, kind, maker, monitor, complete, todo, box, worker, faults, old, said, crashes, mode>>
  BY DEF CancelTool, WebCancel, keepDocker, keepRest
<1>5. Types'
  BY <1>0, <1>2, <1>3, <1>4 DEF Types
<1>6. \A i \in JobIds \ {j} : Untouched(i)
  BY <1>2, <1>3, <1>4 DEF Untouched
<1>7. /\ op'["reaper"][j] = op["reaper"][j] /\ op'["maker"][j] = op["maker"][j]
      /\ op'["user"][j] = op["user"][j] \/ (op'["user"][j] = "docker" /\ handle[j].id)
  BY <1>v, <1>2 DEF Stoppers
<1>8. Shape(j)' /\ Waits(j)' /\ Reports(j)' /\ Monitors(j)'
  BY <1>0, <1>4 DEF JobOK, Shape, Waits, Reports, Monitors
<1>9. Early(j)'
  BY <1>0, <1>4, <1>7 DEF JobOK, Early, Stoppers
<1>10. Stops(j)' /\ Completes(j)'
  BY <1>0, <1>3, <1>4, <1>7 DEF JobOK, Stops, Completes, Session, Active
<1>11. TokenEnds(j)'
  BY <1>0, <1>1, <1>4, <1>7 DEF JobOK, TokenEnds, Stoppers
<1>. QED BY <1>5, <1>6, <1>8, <1>9, <1>10, <1>11, OneJob DEF JobOK

-----------------------------------------------------------------------------
(* The tool that waits.                                                    *)

LEMMA PollKeeps ==
    ASSUME ContInv, NEW j \in JobIds, Poll(j)
    PROVE  ContInv'
<1>0. Types /\ JobOK(j)
  BY DEF ContInv
<1>1. /\ maker[j] = "poll" /\ handle[j].state \in {"Stopped", "none"}
      /\ \/ maker' = [maker EXCEPT ![j] = "failed"]
         \/ maker' = [maker EXCEPT ![j] = "completed"] /\ handle[j].result # "failure"
      /\ UNCHANGED <<ctx, handle, token, kind, monitor, complete, op, todo, box, worker, faults, old, said, crashes, mode>>
  BY DEF Poll, keepDocker, keepRest
<1>2. maker' \in [JobIds -> {"none", "create", "start", "record", "undo", "fail",
                             "poll", "completed", "failed", "timeout", "done"}]
  BY <1>0, <1>1 DEF Types
<1>3. Types'
  BY <1>0, <1>1, <1>2 DEF Types
<1>4. \A i \in JobIds \ {j} : Untouched(i)
  BY <1>0, <1>1 DEF Types, Untouched
<1>5. maker'[j] = "failed" \/ (maker'[j] = "completed" /\ handle[j].result # "failure")
  BY <1>0, <1>1 DEF Types
<1>6. Shape(j)' /\ Early(j)' /\ Stops(j)' /\ Waits(j)' /\ Reports(j)' /\ Monitors(j)' /\ TokenEnds(j)'
  BY <1>0, <1>1, <1>5 DEF JobOK, Shape, Early, Stops, Waits, Reports, Monitors, TokenEnds
<1>7. Completes(j)'
  <2>1. handle[j].state = "Stopped" /\ op["maker"][j] = "none"
    BY <1>0, <1>1 DEF JobOK, Shape, Stops, Waits
  <2>2. maker'[j] = "completed" => said[j] = "success" \/ handle[j].result = "none"
    BY <1>0, <1>5, HandleFields DEF JobOK, Reports, Monitors, Outcomes
  <2>. QED BY <1>0, <1>1, <1>5, <2>1, <2>2 DEF JobOK, Completes, Session
<1>. QED BY <1>3, <1>4, <1>6, <1>7, OneJob DEF JobOK

\* The handle goes, and with it whatever the job was waiting for.
LEMMA ForgetKeeps ==
    ASSUME ContInv, NEW j \in JobIds, maker[j] \in {"completed", "failed", "timeout"},
           handle' = [handle EXCEPT ![j] = NoHandle],
           maker' = [maker EXCEPT ![j] = "done"],
           ctx' \in [JobIds -> Active \cup {"missing", "Failed", "Cancelled"}],
           \A k \in JobIds \ {j} : ctx'[k] = ctx[k],
           ctx'[j] = "Completed" => ctx[j] \in Active /\ (ctx[j] = "Completed" \/ maker[j] = "completed"),
           ctx'[j] \in Active => ctx[j] \in Active,
           token[j] => \/ complete[j] # "none"
                       \/ \E a \in Stoppers : op[a][j] = "revoke",
           UNCHANGED <<token, kind, monitor, complete, op, todo, box, worker, faults, old, said, crashes, mode>>
    PROVE  ContInv'
<1>0. Types /\ JobOK(j)
  BY DEF ContInv
<1>1. /\ handle'[j].state = "none" /\ ~handle'[j].id /\ handle'[j].result = "none"
      /\ maker'[j] = "done"
  BY <1>0 DEF Types, NoHandle
<1>2. handle' \in [JobIds -> Handle]
  BY <1>0 DEF Types, Handle, NoHandle
<1>3. maker' \in [JobIds -> {"none", "create", "start", "record", "undo", "fail",
                             "poll", "completed", "failed", "timeout", "done"}]
  BY <1>0 DEF Types
<1>4. Types'
  BY <1>0, <1>2, <1>3 DEF Types, Handle
<1>5. \A i \in JobIds \ {j} : Untouched(i)
  BY <1>0 DEF Types, Untouched
<1>6. Shape(j)' /\ Early(j)' /\ Waits(j)' /\ Reports(j)' /\ Monitors(j)' /\ TokenEnds(j)'
  BY <1>0, <1>1 DEF JobOK, Shape, Early, Waits, Reports, Monitors, TokenEnds
<1>7. Stops(j)'
  BY <1>0, <1>1 DEF JobOK, Stops
<1>8. Completes(j)'
  BY <1>0, <1>1 DEF JobOK, Completes, Session
<1>. QED BY <1>4, <1>5, <1>6, <1>7, <1>8, OneJob DEF JobOK

LEMMA PollEndKeeps ==
    ASSUME ContInv, NEW j \in JobIds, PollEnd(j)
    PROVE  ContInv'
<1>0. Types /\ JobOK(j)
  BY DEF ContInv
<1>1. /\ maker[j] \in {"completed", "failed"}
      /\ \/ TransitionTo(j, "Failed")
         \/ TransitionTo(j, "Completed") /\ maker[j] = "completed"
  BY DEF PollEnd
<1>2. /\ ctx' \in [JobIds -> Active \cup {"missing", "Failed", "Cancelled"}]
      /\ \A k \in JobIds \ {j} : ctx'[k] = ctx[k]
      /\ ctx'[j] = "Completed" => ctx[j] \in Active /\ (ctx[j] = "Completed" \/ maker[j] = "completed")
      /\ ctx'[j] \in Active => ctx[j] \in Active
  BY <1>0, <1>1, TransitionFacts DEF Active
<1>3. token[j] => complete[j] # "none" \/ \E a \in Stoppers : op[a][j] = "revoke"
  BY <1>0, <1>1 DEF JobOK, Waits, TokenEnds
<1>. QED BY <1>1, <1>2, <1>3, ForgetKeeps DEF PollEnd, keepDocker, keepRest

LEMMA TimeoutKeeps ==
    ASSUME ContInv, NEW j \in JobIds, PollTimeout(j) \/ TimeoutEnd(j)
    PROVE  ContInv'
<1>0. Types /\ JobOK(j) /\ "maker" \in Stoppers
  BY DEF ContInv, Stoppers
<1>1. CASE PollTimeout(j)
  <2>1. maker[j] = "poll" /\ handle[j].id /\ op["maker"][j] = "none"
    BY <1>0, <1>1 DEF PollTimeout, JobOK, Waits, Stops
  <2>2. /\ op' = [op EXCEPT !["maker"][j] = "docker"]
        /\ maker' = [maker EXCEPT ![j] = "timeout"]
        /\ UNCHANGED <<ctx, handle, token, kind, monitor, complete, todo, box, worker, faults, old, said, crashes, mode>>
    BY <1>1, <2>1 DEF PollTimeout, StopBegin, keepDocker, keepRest
  <2>3. /\ op' \in [Stoppers -> [JobIds -> {"none", "docker", "mark", "revoke", "direct", "over"}]]
        /\ op'["maker"][j] = "docker"
        /\ \A b \in Stoppers \ {"maker"} : op'[b][j] = op[b][j]
        /\ \A b \in Stoppers, k \in JobIds \ {j} : op'[b][k] = op[b][k]
    BY <1>0, <2>2, OpSet
  <2>4. maker' \in [JobIds -> {"none", "create", "start", "record", "undo", "fail",
                               "poll", "completed", "failed", "timeout", "done"}]
        /\ maker'[j] = "timeout"
    BY <1>0, <2>2 DEF Types
  <2>5. Types'
    BY <1>0, <2>2, <2>3, <2>4 DEF Types
  <2>6. \A i \in JobIds \ {j} : Untouched(i)
    BY <1>0, <2>2, <2>3 DEF Types, Untouched
  <2>7. op'["reaper"][j] = op["reaper"][j] /\ op'["user"][j] = op["user"][j]
    BY <2>3 DEF Stoppers
  <2>8. Shape(j)' /\ Early(j)' /\ Waits(j)' /\ Reports(j)' /\ Monitors(j)'
    BY <1>0, <2>2, <2>4 DEF JobOK, Shape, Early, Waits, Reports, Monitors
  <2>9. Stops(j)' /\ Completes(j)'
    BY <1>0, <2>2, <2>3, <2>4, <2>7 DEF JobOK, Stops, Completes, Session
  <2>10. TokenEnds(j)'
    BY <1>0, <2>1, <2>2, <2>3, <2>7 DEF JobOK, TokenEnds, Stoppers
  <2>. QED BY <2>5, <2>6, <2>8, <2>9, <2>10, OneJob DEF JobOK
<1>2. CASE TimeoutEnd(j)
  <2>1. maker[j] = "timeout" /\ op["maker"][j] = "over" /\ ~token[j]
    BY <1>0, <1>2 DEF TimeoutEnd, Free, JobOK, Stops
  <2>2. /\ ctx' \in [JobIds -> Active \cup {"missing", "Failed", "Cancelled"}]
        /\ \A k \in JobIds \ {j} : ctx'[k] = ctx[k]
        /\ ctx'[j] \in {ctx[j], "Failed"}
    BY <1>0, <1>2, TransitionFacts DEF TimeoutEnd
  <2>3. /\ ctx'[j] = "Completed" => ctx[j] \in Active /\ (ctx[j] = "Completed" \/ maker[j] = "completed")
        /\ ctx'[j] \in Active => ctx[j] \in Active
    BY <2>2 DEF Active
  <2>. QED BY <1>2, <2>1, <2>2, <2>3, ForgetKeeps DEF TimeoutEnd, keepDocker, keepRest
<1>. QED BY <1>1, <1>2

-----------------------------------------------------------------------------
(* The worker, its report and the monitor.                                 *)

LEMMA DeliverFacts ==
    ASSUME Types, NEW j \in JobIds, NEW status \in Outcomes, Deliver(j, status)
    PROVE  /\ monitor' \in [JobIds -> Outcomes \cup {"off", "on"}]
           /\ \A i \in JobIds \ {j} : monitor'[i] = monitor[i]
           /\ monitor'[j] = monitor[j] \/ (monitor[j] = "on" /\ monitor'[j] = status)
BY DEF Deliver, Types

LEMMA SessionKeeps ==
    ASSUME ContInv, NEW j \in JobIds, NEW status \in Outcomes, SessionResult(j, status)
    PROVE  ContInv'
<1>0. Types /\ JobOK(j)
  BY DEF ContInv
<1>1. /\ mode[j] = "claude" /\ Deliver(j, status)
      /\ UNCHANGED <<ctx, handle, token, kind, mode, maker, complete, op, todo, box, worker, faults, old, said, crashes>>
  BY DEF SessionResult, keepDocker, keepRest
<1>2. /\ monitor' \in [JobIds -> Outcomes \cup {"off", "on"}]
      /\ \A i \in JobIds \ {j} : monitor'[i] = monitor[i]
      /\ monitor'[j] = monitor[j] \/ (monitor[j] = "on" /\ monitor'[j] = status)
  BY <1>0, <1>1, DeliverFacts
<1>3. Types'
  BY <1>0, <1>1, <1>2 DEF Types
<1>4. \A i \in JobIds \ {j} : Untouched(i)
  BY <1>1, <1>2 DEF Untouched
<1>5. JobOK(j)'
  BY <1>0, <1>1, <1>2
  DEF JobOK, Shape, Early, Stops, Waits, Reports, Monitors, Completes, Session, TokenEnds, Outcomes
<1>. QED BY <1>3, <1>4, <1>5, OneJob

LEMMA FinishKeeps ==
    ASSUME ContInv, NEW j \in JobIds, NEW outcome \in Outcomes, NEW delivered \in BOOLEAN,
           WorkerFinish(j, outcome, delivered)
    PROVE  ContInv'
<1>0. Types /\ JobOK(j)
  BY DEF ContInv
<1>1. /\ worker[j] = "work" /\ worker' = [worker EXCEPT ![j] = "report"]
      /\ said' = [said EXCEPT ![j] = outcome]
      /\ UNCHANGED <<ctx, handle, token, kind, mode, maker, complete, op, todo, box, old, faults, crashes>>
  BY DEF WorkerFinish
<1>2. /\ monitor' \in [JobIds -> Outcomes \cup {"off", "on"}]
      /\ \A i \in JobIds \ {j} : monitor'[i] = monitor[i]
      /\ monitor'[j] = monitor[j] \/ (monitor[j] = "on" /\ monitor'[j] \in {"failure", outcome})
  <2>1. UNCHANGED monitor \/ Deliver(j, "failure") \/ Deliver(j, outcome)
    BY DEF WorkerFinish
  <2>2. "failure" \in Outcomes
    BY DEF Outcomes
  <2>3. CASE UNCHANGED monitor
    BY <1>0, <2>3 DEF Types
  <2>. QED BY <1>0, <2>1, <2>2, <2>3, DeliverFacts
<1>3. Types'
  BY <1>0, <1>1, <1>2 DEF Types
<1>4. \A i \in JobIds \ {j} : Untouched(i)
  BY <1>0, <1>1, <1>2 DEF Types, Untouched
<1>5. /\ worker'[j] = "report" /\ said'[j] = outcome /\ said[j] = "none" /\ outcome # "none"
  BY <1>0, <1>1 DEF Types, JobOK, Reports, Outcomes
<1>6. Shape(j)' /\ Early(j)' /\ Stops(j)' /\ Waits(j)' /\ TokenEnds(j)'
  BY <1>0, <1>1, <1>5 DEF JobOK, Shape, Early, Stops, Waits, TokenEnds
<1>7. Reports(j)' /\ Monitors(j)' /\ Completes(j)'
  BY <1>0, <1>1, <1>2, <1>5 DEF JobOK, Reports, Monitors, Completes, Session, Outcomes
<1>. QED BY <1>3, <1>4, <1>6, <1>7, OneJob DEF JobOK

LEMMA ExitKeeps ==
    ASSUME ContInv, NEW j \in JobIds, WorkerExit(j)
    PROVE  ContInv'
<1>0. Types /\ JobOK(j)
  BY DEF ContInv
<1>1. /\ box[j] = "running" /\ box' = [box EXCEPT ![j] = "exited"]
      /\ worker' = [worker EXCEPT ![j] = IF @ = "accepted" THEN @ ELSE "over"]
      /\ UNCHANGED <<ctx, handle, token, kind, maker, monitor, complete, op, todo, faults, old, said, crashes, mode>>
  BY DEF WorkerExit, memory, keepRest
<1>2. /\ worker' \in [JobIds -> {"none", "work", "report", "accepted", "over"}]
      /\ worker'[j] \in {"accepted", "over"}
      /\ worker'[j] = "accepted" <=> worker[j] = "accepted"
      /\ box' \in [JobIds -> {"none", "created", "running", "exited", "removed"}]
      /\ \A i \in JobIds \ {j} : box'[i] = box[i] /\ worker'[i] = worker[i]
  BY <1>0, <1>1 DEF Types
<1>3. Types'
  BY <1>0, <1>1, <1>2 DEF Types
<1>4. \A i \in JobIds \ {j} : Untouched(i)
  BY <1>1, <1>2 DEF Untouched
<1>5. maker[j] \notin {"none", "create", "start"}
  BY <1>0, <1>1 DEF JobOK, Early, Shape
<1>6. JobOK(j)'
  BY <1>0, <1>1, <1>2, <1>5 DEF JobOK, Shape, Early, Stops, Waits, Reports, Monitors, Completes, Session, TokenEnds
<1>. QED BY <1>3, <1>4, <1>6, OneJob

LEMMA MonitorKeeps ==
    ASSUME ContInv, NEW j \in JobIds, Monitor(j)
    PROVE  ContInv'
<1>0. Types /\ JobOK(j)
  BY DEF ContInv
<1>1. /\ monitor[j] \in Outcomes /\ monitor' = [monitor EXCEPT ![j] = "off"]
      /\ \/ TransitionTo(j, "Failed")
         \/ TransitionTo(j, "Completed") /\ monitor[j] = "success"
      /\ UNCHANGED <<handle, token, kind, maker, complete, op, todo, box, worker, faults, old, said, crashes, mode>>
  BY DEF Monitor, keepDocker, keepRest
<1>2. /\ ctx' \in [JobIds -> Active \cup {"missing", "Failed", "Cancelled"}]
      /\ \A k \in JobIds \ {j} : ctx'[k] = ctx[k]
      /\ ctx'[j] = "Completed" => ctx[j] = "Completed" \/ monitor[j] = "success"
      /\ ctx'[j] \in Active => ctx[j] \in Active
  BY <1>0, <1>1, TransitionFacts DEF Active
<1>3. Types'
  BY <1>0, <1>1, <1>2 DEF Types
<1>4. \A i \in JobIds \ {j} : Untouched(i)
  BY <1>0, <1>1, <1>2 DEF Types, Untouched
<1>5. /\ monitor'[j] = "off"
      /\ monitor[j] = "success" => said[j] = "success" \/ Session(j)
  BY <1>0, <1>1 DEF Types, JobOK, Monitors, Session
<1>6. Shape(j)' /\ Early(j)' /\ Waits(j)' /\ TokenEnds(j)'
  BY <1>0, <1>1 DEF JobOK, Shape, Early, Waits, TokenEnds
<1>7. Stops(j)' /\ Reports(j)' /\ Monitors(j)' /\ Completes(j)'
  BY <1>0, <1>1, <1>2, <1>5 DEF JobOK, Stops, Reports, Monitors, Completes, Session, Outcomes
<1>. QED BY <1>3, <1>4, <1>6, <1>7, OneJob DEF JobOK

LEMMA ReportKeeps ==
    ASSUME ContInv, NEW j \in JobIds, Report(j)
    PROVE  ContInv'
<1>0. Types /\ JobOK(j)
  BY DEF ContInv
<1>1. /\ worker[j] = "report" /\ worker' = [worker EXCEPT ![j] = "accepted"]
      /\ complete' = [complete EXCEPT ![j] = "store"]
      /\ UNCHANGED <<ctx, handle, token, kind, maker, monitor, op, todo, box, faults, old, said, crashes, mode>>
  BY DEF Report, keepRest
<1>2. Types'
  BY <1>0, <1>1 DEF Types
<1>3. \A i \in JobIds \ {j} : Untouched(i)
  BY <1>0, <1>1 DEF Types, Untouched
<1>4. worker'[j] = "accepted" /\ complete'[j] = "store"
  BY <1>0, <1>1 DEF Types
<1>5. JobOK(j)'
  BY <1>0, <1>1, <1>4 DEF JobOK, Shape, Early, Stops, Waits, Reports, Monitors, Completes, Session, TokenEnds
<1>. QED BY <1>2, <1>3, <1>5, OneJob

LEMMA CompleteJobKeeps ==
    ASSUME ContInv, NEW j \in JobIds, CompleteJob(j)
    PROVE  ContInv'
<1>0. Types /\ JobOK(j)
  BY DEF ContInv
<1>1. /\ complete[j] = "store" /\ complete' = [complete EXCEPT ![j] = "docker"]
      /\ UNCHANGED <<ctx, token, kind, maker, monitor, op, todo, box, worker, faults, old, said, crashes, mode>>
  BY DEF CompleteJob, keepDocker, keepRest
<1>2. said[j] \in Outcomes
  BY <1>0, <1>1 DEF Types, JobOK, Reports, Monitors
<1>3. /\ handle' \in [JobIds -> Handle]
      /\ \A i \in JobIds \ {j} : handle'[i] = handle[i]
      /\ \/ handle'[j] = handle[j] /\ handle[j] = NoHandle
         \/ /\ handle'[j].state = "Stopped" /\ handle'[j].result = said[j]
            /\ handle'[j].id = handle[j].id
  <2>1. handle \in [JobIds -> Handle] /\ handle[j] \in Handle
    BY <1>0 DEF Types, Handle
  <2>2. [handle[j] EXCEPT !.state = "Stopped", !.result = said[j]] \in Handle
    BY <1>2, <2>1 DEF Handle
  <2>3. handle' = [handle EXCEPT ![j] = IF handle[j] = NoHandle THEN handle[j]
                     ELSE [handle[j] EXCEPT !.state = "Stopped", !.result = said[j]]]
    BY DEF CompleteJob
  <2>. QED BY <2>1, <2>2, <2>3 DEF Handle
<1>4. Types'
  BY <1>0, <1>1, <1>3 DEF Types, Handle
<1>5. \A i \in JobIds \ {j} : Untouched(i)
  BY <1>0, <1>1, <1>3 DEF Types, Untouched
<1>6. complete'[j] = "docker"
  BY <1>0, <1>1 DEF Types
<1>7. Shape(j)' /\ Early(j)' /\ Waits(j)' /\ TokenEnds(j)'
  BY <1>0, <1>1, <1>3, <1>6 DEF JobOK, Shape, Early, Waits, TokenEnds
<1>8. Stops(j)' /\ Reports(j)' /\ Monitors(j)' /\ Completes(j)'
  BY <1>0, <1>1, <1>2, <1>3, <1>6 DEF JobOK, Stops, Reports, Monitors, Completes, Session, Outcomes
<1>. QED BY <1>4, <1>5, <1>7, <1>8, OneJob DEF JobOK

LEMMA CompleteEndKeeps ==
    ASSUME ContInv, NEW j \in JobIds,
           CompleteDocker(j) \/ CompleteDropped(j) \/ CompleteRevoke(j)
    PROVE  ContInv'
<1>0. Types /\ JobOK(j)
  BY DEF ContInv
<1>1. CASE CompleteDocker(j)
  <2>1. /\ complete[j] = "docker" /\ complete' = [complete EXCEPT ![j] = "revoke"]
        /\ DockerRemove(j) \/ keepDocker
        /\ ~handle[j].id => keepDocker
        /\ UNCHANGED <<ctx, handle, token, kind, maker, monitor, op, todo, old, said, crashes, mode>>
    BY <1>1 DEF CompleteDocker, keepRest
  <2>2. Types'
    BY <1>0, <2>1, DockerFacts DEF Types
  <2>3. \A i \in JobIds \ {j} : Untouched(i)
    BY <1>0, <2>1, DockerFacts DEF Types, Untouched
  <2>4. worker[j] = "accepted" /\ worker'[j] = "accepted" /\ complete'[j] = "revoke"
    BY <1>0, <2>1, DockerFacts DEF Types, JobOK, Reports, Monitors
  <2>5. maker[j] \in {"none", "create", "start", "record"} => UNCHANGED <<box, worker>>
    BY <1>0, <2>1 DEF JobOK, Early, keepDocker
  <2>6. JobOK(j)'
    BY <1>0, <2>1, <2>4, <2>5 DEF JobOK, Shape, Early, Stops, Waits, Reports, Monitors, Completes, Session, TokenEnds
  <2>. QED BY <2>2, <2>3, <2>6, OneJob
<1>2. CASE CompleteDropped(j)
  <2>1. /\ complete[j] # "none" /\ complete' = [complete EXCEPT ![j] = "dropped"]
        /\ UNCHANGED <<ctx, handle, token, kind, maker, monitor, op, todo, box, worker, faults, old, said, crashes, mode>>
    BY <1>2 DEF CompleteDropped, keepDocker, keepRest
  <2>2. Types'
    BY <1>0, <2>1 DEF Types
  <2>3. \A i \in JobIds \ {j} : Untouched(i)
    BY <1>0, <2>1 DEF Types, Untouched
  <2>4. complete'[j] = "dropped"
    BY <1>0, <2>1 DEF Types
  <2>5. JobOK(j)'
    BY <1>0, <2>1, <2>4 DEF JobOK, Shape, Early, Stops, Waits, Reports, Monitors, Completes, Session, TokenEnds
  <2>. QED BY <2>2, <2>3, <2>5, OneJob
<1>3. CASE CompleteRevoke(j)
  <2>1. /\ complete' = [complete EXCEPT ![j] = "none"] /\ token' = [token EXCEPT ![j] = FALSE]
        /\ UNCHANGED <<ctx, handle, kind, maker, monitor, op, todo, box, worker, faults, old, said, crashes, mode>>
    BY <1>3 DEF CompleteRevoke, keepDocker, keepRest
  <2>2. Types'
    BY <1>0, <2>1 DEF Types
  <2>3. \A i \in JobIds \ {j} : Untouched(i)
    BY <1>0, <2>1 DEF Types, Untouched
  <2>4. complete'[j] = "none" /\ ~token'[j]
    BY <1>0, <2>1 DEF Types
  <2>5. JobOK(j)'
    BY <1>0, <2>1, <2>4 DEF JobOK, Shape, Early, Stops, Waits, Reports, Monitors, Completes, Session, TokenEnds
  <2>. QED BY <2>2, <2>3, <2>5, OneJob
<1>. QED BY <1>1, <1>2, <1>3

-----------------------------------------------------------------------------
(* The reaper, self-repair and crashes.                                    *)

LEMMA ScanKeeps ==
    ASSUME ContInv, Scan
    PROVE  ContInv'
<1>0. Types /\ \A j \in JobIds : JobOK(j)
  BY DEF ContInv
<1>1. /\ todo' = {j \in JobIds : Exists(j) /\ old[j]}
      /\ UNCHANGED <<ctx, handle, token, kind, maker, monitor, complete, op, box, worker, faults, old, said, crashes, mode>>
  BY DEF Scan, keepDocker, keepRest
<1>2. Types'
  BY <1>0, <1>1 DEF Types
<1>3. ASSUME NEW j \in JobIds PROVE JobOK(j)'
  <2>1. JobOK(j)
    BY <1>0
  <2>. QED BY <1>1, <2>1 DEF JobOK, Shape, Early, Stops, Waits, Reports, Monitors, Completes, Session, TokenEnds
<1>. QED BY <1>2, <1>3 DEF ContInv

LEMMA ReapKeeps ==
    ASSUME ContInv, NEW j \in JobIds, Reap(j)
    PROVE  ContInv'
<1>0. Types /\ JobOK(j) /\ "reaper" \in Stoppers
  BY DEF ContInv, Stoppers
<1>1. /\ j \in todo /\ todo' = todo \ {j} /\ op["reaper"][j] \in {"none", "over"}
      /\ UNCHANGED <<ctx, handle, token, kind, maker, monitor, complete, box, worker, faults, old, said, crashes, mode>>
  BY DEF Reap, ReaperIdle, Free, keepDocker, keepRest
<1>2. PICK v \in {"none", "docker", "mark", "revoke", "direct", "over"} :
           /\ op' = [op EXCEPT !["reaper"][j] = v]
           /\ v = op["reaper"][j] \/ (v \in {"docker", "direct"} /\ ctx[j] \notin Active)
  <2>1. op' = [op EXCEPT !["reaper"][j] = IF ctx[j] \in Active THEN op["reaper"][j]
                 ELSE IF handle[j].id THEN "docker" ELSE "direct"]
    BY DEF Reap
  <2>2. CASE ctx[j] \in Active
    BY <1>1, <2>1, <2>2
  <2>3. CASE ctx[j] \notin Active /\ handle[j].id
    BY <2>1, <2>3
  <2>4. CASE ctx[j] \notin Active /\ ~handle[j].id
    BY <2>1, <2>4
  <2>. QED BY <2>2, <2>3, <2>4
<1>3. /\ op' \in [Stoppers -> [JobIds -> {"none", "docker", "mark", "revoke", "direct", "over"}]]
      /\ op'["reaper"][j] = v
      /\ \A b \in Stoppers \ {"reaper"} : op'[b][j] = op[b][j]
      /\ \A b \in Stoppers, k \in JobIds \ {j} : op'[b][k] = op[b][k]
  BY <1>0, <1>2, OpSet
<1>4. Types'
  BY <1>0, <1>1, <1>3 DEF Types
<1>5. \A i \in JobIds \ {j} : Untouched(i)
  BY <1>1, <1>3 DEF Untouched
<1>6. op'["maker"][j] = op["maker"][j] /\ op'["user"][j] = op["user"][j]
  BY <1>3 DEF Stoppers
<1>7. maker[j] \notin {"none", "create", "start", "record"}
  BY <1>0, <1>1 DEF JobOK, Early
<1>8. Shape(j)' /\ Early(j)' /\ Waits(j)' /\ Reports(j)' /\ Monitors(j)'
  BY <1>0, <1>1, <1>7 DEF JobOK, Shape, Early, Waits, Reports, Monitors
<1>9. Stops(j)' /\ Completes(j)'
  BY <1>0, <1>1, <1>2, <1>3, <1>6 DEF JobOK, Stops, Completes, Session
<1>10. TokenEnds(j)'
  BY <1>0, <1>1, <1>3, <1>6 DEF JobOK, TokenEnds, Stoppers
<1>. QED BY <1>4, <1>5, <1>8, <1>9, <1>10, OneJob DEF JobOK

LEMMA ReapDirectKeeps ==
    ASSUME ContInv, NEW j \in JobIds, ReapDirect(j)
    PROVE  ContInv'
<1>0. Types /\ JobOK(j) /\ "reaper" \in Stoppers
  BY DEF ContInv, Stoppers
<1>1. /\ op["reaper"][j] = "direct" /\ op' = [op EXCEPT !["reaper"][j] = "over"]
      /\ DockerRemove(j)
      /\ UNCHANGED <<ctx, handle, token, kind, maker, monitor, complete, todo, old, said, crashes, mode>>
  BY DEF ReapDirect, keepRest
<1>2. /\ op' \in [Stoppers -> [JobIds -> {"none", "docker", "mark", "revoke", "direct", "over"}]]
      /\ op'["reaper"][j] = "over"
      /\ \A b \in Stoppers \ {"reaper"} : op'[b][j] = op[b][j]
      /\ \A b \in Stoppers, k \in JobIds \ {j} : op'[b][k] = op[b][k]
  BY <1>0, <1>1, OpSet
<1>3. Types'
  BY <1>0, <1>1, <1>2, DockerFacts DEF Types
<1>4. \A i \in JobIds \ {j} : Untouched(i)
  BY <1>0, <1>1, <1>2, DockerFacts DEF Untouched
<1>5. op'["maker"][j] = op["maker"][j] /\ op'["user"][j] = op["user"][j]
  BY <1>2 DEF Stoppers
<1>6. maker[j] \notin {"none", "create", "start", "record"}
  BY <1>0, <1>1 DEF JobOK, Early
<1>7. Shape(j)' /\ Early(j)' /\ Waits(j)' /\ Reports(j)' /\ Monitors(j)'
  BY <1>0, <1>1, <1>6, DockerFacts DEF JobOK, Shape, Early, Waits, Reports, Monitors
<1>8. Stops(j)' /\ Completes(j)'
  BY <1>0, <1>1, <1>2, <1>5 DEF JobOK, Stops, Completes, Session
<1>9. TokenEnds(j)'
  BY <1>0, <1>1, <1>2, <1>5 DEF JobOK, TokenEnds, Stoppers
<1>. QED BY <1>3, <1>4, <1>7, <1>8, <1>9, OneJob DEF JobOK

LEMMA AgeKeeps ==
    ASSUME ContInv, NEW j \in JobIds, Age(j)
    PROVE  ContInv'
<1>0. Types /\ JobOK(j)
  BY DEF ContInv
<1>1. /\ box[j] # "none" /\ maker[j] \notin {"start", "record"}
      /\ old' = [old EXCEPT ![j] = TRUE]
      /\ UNCHANGED <<ctx, handle, token, kind, maker, monitor, complete, op, todo, box, worker, faults, said, crashes, mode>>
  BY DEF Age, Exists, memory, keepDocker
<1>2. Types'
  BY <1>0, <1>1 DEF Types
<1>3. \A i \in JobIds \ {j} : Untouched(i)
  BY <1>0, <1>1 DEF Types, Untouched
<1>4. JobOK(j)'
  BY <1>0, <1>1 DEF JobOK, Shape, Early, Stops, Waits, Reports, Monitors, Completes, Session, TokenEnds
<1>. QED BY <1>2, <1>3, <1>4, OneJob

LEMMA RepairKeeps ==
    ASSUME ContInv, NEW j \in JobIds, NEW to \in {"Stuck", "InProgress", "Failed"}, Repair(j, to)
    PROVE  ContInv'
<1>0. Types /\ JobOK(j)
  BY DEF ContInv
<1>1. /\ ctx' \in [JobIds -> Active \cup {"missing", "Failed", "Cancelled"}]
      /\ \A k \in JobIds \ {j} : ctx'[k] = ctx[k]
      /\ ctx'[j] \in {ctx[j], to} /\ ctx[j] \in Active
  BY <1>0, TransitionFacts DEF Repair, Active
<1>2. UNCHANGED <<handle, token, kind, maker, monitor, complete, op, todo, box, worker, faults, old, said, crashes, mode>>
  BY DEF Repair, keepDocker, keepRest
<1>3. Types'
  BY <1>0, <1>1, <1>2 DEF Types
<1>4. \A i \in JobIds \ {j} : Untouched(i)
  BY <1>1, <1>2 DEF Untouched
<1>5. JobOK(j)'
  BY <1>0, <1>1, <1>2 DEF JobOK, Shape, Early, Stops, Waits, Reports, Monitors, Completes, Session, TokenEnds, Active
<1>. QED BY <1>3, <1>4, <1>5, OneJob

LEMMA CrashKeeps ==
    ASSUME ContInv, Crash
    PROVE  ContInv'
<1>0. Types /\ \A j \in JobIds : JobOK(j)
  BY DEF ContInv
<1>1. /\ crashes' \in 0..MaxCrashes
      /\ ctx' = [j \in JobIds |-> "missing"] /\ handle' = [j \in JobIds |-> NoHandle]
      /\ token' = [j \in JobIds |-> FALSE] /\ monitor' = [j \in JobIds |-> "off"]
      /\ complete' = [j \in JobIds |-> "none"]
      /\ op' = [a \in Stoppers |-> [j \in JobIds |-> "none"]] /\ todo' = {}
      /\ UNCHANGED <<kind, box, old, worker, said, faults, mode>>
  BY <1>0, BoundAssumption DEF Crash, Types
<1>2. /\ maker' \in [JobIds -> {"none", "create", "start", "record", "undo", "fail",
                                "poll", "completed", "failed", "timeout", "done"}]
      /\ \A j \in JobIds : maker'[j] = IF maker[j] = "none" THEN "none" ELSE "done"
  BY <1>0 DEF Crash, Types
<1>3. Types'
  BY <1>0, <1>1, <1>2 DEF Types, NoHandle
<1>4. ASSUME NEW j \in JobIds PROVE JobOK(j)'
  <2>1. JobOK(j)
    BY <1>0
  <2>2. /\ ctx'[j] = "missing" /\ ~token'[j] /\ monitor'[j] = "off" /\ complete'[j] = "none"
        /\ \A a \in Stoppers : op'[a][j] = "none"
        /\ handle'[j].state = "none" /\ ~handle'[j].id /\ handle'[j].result = "none"
        /\ maker'[j] = "done" \/ (maker'[j] = "none" /\ maker[j] = "none")
    BY <1>1, <1>2 DEF NoHandle
  <2>. QED BY <1>1, <2>1, <2>2
       DEF JobOK, Shape, Early, Stops, Waits, Reports, Monitors, Completes, Session, TokenEnds, Stoppers, Active, Outcomes
<1>. QED BY <1>3, <1>4 DEF ContInv

-----------------------------------------------------------------------------
(* The theorems.                                                           *)

LEMMA ContInvInit == Init => ContInv
<1>. SUFFICES ASSUME Init PROVE ContInv
  OBVIOUS
<1>1. Types
  BY BoundAssumption DEF Init, Types, NoHandle
<1>2. ASSUME NEW j \in JobIds PROVE JobOK(j)
  BY DEF Init, JobOK, Shape, Early, Stops, Waits, Reports, Monitors, Completes, Session, TokenEnds, Stoppers,
         Active, Outcomes, NoHandle
<1>. QED BY <1>1, <1>2 DEF ContInv

LEMMA ContInvStep == ContInv /\ [Next]_vars => ContInv'
<1>. SUFFICES ASSUME ContInv, [Next]_vars PROVE ContInv'
  OBVIOUS
<1>1. ASSUME NEW a \in Stoppers, NEW j \in JobIds, StopSteps(a, j) PROVE ContInv'
  BY <1>1, StopDockerKeeps, StopMarkKeeps, StopRevokeKeeps DEF StopSteps
<1>2. ASSUME NEW j \in JobIds, Make(j) PROVE ContInv'
  BY <1>2, CreateKeeps, RecordKeeps, UndoKeeps, PollKeeps, PollEndKeeps, TimeoutKeeps DEF Make
<1>3. ASSUME NEW j \in JobIds, CompleteSteps(j) PROVE ContInv'
  BY <1>3, CompleteJobKeeps, CompleteEndKeeps DEF CompleteSteps
<1>4. ASSUME ReaperSteps PROVE ContInv'
  <2>1. "reaper" \in Stoppers
    BY DEF Stoppers
  <2>. QED BY <1>1, <1>4, <2>1, ScanKeeps, ReapKeeps, ReapDirectKeeps DEF ReaperSteps
<1>5. ASSUME NEW j \in JobIds,
             \/ \E k \in {"wait", "detached", "restart"}, m \in Modes : Begin(j, k, m)
             \/ CancelTool(j) \/ WebCancel(j)
      PROVE  ContInv'
  BY <1>5, BeginKeeps, CancelKeeps
<1>6. ASSUME NEW j \in JobIds,
             \/ \E status \in Outcomes : SessionResult(j, status)
             \/ \E outcome \in Outcomes, delivered \in BOOLEAN : WorkerFinish(j, outcome, delivered)
             \/ WorkerExit(j) \/ Monitor(j) \/ Report(j)
      PROVE  ContInv'
  BY <1>6, SessionKeeps, FinishKeeps, ExitKeeps, MonitorKeeps, ReportKeeps
<1>7. ASSUME NEW j \in JobIds,
             Age(j) \/ \E to \in {"Stuck", "InProgress", "Failed"} : Repair(j, to)
      PROVE  ContInv'
  BY <1>7, AgeKeeps, RepairKeeps
<1>8. CASE UNCHANGED vars
  <2>1. /\ UNCHANGED <<ctx, handle, token, kind, maker, monitor, complete, op, todo>>
        /\ UNCHANGED <<box, old, worker, said, faults, crashes, mode, kind>>
    BY <1>8 DEF vars, memory
  <2>2. Types' /\ \A k \in JobIds : Untouched(k)
    BY <2>1 DEF ContInv, Types, Untouched
  <2>. QED BY <2>2, UntouchedOK DEF ContInv
<1>9. {"maker", "user"} \subseteq Stoppers
  BY DEF Stoppers
<1>. QED BY <1>1, <1>2, <1>3, <1>4, <1>5, <1>6, <1>7, <1>8, <1>9, CrashKeeps DEF Next

LEMMA ContInvAlways == Spec => []ContInv
BY ContInvInit, ContInvStep, PTL DEF Spec

\* Contexts, handles, tokens and containers keep their types; a handle with a
\* container id is Running or Stopped, only a running container has a worker
\* at work, and only a job that was begun has a token.
THEOREM ContTypeCorrect == Spec => []TypeOK
<1>1. ContInv => TypeOK
  BY DEF ContInv, TypeOK, JobOK
<1>. QED BY <1>1, ContInvAlways, PTL

\* The token of a job never outlives it by more than the revocation that is
\* under way, for any jobs, failed calls of Docker and crashes.
THEOREM ContTokenEndsWithJob == Spec => []TokenEndsWithJob
<1>1. ContInv => TokenEndsWithJob
  BY DEF ContInv, TokenEndsWithJob, JobOK, TokenEnds
<1>. QED BY <1>1, ContInvAlways, PTL

\* Poll and monitor never record a job as completed whose worker has reported
\* a failure, unless a user stopped it or a session of Claude Code had said
\* that it completed: for every other reason that a handle
\* is stopped without a result, the job is no longer active.
THEOREM ContFailureIsNotCompleted == Spec => []FailureIsNotCompleted
<1>1. ContInv => FailureIsNotCompleted
  BY DEF ContInv, FailureIsNotCompleted, JobOK, Completes, Session
<1>. QED BY <1>1, ContInvAlways, PTL

\* The reaper's stop of a container meets a job that is not active, however
\* long its steps take after it has read the job's state.
THEOREM ContReaperSparesActive == Spec => ReaperSparesActive
<1>. DEFINE Spares == \A j \in JobIds :
               op["reaper"][j] \in {"docker", "direct"} /\ op'["reaper"][j] # op["reaper"][j]
                   => ctx[j] \notin Active
<1>1. ContInv => [Spares]_vars
  BY DEF ContInv, JobOK, Stops
<1>. QED BY <1>1, ContInvAlways, PTL DEF ReaperSparesActive
=============================================================================

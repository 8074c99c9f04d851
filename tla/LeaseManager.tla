---------------------------- MODULE LeaseManager ----------------------------
(***************************************************************************)
(* Capability leases (capability/lease.rs, types/capability.rs) and those  *)
(* who use them: the executors that find a lease, ask the policy, consume  *)
(* a use and refund it when a gate pauses the call; the refresh of a       *)
(* thread's "tools" lease (runtime/lease_refresh.rs); the derivation of a  *)
(* child's leases; revocation, expiry and the removal of stale leases.     *)
(*                                                                         *)
(* The manager's map has one lock, taken for each of its operations and    *)
(* released between them.  An id that was removed from the map keeps its   *)
(* record here, for the properties only.  GrantedActions::All is the set   *)
(* of all names, and every lease is one for the capability "tools", the    *)
(* only one that is refreshed.                                             *)
(***************************************************************************)
EXTENDS Integers, FiniteSets

CONSTANTS
    Leases,         \* lease ids, each given to at most one lease
    Threads,
    Callers,        \* bound: threads whose loop makes calls and spawns the others
    Names,          \* action names as a model spells them
    Spellings,      \* the hyphenated and underscored forms of each name
    Plan,           \* the actions a thread's type may be granted as tools
    Batches,        \* batches of the orchestrator that may be under way
    Scripts,        \* calls of scripts that may be, each a task of its own
    BatchSize,      \* bound: calls in a batch
    GrantSets,      \* bound: the actions a lease is granted with
    Deadlines,      \* bound: expires_at of a grant; Never stands for None
    UseLimits,      \* bound: max_uses of a grant; 0 stands for None
    Horizon,        \* bound: the clock
    None

ASSUME BatchAssumption ==
    IsFiniteSet(Batches \cup Scripts) /\ Batches \cap Scripts = {} /\ BatchSize \in Nat \ {0}
ASSUME NameAssumption == Spellings \in [Names -> SUBSET Names]
ASSUME GrantAssumption == GrantSets \subseteq SUBSET Names
ASSUME CallersAssumption == Callers \subseteq Threads
ASSUME PlanAssumption == Plan \in [Threads -> SUBSET Names]
ASSUME BoundAssumption ==
    UseLimits \subseteq Nat /\ Horizon \in Nat /\ Deadlines \subseteq 1..(Horizon + 1)
ASSUME NoneAssumption == None \notin Leases /\ None \notin Threads

VARIABLES
    now,            \* the clock
    given,          \* ids in use
    active,         \* LeaseManager.active: the ids in the map
    lease,          \* and their records
    batch,          \* what each batch of calls is doing
    holds,          \* the lease each call of a batch has consumed a use of
    refresh,        \* reconcile_dynamic_tool_lease of each thread
    child, snap,    \* derive_child_leases: for whom, and the leases it has read
    parent,         \* history: the lease a child's lease was derived from
    paused,         \* the call of each thread that a gate has paused
    spent           \* history: uses of a limited lease that went to executed
                    \* calls or were lost with calls that were dropped

vars == <<now, given, active, lease, batch, holds, refresh, child, snap, parent, spent,
          paused>>

Never == Horizon + 1                \* expires_at: None
Tasks == Batches \cup Scripts
Slots == (Batches \X (1..BatchSize)) \cup (Scripts \X {1})

Lease == [thread : Threads \cup {None}, grants : SUBSET Names,
          until : 0..Never, limited : BOOLEAN, max : Nat, left : Nat,
          revoked : BOOLEAN]
Blank == [thread |-> None, grants |-> {}, until |-> 0,
          limited |-> TRUE, max |-> 0, left |-> 0, revoked |-> FALSE]

\* Call number at of len is looked at; a script's task has one.
Batch == [pc : {"idle", "find", "policy", "run"}, thread : Threads \cup {None},
          at : 1..BatchSize, len : 1..BatchSize,
          name : Names \cup {None}, found : Leases \cup {None}]
IdleBatch == [pc |-> "idle", thread |-> None, at |-> 1, len |-> 1,
              name |-> None, found |-> None]

Refresh == [on : BOOLEAN, lease : Leases \cup {None}, grants : SUBSET Names]
IdleRefresh == [on |-> FALSE, lease |-> None, grants |-> {}]

\* PendingGate.paused_lease is a copy of the lease, of which only the deadline
\* is read; it never changes, so the id stands for the copy.
Paused == [on : BOOLEAN, lease : Leases \cup {None}]
NotPaused == [on |-> FALSE, lease |-> None]

NoSnapshot == [l \in {} |-> Blank]

TypeOK ==
    /\ now \in 0..Horizon
    /\ given \subseteq Leases
    /\ active \subseteq given
    /\ lease \in [Leases -> Lease]
    /\ batch \in [Tasks -> Batch]
    /\ holds \in [Slots -> given \cup {None}]
    /\ refresh \in [Threads -> Refresh]
    /\ child \in Threads \cup {None}
    /\ DOMAIN snap \subseteq given /\ snap \in [DOMAIN snap -> Lease]
    /\ parent \in [Leases -> given \cup {None}]
    /\ spent \in [Leases -> Nat]
    /\ paused \in [Threads -> Paused]

Init ==
    /\ now = 0
    /\ given = {} /\ active = {}
    /\ lease = [l \in Leases |-> Blank]
    /\ batch = [b \in Tasks |-> IdleBatch]
    /\ holds = [s \in Slots |-> None]
    /\ refresh = [t \in Threads |-> IdleRefresh]
    /\ child = None /\ snap = NoSnapshot
    /\ parent = [l \in Leases |-> None]
    /\ spent = [l \in Leases |-> 0]
    /\ paused = [t \in Threads |-> NotPaused]

-----------------------------------------------------------------------------
(* CapabilityLease.                                                        *)

IsValid(r) ==
    /\ ~r.revoked
    /\ now < r.until
    /\ r.limited => r.left > 0

\* The caller has checked that a use is left.
ConsumeUse(l) ==
    lease' = [lease EXCEPT ![l].left = IF lease[l].limited THEN @ - 1 ELSE @]

MutantRefundUse(l) ==
    lease' = [lease EXCEPT ![l].left = IF lease[l].limited THEN lease[l].max ELSE @]

RefundUse(l) ==
    lease' = [lease EXCEPT ![l].left =
                IF lease[l].limited /\ @ < lease[l].max THEN @ + 1 ELSE @]

ActiveForThread(t) == {l \in active : lease[l].thread = t /\ IsValid(lease[l])}

\* find_lease_for_action accepts the name in either spelling.
Found(t, n) ==
    {l \in ActiveForThread(t) : ({n} \cup Spellings[n]) \cap lease[l].grants # {}}

\* find_and_consume accepts the name as it is.
Consumable(t, n) == {l \in ActiveForThread(t) : n \in lease[l].grants}

-----------------------------------------------------------------------------
(* grant, revoke, expire_stale.                                            *)

\* A lease under an id that was never used.
NewLease(l, r) ==
    /\ l \in Leases \ given
    /\ given' = given \cup {l}
    /\ active' = active \cup {l}
    /\ lease' = [lease EXCEPT ![l] = r]

\* A duration of zero or less is refused, and so is max_uses = 0: here 0
\* stands for None, no limit.
Grant(l, t, grants, until, uses) ==
    /\ until > now
    /\ NewLease(l, [thread |-> t, grants |-> grants,
                    until |-> until, limited |-> uses > 0,
                    max |-> uses, left |-> uses, revoked |-> FALSE])
    /\ UNCHANGED <<now, batch, holds, refresh, child, snap, parent, spent, paused>>

Revoke(l) ==
    /\ l \in active
    /\ lease' = [lease EXCEPT ![l].revoked = TRUE]
    /\ UNCHANGED <<now, given, active, batch, holds, refresh, child, snap, parent, spent, paused>>

ExpireStale ==
    /\ active' = {l \in active : IsValid(lease[l])}
    /\ active' # active
    /\ UNCHANGED <<now, given, lease, batch, holds, refresh, child, snap, parent, spent, paused>>

Tick ==
    /\ now < Horizon
    /\ now' = now + 1
    /\ UNCHANGED <<given, active, lease, batch, holds, refresh, child, snap, parent, spent, paused>>

-----------------------------------------------------------------------------
(* The executors.                                                          *)

InBatch(t) == \E b \in Batches : batch[b].thread = t
InScript(t) == \E b \in Scripts : batch[b].thread = t

\* A thread's loop runs one batch at a time, or a script that may have
\* several calls in flight; it rests while a call of it is paused.
Begin(b, t, len) ==
    /\ batch[b].pc = "idle"
    /\ ~refresh[t].on /\ ~InBatch(t) /\ ~paused[t].on
    /\ IF b \in Scripts THEN len = 1 ELSE ~InScript(t)
    /\ batch' = [batch EXCEPT ![b] = [IdleBatch EXCEPT !.pc = "find", !.thread = t, !.len = len]]
    /\ UNCHANGED <<now, given, active, lease, holds, refresh, child, snap, parent, spent, paused>>

\* The next call of the batch, or its parallel execution.
Advanced(b) ==
    LET c == batch[b] IN
    [batch EXCEPT ![b] =
        IF c.at < c.len
        THEN [c EXCEPT !.pc = "find", !.at = c.at + 1, !.name = None, !.found = None]
        ELSE [c EXCEPT !.pc = "run", !.name = None, !.found = None]]

\* The lease the policy is asked about.  A batch looks again by name, a
\* script's call keeps the lease.
Find(b, n, l) ==
    /\ batch[b].pc = "find"
    /\ l \in Found(batch[b].thread, n)
    /\ batch' = [batch EXCEPT ![b] =
                    [@ EXCEPT !.pc = "policy",
                              !.name = IF b \in Batches THEN n ELSE None,
                              !.found = IF b \in Scripts THEN l ELSE None]]
    /\ UNCHANGED <<now, given, active, lease, holds, refresh, child, snap, parent, spent, paused>>

\* No lease, or the policy denies: the call is answered with an error.
NotFound(b, n) ==
    /\ batch[b].pc = "find"
    /\ Found(batch[b].thread, n) = {}
    /\ batch' = Advanced(b)
    /\ UNCHANGED <<now, given, active, lease, holds, refresh, child, snap, parent, spent, paused>>

Deny(b) ==
    /\ batch[b].pc = "policy"
    /\ batch' = Advanced(b)
    /\ UNCHANGED <<now, given, active, lease, holds, refresh, child, snap, parent, spent, paused>>

\* The whole batch returns; the uses its earlier calls have consumed are
\* neither spent nor refunded.
HeldBy(b, l) == {s \in Slots : s[1] = b /\ holds[s] = l}
Drop(b) ==
    /\ batch' = [batch EXCEPT ![b] = IdleBatch]
    /\ holds' = [s \in Slots |-> IF s[1] = b THEN None ELSE holds[s]]
    /\ spent' = [l \in Leases |->
                    IF lease[l].limited THEN spent[l] + Cardinality(HeldBy(b, l)) ELSE 0]

Pause(t, l) == paused' = [paused EXCEPT ![t] = [on |-> TRUE, lease |-> l]]

\* The call waits for approval, without a lease of its own.
RequireApproval(b) ==
    /\ batch[b].pc = "policy"
    /\ Drop(b)
    /\ Pause(batch[b].thread, None)
    /\ UNCHANGED <<now, given, active, lease, refresh, child, snap, parent>>

\* find_and_consume: find again and consume, under one write lock.
FindAndConsume(b, l) ==
    /\ batch[b].pc = "policy" /\ b \in Batches
    /\ l \in Consumable(batch[b].thread, batch[b].name)
    /\ ConsumeUse(l)
    /\ holds' = [holds EXCEPT ![<<b, batch[b].at>>] = l]
    /\ batch' = Advanced(b)
    /\ UNCHANGED <<now, given, active, refresh, child, snap, parent, spent, paused>>

\* Nothing to consume any more, or the name is spelled the other way: the
\* call is answered with an error.
NothingToConsume(b) ==
    /\ batch[b].pc = "policy" /\ b \in Batches
    /\ Consumable(batch[b].thread, batch[b].name) = {}
    /\ batch' = Advanced(b)
    /\ UNCHANGED <<now, given, active, lease, holds, refresh, child, snap, parent, spent, paused>>

\* preflight_action consumes by the id it found; the id may be gone or its
\* lease no longer valid.
MutantConsumeFound(b) ==
    /\ batch[b].pc = "policy" /\ b \in Scripts
    /\ ConsumeUse(batch[b].found)
    /\ holds' = [holds EXCEPT ![<<b, batch[b].at>>] = batch[b].found]
    /\ batch' = Advanced(b)
    /\ UNCHANGED <<now, given, active, refresh, child, snap, parent, spent, paused>>

ConsumeFound(b) ==
    /\ batch[b].pc = "policy" /\ b \in Scripts
    /\ IF batch[b].found \in active /\ IsValid(lease[batch[b].found])
       THEN /\ ConsumeUse(batch[b].found)
            /\ holds' = [holds EXCEPT ![<<b, batch[b].at>>] = batch[b].found]
       ELSE UNCHANGED <<lease, holds>>
    /\ batch' = Advanced(b)
    /\ UNCHANGED <<now, given, active, refresh, child, snap, parent, spent, paused>>

-----------------------------------------------------------------------------
(* The parallel execution of the calls that got a use.                     *)

Spend(l) == spent' = [spent EXCEPT ![l] = IF lease[l].limited THEN @ + 1 ELSE @]

\* The call was executed, has failed or its task has panicked.
Executed(s) ==
    /\ batch[s[1]].pc = "run" /\ holds[s] # None
    /\ holds' = [holds EXCEPT ![s] = None]
    /\ Spend(holds[s])
    /\ UNCHANGED <<now, given, active, lease, batch, refresh, child, snap, parent, paused>>

\* A gate paused the call: the use is refunded, if the lease is still there.
\* The loop stops for one of the calls that were paused, with a copy of the
\* lease or without.
GatePaused(s) ==
    /\ batch[s[1]].pc = "run" /\ holds[s] # None
    /\ holds' = [holds EXCEPT ![s] = None]
    /\ IF holds[s] \in active
       THEN RefundUse(holds[s]) /\ UNCHANGED spent
       ELSE Spend(holds[s]) /\ UNCHANGED lease
    /\ \E l \in {holds[s], None} : Pause(batch[s[1]].thread, l)
    /\ UNCHANGED <<now, given, active, batch, refresh, child, snap, parent>>

End(b) ==
    /\ batch[b].pc = "run"
    /\ \A s \in Slots : s[1] = b => holds[s] = None
    /\ batch' = [batch EXCEPT ![b] = IdleBatch]
    /\ UNCHANGED <<now, given, active, lease, holds, refresh, child, snap, parent, spent, paused>>

-----------------------------------------------------------------------------
(* execute_pending_gate_action, of the bridge, once the gate is resolved.  *)

AtRest(t) == ~InBatch(t) /\ ~InScript(t)

\* A copy was valid when it was made; a later revocation does not reach it.
SnapshotLeaseStillValid(t) == paused[t].lease # None /\ now < lease[paused[t].lease].until

ResumeLease(t) ==
    IF SnapshotLeaseStillValid(t) THEN {paused[t].lease} ELSE UNION {Found(t, n) : n \in Names}

\* The call runs under the lease and consumes no use of it.  A gate may pause
\* it again, which leaves it as it was.
ExecutePendingGateAction(t, l) ==
    /\ paused[t].on /\ AtRest(t)
    /\ l \in ResumeLease(t)
    /\ paused' = [paused EXCEPT ![t] = NotPaused]
    /\ UNCHANGED <<now, given, active, lease, batch, holds, refresh, child, snap, parent, spent>>

\* The gate was denied, cancelled or discarded, no lease covers the call, or
\* its result came with the gate.
Unpaused(t) ==
    /\ paused[t].on /\ AtRest(t)
    /\ paused' = [paused EXCEPT ![t] = NotPaused]
    /\ UNCHANGED <<now, given, active, lease, batch, holds, refresh, child, snap, parent, spent>>

-----------------------------------------------------------------------------
(* reconcile_dynamic_tool_lease, between two steps of the thread's loop.   *)

RefreshRead(t) ==
    /\ ~refresh[t].on /\ ~InBatch(t) /\ ~InScript(t) /\ ~paused[t].on
    /\ \/ /\ ActiveForThread(t) = {}
          /\ refresh' = [refresh EXCEPT ![t] = [on |-> TRUE, lease |-> None, grants |-> {}]]
       \/ \E l \in ActiveForThread(t) :
             refresh' = [refresh EXCEPT ![t] =
                            [on |-> TRUE, lease |-> l, grants |-> lease[l].grants]]
    /\ UNCHANGED <<now, given, active, lease, batch, holds, child, snap, parent, spent, paused>>

\* update_granted_actions writes the merge of what was read and what is
\* desired now; it does not ask whether the lease is still valid.
RefreshUpdate(t, desired) ==
    /\ refresh[t].on /\ refresh[t].lease # None
    /\ lease' = IF refresh[t].lease \in active
                THEN [lease EXCEPT ![refresh[t].lease].grants = refresh[t].grants \cup desired]
                ELSE lease
    /\ refresh' = [refresh EXCEPT ![t] = IdleRefresh]
    /\ UNCHANGED <<now, given, active, batch, holds, child, snap, parent, spent, paused>>

\* No tools lease was valid: a new one, without limits.
RefreshGrant(t, desired, l) ==
    /\ refresh[t].on /\ refresh[t].lease = None
    /\ NewLease(l, [thread |-> t, grants |-> desired, until |-> Never,
                    limited |-> FALSE, max |-> 0, left |-> 0, revoked |-> FALSE])
    /\ refresh' = [refresh EXCEPT ![t] = IdleRefresh]
    /\ UNCHANGED <<now, batch, holds, child, snap, parent, spent, paused>>

-----------------------------------------------------------------------------
(* derive_child_leases.                                                    *)

\* The parent's valid leases are copied under a read lock.
DeriveRead(p, c) ==
    /\ child = None
    /\ ActiveForThread(p) # {}
    /\ child' = c
    /\ snap' = [l \in ActiveForThread(p) |-> lease[l]]
    /\ UNCHANGED <<now, given, active, lease, batch, holds, refresh, parent, spent, paused>>

MutantChildLease(r, c, req) ==
    [r EXCEPT !.thread = c, !.grants = req, !.max = r.left]

\* What the child gets of a lease: the requested actions among the granted.
ChildLease(r, c, req) ==
    [r EXCEPT !.thread = c, !.grants = @ \cap req, !.max = r.left]

\* Leases without a requested action are skipped; the others are inserted in
\* one go, whatever has become of the parent's.
DeriveInsert(req, id) ==
    LET from == {l \in DOMAIN snap : IsValid(snap[l]) /\ (req = Names \/ snap[l].grants \cap req # {})}
        new  == {id[l] : l \in from}
        source(n) == CHOOSE l \in from : id[l] = n
    IN
    /\ child # None
    /\ \A l \in from : id[l] \in Leases \ given
    /\ \A l, m \in from : id[l] = id[m] => l = m
    /\ given' = given \cup new
    /\ active' = active \cup new
    /\ lease' = [n \in Leases |->
                    IF n \in new THEN ChildLease(snap[source(n)], child, req) ELSE lease[n]]
    /\ parent' = [n \in Leases |-> IF n \in new THEN source(n) ELSE parent[n]]
    /\ child' = None /\ snap' = NoSnapshot
    /\ UNCHANGED <<now, batch, holds, refresh, spent, paused>>

-----------------------------------------------------------------------------

Executor ==
    \/ \E b \in Tasks :
          \/ \E t \in Callers, len \in 1..BatchSize : Begin(b, t, len)
          \/ \E n \in Names : NotFound(b, n) \/ \E l \in Leases : Find(b, n, l)
          \/ Deny(b) \/ RequireApproval(b)
          \/ \E l \in Leases : FindAndConsume(b, l)
          \/ NothingToConsume(b) \/ ConsumeFound(b) \/ End(b)
    \/ \E s \in Slots : Executed(s) \/ GatePaused(s)

Manager ==
    \/ \E l \in Leases, t \in Threads, grants \in GrantSets, until \in Deadlines,
          uses \in UseLimits : Grant(l, t, grants, until, uses)
    \/ \E l \in Leases : Revoke(l)
    \/ ExpireStale
    \/ Tick

Dynamic ==
    \/ \E t \in Threads :
          \/ RefreshRead(t)
          \/ \E desired \in SUBSET Plan[t] \ {{}} :
                \/ RefreshUpdate(t, desired)
                \/ \E l \in Leases : RefreshGrant(t, desired, l)
    \/ \E p \in Callers, c \in Threads \ Callers : DeriveRead(p, c)
    \/ \E req \in SUBSET Names, id \in [DOMAIN snap -> Leases] : DeriveInsert(req, id)

Bridge ==
    \E t \in Threads : Unpaused(t) \/ \E l \in Leases : ExecutePendingGateAction(t, l)

Next == Executor \/ Manager \/ Dynamic \/ Bridge

Spec == Init /\ [][Next]_vars

-----------------------------------------------------------------------------
(* Properties.                                                             *)

Held(l) == {s \in Slots : holds[s] = l}

\* Every use of a limited lease is accounted for: it is left, in the hands of
\* a call under way, or gone with a call that an executor ran or an interrupted
\* batch.  So overlapping executors, the gap between find and consume, refunds
\* after pauses and the removal of stale leases neither lose a use nor make one
\* up.  It does not bound the calls that run: max_uses says "Maximum number of
\* action invocations", but a call whose use was refunded at a pause is run by
\* ExecutePendingGateAction without one.
UsesConserved ==
    \A l \in Leases : lease[l].limited =>
        lease[l].left + Cardinality(Held(l)) + spent[l] = lease[l].max

\* A derived lease never allows more than its parent's: it expires no later,
\* has a smaller budget, and covers only actions of the parent's lease and
\* those the child's own refresh may add, however the two locks of the
\* derivation interleave with consumption and refresh.
ChildWithinParent ==
    \A l \in given : parent[l] # None =>
        LET p == lease[parent[l]] IN
        /\ lease[l].until <= p.until
        /\ p.limited => lease[l].limited /\ lease[l].max <= p.max
        /\ lease[l].grants \subseteq p.grants \cup Plan[lease[l].thread]
=============================================================================

------------------------- MODULE LeaseManagerProofs -------------------------
(***************************************************************************)
(* Proofs about LeaseManager, for any threads, leases, executors, names    *)
(* and limits.                                                             *)
(*                                                                         *)
(* The accounts of a lease are not inductive by themselves: a call must    *)
(* put the use it takes into an empty slot, and a lease that is granted    *)
(* must find its accounts at zero.  A child's lease is made from a copy,   *)
(* which must not have gone beyond what its original allows since.         *)
(***************************************************************************)
EXTENDS LeaseManager, FiniteSetTheorems, TLAPS

\* An id that was never given has no accounts and no parent.
FreshIds == \A l \in Leases \ given : spent[l] = 0 /\ parent[l] = None

\* A slot that holds a use belongs to a batch that has passed it.
SlotsBehind ==
    \A s \in Slots : holds[s] # None =>
        /\ batch[s[1]].pc # "idle"
        /\ batch[s[1]].pc \in {"find", "policy"} => s[2] < batch[s[1]].at

\* A script's task has one call.
OneCall == \A b \in Scripts : batch[b].at = 1 /\ batch[b].len = 1

\* A thread refreshes a lease of its own, from an exact copy of its grants.
RefreshExact ==
    \A t \in Threads : refresh[t].on /\ refresh[t].lease # None =>
        /\ refresh[t].lease \in given
        /\ lease[refresh[t].lease].thread = t
        /\ lease[refresh[t].lease].grants = refresh[t].grants

\* A copy made for a child allows no more than the lease it was made from.
SnapWithin ==
    /\ child = None => snap = NoSnapshot
    /\ \A l \in DOMAIN snap :
          /\ snap[l].until = lease[l].until
          /\ snap[l].limited = lease[l].limited
          /\ lease[l].limited => snap[l].left <= lease[l].max
          /\ snap[l].grants \subseteq lease[l].grants

LeaseInv ==
    /\ TypeOK /\ FreshIds /\ SlotsBehind /\ OneCall
    /\ UsesConserved
    /\ RefreshExact /\ SnapWithin /\ ChildWithinParent

-----------------------------------------------------------------------------
(* Slots and cardinalities.                                                *)

LEMMA SlotsFinite == IsFiniteSet(Slots)
<1>1. IsFiniteSet(Batches) /\ IsFiniteSet(Scripts)
  BY BatchAssumption, FS_Subset
<1>2. IsFiniteSet(1..BatchSize)
  BY BatchAssumption, FS_Interval
<1>3. IsFiniteSet(Batches \X (1..BatchSize)) /\ IsFiniteSet(Scripts \X {1})
  BY <1>1, <1>2, FS_Product, FS_Singleton
<1>. QED BY <1>3, FS_Union DEF Slots

LEMMA SlotParts ==
    /\ \A s \in Slots : s[1] \in Tasks /\ s[2] \in 1..BatchSize
    /\ \A s \in Slots : s = <<s[1], s[2]>>
BY BatchAssumption DEF Slots, Tasks

\* The slot of the call that a task looks at.
LEMMA SlotAt ==
    ASSUME TypeOK, OneCall, NEW b \in Tasks
    PROVE  <<b, batch[b].at>> \in Slots
<1>1. batch[b].at \in 1..BatchSize
  BY DEF TypeOK, Batch
<1>. QED BY <1>1, BatchAssumption DEF OneCall, Slots, Tasks

LEMMA HeldFinite ==
    ASSUME NEW l
    PROVE  IsFiniteSet(Held(l)) /\ Cardinality(Held(l)) \in Nat
<1>1. Held(l) \subseteq Slots
  BY DEF Held
<1>. QED BY <1>1, SlotsFinite, FS_Subset, FS_CardinalityType

LEMMA HeldByFinite ==
    ASSUME NEW b, NEW l
    PROVE  Cardinality(HeldBy(b, l)) \in Nat
<1>1. HeldBy(b, l) \subseteq Slots
  BY DEF HeldBy
<1>. QED BY <1>1, SlotsFinite, FS_Subset, FS_CardinalityType

-----------------------------------------------------------------------------
(* Types.                                                                  *)

LEMMA AdvancedType ==
    ASSUME TypeOK, NEW b \in Tasks, batch[b].pc \in {"find", "policy"}
    PROVE  Advanced(b) \in [Tasks -> Batch]
<1>1. batch[b] \in Batch
  BY DEF TypeOK
<1>2. batch[b].at < batch[b].len => batch[b].at + 1 \in 1..BatchSize
  BY <1>1, BatchAssumption DEF Batch
<1>3. CASE batch[b].at < batch[b].len
  <2>1. [batch[b] EXCEPT !.pc = "find", !.at = batch[b].at + 1, !.name = None, !.found = None] \in Batch
    BY <1>1, <1>2, <1>3 DEF Batch
  <2>. QED BY <1>3, <2>1 DEF Advanced, TypeOK
<1>4. CASE ~(batch[b].at < batch[b].len)
  <2>1. [batch[b] EXCEPT !.pc = "run", !.name = None, !.found = None] \in Batch
    BY <1>1 DEF Batch
  <2>. QED BY <1>4, <2>1 DEF Advanced, TypeOK
<1>. QED BY <1>3, <1>4

LEMMA ConsumeType ==
    ASSUME TypeOK, NEW l \in Leases, IsValid(lease[l]), ConsumeUse(l)
    PROVE  lease' \in [Leases -> Lease]
<1>1. lease[l] \in Lease
  BY DEF TypeOK
<1>2. lease[l].limited => lease[l].left - 1 \in Nat
  BY <1>1 DEF IsValid, Lease
<1>. QED BY <1>1, <1>2 DEF ConsumeUse, TypeOK, Lease

LEMMA RefundType ==
    ASSUME TypeOK, NEW l \in Leases, RefundUse(l)
    PROVE  lease' \in [Leases -> Lease]
<1>1. lease[l] \in Lease
  BY DEF TypeOK
<1>2. lease[l].left + 1 \in Nat
  BY <1>1 DEF Lease
<1>. QED BY <1>1, <1>2 DEF RefundUse, TypeOK, Lease

LEMMA SpendType ==
    ASSUME TypeOK, NEW l \in Leases, Spend(l)
    PROVE  spent' \in [Leases -> Nat]
BY DEF Spend, TypeOK

LEMMA PauseType ==
    ASSUME TypeOK, NEW t, NEW l \in Leases \cup {None}, Pause(t, l)
    PROVE  paused' \in [Threads -> Paused]
BY DEF Pause, TypeOK, Paused

\* The bridge runs a paused call and touches nothing of the manager's.
LEMMA BridgeFacts ==
    ASSUME TypeOK, Bridge
    PROVE  /\ UNCHANGED <<now, given, active, lease, batch, holds, refresh, child, snap, parent, spent>>
           /\ TypeOK'
<1>1. ASSUME NEW t \in Threads, Unpaused(t) \/ \E l \in Leases : ExecutePendingGateAction(t, l)
      PROVE  /\ UNCHANGED <<now, given, active, lease, batch, holds, refresh, child, snap, parent, spent>>
             /\ paused' \in [Threads -> Paused]
  <2>1. paused' = [paused EXCEPT ![t] = NotPaused] /\ NotPaused \in Paused
    BY <1>1 DEF Unpaused, ExecutePendingGateAction, NotPaused, Paused
  <2>. QED BY <1>1, <2>1 DEF Unpaused, ExecutePendingGateAction, TypeOK
<1>2. /\ UNCHANGED <<now, given, active, lease, batch, holds, refresh, child, snap, parent, spent>>
      /\ paused' \in [Threads -> Paused]
  BY <1>1 DEF Bridge
<1>. QED BY <1>2 DEF TypeOK

LEMMA NewLeaseType ==
    ASSUME TypeOK, NEW l, NEW r \in Lease, NewLease(l, r)
    PROVE  /\ given' \subseteq Leases /\ active' \subseteq given' /\ given \subseteq given'
           /\ lease' \in [Leases -> Lease]
BY DEF NewLease, TypeOK

\* What the records of an action may be.
LEMMA BlankTypes ==
    /\ IdleBatch \in Batch /\ IdleRefresh \in Refresh
    /\ Blank \in Lease /\ NotPaused \in Paused
BY BatchAssumption, BoundAssumption DEF NotPaused, Paused, IdleBatch, Batch, IdleRefresh, Refresh, Blank, Lease, Never

LEMMA TypeInit == Init => TypeOK
BY BlankTypes, BoundAssumption DEF Init, TypeOK, NoSnapshot

LEMMA ManagerTypes ==
    ASSUME TypeOK, Manager PROVE TypeOK'
<1>1. ASSUME NEW l \in Leases, NEW t \in Threads, NEW grants \in GrantSets,
             NEW until \in Deadlines, NEW uses \in UseLimits,
             Grant(l, t, grants, until, uses)
      PROVE  TypeOK'
  <2>1. [thread |-> t, grants |-> grants, until |-> until, limited |-> uses > 0,
         max |-> uses, left |-> uses, revoked |-> FALSE] \in Lease
    BY GrantAssumption, BoundAssumption DEF Lease, Never
  <2>2. /\ given' \subseteq Leases /\ active' \subseteq given' /\ given \subseteq given'
        /\ lease' \in [Leases -> Lease]
    BY <1>1, <2>1, NewLeaseType DEF Grant
  <2>. QED BY <1>1, <2>2 DEF Grant, TypeOK
<1>2. ASSUME NEW l \in Leases, Revoke(l) PROVE TypeOK'
  BY <1>2 DEF Revoke, TypeOK, Lease
<1>3. CASE ExpireStale
  BY <1>3 DEF ExpireStale, TypeOK
<1>4. CASE Tick
  BY <1>4, BoundAssumption DEF Tick, TypeOK
<1>. QED BY <1>1, <1>2, <1>3, <1>4 DEF Manager

LEMMA ExecutorTypes ==
    ASSUME TypeOK, OneCall, Executor PROVE TypeOK'
<1>1. ASSUME NEW b \in Tasks, NEW t \in Callers, NEW len \in 1..BatchSize, Begin(b, t, len)
      PROVE  TypeOK'
  <2>1. [IdleBatch EXCEPT !.pc = "find", !.thread = t, !.len = len] \in Batch
    <3>1. t \in Threads /\ IdleBatch \in Batch
      BY CallersAssumption, BlankTypes
    <3>. QED BY <3>1 DEF Batch
  <2>. QED BY <1>1, <2>1 DEF Begin, TypeOK
<1>2. ASSUME NEW b \in Tasks, NEW n \in Names, NotFound(b, n) PROVE TypeOK'
  BY <1>2, AdvancedType DEF NotFound, TypeOK
<1>3. ASSUME NEW b \in Tasks, NEW n \in Names, NEW l \in Leases, Find(b, n, l) PROVE TypeOK'
  <2>1. batch[b] \in Batch
    BY DEF TypeOK
  <2>2. [batch[b] EXCEPT !.pc = "policy",
                         !.name = IF b \in Batches THEN n ELSE None,
                         !.found = IF b \in Scripts THEN l ELSE None] \in Batch
    BY <2>1 DEF Batch
  <2>. QED BY <1>3, <2>2 DEF Find, TypeOK
<1>4. ASSUME NEW b \in Tasks, Deny(b) PROVE TypeOK'
  BY <1>4, AdvancedType DEF Deny, TypeOK
<1>5. ASSUME NEW b \in Tasks, RequireApproval(b) PROVE TypeOK'
  <2>1. \A l \in Leases : spent[l] \in Nat /\ Cardinality(HeldBy(b, l)) \in Nat
    BY HeldByFinite DEF TypeOK
  <2>2. spent' \in [Leases -> Nat]
    BY <1>5, <2>1 DEF RequireApproval, Drop
  <2>3. paused' \in [Threads -> Paused]
    BY <1>5, PauseType DEF RequireApproval
  <2>. QED BY <1>5, <2>2, <2>3, BlankTypes DEF RequireApproval, Drop, TypeOK
<1>6. ASSUME NEW b \in Tasks, NEW l \in Leases, FindAndConsume(b, l) PROVE TypeOK'
  <2>1. l \in active /\ IsValid(lease[l])
    BY <1>6 DEF FindAndConsume, Consumable, ActiveForThread
  <2>2. lease' \in [Leases -> Lease]
    BY <1>6, <2>1, ConsumeType DEF FindAndConsume
  <2>3. batch' \in [Tasks -> Batch]
    BY <1>6, AdvancedType DEF FindAndConsume
  <2>4. holds' \in [Slots -> given \cup {None}]
    BY <1>6, <2>1, SlotAt DEF FindAndConsume, TypeOK
  <2>. QED BY <1>6, <2>2, <2>3, <2>4 DEF FindAndConsume, TypeOK
<1>7. ASSUME NEW b \in Tasks, NothingToConsume(b) PROVE TypeOK'
  BY <1>7, AdvancedType DEF NothingToConsume, TypeOK
<1>8. ASSUME NEW b \in Tasks, ConsumeFound(b) PROVE TypeOK'
  <2>1. batch' \in [Tasks -> Batch]
    BY <1>8, AdvancedType DEF ConsumeFound
  <2>2. CASE batch[b].found \in active /\ IsValid(lease[batch[b].found])
    <3>1. batch[b].found \in Leases
      BY <2>2 DEF TypeOK
    <3>2. lease' \in [Leases -> Lease]
      BY <1>8, <2>2, <3>1, ConsumeType DEF ConsumeFound
    <3>3. holds' \in [Slots -> given \cup {None}]
      BY <1>8, <2>2, SlotAt DEF ConsumeFound, TypeOK
    <3>. QED BY <1>8, <2>1, <3>2, <3>3 DEF ConsumeFound, TypeOK
  <2>3. CASE ~(batch[b].found \in active /\ IsValid(lease[batch[b].found]))
    BY <1>8, <2>1, <2>3 DEF ConsumeFound, TypeOK
  <2>. QED BY <2>2, <2>3
<1>9. ASSUME NEW b \in Tasks, End(b) PROVE TypeOK'
  BY <1>9, BlankTypes DEF End, TypeOK
<1>10. ASSUME NEW s \in Slots, Executed(s) PROVE TypeOK'
  <2>1. holds[s] \in given /\ holds[s] \in Leases
    BY <1>10 DEF Executed, TypeOK
  <2>2. spent' \in [Leases -> Nat]
    BY <1>10, <2>1, SpendType DEF Executed
  <2>. QED BY <1>10, <2>2 DEF Executed, TypeOK
<1>11. ASSUME NEW s \in Slots, GatePaused(s) PROVE TypeOK'
  <2>1. holds[s] \in given /\ holds[s] \in Leases
    BY <1>11 DEF GatePaused, TypeOK
  <2>2. spent' \in [Leases -> Nat] /\ lease' \in [Leases -> Lease]
    BY <1>11, <2>1, SpendType, RefundType DEF GatePaused, TypeOK
  <2>3. paused' \in [Threads -> Paused]
    BY <1>11, <2>1, PauseType DEF GatePaused
  <2>. QED BY <1>11, <2>2, <2>3 DEF GatePaused, TypeOK
<1>. QED
  BY <1>1, <1>2, <1>3, <1>4, <1>5, <1>6, <1>7, <1>8, <1>9, <1>10, <1>11 DEF Executor

\* The parts of a derivation: who gets which lease from where.
Derived(req) ==
    {l \in DOMAIN snap : IsValid(snap[l]) /\ (req = Names \/ snap[l].grants \cap req # {})}

LEMMA DeriveFacts ==
    ASSUME TypeOK, NEW req \in SUBSET Names, NEW id \in [DOMAIN snap -> Leases],
           DeriveInsert(req, id), NEW n \in Leases
    PROVE  \/ /\ n \notin given /\ n \in given' /\ n \in active'
              /\ \E l \in Derived(req) :
                    /\ lease'[n] = ChildLease(snap[l], child, req)
                    /\ parent'[n] = l
           \/ /\ n \in given' <=> n \in given
              /\ n \in active' <=> n \in active
              /\ lease'[n] = lease[n] /\ parent'[n] = parent[n]
<1>. DEFINE from == Derived(req)
            new == {id[l] : l \in from}
            source(m) == CHOOSE l \in from : id[l] = m
<1>1. /\ \A l \in from : id[l] \in Leases \ given
      /\ given' = given \cup new
      /\ active' = active \cup new
      /\ lease' = [m \in Leases |->
                      IF m \in new THEN ChildLease(snap[source(m)], child, req) ELSE lease[m]]
      /\ parent' = [m \in Leases |-> IF m \in new THEN source(m) ELSE parent[m]]
  BY Zenon DEF DeriveInsert, Derived
<1>2. CASE n \in new
  <2>1. \E l \in from : id[l] = n
    BY <1>2
  <2>2. source(n) \in from
    BY <2>1
  <2>3. n \notin given
    BY <1>1, <2>1
  <2>4. lease'[n] = ChildLease(snap[source(n)], child, req) /\ parent'[n] = source(n)
    BY <1>1, <1>2
  <2>5. n \in given' /\ n \in active'
    BY <1>1, <1>2
  <2>. HIDE DEF from, new, source
  <2>. QED BY <2>2, <2>3, <2>4, <2>5 DEF from
<1>3. CASE n \notin new
  <2>. HIDE DEF new, source
  <2>. QED BY <1>1, <1>3
<1>. QED BY <1>2, <1>3

LEMMA DeriveDomain ==
    ASSUME TypeOK, NEW req \in SUBSET Names, NEW id \in [DOMAIN snap -> Leases],
           DeriveInsert(req, id)
    PROVE  /\ lease' = [n \in Leases |-> lease'[n]]
           /\ parent' = [n \in Leases |-> parent'[n]]
           /\ given \subseteq given' /\ given' \subseteq Leases /\ active' \subseteq given'
           /\ child' = None /\ snap' = NoSnapshot
           /\ UNCHANGED <<now, batch, holds, refresh, spent, paused>>
<1>1. /\ \E f : lease' = [n \in Leases |-> f[n]]
      /\ \E f : parent' = [n \in Leases |-> f[n]]
  BY DEF DeriveInsert
<1>2. PICK new : /\ new \subseteq Leases
                 /\ given' = given \cup new
                 /\ active' = active \cup new
  <2>1. \A l \in Derived(req) : id[l] \in Leases
    BY DEF Derived
  <2>2. {id[l] : l \in Derived(req)} \subseteq Leases
    BY <2>1
  <2>3. /\ given' = given \cup {id[l] : l \in Derived(req)}
        /\ active' = active \cup {id[l] : l \in Derived(req)}
    BY Zenon DEF DeriveInsert, Derived
  <2>. QED BY <2>2, <2>3
<1>3. child' = None /\ snap' = NoSnapshot /\ UNCHANGED <<now, batch, holds, refresh, spent, paused>>
  BY DEF DeriveInsert
<1>. QED BY <1>1, <1>2, <1>3 DEF TypeOK

LEMMA ChildLeaseType ==
    ASSUME NEW r \in Lease, NEW c \in Threads, NEW req \in SUBSET Names
    PROVE  ChildLease(r, c, req) \in Lease
BY DEF ChildLease, Lease

LEMMA DynamicTypes ==
    ASSUME TypeOK, Dynamic PROVE TypeOK'
<1>1. ASSUME NEW t \in Threads, RefreshRead(t) PROVE TypeOK'
  <2>1. CASE refresh' = [refresh EXCEPT ![t] = [on |-> TRUE, lease |-> None, grants |-> {}]]
    BY <1>1, <2>1 DEF RefreshRead, TypeOK, Refresh
  <2>2. ASSUME NEW l \in ActiveForThread(t),
               refresh' = [refresh EXCEPT ![t] =
                              [on |-> TRUE, lease |-> l, grants |-> lease[l].grants]]
        PROVE  TypeOK'
    <3>1. l \in Leases /\ lease[l].grants \in SUBSET Names
      BY <2>2 DEF ActiveForThread, TypeOK, Lease
    <3>. QED BY <1>1, <2>2, <3>1 DEF RefreshRead, TypeOK, Refresh
  <2>. QED BY <1>1, <2>1, <2>2 DEF RefreshRead
<1>2. ASSUME NEW t \in Threads, NEW desired \in SUBSET Plan[t], RefreshUpdate(t, desired)
      PROVE  TypeOK'
  <2>1. refresh[t].grants \cup desired \in SUBSET Names
    BY PlanAssumption DEF TypeOK, Refresh
  <2>2. lease' \in [Leases -> Lease]
    <3>1. lease \in [Leases -> Lease]
      BY DEF TypeOK
    <3>. QED BY <1>2, <2>1, <3>1 DEF RefreshUpdate, Lease
  <2>. QED BY <1>2, <2>2, BlankTypes DEF RefreshUpdate, TypeOK
<1>3. ASSUME NEW t \in Threads, NEW desired \in SUBSET Plan[t], NEW l \in Leases,
             RefreshGrant(t, desired, l)
      PROVE  TypeOK'
  <2>1. [thread |-> t, grants |-> desired, until |-> Never,
         limited |-> FALSE, max |-> 0, left |-> 0, revoked |-> FALSE] \in Lease
    BY PlanAssumption, BoundAssumption DEF Lease, Never
  <2>2. /\ given' \subseteq Leases /\ active' \subseteq given' /\ given \subseteq given'
        /\ lease' \in [Leases -> Lease]
    BY <1>3, <2>1, NewLeaseType DEF RefreshGrant
  <2>. QED BY <1>3, <2>2, BlankTypes DEF RefreshGrant, TypeOK
<1>4. ASSUME NEW p \in Callers, NEW c \in Threads \ Callers, DeriveRead(p, c) PROVE TypeOK'
  <2>1. ActiveForThread(p) \subseteq given /\ given \subseteq Leases
    BY DEF ActiveForThread, TypeOK
  <2>2. /\ DOMAIN snap' = ActiveForThread(p)
        /\ snap' = [l \in ActiveForThread(p) |-> lease[l]]
    BY <1>4 DEF DeriveRead
  <2>3. snap' \in [ActiveForThread(p) -> Lease]
    BY <2>1, <2>2 DEF TypeOK
  <2>. QED BY <1>4, <2>1, <2>2, <2>3 DEF DeriveRead, TypeOK
<1>5. ASSUME NEW req \in SUBSET Names, NEW id \in [DOMAIN snap -> Leases], DeriveInsert(req, id)
      PROVE  TypeOK'
  <2>1. child \in Threads
    BY <1>5 DEF DeriveInsert, TypeOK
  <2>2. ASSUME NEW n \in Leases
        PROVE  lease'[n] \in Lease /\ parent'[n] \in given' \cup {None}
    <3>1. CASE lease'[n] = lease[n] /\ parent'[n] = parent[n]
      BY <1>5, <3>1, DeriveDomain DEF TypeOK
    <3>2. ASSUME NEW l \in Derived(req), lease'[n] = ChildLease(snap[l], child, req),
                 parent'[n] = l
          PROVE  lease'[n] \in Lease /\ parent'[n] \in given' \cup {None}
      <4>1. snap[l] \in Lease /\ l \in given
        BY DEF Derived, TypeOK
      <4>. QED BY <1>5, <2>1, <3>2, <4>1, ChildLeaseType, DeriveDomain
    <3>. QED BY <1>5, <3>1, <3>2, DeriveFacts
  <2>3. lease' \in [Leases -> Lease] /\ parent' \in [Leases -> given' \cup {None}]
    BY <1>5, <2>2, DeriveDomain
  <2>4. DOMAIN snap' = {} /\ snap' \in [{} -> Lease]
    BY <1>5, DeriveDomain DEF NoSnapshot
  <2>5. holds' \in [Slots -> given' \cup {None}]
    BY <1>5, DeriveDomain DEF TypeOK
  <2>. QED BY <1>5, <2>3, <2>4, <2>5, DeriveDomain DEF TypeOK
<1>. QED BY <1>1, <1>2, <1>3, <1>4, <1>5 DEF Dynamic

LEMMA TypeStep == LeaseInv /\ [Next]_vars => TypeOK'
<1>1. TypeOK /\ UNCHANGED vars => TypeOK'
  BY DEF TypeOK, vars
<1>. QED BY <1>1, ManagerTypes, ExecutorTypes, DynamicTypes, BridgeFacts DEF LeaseInv, Next

-----------------------------------------------------------------------------
(* Slots.                                                                  *)

\* A batch that goes on to its next call, with at most the slot of this one
\* filled.
LEMMA AdvanceKeeps ==
    ASSUME TypeOK, SlotsBehind, OneCall, NEW b \in Tasks,
           batch[b].pc \in {"find", "policy"}, batch' = Advanced(b),
           \A s \in Slots : holds'[s] # None => holds[s] # None \/ s = <<b, batch[b].at>>
    PROVE  SlotsBehind' /\ OneCall'
<1>1. \A c \in Tasks \ {b} : batch'[c] = batch[c]
  BY DEF Advanced, TypeOK
<1>2. /\ batch'[b].pc \in {"find", "run"}
      /\ batch'[b].pc = "find" => /\ batch[b].at < batch[b].len
                                  /\ batch'[b].at = batch[b].at + 1
      /\ batch'[b].pc # "find" => batch'[b].at = batch[b].at
      /\ batch'[b].len = batch[b].len
  <2>1. batch[b] \in Batch
    BY DEF TypeOK
  <2>. QED BY <2>1 DEF Advanced, TypeOK, Batch
<1>3. batch[b].at \in Nat
  BY BatchAssumption DEF TypeOK, Batch
<1>4. SlotsBehind'
  <2>1. SUFFICES ASSUME NEW s \in Slots, holds'[s] # None
                 PROVE  /\ batch'[s[1]].pc # "idle"
                        /\ batch'[s[1]].pc \in {"find", "policy"} => s[2] < batch'[s[1]].at
    BY DEF SlotsBehind
  <2>2. s[1] \in Tasks /\ s[2] \in Nat
    BY SlotParts
  <2>3. CASE s[1] # b
    BY <1>1, <2>1, <2>2, <2>3 DEF SlotsBehind
  <2>4. CASE s[1] = b
    <3>1. s[2] <= batch[b].at
      <4>1. CASE holds[s] # None
        BY <1>3, <2>2, <2>4, <4>1 DEF SlotsBehind
      <4>2. CASE s = <<b, batch[b].at>>
        BY <1>3, <4>2
      <4>. QED BY <2>1, <4>1, <4>2
    <3>. QED BY <1>2, <1>3, <2>2, <2>4, <3>1
  <2>. QED BY <2>3, <2>4
<1>5. OneCall'
  <2>1. ASSUME NEW c \in Tasks
        PROVE  c \in Scripts => batch'[c].at = 1 /\ batch'[c].len = 1
    <3>1. CASE c # b
      BY <1>1, <3>1 DEF OneCall
    <3>2. CASE c = b
      BY <1>2, <3>2 DEF OneCall
    <3>. QED BY <3>1, <3>2
  <2>. QED BY <2>1 DEF OneCall, Tasks
<1>. QED BY <1>4, <1>5

\* A batch that is over and holds nothing.
LEMMA IdleKeeps ==
    ASSUME TypeOK, SlotsBehind, OneCall, NEW b \in Tasks,
           batch' = [batch EXCEPT ![b] = IdleBatch],
           \A s \in Slots : holds'[s] # None => holds[s] # None /\ s[1] # b
    PROVE  SlotsBehind' /\ OneCall'
<1>1. /\ \A c \in Tasks \ {b} : batch'[c] = batch[c]
      /\ batch'[b] = IdleBatch
  BY DEF TypeOK
<1>2. SlotsBehind'
  BY <1>1, SlotParts DEF SlotsBehind
<1>3. OneCall'
  <2>1. IdleBatch.at = 1 /\ IdleBatch.len = 1
    BY DEF IdleBatch
  <2>. QED BY <1>1, <2>1 DEF OneCall, Tasks
<1>. QED BY <1>2, <1>3

LEMMA SlotsStep == LeaseInv /\ [Next]_vars => SlotsBehind' /\ OneCall'
<1>. SUFFICES ASSUME LeaseInv, [Next]_vars PROVE SlotsBehind' /\ OneCall'
  OBVIOUS
<1>0. TypeOK /\ SlotsBehind /\ OneCall
  BY DEF LeaseInv
<1>1. ASSUME NEW b \in Tasks, NEW t \in Callers, NEW len \in 1..BatchSize, Begin(b, t, len)
      PROVE  SlotsBehind' /\ OneCall'
  <2>1. /\ \A c \in Tasks \ {b} : batch'[c] = batch[c]
        /\ batch'[b].pc = "find" /\ batch'[b].at = 1 /\ batch'[b].len = len
        /\ batch[b].pc = "idle" /\ (b \in Scripts => len = 1)
        /\ UNCHANGED holds
    BY <1>0, <1>1 DEF Begin, TypeOK, IdleBatch
  <2>2. \A s \in Slots : holds[s] # None => s[1] # b
    BY <1>0, <2>1 DEF SlotsBehind
  <2>. QED BY <1>0, <2>1, <2>2, SlotParts DEF SlotsBehind, OneCall, Tasks
<1>2. ASSUME NEW b \in Tasks, NEW n \in Names, NotFound(b, n) PROVE SlotsBehind' /\ OneCall'
  BY <1>0, <1>2, AdvanceKeeps DEF NotFound
<1>3. ASSUME NEW b \in Tasks, NEW n \in Names, NEW l \in Leases, Find(b, n, l)
      PROVE  SlotsBehind' /\ OneCall'
  <2>1. /\ \A c \in Tasks \ {b} : batch'[c] = batch[c]
        /\ batch'[b].pc = "policy" /\ batch[b].pc = "find"
        /\ batch'[b].at = batch[b].at /\ batch'[b].len = batch[b].len
        /\ UNCHANGED holds
    <3>1. batch[b] \in Batch
      BY <1>0 DEF TypeOK
    <3>. QED BY <1>0, <1>3, <3>1 DEF Find, TypeOK, Batch
  <2>. QED BY <1>0, <2>1, SlotParts DEF SlotsBehind, OneCall, Tasks
<1>4. ASSUME NEW b \in Tasks, Deny(b) \/ NothingToConsume(b) PROVE SlotsBehind' /\ OneCall'
  BY <1>0, <1>4, AdvanceKeeps DEF Deny, NothingToConsume
<1>5. ASSUME NEW b \in Tasks, RequireApproval(b) PROVE SlotsBehind' /\ OneCall'
  <2>1. \A s \in Slots : holds'[s] # None => holds[s] # None /\ s[1] # b
    BY <1>5 DEF RequireApproval, Drop
  <2>. QED BY <1>0, <1>5, <2>1, IdleKeeps DEF RequireApproval, Drop
<1>6. ASSUME NEW b \in Tasks, NEW l \in Leases, FindAndConsume(b, l) PROVE SlotsBehind' /\ OneCall'
  <2>1. \A s \in Slots : holds'[s] # None => holds[s] # None \/ s = <<b, batch[b].at>>
    BY <1>0, <1>6 DEF FindAndConsume, TypeOK
  <2>. QED BY <1>0, <1>6, <2>1, AdvanceKeeps DEF FindAndConsume
<1>7. ASSUME NEW b \in Tasks, ConsumeFound(b) PROVE SlotsBehind' /\ OneCall'
  <2>1. \A s \in Slots : holds'[s] # None => holds[s] # None \/ s = <<b, batch[b].at>>
    BY <1>0, <1>7 DEF ConsumeFound, TypeOK
  <2>. QED BY <1>0, <1>7, <2>1, AdvanceKeeps DEF ConsumeFound
<1>8. ASSUME NEW b \in Tasks, End(b) PROVE SlotsBehind' /\ OneCall'
  BY <1>0, <1>8, IdleKeeps DEF End
<1>9. ASSUME NEW s \in Slots, Executed(s) \/ GatePaused(s) PROVE SlotsBehind' /\ OneCall'
  <2>1. UNCHANGED batch /\ \A r \in Slots : holds'[r] # None => holds[r] # None
    BY <1>0, <1>9 DEF Executed, GatePaused, TypeOK
  <2>. QED BY <1>0, <2>1 DEF SlotsBehind, OneCall
<1>10. ASSUME UNCHANGED <<batch, holds>> PROVE SlotsBehind' /\ OneCall'
  BY <1>0, <1>10 DEF SlotsBehind, OneCall
<1>11. Manager \/ Dynamic \/ Bridge \/ UNCHANGED vars => UNCHANGED <<batch, holds>>
  BY <1>0, BridgeFacts DEF Manager, Grant, Revoke, ExpireStale, Tick, Dynamic, RefreshRead, RefreshUpdate,
         RefreshGrant, DeriveRead, DeriveInsert, vars
<1>. QED
  BY <1>1, <1>2, <1>3, <1>4, <1>5, <1>6, <1>7, <1>8, <1>9, <1>10, <1>11 DEF Next, Executor

-----------------------------------------------------------------------------
(* Accounts.                                                               *)

\* No call holds a use of a lease that was never given.
LEMMA FreshHeld ==
    ASSUME TypeOK, NEW l \in Leases \ given
    PROVE  Held(l) = {} /\ \A b : HeldBy(b, l) = {}
<1>1. \A s \in Slots : holds[s] # l
  BY NoneAssumption DEF TypeOK
<1>. QED BY <1>1 DEF Held, HeldBy

LEMMA FreshStep == LeaseInv /\ [Next]_vars => FreshIds'
<1>. SUFFICES ASSUME LeaseInv, [Next]_vars PROVE FreshIds'
  OBVIOUS
<1>0. TypeOK /\ FreshIds
  BY DEF LeaseInv
<1>1. ASSUME given \subseteq given', UNCHANGED <<spent, parent>> PROVE FreshIds'
  BY <1>0, <1>1 DEF FreshIds
<1>2. ASSUME NEW b \in Tasks, RequireApproval(b) PROVE FreshIds'
  <2>1. ASSUME NEW l \in Leases \ given PROVE spent'[l] = 0
    <3>1. Cardinality(HeldBy(b, l)) = 0
      BY <1>0, FreshHeld, FS_EmptySet
    <3>. QED BY <1>0, <1>2, <3>1 DEF RequireApproval, Drop, FreshIds
  <2>. QED BY <1>0, <1>2, <2>1 DEF RequireApproval, Drop, FreshIds
<1>3. ASSUME NEW s \in Slots, Executed(s) \/ GatePaused(s) PROVE FreshIds'
  <2>1. holds[s] \in given
    BY <1>0, <1>3 DEF Executed, GatePaused, TypeOK
  <2>2. \A l \in Leases \ given : spent'[l] = spent[l]
    BY <1>0, <1>3, <2>1 DEF Executed, GatePaused, Spend, TypeOK
  <2>. QED BY <1>0, <1>3, <2>2 DEF Executed, GatePaused, FreshIds
<1>4. ASSUME NEW req \in SUBSET Names, NEW id \in [DOMAIN snap -> Leases], DeriveInsert(req, id)
      PROVE  FreshIds'
  <2>1. ASSUME NEW l \in Leases \ given' PROVE l \notin given /\ parent'[l] = parent[l]
    BY <1>0, <1>4, <2>1, DeriveFacts
  <2>. QED BY <1>0, <1>4, <2>1, DeriveDomain DEF FreshIds
<1>5. Manager \/ UNCHANGED vars => given \subseteq given' /\ UNCHANGED <<spent, parent>>
  BY DEF Manager, Grant, NewLease, Revoke, ExpireStale, Tick, vars
<1>6. CASE Executor
  <2>1. ASSUME NEW b \in Tasks,
               \/ \E t \in Callers, len \in 1..BatchSize : Begin(b, t, len)
               \/ \E n \in Names : NotFound(b, n) \/ \E l \in Leases : Find(b, n, l)
               \/ Deny(b)
               \/ \E l \in Leases : FindAndConsume(b, l)
               \/ NothingToConsume(b) \/ ConsumeFound(b) \/ End(b)
        PROVE  UNCHANGED <<given, spent, parent>>
    BY <2>1 DEF Begin, NotFound, Find, Deny, FindAndConsume, NothingToConsume, ConsumeFound, End
  <2>. QED BY <1>1, <1>2, <1>3, <1>6, <2>1 DEF Executor
<1>7. CASE Dynamic
  <2>1. ASSUME NEW t \in Threads, NEW desired \in SUBSET Plan[t],
               \/ RefreshRead(t) \/ RefreshUpdate(t, desired)
               \/ \E l \in Leases : RefreshGrant(t, desired, l)
        PROVE  given \subseteq given' /\ UNCHANGED <<spent, parent>>
    BY <2>1 DEF RefreshRead, RefreshUpdate, RefreshGrant, NewLease
  <2>2. ASSUME NEW t \in Threads, RefreshRead(t) PROVE UNCHANGED <<given, spent, parent>>
    BY <2>2 DEF RefreshRead
  <2>3. ASSUME NEW p \in Callers, NEW c \in Threads \ Callers, DeriveRead(p, c)
        PROVE  UNCHANGED <<given, spent, parent>>
    BY <2>3 DEF DeriveRead
  <2>. QED BY <1>1, <1>4, <1>7, <2>1, <2>2, <2>3 DEF Dynamic
<1>. QED BY <1>0, <1>1, <1>5, <1>6, <1>7, BridgeFacts DEF Next

\* The accounts of one lease.
Balanced(l) ==
    lease[l].limited => lease[l].left + Cardinality(Held(l)) + spent[l] = lease[l].max

\* What a lease's accounts are made of does not change.
SameAccounts(l) ==
    /\ lease'[l].limited = lease[l].limited
    /\ lease'[l].left = lease[l].left /\ lease'[l].max = lease[l].max
    /\ Held(l)' = Held(l) /\ spent'[l] = spent[l]

LEMMA BalancedConserved == UsesConserved <=> \A l \in Leases : Balanced(l)
BY DEF UsesConserved, Balanced

\* A lease under a new id, with all its uses left.
LEMMA NewBalanced ==
    ASSUME TypeOK, FreshIds, NEW l \in Leases \ given,
           UNCHANGED <<holds, spent>>, lease'[l].left = lease'[l].max, lease'[l].max \in Nat
    PROVE  Balanced(l)'
<1>1. Held(l)' = {}
  BY FreshHeld DEF Held
<1>2. Cardinality(Held(l)') = 0 /\ spent'[l] = 0
  BY <1>1, FS_EmptySet DEF FreshIds
<1>3. lease'[l].left + Cardinality(Held(l)') + spent'[l] = lease'[l].max
  BY <1>2
<1>. QED BY <1>3 DEF Balanced

\* A use that a call takes moves from the lease into the call's empty slot.
LEMMA ConsumeBalanced ==
    ASSUME LeaseInv, NEW b \in Tasks, NEW l \in Leases,
           batch[b].pc = "policy", IsValid(lease[l]), ConsumeUse(l),
           holds' = [holds EXCEPT ![<<b, batch[b].at>>] = l], UNCHANGED spent
    PROVE  UsesConserved'
<1>. DEFINE s == <<b, batch[b].at>>
<1>0. /\ TypeOK /\ \A m \in Leases : Balanced(m)
      /\ s \in Slots /\ holds[s] = None /\ batch[b].at \in Nat
  <2>1. s \in Slots /\ batch[b].at \in Nat
    BY SlotAt, BatchAssumption DEF LeaseInv, TypeOK, Batch
  <2>2. s[1] = b /\ s[2] = batch[b].at
    OBVIOUS
  <2>. HIDE DEF s
  <2>3. holds[s] = None
    BY <2>1, <2>2 DEF LeaseInv, SlotsBehind
  <2>. QED BY <2>1, <2>3, BalancedConserved DEF LeaseInv
<1>. HIDE DEF s
<1>1. holds' = [holds EXCEPT ![s] = l]
  BY DEF s
<1>2. ASSUME NEW m \in Leases, m # l PROVE SameAccounts(m)
  <2>1. Held(m)' = Held(m)
    <3>1. m # None
      BY NoneAssumption
    <3>. QED BY <1>0, <1>1, <1>2, <3>1 DEF Held, TypeOK
  <2>. QED BY <1>0, <1>2, <2>1 DEF SameAccounts, ConsumeUse, TypeOK
<1>3. Balanced(l)'
  <2>1. Held(l)' = Held(l) \cup {s} /\ s \notin Held(l)
    BY <1>0, <1>1, NoneAssumption DEF Held, TypeOK
  <2>2. /\ Cardinality(Held(l)') = Cardinality(Held(l)) + 1
        /\ Cardinality(Held(l)) \in Nat
    BY <2>1, HeldFinite, FS_AddElement
  <2>3. lease[l] \in Lease /\ spent[l] \in Nat
    BY <1>0 DEF TypeOK
  <2>4. /\ lease'[l].limited = lease[l].limited /\ lease'[l].max = lease[l].max
        /\ lease[l].limited => lease'[l].left = lease[l].left - 1
    BY <1>0, <2>3 DEF ConsumeUse, TypeOK, Lease
  <2>5. lease[l].left \in Nat /\ lease[l].max \in Nat
    BY <2>3 DEF Lease
  <2>6. lease[l].limited => lease[l].left + Cardinality(Held(l)) + spent[l] = lease[l].max
    BY <1>0 DEF Balanced
  <2>7. lease'[l].limited => lease'[l].left + Cardinality(Held(l)') + spent'[l] = lease'[l].max
    BY <2>2, <2>3, <2>4, <2>5, <2>6
  <2>. QED BY <2>7 DEF Balanced
<1>. QED BY <1>0, <1>2, <1>3, BalancedConserved DEF SameAccounts, Balanced, UsesConserved

\* A slot that is emptied: its use is either spent or back with the lease,
\* which has room for it because the use was missing there.
LEMMA ReleaseBalanced ==
    ASSUME LeaseInv, NEW s \in Slots, Executed(s) \/ GatePaused(s)
    PROVE  UsesConserved'
<1>l. PICK l \in Leases : l = holds[s]
  BY DEF LeaseInv, TypeOK, Executed, GatePaused
<1>0. /\ TypeOK /\ \A m \in Leases : Balanced(m)
      /\ holds[s] = l /\ holds' = [holds EXCEPT ![s] = None]
  BY <1>l, BalancedConserved DEF LeaseInv, Executed, GatePaused
<1>1. \/ Spend(l) /\ UNCHANGED lease
      \/ RefundUse(l) /\ UNCHANGED spent
  BY <1>l DEF Executed, GatePaused
<1>2. ASSUME NEW m \in Leases, m # l PROVE SameAccounts(m)
  <2>1. m # None
    BY NoneAssumption
  <2>2. Held(m)' = Held(m)
    BY <1>0, <1>2, <2>1 DEF Held, TypeOK
  <2>. QED BY <1>0, <1>1, <1>2, <2>2 DEF SameAccounts, Spend, RefundUse, TypeOK
<1>3. Balanced(l)'
  <2>1. Held(l)' = Held(l) \ {s} /\ s \in Held(l)
    BY <1>0, NoneAssumption DEF Held, TypeOK
  <2>2. /\ Cardinality(Held(l)') = Cardinality(Held(l)) - 1
        /\ Cardinality(Held(l)) \in Nat
    BY <2>1, HeldFinite, FS_RemoveElement
  <2>3. Cardinality(Held(l)') \in Nat
    <3>1. Held(l)' \subseteq Slots
      BY <2>1 DEF Held
    <3>. QED BY <3>1, SlotsFinite, FS_Subset, FS_CardinalityType
  <2>4. lease[l] \in Lease /\ spent[l] \in Nat
    BY <1>0 DEF TypeOK
  <2>5. lease[l].left \in Nat /\ lease[l].max \in Nat
    BY <2>4 DEF Lease
  <2>6. lease[l].limited => lease[l].left + Cardinality(Held(l)) + spent[l] = lease[l].max
    BY <1>0 DEF Balanced
  <2>7. lease[l].limited => lease[l].left < lease[l].max
    BY <2>2, <2>3, <2>4, <2>5, <2>6
  <2>8. /\ lease'[l].limited = lease[l].limited /\ lease'[l].max = lease[l].max
        /\ lease[l].limited =>
              \/ lease'[l].left = lease[l].left /\ spent'[l] = spent[l] + 1
              \/ lease'[l].left = lease[l].left + 1 /\ spent'[l] = spent[l]
    <3>1. CASE Spend(l) /\ UNCHANGED lease
      BY <1>0, <3>1 DEF Spend, TypeOK
    <3>2. CASE RefundUse(l) /\ UNCHANGED spent
      <4>1. lease'[l] = [lease[l] EXCEPT !.left = IF lease[l].limited /\ @ < lease[l].max THEN @ + 1 ELSE @]
        BY <1>0, <3>2 DEF RefundUse, TypeOK
      <4>. QED BY <2>4, <2>7, <3>2, <4>1 DEF Lease
    <3>. QED BY <1>1, <3>1, <3>2
  <2>9. lease'[l].limited => lease'[l].left + Cardinality(Held(l)') + spent'[l] = lease'[l].max
    BY <2>2, <2>3, <2>4, <2>5, <2>6, <2>8
  <2>. QED BY <2>9 DEF Balanced
<1>. QED BY <1>0, <1>2, <1>3, BalancedConserved DEF SameAccounts, Balanced, UsesConserved

\* A batch that is dropped: what its slots held counts as spent.
LEMMA DropBalanced ==
    ASSUME LeaseInv, NEW b \in Tasks, RequireApproval(b)
    PROVE  UsesConserved'
<1>0. TypeOK /\ \A m \in Leases : Balanced(m)
  BY BalancedConserved DEF LeaseInv
<1>1. ASSUME NEW l \in Leases PROVE Balanced(l)'
  <2>1. UNCHANGED lease /\ (lease[l].limited => spent'[l] = spent[l] + Cardinality(HeldBy(b, l)))
    BY <1>0 DEF RequireApproval, Drop, TypeOK
  <2>2. Held(l)' = Held(l) \ HeldBy(b, l)
    BY NoneAssumption DEF RequireApproval, Drop, Held, HeldBy
  <2>3. HeldBy(b, l) \subseteq Held(l)
    BY DEF Held, HeldBy
  <2>4. Cardinality(Held(l)') = Cardinality(Held(l)) - Cardinality(HeldBy(b, l))
    <3>1. Cardinality(Held(l)') = Cardinality(Held(l)) - Cardinality(Held(l) \cap HeldBy(b, l))
      BY <2>2, HeldFinite, FS_Difference
    <3>2. Held(l) \cap HeldBy(b, l) = HeldBy(b, l)
      BY <2>3
    <3>. QED BY <3>1, <3>2
  <2>5. Cardinality(Held(l)) \in Nat /\ Cardinality(HeldBy(b, l)) \in Nat
    BY HeldFinite, HeldByFinite
  <2>6. spent[l] \in Nat /\ lease[l].left \in Nat /\ lease[l].max \in Nat
    BY <1>0 DEF TypeOK, Lease
  <2>7. lease[l].limited => lease[l].left + Cardinality(Held(l)) + spent[l] = lease[l].max
    BY <1>0 DEF Balanced
  <2>8. lease'[l].limited => lease'[l].left + Cardinality(Held(l)') + spent'[l] = lease'[l].max
    BY <2>1, <2>4, <2>5, <2>6, <2>7
  <2>. QED BY <2>8 DEF Balanced
<1>. QED BY <1>1, BalancedConserved DEF Balanced, UsesConserved

LEMMA ConservedStep == LeaseInv /\ [Next]_vars => UsesConserved'
<1>. SUFFICES ASSUME LeaseInv, [Next]_vars PROVE UsesConserved'
  OBVIOUS
<1>0. TypeOK /\ FreshIds /\ UsesConserved /\ \A l \in Leases : Balanced(l)
  BY BalancedConserved DEF LeaseInv
<1>1. ASSUME \A l \in Leases : SameAccounts(l) PROVE UsesConserved'
  BY <1>0, <1>1 DEF UsesConserved, SameAccounts
<1>2. ASSUME UNCHANGED <<lease, holds, spent>> PROVE UsesConserved'
  BY <1>0, <1>2 DEF UsesConserved, Held
<1>3. ASSUME NEW n \in Leases, NEW r \in Lease, NewLease(n, r), r.left = r.max,
             UNCHANGED <<holds, spent>>
      PROVE  UsesConserved'
  <2>1. Balanced(n)'
    BY <1>0, <1>3, NewBalanced DEF NewLease, TypeOK, Lease
  <2>2. ASSUME NEW l \in Leases, l # n PROVE Balanced(l)'
    BY <1>0, <1>3, <2>2 DEF NewLease, Balanced, Held, TypeOK
  <2>. QED BY <2>1, <2>2, BalancedConserved DEF UsesConserved, Balanced
<1>4. CASE Manager
  <2>1. ASSUME NEW l \in Leases, NEW t \in Threads, NEW grants \in GrantSets,
               NEW until \in Deadlines, NEW uses \in UseLimits,
               Grant(l, t, grants, until, uses)
        PROVE  UsesConserved'
    <3>1. [thread |-> t, grants |-> grants, until |-> until, limited |-> uses > 0,
           max |-> uses, left |-> uses, revoked |-> FALSE] \in Lease
      BY GrantAssumption, BoundAssumption DEF Lease, Never
    <3>. QED BY <1>3, <2>1, <3>1 DEF Grant
  <2>2. ASSUME NEW l \in Leases, Revoke(l) PROVE UsesConserved'
    <3>1. \A m \in Leases : SameAccounts(m)
      BY <1>0, <2>2 DEF Revoke, SameAccounts, TypeOK, Lease, Held
    <3>. QED BY <1>1, <3>1
  <2>3. ExpireStale \/ Tick => UNCHANGED <<lease, holds, spent>>
    BY DEF ExpireStale, Tick
  <2>. QED BY <1>2, <1>4, <2>1, <2>2, <2>3 DEF Manager
<1>5. CASE Executor
  <2>1. ASSUME NEW b \in Tasks,
               \/ \E t \in Callers, len \in 1..BatchSize : Begin(b, t, len)
               \/ \E n \in Names : NotFound(b, n) \/ \E l \in Leases : Find(b, n, l)
               \/ Deny(b) \/ NothingToConsume(b) \/ End(b)
        PROVE  UNCHANGED <<lease, holds, spent>>
    BY <2>1 DEF Begin, NotFound, Find, Deny, NothingToConsume, End
  <2>2. ASSUME NEW b \in Tasks, NEW l \in Leases, FindAndConsume(b, l) PROVE UsesConserved'
    <3>1. IsValid(lease[l])
      BY <2>2 DEF FindAndConsume, Consumable, ActiveForThread
    <3>. QED BY <2>2, <3>1, ConsumeBalanced DEF FindAndConsume
  <2>3. ASSUME NEW b \in Tasks, ConsumeFound(b) PROVE UsesConserved'
    <3>1. CASE batch[b].found \in active /\ IsValid(lease[batch[b].found])
      <4>1. batch[b].found \in Leases
        BY <1>0, <3>1 DEF TypeOK
      <4>. QED BY <2>3, <3>1, <4>1, ConsumeBalanced DEF ConsumeFound
    <3>2. CASE ~(batch[b].found \in active /\ IsValid(lease[batch[b].found]))
      BY <1>2, <2>3, <3>2 DEF ConsumeFound
    <3>. QED BY <3>1, <3>2
  <2>. QED BY <1>2, <1>5, <2>1, <2>2, <2>3, DropBalanced, ReleaseBalanced DEF Executor
<1>6. CASE Dynamic
  <2>1. ASSUME NEW t \in Threads, RefreshRead(t) PROVE UNCHANGED <<lease, holds, spent>>
    BY <2>1 DEF RefreshRead
  <2>2. ASSUME NEW t \in Threads, NEW desired \in SUBSET Plan[t], RefreshUpdate(t, desired)
        PROVE  UsesConserved'
    <3>1. \A m \in Leases : SameAccounts(m)
      BY <1>0, <2>2 DEF RefreshUpdate, SameAccounts, TypeOK, Lease, Held
    <3>. QED BY <1>1, <3>1
  <2>3. ASSUME NEW t \in Threads, NEW desired \in SUBSET Plan[t], NEW l \in Leases,
               RefreshGrant(t, desired, l)
        PROVE  UsesConserved'
    <3>1. [thread |-> t, grants |-> desired, until |-> Never,
           limited |-> FALSE, max |-> 0, left |-> 0, revoked |-> FALSE] \in Lease
      BY PlanAssumption, BoundAssumption DEF Lease, Never
    <3>. QED BY <1>3, <2>3, <3>1 DEF RefreshGrant
  <2>4. ASSUME NEW p \in Callers, NEW c \in Threads \ Callers, DeriveRead(p, c)
        PROVE  UNCHANGED <<lease, holds, spent>>
    BY <2>4 DEF DeriveRead
  <2>5. ASSUME NEW req \in SUBSET Names, NEW id \in [DOMAIN snap -> Leases], DeriveInsert(req, id)
        PROVE  UsesConserved'
    <3>1. UNCHANGED <<holds, spent>>
      BY <1>0, <2>5, DeriveDomain
    <3>2. ASSUME NEW n \in Leases PROVE Balanced(n)'
      <4>1. CASE lease'[n] = lease[n]
        BY <1>0, <3>1, <4>1 DEF Balanced, Held
      <4>2. ASSUME n \notin given, NEW l \in Derived(req),
                   lease'[n] = ChildLease(snap[l], child, req)
            PROVE  Balanced(n)'
        <5>1. snap[l] \in Lease
          BY <1>0 DEF Derived, TypeOK
        <5>2. lease'[n].left = lease'[n].max /\ lease'[n].max \in Nat
          BY <4>2, <5>1 DEF ChildLease, Lease
        <5>. QED BY <1>0, <3>1, <4>2, <5>2, NewBalanced
      <4>. QED BY <1>0, <2>5, <4>1, <4>2, DeriveFacts
    <3>. QED BY <3>2, BalancedConserved DEF UsesConserved, Balanced
  <2>. QED BY <1>2, <1>6, <2>1, <2>2, <2>3, <2>4, <2>5 DEF Dynamic
<1>7. UNCHANGED vars => UNCHANGED <<lease, holds, spent>>
  BY DEF vars
<1>. QED BY <1>0, <1>2, <1>4, <1>5, <1>6, <1>7, BridgeFacts DEF Next

-----------------------------------------------------------------------------
(* What a lease allows.                                                    *)

\* A lease keeps its thread, its deadline and its budget.
SameTerms(l) ==
    /\ lease'[l].thread = lease[l].thread /\ lease'[l].until = lease[l].until
    /\ lease'[l].limited = lease[l].limited /\ lease'[l].max = lease[l].max

\* A thread's refresh is the only step that changes the grants of a lease, it
\* is a lease of that thread, and the refresh adds actions of its plan.
GrantsStep(l) ==
    \/ lease'[l].grants = lease[l].grants
    \/ \E t \in Threads : \E desired \in SUBSET Plan[t] :
          /\ RefreshUpdate(t, desired) /\ refresh[t].lease = l
          /\ lease[l].thread = t
          /\ lease'[l].grants = lease[l].grants \cup desired

LEMMA GivenKeeps ==
    LeaseInv /\ [Next]_vars =>
        given \subseteq given' /\ \A l \in given : SameTerms(l) /\ GrantsStep(l)
<1>. SUFFICES ASSUME LeaseInv, [Next]_vars
              PROVE  given \subseteq given' /\ \A l \in given : SameTerms(l) /\ GrantsStep(l)
  OBVIOUS
<1>. DEFINE G == given \subseteq given' /\ \A l \in given : SameTerms(l) /\ GrantsStep(l)
<1>0. TypeOK /\ RefreshExact
  BY DEF LeaseInv
<1>1. ASSUME UNCHANGED <<given, lease>> PROVE G
  BY <1>1 DEF SameTerms, GrantsStep
<1>2. ASSUME NEW n, NEW r, NewLease(n, r) PROVE G
  BY <1>0, <1>2 DEF NewLease, SameTerms, GrantsStep, TypeOK
<1>3. ASSUME NEW n \in Leases, ConsumeUse(n), UNCHANGED given PROVE G
  <2>1. ASSUME NEW l \in given
        PROVE  SameTerms(l) /\ lease'[l].grants = lease[l].grants
    BY <1>0, <1>3 DEF ConsumeUse, SameTerms, TypeOK, Lease
  <2>. QED BY <1>3, <2>1 DEF GrantsStep
<1>4. CASE Manager
  <2>1. ASSUME NEW n \in Leases, Revoke(n) PROVE G
    <3>1. ASSUME NEW l \in given
          PROVE  SameTerms(l) /\ lease'[l].grants = lease[l].grants
      BY <1>0, <2>1 DEF Revoke, SameTerms, TypeOK, Lease
    <3>. QED BY <2>1, <3>1 DEF GrantsStep, Revoke
  <2>2. ExpireStale \/ Tick => UNCHANGED <<given, lease>>
    BY DEF ExpireStale, Tick
  <2>. QED BY <1>1, <1>2, <1>4, <2>1, <2>2 DEF Manager, Grant
<1>5. CASE Executor
  <2>1. ASSUME NEW b \in Tasks,
               \/ \E t \in Callers, len \in 1..BatchSize : Begin(b, t, len)
               \/ \E n \in Names : NotFound(b, n) \/ \E l \in Leases : Find(b, n, l)
               \/ Deny(b) \/ RequireApproval(b) \/ NothingToConsume(b) \/ End(b)
        PROVE  UNCHANGED <<given, lease>>
    BY <2>1 DEF Begin, NotFound, Find, Deny, RequireApproval, NothingToConsume, End
  <2>2. ASSUME NEW b \in Tasks, NEW l \in Leases, FindAndConsume(b, l) PROVE G
    BY <1>3, <2>2 DEF FindAndConsume
  <2>3. ASSUME NEW b \in Tasks, ConsumeFound(b) PROVE G
    BY <1>0, <1>1, <1>3, <2>3 DEF ConsumeFound, TypeOK
  <2>4. ASSUME NEW s \in Slots, Executed(s) PROVE UNCHANGED <<given, lease>>
    BY <2>4 DEF Executed
  <2>5. ASSUME NEW s \in Slots, GatePaused(s) PROVE G
    <3>1. ASSUME NEW l \in given
          PROVE  SameTerms(l) /\ lease'[l].grants = lease[l].grants
      BY <1>0, <2>5 DEF GatePaused, RefundUse, SameTerms, TypeOK, Lease
    <3>. QED BY <2>5, <3>1 DEF GrantsStep, GatePaused
  <2>. QED BY <1>1, <1>5, <2>1, <2>2, <2>3, <2>4, <2>5 DEF Executor
<1>6. CASE Dynamic
  <2>1. ASSUME NEW t \in Threads, RefreshRead(t) PROVE UNCHANGED <<given, lease>>
    BY <2>1 DEF RefreshRead
  <2>2. ASSUME NEW t \in Threads, NEW desired \in SUBSET Plan[t], RefreshUpdate(t, desired)
        PROVE  G
    <3>1. ASSUME NEW l \in given PROVE SameTerms(l) /\ GrantsStep(l)
      <4>1. SameTerms(l)
        BY <1>0, <2>2 DEF RefreshUpdate, SameTerms, TypeOK, Lease
      <4>2. CASE lease'[l].grants = lease[l].grants
        BY <4>1, <4>2 DEF GrantsStep
      <4>3. CASE lease'[l].grants # lease[l].grants
        <5>1. refresh[t].lease = l /\ refresh[t].on /\ refresh[t].lease # None
          BY <1>0, <2>2, <4>3 DEF RefreshUpdate, TypeOK
        <5>2. lease[l].thread = t /\ lease[l].grants = refresh[t].grants
          BY <1>0, <5>1 DEF RefreshExact
        <5>3. lease'[l].grants = refresh[t].grants \cup desired
          BY <1>0, <2>2, <4>3, <5>1 DEF RefreshUpdate, TypeOK, Lease
        <5>. QED BY <4>1, <2>2, <5>1, <5>2, <5>3 DEF GrantsStep
      <4>. QED BY <4>1, <4>2, <4>3
    <3>. QED BY <2>2, <3>1 DEF RefreshUpdate
  <2>3. ASSUME NEW p \in Callers, NEW c \in Threads \ Callers, DeriveRead(p, c)
        PROVE  UNCHANGED <<given, lease>>
    BY <2>3 DEF DeriveRead
  <2>4. ASSUME NEW req \in SUBSET Names, NEW id \in [DOMAIN snap -> Leases], DeriveInsert(req, id)
        PROVE  G
    <3>1. ASSUME NEW l \in given PROVE l \in given' /\ lease'[l] = lease[l]
      BY <1>0, <2>4, DeriveFacts, DeriveDomain DEF TypeOK
    <3>. QED BY <3>1 DEF SameTerms, GrantsStep
  <2>. QED BY <1>1, <1>2, <1>6, <2>1, <2>2, <2>3, <2>4 DEF Dynamic, RefreshGrant
<1>. QED BY <1>0, <1>1, <1>4, <1>5, <1>6, BridgeFacts DEF Next, vars

LEMMA ExactStep == LeaseInv /\ [Next]_vars => RefreshExact'
<1>. SUFFICES ASSUME LeaseInv, [Next]_vars,
                     NEW u \in Threads, refresh'[u].on, refresh'[u].lease # None
              PROVE  /\ refresh'[u].lease \in given'
                     /\ lease'[refresh'[u].lease].thread = u
                     /\ lease'[refresh'[u].lease].grants = refresh'[u].grants
  BY DEF RefreshExact
<1>0. TypeOK /\ RefreshExact
  BY DEF LeaseInv
<1>1. CASE refresh'[u] = refresh[u]
  <2>. DEFINE l == refresh[u].lease
  <2>1. /\ l \in given /\ lease[l].thread = u /\ lease[l].grants = refresh[u].grants
        /\ refresh[u].on /\ l # None
    BY <1>0, <1>1 DEF RefreshExact
  <2>2. l \in given' /\ SameTerms(l) /\ GrantsStep(l)
    BY <2>1, GivenKeeps
  <2>3. lease'[l].grants = lease[l].grants
    <3>1. ASSUME NEW t \in Threads, NEW desired \in SUBSET Plan[t], RefreshUpdate(t, desired),
                 lease[l].thread = t
          PROVE  FALSE
      <4>1. t = u
        BY <2>1, <3>1
      <4>2. refresh'[u] = IdleRefresh
        BY <1>0, <3>1, <4>1 DEF RefreshUpdate, TypeOK
      <4>. QED BY <4>2 DEF IdleRefresh
    <3>. HIDE DEF l
    <3>. QED BY <2>2, <3>1 DEF GrantsStep
  <2>. QED BY <1>1, <2>1, <2>2, <2>3 DEF SameTerms
<1>2. CASE refresh'[u] # refresh[u]
  <2>1. ASSUME UNCHANGED refresh PROVE FALSE
    BY <1>2, <2>1
  <2>2. Manager \/ UNCHANGED vars => UNCHANGED refresh
    BY DEF Manager, Grant, Revoke, ExpireStale, Tick, vars
  <2>3. Executor => UNCHANGED refresh
    BY DEF Executor, Begin, NotFound, Find, Deny, RequireApproval, FindAndConsume,
           NothingToConsume, ConsumeFound, End, Executed, GatePaused
  <2>4. ASSUME NEW p \in Callers, NEW c \in Threads \ Callers, DeriveRead(p, c)
        PROVE  UNCHANGED refresh
    BY <2>4 DEF DeriveRead
  <2>5. ASSUME NEW req \in SUBSET Names, NEW id \in [DOMAIN snap -> Leases], DeriveInsert(req, id)
        PROVE  UNCHANGED refresh
    BY <2>5 DEF DeriveInsert
  <2>6. ASSUME NEW t \in Threads, NEW desired \in SUBSET Plan[t],
               RefreshUpdate(t, desired) \/ \E l \in Leases : RefreshGrant(t, desired, l)
        PROVE  FALSE
    <3>1. t = u /\ refresh'[u] = IdleRefresh
      BY <1>0, <1>2, <2>6 DEF RefreshUpdate, RefreshGrant, TypeOK
    <3>. QED BY <3>1 DEF IdleRefresh
  <2>7. PICK t \in Threads : RefreshRead(t)
    BY <1>0, <2>1, <2>2, <2>3, <2>4, <2>5, <2>6, BridgeFacts DEF Next, Dynamic
  <2>8. PICK l \in ActiveForThread(t) :
             refresh' = [refresh EXCEPT ![t] =
                            [on |-> TRUE, lease |-> l, grants |-> lease[l].grants]]
    <3>1. CASE refresh' = [refresh EXCEPT ![t] = [on |-> TRUE, lease |-> None, grants |-> {}]]
      BY <1>0, <1>2, <3>1 DEF TypeOK
    <3>. QED BY <2>7, <3>1 DEF RefreshRead
  <2>9. t = u /\ refresh'[u] = [on |-> TRUE, lease |-> l, grants |-> lease[l].grants]
    BY <1>0, <1>2, <2>8 DEF TypeOK
  <2>10. l \in given /\ lease[l].thread = t /\ UNCHANGED <<given, lease>>
    BY <1>0, <2>7, <2>8 DEF RefreshRead, ActiveForThread, TypeOK
  <2>. QED BY <2>9, <2>10
<1>. QED BY <1>1, <1>2

LEMMA SnapStep == LeaseInv /\ [Next]_vars => SnapWithin'
<1>. SUFFICES ASSUME LeaseInv, [Next]_vars PROVE SnapWithin'
  OBVIOUS
<1>0. TypeOK /\ SnapWithin
  BY DEF LeaseInv
<1>1. ASSUME UNCHANGED <<child, snap>> PROVE SnapWithin'
  <2>1. ASSUME NEW l \in DOMAIN snap
        PROVE  SameTerms(l) /\ lease[l].grants \subseteq lease'[l].grants
    BY <1>0, GivenKeeps DEF TypeOK, GrantsStep
  <2>. QED BY <1>0, <1>1, <2>1 DEF SnapWithin, SameTerms
<1>2. ASSUME NEW p \in Callers, NEW c \in Threads \ Callers, DeriveRead(p, c) PROVE SnapWithin'
  <2>1. child' # None
    BY <1>2, NoneAssumption DEF DeriveRead
  <2>2. /\ snap' = [l \in ActiveForThread(p) |-> lease[l]]
        /\ UNCHANGED lease
    BY <1>2 DEF DeriveRead
  <2>3. ASSUME NEW l \in ActiveForThread(p), lease[l].limited PROVE lease[l].left <= lease[l].max
    <3>1. l \in Leases
      BY <1>0 DEF ActiveForThread, TypeOK
    <3>2. lease[l].left + Cardinality(Held(l)) + spent[l] = lease[l].max
      BY <2>3, <3>1 DEF LeaseInv, UsesConserved
    <3>3. lease[l].left \in Nat /\ spent[l] \in Nat /\ Cardinality(Held(l)) \in Nat
      BY <1>0, <3>1, HeldFinite DEF TypeOK, Lease
    <3>. QED BY <3>2, <3>3
  <2>. QED BY <2>1, <2>2, <2>3 DEF SnapWithin
<1>3. ASSUME NEW req \in SUBSET Names, NEW id \in [DOMAIN snap -> Leases], DeriveInsert(req, id)
      PROVE  SnapWithin'
  BY <1>0, <1>3, DeriveDomain DEF SnapWithin, NoSnapshot
<1>4. Manager \/ UNCHANGED vars => UNCHANGED <<child, snap>>
  BY DEF Manager, Grant, Revoke, ExpireStale, Tick, vars
<1>5. Executor => UNCHANGED <<child, snap>>
  BY DEF Executor, Begin, NotFound, Find, Deny, RequireApproval, FindAndConsume,
         NothingToConsume, ConsumeFound, End, Executed, GatePaused
<1>6. ASSUME NEW t \in Threads,
             \/ RefreshRead(t)
             \/ \E desired \in SUBSET Plan[t] :
                   RefreshUpdate(t, desired) \/ \E l \in Leases : RefreshGrant(t, desired, l)
      PROVE  UNCHANGED <<child, snap>>
  BY <1>6 DEF RefreshRead, RefreshUpdate, RefreshGrant
<1>. QED BY <1>0, <1>1, <1>2, <1>3, <1>4, <1>5, <1>6, BridgeFacts DEF Next, Dynamic

LEMMA ChildStep == LeaseInv /\ [Next]_vars => ChildWithinParent'
<1>. SUFFICES ASSUME LeaseInv, [Next]_vars, NEW l \in given', parent'[l] # None
              PROVE  /\ lease'[l].until <= lease'[parent'[l]].until
                     /\ lease'[parent'[l]].limited =>
                           lease'[l].limited /\ lease'[l].max <= lease'[parent'[l]].max
                     /\ lease'[l].grants \subseteq lease'[parent'[l]].grants \cup Plan[lease'[l].thread]
  BY DEF ChildWithinParent
<1>0. TypeOK /\ TypeOK' /\ FreshIds /\ SnapWithin /\ ChildWithinParent
  BY TypeStep DEF LeaseInv
<1>1. CASE parent'[l] = parent[l]
  <2>. DEFINE p == parent[l]
  <2>1. l \in given /\ p \in given /\ l \in Leases
    BY <1>0, <1>1 DEF FreshIds, TypeOK
  <2>2. /\ lease[l].until <= lease[p].until
        /\ lease[p].limited => lease[l].limited /\ lease[l].max <= lease[p].max
        /\ lease[l].grants \subseteq lease[p].grants \cup Plan[lease[l].thread]
    BY <1>0, <1>1, <2>1 DEF ChildWithinParent
  <2>. HIDE DEF p
  <2>3. SameTerms(l) /\ SameTerms(p)
    BY <2>1, GivenKeeps
  <2>4. lease[p].grants \subseteq lease'[p].grants
    BY <2>1, GivenKeeps DEF GrantsStep
  <2>5. lease'[l].grants \subseteq lease[l].grants \cup Plan[lease[l].thread]
    BY <2>1, GivenKeeps DEF GrantsStep
  <2>6. /\ lease'[l].until <= lease'[p].until
        /\ lease'[p].limited => lease'[l].limited /\ lease'[l].max <= lease'[p].max
        /\ lease'[l].grants \subseteq lease'[p].grants \cup Plan[lease'[l].thread]
    BY <2>2, <2>3, <2>4, <2>5 DEF SameTerms
  <2>. QED BY <1>1, <2>6 DEF p
<1>2. CASE parent'[l] # parent[l]
  <2>1. Manager \/ Executor \/ UNCHANGED vars => UNCHANGED parent
    BY DEF Manager, Grant, Revoke, ExpireStale, Tick, vars, Executor, Begin, NotFound, Find,
           Deny, RequireApproval, FindAndConsume, NothingToConsume, ConsumeFound, End,
           Executed, GatePaused
  <2>2. ASSUME NEW t \in Threads,
               \/ RefreshRead(t)
               \/ \E desired \in SUBSET Plan[t] :
                     RefreshUpdate(t, desired) \/ \E n \in Leases : RefreshGrant(t, desired, n)
        PROVE  UNCHANGED parent
    BY <2>2 DEF RefreshRead, RefreshUpdate, RefreshGrant
  <2>3. ASSUME NEW p \in Callers, NEW c \in Threads \ Callers, DeriveRead(p, c)
        PROVE  UNCHANGED parent
    BY <2>3 DEF DeriveRead
  <2>4. PICK req \in SUBSET Names, id \in [DOMAIN snap -> Leases] : DeriveInsert(req, id)
    BY <1>0, <1>2, <2>1, <2>2, <2>3, BridgeFacts DEF Next, Dynamic
  <2>5. l \in Leases
    BY <1>0 DEF TypeOK
  <2>6. PICK m \in Derived(req) :
             lease'[l] = ChildLease(snap[m], child, req) /\ parent'[l] = m
    BY <1>0, <1>2, <2>4, <2>5, DeriveFacts
  <2>7. m \in given /\ m \in DOMAIN snap /\ m \in Leases /\ snap[m] \in Lease
    BY <1>0 DEF Derived, TypeOK
  <2>8. lease'[m] = lease[m]
    BY <1>0, <2>4, <2>7, DeriveFacts
  <2>9. /\ lease'[l].until = snap[m].until /\ lease'[l].limited = snap[m].limited
        /\ lease'[l].max = snap[m].left /\ lease'[l].grants \subseteq snap[m].grants
    BY <2>6, <2>7 DEF ChildLease, Lease
  <2>10. /\ snap[m].until = lease[m].until /\ snap[m].limited = lease[m].limited
         /\ lease[m].limited => snap[m].left <= lease[m].max
         /\ snap[m].grants \subseteq lease[m].grants
    BY <1>0, <2>7 DEF SnapWithin
  <2>11. lease[m].until \in Int
    BY <1>0, <2>7, BoundAssumption DEF TypeOK, Lease, Never
  <2>. QED BY <2>6, <2>8, <2>9, <2>10, <2>11
<1>. QED BY <1>1, <1>2

-----------------------------------------------------------------------------
(* The theorems.                                                           *)

LEMMA LeaseInvInit == Init => LeaseInv
<1>. SUFFICES ASSUME Init PROVE LeaseInv
  OBVIOUS
<1>1. TypeOK
  BY TypeInit
<1>2. FreshIds
  BY DEF Init, FreshIds
<1>3. SlotsBehind
  BY DEF Init, SlotsBehind
<1>4. OneCall
  BY DEF Init, OneCall, IdleBatch, Tasks
<1>5. UsesConserved
  <2>1. ASSUME NEW l \in Leases PROVE lease[l].left + Cardinality(Held(l)) + spent[l] = lease[l].max
    <3>1. Held(l) = {}
      BY NoneAssumption DEF Init, Held
    <3>2. Cardinality(Held(l)) = 0
      BY <3>1, FS_EmptySet
    <3>. QED BY <3>2 DEF Init, Blank
  <2>. QED BY <2>1 DEF UsesConserved
<1>6. RefreshExact
  BY DEF Init, RefreshExact, IdleRefresh
<1>7. SnapWithin
  BY DEF Init, SnapWithin, NoSnapshot
<1>8. ChildWithinParent
  BY DEF Init, ChildWithinParent
<1>. QED BY <1>1, <1>2, <1>3, <1>4, <1>5, <1>6, <1>7, <1>8 DEF LeaseInv

LEMMA LeaseInvStep == LeaseInv /\ [Next]_vars => LeaseInv'
BY TypeStep, FreshStep, SlotsStep, ConservedStep, ExactStep, SnapStep, ChildStep DEF LeaseInv

LEMMA LeaseInvAlways == Spec => []LeaseInv
BY LeaseInvInit, LeaseInvStep, PTL DEF Spec

\* The lease manager's map, the executors' calls, the refreshes and the
\* copies of a derivation keep their types: no consume runs below zero, and
\* every lease that a call, a copy or a child's lease names was granted.
THEOREM LeaseTypeCorrect == Spec => []TypeOK
BY LeaseInvAlways, PTL DEF LeaseInv

\* consume_use, find_and_consume and refund_use keep the accounts of every
\* limited lease, with any number of executors between their find and their
\* consume, pauses, refunds, dropped batches and removals: uses left, in the
\* hands of calls, and spent always add up to max_uses.
THEOREM LeaseUsesConserved == Spec => []UsesConserved
BY LeaseInvAlways, PTL DEF LeaseInv

\* derive_child_leases never hands a child more than its parent's lease
\* allows, whatever is consumed, refreshed, revoked or removed between the
\* copy and the insertion.
THEOREM LeaseChildWithinParent == Spec => []ChildWithinParent
BY LeaseInvAlways, PTL DEF LeaseInv
=============================================================================

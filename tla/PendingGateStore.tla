-------------------------- MODULE PendingGateStore --------------------------
(***************************************************************************)
(* The store of pending execution gates (gate/store.rs) and the JSON file  *)
(* behind it (gate/persistence.rs).                                        *)
(*                                                                         *)
(* Every operation changes the two in-memory indices under one mutex and   *)
(* then, after the mutex is released, writes the file.  The file has its   *)
(* own lock, so single writes do not mix, but they reach the file in any   *)
(* order.  A task is idle or owes the file a save or some removals.        *)
(* write_state truncates the file before it writes: a crash or an I/O      *)
(* error in between leaves it empty (no gates) or unreadable, and an       *)
(* unreadable file makes every later save, removal and load fail.          *)
(***************************************************************************)
EXTENDS FiniteSets, Integers

CONSTANTS
    Gates,          \* request ids (fresh UUIDs: each gate is inserted once)
    Keys,           \* PendingGateKey: (user_id, thread_id)
    KeyOf,          \* the key of each gate
    ThreadOf,       \* the thread of each key
    Channels,       \* channel names
    ChannelOf,      \* source_channel of each gate
    Trusted,        \* TRUSTED_GATE_CHANNELS
    PreGranted,     \* gates created with approval_already_granted
    Tasks,          \* router tasks that use the store
    MaxCrashes,     \* bound on crashes
    IOErrors,       \* whether writes of the file can fail
    None            \* Option::None

ASSUME StoreAssumption ==
    /\ KeyOf \in [Gates -> Keys]
    /\ ChannelOf \in [Gates -> Channels]
    /\ Trusted \subseteq Channels
    /\ PreGranted \subseteq Gates
    /\ MaxCrashes \in Nat
    /\ IOErrors \in BOOLEAN
    /\ None \notin Gates
    /\ None \notin Keys

VARIABLES
    by_key,         \* StoreInner.by_key: the gate under each key
    by_request_id,  \* StoreInner.by_request_id: the key of each request id
    granted,        \* gates in memory with approval_already_granted set
    expired,        \* gates whose expires_at has passed
    rows,           \* gates in the file
    readable,       \* whether the file parses
    owes,           \* owes[t]: the file writes task t still has to make
    up,             \* whether the process runs
    crashes,        \* crashes so far
    inserted,       \* history: gates an insert was tried for
    fresh,          \* history: those of them inserted in this life
    resolved        \* history: gates taken for resolution in this life

memory == <<by_key, by_request_id, granted>>
file == <<rows, readable>>
history == <<inserted, fresh, resolved>>
vars == <<memory, expired, file, owes, up, crashes, history>>

Idle == [save |-> None, remove |-> {}]

TypeOK ==
    /\ by_key \in [Keys -> Gates \cup {None}]
    /\ by_request_id \in [Gates -> Keys \cup {None}]
    /\ granted \subseteq Gates
    /\ expired \subseteq Gates
    /\ rows \subseteq Gates
    /\ readable \in BOOLEAN
    /\ owes \in [Tasks -> [save : Gates \cup {None}, remove : SUBSET Keys]]
    /\ up \in BOOLEAN
    /\ crashes \in Nat
    /\ inserted \subseteq Gates
    /\ fresh \subseteq inserted
    /\ resolved \subseteq Gates

Init ==
    /\ by_key = [k \in Keys |-> None]
    /\ by_request_id = [g \in Gates |-> None]
    /\ granted = {}
    /\ expired = {}
    /\ rows = {}
    /\ readable = TRUE
    /\ owes = [t \in Tasks |-> Idle]
    /\ up = TRUE
    /\ crashes = 0
    /\ inserted = {}
    /\ fresh = {}
    /\ resolved = {}

\* The gates in memory: what list_all, list_for_user and peek choose from.
Held == {by_key[k] : k \in Keys} \ {None}

\* peek, list_for_user, list_all: expired gates are not shown.
Visible == Held \ expired

-----------------------------------------------------------------------------
(* Operations of the store, each one critical section of the mutex.        *)

Ready(t) == up /\ owes[t] = Idle

\* What the task still has to write once it has left the critical section.
Owe(t, save, remove) ==
    owes' = [owes EXCEPT ![t] = [save |-> save, remove |-> remove]]

\* Removes the gates under the keys K from both indices.
RemoveKeys(K) ==
    /\ by_key' = [k \in Keys |-> IF k \in K THEN None ELSE by_key[k]]
    /\ by_request_id' = [g \in Gates |->
          IF \E k \in K : by_key[k] = g THEN None ELSE by_request_id[g]]
    /\ granted' = granted \ {by_key[k] : k \in K}

MutantInsert(t, g) ==
    /\ Ready(t)
    /\ g \notin inserted
    /\ inserted' = inserted \cup {g}
    /\ fresh' = fresh \cup {g}
    /\ by_request_id' = [by_request_id EXCEPT ![g] = KeyOf[g]]
    /\ by_key' = [by_key EXCEPT ![KeyOf[g]] = g]
    /\ granted' = IF g \in PreGranted THEN granted \cup {g} ELSE granted
    /\ Owe(t, g, {})
    /\ UNCHANGED <<expired, file, up, crashes, resolved>>

\* insert: refused when the key already has a gate.
Insert(t, g) ==
    /\ Ready(t)
    /\ g \notin inserted
    /\ inserted' = inserted \cup {g}
    /\ fresh' = fresh \cup {g}
    /\ IF by_key[KeyOf[g]] # None
         THEN UNCHANGED <<memory, owes>>
         ELSE /\ by_request_id' = [by_request_id EXCEPT ![g] = KeyOf[g]]
              /\ by_key' = [by_key EXCEPT ![KeyOf[g]] = g]
              /\ granted' = IF g \in PreGranted THEN granted \cup {g} ELSE granted
              /\ Owe(t, g, {})
    /\ UNCHANGED <<expired, file, up, crashes, resolved>>

Authorized(g, ch) == ch = ChannelOf[g] \/ ch \in Trusted

\* take_verified for a live gate.  NotFound, RequestIdMismatch and
\* ChannelMismatch change nothing.
TakeVerified(t, k, g, ch) ==
    /\ Ready(t)
    /\ by_key[k] = g
    /\ Authorized(g, ch)
    /\ g \notin expired
    /\ RemoveKeys({k})
    /\ Owe(t, None, {k})
    /\ resolved' = resolved \cup {g}
    /\ UNCHANGED <<expired, file, up, crashes, inserted, fresh>>

\* take_verified for an expired gate: dropped from memory, left in the file.
TakeExpired(t, k, g, ch) ==
    /\ Ready(t)
    /\ by_key[k] = g
    /\ Authorized(g, ch)
    /\ g \in expired
    /\ RemoveKeys({k})
    /\ UNCHANGED <<expired, file, owes, up, crashes, history>>

MutantDiscard(t, k) ==
    /\ Ready(t)
    /\ by_key[k] # None
    /\ by_key' = [by_key EXCEPT ![k] = None]
    /\ granted' = granted \ {by_key[k]}
    /\ Owe(t, None, {k})
    /\ UNCHANGED <<by_request_id, expired, file, up, crashes, history>>

Discard(t, k) ==
    /\ Ready(t)
    /\ by_key[k] # None
    /\ RemoveKeys({k})
    /\ Owe(t, None, {k})
    /\ UNCHANGED <<expired, file, up, crashes, history>>

DiscardForThread(t, th) ==
    LET K == {k \in Keys : ThreadOf[k] = th /\ by_key[k] # None} IN
    /\ Ready(t)
    /\ K # {}
    /\ RemoveKeys(K)
    /\ Owe(t, None, K)
    /\ UNCHANGED <<expired, file, up, crashes, history>>

ExpireStale(t) ==
    LET K == {k \in Keys : by_key[k] \in expired} IN
    /\ Ready(t)
    /\ K # {}
    /\ RemoveKeys(K)
    /\ Owe(t, None, K)
    /\ UNCHANGED <<expired, file, up, crashes, history>>

-----------------------------------------------------------------------------
(* The file, one locked read-modify-write at a time.                       *)

\* retain(existing.key() != k)
Without(S, k) == {g \in S : KeyOf[g] # k}

MutantFileSave(t) ==
    LET g == owes[t].save IN
    /\ up
    /\ g # None
    /\ Owe(t, None, {})
    /\ rows' = IF readable THEN rows \cup {g} ELSE rows
    /\ UNCHANGED <<memory, expired, readable, up, crashes, history>>

FileSave(t) ==
    LET g == owes[t].save IN
    /\ up
    /\ g # None
    /\ Owe(t, None, {})
    /\ rows' = IF readable THEN Without(rows, KeyOf[g]) \cup {g} ELSE rows
    /\ UNCHANGED <<memory, expired, readable, up, crashes, history>>

FileRemove(t, k) ==
    /\ up
    /\ k \in owes[t].remove
    /\ Owe(t, None, owes[t].remove \ {k})
    /\ rows' = IF readable THEN Without(rows, k) ELSE rows
    /\ UNCHANGED <<memory, expired, readable, up, crashes, history>>

\* write_state interrupted after the truncation, before the new content is
\* complete; the callers log the error and go on.
Interrupted ==
    \/ rows' = {} /\ UNCHANGED readable
    \/ readable' = FALSE /\ UNCHANGED rows

FileError(t) ==
    /\ IOErrors
    /\ up
    /\ readable
    /\ \/ owes[t].save # None /\ Owe(t, None, {})
       \/ \E k \in owes[t].remove : Owe(t, None, owes[t].remove \ {k})
    /\ Interrupted \/ UNCHANGED file
    /\ UNCHANGED <<memory, expired, up, crashes, history>>

-----------------------------------------------------------------------------
(* Time, crash and restart.                                                *)

Expire(g) ==
    /\ g \in inserted \ expired
    /\ expired' = expired \cup {g}
    /\ UNCHANGED <<memory, file, owes, up, crashes, history>>

Crash ==
    /\ up
    /\ crashes < MaxCrashes
    /\ crashes' = crashes + 1
    /\ up' = FALSE
    /\ by_key' = [k \in Keys |-> None]
    /\ by_request_id' = [g \in Gates |-> None]
    /\ granted' = {}
    /\ owes' = [t \in Tasks |-> Idle]
    /\ resolved' = {}
    /\ fresh' = {}
    /\ \/ UNCHANGED file
       \/ /\ readable
          /\ \E t \in Tasks : owes[t] # Idle
          /\ Interrupted
    /\ UNCHANGED <<expired, inserted>>

MutantRestore ==
    LET S == IF readable THEN rows \ expired ELSE {} IN
    /\ ~up
    /\ up' = TRUE
    /\ by_key' = [k \in Keys |->
          IF \E g \in S : KeyOf[g] = k THEN CHOOSE g \in S : KeyOf[g] = k ELSE None]
    /\ by_request_id' = [g \in Gates |-> IF g \in S THEN KeyOf[g] ELSE None]
    /\ granted' = S \cap PreGranted
    /\ UNCHANGED <<expired, file, owes, crashes, history>>

\* restore_from_persistence: expired rows are skipped and
\* approval_already_granted is cleared.  A file that does not parse
\* restores nothing.
Restore ==
    LET S == IF readable THEN rows \ expired ELSE {} IN
    /\ ~up
    /\ up' = TRUE
    /\ by_key' = [k \in Keys |->
          IF \E g \in S : KeyOf[g] = k THEN CHOOSE g \in S : KeyOf[g] = k ELSE None]
    /\ by_request_id' = [g \in Gates |-> IF g \in S THEN KeyOf[g] ELSE None]
    /\ granted' = {}
    /\ UNCHANGED <<expired, file, owes, crashes, history>>

Next ==
    \/ \E t \in Tasks :
         \/ \E g \in Gates : Insert(t, g)
         \/ \E k \in Keys : \E g \in Gates : \E ch \in Channels :
              TakeVerified(t, k, g, ch) \/ TakeExpired(t, k, g, ch)
         \/ \E k \in Keys : Discard(t, k) \/ FileRemove(t, k)
         \/ \E k \in Keys : DiscardForThread(t, ThreadOf[k])
         \/ ExpireStale(t)
         \/ FileSave(t)
         \/ FileError(t)
    \/ \E g \in Gates : Expire(g)
    \/ Crash
    \/ Restore

Spec == Init /\ [][Next]_vars

-----------------------------------------------------------------------------
(* Properties.                                                             *)

\* The two maps of StoreInner always describe the same gates: a key holds a
\* gate exactly when the gate's request id points back to that key, through
\* every removal path, crash and restart.
IndexesAgree ==
    /\ \A k \in Keys : by_key[k] # None =>
          KeyOf[by_key[k]] = k /\ by_request_id[by_key[k]] = k
    /\ \A g \in Gates : by_request_id[g] # None => by_key[by_request_id[g]] = g

\* restore_from_persistence: approval_already_granted "must NOT survive a
\* process restart": only a gate this very process inserted, and still holds,
\* can skip the approval prompt.
GrantDiesWithProcess == granted \subseteq fresh \cap Held

\* The file never holds two gates of one (user, thread), whatever the order
\* in which the unlocked saves and removals arrive, so a restart never has
\* to choose between two gates.
OneRowPerKey == \A g, h \in rows : KeyOf[g] = KeyOf[h] => g = h

\* The store implements the board its callers rely on: a gate leaves the
\* board once per life of the process, so it is resolved by one caller.
Board == INSTANCE GateBoard WITH posted <- inserted, pending <- Held
ImplementsBoard == Board!BoardSpec

\* Bookkeeping that makes the invariants above inductive: whatever is held,
\* written or owed was inserted, and a process that is down holds nothing.
Bookkeeping ==
    /\ rows \cup Held \subseteq inserted
    /\ \A t \in Tasks : owes[t].save # None => owes[t].save \in inserted
    /\ ~up => Held = {} /\ resolved = {} /\ granted = {} /\ owes = [t \in Tasks |-> Idle]

StoreInv == TypeOK /\ IndexesAgree /\ OneRowPerKey /\ GrantDiesWithProcess /\ Bookkeeping
=============================================================================

----------------------------- MODULE GateBoard -----------------------------
(***************************************************************************)
(* What the pending gate store promises its callers (gate/store.rs), with  *)
(* no word on indices, locks or files: per (user, thread) key at most one  *)
(* gate is pending, a gate is posted once, and in one life of the process  *)
(* it leaves the board once, either resolved by one caller or dropped.     *)
(* After a restart the board holds whatever was kept of the gates posted   *)
(* before.                                                                 *)
(***************************************************************************)
CONSTANTS
    Gates,      \* request ids of all gates the router ever creates
    Keys,       \* (user_id, thread_id) pairs
    KeyOf       \* the key of each gate

VARIABLES
    posted,     \* gates ever inserted
    pending,    \* gates that can be resolved now
    resolved    \* gates handed to a caller in this life of the process

boardVars == <<posted, pending, resolved>>

\* At most one gate per (user, thread).
OnePerKey(S) == \A g, h \in S : KeyOf[g] = KeyOf[h] => g = h

BoardInit ==
    /\ posted = {}
    /\ pending = {}
    /\ resolved = {}

Post(g) ==
    /\ g \notin posted
    /\ OnePerKey(pending \cup {g})
    /\ posted' = posted \cup {g}
    /\ pending' = pending \cup {g}
    /\ UNCHANGED resolved

Resolve(g) ==
    /\ g \in pending
    /\ pending' = pending \ {g}
    /\ resolved' = resolved \cup {g}
    /\ UNCHANGED posted

\* A gate that cannot be posted because its key is taken is lost.
Refuse(g) ==
    /\ g \notin posted
    /\ posted' = posted \cup {g}
    /\ UNCHANGED <<pending, resolved>>

Drop(S) ==
    /\ S \subseteq pending
    /\ pending' = pending \ S
    /\ UNCHANGED <<posted, resolved>>

Restart(S) ==
    /\ S \subseteq posted
    /\ OnePerKey(S)
    /\ pending' = S
    /\ resolved' = {}
    /\ UNCHANGED posted

BoardNext ==
    \/ \E g \in Gates : Post(g) \/ Refuse(g) \/ Resolve(g)
    \/ \E S \in SUBSET Gates : Drop(S) \/ Restart(S)

BoardSpec == BoardInit /\ [][BoardNext]_boardVars
=============================================================================

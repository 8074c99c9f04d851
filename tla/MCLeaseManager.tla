--------------------------- MODULE MCLeaseManager ---------------------------
(* LeaseManager for TLC: one tool in its two spellings, a parent and a child. *)
EXTENDS LeaseManager, TLC

CONSTANTS l1, l2, s1, s2, parentThread

MCLeases == {l1, l2}
MCNames == {"web_fetch", "web-fetch"}
MCSpellings == [n \in MCNames |-> MCNames]
MCPlan == [t \in Threads |-> IF t = parentThread THEN {"web-fetch"} ELSE {"web_fetch"}]
MCGrantSets == {{"web_fetch"}}

Symmetry == Permutations(MCLeases) \cup Permutations({s1, s2})
=============================================================================

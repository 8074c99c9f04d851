------------------------- MODULE MCPendingGateStore -------------------------
(* Two threads of one user; the first thread is paused twice in a row, the *)
(* second gate (g2) by an action already approved.  Gates come from        *)
(* telegram; the web channel is trusted and cli is not.                    *)
EXTENDS PendingGateStore, TLC

CONSTANTS g1, g2, g3, k1, k2, th1, th2, t1, t2

MCGates == {g1, g2, g3}
MCKeys == {k1, k2}
MCKeyOf == (g1 :> k1) @@ (g2 :> k1) @@ (g3 :> k2)
MCThreadOf == (k1 :> th1) @@ (k2 :> th2)
MCChannels == {"web", "telegram", "cli"}
MCChannelOf == [g \in MCGates |-> "telegram"]
MCTrusted == {"web"}
MCPreGranted == {g2}
MCTwoTasks == {t1, t2}
=============================================================================

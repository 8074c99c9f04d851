---------------------------- MODULE MCGateRouter ----------------------------
(* The engine bridge with every gate belonging to one thread.              *)
EXTENDS GateRouter, TLC
CONSTANT GateThread

OneKey == [g \in Gates |-> GateThread]

\* Join handles are interchangeable.
Symmetry == Permutations(Loops)
=============================================================================

------------------------------- MODULE MCJobs -------------------------------
(* Jobs for TLC: the jobs of one user.                                     *)
EXTENDS Jobs

CONSTANT alice

MCOwner == [j \in JobIds |-> alice]
=============================================================================

-------------------------- MODULE MCFlowScheduler --------------------------
(* Instances of FlowScheduler for TLC. *)
EXTENDS FlowScheduler, TLC

CONSTANTS j1, j2, w0, w1, w2

\* Every job may go to every worker.
AnyWorker == [j \in Job |-> Worker]

\* Jobs are interchangeable, and so are the remote workers.
Symmetry == Permutations(Job) \cup Permutations(Remote)
=============================================================================

---------------------------- MODULE MCJobStore ----------------------------
(* Instances of JobStore for TLC. *)
EXTENDS JobStore, TLC

CONSTANTS j1, j2

\* Jobs are interchangeable.
Symmetry == Permutations(Job)
=============================================================================

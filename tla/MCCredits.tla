----------------------------- MODULE MCCredits -----------------------------
(* Instances of Credits for TLC. *)
EXTENDS Credits, TLC

CONSTANTS j1, j2, h1, h2

\* Three free credits and two paid ones against jobs of two credits: the second job
\* takes from both, the third attempt is refused.
TwoEach == [j \in Job |-> 2]

\* Jobs are interchangeable, and so are the handlers.
Symmetry == Permutations(Job) \cup Permutations(Handler)
=============================================================================

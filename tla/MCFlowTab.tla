---------------------------- MODULE MCFlowTab ----------------------------
(* Instances of FlowTab for TLC. *)
EXTENDS FlowTab, TLC

CONSTANTS j1, j2, a1, a2

Task(k, a) == [kind |-> k, alias |-> a]

\* Two tasks after or beside each other, in one project or in two.
Pairs ==
  {j1 :> Task("image", a1) @@ j2 :> Task("image", a1),
   j1 :> Task("clip", a1) @@ j2 :> Task("character", a1),
   j1 :> Task("video", a1) @@ j2 :> Task("upload", a1),
   j1 :> Task("video", a1) @@ j2 :> Task("clip", a2),
   j1 :> Task("character", a1) @@ j2 :> Task("character", a1)}

\* Two characters after each other only: beside each other nothing is promised of them.
OneEditor == (\A j \in Job : Kinds(j, {"character"})) => mixed = {}
=============================================================================

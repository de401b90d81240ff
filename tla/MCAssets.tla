----------------------------- MODULE MCAssets -----------------------------
(* Instances of Assets for TLC. *)
EXTENDS Assets, TLC

CONSTANTS j1, j2, w1

\* Two stores under one name, a video that needs the picture, a character beside it.
Pairs ==
  {j1 :> "image" @@ j2 :> other : other \in {"image", "video", "character"}}
=============================================================================

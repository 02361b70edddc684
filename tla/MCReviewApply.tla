---------------------------- MODULE MCReviewApply ----------------------------
(***************************************************************************)
(* Small instances of Review & Apply for TLC.                              *)
(***************************************************************************)
EXTENDS ReviewApply, TLC

CONSTANTS p1, p2, f1, f2, e1

MCContents == Edits \cup (Fps \X Placements)

\* Two handlers, one of which decides and one of which applies.
TwoProcs == p1 :> {"accept", "preview", "apply"} @@ p2 :> {"edit", "reject", "apply"}

\* One handler at a time.
OneProc == p1 :> {"accept", "edit", "choose", "preview", "apply"}
=============================================================================

------------------------ MODULE MCEngagementCascade ------------------------
(* Small instances of EngagementCascade. *)
EXTENDS EngagementCascade, TLC

MCSymmetry == Permutations(Session) \cup Permutations(Task)
=============================================================================

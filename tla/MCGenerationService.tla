------------------------- MODULE MCGenerationService ------------------------
(* Small instances of GenerationService. *)
EXTENDS GenerationService, TLC

MCSymmetry == Permutations(Session) \cup Permutations(Job) \cup Permutations(Template)
=============================================================================

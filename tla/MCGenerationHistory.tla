------------------------ MODULE MCGenerationHistory ------------------------
(* Small instances of GenerationHistory. *)
EXTENDS GenerationHistory, TLC

MCSymmetry == Permutations(Session) \cup Permutations(Job) \cup Permutations(Template)
=============================================================================

---------------------------- MODULE MCCatalogue ----------------------------
(* Small instances of Catalogue. *)
EXTENDS Catalogue, TLC

MCSymmetry == Permutations(Session) \cup Permutations(Template) \cup Permutations(Admin)
                \cup Permutations(Engagement)
=============================================================================

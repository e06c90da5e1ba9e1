---------------------------- MODULE MCAuthTokens ----------------------------
(* A small instance of AuthTokens. *)
EXTENDS AuthTokens, TLC

MCSymmetry == Permutations(Role)
=============================================================================

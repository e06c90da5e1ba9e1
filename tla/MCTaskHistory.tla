--------------------------- MODULE MCTaskHistory ---------------------------
(* A small instance of TaskHistory: one user of each role. *)
EXTENDS TaskHistory, TLC

CONSTANTS ada, mia, tom

MCUser == {ada, mia, tom}
MCRoleOf == (ada :> "admin") @@ (mia :> "manager") @@ (tom :> "team_member")
=============================================================================

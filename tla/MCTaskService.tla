--------------------------- MODULE MCTaskService ---------------------------
(* Small instances of TaskService: one user of each role. *)
EXTENDS TaskService, TLC

CONSTANTS ada, mia, tom

MCUser == {ada, mia, tom}
MCRoleOf == (ada :> "admin") @@ (mia :> "manager") @@ (tom :> "team_member")
=============================================================================

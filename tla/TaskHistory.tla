---------------------------- MODULE TaskHistory ----------------------------
(***************************************************************************)
(* TaskService with the one thing about a task that its row forgets: who   *)
(* was its assignee when the work was last submitted for review.           *)
(***************************************************************************)
EXTENDS TaskService

VARIABLE worker   \* of each task; NoUser until it is first submitted

historyVars == <<vars, worker>>

HistoryInit == Init /\ worker = [t \in Task |-> NoUser]

Submitted(t) == status[t] # "ready_for_review" /\ status'[t] = "ready_for_review"

HistoryNext ==
  /\ Next
  /\ worker' = [t \in Task |-> IF Submitted(t) THEN assignee_id[t] ELSE worker[t]]

HistorySpec == HistoryInit /\ [][HistoryNext]_historyVars

(* "a task's assignee and reviewer can never be the same person; nobody      *)
(* approves their own work": not even after the task changed hands.          *)
NobodyApprovesOwnWork ==
  [][\A t \in Task :
       reviews'[t] # reviews[t] /\ reviews'[t][Len(reviews'[t])].decision = "approved"
         => reviews'[t][Len(reviews'[t])].by # worker[t]]_historyVars
=============================================================================

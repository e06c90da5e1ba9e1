--------------------------- MODULE TaskLifecycle ---------------------------
(***************************************************************************)
(* What the task service promises about one committed change of a task     *)
(* row, whatever other requests are in flight: every change is a workflow  *)
(* step of the table, a staffing step, or a move along the deletion axis,  *)
(* each taken as if it were alone.  TaskService, where requests interleave *)
(* statement by statement, is shown to implement this module.              *)
(***************************************************************************)
EXTENDS TaskRules

CONSTANT Task

VARIABLES status, assignee_id, reviewer_id, deleted, reviews

lifecycleVars == <<status, assignee_id, reviewer_id, deleted, reviews>>

(* A task is born unstaffed (generated, or ad-hoc without an assignee) or   *)
(* assigned (ad-hoc with one), reviewed by the engagement's manager.        *)
Init ==
  /\ assignee_id \in [Task -> User \cup {NoUser}]
  /\ reviewer_id \in [Task -> User]
  /\ \A t \in Task : assignee_id[t] # reviewer_id[t]
  /\ status = [t \in Task |-> StatusAtCreation(assignee_id[t])]
  /\ deleted = [t \in Task |-> FALSE]
  /\ reviews = [t \in Task |-> << >>]

(* One action of the table, by someone entitled to it, on a live task; a    *)
(* review action leaves exactly one review.                                 *)
WorkflowStep(t, action, actor, to) ==
  /\ ~ deleted[t]
  /\ <<status[t], action, to>> \in TRANSITIONS
  /\ ActorMayAct(action, actor, assignee_id[t], reviewer_id[t])
  /\ ~ ApprovesOwnWork(action, actor, assignee_id[t])
  /\ status' = [status EXCEPT ![t] = to]
  /\ reviews' = IF action \in REVIEW_ACTIONS
                THEN [reviews EXCEPT ![t] =
                        Append(@, [decision |-> REVIEW_DECISIONS[action], by |-> actor])]
                ELSE reviews
  /\ UNCHANGED <<assignee_id, reviewer_id, deleted>>

(* Assignee and reviewer set together, with the status that follows. *)
StaffingStep(t, assignee, reviewer) ==
  /\ ~ deleted[t]
  /\ assignee # reviewer
  /\ assignee = NoUser => assignee_id[t] = NoUser \/ status[t] \in UNSTAFFED_STATUSES
  /\ assignee_id' = [assignee_id EXCEPT ![t] = assignee]
  /\ reviewer_id' = [reviewer_id EXCEPT ![t] = reviewer]
  /\ status' = [status EXCEPT ![t] = StatusAfterStaffing(@, assignee)]
  /\ UNCHANGED <<deleted, reviews>>

(* Deletion is an axis of its own: nothing else of the task moves with it. *)
DeletionStep(t) ==
  /\ \E d \in BOOLEAN : deleted' = [deleted EXCEPT ![t] = d]
  /\ UNCHANGED <<status, assignee_id, reviewer_id, reviews>>

Next ==
  \E t \in Task :
    \/ \E action \in TaskAction, actor \in User, to \in TaskStatus :
         WorkflowStep(t, action, actor, to)
    \/ \E assignee \in User \cup {NoUser}, reviewer \in User :
         StaffingStep(t, assignee, reviewer)
    \/ DeletionStep(t)

Spec == Init /\ [][Next]_lifecycleVars
=============================================================================

----------------------------- MODULE TaskRules -----------------------------
(***************************************************************************)
(* The pure rules of app/services/task_service.py: the workflow table, who *)
(* may take which action, and what staffing does to a status.  Both the    *)
(* promise (TaskLifecycle) and the request-by-request model (TaskService)  *)
(* are built from them.                                                    *)
(***************************************************************************)
EXTENDS Naturals, Sequences

CONSTANTS User,     \* the app_user rows
          NoUser,   \* the SQL NULL of assignee_id
          RoleOf    \* the role claim in each user's access token

UserRole == {"admin", "manager", "team_member"}

ASSUME UserAssumption == /\ NoUser \notin User
                         /\ RoleOf \in [User -> UserRole]

TaskStatus == {"not_started", "assigned", "in_progress", "waiting_for_client",
               "ready_for_review", "changes_requested", "completed"}

TaskAction == {"start", "submit", "wait-for-client", "resume",
               "approve", "request-changes", "reopen"}

ReviewDecision == {"approved", "changes_requested", "reopened"}

(* The table itself, as a relation: from a status, by an action, to a status. *)
TRANSITIONS ==
  { <<"assigned",           "start",           "in_progress">>,
    <<"in_progress",        "wait-for-client", "waiting_for_client">>,
    <<"waiting_for_client", "resume",          "in_progress">>,
    <<"in_progress",        "submit",          "ready_for_review">>,
    <<"ready_for_review",   "approve",         "completed">>,
    <<"ready_for_review",   "request-changes", "changes_requested">>,
    <<"changes_requested",  "resume",          "in_progress">>,
    <<"completed",          "reopen",          "in_progress">> }

ReviewActionsWithoutReopen == {"approve", "request-changes"}

REVIEW_ACTIONS == {"approve", "request-changes", "reopen"}

REVIEW_DECISIONS == [a \in REVIEW_ACTIONS |->
                       CASE a = "approve"         -> "approved"
                         [] a = "request-changes" -> "changes_requested"
                         [] a = "reopen"          -> "reopened"]

(* _check_actor_may_act: a review needs the named reviewer, everything else *)
(* the assignee; an admin may do either.                                    *)
ActorMayAct(action, actor, assignee, reviewer) ==
  \/ RoleOf[actor] = "admin"
  \/ action \in REVIEW_ACTIONS /\ reviewer = actor
  \/ action \notin REVIEW_ACTIONS /\ assignee = actor

(* The check transition_task makes after the relational one. *)
ApprovesOwnWork(action, actor, assignee) ==
  action = "approve" /\ assignee = actor

UNSTAFFED_STATUSES == {"not_started", "assigned"}

(* update_assignment, once assignee_id has been set to the new value. *)
StatusAfterStaffing(status, assignee) ==
  IF assignee # NoUser /\ status = "not_started" THEN "assigned"
  ELSE IF assignee = NoUser /\ status = "assigned" THEN "not_started"
  ELSE status

(* create_adhoc_task, and generate_tasks_for_engagement with no assignee. *)
StatusAtCreation(assignee) ==
  IF assignee = NoUser THEN "not_started" ELSE "assigned"

(* A task_review row: who decided what. *)
Review == [decision : ReviewDecision, by : User]
=============================================================================

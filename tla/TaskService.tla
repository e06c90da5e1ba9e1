---------------------------- MODULE TaskService ----------------------------
(***************************************************************************)
(* app/services/task_service.py, one request per database session, split   *)
(* at the awaits where another session can run.  transition_task and       *)
(* update_assignment read the task FOR UPDATE and hold its lock until they *)
(* commit or roll back; soft_delete_task and restore_task read it with a   *)
(* plain SELECT, decide, and their UPDATE then waits for the lock.         *)
(*                                                                         *)
(* A request that is refused leaves no trace in the database, so only its  *)
(* lock can matter: refusals made in the statement that read the row are   *)
(* stuttering steps, refusals made after a further await are actions.      *)
(***************************************************************************)
EXTENDS TaskRules

CONSTANTS Task,        \* the task rows
          Session,     \* database sessions, one per request being served
          Unset,       \* _UNSET: the PATCH did not mention the field
          Togglable,   \* bound: users whose is_active is changed meanwhile
          MaxReviews   \* bound: review rows per task

ASSUME SessionAssumption == Unset \notin User \cup {NoUser}
ASSUME BoundAssumption == MaxReviews \in Nat /\ Togglable \subseteq User

VARIABLES
  status, assignee_id, reviewer_id, deleted,   \* committed columns of the task rows
  reviews,                                     \* the task_review rows of each task, as they commit
  active,                                      \* app_user rows with is_active
  sess                                         \* what each session's request holds

rows == <<status, assignee_id, reviewer_id, deleted, reviews>>
vars == <<status, assignee_id, reviewer_id, deleted, reviews, active, sess>>

(***************************************************************************)
(* What a session holds.  `row' is the ORM's copy of the columns as the    *)
(* session read them; it stays the session's view until the commit.        *)
(***************************************************************************)
Comment == {"none", "blank", "text"}

TransitionRequest ==
  [kind : {"transition"}, task : Task, actor : User, action : TaskAction,
   target : TaskStatus, comment : Comment]

AssignmentRequest ==
  [kind : {"assignment"}, task : Task,
   assignee : User \cup {NoUser, Unset}, reviewer : User \cup {Unset},
   unchecked : SUBSET {"reviewer", "assignee"},
   row : [status : TaskStatus, assignee : User \cup {NoUser}, reviewer : User]]

DeletionRequest == [kind : {"delete", "restore"}, task : Task]

Idle == [kind |-> "idle"]
Failed(by) == [kind |-> "failed", by |-> by]   \* the exception of a 500 reply

TypeOK ==
  /\ status \in [Task -> TaskStatus]
  /\ assignee_id \in [Task -> User \cup {NoUser}]
  /\ reviewer_id \in [Task -> User]
  /\ deleted \in [Task -> BOOLEAN]
  /\ reviews \in [Task -> Seq(Review)]
  /\ active \in SUBSET User
  /\ sess \in [Session -> {Idle} \cup TransitionRequest \cup AssignmentRequest
                            \cup DeletionRequest
                            \cup {Failed(by) : by \in {"transition", "assignment"}}]

(***************************************************************************)
(* Locks                                                                   *)
(***************************************************************************)

Holds(s, t) == sess[s].kind \in {"transition", "assignment"} /\ sess[s].task = t

AlwaysUnlocked(t) == TRUE

(* with_for_update(): the SELECT, or a later UPDATE, waits for the holder.  *)
Unlocked(t) == \A s \in Session : ~ Holds(s, t)

CloseSession(s) == sess' = [sess EXCEPT ![s] = Idle]
Fail(s, by) == sess' = [sess EXCEPT ![s] = Failed(by)]

(* A flush writes a column only if the session changed it. *)
Flushed(current, loaded, new) == IF new = loaded THEN current ELSE new

(***************************************************************************)
(* transition_task                                                         *)
(***************************************************************************)

(* The bodies ReviewCommentRequired and ReviewCommentOptional accept: a     *)
(* required comment has length >= 1, which a blank has too.                 *)
CommentsAccepted(action) ==
  CASE action = "approve" -> Comment
    [] action \in {"request-changes", "reopen"} -> {"blank", "text"}
    [] OTHER -> {"none"}

AllowedEvenIfDeleted(t, actor, action, target) ==
  /\ <<status[t], action, target>> \in TRANSITIONS
  /\ ActorMayAct(action, actor, assignee_id[t], reviewer_id[t])
  /\ ~ ApprovesOwnWork(action, actor, assignee_id[t])

AllowedOnOwnWork(t, actor, action, target) ==
  /\ ~ deleted[t]
  /\ <<status[t], action, target>> \in TRANSITIONS
  /\ ActorMayAct(action, actor, assignee_id[t], reviewer_id[t])

(* Every check made on the locked row. *)
TransitionAllowed(t, actor, action, target) ==
  /\ ~ deleted[t]
  /\ <<status[t], action, target>> \in TRANSITIONS
  /\ ActorMayAct(action, actor, assignee_id[t], reviewer_id[t])
  /\ ~ ApprovesOwnWork(action, actor, assignee_id[t])

(* SELECT ... FOR UPDATE, and the checks that follow it without an await. *)
LockForTransition(s, t, actor, action, target, comment) ==
  /\ sess[s] = Idle
  /\ Unlocked(t)
  /\ TransitionAllowed(t, actor, action, target)
  /\ action \in REVIEW_ACTIONS => Len(reviews[t]) < MaxReviews   \* bound
  /\ sess' = [sess EXCEPT ![s] =
       [kind |-> "transition", task |-> t, actor |-> actor, action |-> action,
        target |-> target, comment |-> comment]]
  /\ UNCHANGED <<rows, active>>

(* task_review_comment_required_when_negative: btrim leaves a blank empty.  *)
ReviewRowAccepted(request) ==
  request.action \in REVIEW_ACTIONS \ {"approve"} => request.comment = "text"

(* commit(): the task UPDATE and the task_review INSERT land together. *)
CommitTransition(s) ==
  LET request == sess[s]
      t == request.task
  IN /\ request.kind = "transition"
     /\ ReviewRowAccepted(request)
     /\ status' = [status EXCEPT ![t] = request.target]
     /\ reviews' =
          IF request.action \in REVIEW_ACTIONS
          THEN [reviews EXCEPT ![t] =
                  Append(@, [decision |-> REVIEW_DECISIONS[request.action],
                             by |-> request.actor])]
          ELSE reviews
     /\ CloseSession(s)
     /\ UNCHANGED <<assignee_id, reviewer_id, deleted, active>>

(* The INSERT violates the CHECK constraint; nothing catches IntegrityError. *)
TransitionFails(s) ==
  /\ sess[s].kind = "transition"
  /\ ~ ReviewRowAccepted(sess[s])
  /\ Fail(s, "transition")
  /\ UNCHANGED <<rows, active>>

(***************************************************************************)
(* update_assignment.  The checks on the row and those on the users come   *)
(* one after another; only the first wait for the lock precedes them.      *)
(***************************************************************************)

(* What the manager-or-admin caller may ask of the locked row.              *)
AssignmentAllowed(t, actor, assignee, reviewer) ==
  /\ ~ deleted[t]
  /\ \/ RoleOf[actor] = "admin"
     \/ RoleOf[actor] = "manager" /\ reviewer_id[t] = actor /\ reviewer = Unset

(* The users whose is_active the request reads, one SELECT each.  Nothing   *)
(* keeps the reviewer's AppUser alive after its check, and the identity map *)
(* refers to it weakly: an assignee who is the same user is read again.     *)
UsersToCheck(assignee, reviewer) ==
  {f \in {"reviewer", "assignee"} :
     IF f = "reviewer" THEN reviewer # Unset ELSE assignee \in User}

LockForAssignment(s, t, actor, assignee, reviewer) ==
  /\ sess[s] = Idle
  /\ Unlocked(t)
  /\ AssignmentAllowed(t, actor, assignee, reviewer)
  /\ sess' = [sess EXCEPT ![s] =
       [kind |-> "assignment", task |-> t, assignee |-> assignee,
        reviewer |-> reviewer, unchecked |-> UsersToCheck(assignee, reviewer),
        row |-> [status |-> status[t], assignee |-> assignee_id[t],
                 reviewer |-> reviewer_id[t]]]]
  /\ UNCHANGED <<rows, active>>

NewReviewer(request) ==
  IF request.reviewer = Unset THEN request.row.reviewer ELSE request.reviewer

NewAssigneeWithoutSentinel(request) == request.assignee

NewAssignee(request) ==
  IF request.assignee = Unset THEN request.row.assignee ELSE request.assignee

NewStatusIgnoringUnassignment(request) ==
  IF request.assignee = Unset \/ request.assignee = NoUser THEN request.row.status
  ELSE StatusAfterStaffing(request.row.status, request.assignee)

NewStatus(request) ==
  IF request.assignee = Unset THEN request.row.status
  ELSE StatusAfterStaffing(request.row.status, request.assignee)

CheckReviewer(s) ==
  /\ sess[s].kind = "assignment"
  /\ "reviewer" \in sess[s].unchecked
  /\ sess[s].reviewer \in active
  /\ sess' = [sess EXCEPT ![s].unchecked = @ \ {"reviewer"}]
  /\ UNCHANGED <<rows, active>>

(* task.reviewer_id is already set when the assignee is looked up, and the  *)
(* lookup's autoflush sends it to the CHECK constraint before assignee_id.  *)
AutoflushAccepted(request) == NewReviewer(request) # request.row.assignee

UnassignmentUnchecked(request) == TRUE

(* "clearing it past assigned is refused": looked at after the reviewer.    *)
UnassignmentAllowed(request) ==
  request.assignee = NoUser => request.row.status \in UNSTAFFED_STATUSES

CheckAssignee(s) ==
  /\ sess[s].kind = "assignment"
  /\ sess[s].unchecked = {"assignee"}
  /\ AutoflushAccepted(sess[s])
  /\ sess[s].assignee \in active
  /\ sess' = [sess EXCEPT ![s].unchecked = {}]
  /\ UNCHANGED <<rows, active>>

AutoflushFails(s) ==
  /\ sess[s].kind = "assignment"
  /\ sess[s].unchecked = {"assignee"}
  /\ ~ AutoflushAccepted(sess[s])
  /\ Fail(s, "assignment")
  /\ UNCHANGED <<rows, active>>

DistinctPeople(request) == NewAssignee(request) # NewReviewer(request)

RefusalKeepsSession(s) == FALSE

(* A 409 raised while the row is locked; leaving the request closes the     *)
(* session, which rolls back and lets go of the lock.                       *)
RefuseAssignment(s) ==
  /\ sess[s].kind = "assignment"
  /\ \/ "reviewer" \in sess[s].unchecked /\ sess[s].reviewer \notin active
     \/ sess[s].unchecked = {"assignee"} /\ AutoflushAccepted(sess[s])
                                        /\ sess[s].assignee \notin active
     \/ /\ sess[s].unchecked = {}
        /\ ~ UnassignmentAllowed(sess[s]) \/ ~ DistinctPeople(sess[s])
  /\ CloseSession(s)
  /\ UNCHANGED <<rows, active>>

CommitAssignment(s) ==
  LET request == sess[s]
      t == request.task
  IN /\ request.kind = "assignment"
     /\ request.unchecked = {}
     /\ UnassignmentAllowed(request)
     /\ DistinctPeople(request)
     /\ reviewer_id' = [reviewer_id EXCEPT ![t] =
                          Flushed(@, request.row.reviewer, NewReviewer(request))]
     /\ assignee_id' = [assignee_id EXCEPT ![t] =
                          Flushed(@, request.row.assignee, NewAssignee(request))]
     /\ status' = [status EXCEPT ![t] =
                          Flushed(@, request.row.status, NewStatus(request))]
     /\ CloseSession(s)
     /\ UNCHANGED <<deleted, reviews, active>>

(***************************************************************************)
(* soft_delete_task and restore_task: read, decide, then a blind UPDATE.    *)
(***************************************************************************)

MayDelete(t, actor) ==
  \/ RoleOf[actor] = "admin"
  \/ RoleOf[actor] = "manager" /\ reviewer_id[t] = actor

LoadForDeletion(s, t, actor, kind) ==
  /\ sess[s] = Idle
  /\ deleted[t] = (kind = "restore")
  /\ MayDelete(t, actor)
  /\ sess' = [sess EXCEPT ![s] = [kind |-> kind, task |-> t]]
  /\ UNCHANGED <<rows, active>>

(* The UPDATE names deleted_at, deleted_by, deletion_reason and updated_by  *)
(* only, whatever happened to the row since it was read.                    *)
CommitDeletion(s) ==
  /\ sess[s].kind \in {"delete", "restore"}
  /\ Unlocked(sess[s].task)
  /\ deleted' = [deleted EXCEPT ![sess[s].task] = (sess[s].kind = "delete")]
  /\ CloseSession(s)
  /\ UNCHANGED <<status, assignee_id, reviewer_id, reviews, active>>

(***************************************************************************)
(* The rest of the world                                                   *)
(***************************************************************************)

(* user_service.update_user with is_active, committed on its own. *)
UpdateUser(u) ==
  /\ active' = IF u \in active THEN active \ {u} ELSE active \cup {u}
  /\ UNCHANGED <<rows, sess>>

(* The 500 has been sent; get_session's `async with` has closed the session. *)
ReplyFailed(s) ==
  /\ sess[s].kind = "failed"
  /\ CloseSession(s)
  /\ UNCHANGED <<rows, active>>

(* The worker or its connection dies before the commit: PostgreSQL rolls the *)
(* transaction back.                                                         *)
Crash(s) ==
  /\ sess[s].kind \notin {"idle", "failed"}
  /\ CloseSession(s)
  /\ UNCHANGED <<rows, active>>

(***************************************************************************)
(* The specification                                                       *)
(***************************************************************************)

(* Every user is active when staffed; a task is born by create_adhoc_task or *)
(* by generation, which TaskLifecycle's Init describes.                      *)
Init ==
  /\ assignee_id \in [Task -> User \cup {NoUser}]
  /\ reviewer_id \in [Task -> User]
  /\ \A t \in Task : assignee_id[t] # reviewer_id[t]
  /\ status = [t \in Task |-> StatusAtCreation(assignee_id[t])]
  /\ deleted = [t \in Task |-> FALSE]
  /\ reviews = [t \in Task |-> << >>]
  /\ active = User
  /\ sess = [s \in Session |-> Idle]

(* What a session does with the request it has taken. *)
Step(s) ==
  \/ CommitTransition(s)
  \/ TransitionFails(s)
  \/ CheckReviewer(s)
  \/ CheckAssignee(s)
  \/ AutoflushFails(s)
  \/ RefuseAssignment(s)
  \/ CommitAssignment(s)
  \/ CommitDeletion(s)
  \/ ReplyFailed(s)

Receive(s, t, actor) ==
  \/ \E action \in TaskAction, target \in TaskStatus :
       \E comment \in CommentsAccepted(action) :
         LockForTransition(s, t, actor, action, target, comment)
  \/ \E assignee \in User \cup {NoUser, Unset}, reviewer \in User \cup {Unset} :
       LockForAssignment(s, t, actor, assignee, reviewer)
  \/ \E kind \in {"delete", "restore"} : LoadForDeletion(s, t, actor, kind)

Next ==
  \/ \E s \in Session : Step(s)
  \/ \E s \in Session, t \in Task, actor \in User : Receive(s, t, actor)
  \/ \E s \in Session : Crash(s)
  \/ \E u \in Togglable : UpdateUser(u)

Spec == Init /\ [][Next]_vars

(* A lock holder is never kept from its next statement, and PostgreSQL      *)
(* queues the waiters of a row, so a waiting UPDATE is not overtaken for    *)
(* ever by sessions that come later.  Nothing makes a request arrive.       *)
FairSpec ==
  /\ Spec
  /\ \A s \in Session : WF_vars(Step(s)) /\ SF_vars(CommitDeletion(s))

-----------------------------------------------------------------------------
(* Properties *)

(* A task has an owner exactly when it is past not_started: every staffing   *)
(* moves the status with the assignee, no workflow step loses the owner.     *)
StaffingAgrees ==
  \A t \in Task : status[t] = "not_started" <=> assignee_id[t] = NoUser

LastDecision(t) == reviews[t][Len(reviews[t])].decision

(* The review history tells the status: completed exactly when the last word *)
(* is an approval, changes_requested only on a request, one approval per     *)
(* completion, each undone by one reopening ("producing two task_review rows *)
(* for one approval" is what the lock is for).                               *)
LedgerAgrees ==
  \A t \in Task :
    /\ status[t] = "completed" <=>
         Len(reviews[t]) > 0 /\ LastDecision(t) = "approved"
    /\ status[t] = "changes_requested" =>
         Len(reviews[t]) > 0 /\ LastDecision(t) = "changes_requested"
    /\ \A i \in 1 .. Len(reviews[t]) :
         reviews[t][i].decision = "reopened" <=>
           i > 1 /\ reviews[t][i - 1].decision = "approved"

(* Every review row is by the task's reviewer of the moment it is committed, *)
(* or an admin, and no approval is by its assignee: what was checked on the  *)
(* locked row still holds when the row is written.                           *)
DecidedByAuthority ==
  [][\A t \in Task : reviews'[t] # reviews[t] =>
       \E action \in REVIEW_ACTIONS, actor \in User :
         /\ reviews'[t] = Append(reviews[t], [decision |-> REVIEW_DECISIONS[action],
                                              by |-> actor])
         /\ ActorMayAct(action, actor, assignee_id[t], reviewer_id[t])
         /\ ~ ApprovesOwnWork(action, actor, assignee_id[t])]_vars

(* "a deleted task retains its status and restore returns it exactly where   *)
(* it was": nothing moves on a deleted task, not even a request that read it *)
(* while it was live.                                                        *)
DeletedIsFrozen ==
  [][\A t \in Task : deleted[t] =>
       /\ status'[t] = status[t]
       /\ assignee_id'[t] = assignee_id[t]
       /\ reviewer_id'[t] = reviewer_id[t]
       /\ reviews'[t] = reviews[t]]_vars

(* Whatever the interleaving, the committed rows move as TaskLifecycle says. *)
L == INSTANCE TaskLifecycle
LifecycleSpec == L!Spec

(* No request waits or holds a lock for ever, crash or not. *)
RequestsEnd == \A s \in Session : []<>(sess[s] = Idle)

(* "services catch the resulting IntegrityError and translate it to a domain *)
(* error rather than let a 500 through", of the requests that write a task.  *)
ConstraintsTranslated == \A s \in Session : sess[s].kind # "failed"

-----------------------------------------------------------------------------
(* What makes the safety properties inductive: a lock has one holder, and    *)
(* what the holder read is still what the row holds.                         *)

OneHolder ==
  \A s1, s2 \in Session, t \in Task : Holds(s1, t) /\ Holds(s2, t) => s1 = s2

HeldTransitionIsAllowed ==
  \A s \in Session : sess[s].kind = "transition" =>
    TransitionAllowed(sess[s].task, sess[s].actor, sess[s].action, sess[s].target)

HeldRowIsCurrent ==
  \A s \in Session : sess[s].kind = "assignment" =>
    LET t == sess[s].task
    IN /\ ~ deleted[t]
       /\ sess[s].row = [status |-> status[t], assignee |-> assignee_id[t],
                         reviewer |-> reviewer_id[t]]

(* The induction invariant, which holds the columns, the history and the     *)
(* requests in flight together.                                              *)
IInv ==
  /\ TypeOK
  /\ OneHolder
  /\ HeldTransitionIsAllowed
  /\ HeldRowIsCurrent
  /\ StaffingAgrees
  /\ LedgerAgrees
=============================================================================

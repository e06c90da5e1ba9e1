------------------------- MODULE TaskServiceProofs -------------------------
(***************************************************************************)
(* Theorems about TaskService, for any users, tasks, sessions and bounds.  *)
(***************************************************************************)
EXTENDS TaskService, TLAPS

-----------------------------------------------------------------------------
(* Type correctness *)

LEMMA ReviewDecisionsType == REVIEW_DECISIONS \in [REVIEW_ACTIONS -> ReviewDecision]
  BY DEF REVIEW_DECISIONS, REVIEW_ACTIONS, ReviewDecision

(* The kind of what a session holds tells its fields. *)
LEMMA RequestShape ==
  ASSUME TypeOK, NEW s \in Session
  PROVE  /\ sess[s].kind = "transition" => sess[s] \in TransitionRequest
         /\ sess[s].kind = "assignment" => sess[s] \in AssignmentRequest
         /\ sess[s].kind \in {"delete", "restore"} => sess[s] \in DeletionRequest
  <1>1. CASE sess[s] = Idle
    BY <1>1 DEF Idle
  <1>2. CASE sess[s] \in TransitionRequest
    <2>1. sess[s].kind = "transition"
      BY <1>2 DEF TransitionRequest
    <2> QED
      BY <1>2, <2>1
  <1>3. CASE sess[s] \in AssignmentRequest
    <2>1. sess[s].kind = "assignment"
      BY <1>3 DEF AssignmentRequest
    <2> QED
      BY <1>3, <2>1
  <1>4. CASE sess[s] \in DeletionRequest
    <2>1. sess[s].kind \in {"delete", "restore"}
      BY <1>4 DEF DeletionRequest
    <2> QED
      BY <1>4, <2>1
  <1>5. CASE \E by \in {"transition", "assignment"} : sess[s] = Failed(by)
    BY <1>5 DEF Failed
  <1> QED
    BY <1>1, <1>2, <1>3, <1>4, <1>5 DEF TypeOK

LEMMA InitTypeOK == Init => TypeOK
  <1> SUFFICES ASSUME Init PROVE TypeOK
    OBVIOUS
  <1>1. status \in [Task -> TaskStatus]
    BY DEF Init, StatusAtCreation, TaskStatus
  <1>2. reviews \in [Task -> Seq(Review)]
    BY DEF Init
  <1>3. sess \in [Session -> {Idle}]
    BY DEF Init
  <1> QED
    BY <1>1, <1>2, <1>3 DEF Init, TypeOK

LEMMA StepTypeOK == TypeOK /\ [Next]_vars => TypeOK'
  <1> SUFFICES ASSUME TypeOK, [Next]_vars PROVE TypeOK'
    OBVIOUS
  <1> USE DEF TypeOK, rows
  <1>1. ASSUME NEW s \in Session, CommitTransition(s) PROVE TypeOK'
    <2>1. sess[s] \in TransitionRequest
      BY <1>1, RequestShape DEF CommitTransition
    <2>2. status' \in [Task -> TaskStatus]
      BY <1>1, <2>1 DEF CommitTransition, TransitionRequest
    <2>3. reviews' \in [Task -> Seq(Review)]
      <3> DEFINE review == [decision |-> REVIEW_DECISIONS[sess[s].action],
                            by |-> sess[s].actor]
      <3>1. CASE sess[s].action \in REVIEW_ACTIONS
        <4>1. review \in Review
          BY <2>1, <3>1, ReviewDecisionsType DEF TransitionRequest, Review
        <4>2. Append(reviews[sess[s].task], review) \in Seq(Review)
          BY <2>1, <4>1 DEF TransitionRequest
        <4>3. reviews' = [reviews EXCEPT ![sess[s].task] =
                            Append(reviews[sess[s].task], review)]
          BY <1>1, <3>1 DEF CommitTransition
        <4> QED
          BY <4>2, <4>3
      <3>2. CASE sess[s].action \notin REVIEW_ACTIONS
        BY <1>1, <3>2 DEF CommitTransition
      <3> QED
        BY <3>1, <3>2
    <2> QED
      BY <1>1, <2>2, <2>3 DEF CommitTransition, CloseSession
  <1>2. ASSUME NEW s \in Session, TransitionFails(s) PROVE TypeOK'
    BY <1>2 DEF TransitionFails, Fail
  <1>3. ASSUME NEW s \in Session, CheckReviewer(s) \/ CheckAssignee(s) PROVE TypeOK'
    <2>1. sess[s] \in AssignmentRequest
      BY <1>3, RequestShape DEF CheckReviewer, CheckAssignee
    <2>2. PICK left \in SUBSET {"reviewer", "assignee"} :
            sess' = [sess EXCEPT ![s].unchecked = left]
      BY <1>3, <2>1 DEF CheckReviewer, CheckAssignee, AssignmentRequest
    <2>3. [sess[s] EXCEPT !.unchecked = left] \in AssignmentRequest
      BY <2>1 DEF AssignmentRequest
    <2> QED
      BY <1>3, <2>2, <2>3 DEF CheckReviewer, CheckAssignee
  <1>4. ASSUME NEW s \in Session, AutoflushFails(s) PROVE TypeOK'
    BY <1>4 DEF AutoflushFails, Fail
  <1>5. ASSUME NEW s \in Session,
               RefuseAssignment(s) \/ ReplyFailed(s) \/ Crash(s) PROVE TypeOK'
    BY <1>5 DEF RefuseAssignment, ReplyFailed, Crash, CloseSession
  <1>6. ASSUME NEW s \in Session, CommitAssignment(s) PROVE TypeOK'
    <2>1. sess[s] \in AssignmentRequest
      BY <1>6, RequestShape DEF CommitAssignment
    <2>2. /\ NewAssignee(sess[s]) \in User \cup {NoUser}
          /\ NewReviewer(sess[s]) \in User
          /\ NewStatus(sess[s]) \in TaskStatus
      BY <2>1 DEF AssignmentRequest, NewAssignee, NewReviewer, NewStatus,
                  StatusAfterStaffing, TaskStatus
    <2> QED
      BY <1>6, <2>1, <2>2 DEF CommitAssignment, Flushed, CloseSession, AssignmentRequest
  <1>7. ASSUME NEW s \in Session, CommitDeletion(s) PROVE TypeOK'
    BY <1>7 DEF CommitDeletion, CloseSession
  <1>8. ASSUME NEW s \in Session, NEW t \in Task, NEW actor \in User, Receive(s, t, actor)
        PROVE TypeOK'
    <2>1. CASE \E action \in TaskAction, target \in TaskStatus :
                 \E comment \in CommentsAccepted(action) :
                   LockForTransition(s, t, actor, action, target, comment)
      BY <2>1 DEF LockForTransition, CommentsAccepted, Comment, TransitionRequest
    <2>2. CASE \E assignee \in User \cup {NoUser, Unset}, reviewer \in User \cup {Unset} :
                 LockForAssignment(s, t, actor, assignee, reviewer)
      BY <2>2 DEF LockForAssignment, AssignmentRequest, UsersToCheck
    <2>3. CASE \E kind \in {"delete", "restore"} : LoadForDeletion(s, t, actor, kind)
      BY <2>3 DEF LoadForDeletion, DeletionRequest
    <2> QED
      BY <1>8, <2>1, <2>2, <2>3 DEF Receive
  <1>9. ASSUME NEW u \in Togglable, UpdateUser(u) PROVE TypeOK'
    BY <1>9, BoundAssumption DEF UpdateUser
  <1>10. CASE UNCHANGED vars
    BY <1>10 DEF vars
  <1> QED
    BY <1>1, <1>2, <1>3, <1>4, <1>5, <1>6, <1>7, <1>8, <1>9, <1>10 DEF Next, Step

(* Every reachable state is well typed: columns hold what their SQL types    *)
(* and NOT NULLs admit, and a session holds one request at a time.           *)
THEOREM TypeCorrect == Spec => []TypeOK
  BY InitTypeOK, StepTypeOK, PTL DEF Spec

-----------------------------------------------------------------------------
(* Locks: what the holder of a row read stays what the row holds *)

LockFacts == OneHolder /\ HeldTransitionIsAllowed /\ HeldRowIsCurrent

SameRow(t) ==
  /\ status'[t] = status[t]
  /\ assignee_id'[t] = assignee_id[t]
  /\ reviewer_id'[t] = reviewer_id[t]
  /\ deleted'[t] = deleted[t]

(* A session that lets go of its lock may have changed that row, and a row   *)
(* nobody has locked, but no row another session holds.                      *)
LEMMA Release ==
  ASSUME TypeOK, LockFacts, NEW s \in Session, NEW x,
         x.kind \notin {"transition", "assignment"},
         sess' = [sess EXCEPT ![s] = x],
         \A t \in Task : SameRow(t) \/ \A other \in Session \ {s} : ~ Holds(other, t)
  PROVE  LockFacts'
  <1>1. sess'[s] = x /\ \A other \in Session \ {s} : sess'[other] = sess[other]
    BY DEF TypeOK
  <1>2. OneHolder'
    BY <1>1 DEF LockFacts, OneHolder, Holds
  <1>3. ASSUME NEW other \in Session, sess'[other].kind \in {"transition", "assignment"}
        PROVE  /\ sess'[other] = sess[other]
               /\ sess[other].task \in Task
               /\ SameRow(sess[other].task)
    <2>1. other # s /\ sess'[other] = sess[other]
      BY <1>1, <1>3
    <2>2. sess[other].task \in Task
      BY <1>3, <2>1, RequestShape DEF TransitionRequest, AssignmentRequest
    <2>3. Holds(other, sess[other].task)
      BY <1>3, <2>1 DEF Holds
    <2> QED
      BY <2>1, <2>2, <2>3
  <1>4. HeldTransitionIsAllowed'
    <2> SUFFICES ASSUME NEW other \in Session, sess'[other].kind = "transition"
                 PROVE  TransitionAllowed(sess[other].task, sess[other].actor,
                                          sess[other].action, sess[other].target)'
      BY <1>3 DEF HeldTransitionIsAllowed
    <2>1. TransitionAllowed(sess[other].task, sess[other].actor,
                            sess[other].action, sess[other].target)
      BY <1>3 DEF LockFacts, HeldTransitionIsAllowed
    <2> QED
      BY <1>3, <2>1 DEF TransitionAllowed, SameRow
  <1>5. HeldRowIsCurrent'
    BY <1>3 DEF LockFacts, HeldRowIsCurrent, SameRow
  <1> QED
    BY <1>2, <1>4, <1>5 DEF LockFacts

(* A session that takes the lock of a row nobody holds, having checked it. *)
LEMMA Acquire ==
  ASSUME TypeOK, LockFacts, NEW s \in Session, NEW t \in Task, NEW x,
         x.task = t, Unlocked(t), UNCHANGED rows,
         sess' = [sess EXCEPT ![s] = x],
         x.kind = "transition" => TransitionAllowed(t, x.actor, x.action, x.target),
         x.kind = "assignment" =>
           /\ ~ deleted[t]
           /\ x.row = [status |-> status[t], assignee |-> assignee_id[t],
                       reviewer |-> reviewer_id[t]]
  PROVE  LockFacts'
  <1>1. sess'[s] = x /\ \A other \in Session \ {s} : sess'[other] = sess[other]
    BY DEF TypeOK
  <1>2. OneHolder'
    BY <1>1 DEF LockFacts, OneHolder, Holds, Unlocked
  <1>3. HeldTransitionIsAllowed'
    BY <1>1 DEF LockFacts, HeldTransitionIsAllowed, TransitionAllowed, rows
  <1>4. HeldRowIsCurrent'
    BY <1>1 DEF LockFacts, HeldRowIsCurrent, rows
  <1> QED
    BY <1>2, <1>3, <1>4 DEF LockFacts

(* A holder that goes on with the same task and the same copy of its row. *)
LEMMA Continue ==
  ASSUME TypeOK, LockFacts, NEW s \in Session, NEW left,
         sess[s].kind = "assignment", UNCHANGED rows,
         sess' = [sess EXCEPT ![s].unchecked = left]
  PROVE  LockFacts'
  <1>1. /\ sess'[s].kind = sess[s].kind
        /\ sess'[s].task = sess[s].task
        /\ sess'[s].row = sess[s].row
    BY RequestShape DEF TypeOK, AssignmentRequest
  <1>2. \A other \in Session \ {s} : sess'[other] = sess[other]
    BY DEF TypeOK
  <1>3. OneHolder'
    BY <1>1, <1>2 DEF LockFacts, OneHolder, Holds
  <1>4. HeldTransitionIsAllowed'
    BY <1>1, <1>2 DEF LockFacts, HeldTransitionIsAllowed, TransitionAllowed, rows
  <1>5. HeldRowIsCurrent'
    BY <1>1, <1>2 DEF LockFacts, HeldRowIsCurrent, rows
  <1> QED
    BY <1>3, <1>4, <1>5 DEF LockFacts

LEMMA StepLockFacts == TypeOK /\ LockFacts /\ [Next]_vars => LockFacts'
  <1> SUFFICES ASSUME TypeOK, LockFacts, [Next]_vars PROVE LockFacts'
    OBVIOUS
  <1>1. ASSUME NEW s \in Session,
               \/ TransitionFails(s) \/ AutoflushFails(s) \/ RefuseAssignment(s)
               \/ ReplyFailed(s) \/ Crash(s)
        PROVE  LockFacts'
    <2>1. \A t \in Task : SameRow(t)
      BY <1>1 DEF TransitionFails, AutoflushFails, RefuseAssignment, ReplyFailed, Crash,
                  rows, SameRow
    <2>2. CASE CloseSession(s)
      <3>1. Idle.kind \notin {"transition", "assignment"}
        BY DEF Idle
      <3> QED
        BY <2>1, <2>2, <3>1, Release DEF CloseSession
    <2>3. ASSUME NEW by, Fail(s, by) PROVE LockFacts'
      <3>1. Failed(by).kind \notin {"transition", "assignment"}
        BY DEF Failed
      <3> QED
        BY <2>1, <2>3, <3>1, Release DEF Fail
    <2> QED
      BY <1>1, <2>2, <2>3 DEF TransitionFails, AutoflushFails, RefuseAssignment,
                              ReplyFailed, Crash
  <1>2. ASSUME NEW s \in Session, CommitTransition(s) \/ CommitAssignment(s)
        PROVE  LockFacts'
    <2>1. sess[s].task \in Task /\ Holds(s, sess[s].task)
      BY <1>2, RequestShape DEF CommitTransition, CommitAssignment, Holds,
                                TransitionRequest, AssignmentRequest
    <2>2. \A t \in Task \ {sess[s].task} : SameRow(t)
      BY <1>2, <2>1 DEF CommitTransition, CommitAssignment, SameRow, TypeOK
    <2>3. \A other \in Session \ {s} : ~ Holds(other, sess[s].task)
      BY <2>1 DEF LockFacts, OneHolder
    <2>4. sess' = [sess EXCEPT ![s] = Idle] /\ Idle.kind \notin {"transition", "assignment"}
      BY <1>2 DEF CommitTransition, CommitAssignment, CloseSession, Idle
    <2> QED
      BY <2>2, <2>3, <2>4, Release
  <1>3. ASSUME NEW s \in Session, CommitDeletion(s) PROVE LockFacts'
    <2>1. \A t \in Task \ {sess[s].task} : SameRow(t)
      BY <1>3 DEF CommitDeletion, SameRow, TypeOK
    <2>2. \A other \in Session \ {s} : ~ Holds(other, sess[s].task)
      BY <1>3 DEF CommitDeletion, Unlocked
    <2>3. sess' = [sess EXCEPT ![s] = Idle] /\ Idle.kind \notin {"transition", "assignment"}
      BY <1>3 DEF CommitDeletion, CloseSession, Idle
    <2> QED
      BY <2>1, <2>2, <2>3, Release
  <1>4. ASSUME NEW s \in Session, CheckReviewer(s) \/ CheckAssignee(s) PROVE LockFacts'
    <2>1. PICK left : sess' = [sess EXCEPT ![s].unchecked = left]
      BY <1>4 DEF CheckReviewer, CheckAssignee
    <2> QED
      BY <1>4, <2>1, Continue DEF CheckReviewer, CheckAssignee
  <1>5. ASSUME NEW s \in Session, NEW t \in Task, NEW actor \in User, Receive(s, t, actor)
        PROVE  LockFacts'
    <2>1. ASSUME NEW action, NEW target, NEW comment,
                 LockForTransition(s, t, actor, action, target, comment)
          PROVE  LockFacts'
      <3> DEFINE x == [kind |-> "transition", task |-> t, actor |-> actor,
                       action |-> action, target |-> target, comment |-> comment]
      <3>1. sess' = [sess EXCEPT ![s] = x] /\ Unlocked(t) /\ UNCHANGED rows
        BY <2>1 DEF LockForTransition
      <3>2. TransitionAllowed(t, x.actor, x.action, x.target)
        BY <2>1 DEF LockForTransition
      <3>3. x.task = t /\ x.kind = "transition"
        OBVIOUS
      <3> HIDE DEF x
      <3> QED
        BY <3>1, <3>2, <3>3, Acquire
    <2>2. ASSUME NEW assignee, NEW reviewer, LockForAssignment(s, t, actor, assignee, reviewer)
          PROVE  LockFacts'
      <3> DEFINE x == [kind |-> "assignment", task |-> t, assignee |-> assignee,
                       reviewer |-> reviewer,
                       unchecked |-> UsersToCheck(assignee, reviewer),
                       row |-> [status |-> status[t], assignee |-> assignee_id[t],
                                reviewer |-> reviewer_id[t]]]
      <3>1. sess' = [sess EXCEPT ![s] = x] /\ Unlocked(t) /\ UNCHANGED rows /\ ~ deleted[t]
        BY <2>2 DEF LockForAssignment, AssignmentAllowed
      <3>2. /\ x.task = t /\ x.kind = "assignment"
            /\ x.row = [status |-> status[t], assignee |-> assignee_id[t],
                        reviewer |-> reviewer_id[t]]
        OBVIOUS
      <3> HIDE DEF x
      <3> QED
        BY <3>1, <3>2, Acquire
    <2>3. ASSUME NEW kind \in {"delete", "restore"}, LoadForDeletion(s, t, actor, kind)
          PROVE  LockFacts'
      <3> DEFINE x == [kind |-> kind, task |-> t]
      <3>1. x.kind \notin {"transition", "assignment"}
        OBVIOUS
      <3>2. sess' = [sess EXCEPT ![s] = x] /\ \A u \in Task : SameRow(u)
        BY <2>3 DEF LoadForDeletion, rows, SameRow
      <3> HIDE DEF x
      <3> QED
        BY <3>1, <3>2, Release
    <2> QED
      BY <1>5, <2>1, <2>2, <2>3 DEF Receive
  <1>6. CASE UNCHANGED <<rows, sess>>
    BY <1>6 DEF rows, LockFacts, OneHolder, Holds, HeldTransitionIsAllowed,
                TransitionAllowed, HeldRowIsCurrent
  <1> QED
    BY <1>1, <1>2, <1>3, <1>4, <1>5, <1>6 DEF Next, Step, UpdateUser, vars, rows

LEMMA InitIInv == Init => IInv
  <1> SUFFICES ASSUME Init PROVE IInv
    OBVIOUS
  <1>1. TypeOK
    BY InitTypeOK
  <1>2. \A s \in Session : sess[s].kind = "idle"
    BY DEF Init, Idle
  <1>3. LockFacts
    BY <1>2 DEF LockFacts, OneHolder, Holds, HeldTransitionIsAllowed, HeldRowIsCurrent
  <1>4. StaffingAgrees
    BY DEF Init, StaffingAgrees, StatusAtCreation
  <1>5. LedgerAgrees
    BY DEF Init, LedgerAgrees, StatusAtCreation
  <1> QED
    BY <1>1, <1>3, <1>4, <1>5 DEF IInv, LockFacts

-----------------------------------------------------------------------------
(* What each commit does to the row it holds *)

(* The facts a commit of transition_task rests on. *)
LEMMA CommitTransitionFacts ==
  ASSUME IInv, NEW s \in Session, CommitTransition(s)
  PROVE  /\ sess[s] \in TransitionRequest
         /\ TransitionAllowed(sess[s].task, sess[s].actor, sess[s].action, sess[s].target)
  BY RequestShape DEF CommitTransition, IInv, HeldTransitionIsAllowed

(* The facts a commit of update_assignment rests on: what it writes is       *)
(* computed from the row as it still is.                                     *)
LEMMA CommitAssignmentFacts ==
  ASSUME IInv, NEW s \in Session, CommitAssignment(s)
  PROVE  \E t \in Task, assignee \in User \cup {NoUser}, reviewer \in User :
           /\ ~ deleted[t]
           /\ assignee # reviewer
           /\ assignee = NoUser =>
                assignee_id[t] = NoUser \/ status[t] \in UNSTAFFED_STATUSES
           /\ assignee_id' = [assignee_id EXCEPT ![t] = assignee]
           /\ reviewer_id' = [reviewer_id EXCEPT ![t] = reviewer]
           /\ status' = [status EXCEPT ![t] = StatusAfterStaffing(status[t], assignee)]
           /\ UNCHANGED <<deleted, reviews>>
  <1> DEFINE request == sess[s]
             t == request.task
             assignee == NewAssignee(request)
             reviewer == NewReviewer(request)
  <1>1. request \in AssignmentRequest
    BY RequestShape DEF CommitAssignment, IInv
  <1>2. /\ t \in Task
        /\ request.assignee \in User \cup {NoUser, Unset}
        /\ request.reviewer \in User \cup {Unset}
    BY <1>1 DEF AssignmentRequest
  <1>3. /\ ~ deleted[t]
        /\ request.row.status = status[t]
        /\ request.row.assignee = assignee_id[t]
        /\ request.row.reviewer = reviewer_id[t]
    <2>1. sess[s].kind = "assignment"
      BY DEF CommitAssignment
    <2>2. /\ ~ deleted[t]
          /\ request.row = [status |-> status[t], assignee |-> assignee_id[t],
                            reviewer |-> reviewer_id[t]]
      BY <2>1 DEF IInv, HeldRowIsCurrent
    <2> QED
      BY <2>2
  <1>4. assignee \in User \cup {NoUser} /\ reviewer \in User
    BY <1>2, <1>3 DEF NewAssignee, NewReviewer, IInv, TypeOK
  <1>5. assignee # reviewer
    BY DEF CommitAssignment, DistinctPeople
  <1>6. assignee = NoUser => assignee_id[t] = NoUser \/ status[t] \in UNSTAFFED_STATUSES
    BY <1>3 DEF CommitAssignment, UnassignmentAllowed, NewAssignee
  <1>7. NewStatus(request) = StatusAfterStaffing(status[t], assignee)
    <2>1. CASE request.assignee = Unset
      BY <1>2, <1>3, <2>1 DEF NewStatus, NewAssignee, StatusAfterStaffing, IInv, StaffingAgrees
    <2>2. CASE request.assignee # Unset
      BY <1>3, <2>2 DEF NewStatus, NewAssignee
    <2> QED
      BY <2>1, <2>2
  <1>8. /\ assignee_id' = [assignee_id EXCEPT ![t] = assignee]
        /\ reviewer_id' = [reviewer_id EXCEPT ![t] = reviewer]
        /\ status' = [status EXCEPT ![t] = NewStatus(request)]
        /\ UNCHANGED <<deleted, reviews>>
    BY <1>2, <1>3 DEF CommitAssignment, Flushed, IInv, TypeOK
  <1> HIDE DEF request, t, assignee, reviewer
  <1> QED
    BY <1>2, <1>3, <1>4, <1>5, <1>6, <1>7, <1>8

(* No other step changes a status, a staffing or the reviews of a task. *)
LEMMA OtherSteps ==
  ASSUME [Next]_vars
  PROVE  \/ \E s \in Session : CommitTransition(s) \/ CommitAssignment(s)
         \/ UNCHANGED <<status, assignee_id, reviewer_id, reviews>>
  BY DEF Next, Step, Receive, vars, rows, TransitionFails, CheckReviewer, CheckAssignee,
         AutoflushFails, RefuseAssignment, CommitDeletion, ReplyFailed, Crash, UpdateUser,
         LockForTransition, LockForAssignment, LoadForDeletion

LEMMA StepStaffing == IInv /\ [Next]_vars => StaffingAgrees'
  <1> SUFFICES ASSUME IInv, [Next]_vars PROVE StaffingAgrees'
    OBVIOUS
  <1>1. ASSUME NEW s \in Session, CommitTransition(s) PROVE StaffingAgrees'
    <2>1. sess[s].task \in Task
      BY <1>1, CommitTransitionFacts DEF TransitionRequest
    <2>2. status[sess[s].task] # "not_started" /\ sess[s].target # "not_started"
      BY <1>1, CommitTransitionFacts DEF TransitionAllowed, TRANSITIONS
    <2> QED
      BY <1>1, <2>1, <2>2 DEF CommitTransition, IInv, TypeOK, StaffingAgrees
  <1>2. ASSUME NEW s \in Session, CommitAssignment(s) PROVE StaffingAgrees'
    BY <1>2, CommitAssignmentFacts DEF IInv, TypeOK, StaffingAgrees, StatusAfterStaffing,
                                       UNSTAFFED_STATUSES
  <1>3. CASE UNCHANGED <<status, assignee_id, reviewer_id, reviews>>
    BY <1>3 DEF IInv, StaffingAgrees
  <1> QED
    BY <1>1, <1>2, <1>3, OtherSteps

(* LedgerAgrees of one task's history and status. *)
LedgerOf(history, st) ==
  /\ st = "completed" <=> Len(history) > 0 /\ history[Len(history)].decision = "approved"
  /\ st = "changes_requested" =>
       Len(history) > 0 /\ history[Len(history)].decision = "changes_requested"
  /\ \A i \in 1 .. Len(history) :
       history[i].decision = "reopened" <=> i > 1 /\ history[i - 1].decision = "approved"

LEMMA LedgerAppend ==
  ASSUME NEW history \in Seq(Review), NEW from, NEW action \in REVIEW_ACTIONS, NEW to,
         NEW actor \in User, LedgerOf(history, from), <<from, action, to>> \in TRANSITIONS
  PROVE  LedgerOf(Append(history, [decision |-> REVIEW_DECISIONS[action], by |-> actor]), to)
  <1> DEFINE decision == REVIEW_DECISIONS[action]
             longer == Append(history, [decision |-> decision, by |-> actor])
             n == Len(history)
  <1>1. /\ n \in Nat
        /\ Len(longer) = n + 1
        /\ longer[n + 1].decision = decision
        /\ \A i \in 1 .. n : longer[i] = history[i]
    OBVIOUS
  <1>2. \/ action = "approve" /\ from = "ready_for_review" /\ to = "completed"
           /\ decision = "approved"
        \/ action = "request-changes" /\ from = "ready_for_review"
           /\ to = "changes_requested" /\ decision = "changes_requested"
        \/ action = "reopen" /\ from = "completed" /\ to = "in_progress"
           /\ decision = "reopened"
    BY DEF TRANSITIONS, REVIEW_ACTIONS, REVIEW_DECISIONS
  <1>3. decision = "reopened" <=> n + 1 > 1 /\ history[n].decision = "approved"
    BY <1>1, <1>2 DEF LedgerOf
  <1> HIDE DEF longer, decision
  <1>4. \A i \in 1 .. Len(longer) :
          longer[i].decision = "reopened" <=> i > 1 /\ longer[i - 1].decision = "approved"
    <2> SUFFICES ASSUME NEW i \in 1 .. n + 1
                 PROVE  longer[i].decision = "reopened"
                          <=> i > 1 /\ longer[i - 1].decision = "approved"
      BY <1>1
    <2>1. CASE i = n + 1
      BY <1>1, <1>3, <2>1
    <2>2. CASE i \in 1 .. n
      <3>1. longer[i] = history[i] /\ (i > 1 => longer[i - 1] = history[i - 1])
        BY <1>1, <2>2
      <3>2. history[i].decision = "reopened" <=> i > 1 /\ history[i - 1].decision = "approved"
        BY <2>2 DEF LedgerOf
      <3> QED
        BY <3>1, <3>2
    <2> QED
      BY <1>1, <2>1, <2>2
  <1>5. LedgerOf(longer, to)
    <2>1. Len(longer) > 0 /\ longer[Len(longer)].decision = decision
      BY <1>1
    <2>2. /\ to = "completed" <=> decision = "approved"
          /\ to = "changes_requested" => decision = "changes_requested"
      BY <1>2
    <2> QED
      BY <1>4, <2>1, <2>2 DEF LedgerOf
  <1> QED
    BY <1>5 DEF longer, decision

(* An action of the table that is not a review neither completes a task nor  *)
(* takes it out of completed, and never ends in changes_requested.           *)
LEMMA OtherActionsKeepLedger ==
  ASSUME NEW history, NEW from, NEW action, action \notin REVIEW_ACTIONS, NEW to,
         LedgerOf(history, from), <<from, action, to>> \in TRANSITIONS
  PROVE  LedgerOf(history, to)
  <1>1. from # "completed" /\ to # "completed" /\ to # "changes_requested"
    BY DEF TRANSITIONS, REVIEW_ACTIONS
  <1> QED
    BY <1>1 DEF LedgerOf

LEMMA LedgerSplit == LedgerAgrees <=> \A t \in Task : LedgerOf(reviews[t], status[t])
  BY DEF LedgerAgrees, LastDecision, LedgerOf

LEMMA StepLedger == IInv /\ [Next]_vars => LedgerAgrees'
  <1> SUFFICES ASSUME IInv, [Next]_vars, NEW t \in Task
               PROVE  LedgerOf(reviews'[t], status'[t])
    BY DEF LedgerAgrees, LastDecision, LedgerOf
  <1>1. LedgerOf(reviews[t], status[t]) /\ reviews[t] \in Seq(Review)
    BY LedgerSplit DEF IInv, TypeOK
  <1>2. ASSUME NEW s \in Session, CommitTransition(s) PROVE LedgerOf(reviews'[t], status'[t])
    <2> DEFINE action == sess[s].action
               actor == sess[s].actor
    <2>1. /\ sess[s].task \in Task /\ actor \in User
          /\ <<status[sess[s].task], action, sess[s].target>> \in TRANSITIONS
      BY <1>2, CommitTransitionFacts DEF TransitionRequest, TransitionAllowed
    <2>2. CASE t # sess[s].task
      BY <1>1, <1>2, <2>1, <2>2 DEF CommitTransition, IInv, TypeOK
    <2>3. CASE t = sess[s].task /\ action \in REVIEW_ACTIONS
      <3>1. status'[t] = sess[s].target
        BY <1>2, <2>3 DEF CommitTransition, IInv, TypeOK
      <3>2. reviews'[t] = Append(reviews[t], [decision |-> REVIEW_DECISIONS[action],
                                              by |-> actor])
        BY <1>2, <2>3 DEF CommitTransition, IInv, TypeOK
      <3> QED
        BY <1>1, <2>1, <2>3, <3>1, <3>2, LedgerAppend
    <2>4. CASE t = sess[s].task /\ action \notin REVIEW_ACTIONS
      <3>1. status'[t] = sess[s].target /\ reviews' = reviews
        BY <1>2, <2>4 DEF CommitTransition, IInv, TypeOK
      <3> QED
        BY <1>1, <2>1, <2>4, <3>1, OtherActionsKeepLedger
    <2> QED
      BY <2>2, <2>3, <2>4
  <1>3. ASSUME NEW s \in Session, CommitAssignment(s) PROVE LedgerOf(reviews'[t], status'[t])
    <2>1. reviews' = reviews
      BY <1>3 DEF CommitAssignment
    <2>2. \/ status'[t] = status[t]
          \/ {status[t], status'[t]} = {"not_started", "assigned"}
      BY <1>3, CommitAssignmentFacts DEF IInv, TypeOK, StatusAfterStaffing
    <2> QED
      BY <1>1, <2>1, <2>2 DEF LedgerOf
  <1>4. CASE UNCHANGED <<status, assignee_id, reviewer_id, reviews>>
    BY <1>1, <1>4
  <1> QED
    BY <1>2, <1>3, <1>4, OtherSteps

-----------------------------------------------------------------------------
(* The safety theorems *)

LEMMA StepIInv == IInv /\ [Next]_vars => IInv'
  BY StepTypeOK, StepLockFacts, StepStaffing, StepLedger DEF IInv, LockFacts

(* The induction invariant holds for ever: one holder per row, holding what  *)
(* it read, over rows whose status, owner and history agree.                 *)
THEOREM Inductive == Spec => []IInv
  BY InitIInv, StepIInv, PTL DEF Spec

(* A task has an owner exactly when it is past not_started. *)
THEOREM StaffingSafe == Spec => []StaffingAgrees
  <1>1. IInv => StaffingAgrees
    BY DEF IInv
  <1> QED
    BY <1>1, Inductive, PTL

(* The review history always tells the status: no completion without its one *)
(* approval, no approval written twice.                                      *)
THEOREM LedgerSafe == Spec => []LedgerAgrees
  <1>1. IInv => LedgerAgrees
    BY DEF IInv
  <1> QED
    BY <1>1, Inductive, PTL

(* No request moves anything but the deletion flag of a deleted task. *)
THEOREM DeletedFrozen == Spec => DeletedIsFrozen
  <1> DEFINE Frozen == \A t \in Task : deleted[t] =>
                         /\ status'[t] = status[t]
                         /\ assignee_id'[t] = assignee_id[t]
                         /\ reviewer_id'[t] = reviewer_id[t]
                         /\ reviews'[t] = reviews[t]
  <1>1. IInv /\ [Next]_vars => Frozen
    <2> SUFFICES ASSUME IInv, [Next]_vars, NEW t \in Task, deleted[t]
                 PROVE  /\ status'[t] = status[t]
                        /\ assignee_id'[t] = assignee_id[t]
                        /\ reviewer_id'[t] = reviewer_id[t]
                        /\ reviews'[t] = reviews[t]
      OBVIOUS
    <2>1. ASSUME NEW s \in Session, CommitTransition(s)
          PROVE  UNCHANGED <<status[t], assignee_id[t], reviewer_id[t], reviews[t]>>
      <3>1. sess[s].task # t /\ sess[s].task \in Task
        BY <2>1, CommitTransitionFacts DEF TransitionAllowed, TransitionRequest
      <3> QED
        BY <2>1, <3>1 DEF CommitTransition, IInv, TypeOK
    <2>2. ASSUME NEW s \in Session, CommitAssignment(s)
          PROVE  UNCHANGED <<status[t], assignee_id[t], reviewer_id[t], reviews[t]>>
      BY <2>2, CommitAssignmentFacts DEF IInv, TypeOK
    <2> QED
      BY <2>1, <2>2, OtherSteps
  <1> QED
    BY <1>1, Inductive, PTL DEF Spec, DeletedIsFrozen

(* Every committed review is by the reviewer of that moment or an admin, and *)
(* no approval by the assignee of that moment.                               *)
THEOREM ReviewsAuthorised == Spec => DecidedByAuthority
  <1> DEFINE Authorised(t) ==
        \E action \in REVIEW_ACTIONS, actor \in User :
          /\ reviews'[t] = Append(reviews[t], [decision |-> REVIEW_DECISIONS[action],
                                               by |-> actor])
          /\ ActorMayAct(action, actor, assignee_id[t], reviewer_id[t])
          /\ ~ ApprovesOwnWork(action, actor, assignee_id[t])
  <1>1. IInv /\ [Next]_vars => \A t \in Task : reviews'[t] # reviews[t] => Authorised(t)
    <2> SUFFICES ASSUME IInv, [Next]_vars, NEW t \in Task, reviews'[t] # reviews[t]
                 PROVE  Authorised(t)
      OBVIOUS
    <2>1. PICK s \in Session : CommitTransition(s)
      BY OtherSteps, CommitAssignmentFacts
    <2>2. sess[s].action \in REVIEW_ACTIONS /\ sess[s].task = t
      BY <2>1, CommitTransitionFacts DEF CommitTransition, TransitionRequest, IInv, TypeOK
    <2>3. reviews'[t] = Append(reviews[t], [decision |-> REVIEW_DECISIONS[sess[s].action],
                                            by |-> sess[s].actor])
      BY <2>1, <2>2 DEF CommitTransition, IInv, TypeOK
    <2>4. sess[s].actor \in User
      BY <2>1, CommitTransitionFacts DEF TransitionRequest
    <2>5. /\ ActorMayAct(sess[s].action, sess[s].actor, assignee_id[t], reviewer_id[t])
          /\ ~ ApprovesOwnWork(sess[s].action, sess[s].actor, assignee_id[t])
      BY <2>1, <2>2, CommitTransitionFacts DEF TransitionAllowed
    <2> QED
      BY <2>2, <2>3, <2>4, <2>5
  <1> QED
    BY <1>1, Inductive, PTL DEF Spec, DecidedByAuthority

-----------------------------------------------------------------------------
(* TaskService implements TaskLifecycle *)

(* The rules TaskLifecycle extends are the ones TaskService extends. *)
LEMMA SameRules ==
  /\ L!TRANSITIONS = TRANSITIONS
  /\ L!TaskAction = TaskAction
  /\ L!TaskStatus = TaskStatus
  /\ L!REVIEW_ACTIONS = REVIEW_ACTIONS
  /\ L!REVIEW_DECISIONS = REVIEW_DECISIONS
  /\ L!UNSTAFFED_STATUSES = UNSTAFFED_STATUSES
  BY DEF L!TRANSITIONS, TRANSITIONS, L!TaskAction, TaskAction, L!TaskStatus, TaskStatus,
         L!REVIEW_ACTIONS, REVIEW_ACTIONS, L!REVIEW_DECISIONS, REVIEW_DECISIONS,
         L!UNSTAFFED_STATUSES, UNSTAFFED_STATUSES

LEMMA SameOperators ==
  ASSUME NEW a, NEW b, NEW c, NEW d
  PROVE  /\ L!ActorMayAct(a, b, c, d) <=> ActorMayAct(a, b, c, d)
         /\ L!ApprovesOwnWork(a, b, c) <=> ApprovesOwnWork(a, b, c)
         /\ L!StatusAfterStaffing(a, b) = StatusAfterStaffing(a, b)
         /\ L!StatusAtCreation(a) = StatusAtCreation(a)
  BY SameRules DEF L!ActorMayAct, ActorMayAct, L!ApprovesOwnWork, ApprovesOwnWork,
                   L!StatusAfterStaffing, StatusAfterStaffing,
                   L!StatusAtCreation, StatusAtCreation

LEMMA InitRefines == Init => L!Init
  BY SameOperators DEF Init, L!Init

LEMMA StepRefines == IInv /\ [Next]_vars => [L!Next]_(L!lifecycleVars)
  <1> SUFFICES ASSUME IInv, [Next]_vars PROVE L!Next \/ UNCHANGED L!lifecycleVars
    OBVIOUS
  <1>1. ASSUME NEW s \in Session, CommitTransition(s) PROVE L!Next
    <2> DEFINE t == sess[s].task
               action == sess[s].action
               actor == sess[s].actor
               to == sess[s].target
    <2>1. t \in Task /\ action \in TaskAction /\ actor \in User /\ to \in TaskStatus
      BY <1>1, CommitTransitionFacts DEF TransitionRequest
    <2>2. L!WorkflowStep(t, action, actor, to)
      <3>1. /\ ~ deleted[t]
            /\ <<status[t], action, to>> \in L!TRANSITIONS
            /\ L!ActorMayAct(action, actor, assignee_id[t], reviewer_id[t])
            /\ ~ L!ApprovesOwnWork(action, actor, assignee_id[t])
        BY <1>1, CommitTransitionFacts, SameRules, SameOperators DEF TransitionAllowed
      <3>2. /\ status' = [status EXCEPT ![t] = to]
            /\ reviews' = IF action \in L!REVIEW_ACTIONS
                          THEN [reviews EXCEPT ![t] =
                                  Append(@, [decision |-> L!REVIEW_DECISIONS[action],
                                             by |-> actor])]
                          ELSE reviews
            /\ UNCHANGED <<assignee_id, reviewer_id, deleted>>
        BY <1>1, SameRules DEF CommitTransition
      <3> QED
        BY <3>1, <3>2 DEF L!WorkflowStep
    <2> HIDE DEF t, action, actor, to
    <2> QED
      BY <2>1, <2>2, SameRules DEF L!Next
  <1>2. ASSUME NEW s \in Session, CommitAssignment(s) PROVE L!Next
    <2>1. PICK t \in Task, assignee \in User \cup {NoUser}, reviewer \in User :
            L!StaffingStep(t, assignee, reviewer)
      BY <1>2, CommitAssignmentFacts, SameRules, SameOperators DEF L!StaffingStep
    <2> QED
      BY <2>1 DEF L!Next
  <1>3. ASSUME NEW s \in Session, CommitDeletion(s) PROVE L!Next
    <2>1. sess[s].task \in Task
      BY <1>3, RequestShape DEF CommitDeletion, IInv, DeletionRequest
    <2>2. L!DeletionStep(sess[s].task)
      BY <1>3 DEF CommitDeletion, L!DeletionStep
    <2> QED
      BY <2>1, <2>2 DEF L!Next
  <1>4. \/ \E s \in Session : CommitTransition(s) \/ CommitAssignment(s) \/ CommitDeletion(s)
        \/ UNCHANGED L!lifecycleVars
    BY DEF Next, Step, Receive, vars, rows, TransitionFails, CheckReviewer, CheckAssignee,
           AutoflushFails, RefuseAssignment, ReplyFailed, Crash, UpdateUser,
           LockForTransition, LockForAssignment, LoadForDeletion, L!lifecycleVars
  <1> QED
    BY <1>1, <1>2, <1>3, <1>4

(* Statement-by-statement sessions, locks, refusals and crashes included,    *)
(* change the committed rows only as TaskLifecycle allows.                   *)
THEOREM Refinement == Spec => LifecycleSpec
  BY InitRefines, StepRefines, Inductive, PTL DEF Spec, LifecycleSpec, L!Spec
=============================================================================

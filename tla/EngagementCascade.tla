------------------------- MODULE EngagementCascade -------------------------
(***************************************************************************)
(* One engagement and its tasks along the deletion axis:                   *)
(* soft_delete_engagement and restore_engagement, statement by statement,  *)
(* beside create_adhoc_task, soft_delete_task and restore_task.            *)
(*                                                                         *)
(* The cascade keeps no list of what it deleted.  It relies on one equal   *)
(* timestamp in the engagement row and in the task rows, on the row lock   *)
(* its first UPDATE takes, and on what each SELECT sees at its own moment  *)
(* (READ COMMITTED).                                                       *)
(***************************************************************************)
EXTENDS Naturals

CONSTANTS Task,       \* ids a task of the engagement may get
          Session,    \* database sessions, one per request
          MaxClock    \* bound: number of datetime.now() calls

ASSUME BoundAssumption == MaxClock \in Nat

VARIABLES
  existing,         \* the task rows inserted so far
  deleted_at,       \* of each task; 0 is NULL
  reason,           \* deletion_reason of each task, by who wrote it
  eng_deleted_at,   \* the engagement's deleted_at
  slot_taken,       \* another live engagement has the client, service and period
  clock,            \* the last timestamp read
  sess,             \* what each session's request holds
  overlapped        \* remembered by no code: a delete or restore of the
                    \* engagement was loaded while another one was in flight

taskRows == <<existing, deleted_at, reason>>
engRow == <<eng_deleted_at, slot_taken>>
vars == <<existing, deleted_at, reason, eng_deleted_at, slot_taken, clock, sess, overlapped>>

Null == 0
Stamp == 1 .. MaxClock
Reason == {"none", "task", "cascade"}

(* An engagement request flushes the engagement row (and so locks it), then  *)
(* selects the tasks, then commits; `stamp' is the new deleted_at of a       *)
(* delete, the cascade_marker of a restore.                                  *)
CascadeRequest ==
  [kind : {"delete", "restore"}, phase : {"loaded", "flushed"}, stamp : Stamp]
    \cup [kind : {"delete", "restore"}, phase : {"selected"}, stamp : Stamp,
          tasks : SUBSET Task]

TaskRequest ==
  [kind : {"add", "restore_task"}, task : Task]
    \cup [kind : {"delete_task"}, task : Task, stamp : Stamp]

Idle == [kind |-> "idle"]

TypeOK ==
  /\ existing \in SUBSET Task
  /\ deleted_at \in [Task -> {Null} \cup Stamp]
  /\ reason \in [Task -> Reason]
  /\ eng_deleted_at \in {Null} \cup Stamp
  /\ slot_taken \in BOOLEAN
  /\ clock \in 0 .. MaxClock
  /\ sess \in [Session -> {Idle} \cup CascadeRequest \cup TaskRequest]
  /\ overlapped \in BOOLEAN
  /\ \A t \in Task : deleted_at[t] = Null <=> reason[t] = "none"
  /\ \A t \in Task \ existing : deleted_at[t] = Null

(* A request that is in flight already goes on, or one on a task begins. *)
Hold(s, request) == sess' = [sess EXCEPT ![s] = request] /\ UNCHANGED overlapped

(* datetime.now(timezone.utc): the calls of one server never read the same.  *)
Now(stamp) == clock < MaxClock /\ stamp = clock + 1 /\ clock' = stamp

OnEngagement(s) == sess[s].kind \in {"delete", "restore"}

(* The UPDATE of the engagement row has been sent and not yet committed. *)
LocksEngagement(s) == OnEngagement(s) /\ sess[s].phase \in {"flushed", "selected"}

EngagementUnlocked == \A s \in Session : ~ LocksEngagement(s)

(* Nothing keeps a request for the engagement from being loaded beside one   *)
(* that is in flight.                                                        *)
Start(s, request) ==
  /\ sess[s] = Idle
  /\ sess' = [sess EXCEPT ![s] = request]
  /\ overlapped' = (overlapped \/ \E other \in Session : OnEngagement(other))

(***************************************************************************)
(* soft_delete_engagement                                                  *)
(***************************************************************************)

LoadForDelete(s) ==
  /\ eng_deleted_at = Null
  /\ \E stamp \in Stamp :
       Now(stamp) /\ Start(s, [kind |-> "delete", phase |-> "loaded", stamp |-> stamp])
  /\ UNCHANGED <<taskRows, engRow>>

(* The autoflush before the SELECT of the tasks: UPDATE engagement ... WHERE *)
(* id = ..., which waits for the row and does not look at deleted_at again.  *)
FlushDelete(s) ==
  /\ sess[s].kind = "delete" /\ sess[s].phase = "loaded"
  /\ EngagementUnlocked
  /\ Hold(s, [sess[s] EXCEPT !.phase = "flushed"])
  /\ UNCHANGED <<taskRows, engRow, clock>>

LiveTasks == {t \in existing : deleted_at[t] = Null}

SelectForDelete(s) ==
  /\ sess[s].kind = "delete" /\ sess[s].phase = "flushed"
  /\ Hold(s, [kind |-> "delete", phase |-> "selected", stamp |-> sess[s].stamp,
              tasks |-> LiveTasks])
  /\ UNCHANGED <<taskRows, engRow, clock>>

(* The tasks' UPDATEs are by primary key: they overwrite whatever another    *)
(* session wrote since the SELECT.                                           *)
CommitDelete(s) ==
  /\ sess[s].kind = "delete" /\ sess[s].phase = "selected"
  /\ eng_deleted_at' = sess[s].stamp
  /\ deleted_at' = [t \in Task |-> IF t \in sess[s].tasks THEN sess[s].stamp
                                                         ELSE deleted_at[t]]
  /\ reason' = [t \in Task |-> IF t \in sess[s].tasks THEN "cascade" ELSE reason[t]]
  /\ Hold(s, Idle)
  /\ UNCHANGED <<existing, slot_taken, clock>>

(***************************************************************************)
(* restore_engagement                                                      *)
(***************************************************************************)

LoadForRestore(s) ==
  /\ eng_deleted_at # Null
  /\ Start(s, [kind |-> "restore", phase |-> "loaded", stamp |-> eng_deleted_at])
  /\ UNCHANGED <<taskRows, engRow, clock>>

SlotUnchecked == TRUE

(* engagement_unique_period, as the UPDATE that clears deleted_at meets it.  *)
SlotFree == ~ slot_taken

FlushRestore(s) ==
  /\ sess[s].kind = "restore" /\ sess[s].phase = "loaded"
  /\ EngagementUnlocked
  /\ SlotFree
  /\ Hold(s, [sess[s] EXCEPT !.phase = "flushed"])
  /\ UNCHANGED <<taskRows, engRow, clock>>

(* IntegrityError, rolled back and turned into a 409. *)
RefuseRestore(s) ==
  /\ sess[s].kind = "restore" /\ sess[s].phase = "loaded"
  /\ EngagementUnlocked
  /\ ~ SlotFree
  /\ Hold(s, Idle)
  /\ UNCHANGED <<taskRows, engRow, clock>>

LiveTasksOnly(marker) == {t \in existing : deleted_at[t] = Null}

EveryDeletedTask(marker) == {t \in existing : deleted_at[t] # Null}

MarkedTasks(marker) == {t \in existing : deleted_at[t] = marker}

SelectForRestore(s) ==
  /\ sess[s].kind = "restore" /\ sess[s].phase = "flushed"
  /\ Hold(s, [kind |-> "restore", phase |-> "selected", stamp |-> sess[s].stamp,
              tasks |-> MarkedTasks(sess[s].stamp)])
  /\ UNCHANGED <<taskRows, engRow, clock>>

CommitRestore(s) ==
  /\ sess[s].kind = "restore" /\ sess[s].phase = "selected"
  /\ eng_deleted_at' = Null
  /\ deleted_at' = [t \in Task |-> IF t \in sess[s].tasks THEN Null ELSE deleted_at[t]]
  /\ reason' = [t \in Task |-> IF t \in sess[s].tasks THEN "none" ELSE reason[t]]
  /\ Hold(s, Idle)
  /\ UNCHANGED <<existing, slot_taken, clock>>

(***************************************************************************)
(* task_service, on the tasks of this engagement                           *)
(***************************************************************************)

(* create_adhoc_task: the engagement is read, and not read again.  The FK    *)
(* lock of the INSERT does not conflict with the cascade's UPDATE.           *)
LoadForAdd(s, t) ==
  /\ sess[s] = Idle
  /\ eng_deleted_at = Null
  /\ t \notin existing
  /\ \A other \in Session : sess[other].kind = "add" => sess[other].task # t
  /\ Hold(s, [kind |-> "add", task |-> t])
  /\ UNCHANGED <<taskRows, engRow, clock>>

CommitAdd(s) ==
  /\ sess[s].kind = "add"
  /\ existing' = existing \cup {sess[s].task}
  /\ Hold(s, Idle)
  /\ UNCHANGED <<deleted_at, reason, engRow, clock>>

(* soft_delete_task *)
LoadForDeleteTask(s, t) ==
  /\ sess[s] = Idle
  /\ t \in LiveTasks
  /\ \E stamp \in Stamp :
       Now(stamp) /\ Hold(s, [kind |-> "delete_task", task |-> t, stamp |-> stamp])
  /\ UNCHANGED <<taskRows, engRow>>

CommitDeleteTask(s) ==
  /\ sess[s].kind = "delete_task"
  /\ deleted_at' = [deleted_at EXCEPT ![sess[s].task] = sess[s].stamp]
  /\ reason' = [reason EXCEPT ![sess[s].task] = "task"]
  /\ Hold(s, Idle)
  /\ UNCHANGED <<existing, engRow, clock>>

(* restore_task: whoever deleted the task, and whatever the engagement is.   *)
LoadForRestoreTask(s, t) ==
  /\ sess[s] = Idle
  /\ t \in existing /\ deleted_at[t] # Null
  /\ Hold(s, [kind |-> "restore_task", task |-> t])
  /\ UNCHANGED <<taskRows, engRow, clock>>

RestoreKeepsReason(s) ==
  /\ sess[s].kind = "restore_task"
  /\ deleted_at' = [deleted_at EXCEPT ![sess[s].task] = Null]
  /\ Hold(s, Idle)
  /\ UNCHANGED <<existing, reason, engRow, clock>>

CommitRestoreTask(s) ==
  /\ sess[s].kind = "restore_task"
  /\ deleted_at' = [deleted_at EXCEPT ![sess[s].task] = Null]
  /\ reason' = [reason EXCEPT ![sess[s].task] = "none"]
  /\ Hold(s, Idle)
  /\ UNCHANGED <<existing, engRow, clock>>

(***************************************************************************)
(* The rest of the world                                                   *)
(***************************************************************************)

(* create_engagement or create_next_period commits another engagement of the *)
(* same client, service and period: only while this one is deleted, and the  *)
(* INSERT waits for a restore that has flushed.                              *)
TakeSlot ==
  /\ ~ slot_taken /\ eng_deleted_at # Null
  /\ \A s \in Session : LocksEngagement(s) => sess[s].kind # "restore"
  /\ slot_taken' = TRUE
  /\ UNCHANGED <<taskRows, eng_deleted_at, clock, sess, overlapped>>

(* ... and that other engagement is soft-deleted. *)
FreeSlot ==
  /\ slot_taken
  /\ slot_taken' = FALSE
  /\ UNCHANGED <<taskRows, eng_deleted_at, clock, sess, overlapped>>

Crash(s) ==
  /\ sess[s] # Idle
  /\ Hold(s, Idle)
  /\ UNCHANGED <<taskRows, engRow, clock>>

(***************************************************************************)
(* The specification: an engagement just created, with its generated tasks *)
(***************************************************************************)

Init ==
  /\ existing \in (SUBSET Task) \ {{}}
  /\ deleted_at = [t \in Task |-> Null]
  /\ reason = [t \in Task |-> "none"]
  /\ eng_deleted_at = Null
  /\ slot_taken = FALSE
  /\ clock = 0
  /\ sess = [s \in Session |-> Idle]
  /\ overlapped = FALSE

Cascade(s) ==
  \/ LoadForDelete(s) \/ FlushDelete(s) \/ SelectForDelete(s) \/ CommitDelete(s)
  \/ LoadForRestore(s) \/ FlushRestore(s) \/ RefuseRestore(s)
  \/ SelectForRestore(s) \/ CommitRestore(s)

OnTask(s) ==
  \/ \E t \in Task : LoadForAdd(s, t) \/ LoadForDeleteTask(s, t) \/ LoadForRestoreTask(s, t)
  \/ CommitAdd(s) \/ CommitDeleteTask(s) \/ CommitRestoreTask(s)

Next ==
  \/ \E s \in Session : Cascade(s) \/ OnTask(s) \/ Crash(s)
  \/ TakeSlot
  \/ FreeSlot

Spec == Init /\ [][Next]_vars

-----------------------------------------------------------------------------
(* Properties *)

(* "a cascade-deleted task's deleted_at is set to exactly the engagement's   *)
(* deleted_at": the timestamp tells the tasks the cascade deleted from those *)
(* deleted one by one, and a live engagement has none of the former left     *)
(* behind by its restore.                                                    *)
CascadeAgrees ==
  \A t \in existing :
    reason[t] = "cascade" <=> deleted_at[t] # Null /\ deleted_at[t] = eng_deleted_at

(* It does as long as no two requests for the engagement have overlapped,    *)
(* whatever happens to its tasks beside them.                                *)
CascadeAgreesAlone == ~ overlapped => CascadeAgrees

(* engagement_unique_period over a delete and a restore: the engagement does *)
(* not come back to a slot another one has taken in the meantime.            *)
SlotUnique == ~ (slot_taken /\ eng_deleted_at = Null)

(* What these rest on.  However cascades overlap: what a request has read or *)
(* selected is in the rows, nobody takes the slot from a restore that has    *)
(* flushed, and no timestamp is read twice - so that one which a cascade has *)
(* written, or is about to write or to look for, is never one of a task      *)
(* deleted on its own account.                                               *)
TasksExist ==
  \A s \in Session :
    /\ OnEngagement(s) /\ sess[s].phase = "selected" => sess[s].tasks \subseteq existing
    /\ sess[s].kind \in {"delete_task", "restore_task"} => sess[s].task \in existing

RestoresHoldSlot ==
  \A s \in Session : LocksEngagement(s) /\ sess[s].kind = "restore" => ~ slot_taken

CascadeStamp(stamp) ==
  \/ eng_deleted_at = stamp
  \/ \E s \in Session : OnEngagement(s) /\ sess[s].stamp = stamp
  \/ \E t \in Task : reason[t] = "cascade" /\ deleted_at[t] = stamp

TaskStamp(stamp) ==
  \/ \E s \in Session : sess[s].kind = "delete_task" /\ sess[s].stamp = stamp
  \/ \E t \in Task : reason[t] = "task" /\ deleted_at[t] = stamp

StampsPast == \A stamp \in Stamp : CascadeStamp(stamp) \/ TaskStamp(stamp) => stamp <= clock

StampsApart == \A stamp \in Stamp : ~ (CascadeStamp(stamp) /\ TaskStamp(stamp))

(* The part that is inductive on its own. *)
OverlapInv ==
  /\ TypeOK /\ TasksExist
  /\ SlotUnique /\ RestoresHoldSlot
  /\ StampsPast /\ StampsApart

(* When cascades have not overlapped: a cascade finds the engagement as its  *)
(* request loaded it, the tasks a restore has selected are all the cascade   *)
(* has left deleted, and what a delete is about to write is in no row.       *)
OneCascade ==
  \A s, other \in Session : OnEngagement(s) /\ OnEngagement(other) => s = other

CascadeIsCurrent ==
  \A s \in Session :
    /\ sess[s].kind = "delete" => eng_deleted_at = Null
    /\ sess[s].kind = "restore" =>
         /\ eng_deleted_at # Null
         /\ sess[s].stamp = eng_deleted_at
         /\ sess[s].phase = "selected" =>
              {t \in existing : reason[t] = "cascade"} \subseteq sess[s].tasks

StampsFresh ==
  \A s \in Session, t \in Task : sess[s].kind = "delete" => deleted_at[t] # sess[s].stamp

AloneInv == CascadeAgrees /\ OneCascade /\ CascadeIsCurrent /\ StampsFresh

(* The inductive invariant: what deletes, restores and requests for a task   *)
(* have read or selected and not yet committed is still so.                  *)
IInv == OverlapInv /\ (~ overlapped => AloneInv)

(* "A task deleted individually ... is left untouched - both by this delete  *)
(* and by the matching restore": neither selects a task that stands deleted  *)
(* on its own account, however often the task and the engagement have been   *)
(* deleted and restored before.  A deletion that commits between the SELECT  *)
(* and the cascade's own COMMIT is overwritten, and not spoken of here.      *)
IndividualDeletionKept ==
  [][\A s \in Session :
       SelectForDelete(s) \/ SelectForRestore(s) =>
         \A t \in sess'[s].tasks : reason[t] # "task"]_vars
=============================================================================

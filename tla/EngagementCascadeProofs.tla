---------------------- MODULE EngagementCascadeProofs ----------------------
(***************************************************************************)
(* Theorems about EngagementCascade, for any tasks, sessions and bound on  *)
(* the clock: first what holds however deletes and restores of the         *)
(* engagement overlap, then what holds until two of them do.               *)
(***************************************************************************)
EXTENDS EngagementCascade, TLAPS

-----------------------------------------------------------------------------
(* Shapes and bounds *)

(* The kind of what a session holds tells its fields. *)
LEMMA RequestShape ==
  ASSUME TypeOK, NEW s \in Session
  PROVE  /\ OnEngagement(s) => sess[s] \in CascadeRequest
         /\ sess[s].kind \in {"add", "restore_task", "delete_task"} => sess[s] \in TaskRequest
  <1>1. CASE sess[s] = Idle
    BY <1>1 DEF Idle, OnEngagement
  <1>2. CASE sess[s] \in CascadeRequest
    BY <1>2 DEF CascadeRequest
  <1>3. CASE sess[s] \in TaskRequest
    BY <1>3 DEF TaskRequest, OnEngagement
  <1> QED
    BY <1>1, <1>2, <1>3 DEF TypeOK

LEMMA CascadeFields ==
  ASSUME NEW q \in CascadeRequest
  PROVE  /\ q.kind \in {"delete", "restore"} /\ q.stamp \in Stamp
         /\ q.phase \in {"loaded", "flushed", "selected"}
         /\ q.phase = "selected" => q.tasks \in SUBSET Task
  BY DEF CascadeRequest

LEMMA TaskFields ==
  ASSUME NEW q \in TaskRequest
  PROVE  /\ q.kind \in {"add", "restore_task", "delete_task"} /\ q.task \in Task
         /\ q.kind = "delete_task" => q.stamp \in Stamp
  BY DEF TaskRequest

LEMMA Numbers ==
  ASSUME TypeOK
  PROVE  /\ clock \in Nat /\ eng_deleted_at \in Nat
         /\ \A t \in Task : deleted_at[t] \in Nat
         /\ \A stamp \in Stamp : stamp \in Nat /\ stamp # Null
  BY BoundAssumption DEF TypeOK, Stamp, Null

-----------------------------------------------------------------------------
(* However cascades overlap: a step that replaces what one session holds *)

(* The request q in the hands of a session agrees with the rows. *)
OverlapFits(q) ==
  /\ q \in {Idle} \cup CascadeRequest \cup TaskRequest
  /\ q.kind \in {"delete", "restore"} /\ q.phase = "selected" => q.tasks \subseteq existing
  /\ q.kind = "restore" /\ q.phase \in {"flushed", "selected"} => ~ slot_taken
  /\ q.kind \in {"delete_task", "restore_task"} => q.task \in existing

(* Its timestamp is new, or has been of the same use before. *)
StampFits(q) ==
  /\ q.kind \in {"delete", "restore"} => CascadeStamp(q.stamp) \/ Now(q.stamp)
  /\ q.kind = "delete_task" => TaskStamp(q.stamp) \/ Now(q.stamp)

LEMMA HeldFits ==
  ASSUME OverlapInv, NEW s \in Session
  PROVE  OverlapFits(sess[s]) /\ StampFits(sess[s])
  <1>1. OverlapFits(sess[s])
    BY DEF OverlapFits, OverlapInv, TypeOK, TasksExist, RestoresHoldSlot, LocksEngagement,
           OnEngagement
  <1>2. StampFits(sess[s])
    BY DEF StampFits, CascadeStamp, TaskStamp, OnEngagement
  <1> QED
    BY <1>1, <1>2

LEMMA Replaced ==
  ASSUME OverlapInv, NEW s \in Session, NEW q, OverlapFits(q), StampFits(q),
         sess' = [sess EXCEPT ![s] = q], overlapped' \in BOOLEAN,
         clock' \in 0 .. MaxClock, clock <= clock', UNCHANGED <<taskRows, engRow>>
  PROVE  OverlapInv'
  <1> USE DEF OverlapInv, taskRows, engRow
  <1>1. sess'[s] = q /\ \A r \in Session \ {s} : sess'[r] = sess[r]
    BY DEF TypeOK
  <1>2. TypeOK'
    BY DEF TypeOK, OverlapFits
  <1>3. TasksExist'
    BY <1>1 DEF TasksExist, OverlapFits, OnEngagement
  <1>4. SlotUnique' /\ RestoresHoldSlot'
    BY <1>1 DEF SlotUnique, RestoresHoldSlot, OverlapFits, LocksEngagement, OnEngagement
  <1>5. ASSUME NEW x \in Stamp, CascadeStamp(x)'
        PROVE  CascadeStamp(x) \/ (q.kind \in {"delete", "restore"} /\ Now(x))
    BY <1>1, <1>5 DEF CascadeStamp, StampFits, OnEngagement
  <1>6. ASSUME NEW x \in Stamp, TaskStamp(x)'
        PROVE  TaskStamp(x) \/ (q.kind = "delete_task" /\ Now(x))
    BY <1>1, <1>6 DEF TaskStamp, StampFits
  <1>7. \A x \in Stamp : Now(x) => x <= clock' /\ ~ CascadeStamp(x) /\ ~ TaskStamp(x)
    BY Numbers DEF Now, StampsPast
  <1>8. StampsPast'
    <2>1. clock' \in Nat
      BY Numbers
    <2> QED
      BY <1>5, <1>6, <1>7, <2>1, Numbers DEF StampsPast
  <1>9. StampsApart'
    BY <1>5, <1>6, <1>7 DEF StampsApart
  <1> QED
    BY <1>2, <1>3, <1>4, <1>8, <1>9

(* The same when no timestamp is read. *)
LEMMA ReplacedNow ==
  ASSUME OverlapInv, NEW s \in Session, NEW q, OverlapFits(q), StampFits(q),
         sess' = [sess EXCEPT ![s] = q], overlapped' \in BOOLEAN,
         UNCHANGED <<taskRows, engRow, clock>>
  PROVE  OverlapInv'
  <1>1. clock' \in 0 .. MaxClock /\ clock <= clock'
    BY Numbers DEF OverlapInv, TypeOK
  <1> QED
    BY <1>1, Replaced

(* A timestamp that has just been read is in no row and in no request.       *)
LEMMA FreshStamp ==
  ASSUME OverlapInv, NEW stamp \in Stamp, Now(stamp)
  PROVE  /\ clock' \in 0 .. MaxClock /\ clock <= clock'
         /\ ~ CascadeStamp(stamp) /\ ~ TaskStamp(stamp)
         /\ \A t \in Task : deleted_at[t] # stamp
  <1>1. clock \in Nat /\ stamp = clock + 1 /\ clock' = stamp
    BY Numbers DEF OverlapInv, Now
  <1>2. clock' \in 0 .. MaxClock /\ clock <= clock'
    BY <1>1, BoundAssumption DEF Stamp
  <1>3. ~ CascadeStamp(stamp) /\ ~ TaskStamp(stamp)
    BY <1>1 DEF OverlapInv, StampsPast
  <1>4. ASSUME NEW t \in Task, deleted_at[t] = stamp PROVE FALSE
    <2>1. reason[t] \in {"task", "cascade"}
      BY <1>4, Numbers DEF OverlapInv, TypeOK, Reason
    <2> QED
      BY <1>3, <1>4, <2>1 DEF CascadeStamp, TaskStamp
  <1> QED
    BY <1>2, <1>3, <1>4

-----------------------------------------------------------------------------
(* What the steps of a cascade leave in the hands of its session *)

LEMMA DeleteLoaded ==
  ASSUME OverlapInv, NEW s \in Session, LoadForDelete(s)
  PROVE  \E q \in CascadeRequest :
           /\ Start(s, q) /\ UNCHANGED <<taskRows, engRow>> /\ eng_deleted_at = Null
           /\ q.kind = "delete" /\ q.phase = "loaded" /\ q.stamp \in Stamp /\ Now(q.stamp)
  <1>1. PICK stamp \in Stamp :
          Now(stamp) /\ Start(s, [kind |-> "delete", phase |-> "loaded", stamp |-> stamp])
    BY DEF LoadForDelete
  <1> DEFINE q == [kind |-> "delete", phase |-> "loaded", stamp |-> stamp]
  <1>2. q \in CascadeRequest /\ q.kind = "delete" /\ q.phase = "loaded" /\ q.stamp = stamp
    BY DEF CascadeRequest
  <1>3. Start(s, q) /\ Now(stamp)
    BY <1>1
  <1> HIDE DEF q
  <1> QED
    BY <1>2, <1>3 DEF LoadForDelete

LEMMA RestoreLoaded ==
  ASSUME OverlapInv, NEW s \in Session, LoadForRestore(s)
  PROVE  \E q \in CascadeRequest :
           /\ Start(s, q) /\ UNCHANGED <<taskRows, engRow, clock>> /\ eng_deleted_at # Null
           /\ q.kind = "restore" /\ q.phase = "loaded" /\ q.stamp = eng_deleted_at
  <1> DEFINE q == [kind |-> "restore", phase |-> "loaded", stamp |-> eng_deleted_at]
  <1>1. eng_deleted_at # Null /\ Start(s, q) /\ UNCHANGED <<taskRows, engRow, clock>>
    BY DEF LoadForRestore
  <1>2. q \in CascadeRequest
    BY <1>1 DEF CascadeRequest, OverlapInv, TypeOK
  <1>3. q.kind = "restore" /\ q.phase = "loaded" /\ q.stamp = eng_deleted_at
    OBVIOUS
  <1> HIDE DEF q
  <1> QED
    BY <1>1, <1>2, <1>3

LEMMA NewPhase ==
  ASSUME NEW q \in CascadeRequest, q.phase = "loaded"
  PROVE  /\ [q EXCEPT !.phase = "flushed"] \in CascadeRequest
         /\ [q EXCEPT !.phase = "flushed"].kind = q.kind
         /\ [q EXCEPT !.phase = "flushed"].stamp = q.stamp
         /\ [q EXCEPT !.phase = "flushed"].phase = "flushed"
  BY DEF CascadeRequest

LEMMA Flushed ==
  ASSUME OverlapInv, NEW s \in Session, FlushDelete(s) \/ FlushRestore(s)
  PROVE  \E q \in CascadeRequest :
           /\ OnEngagement(s) /\ Hold(s, q) /\ UNCHANGED <<taskRows, engRow, clock>>
           /\ q.kind = sess[s].kind /\ q.stamp = sess[s].stamp /\ q.phase = "flushed"
           /\ q.kind = "restore" => ~ slot_taken
  <1> DEFINE q == [sess[s] EXCEPT !.phase = "flushed"]
  <1>1. /\ OnEngagement(s) /\ sess[s].phase = "loaded"
        /\ sess[s].kind = "restore" => ~ slot_taken
        /\ Hold(s, q) /\ UNCHANGED <<taskRows, engRow, clock>>
    BY DEF FlushDelete, FlushRestore, SlotFree, OnEngagement
  <1>2. sess[s] \in CascadeRequest
    BY <1>1, RequestShape DEF OverlapInv
  <1>3. q \in CascadeRequest /\ q.kind = sess[s].kind /\ q.stamp = sess[s].stamp
        /\ q.phase = "flushed"
    BY <1>1, <1>2, NewPhase
  <1> HIDE DEF q
  <1> QED
    BY <1>1, <1>3

LEMMA Selected ==
  ASSUME OverlapInv, NEW s \in Session, SelectForDelete(s) \/ SelectForRestore(s)
  PROVE  \E q \in CascadeRequest :
           /\ OnEngagement(s) /\ sess[s].phase = "flushed"
           /\ Hold(s, q) /\ UNCHANGED <<taskRows, engRow, clock>>
           /\ q.kind = sess[s].kind /\ q.stamp = sess[s].stamp /\ q.phase = "selected"
           /\ q.tasks \subseteq existing
           /\ q.kind = "delete" => q.tasks = LiveTasks
           /\ q.kind = "restore" => q.tasks = MarkedTasks(q.stamp)
  <1> DEFINE tasks == IF sess[s].kind = "delete" THEN LiveTasks ELSE MarkedTasks(sess[s].stamp)
             q == [kind |-> sess[s].kind, phase |-> "selected", stamp |-> sess[s].stamp,
                   tasks |-> tasks]
  <1>1. /\ OnEngagement(s) /\ sess[s].phase = "flushed" /\ UNCHANGED <<taskRows, engRow, clock>>
        /\ sess[s].kind \in {"delete", "restore"}
    BY DEF SelectForDelete, SelectForRestore, OnEngagement
  <1>2. sess[s].stamp \in Stamp
    BY <1>1, RequestShape, CascadeFields DEF OverlapInv
  <1>3. tasks \subseteq existing /\ tasks \in SUBSET Task
    BY DEF LiveTasks, MarkedTasks, OverlapInv, TypeOK
  <1>4. Hold(s, q)
    <2>1. CASE SelectForDelete(s)
      BY <2>1 DEF SelectForDelete
    <2>2. CASE SelectForRestore(s)
      BY <2>2 DEF SelectForRestore
    <2> QED
      BY <2>1, <2>2
  <1>5. /\ sess[s].kind = "delete" => tasks = LiveTasks
        /\ sess[s].kind = "restore" => tasks = MarkedTasks(sess[s].stamp)
    OBVIOUS
  <1> HIDE DEF tasks
  <1>6. q \in CascadeRequest
    BY <1>1, <1>2, <1>3 DEF CascadeRequest
  <1>7. q.kind = sess[s].kind /\ q.stamp = sess[s].stamp /\ q.phase = "selected"
        /\ q.tasks = tasks
    OBVIOUS
  <1> HIDE DEF q
  <1> QED
    BY <1>1, <1>3, <1>4, <1>5, <1>6, <1>7

LEMMA Advancing ==
  ASSUME OverlapInv, NEW s \in Session,
         FlushDelete(s) \/ FlushRestore(s) \/ SelectForDelete(s) \/ SelectForRestore(s)
  PROVE  OverlapInv'
  <1>1. PICK q \in CascadeRequest :
          /\ Hold(s, q) /\ UNCHANGED <<taskRows, engRow, clock>> /\ OnEngagement(s)
          /\ q.kind = sess[s].kind /\ q.stamp = sess[s].stamp
          /\ q.phase \in {"flushed", "selected"}
          /\ q.phase = "selected" => q.tasks \subseteq existing /\ sess[s].phase = "flushed"
          /\ q.phase = "flushed" /\ q.kind = "restore" => ~ slot_taken
    BY Flushed, Selected
  <1>2. OverlapFits(q) /\ StampFits(q)
    BY <1>1, HeldFits DEF OverlapFits, StampFits, OnEngagement
  <1> QED
    BY <1>1, <1>2, ReplacedNow DEF Hold, OverlapInv, TypeOK

LEMMA Loading ==
  ASSUME OverlapInv, NEW s \in Session, LoadForDelete(s) \/ LoadForRestore(s)
  PROVE  OverlapInv'
  <1>1. overlapped' \in BOOLEAN
    BY DEF LoadForDelete, LoadForRestore, Start, OverlapInv, TypeOK
  <1>2. CASE LoadForDelete(s)
    <2>1. PICK q \in CascadeRequest :
            /\ Start(s, q) /\ UNCHANGED <<taskRows, engRow>>
            /\ q.kind = "delete" /\ q.phase = "loaded" /\ q.stamp \in Stamp /\ Now(q.stamp)
      BY <1>2, DeleteLoaded
    <2>2. OverlapFits(q) /\ StampFits(q)
      BY <2>1 DEF OverlapFits, StampFits
    <2> QED
      BY <1>1, <2>1, <2>2, FreshStamp, Replaced DEF Start
  <1>3. CASE LoadForRestore(s)
    <2>1. PICK q \in CascadeRequest :
            /\ Start(s, q) /\ UNCHANGED <<taskRows, engRow, clock>>
            /\ q.kind = "restore" /\ q.phase = "loaded" /\ q.stamp = eng_deleted_at
      BY <1>3, RestoreLoaded
    <2>2. OverlapFits(q) /\ StampFits(q)
      BY <2>1 DEF OverlapFits, StampFits, CascadeStamp
    <2> QED
      BY <1>1, <2>1, <2>2, ReplacedNow DEF Start
  <1> QED
    BY <1>2, <1>3

LEMMA Dropping ==
  ASSUME OverlapInv, NEW s \in Session, RefuseRestore(s) \/ Crash(s)
  PROVE  OverlapInv'
  <1>1. Hold(s, Idle) /\ UNCHANGED <<taskRows, engRow, clock>>
    BY DEF RefuseRestore, Crash
  <1>2. OverlapFits(Idle) /\ StampFits(Idle)
    BY DEF OverlapFits, StampFits, Idle
  <1> QED
    BY <1>1, <1>2, ReplacedNow DEF Hold, OverlapInv, TypeOK

-----------------------------------------------------------------------------
(* Requests on a task *)

LEMMA TaskLoaded ==
  ASSUME OverlapInv, NEW s \in Session, NEW t \in Task,
         LoadForAdd(s, t) \/ LoadForDeleteTask(s, t) \/ LoadForRestoreTask(s, t)
  PROVE  \E q \in TaskRequest :
           /\ Hold(s, q) /\ UNCHANGED <<taskRows, engRow>>
           /\ q.kind = "delete_task" => q.stamp \in Stamp /\ Now(q.stamp)
           /\ q.kind # "delete_task" => UNCHANGED clock
           /\ q.kind # "add" => q.task \in existing
  <1>1. CASE LoadForAdd(s, t)
    <2> DEFINE q == [kind |-> "add", task |-> t]
    <2>1. Hold(s, q) /\ UNCHANGED <<taskRows, engRow, clock>>
      BY <1>1 DEF LoadForAdd
    <2>2. q \in TaskRequest /\ q.kind = "add"
      BY DEF TaskRequest
    <2> HIDE DEF q
    <2> QED
      BY <2>1, <2>2
  <1>2. CASE LoadForDeleteTask(s, t)
    <2>1. PICK stamp \in Stamp :
            Now(stamp) /\ Hold(s, [kind |-> "delete_task", task |-> t, stamp |-> stamp])
      BY <1>2 DEF LoadForDeleteTask
    <2> DEFINE q == [kind |-> "delete_task", task |-> t, stamp |-> stamp]
    <2>2. q \in TaskRequest /\ q.kind = "delete_task" /\ q.stamp = stamp /\ q.task = t
      BY DEF TaskRequest
    <2>3. t \in existing /\ UNCHANGED <<taskRows, engRow>> /\ Hold(s, q) /\ Now(stamp)
      BY <1>2, <2>1 DEF LoadForDeleteTask, LiveTasks
    <2> HIDE DEF q
    <2> QED
      BY <2>2, <2>3
  <1>3. CASE LoadForRestoreTask(s, t)
    <2> DEFINE q == [kind |-> "restore_task", task |-> t]
    <2>1. Hold(s, q) /\ UNCHANGED <<taskRows, engRow, clock>> /\ t \in existing
      BY <1>3 DEF LoadForRestoreTask
    <2>2. q \in TaskRequest /\ q.kind = "restore_task" /\ q.task = t
      BY DEF TaskRequest
    <2> HIDE DEF q
    <2> QED
      BY <2>1, <2>2
  <1> QED
    BY <1>1, <1>2, <1>3

LEMMA LoadingTask ==
  ASSUME OverlapInv, NEW s \in Session, NEW t \in Task,
         LoadForAdd(s, t) \/ LoadForDeleteTask(s, t) \/ LoadForRestoreTask(s, t)
  PROVE  OverlapInv'
  <1>1. PICK q \in TaskRequest :
          /\ Hold(s, q) /\ UNCHANGED <<taskRows, engRow>>
          /\ q.kind = "delete_task" => q.stamp \in Stamp /\ Now(q.stamp)
          /\ q.kind # "delete_task" => UNCHANGED clock
          /\ q.kind # "add" => q.task \in existing
    BY TaskLoaded
  <1>2. q.kind \in {"add", "restore_task", "delete_task"}
    BY TaskFields
  <1>3. OverlapFits(q) /\ StampFits(q)
    BY <1>1, <1>2 DEF OverlapFits, StampFits
  <1>4. overlapped' \in BOOLEAN
    BY <1>1 DEF Hold, OverlapInv, TypeOK
  <1>5. CASE q.kind = "delete_task"
    BY <1>1, <1>3, <1>4, <1>5, FreshStamp, Replaced DEF Hold
  <1>6. CASE q.kind # "delete_task"
    BY <1>1, <1>3, <1>4, <1>6, ReplacedNow DEF Hold
  <1> QED
    BY <1>5, <1>6

-----------------------------------------------------------------------------
(* The commits *)

LEMMA SessionEnds ==
  ASSUME TypeOK, NEW s \in Session, Hold(s, Idle)
  PROVE  /\ sess'[s] = Idle /\ \A r \in Session \ {s} : sess'[r] = sess[r]
         /\ sess' \in [Session -> {Idle} \cup CascadeRequest \cup TaskRequest]
         /\ sess'[s].kind = "idle" /\ overlapped' = overlapped
         /\ \A r \in Session : sess'[r].kind = "idle" \/ sess'[r] = sess[r]
  BY DEF TypeOK, Hold, Idle

(* A commit brings no timestamp into a use that it has not had before.       *)
LEMMA Committed ==
  ASSUME OverlapInv, NEW s \in Session, Hold(s, Idle), TypeOK', SlotUnique',
         existing \subseteq existing', UNCHANGED <<slot_taken, clock>>,
         \A x \in Stamp : eng_deleted_at' = x => CascadeStamp(x),
         \A x \in Stamp, t \in Task : reason'[t] = "cascade" /\ deleted_at'[t] = x => CascadeStamp(x),
         \A x \in Stamp, t \in Task : reason'[t] = "task" /\ deleted_at'[t] = x => TaskStamp(x)
  PROVE  OverlapInv'
  <1> USE DEF OverlapInv
  <1>1. \A r \in Session : sess'[r].kind = "idle" \/ sess'[r] = sess[r]
    BY SessionEnds
  <1>2. TasksExist' /\ RestoresHoldSlot'
    BY <1>1 DEF TasksExist, RestoresHoldSlot, LocksEngagement, OnEngagement
  <1>3. \A x \in Stamp : CascadeStamp(x)' => CascadeStamp(x)
    BY <1>1 DEF CascadeStamp, OnEngagement
  <1>4. \A x \in Stamp : TaskStamp(x)' => TaskStamp(x)
    BY <1>1 DEF TaskStamp
  <1> QED
    BY <1>2, <1>3, <1>4 DEF StampsPast, StampsApart

(* What a request that commits holds. *)
LEMMA CascadeHeld ==
  ASSUME OverlapInv, NEW s \in Session, OnEngagement(s), sess[s].phase = "selected"
  PROVE  \E stamp \in Stamp, tasks \in SUBSET Task :
           stamp = sess[s].stamp /\ tasks = sess[s].tasks /\ tasks \subseteq existing
  BY RequestShape, CascadeFields DEF OverlapInv, TasksExist

LEMMA CommittingDelete ==
  ASSUME OverlapInv, NEW s \in Session, CommitDelete(s)
  PROVE  OverlapInv'
  <1> USE DEF OverlapInv
  <1>1. /\ OnEngagement(s) /\ sess[s].phase = "selected"
        /\ Hold(s, Idle) /\ UNCHANGED <<existing, slot_taken, clock>>
    BY DEF CommitDelete, OnEngagement
  <1>2. PICK stamp \in Stamp, tasks \in SUBSET Task :
          stamp = sess[s].stamp /\ tasks = sess[s].tasks /\ tasks \subseteq existing
    BY <1>1, CascadeHeld
  <1>3. /\ eng_deleted_at' = stamp
        /\ deleted_at' = [t \in Task |-> IF t \in tasks THEN stamp ELSE deleted_at[t]]
        /\ reason' = [t \in Task |-> IF t \in tasks THEN "cascade" ELSE reason[t]]
    BY <1>2 DEF CommitDelete
  <1>4. stamp # Null /\ CascadeStamp(stamp)
    BY <1>1, <1>2, Numbers DEF CascadeStamp
  <1>5. TypeOK'
    <2>1. deleted_at' \in [Task -> {Null} \cup Stamp] /\ reason' \in [Task -> Reason]
      BY <1>3 DEF TypeOK, Reason
    <2>2. /\ \A t \in Task : deleted_at'[t] = Null <=> reason'[t] = "none"
          /\ \A t \in Task \ existing : deleted_at'[t] = Null
      BY <1>2, <1>3, <1>4 DEF TypeOK
    <2> QED
      BY <1>1, <1>3, <2>1, <2>2, SessionEnds DEF TypeOK
  <1>6. SlotUnique'
    BY <1>3, <1>4 DEF SlotUnique
  <1>7. \A x \in Stamp, t \in Task :
          /\ reason'[t] = "cascade" /\ deleted_at'[t] = x => CascadeStamp(x)
          /\ reason'[t] = "task" /\ deleted_at'[t] = x => TaskStamp(x)
    BY <1>3, <1>4 DEF CascadeStamp, TaskStamp
  <1> QED
    BY <1>1, <1>3, <1>4, <1>5, <1>6, <1>7, Committed

LEMMA CommittingRestore ==
  ASSUME OverlapInv, NEW s \in Session, CommitRestore(s)
  PROVE  OverlapInv'
  <1> USE DEF OverlapInv
  <1>1. /\ OnEngagement(s) /\ sess[s].kind = "restore" /\ sess[s].phase = "selected"
        /\ Hold(s, Idle) /\ UNCHANGED <<existing, slot_taken, clock>>
    BY DEF CommitRestore, OnEngagement
  <1>2. PICK stamp \in Stamp, tasks \in SUBSET Task :
          stamp = sess[s].stamp /\ tasks = sess[s].tasks /\ tasks \subseteq existing
    BY <1>1, CascadeHeld
  <1>3. /\ eng_deleted_at' = Null
        /\ deleted_at' = [t \in Task |-> IF t \in tasks THEN Null ELSE deleted_at[t]]
        /\ reason' = [t \in Task |-> IF t \in tasks THEN "none" ELSE reason[t]]
    BY <1>2 DEF CommitRestore
  <1>4. \A x \in Stamp : x # Null
    BY Numbers
  <1>5. TypeOK'
    <2>1. deleted_at' \in [Task -> {Null} \cup Stamp] /\ reason' \in [Task -> Reason]
      BY <1>3 DEF TypeOK, Reason
    <2>2. /\ \A t \in Task : deleted_at'[t] = Null <=> reason'[t] = "none"
          /\ \A t \in Task \ existing : deleted_at'[t] = Null
      BY <1>3 DEF TypeOK
    <2> QED
      BY <1>1, <1>3, <2>1, <2>2, SessionEnds DEF TypeOK
  <1>6. SlotUnique'
    BY <1>1 DEF SlotUnique, RestoresHoldSlot, LocksEngagement
  <1>7. \A x \in Stamp, t \in Task :
          /\ reason'[t] = "cascade" /\ deleted_at'[t] = x => CascadeStamp(x)
          /\ reason'[t] = "task" /\ deleted_at'[t] = x => TaskStamp(x)
    BY <1>3, <1>4 DEF CascadeStamp, TaskStamp
  <1> QED
    BY <1>1, <1>3, <1>4, <1>5, <1>6, <1>7, Committed

LEMMA CommittingAdd ==
  ASSUME OverlapInv, NEW s \in Session, CommitAdd(s)
  PROVE  OverlapInv'
  <1> USE DEF OverlapInv
  <1>1. /\ sess[s].kind = "add" /\ existing' = existing \cup {sess[s].task}
        /\ Hold(s, Idle) /\ UNCHANGED <<deleted_at, reason, eng_deleted_at, slot_taken, clock>>
    BY DEF CommitAdd, engRow
  <1>2. sess[s].task \in Task
    BY <1>1, RequestShape, TaskFields
  <1>3. TypeOK'
    BY <1>1, <1>2, SessionEnds DEF TypeOK
  <1>4. SlotUnique'
    BY <1>1 DEF SlotUnique
  <1>5. \A x \in Stamp :
          /\ eng_deleted_at' = x => CascadeStamp(x)
          /\ \A t \in Task : /\ reason'[t] = "cascade" /\ deleted_at'[t] = x => CascadeStamp(x)
                             /\ reason'[t] = "task" /\ deleted_at'[t] = x => TaskStamp(x)
    BY <1>1 DEF CascadeStamp, TaskStamp
  <1> QED
    BY <1>1, <1>3, <1>4, <1>5, Committed

LEMMA CommittingDeleteTask ==
  ASSUME OverlapInv, NEW s \in Session, CommitDeleteTask(s)
  PROVE  OverlapInv'
  <1> USE DEF OverlapInv
  <1>1. /\ sess[s].kind = "delete_task" /\ Hold(s, Idle)
        /\ UNCHANGED <<existing, eng_deleted_at, slot_taken, clock>>
    BY DEF CommitDeleteTask, engRow
  <1>2. PICK task \in Task : task = sess[s].task
    BY <1>1, RequestShape, TaskFields
  <1>3. PICK stamp \in Stamp : stamp = sess[s].stamp
    BY <1>1, RequestShape, TaskFields
  <1>4. /\ deleted_at' = [deleted_at EXCEPT ![task] = stamp]
        /\ reason' = [reason EXCEPT ![task] = "task"]
    BY <1>2, <1>3 DEF CommitDeleteTask
  <1>5. task \in existing /\ stamp # Null /\ TaskStamp(stamp)
    BY <1>1, <1>2, <1>3, Numbers DEF TasksExist, TaskStamp
  <1>6. TypeOK'
    <2>1. deleted_at' \in [Task -> {Null} \cup Stamp] /\ reason' \in [Task -> Reason]
      BY <1>4 DEF TypeOK, Reason
    <2>2. /\ \A t \in Task : deleted_at'[t] = Null <=> reason'[t] = "none"
          /\ \A t \in Task \ existing : deleted_at'[t] = Null
      BY <1>4, <1>5 DEF TypeOK
    <2> QED
      BY <1>1, <2>1, <2>2, SessionEnds DEF TypeOK
  <1>7. SlotUnique'
    BY <1>1 DEF SlotUnique
  <1>8. \A x \in Stamp :
          /\ eng_deleted_at' = x => CascadeStamp(x)
          /\ \A t \in Task : /\ reason'[t] = "cascade" /\ deleted_at'[t] = x => CascadeStamp(x)
                             /\ reason'[t] = "task" /\ deleted_at'[t] = x => TaskStamp(x)
    BY <1>1, <1>4, <1>5 DEF CascadeStamp, TaskStamp, TypeOK
  <1> QED
    BY <1>1, <1>6, <1>7, <1>8, Committed

LEMMA CommittingRestoreTask ==
  ASSUME OverlapInv, NEW s \in Session, CommitRestoreTask(s)
  PROVE  OverlapInv'
  <1> USE DEF OverlapInv
  <1>1. /\ sess[s].kind = "restore_task" /\ Hold(s, Idle)
        /\ UNCHANGED <<existing, eng_deleted_at, slot_taken, clock>>
    BY DEF CommitRestoreTask, engRow
  <1>2. PICK task \in Task : task = sess[s].task
    BY <1>1, RequestShape, TaskFields
  <1>3. /\ deleted_at' = [deleted_at EXCEPT ![task] = Null]
        /\ reason' = [reason EXCEPT ![task] = "none"]
    BY <1>2 DEF CommitRestoreTask
  <1>4. TypeOK'
    <2>1. deleted_at' \in [Task -> {Null} \cup Stamp] /\ reason' \in [Task -> Reason]
      BY <1>3 DEF TypeOK, Reason
    <2>2. /\ \A t \in Task : deleted_at'[t] = Null <=> reason'[t] = "none"
          /\ \A t \in Task \ existing : deleted_at'[t] = Null
      BY <1>3 DEF TypeOK
    <2> QED
      BY <1>1, <2>1, <2>2, SessionEnds DEF TypeOK
  <1>5. SlotUnique'
    BY <1>1 DEF SlotUnique
  <1>6. \A x \in Stamp :
          /\ eng_deleted_at' = x => CascadeStamp(x)
          /\ \A t \in Task : /\ reason'[t] = "cascade" /\ deleted_at'[t] = x => CascadeStamp(x)
                             /\ reason'[t] = "task" /\ deleted_at'[t] = x => TaskStamp(x)
    BY <1>1, <1>3 DEF CascadeStamp, TaskStamp, TypeOK
  <1> QED
    BY <1>1, <1>4, <1>5, <1>6, Committed

LEMMA SlotChanging == ASSUME OverlapInv, TakeSlot \/ FreeSlot PROVE OverlapInv'
  <1> USE DEF OverlapInv
  <1>1. /\ UNCHANGED <<existing, deleted_at, reason, eng_deleted_at, clock, sess, overlapped>>
        /\ slot_taken' \in BOOLEAN
        /\ slot_taken' => /\ eng_deleted_at # Null
                          /\ \A s \in Session : LocksEngagement(s) => sess[s].kind # "restore"
    BY DEF TakeSlot, FreeSlot, taskRows
  <1>2. TypeOK' /\ TasksExist'
    BY <1>1 DEF TypeOK, TasksExist, OnEngagement
  <1>3. StampsPast' /\ StampsApart'
    BY <1>1 DEF StampsPast, StampsApart, CascadeStamp, TaskStamp, OnEngagement
  <1>4. SlotUnique' /\ RestoresHoldSlot'
    BY <1>1 DEF SlotUnique, RestoresHoldSlot, LocksEngagement, OnEngagement
  <1> QED
    BY <1>2, <1>3, <1>4

LEMMA InitOverlap == Init => OverlapInv
  <1> SUFFICES ASSUME Init PROVE OverlapInv
    OBVIOUS
  <1>1. TypeOK
    <2>1. /\ existing \in SUBSET Task /\ eng_deleted_at \in {Null} \cup Stamp
          /\ slot_taken \in BOOLEAN /\ overlapped \in BOOLEAN
      BY DEF Init
    <2>2. clock \in 0 .. MaxClock
      BY BoundAssumption, SMT DEF Init, BoundAssumption
    <2>3. /\ deleted_at \in [Task -> {Null} \cup Stamp]
          /\ reason \in [Task -> Reason]
      BY DEF Init, Reason
    <2>4. sess \in [Session -> {Idle} \cup CascadeRequest \cup TaskRequest]
      BY DEF Init
    <2>5. \A t \in Task : deleted_at[t] = Null /\ reason[t] = "none"
      BY DEF Init
    <2> QED
      BY <2>1, <2>2, <2>3, <2>4, <2>5 DEF TypeOK
  <1>2. \A s \in Session : sess[s].kind = "idle"
    BY DEF Init, Idle
  <1>3. TasksExist /\ SlotUnique /\ RestoresHoldSlot
    BY <1>2 DEF Init, TasksExist, SlotUnique, RestoresHoldSlot, LocksEngagement, OnEngagement
  <1>4. \A x \in Stamp : ~ CascadeStamp(x) /\ ~ TaskStamp(x)
    <2>1. \A x \in Stamp : x # Null
      BY <1>1, Numbers
    <2>2. eng_deleted_at = Null /\ \A t \in Task : reason[t] = "none"
      BY DEF Init
    <2> QED
      BY <1>2, <2>1, <2>2 DEF CascadeStamp, TaskStamp, OnEngagement
  <1> QED
    BY <1>1, <1>3, <1>4 DEF OverlapInv, StampsPast, StampsApart

LEMMA OverlapStep == OverlapInv /\ [Next]_vars => OverlapInv'
  <1> SUFFICES ASSUME OverlapInv, [Next]_vars PROVE OverlapInv'
    OBVIOUS
  <1>1. ASSUME NEW s \in Session, Cascade(s) PROVE OverlapInv'
    BY <1>1, Loading, Advancing, CommittingDelete, CommittingRestore, Dropping DEF Cascade
  <1>2. ASSUME NEW s \in Session, OnTask(s) PROVE OverlapInv'
    BY <1>2, LoadingTask, CommittingAdd, CommittingDeleteTask, CommittingRestoreTask DEF OnTask
  <1>3. ASSUME NEW s \in Session, Crash(s) PROVE OverlapInv'
    BY <1>3, Dropping
  <1>4. CASE TakeSlot \/ FreeSlot
    BY <1>4, SlotChanging
  <1>5. CASE UNCHANGED vars
    BY <1>5 DEF vars, OverlapInv, TypeOK, TasksExist, SlotUnique, RestoresHoldSlot, StampsPast,
                StampsApart, CascadeStamp, TaskStamp, LocksEngagement, OnEngagement
  <1> QED
    BY <1>1, <1>2, <1>3, <1>4, <1>5 DEF Next

-----------------------------------------------------------------------------
(* Until two cascades overlap *)

(* The request q in the hands of s is the only cascade, and fits the rows.   *)
AloneFits(s, q) ==
  /\ q.kind \in {"delete", "restore"} => \A other \in Session \ {s} : ~ OnEngagement(other)
  /\ q.kind = "delete" =>
       eng_deleted_at = Null /\ \A t \in Task : deleted_at[t] # q.stamp
  /\ q.kind = "restore" =>
       /\ eng_deleted_at # Null /\ q.stamp = eng_deleted_at
       /\ q.phase = "selected" => {t \in existing : reason[t] = "cascade"} \subseteq q.tasks

LEMMA HeldFitsAlone ==
  ASSUME AloneInv, NEW s \in Session
  PROVE  AloneFits(s, sess[s])
  BY DEF AloneInv, OneCascade, CascadeIsCurrent, StampsFresh, AloneFits, OnEngagement

LEMMA ReplacedAlone ==
  ASSUME TypeOK, AloneInv, NEW s \in Session, NEW q, AloneFits(s, q),
         sess' = [sess EXCEPT ![s] = q], UNCHANGED <<taskRows, engRow>>
  PROVE  AloneInv'
  <1> USE DEF AloneInv, taskRows, engRow
  <1>1. sess'[s] = q /\ \A r \in Session \ {s} : sess'[r] = sess[r]
    BY DEF TypeOK
  <1>2. CascadeAgrees'
    BY DEF CascadeAgrees
  <1>3. OneCascade'
    BY <1>1 DEF OneCascade, AloneFits, OnEngagement
  <1>4. CascadeIsCurrent'
    BY <1>1 DEF CascadeIsCurrent, AloneFits
  <1>5. StampsFresh'
    BY <1>1 DEF StampsFresh, AloneFits
  <1> QED
    BY <1>2, <1>3, <1>4, <1>5

LEMMA LoadingAlone ==
  ASSUME IInv, ~ overlapped', NEW s \in Session, LoadForDelete(s) \/ LoadForRestore(s)
  PROVE  AloneInv'
  <1> USE DEF IInv
  <1>1. ~ overlapped /\ \A other \in Session : ~ OnEngagement(other)
    BY DEF LoadForDelete, LoadForRestore, Start, OverlapInv, TypeOK
  <1>2. PICK q \in CascadeRequest :
          /\ sess' = [sess EXCEPT ![s] = q] /\ UNCHANGED <<taskRows, engRow>>
          /\ q.kind \in {"delete", "restore"} /\ q.phase = "loaded"
          /\ q.kind = "delete" => eng_deleted_at = Null /\ q.stamp \in Stamp /\ Now(q.stamp)
          /\ q.kind = "restore" => eng_deleted_at # Null /\ q.stamp = eng_deleted_at
    BY DeleteLoaded, RestoreLoaded DEF Start
  <1>3. AloneFits(s, q)
    BY <1>1, <1>2, FreshStamp DEF AloneFits
  <1> QED
    BY <1>1, <1>2, <1>3, ReplacedAlone DEF OverlapInv

(* Every cascade-deleted task carries the engagement's timestamp. *)
LEMMA MarkedAreCascades ==
  ASSUME CascadeAgrees, eng_deleted_at # Null
  PROVE  MarkedTasks(eng_deleted_at) = {t \in existing : reason[t] = "cascade"}
  BY DEF CascadeAgrees, MarkedTasks

LEMMA AdvancingAlone ==
  ASSUME OverlapInv, AloneInv, NEW s \in Session,
         FlushDelete(s) \/ FlushRestore(s) \/ SelectForDelete(s) \/ SelectForRestore(s)
  PROVE  AloneInv'
  <1>1. PICK q \in CascadeRequest :
          /\ Hold(s, q) /\ UNCHANGED <<taskRows, engRow>> /\ OnEngagement(s)
          /\ q.kind = sess[s].kind /\ q.stamp = sess[s].stamp
          /\ q.phase \in {"flushed", "selected"}
          /\ q.phase = "selected" /\ q.kind = "restore" => q.tasks = MarkedTasks(q.stamp)
    BY Flushed, Selected
  <1>2. AloneFits(s, sess[s])
    BY HeldFitsAlone
  <1>3. AloneFits(s, q)
    BY <1>1, <1>2, MarkedAreCascades DEF AloneFits, AloneInv, OnEngagement
  <1> QED
    BY <1>1, <1>3, ReplacedAlone DEF Hold, OverlapInv

LEMMA DroppingAlone ==
  ASSUME OverlapInv, AloneInv, NEW s \in Session, RefuseRestore(s) \/ Crash(s)
  PROVE  AloneInv'
  <1>1. Hold(s, Idle) /\ UNCHANGED <<taskRows, engRow>>
    BY DEF RefuseRestore, Crash
  <1>2. AloneFits(s, Idle)
    BY DEF AloneFits, Idle
  <1> QED
    BY <1>1, <1>2, ReplacedAlone DEF Hold, OverlapInv

LEMMA LoadingTaskAlone ==
  ASSUME OverlapInv, AloneInv, NEW s \in Session, NEW t \in Task,
         LoadForAdd(s, t) \/ LoadForDeleteTask(s, t) \/ LoadForRestoreTask(s, t)
  PROVE  AloneInv'
  <1>1. PICK q \in TaskRequest : Hold(s, q) /\ UNCHANGED <<taskRows, engRow>>
    BY TaskLoaded
  <1>2. AloneFits(s, q)
    BY TaskFields DEF AloneFits
  <1> QED
    BY <1>1, <1>2, ReplacedAlone DEF Hold, OverlapInv

(* The only cascade commits: none is left. *)
LEMMA LastCascade ==
  ASSUME OverlapInv, AloneInv, NEW s \in Session, OnEngagement(s), Hold(s, Idle), CascadeAgrees'
  PROVE  AloneInv'
  <1>1. \A r \in Session : ~ OnEngagement(r)'
    BY SessionEnds DEF OverlapInv, AloneInv, OneCascade, OnEngagement
  <1> QED
    BY <1>1 DEF AloneInv, OneCascade, CascadeIsCurrent, StampsFresh, OnEngagement

LEMMA CommittingDeleteAlone ==
  ASSUME OverlapInv, AloneInv, NEW s \in Session, CommitDelete(s)
  PROVE  AloneInv'
  <1>1. /\ OnEngagement(s) /\ sess[s].kind = "delete" /\ sess[s].phase = "selected"
        /\ Hold(s, Idle) /\ UNCHANGED existing
    BY DEF CommitDelete, OnEngagement
  <1>2. PICK stamp \in Stamp, tasks \in SUBSET Task :
          stamp = sess[s].stamp /\ tasks = sess[s].tasks /\ tasks \subseteq existing
    BY <1>1, CascadeHeld
  <1>3. /\ eng_deleted_at' = stamp
        /\ deleted_at' = [t \in Task |-> IF t \in tasks THEN stamp ELSE deleted_at[t]]
        /\ reason' = [t \in Task |-> IF t \in tasks THEN "cascade" ELSE reason[t]]
    BY <1>2 DEF CommitDelete
  <1>4. eng_deleted_at = Null /\ stamp # Null /\ \A t \in Task : deleted_at[t] # stamp
    BY <1>1, <1>2, Numbers DEF OverlapInv, AloneInv, CascadeIsCurrent, StampsFresh
  <1>5. CascadeAgrees'
    BY <1>1, <1>3, <1>4 DEF AloneInv, CascadeAgrees, OverlapInv, TypeOK
  <1> QED
    BY <1>1, <1>5, LastCascade

LEMMA CommittingRestoreAlone ==
  ASSUME OverlapInv, AloneInv, NEW s \in Session, CommitRestore(s)
  PROVE  AloneInv'
  <1>1. /\ OnEngagement(s) /\ sess[s].kind = "restore" /\ sess[s].phase = "selected"
        /\ Hold(s, Idle) /\ UNCHANGED existing
    BY DEF CommitRestore, OnEngagement
  <1>2. PICK stamp \in Stamp, tasks \in SUBSET Task :
          stamp = sess[s].stamp /\ tasks = sess[s].tasks /\ tasks \subseteq existing
    BY <1>1, CascadeHeld
  <1>3. /\ eng_deleted_at' = Null
        /\ deleted_at' = [t \in Task |-> IF t \in tasks THEN Null ELSE deleted_at[t]]
        /\ reason' = [t \in Task |-> IF t \in tasks THEN "none" ELSE reason[t]]
    BY <1>2 DEF CommitRestore
  <1>4. /\ {t \in existing : reason[t] = "cascade"} \subseteq tasks /\ existing \subseteq Task
    BY <1>1, <1>2 DEF AloneInv, CascadeIsCurrent, OverlapInv, TypeOK
  <1>5. CascadeAgrees'
    BY <1>1, <1>3, <1>4 DEF CascadeAgrees
  <1> QED
    BY <1>1, <1>5, LastCascade

(* A request on a task commits beside a cascade: it hides no task from the   *)
(* restore, and does not write the timestamp that a delete is about to.      *)
LEMMA TaskEndsAlone ==
  ASSUME OverlapInv, AloneInv, NEW s \in Session, Hold(s, Idle),
         UNCHANGED eng_deleted_at, CascadeAgrees',
         \A t \in existing' : reason'[t] = "cascade" => t \in existing /\ reason[t] = "cascade",
         \A t \in Task : \/ deleted_at'[t] = deleted_at[t] \/ deleted_at'[t] = Null
                         \/ deleted_at'[t] \in Stamp /\ TaskStamp(deleted_at'[t])
  PROVE  AloneInv'
  <1>1. \A r \in Session : sess'[r].kind = "idle" \/ sess'[r] = sess[r]
    BY SessionEnds DEF OverlapInv
  <1>2. OneCascade'
    BY <1>1 DEF AloneInv, OneCascade, OnEngagement
  <1>3. CascadeIsCurrent'
    BY <1>1 DEF AloneInv, CascadeIsCurrent
  <1>4. StampsFresh'
    <2> SUFFICES ASSUME NEW r \in Session, NEW t \in Task, sess'[r].kind = "delete"
                 PROVE  deleted_at'[t] # sess'[r].stamp
      BY DEF StampsFresh
    <2>1. sess'[r] = sess[r] /\ sess[r].kind = "delete" /\ OnEngagement(r)
      BY <1>1 DEF OnEngagement
    <2>2. sess[r].stamp \in Stamp /\ sess[r].stamp # Null /\ CascadeStamp(sess[r].stamp)
      BY <2>1, RequestShape, CascadeFields, Numbers DEF OverlapInv, CascadeStamp
    <2>3. ~ TaskStamp(sess[r].stamp)
      BY <2>2 DEF OverlapInv, StampsApart
    <2> QED
      BY <2>1, <2>2, <2>3 DEF AloneInv, StampsFresh
  <1> QED
    BY <1>2, <1>3, <1>4 DEF AloneInv

LEMMA CommittingTaskAlone ==
  ASSUME OverlapInv, AloneInv, NEW s \in Session,
         CommitAdd(s) \/ CommitDeleteTask(s) \/ CommitRestoreTask(s)
  PROVE  AloneInv'
  <1> USE DEF OverlapInv
  <1>1. Hold(s, Idle) /\ UNCHANGED eng_deleted_at
    BY DEF CommitAdd, CommitDeleteTask, CommitRestoreTask, engRow
  <1>2. CASE CommitAdd(s)
    <2>1. sess[s].task \in Task /\ existing' = existing \cup {sess[s].task}
          /\ UNCHANGED <<deleted_at, reason>>
      BY <1>2, RequestShape, TaskFields DEF CommitAdd
    <2>2. /\ CascadeAgrees'
          /\ \A t \in existing' : reason'[t] = "cascade" => t \in existing /\ reason[t] = "cascade"
      BY <1>1, <2>1 DEF AloneInv, CascadeAgrees, TypeOK
    <2> QED
      BY <1>1, <2>1, <2>2, TaskEndsAlone
  <1>3. CASE CommitDeleteTask(s)
    <2>1. PICK task \in Task, stamp \in Stamp : task = sess[s].task /\ stamp = sess[s].stamp
      BY <1>3, RequestShape, TaskFields DEF CommitDeleteTask
    <2>2. /\ deleted_at' = [deleted_at EXCEPT ![task] = stamp]
          /\ reason' = [reason EXCEPT ![task] = "task"] /\ UNCHANGED existing
      BY <1>3, <2>1 DEF CommitDeleteTask
    <2>3. TaskStamp(stamp) /\ stamp # eng_deleted_at
      BY <1>3, <2>1 DEF CommitDeleteTask, StampsApart, TaskStamp, CascadeStamp
    <2>4. /\ CascadeAgrees'
          /\ \A t \in existing' : reason'[t] = "cascade" => t \in existing /\ reason[t] = "cascade"
      BY <1>1, <2>2, <2>3 DEF AloneInv, CascadeAgrees, TypeOK
    <2>5. \A t \in Task : deleted_at'[t] = deleted_at[t] \/ deleted_at'[t] = stamp
      BY <2>2 DEF TypeOK
    <2> QED
      BY <1>1, <2>3, <2>4, <2>5, TaskEndsAlone
  <1>4. CASE CommitRestoreTask(s)
    <2>1. PICK task \in Task : task = sess[s].task
      BY <1>4, RequestShape, TaskFields DEF CommitRestoreTask
    <2>2. /\ deleted_at' = [deleted_at EXCEPT ![task] = Null]
          /\ reason' = [reason EXCEPT ![task] = "none"] /\ UNCHANGED existing
      BY <1>4, <2>1 DEF CommitRestoreTask
    <2>3. /\ CascadeAgrees'
          /\ \A t \in existing' : reason'[t] = "cascade" => t \in existing /\ reason[t] = "cascade"
      BY <1>1, <2>2 DEF AloneInv, CascadeAgrees, TypeOK
    <2>4. \A t \in Task : deleted_at'[t] = deleted_at[t] \/ deleted_at'[t] = Null
      BY <2>2 DEF TypeOK
    <2> QED
      BY <1>1, <2>3, <2>4, TaskEndsAlone
  <1> QED
    BY <1>2, <1>3, <1>4

LEMMA SlotChangingAlone ==
  ASSUME AloneInv, TakeSlot \/ FreeSlot
  PROVE  AloneInv'
  BY DEF TakeSlot, FreeSlot, taskRows, AloneInv, CascadeAgrees, OneCascade, CascadeIsCurrent,
         StampsFresh, OnEngagement

(* No step undoes an overlap. *)
LEMMA NeverUndone ==
  ASSUME TypeOK, [Next]_vars, ~ overlapped'
  PROVE  ~ overlapped
  <1>1. ASSUME NEW s \in Session, Cascade(s) PROVE ~ overlapped
    BY <1>1 DEF Cascade, LoadForDelete, FlushDelete, SelectForDelete, CommitDelete, LoadForRestore,
                FlushRestore, RefuseRestore, SelectForRestore, CommitRestore, Start, Hold, TypeOK
  <1>2. ASSUME NEW s \in Session, OnTask(s) \/ Crash(s) PROVE ~ overlapped
    BY <1>2 DEF OnTask, LoadForAdd, LoadForDeleteTask, LoadForRestoreTask, CommitAdd,
                CommitDeleteTask, CommitRestoreTask, Crash, Hold
  <1>3. CASE TakeSlot \/ FreeSlot \/ UNCHANGED vars
    BY <1>3 DEF TakeSlot, FreeSlot, vars
  <1> QED
    BY <1>1, <1>2, <1>3 DEF Next

LEMMA AloneStep == IInv /\ [Next]_vars /\ ~ overlapped' => AloneInv'
  <1> SUFFICES ASSUME IInv, [Next]_vars, ~ overlapped' PROVE AloneInv'
    OBVIOUS
  <1>1. ASSUME NEW s \in Session, LoadForDelete(s) \/ LoadForRestore(s) PROVE AloneInv'
    BY <1>1, LoadingAlone
  <1>2. ASSUME OverlapInv, AloneInv PROVE AloneInv'
    <2>1. ASSUME NEW s \in Session, Cascade(s) PROVE AloneInv'
      BY <1>1, <1>2, <2>1, AdvancingAlone, CommittingDeleteAlone, CommittingRestoreAlone,
         DroppingAlone DEF Cascade
    <2>2. ASSUME NEW s \in Session, OnTask(s) PROVE AloneInv'
      BY <1>2, <2>2, LoadingTaskAlone, CommittingTaskAlone DEF OnTask
    <2>3. ASSUME NEW s \in Session, Crash(s) PROVE AloneInv'
      BY <1>2, <2>3, DroppingAlone
    <2>4. CASE TakeSlot \/ FreeSlot
      BY <1>2, <2>4, SlotChangingAlone
    <2>5. CASE UNCHANGED vars
      BY <1>2, <2>5 DEF vars, AloneInv, CascadeAgrees, OneCascade, CascadeIsCurrent, StampsFresh,
                        OnEngagement
    <2> QED
      BY <2>1, <2>2, <2>3, <2>4, <2>5 DEF Next
  <1>3. OverlapInv /\ AloneInv
    BY NeverUndone DEF IInv, OverlapInv
  <1> QED
    BY <1>2, <1>3

-----------------------------------------------------------------------------
(* The theorems *)

LEMMA InitAlone == Init => AloneInv
  <1> SUFFICES ASSUME Init PROVE AloneInv
    OBVIOUS
  <1>1. \A s \in Session : sess[s].kind = "idle" /\ ~ OnEngagement(s)
    BY DEF Init, Idle, OnEngagement
  <1> QED
    BY <1>1 DEF Init, AloneInv, CascadeAgrees, OneCascade, CascadeIsCurrent, StampsFresh

(* However cascades overlap, what is in flight fits the rows it was read     *)
(* from, as far as no overlap can spoil it.                                  *)
THEOREM OverlapInductive == Spec => []OverlapInv
  BY InitOverlap, OverlapStep, PTL DEF Spec

THEOREM TypeCorrect == Spec => []TypeOK
  <1>1. OverlapInv => TypeOK
    BY DEF OverlapInv
  <1> QED
    BY <1>1, OverlapInductive, PTL

(* What cascades and task requests hold in flight stays true of the rows.    *)
THEOREM Inductive == Spec => []IInv
  <1>1. Init => IInv
    BY InitOverlap, InitAlone DEF IInv
  <1>2. IInv /\ [Next]_vars => IInv'
    BY OverlapStep, AloneStep DEF IInv
  <1> QED
    BY <1>1, <1>2, PTL DEF Spec

(* Until two cascades overlap, the timestamp tells the tasks a cascade       *)
(* deleted from the others, and a live engagement has none of them left.     *)
THEOREM CascadeSafe == Spec => []CascadeAgreesAlone
  <1>1. IInv => CascadeAgreesAlone
    BY DEF IInv, AloneInv, CascadeAgreesAlone
  <1> QED
    BY <1>1, Inductive, PTL

(* A restore does not bring an engagement back to a slot that is taken,      *)
(* however many deletes and restores are in flight.                          *)
THEOREM SlotSafe == Spec => []SlotUnique
  <1>1. OverlapInv => SlotUnique
    BY DEF OverlapInv
  <1> QED
    BY <1>1, OverlapInductive, PTL

(* Neither cascade takes up a task that stands deleted on its own account,   *)
(* not even a restore that looks for an outdated timestamp.                  *)
THEOREM IndividualKept == Spec => IndividualDeletionKept
  <1> DEFINE Kept == \A s \in Session :
                       SelectForDelete(s) \/ SelectForRestore(s) =>
                         \A t \in sess'[s].tasks : reason[t] # "task"
  <1>1. OverlapInv => Kept
    <2> SUFFICES ASSUME OverlapInv, NEW s \in Session, SelectForDelete(s) \/ SelectForRestore(s),
                        NEW t \in sess'[s].tasks
                 PROVE  reason[t] # "task"
      OBVIOUS
    <2> USE DEF OverlapInv
    <2>1. CASE SelectForDelete(s)
      <3>1. sess'[s].tasks = LiveTasks
        BY <2>1 DEF SelectForDelete, Hold, TypeOK
      <3> QED
        BY <3>1 DEF LiveTasks, TypeOK
    <2>2. CASE SelectForRestore(s)
      <3>1. PICK stamp \in Stamp : stamp = sess[s].stamp
        BY <2>2, RequestShape, CascadeFields DEF SelectForRestore, OnEngagement
      <3>2. sess'[s].tasks = MarkedTasks(stamp) /\ CascadeStamp(stamp)
        BY <2>2, <3>1 DEF SelectForRestore, Hold, TypeOK, CascadeStamp, OnEngagement
      <3>3. ~ TaskStamp(stamp)
        BY <3>2 DEF StampsApart
      <3> QED
        BY <3>2, <3>3 DEF MarkedTasks, TaskStamp, TypeOK
    <2> QED
      BY <2>1, <2>2
  <1> HIDE DEF Kept
  <1>2. Spec => [][Kept]_vars
    BY <1>1, OverlapInductive, PTL DEF Spec
  <1> QED
    BY <1>2 DEF IndividualDeletionKept, Kept
=============================================================================

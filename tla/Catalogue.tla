----------------------------- MODULE Catalogue -----------------------------
(***************************************************************************)
(* The task templates of one service type: add_task_template,              *)
(* update_task_template and delete_task_template of                        *)
(* service_type_service.py, beside the generations that copy the templates *)
(* onto tasks (generate_tasks_for_engagement), and what the audit trigger  *)
(* of the templates writes.                                                *)
(*                                                                         *)
(* None of these requests locks what it reads.  A request sends its        *)
(* statements, which take row locks, and then commits; whatever comes in   *)
(* between is left to the row locks, to the foreign key of the tasks and   *)
(* to task_template_sequence_unique, which is DEFERRABLE: a statement that *)
(* meets another row with the sequence goes through, and the COMMIT looks  *)
(* again.                                                                  *)
(***************************************************************************)
EXTENDS Naturals, FiniteSets, Functions

CONSTANTS Template,     \* ids a template may get
          Sequence,     \* sequence numbers
          Engagement,   \* engagements the service type may be generated for
          Admin,        \* users who make the requests
          Session,
          Unborn, Gone, Idle   \* no row yet; row deleted; no request

(* The marks are none of the values they stand beside. *)
ASSUME MarksAssumption ==
  /\ Unborn \notin Admin /\ Unborn # Gone
  /\ {Unborn, Gone} \cap (Sequence \cup [sequence : Sequence, updated_by : Admin]) = {}

VARIABLES
  template,     \* the task_template rows
  copied,       \* of each engagement: the sequence copied from each template
  referenced,   \* <<engagement, template>> of the tasks with a task_template_id
  changed_by,   \* of each template: the actor named in its latest audit row
  sess          \* what the request of each session has read and sent

vars == <<template, copied, referenced, changed_by, sess>>

Row == [sequence : Sequence, updated_by : Admin]

NoCopies == [t \in {} |-> 0]
Copies == UNION {[T -> Sequence] : T \in SUBSET Template}

(* `late' says that the COMMIT will look for the sequence again. *)
AddRequest ==
  [kind : {"add"}, phase : {"send", "commit"}, template : Template, actor : Admin,
   sequence : Sequence, late : BOOLEAN]

UpdateRequest ==
  [kind : {"update"}, phase : {"send", "commit"}, template : Template, actor : Admin,
   loaded : Row, sequence : Sequence, late : BOOLEAN]

DeleteRequest ==
  [kind : {"delete"}, phase : {"null", "send", "commit"}, template : Template,
   nulled : SUBSET Engagement]

GenerateRequest ==
  [kind : {"generate"}, phase : {"send", "commit"}, engagement : Engagement, read : Copies]

Request == AddRequest \cup UpdateRequest \cup DeleteRequest \cup GenerateRequest

(* A session without a request is told from one that has one. *)
ASSUME IdleAssumption == Idle \notin Request

TypeOK ==
  /\ template \in [Template -> Row \cup {Unborn, Gone}]
  /\ copied \in [Engagement -> Copies]
  /\ referenced \in SUBSET (Engagement \X Template)
  /\ changed_by \in [Template -> Admin \cup {Unborn}]
  /\ sess \in [Session -> Request \cup {Idle}]
  /\ \A t \in Template : template[t] = Unborn <=> changed_by[t] = Unborn
  /\ \A r \in referenced : r[2] \in DOMAIN copied[r[1]]

Rows == {t \in Template : template[t] \notin {Unborn, Gone}}

Hold(s, request) == sess' = [sess EXCEPT ![s] = request]

At(s, kind, phase) == sess[s] # Idle /\ sess[s].kind = kind /\ sess[s].phase = phase

(***************************************************************************)
(* PostgreSQL: row locks, the foreign key, the deferred constraint         *)
(***************************************************************************)

(* s has written the row of t and not committed. *)
Wrote(s, t) ==
  sess[s] # Idle /\ sess[s].kind \in {"add", "update", "delete"}
    /\ sess[s].phase = "commit" /\ sess[s].template = t

(* s has inserted tasks whose foreign key locks the row of t in place.  *)
KeepsInPlace(s, t) == At(s, "generate", "commit") /\ t \in DOMAIN sess[s].read

(* The write of s changes what a foreign key to t may lean on. *)
ChangesKey(s, t) ==
  Wrote(s, t) /\ (sess[s].kind = "update" => sess[s].sequence # sess[s].loaded.sequence)

RowFree(s, t) == \A other \in Session \ {s} : ~ Wrote(other, t)

KeyFreeOfDeletes(s, t) ==
  /\ RowFree(s, t)
  /\ \A other \in Session \ {s} :
       ~ KeepsInPlace(other, t) /\ ~ (At(other, "delete", "send") /\ sess[other].template = t)

KeyFree(s, t) == RowFree(s, t) /\ \A other \in Session \ {s} : ~ KeepsInPlace(other, t)

(* The flush leaves out what is as it was loaded, the actor included. *)
Flushed(loaded, wanted, now) == IF wanted = loaded THEN now ELSE wanted

(* The row that the INSERT or UPDATE of s has written. *)
NewRow(s) ==
  LET now == template[sess[s].template]
  IN  IF sess[s].kind = "add"
      THEN [sequence |-> sess[s].sequence, updated_by |-> sess[s].actor]
      ELSE [sequence |-> Flushed(sess[s].loaded.sequence, sess[s].sequence, now.sequence),
            updated_by |-> Flushed(sess[s].loaded.updated_by, sess[s].actor, now.updated_by)]

(* A row of t with the sequence q is on its way in, or out, with another     *)
(* session.                                                                  *)
ComesIn(other, t, q) ==
  Wrote(other, t) /\ sess[other].kind \in {"add", "update"} /\ NewRow(other).sequence = q

GoesOut(other, t, q) ==
  t \in Rows /\ template[t].sequence = q /\ Wrote(other, t) /\ ~ ComesIn(other, t, q)

Undecided(s, other, q) ==
  \E t \in Template \ {sess[s].template} : ComesIn(other, t, q) \/ GoesOut(other, t, q)

Taken(t, q) == \E u \in Rows \ {t} : template[u].sequence = q

NotDeferred(s, t, q) == FALSE

(* The index entry of the statement meets another one with the sequence. *)
LooksAgain(s, t, q) ==
  Taken(t, q) \/ \E other \in Session \ {s}, u \in Template \ {t} : ComesIn(other, u, q)

(* The COMMIT of s waits for `other' to end. *)
Waits(s, other) ==
  /\ other # s
  /\ sess[s] # Idle /\ sess[s].kind \in {"add", "update"}
  /\ sess[s].phase = "commit" /\ sess[s].late
  /\ Undecided(s, other, sess[s].sequence)

MayCommit(s) ==
  sess[s].late => /\ \A other \in Session : ~ Waits(s, other)
                  /\ ~ Taken(sess[s].template, sess[s].sequence)

CommitConflicts(s) ==
  /\ sess[s].late
  /\ \E u \in Rows \ {sess[s].template} :
       template[u].sequence = sess[s].sequence /\ RowFree(s, u)

InCycle(s) ==
  \E circle \in SUBSET {r \in Session : \E other \in Session : Waits(r, other)} :
    s \in circle /\ \A r \in circle : \E other \in circle : Waits(r, other)

(***************************************************************************)
(* record_audit                                                            *)
(***************************************************************************)

Actor(old, new) == new.updated_by

NoAudit(t, old, new) == UNCHANGED changed_by

Audit(t, old, new) == changed_by' = [changed_by EXCEPT ![t] = Actor(old, new)]

(***************************************************************************)
(* add_task_template                                                       *)
(***************************************************************************)

LoadForAdd(s, t, q, actor) ==
  /\ sess[s] = Idle
  /\ template[t] = Unborn
  /\ \A other \in Session :
       sess[other] # Idle /\ sess[other].kind = "add" => sess[other].template # t
  /\ Hold(s, [kind |-> "add", phase |-> "send", template |-> t, actor |-> actor,
              sequence |-> q, late |-> FALSE])
  /\ UNCHANGED <<template, copied, referenced, changed_by>>

SendAdd(s) ==
  /\ At(s, "add", "send")
  /\ Hold(s, [sess[s] EXCEPT !.phase = "commit",
                !.late = LooksAgain(s, sess[s].template, sess[s].sequence)])
  /\ UNCHANGED <<template, copied, referenced, changed_by>>

CommitAdd(s) ==
  /\ At(s, "add", "commit")
  /\ MayCommit(s)
  /\ template' = [template EXCEPT ![sess[s].template] = NewRow(s)]
  /\ Audit(sess[s].template, NewRow(s), NewRow(s))
  /\ Hold(s, Idle)
  /\ UNCHANGED <<copied, referenced>>

Refused(s) == (At(s, "add", "commit") \/ At(s, "update", "commit")) /\ CommitConflicts(s)

(* IntegrityError: a 409 from add_task_template, a 500 from                  *)
(* update_task_template, which has no except clause.                         *)
RefuseSequence(s) ==
  /\ Refused(s)
  /\ Hold(s, Idle)
  /\ UNCHANGED <<template, copied, referenced, changed_by>>

(* PostgreSQL's deadlock check ends one of the commits that wait for one     *)
(* another: a 500, whichever request it is.                                  *)
DeadlockVictim(s) ==
  /\ InCycle(s)
  /\ Hold(s, Idle)
  /\ UNCHANGED <<template, copied, referenced, changed_by>>

(***************************************************************************)
(* update_task_template                                                    *)
(***************************************************************************)

LoadForUpdate(s, t, q, actor) ==
  /\ sess[s] = Idle
  /\ t \in Rows
  /\ Hold(s, [kind |-> "update", phase |-> "send", template |-> t, actor |-> actor,
              loaded |-> template[t], sequence |-> q, late |-> FALSE])
  /\ UNCHANGED <<template, copied, referenced, changed_by>>

Moves(s) == sess[s].sequence # sess[s].loaded.sequence

(* The UPDATE waits for whoever has the row. *)
UpdateFindsRow(s) ==
  /\ At(s, "update", "send")
  /\ IF Moves(s) THEN KeyFree(s, sess[s].template) ELSE RowFree(s, sess[s].template)
  /\ sess[s].template \in Rows

(* It enters a sequence in the index only if the request changes it. *)
SendUpdate(s) ==
  /\ UpdateFindsRow(s)
  /\ Hold(s, [sess[s] EXCEPT !.phase = "commit",
                !.late = Moves(s) /\ LooksAgain(s, sess[s].template, sess[s].sequence)])
  /\ UNCHANGED <<template, copied, referenced, changed_by>>

(* No row matches: StaleDataError, a 500. *)
UpdateFindsNone(s) ==
  /\ At(s, "update", "send")
  /\ RowFree(s, sess[s].template)
  /\ template[sess[s].template] = Gone

UpdateFindsNoRow(s) ==
  /\ UpdateFindsNone(s)
  /\ Hold(s, Idle)
  /\ UNCHANGED <<template, copied, referenced, changed_by>>

CommitUpdate(s) ==
  /\ At(s, "update", "commit")
  /\ MayCommit(s)
  /\ template' = [template EXCEPT ![sess[s].template] = NewRow(s)]
  /\ Audit(sess[s].template, template[sess[s].template], NewRow(s))
  /\ Hold(s, Idle)
  /\ UNCHANGED <<copied, referenced>>

(***************************************************************************)
(* delete_task_template                                                    *)
(***************************************************************************)

LoadForDelete(s, t) ==
  /\ sess[s] = Idle
  /\ t \in Rows
  /\ Hold(s, [kind |-> "delete", phase |-> "null", template |-> t, nulled |-> {}])
  /\ UNCHANGED <<template, copied, referenced, changed_by>>

(* No other delete holds tasks of the same template: it does if its UPDATE   *)
(* has found any.                                                            *)
TasksFree(s) ==
  \A other \in Session \ {s} :
    (At(other, "delete", "send") \/ At(other, "delete", "commit")) /\ sess[other].nulled # {}
      => sess[other].template # sess[s].template

(* UPDATE task SET task_template_id = NULL: the tasks that are there now. *)
NullReferences(s) ==
  /\ At(s, "delete", "null")
  /\ TasksFree(s)
  /\ Hold(s, [sess[s] EXCEPT !.phase = "send",
                !.nulled = {g \in Engagement : <<g, sess[s].template>> \in referenced}])
  /\ UNCHANGED <<template, copied, referenced, changed_by>>

NeverBlocked(t, nulled) == FALSE

(* The foreign key of task.task_template_id, looked at by the DELETE. *)
StillReferenced(t, nulled) == \E g \in Engagement \ nulled : <<g, t>> \in referenced

(* A row that is gone already is not deleted again: a warning in the log. *)
SendDelete(s) ==
  /\ At(s, "delete", "send")
  /\ KeyFree(s, sess[s].template)
  /\ ~ StillReferenced(sess[s].template, sess[s].nulled)
  /\ Hold(s, [sess[s] EXCEPT !.phase = "commit"])
  /\ UNCHANGED <<template, copied, referenced, changed_by>>

(* A generation has committed since the references were nulled:              *)
(* IntegrityError, a 500, and the references are back.                       *)
DeleteBlocked(s) ==
  /\ At(s, "delete", "send")
  /\ KeyFree(s, sess[s].template)
  /\ StillReferenced(sess[s].template, sess[s].nulled)
  /\ Hold(s, Idle)
  /\ UNCHANGED <<template, copied, referenced, changed_by>>

CommitDelete(s) ==
  /\ At(s, "delete", "commit")
  /\ LET t == sess[s].template
     IN  /\ referenced' = referenced \ {<<g, t>> : g \in sess[s].nulled}
         /\ template' = [template EXCEPT ![t] = Gone]
         /\ IF t \in Rows THEN Audit(t, template[t], template[t]) ELSE UNCHANGED changed_by
  /\ Hold(s, Idle)
  /\ UNCHANGED copied

(***************************************************************************)
(* generate_tasks_for_engagement, and the commit of its caller             *)
(***************************************************************************)

ReadTemplates(s, g) ==
  /\ sess[s] = Idle
  /\ copied[g] = NoCopies
  /\ \A other \in Session :
       sess[other] # Idle /\ sess[other].kind = "generate" => sess[other].engagement # g
  /\ Rows # {}
  /\ Hold(s, [kind |-> "generate", phase |-> "send", engagement |-> g,
              read |-> [t \in Rows |-> template[t].sequence]])
  /\ UNCHANGED <<template, copied, referenced, changed_by>>

ForeignKeysIgnored(read) == TRUE

(* The foreign keys of the tasks that are inserted. *)
TemplatesThere(read) == DOMAIN read \subseteq Rows

KeysSettled(s) == \A t \in DOMAIN sess[s].read, other \in Session \ {s} : ~ ChangesKey(other, t)

SendTasks(s) ==
  /\ At(s, "generate", "send")
  /\ KeysSettled(s)
  /\ TemplatesThere(sess[s].read)
  /\ Hold(s, [sess[s] EXCEPT !.phase = "commit"])
  /\ UNCHANGED <<template, copied, referenced, changed_by>>

(* IntegrityError, which create_next_period and create_engagement raise. *)
TasksRefused(s) ==
  /\ At(s, "generate", "send")
  /\ KeysSettled(s)
  /\ ~ TemplatesThere(sess[s].read)
  /\ Hold(s, Idle)
  /\ UNCHANGED <<template, copied, referenced, changed_by>>

CommitTasks(s) ==
  /\ At(s, "generate", "commit")
  /\ copied' = [copied EXCEPT ![sess[s].engagement] = sess[s].read]
  /\ referenced' = referenced \cup ({sess[s].engagement} \X DOMAIN sess[s].read)
  /\ Hold(s, Idle)
  /\ UNCHANGED <<template, changed_by>>

Crash(s) ==
  /\ sess[s] # Idle
  /\ Hold(s, Idle)
  /\ UNCHANGED <<template, copied, referenced, changed_by>>

(***************************************************************************)
(* The specification: a service type just created                          *)
(***************************************************************************)

Init ==
  /\ template = [t \in Template |-> Unborn]
  /\ copied = [g \in Engagement |-> NoCopies]
  /\ referenced = {}
  /\ changed_by = [t \in Template |-> Unborn]
  /\ sess = [s \in Session |-> Idle]

Load(s) ==
  \/ \E t \in Template, q \in Sequence, actor \in Admin :
       LoadForAdd(s, t, q, actor) \/ LoadForUpdate(s, t, q, actor)
  \/ \E t \in Template : LoadForDelete(s, t)
  \/ \E g \in Engagement : ReadTemplates(s, g)

Send(s) ==
  \/ SendAdd(s) \/ SendUpdate(s) \/ UpdateFindsNoRow(s)
  \/ NullReferences(s) \/ SendDelete(s) \/ DeleteBlocked(s)
  \/ SendTasks(s) \/ TasksRefused(s)

End(s) ==
  \/ CommitAdd(s) \/ CommitUpdate(s) \/ CommitDelete(s) \/ CommitTasks(s)
  \/ RefuseSequence(s) \/ DeadlockVictim(s)

Next == \E s \in Session : Load(s) \/ Send(s) \/ End(s) \/ Crash(s)

Spec == Init /\ [][Next]_vars

-----------------------------------------------------------------------------
(* Properties *)

(* "a deleted template's tasks stay": whichever of a delete's two statements *)
(* and a generation's read, insert and commit come first, no committed task  *)
(* refers to a template that is not there.                                   *)
NoDanglingReference == \A r \in referenced : r[2] \in Rows

(* task_template_sequence_unique is looked at by commits that overlap, and   *)
(* by generations as a copy of what they read in one SELECT: two templates,  *)
(* and two tasks generated together, never share a sequence, although add    *)
(* and update send their rows without asking who has it.                     *)
SequenceUnique ==
  /\ \A t, u \in Rows : template[t].sequence = template[u].sequence => t = u
  /\ \A g \in Engagement : IsInjective(copied[g])

(* "Writing the actor into the row as part of the same UPDATE ... cannot     *)
(* silently fail": the audit row of an update names who made the update.     *)
(* The flush writes the actor only if the row named somebody else when it    *)
(* was loaded.                                                               *)
AuditNamesActor ==
  [][\A s \in Session :
       CommitUpdate(s) => changed_by'[sess[s].template] = sess[s].actor]_vars

(* What s has to do next, a statement or its COMMIT, waits for nobody. *)
Ready(s) ==
  \/ At(s, "add", "send") \/ UpdateFindsRow(s) \/ UpdateFindsNone(s)
  \/ At(s, "delete", "null") /\ TasksFree(s)
  \/ At(s, "delete", "send") /\ KeyFree(s, sess[s].template)
  \/ At(s, "generate", "send") /\ KeysSettled(s)
  \/ (At(s, "add", "commit") \/ At(s, "update", "commit")) /\ MayCommit(s)
  \/ At(s, "delete", "commit") \/ At(s, "generate", "commit")
  \/ Refused(s) \/ InCycle(s)

(* Everyone waiting on everyone: requests wait for the rows another one has  *)
(* written, for the tasks it inserts and, in their COMMIT, for its sequence. *)
(* COMMITs that wait for one another, as those of two updates that exchange  *)
(* two templates' sequences do, are left to PostgreSQL's deadlock check      *)
(* (InCycle).  There is no other circle: of the requests in flight one can   *)
(* always go on, whatever rows, tasks and keys the statements wait for.      *)
SomeoneGoesOn ==
  (\E s \in Session : sess[s] # Idle) => \E s \in Session : Ready(s)

(* Seen as rows that change in one step, and as generations that copy what   *)
(* they have seen at one moment, every commit is one of TemplateLedger's:    *)
(* two deletes of a template, or statements that overlapped, show nowhere.   *)
Seen(g) ==
  LET Generates(s) == sess[s] # Idle /\ sess[s].kind = "generate" /\ sess[s].engagement = g
  IN  IF \E s \in Session : Generates(s)
      THEN sess[CHOOSE s \in Session : Generates(s)].read
      ELSE NoCopies

Sequences == [t \in Template |-> IF t \in Rows THEN template[t].sequence ELSE template[t]]

Snapshots == [g \in Engagement |-> Seen(g)]

L == INSTANCE TemplateLedger WITH sequence <- Sequences, snapshot <- Snapshots

LedgerSpec == L!Spec

(* What these rest on.  An id is inserted once, and by one session; a row    *)
(* has one writer; a generation copies onto an engagement once.              *)
OneWriter ==
  /\ \A s, other \in Session, t \in Template : Wrote(s, t) /\ Wrote(other, t) => s = other
  /\ \A s \in Session : sess[s] # Idle =>
       /\ sess[s].kind = "add" =>
            /\ template[sess[s].template] = Unborn
            /\ \A other \in Session :
                 sess[other] # Idle /\ sess[other].kind = "add"
                   /\ sess[other].template = sess[s].template => other = s
       /\ sess[s].kind \in {"update", "delete"} => template[sess[s].template] # Unborn
       /\ At(s, "update", "commit") => sess[s].template \in Rows
       /\ sess[s].kind = "generate" =>
            /\ copied[sess[s].engagement] = NoCopies
            /\ \A other \in Session :
                 sess[other] # Idle /\ sess[other].kind = "generate"
                   /\ sess[other].engagement = sess[s].engagement => other = s

(* A delete that has gone through has every reference to its template, and   *)
(* no generation about to add one.                                           *)
DeletesClear ==
  /\ \A s \in Session : At(s, "delete", "commit") =>
       /\ ~ StillReferenced(sess[s].template, sess[s].nulled)
       /\ \A other \in Session : ~ KeepsInPlace(other, sess[s].template)
  /\ \A s \in Session : At(s, "generate", "commit") => DOMAIN sess[s].read \subseteq Rows

(* s has entered the sequence q in the index. *)
Claims(s, q) ==
  /\ At(s, "add", "commit") \/ At(s, "update", "commit")
  /\ sess[s].sequence = q
  /\ sess[s].kind = "update" => q # sess[s].loaded.sequence

(* Who does not look again was there first. *)
ClaimsSettled ==
  \A s \in Session, q \in Sequence : Claims(s, q) /\ ~ sess[s].late =>
    /\ ~ Taken(sess[s].template, q)
    /\ \A other \in Session \ {s} : Claims(other, q) => sess[other].late

ReadsInjective ==
  \A s \in Session : sess[s] # Idle /\ sess[s].kind = "generate" => IsInjective(sess[s].read)

AuditFollows == \A t \in Rows : changed_by[t] = template[t].updated_by

(* The inductive invariant: what the requests for templates have sent, with  *)
(* the locks they hold for it, still fits the rows when they commit.         *)
IInv ==
  /\ TypeOK /\ OneWriter
  /\ NoDanglingReference /\ DeletesClear
  /\ SequenceUnique /\ ClaimsSettled /\ ReadsInjective
  /\ AuditFollows
=============================================================================

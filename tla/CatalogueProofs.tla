-------------------------- MODULE CatalogueProofs --------------------------
(***************************************************************************)
(* Theorems about Catalogue, for any templates, sequences, engagements,    *)
(* administrators and sessions.                                            *)
(***************************************************************************)
EXTENDS Catalogue, TLAPS

-----------------------------------------------------------------------------
(* Shapes *)

(* The kind of a request tells its fields. *)
LEMMA RequestShape ==
  ASSUME NEW q \in Request
  PROVE  /\ q.kind \in {"add", "update", "delete", "generate"}
         /\ q.kind = "add" => q \in AddRequest
         /\ q.kind = "update" => q \in UpdateRequest
         /\ q.kind = "delete" => q \in DeleteRequest
         /\ q.kind = "generate" => q \in GenerateRequest
  BY DEF Request, AddRequest, UpdateRequest, DeleteRequest, GenerateRequest

LEMMA RequestFields ==
  ASSUME NEW q \in Request
  PROVE  /\ q.kind \in {"add", "update"} =>
              /\ q.template \in Template /\ q.sequence \in Sequence
              /\ q.actor \in Admin /\ q.late \in BOOLEAN /\ q.phase \in {"send", "commit"}
         /\ q.kind = "update" => q.loaded \in Row
         /\ q.kind = "delete" =>
              /\ q.template \in Template /\ q.nulled \in SUBSET Engagement
              /\ q.phase \in {"null", "send", "commit"}
         /\ q.kind = "generate" =>
              /\ q.engagement \in Engagement /\ q.read \in Copies
              /\ q.phase \in {"send", "commit"}
  BY RequestShape DEF AddRequest, UpdateRequest, DeleteRequest, GenerateRequest

LEMMA Held ==
  ASSUME TypeOK, NEW s \in Session, sess[s] # Idle
  PROVE  sess[s] \in Request
  BY DEF TypeOK

LEMMA RowsAre ==
  ASSUME TypeOK
  PROVE  Rows = {t \in Template : template[t] \in Row}
  BY MarksAssumption DEF TypeOK, Rows, Row

LEMMA CopiesAre ==
  ASSUME NEW f \in Copies
  PROVE  /\ DOMAIN f \subseteq Template
         /\ \A t \in DOMAIN f : f[t] \in Sequence
  BY DEF Copies

(* Sending is a change of phase, with a verdict on the sequence. *)
LEMMA AddSent ==
  ASSUME NEW q \in AddRequest, NEW late \in BOOLEAN
  PROVE  LET sent == [q EXCEPT !.phase = "commit", !.late = late]
         IN  /\ sent \in AddRequest /\ sent.kind = "add" /\ sent.phase = "commit"
             /\ sent.template = q.template /\ sent.sequence = q.sequence
             /\ sent.late = late
  BY DEF AddRequest

LEMMA UpdateSent ==
  ASSUME NEW q \in UpdateRequest, NEW late \in BOOLEAN
  PROVE  LET sent == [q EXCEPT !.phase = "commit", !.late = late]
         IN  /\ sent \in UpdateRequest /\ sent.kind = "update" /\ sent.phase = "commit"
             /\ sent.template = q.template /\ sent.sequence = q.sequence
             /\ sent.loaded = q.loaded /\ sent.late = late
  BY DEF UpdateRequest

LEMMA DeleteNulled ==
  ASSUME NEW q \in DeleteRequest, NEW nulled \in SUBSET Engagement
  PROVE  LET sent == [q EXCEPT !.phase = "send", !.nulled = nulled]
         IN  /\ sent \in DeleteRequest /\ sent.kind = "delete" /\ sent.phase = "send"
             /\ sent.template = q.template
  BY DEF DeleteRequest

LEMMA DeleteSent ==
  ASSUME NEW q \in DeleteRequest
  PROVE  LET sent == [q EXCEPT !.phase = "commit"]
         IN  /\ sent \in DeleteRequest /\ sent.kind = "delete" /\ sent.phase = "commit"
             /\ sent.template = q.template /\ sent.nulled = q.nulled
  BY DEF DeleteRequest

LEMMA TasksSent ==
  ASSUME NEW q \in GenerateRequest
  PROVE  LET sent == [q EXCEPT !.phase = "commit"]
         IN  /\ sent \in GenerateRequest /\ sent.kind = "generate" /\ sent.phase = "commit"
             /\ sent.engagement = q.engagement /\ sent.read = q.read
  BY DEF GenerateRequest

-----------------------------------------------------------------------------
(* A step that replaces what one session holds *)

(* What the inductive invariant asks of a request q in the hands of s. *)
Fits(s, q) ==
  /\ q \in Request \cup {Idle}
  /\ q # Idle =>
       /\ q.kind \in {"add", "update", "delete"} /\ q.phase = "commit" =>
            \A other \in Session \ {s} : ~ Wrote(other, q.template)
       /\ q.kind = "add" =>
            /\ template[q.template] = Unborn
            /\ \A other \in Session \ {s} :
                 sess[other] # Idle /\ sess[other].kind = "add"
                   => sess[other].template # q.template
       /\ q.kind \in {"update", "delete"} => template[q.template] # Unborn
       /\ q.kind = "update" /\ q.phase = "commit" => q.template \in Rows
       /\ q.kind = "delete" /\ q.phase = "commit" =>
            /\ ~ StillReferenced(q.template, q.nulled)
            /\ \A other \in Session \ {s} : ~ KeepsInPlace(other, q.template)
       /\ q.kind = "generate" =>
            /\ copied[q.engagement] = NoCopies /\ IsInjective(q.read)
            /\ \A other \in Session \ {s} :
                 sess[other] # Idle /\ sess[other].kind = "generate"
                   => sess[other].engagement # q.engagement
       /\ q.kind = "generate" /\ q.phase = "commit" =>
            /\ DOMAIN q.read \subseteq Rows
            /\ \A other \in Session \ {s} :
                 At(other, "delete", "commit") => sess[other].template \notin DOMAIN q.read
       /\ /\ q.kind \in {"add", "update"} /\ q.phase = "commit"
          /\ q.kind = "update" => q.sequence # q.loaded.sequence
          => /\ q.late \/ ~ Taken(q.template, q.sequence)
             /\ \A other \in Session \ {s} :
                  Claims(other, q.sequence) => q.late \/ sess[other].late

LEMMA Replaced ==
  ASSUME IInv, NEW s \in Session, NEW q, Fits(s, q), Hold(s, q),
         UNCHANGED <<template, copied, referenced, changed_by>>
  PROVE  IInv'
  <1> USE DEF IInv
  <1>1. sess' = [sess EXCEPT ![s] = q]
    BY DEF Hold
  <1>2. sess'[s] = q /\ \A r \in Session \ {s} : sess'[r] = sess[r]
    BY <1>1 DEF TypeOK
  <1>3. TypeOK'
    BY <1>1 DEF TypeOK, Fits
  <1>4. Rows' = Rows
    BY DEF Rows
  <1>5. OneWriter'
    <2>1. \A r, other \in Session, t \in Template : (Wrote(r, t) /\ Wrote(other, t))' => r = other
      BY <1>2 DEF OneWriter, Wrote, Fits
    <2>2. ASSUME NEW r \in Session, sess'[r] # Idle, r # s
          PROVE  /\ sess'[r].kind = "add" =>
                      /\ template[sess[r].template] = Unborn
                      /\ \A other \in Session :
                           sess'[other] # Idle /\ sess'[other].kind = "add"
                             /\ sess'[other].template = sess'[r].template => other = r
                 /\ sess'[r].kind \in {"update", "delete"} => template[sess[r].template] # Unborn
                 /\ sess'[r].kind = "update" /\ sess'[r].phase = "commit"
                      => sess'[r].template \in Rows
                 /\ sess'[r].kind = "generate" =>
                      /\ copied[sess'[r].engagement] = NoCopies
                      /\ \A other \in Session :
                           sess'[other] # Idle /\ sess'[other].kind = "generate"
                             /\ sess'[other].engagement = sess'[r].engagement => other = r
      BY <1>2, <2>2 DEF OneWriter, Fits, At
    <2>3. ASSUME sess'[s] # Idle
          PROVE  /\ sess'[s].kind = "add" =>
                      /\ template[sess'[s].template] = Unborn
                      /\ \A other \in Session :
                           sess'[other] # Idle /\ sess'[other].kind = "add"
                             /\ sess'[other].template = sess'[s].template => other = s
                 /\ sess'[s].kind \in {"update", "delete"} => template[sess'[s].template] # Unborn
                 /\ sess'[s].kind = "update" /\ sess'[s].phase = "commit"
                      => sess'[s].template \in Rows
                 /\ sess'[s].kind = "generate" =>
                      /\ copied[sess'[s].engagement] = NoCopies
                      /\ \A other \in Session :
                           sess'[other] # Idle /\ sess'[other].kind = "generate"
                             /\ sess'[other].engagement = sess'[s].engagement => other = s
      BY <1>2, <2>3 DEF Fits
    <2> QED
      BY <1>2, <1>4, <2>1, <2>2, <2>3 DEF OneWriter, At
  <1>6. NoDanglingReference' /\ SequenceUnique' /\ AuditFollows'
    BY <1>4 DEF NoDanglingReference, SequenceUnique, AuditFollows
  <1>7. DeletesClear'
    <2>1. ASSUME NEW r \in Session, At(r, "delete", "commit")'
          PROVE  /\ ~ StillReferenced(sess'[r].template, sess'[r].nulled)
                 /\ \A other \in Session : ~ KeepsInPlace(other, sess[r].template)'
      BY <1>2, <2>1 DEF DeletesClear, At, KeepsInPlace, Fits
    <2>2. ASSUME NEW r \in Session, At(r, "generate", "commit")'
          PROVE  DOMAIN sess'[r].read \subseteq Rows
      BY <1>2, <2>2 DEF DeletesClear, At, Fits
    <2> QED
      BY <1>2, <1>4, <2>1, <2>2 DEF DeletesClear, StillReferenced, KeepsInPlace
  <1>8. ClaimsSettled'
    <2>1. \A r \in Session \ {s}, k \in Sequence : Claims(r, k)' <=> Claims(r, k)
      BY <1>2 DEF Claims, At
    <2>2. \A k \in Sequence : Claims(s, k)' <=>
            /\ q # Idle /\ q.kind \in {"add", "update"} /\ q.phase = "commit"
            /\ q.sequence = k /\ (q.kind = "update" => q.sequence # q.loaded.sequence)
      BY <1>2 DEF Claims, At
    <2>3. \A t, k : Taken(t, k)' <=> Taken(t, k)
      BY <1>4 DEF Taken
    <2>4. ASSUME NEW r \in Session, NEW k \in Sequence, Claims(r, k)', ~ sess'[r].late
          PROVE  /\ ~ Taken(sess'[r].template, k)
                 /\ \A other \in Session \ {r} : Claims(other, k)' => sess'[other].late
      <3>1. CASE r = s
        BY <1>2, <2>1, <2>2, <2>4, <3>1 DEF Fits
      <3>2. CASE r # s
        <4>1. /\ Claims(r, k) /\ ~ sess[r].late /\ sess'[r] = sess[r]
          BY <1>2, <2>1, <2>4, <3>2
        <4>2. /\ ~ Taken(sess[r].template, k)
              /\ \A other \in Session \ {r, s} : Claims(other, k) => sess[other].late
          BY <4>1 DEF ClaimsSettled
        <4>3. Claims(s, k)' => sess'[s].late
          BY <1>2, <2>2, <3>2, <4>1 DEF Fits
        <4> QED
          BY <1>2, <2>1, <4>1, <4>2, <4>3
      <3> QED
        BY <3>1, <3>2
    <2> QED
      BY <2>3, <2>4 DEF ClaimsSettled
  <1>9. ReadsInjective'
    BY <1>2 DEF ReadsInjective, Fits
  <1> QED
    BY <1>3, <1>5, <1>6, <1>7, <1>8, <1>9

LEMMA Dropping ==
  ASSUME IInv, NEW s \in Session, Hold(s, Idle),
         UNCHANGED <<template, copied, referenced, changed_by>>
  PROVE  IInv'
  BY Replaced DEF Fits

LEMMA Dropped ==
  ASSUME IInv, NEW s \in Session,
         RefuseSequence(s) \/ DeadlockVictim(s) \/ UpdateFindsNoRow(s) \/ DeleteBlocked(s)
           \/ TasksRefused(s) \/ Crash(s)
  PROVE  IInv'
  BY Dropping DEF RefuseSequence, DeadlockVictim, UpdateFindsNoRow, DeleteBlocked,
                  TasksRefused, Crash

-----------------------------------------------------------------------------
(* Requests that have read and not sent *)

LEMMA LoadingAdd ==
  ASSUME IInv, NEW s \in Session, NEW t \in Template, NEW k \in Sequence, NEW actor \in Admin,
         LoadForAdd(s, t, k, actor)
  PROVE  IInv'
  <1> DEFINE q == [kind |-> "add", phase |-> "send", template |-> t, actor |-> actor,
                   sequence |-> k, late |-> FALSE]
  <1>1. q \in Request
    BY DEF Request, AddRequest
  <1>2. Fits(s, q)
    BY <1>1 DEF Fits, LoadForAdd
  <1> QED
    BY <1>2, Replaced DEF LoadForAdd

LEMMA LoadingUpdate ==
  ASSUME IInv, NEW s \in Session, NEW t \in Template, NEW k \in Sequence, NEW actor \in Admin,
         LoadForUpdate(s, t, k, actor)
  PROVE  IInv'
  <1> DEFINE q == [kind |-> "update", phase |-> "send", template |-> t, actor |-> actor,
                   loaded |-> template[t], sequence |-> k, late |-> FALSE]
  <1>1. t \in Rows /\ template[t] \in Row /\ template[t] # Unborn
    BY RowsAre DEF LoadForUpdate, IInv, Rows
  <1>2. q \in Request
    BY <1>1 DEF Request, UpdateRequest
  <1>3. Fits(s, q)
    BY <1>1, <1>2 DEF Fits
  <1> QED
    BY <1>3, Replaced DEF LoadForUpdate

LEMMA LoadingDelete ==
  ASSUME IInv, NEW s \in Session, NEW t \in Template, LoadForDelete(s, t)
  PROVE  IInv'
  <1> DEFINE q == [kind |-> "delete", phase |-> "null", template |-> t, nulled |-> {}]
  <1>1. q \in Request /\ template[t] # Unborn
    BY DEF Request, DeleteRequest, LoadForDelete, Rows
  <1>2. Fits(s, q)
    BY <1>1 DEF Fits
  <1> QED
    BY <1>2, Replaced DEF LoadForDelete

LEMMA Nulling ==
  ASSUME IInv, NEW s \in Session, NullReferences(s)
  PROVE  IInv'
  <1> DEFINE nulled == {g \in Engagement : <<g, sess[s].template>> \in referenced}
             q == [sess[s] EXCEPT !.phase = "send", !.nulled = nulled]
  <1>1. sess[s] # Idle /\ sess[s].kind = "delete"
    BY DEF NullReferences, At
  <1>2. sess[s] \in DeleteRequest
    BY <1>1, Held, RequestShape DEF IInv
  <1>3. q \in DeleteRequest /\ q.kind = "delete" /\ q.phase = "send"
        /\ q.template = sess[s].template
    BY <1>2, DeleteNulled
  <1>4. template[sess[s].template] # Unborn
    BY <1>1 DEF IInv, OneWriter
  <1> HIDE DEF q
  <1>5. Fits(s, q)
    BY <1>3, <1>4 DEF Fits, Request
  <1> QED
    BY <1>5, Replaced DEF NullReferences, q

LEMMA Reading ==
  ASSUME IInv, NEW s \in Session, NEW g \in Engagement, ReadTemplates(s, g)
  PROVE  IInv'
  <1> DEFINE f == [t \in Rows |-> template[t].sequence]
             q == [kind |-> "generate", phase |-> "send", engagement |-> g, read |-> f]
  <1>1. \A t \in Rows : template[t].sequence \in Sequence
    BY RowsAre DEF IInv, Row
  <1>2. Rows \subseteq Template
    BY DEF Rows
  <1>3. f \in Copies
    BY <1>1, <1>2 DEF Copies
  <1>4. IsInjective(f)
    BY <1>2 DEF IsInjective, IInv, SequenceUnique
  <1> HIDE DEF f
  <1>5. q \in Request
    BY <1>3 DEF Request, GenerateRequest
  <1>6. Fits(s, q)
    BY <1>4, <1>5 DEF Fits, ReadTemplates
  <1> QED
    BY <1>6, Replaced DEF ReadTemplates, f

-----------------------------------------------------------------------------
(* Statements sent *)

(* A claim on a sequence is a row on its way in. *)
LEMMA ClaimComesIn ==
  ASSUME TypeOK, NEW s \in Session, NEW k \in Sequence, Claims(s, k)
  PROVE  ComesIn(s, sess[s].template, k) /\ sess[s].template \in Template
  <1>1. /\ sess[s] # Idle /\ sess[s].kind \in {"add", "update"} /\ sess[s].phase = "commit"
        /\ sess[s].sequence = k
        /\ sess[s].kind = "update" => k # sess[s].loaded.sequence
    BY DEF Claims, At
  <1>2. sess[s].template \in Template
    BY <1>1, Held, RequestFields
  <1>3. NewRow(s).sequence = k
    BY <1>1 DEF NewRow, Flushed
  <1> QED
    BY <1>1, <1>2, <1>3 DEF ComesIn, Wrote

(* What meets nothing in the index takes nothing that is taken or claimed.   *)
LEMMA Verdict ==
  ASSUME TypeOK, NEW s \in Session, NEW t \in Template, NEW k \in Sequence,
         RowFree(s, t), ~ LooksAgain(s, t, k)
  PROVE  /\ ~ Taken(t, k)
         /\ \A other \in Session \ {s} : ~ Claims(other, k)
  <1>1. ~ Taken(t, k)
    BY DEF LooksAgain
  <1>2. ASSUME NEW other \in Session \ {s}, Claims(other, k) PROVE FALSE
    <2>1. ComesIn(other, sess[other].template, k) /\ sess[other].template \in Template
      BY <1>2, ClaimComesIn
    <2>2. sess[other].template # t
      BY <2>1 DEF ComesIn, RowFree
    <2> QED
      BY <2>1, <2>2 DEF LooksAgain
  <1> QED
    BY <1>1, <1>2

LEMMA LooksAgainBoolean == \A s, t, k : LooksAgain(s, t, k) \in BOOLEAN
  BY DEF LooksAgain

LEMMA SendingAdd ==
  ASSUME IInv, NEW s \in Session, SendAdd(s)
  PROVE  IInv'
  <1> DEFINE t == sess[s].template
             k == sess[s].sequence
             again == LooksAgain(s, t, k)
             q == [sess[s] EXCEPT !.phase = "commit", !.late = again]
  <1>1. sess[s] # Idle /\ sess[s].kind = "add"
    BY DEF SendAdd, At
  <1>0. again \in BOOLEAN
    BY LooksAgainBoolean
  <1> HIDE DEF again
  <1>2. sess[s] \in AddRequest /\ t \in Template /\ k \in Sequence
    BY <1>1, Held, RequestShape, RequestFields DEF IInv
  <1>3. /\ q \in AddRequest /\ q.kind = "add" /\ q.phase = "commit"
        /\ q.template = t /\ q.sequence = k /\ q.late = again
    BY <1>0, <1>2, AddSent
  <1>4. /\ template[t] = Unborn
        /\ \A other \in Session \ {s} :
             sess[other] # Idle /\ sess[other].kind = "add" => sess[other].template # t
    BY <1>1 DEF IInv, OneWriter
  <1>5. \A other \in Session \ {s} : ~ Wrote(other, t)
    BY <1>4 DEF IInv, OneWriter, Wrote
  <1>6. again \/ (~ Taken(t, k) /\ \A other \in Session \ {s} : ~ Claims(other, k))
    BY <1>2, <1>5, Verdict DEF IInv, RowFree, again
  <1> HIDE DEF q
  <1>7. Fits(s, q)
    BY <1>3, <1>4, <1>5, <1>6 DEF Fits, Request
  <1> QED
    BY <1>7, Replaced DEF SendAdd, q, again

LEMMA SendingUpdate ==
  ASSUME IInv, NEW s \in Session, SendUpdate(s)
  PROVE  IInv'
  <1> DEFINE t == sess[s].template
             k == sess[s].sequence
             again == Moves(s) /\ LooksAgain(s, t, k)
             q == [sess[s] EXCEPT !.phase = "commit", !.late = again]
  <1>1. sess[s] # Idle /\ sess[s].kind = "update" /\ t \in Rows
    BY DEF SendUpdate, UpdateFindsRow, At
  <1>7. Hold(s, q) /\ UNCHANGED <<template, copied, referenced, changed_by>>
    BY DEF SendUpdate
  <1>0. again \in BOOLEAN
    BY LooksAgainBoolean DEF Moves
  <1> HIDE DEF again
  <1>2. sess[s] \in UpdateRequest /\ t \in Template /\ k \in Sequence
    BY <1>1, Held, RequestShape, RequestFields DEF IInv
  <1>3. /\ q \in UpdateRequest /\ q.kind = "update" /\ q.phase = "commit"
        /\ q.template = t /\ q.sequence = k /\ q.loaded = sess[s].loaded /\ q.late = again
    BY <1>0, <1>2, UpdateSent
  <1>4. RowFree(s, t)
    BY DEF SendUpdate, UpdateFindsRow, KeyFree
  <1>5. Moves(s) => again \/ (~ Taken(t, k) /\ \A other \in Session \ {s} : ~ Claims(other, k))
    BY <1>2, <1>4, Verdict DEF IInv, again
  <1>6. template[t] # Unborn
    BY <1>1 DEF Rows
  <1> HIDE DEF q
  <1>8. Fits(s, q)
    BY <1>1, <1>3, <1>4, <1>5, <1>6 DEF Fits, Request, RowFree, Moves
  <1> QED
    BY <1>7, <1>8, Replaced

LEMMA SendingDelete ==
  ASSUME IInv, NEW s \in Session, SendDelete(s)
  PROVE  IInv'
  <1> DEFINE t == sess[s].template
             q == [sess[s] EXCEPT !.phase = "commit"]
  <1>1. sess[s] # Idle /\ sess[s].kind = "delete" /\ sess[s].phase = "send"
    BY DEF SendDelete, At
  <1>2. sess[s] \in DeleteRequest
    BY <1>1, Held, RequestShape DEF IInv
  <1>3. /\ q \in DeleteRequest /\ q.kind = "delete" /\ q.phase = "commit"
        /\ q.template = t /\ q.nulled = sess[s].nulled
    BY <1>2, DeleteSent
  <1>4. template[t] # Unborn
    BY <1>1 DEF IInv, OneWriter
  <1>5. /\ \A other \in Session \ {s} : ~ Wrote(other, t) /\ ~ KeepsInPlace(other, t)
        /\ ~ StillReferenced(t, sess[s].nulled)
    BY DEF SendDelete, KeyFree, RowFree
  <1> HIDE DEF q
  <1>6. Fits(s, q)
    BY <1>3, <1>4, <1>5 DEF Fits, Request
  <1> QED
    BY <1>6, Replaced DEF SendDelete, q

LEMMA SendingTasks ==
  ASSUME IInv, NEW s \in Session, SendTasks(s)
  PROVE  IInv'
  <1> DEFINE q == [sess[s] EXCEPT !.phase = "commit"]
  <1>1. sess[s] # Idle /\ sess[s].kind = "generate"
    BY DEF SendTasks, At
  <1>2. sess[s] \in GenerateRequest
    BY <1>1, Held, RequestShape DEF IInv
  <1>3. /\ q \in GenerateRequest /\ q.kind = "generate" /\ q.phase = "commit"
        /\ q.engagement = sess[s].engagement /\ q.read = sess[s].read
    BY <1>2, TasksSent
  <1>4. /\ copied[sess[s].engagement] = NoCopies
        /\ \A other \in Session \ {s} :
             sess[other] # Idle /\ sess[other].kind = "generate"
               => sess[other].engagement # sess[s].engagement
        /\ IsInjective(sess[s].read)
    BY <1>1 DEF IInv, OneWriter, ReadsInjective
  <1>5. DOMAIN sess[s].read \subseteq Rows
    BY DEF SendTasks, TemplatesThere
  <1>6. \A other \in Session \ {s} :
          At(other, "delete", "commit") => sess[other].template \notin DOMAIN sess[s].read
    BY DEF SendTasks, KeysSettled, ChangesKey, Wrote, At
  <1> HIDE DEF q
  <1>7. Fits(s, q)
    BY <1>3, <1>4, <1>5, <1>6 DEF Fits, Request
  <1> QED
    BY <1>7, Replaced DEF SendTasks, q

-----------------------------------------------------------------------------
(* Commits *)

(* What the row becomes: the sequence claimed, or the one it has. *)
LEMMA Written ==
  ASSUME IInv, NEW s \in Session, At(s, "add", "commit") \/ At(s, "update", "commit")
  PROVE  /\ sess[s].template \in Template /\ NewRow(s) \in Row
         /\ Wrote(s, sess[s].template)
         /\ \/ Claims(s, NewRow(s).sequence)
            \/ /\ sess[s].template \in Rows
               /\ NewRow(s).sequence = template[sess[s].template].sequence
  <1>1. sess[s] # Idle /\ sess[s].kind \in {"add", "update"} /\ sess[s].phase = "commit"
    BY DEF At
  <1>2. /\ sess[s].template \in Template /\ sess[s].sequence \in Sequence
        /\ sess[s].actor \in Admin
        /\ sess[s].kind = "update" => sess[s].loaded \in Row
    BY <1>1, Held, RequestFields DEF IInv
  <1>3. sess[s].kind = "update" =>
          sess[s].template \in Rows /\ template[sess[s].template] \in Row
    BY <1>1, RowsAre DEF IInv, OneWriter, At
  <1>4. CASE sess[s].kind = "add"
    <2>1. NewRow(s) = [sequence |-> sess[s].sequence, updated_by |-> sess[s].actor]
      BY <1>4 DEF NewRow
    <2> QED
      BY <1>1, <1>2, <1>4, <2>1 DEF Row, Claims, At, Wrote
  <1>5. CASE sess[s].kind = "update"
    <2>1. NewRow(s) =
            [sequence |-> Flushed(sess[s].loaded.sequence, sess[s].sequence,
                                  template[sess[s].template].sequence),
             updated_by |-> Flushed(sess[s].loaded.updated_by, sess[s].actor,
                                    template[sess[s].template].updated_by)]
      BY <1>5 DEF NewRow
    <2>2. /\ template[sess[s].template].sequence \in Sequence
          /\ template[sess[s].template].updated_by \in Admin
      BY <1>3, <1>5 DEF Row
    <2>3. /\ NewRow(s).sequence \in Sequence /\ NewRow(s).updated_by \in Admin
          /\ NewRow(s) \in Row
      BY <1>2, <2>1, <2>2 DEF Row, Flushed
    <2>4. \/ Claims(s, NewRow(s).sequence)
          \/ NewRow(s).sequence = template[sess[s].template].sequence
      BY <1>1, <1>5, <2>1 DEF Flushed, Claims, At
    <2> QED
      BY <1>1, <1>2, <1>3, <1>5, <2>3, <2>4 DEF Wrote
  <1> QED
    BY <1>1, <1>4, <1>5

(* The COMMIT that goes through takes no sequence another row has, and, if   *)
(* others have entered the sequence, they will look again.                   *)
LEMMA SequenceFree ==
  ASSUME IInv, NEW s \in Session, At(s, "add", "commit") \/ At(s, "update", "commit"),
         MayCommit(s)
  PROVE  /\ ~ Taken(sess[s].template, NewRow(s).sequence)
         /\ \A r \in Session \ {s} : Claims(r, NewRow(s).sequence) => sess[r].late
  <1> DEFINE t == sess[s].template
             k == NewRow(s).sequence
  <1>1. t \in Template /\ k \in Sequence /\ Wrote(s, t)
    BY Written DEF Row
  <1>2. sess[s] # Idle /\ sess[s].kind \in {"add", "update"} /\ sess[s].phase = "commit"
    BY DEF At
  <1>3. \A r \in Session \ {s} :
          Claims(r, k) => ComesIn(r, sess[r].template, k)
                            /\ sess[r].template \in Template \ {t}
    BY <1>1, ClaimComesIn DEF IInv, OneWriter, ComesIn
  <1>4. CASE Claims(s, k)
    <2>1. sess[s].sequence = k
      BY <1>4 DEF Claims
    <2>2. CASE sess[s].late
      <3>1. ~ Taken(t, k)
        BY <2>1, <2>2 DEF MayCommit
      <3>2. \A r \in Session \ {s} : ~ Claims(r, k)
        BY <1>2, <1>3, <2>1, <2>2 DEF MayCommit, Waits, Undecided
      <3> QED
        BY <3>1, <3>2
    <2>3. CASE ~ sess[s].late
      BY <1>1, <1>4, <2>3 DEF IInv, ClaimsSettled
    <2> QED
      BY <2>2, <2>3
  <1>5. CASE t \in Rows /\ k = template[t].sequence
    <2>1. ~ Taken(t, k)
      BY <1>5 DEF Taken, IInv, SequenceUnique
    <2>2. ASSUME NEW r \in Session \ {s}, Claims(r, k) PROVE sess[r].late
      <3>1. Taken(sess[r].template, k)
        BY <1>3, <1>5, <2>2 DEF Taken
      <3> QED
        BY <1>1, <2>2, <3>1 DEF IInv, ClaimsSettled
    <2> QED
      BY <2>1, <2>2
  <1> QED
    BY <1>4, <1>5, Written

LEMMA CommittingRow ==
  ASSUME IInv, NEW s \in Session, CommitAdd(s) \/ CommitUpdate(s)
  PROVE  IInv'
  <1> DEFINE t == sess[s].template
             n == NewRow(s)
  <1>1. /\ At(s, "add", "commit") \/ At(s, "update", "commit")
        /\ MayCommit(s)
        /\ template' = [template EXCEPT ![t] = n]
        /\ changed_by' = [changed_by EXCEPT ![t] = n.updated_by]
        /\ sess' = [sess EXCEPT ![s] = Idle]
        /\ UNCHANGED <<copied, referenced>>
    BY DEF CommitAdd, CommitUpdate, Audit, Actor, Hold
  <1>2. t \in Template /\ n \in Row /\ n.sequence \in Sequence /\ n.updated_by \in Admin
        /\ Wrote(s, t) /\ n \notin {Unborn, Gone}
    BY <1>1, Written, MarksAssumption DEF Row
  <1>3. /\ ~ Taken(t, n.sequence)
        /\ \A r \in Session \ {s} : Claims(r, n.sequence) => sess[r].late
    BY <1>1, SequenceFree
  <1>4. /\ sess'[s] = Idle /\ \A r \in Session \ {s} : sess'[r] = sess[r]
        /\ template'[t] = n /\ \A u \in Template \ {t} : template'[u] = template[u]
        /\ changed_by'[t] = n.updated_by
        /\ \A u \in Template \ {t} : changed_by'[u] = changed_by[u]
    BY <1>1, <1>2 DEF IInv, TypeOK
  <1> HIDE DEF n, t
  <1>5. Rows' = Rows \cup {t}
    BY <1>2, <1>4 DEF Rows
  <1>6. TypeOK'
    <2>1. template' \in [Template -> Row \cup {Unborn, Gone}]
      BY <1>1, <1>2 DEF IInv, TypeOK
    <2>2. changed_by' \in [Template -> Admin \cup {Unborn}]
      BY <1>1, <1>2 DEF IInv, TypeOK
    <2>3. sess' \in [Session -> Request \cup {Idle}]
      BY <1>1 DEF IInv, TypeOK
    <2>4. \A u \in Template : template'[u] = Unborn <=> changed_by'[u] = Unborn
      BY <1>2, <1>4, MarksAssumption DEF IInv, TypeOK
    <2> QED
      BY <1>1, <2>1, <2>2, <2>3, <2>4 DEF IInv, TypeOK
  <1>7. \A r \in Session \ {s} : ~ Wrote(r, t)
    BY <1>2 DEF IInv, OneWriter
  <1>8. OneWriter'
    <2>1. \A r, other \in Session, u \in Template : (Wrote(r, u) /\ Wrote(other, u))' => r = other
      BY <1>4 DEF IInv, OneWriter, Wrote
    <2>2. ASSUME NEW r \in Session, r # s, sess[r] # Idle, sess[r].kind = "add"
          PROVE  template'[sess[r].template] = Unborn
      <3>1. sess[r].template \in Template /\ template[sess[r].template] = Unborn
        BY <2>2, Held, RequestFields DEF IInv, OneWriter
      <3>2. sess[r].template # t
        BY <1>1, <2>2, <3>1, MarksAssumption DEF IInv, OneWriter, At, Rows, t
      <3> QED
        BY <1>4, <3>1, <3>2
    <2>3. ASSUME NEW r \in Session, r # s, sess[r] # Idle, sess[r].kind \in {"update", "delete"}
          PROVE  template'[sess[r].template] # Unborn
      <3>1. sess[r].template \in Template /\ template[sess[r].template] # Unborn
        BY <2>3, Held, RequestFields DEF IInv, OneWriter
      <3> QED
        BY <1>2, <1>4, <3>1
    <2>4. ASSUME NEW r \in Session, r # s, sess[r] # Idle, At(r, "update", "commit")
          PROVE  sess[r].template \in Rows'
      BY <1>5, <2>4 DEF IInv, OneWriter
    <2>5. \A r, other \in Session : sess'[r] # Idle /\ sess'[other] # Idle =>
            /\ sess'[r].kind = "add" /\ sess'[other].kind = "add"
                 /\ sess'[other].template = sess'[r].template => other = r
            /\ sess'[r].kind = "generate" =>
                 /\ copied[sess'[r].engagement] = NoCopies
                 /\ sess'[other].kind = "generate"
                      /\ sess'[other].engagement = sess'[r].engagement => other = r
      BY <1>4 DEF IInv, OneWriter
    <2> QED
      BY <1>1, <1>4, <2>1, <2>2, <2>3, <2>4, <2>5 DEF OneWriter, At
  <1>9. NoDanglingReference'
    BY <1>1, <1>5 DEF IInv, NoDanglingReference
  <1>10. DeletesClear'
    BY <1>1, <1>4, <1>5 DEF IInv, DeletesClear, At, KeepsInPlace, StillReferenced
  <1>11. SequenceUnique'
    <2>1. ASSUME NEW u \in Rows', u # t PROVE template'[u].sequence # n.sequence
      BY <1>3, <1>4, <1>5, <2>1 DEF Taken, Rows
    <2>2. \A u, v \in Rows' : template'[u].sequence = template'[v].sequence => u = v
      BY <1>4, <1>5, <2>1 DEF IInv, SequenceUnique, Rows
    <2> QED
      BY <1>1, <2>2 DEF IInv, SequenceUnique
  <1>12. ClaimsSettled'
    <2>1. \A k : \A r \in Session : Claims(r, k)' => r # s /\ Claims(r, k)
      BY <1>4 DEF Claims, At
    <2>2. ASSUME NEW r \in Session \ {s}, NEW k \in Sequence, Claims(r, k), ~ sess[r].late
          PROVE  ~ Taken(sess[r].template, k)'
      <3>1. k # n.sequence /\ ~ Taken(sess[r].template, k)
        BY <1>3, <2>2 DEF IInv, ClaimsSettled
      <3>2. sess'[r] = sess[r]
        BY <1>4
      <3> QED
        BY <1>4, <1>5, <3>1, <3>2 DEF Taken, Rows
    <2> QED
      BY <1>4, <2>1, <2>2 DEF IInv, ClaimsSettled, Taken
  <1>13. ReadsInjective'
    BY <1>4 DEF IInv, ReadsInjective
  <1>14. AuditFollows'
    BY <1>4, <1>5 DEF IInv, AuditFollows, Rows
  <1> QED
    BY <1>6, <1>8, <1>9, <1>10, <1>11, <1>12, <1>13, <1>14 DEF IInv

LEMMA CommittingDelete ==
  ASSUME IInv, NEW s \in Session, CommitDelete(s)
  PROVE  IInv'
  <1> DEFINE t == sess[s].template
  <1>1. /\ At(s, "delete", "commit")
        /\ referenced' = referenced \ {<<g, t>> : g \in sess[s].nulled}
        /\ template' = [template EXCEPT ![t] = Gone]
        /\ \/ /\ t \in Rows
              /\ changed_by' = [changed_by EXCEPT ![t] = template[t].updated_by]
           \/ t \notin Rows /\ UNCHANGED changed_by
        /\ sess' = [sess EXCEPT ![s] = Idle]
        /\ UNCHANGED copied
    BY DEF CommitDelete, Audit, Actor, Hold
  <1>2. /\ t \in Template /\ template[t] # Unborn /\ Wrote(s, t)
    BY <1>1, Held, RequestFields DEF IInv, OneWriter, At, Wrote
  <1>3. /\ sess'[s] = Idle /\ \A r \in Session \ {s} : sess'[r] = sess[r]
        /\ template'[t] = Gone /\ \A u \in Template \ {t} : template'[u] = template[u]
    BY <1>1, <1>2 DEF IInv, TypeOK
  <1>4. /\ ~ StillReferenced(t, sess[s].nulled)
        /\ \A other \in Session : ~ KeepsInPlace(other, t)
    BY <1>1 DEF IInv, DeletesClear
  <1> HIDE DEF t
  <1>5. Rows' = Rows \ {t}
    BY <1>2, <1>3 DEF Rows
  <1>6. referenced' \subseteq referenced /\ \A r \in referenced' : r[2] # t
    <2>1. referenced' \subseteq referenced
      BY <1>1
    <2>2. ASSUME NEW r \in referenced, r[2] = t PROVE r \notin referenced'
      <3>1. r = <<r[1], t>> /\ r[1] \in Engagement
        BY <2>2 DEF IInv, TypeOK
      <3>2. r[1] \in sess[s].nulled
        BY <1>4, <2>2, <3>1 DEF StillReferenced
      <3> QED
        BY <1>1, <3>1, <3>2
    <2> QED
      BY <2>1, <2>2
  <1>7. TypeOK'
    <2>1. template' \in [Template -> Row \cup {Unborn, Gone}]
      BY <1>1 DEF IInv, TypeOK
    <2>2. /\ changed_by' \in [Template -> Admin \cup {Unborn}]
          /\ changed_by'[t] # Unborn /\ \A u \in Template \ {t} : changed_by'[u] = changed_by[u]
      <3>1. CASE t \in Rows
        <4>1. template[t].updated_by \in Admin
          BY <3>1, RowsAre DEF IInv, Row
        <4> QED
          BY <1>1, <1>2, <3>1, <4>1, MarksAssumption DEF IInv, TypeOK
      <3>2. CASE t \notin Rows
        BY <1>1, <1>2, <3>2 DEF IInv, TypeOK
      <3> QED
        BY <3>1, <3>2
    <2>3. sess' \in [Session -> Request \cup {Idle}]
      BY <1>1 DEF IInv, TypeOK
    <2>4. \A u \in Template : template'[u] = Unborn <=> changed_by'[u] = Unborn
      BY <1>2, <1>3, <2>2, MarksAssumption DEF IInv, TypeOK
    <2>5. referenced' \in SUBSET (Engagement \X Template)
          /\ \A r \in referenced' : r[2] \in DOMAIN copied'[r[1]]
      BY <1>1, <1>6 DEF IInv, TypeOK
    <2> QED
      BY <1>1, <2>1, <2>2, <2>3, <2>4, <2>5 DEF IInv, TypeOK
  <1>8. OneWriter'
    <2>1. \A r, other \in Session, u \in Template : (Wrote(r, u) /\ Wrote(other, u))' => r = other
      BY <1>3 DEF IInv, OneWriter, Wrote
    <2>2. ASSUME NEW r \in Session, r # s, sess[r] # Idle, sess[r].kind = "add"
          PROVE  template'[sess[r].template] = Unborn
      BY <1>2, <1>3, <2>2, Held, RequestFields DEF IInv, OneWriter
    <2>3. ASSUME NEW r \in Session, r # s, sess[r] # Idle, sess[r].kind \in {"update", "delete"}
          PROVE  template'[sess[r].template] # Unborn
      BY <1>3, <2>3, Held, RequestFields, MarksAssumption DEF IInv, OneWriter
    <2>4. ASSUME NEW r \in Session, r # s, At(r, "update", "commit")
          PROVE  sess[r].template \in Rows'
      <3>1. sess[r].template \in Rows /\ Wrote(r, sess[r].template)
        BY <2>4 DEF IInv, OneWriter, At, Wrote
      <3>2. sess[r].template # t
        BY <1>2, <2>4, <3>1 DEF IInv, OneWriter
      <3> QED
        BY <1>5, <3>1, <3>2
    <2>5. \A r, other \in Session : sess'[r] # Idle /\ sess'[other] # Idle =>
            /\ sess'[r].kind = "add" /\ sess'[other].kind = "add"
                 /\ sess'[other].template = sess'[r].template => other = r
            /\ sess'[r].kind = "generate" =>
                 /\ copied[sess'[r].engagement] = NoCopies
                 /\ sess'[other].kind = "generate"
                      /\ sess'[other].engagement = sess'[r].engagement => other = r
      BY <1>3 DEF IInv, OneWriter
    <2> QED
      BY <1>1, <1>3, <2>1, <2>2, <2>3, <2>4, <2>5 DEF OneWriter, At
  <1>9. NoDanglingReference'
    BY <1>5, <1>6 DEF IInv, NoDanglingReference
  <1>10. DeletesClear'
    <2>1. ASSUME NEW r \in Session, At(r, "delete", "commit")'
          PROVE  (/\ ~ StillReferenced(sess[r].template, sess[r].nulled)
                  /\ \A other \in Session : ~ KeepsInPlace(other, sess[r].template))'
      <3>1. r # s /\ sess'[r] = sess[r] /\ At(r, "delete", "commit")
        BY <1>3, <2>1 DEF At
      <3>2. \A u : \A other \in Session : KeepsInPlace(other, u)' => KeepsInPlace(other, u)
        BY <1>3 DEF KeepsInPlace, At
      <3> QED
        BY <1>6, <3>1, <3>2 DEF IInv, DeletesClear, StillReferenced
    <2>2. ASSUME NEW r \in Session, At(r, "generate", "commit")'
          PROVE  (DOMAIN sess[r].read \subseteq Rows)'
      <3>1. At(r, "generate", "commit") /\ sess'[r] = sess[r]
        BY <1>3, <2>2 DEF At
      <3> QED
        BY <1>4, <1>5, <3>1 DEF IInv, DeletesClear, KeepsInPlace
    <2> QED
      BY <2>1, <2>2 DEF DeletesClear
  <1>11. SequenceUnique'
    BY <1>1, <1>3, <1>5 DEF IInv, SequenceUnique, Rows
  <1>12. ClaimsSettled'
    <2>1. \A k : \A r \in Session : Claims(r, k)' => r # s /\ Claims(r, k)
      BY <1>3 DEF Claims, At
    <2>2. \A u, k : Taken(u, k)' => Taken(u, k)
      BY <1>3, <1>5 DEF Taken, Rows
    <2> QED
      BY <1>3, <2>1, <2>2 DEF IInv, ClaimsSettled
  <1>13. ReadsInjective'
    BY <1>3 DEF IInv, ReadsInjective
  <1>14. AuditFollows'
    BY <1>1, <1>3, <1>5 DEF IInv, TypeOK, AuditFollows, Rows
  <1> QED
    BY <1>7, <1>8, <1>9, <1>10, <1>11, <1>12, <1>13, <1>14 DEF IInv

LEMMA CommittingTasks ==
  ASSUME IInv, NEW s \in Session, CommitTasks(s)
  PROVE  IInv'
  <1> DEFINE g == sess[s].engagement
             f == sess[s].read
  <1>1. /\ At(s, "generate", "commit")
        /\ copied' = [copied EXCEPT ![g] = f]
        /\ referenced' = referenced \cup ({g} \X DOMAIN f)
        /\ sess' = [sess EXCEPT ![s] = Idle]
        /\ UNCHANGED <<template, changed_by>>
    BY DEF CommitTasks, Hold
  <1>2. /\ g \in Engagement /\ f \in Copies /\ DOMAIN f \subseteq Template
    BY <1>1, Held, RequestFields, CopiesAre DEF IInv, At
  <1>3. /\ DOMAIN f \subseteq Rows /\ IsInjective(f) /\ copied[g] = NoCopies
    BY <1>1 DEF IInv, DeletesClear, ReadsInjective, OneWriter, At
  <1>4. \A r \in Session, t \in DOMAIN f : ~ At(r, "delete", "commit") \/ sess[r].template # t
    BY <1>1 DEF IInv, DeletesClear, KeepsInPlace
  <1>5. \A r \in Session \ {s} :
          sess[r] # Idle /\ sess[r].kind = "generate" => sess[r].engagement # g
    BY <1>1 DEF IInv, OneWriter, At
  <1> HIDE DEF g, f
  <1>6. /\ sess'[s] = Idle /\ \A r \in Session \ {s} : sess'[r] = sess[r]
        /\ copied'[g] = f /\ \A h \in Engagement \ {g} : copied'[h] = copied[h]
        /\ Rows' = Rows
    BY <1>1, <1>2 DEF IInv, TypeOK, Rows
  <1>7. TypeOK'
    <2>1. copied' \in [Engagement -> Copies] /\ sess' \in [Session -> Request \cup {Idle}]
      BY <1>1, <1>2 DEF IInv, TypeOK
    <2>2. referenced' \in SUBSET (Engagement \X Template)
      BY <1>1, <1>2 DEF IInv, TypeOK
    <2>3. ASSUME NEW r \in referenced' PROVE r[2] \in DOMAIN copied'[r[1]]
      <3>1. CASE r \in referenced
        <4>1. r[1] \in Engagement /\ r[2] \in DOMAIN copied[r[1]]
          BY <3>1 DEF IInv, TypeOK
        <4>2. r[1] # g
          BY <1>3, <4>1 DEF NoCopies
        <4> QED
          BY <1>6, <4>1, <4>2
      <3>2. CASE r \in {g} \X DOMAIN f
        BY <1>6, <3>2
      <3> QED
        BY <1>1, <3>1, <3>2
    <2> QED
      BY <1>1, <2>1, <2>2, <2>3 DEF IInv, TypeOK
  <1>8. OneWriter'
    <2>1. ASSUME NEW r \in Session, r # s, sess[r] # Idle, sess[r].kind = "generate"
          PROVE  copied'[sess[r].engagement] = NoCopies
      BY <1>5, <1>6, <2>1, Held, RequestFields DEF IInv, OneWriter
    <2> QED
      BY <1>1, <1>6, <2>1 DEF IInv, OneWriter, Wrote, At
  <1>9. NoDanglingReference'
    BY <1>1, <1>3, <1>6 DEF IInv, NoDanglingReference
  <1>10. DeletesClear'
    <2>1. ASSUME NEW r \in Session, At(r, "delete", "commit")'
          PROVE  (/\ ~ StillReferenced(sess[r].template, sess[r].nulled)
                  /\ \A other \in Session : ~ KeepsInPlace(other, sess[r].template))'
      <3>1. r # s /\ sess'[r] = sess[r] /\ At(r, "delete", "commit")
        BY <1>6, <2>1 DEF At
      <3>2. sess[r].template \notin DOMAIN f
        BY <1>4, <3>1
      <3>3. \A u : \A other \in Session : KeepsInPlace(other, u)' => KeepsInPlace(other, u)
        BY <1>6 DEF KeepsInPlace, At
      <3> QED
        BY <1>1, <1>6, <3>1, <3>2, <3>3 DEF IInv, DeletesClear, StillReferenced
    <2>2. ASSUME NEW r \in Session, At(r, "generate", "commit")'
          PROVE  (DOMAIN sess[r].read \subseteq Rows)'
      <3>1. At(r, "generate", "commit") /\ sess'[r] = sess[r]
        BY <1>6, <2>2 DEF At
      <3> QED
        BY <1>6, <3>1 DEF IInv, DeletesClear
    <2> QED
      BY <2>1, <2>2 DEF DeletesClear
  <1>11. SequenceUnique'
    BY <1>1, <1>3, <1>6 DEF IInv, SequenceUnique
  <1>12. ClaimsSettled'
    BY <1>1, <1>6 DEF IInv, ClaimsSettled, Claims, At, Taken
  <1>13. ReadsInjective' /\ AuditFollows'
    BY <1>1, <1>6 DEF IInv, ReadsInjective, AuditFollows
  <1> QED
    BY <1>7, <1>8, <1>9, <1>10, <1>11, <1>12, <1>13 DEF IInv

-----------------------------------------------------------------------------
(* The theorems *)

LEMMA InitInductive == Init => IInv
  <1> SUFFICES ASSUME Init PROVE IInv
    OBVIOUS
  <1>1. Rows = {}
    BY DEF Init, Rows
  <1>2. NoCopies \in Copies
    BY DEF NoCopies, Copies
  <1>3. TypeOK
    BY <1>2 DEF Init, TypeOK
  <1>4. \A s \in Session : sess[s] = Idle
    BY DEF Init
  <1>5. OneWriter /\ DeletesClear /\ ReadsInjective /\ ClaimsSettled
    BY <1>4 DEF OneWriter, DeletesClear, ReadsInjective, ClaimsSettled, Claims, At, Wrote
  <1>6. SequenceUnique
    BY <1>1 DEF Init, SequenceUnique, NoCopies, IsInjective
  <1>7. NoDanglingReference /\ AuditFollows
    BY <1>1 DEF Init, NoDanglingReference, AuditFollows
  <1> QED
    BY <1>3, <1>5, <1>6, <1>7 DEF IInv

LEMMA StepInductive == IInv /\ [Next]_vars => IInv'
  <1> SUFFICES ASSUME IInv, [Next]_vars PROVE IInv'
    OBVIOUS
  <1>1. ASSUME NEW s \in Session, Load(s) PROVE IInv'
    BY <1>1, LoadingAdd, LoadingUpdate, LoadingDelete, Reading DEF Load
  <1>2. ASSUME NEW s \in Session, Send(s) PROVE IInv'
    BY <1>2, SendingAdd, SendingUpdate, Nulling, SendingDelete, SendingTasks, Dropped DEF Send
  <1>3. ASSUME NEW s \in Session, End(s) PROVE IInv'
    BY <1>3, CommittingRow, CommittingDelete, CommittingTasks, Dropped DEF End
  <1>4. ASSUME NEW s \in Session, Crash(s) PROVE IInv'
    BY <1>4, Dropped
  <1>5. CASE UNCHANGED vars
    BY <1>5 DEF vars, IInv, TypeOK, OneWriter, NoDanglingReference, DeletesClear, SequenceUnique,
                ClaimsSettled, ReadsInjective, AuditFollows, Wrote, At, Rows, StillReferenced,
                KeepsInPlace, Claims, Taken
  <1> QED
    BY <1>1, <1>2, <1>3, <1>4, <1>5 DEF Next

(* What requests in flight have sent stays true of the rows. *)
THEOREM Inductive == Spec => []IInv
  BY InitInductive, StepInductive, PTL DEF Spec

(* No committed task refers to a template that is gone. *)
THEOREM ReferencesSafe == Spec => []NoDanglingReference
  <1>1. IInv => NoDanglingReference
    BY DEF IInv
  <1> QED
    BY <1>1, Inductive, PTL

(* Neither the templates nor the tasks generated together share a sequence. *)
THEOREM SequencesSafe == Spec => []SequenceUnique
  <1>1. IInv => SequenceUnique
    BY DEF IInv
  <1> QED
    BY <1>1, Inductive, PTL

-----------------------------------------------------------------------------
(* Everyone waiting on everyone *)

LEMMA OneIsReady == IInv => SomeoneGoesOn
  <1> SUFFICES ASSUME IInv, NEW a \in Session, sess[a] # Idle,
                      \A s \in Session : ~ Ready(s)
               PROVE  FALSE
    BY DEF SomeoneGoesOn
  <1> DEFINE Committing == {s \in Session : /\ sess[s] # Idle /\ sess[s].kind \in {"add", "update"}
                                            /\ sess[s].phase = "commit"}
  <1>1. ASSUME NEW s \in Session
        PROVE  /\ ~ At(s, "add", "send")
               /\ ~ At(s, "delete", "commit") /\ ~ At(s, "generate", "commit")
               /\ ~ UpdateFindsRow(s) /\ ~ UpdateFindsNone(s)
               /\ ~ (At(s, "delete", "null") /\ TasksFree(s))
               /\ ~ (At(s, "delete", "send") /\ KeyFree(s, sess[s].template))
               /\ ~ (At(s, "generate", "send") /\ KeysSettled(s))
    BY DEF Ready
  <1>2. ASSUME NEW s \in Session, NEW t, Wrote(s, t) PROVE s \in Committing
    BY <1>1, <1>2 DEF Wrote, At
  (* A commit that may not go through waits for another commit. *)
  <1>3. ASSUME NEW s \in Committing PROVE \E other \in Committing : Waits(s, other)
    <2> DEFINE t == sess[s].template
               k == sess[s].sequence
    <2>1. ~ MayCommit(s) /\ ~ CommitConflicts(s)
      BY DEF Ready, Refused, At
    <2>2. CASE \E other \in Session : Waits(s, other)
      <3>1. PICK other \in Session : Waits(s, other)
        BY <2>2
      <3>2. \E u : Wrote(other, u)
        BY <3>1 DEF Waits, Undecided, ComesIn, GoesOut
      <3> QED
        BY <1>2, <3>1, <3>2
    <2>3. CASE sess[s].late /\ Taken(t, k)
      <3>1. PICK u \in Rows \ {t} : template[u].sequence = k
        BY <2>3 DEF Taken
      <3>2. ~ RowFree(s, u)
        BY <2>1, <2>3, <3>1 DEF CommitConflicts
      <3>3. PICK other \in Session \ {s} : Wrote(other, u)
        BY <3>2 DEF RowFree
      <3>4. Undecided(s, other, k)
        BY <3>1, <3>3 DEF Undecided, GoesOut, Rows
      <3> QED
        BY <1>2, <2>3, <3>3, <3>4 DEF Waits
    <2> QED
      BY <2>1, <2>2, <2>3 DEF MayCommit
  (* The commits that wait would be a circle, which PostgreSQL ends. *)
  <1>4. Committing = {}
    <2> SUFFICES ASSUME NEW s \in Committing PROVE FALSE
      OBVIOUS
    <2>1. Committing \in SUBSET {r \in Session : \E other \in Session : Waits(r, other)}
      BY <1>3
    <2>2. InCycle(s)
      BY <1>3, <2>1 DEF InCycle
    <2> QED
      BY <2>2 DEF Ready
  <1> HIDE DEF Committing
  <1>5. \A s \in Session : \A t : ~ Wrote(s, t) /\ ~ KeepsInPlace(s, t)
    BY <1>1, <1>2, <1>4 DEF KeepsInPlace
  <1>6. \A s \in Session : \A t : RowFree(s, t) /\ KeyFree(s, t) /\ KeysSettled(s)
    BY <1>5 DEF RowFree, KeyFree, KeysSettled, ChangesKey
  <1>7. \A s \in Session : ~ At(s, "delete", "send")
    BY <1>1, <1>6
  <1>8. \A s \in Session : TasksFree(s)
    BY <1>1, <1>7 DEF TasksFree
  <1>9. \A s \in Session : ~ At(s, "delete", "null") /\ ~ At(s, "generate", "send")
    BY <1>1, <1>6, <1>8
  <1>10. \A s \in Session : ~ At(s, "update", "send")
    <2> SUFFICES ASSUME NEW s \in Session, At(s, "update", "send") PROVE FALSE
      OBVIOUS
    <2>1. sess[s].template \in Template /\ template[sess[s].template] # Unborn
      BY Held, RequestFields DEF IInv, OneWriter, At
    <2>2. sess[s].template \in Rows \/ template[sess[s].template] = Gone
      BY <2>1 DEF Rows
    <2> QED
      BY <1>1, <1>6, <2>2 DEF UpdateFindsRow, UpdateFindsNone
  <1>11. /\ sess[a].kind \in {"add", "update", "delete", "generate"}
         /\ sess[a].kind \in {"add", "update"} => sess[a].phase \in {"send", "commit"}
         /\ sess[a].kind = "delete" => sess[a].phase \in {"null", "send", "commit"}
         /\ sess[a].kind = "generate" => sess[a].phase \in {"send", "commit"}
    BY Held, RequestShape, RequestFields DEF IInv
  <1> QED
    BY <1>1, <1>4, <1>7, <1>9, <1>10, <1>11 DEF At, Committing

(* Of the requests in flight one can always go on: no state is a deadlock    *)
(* that PostgreSQL's check does not end.                                     *)
THEOREM NobodyStuck == Spec => []SomeoneGoesOn
  BY OneIsReady, Inductive, PTL

-----------------------------------------------------------------------------
(* TemplateLedger *)

(* A request that generates for g. *)
Generating(q, g) == q # Idle /\ q.kind = "generate" /\ q.engagement = g

(* What the generation for g has seen, of any contents m of the sessions. *)
SeenIn(m, g) ==
  IF \E s \in Session : Generating(m[s], g)
  THEN m[CHOOSE s \in Session : Generating(m[s], g)].read
  ELSE NoCopies

LEMMA SeenIsSeenIn == \A g : Seen(g) = SeenIn(sess, g) /\ Seen(g)' = SeenIn(sess', g)
  BY DEF Seen, SeenIn, Generating

LEMMA SeenByOne ==
  ASSUME NEW m, NEW g, NEW s \in Session, Generating(m[s], g),
         \A other \in Session : Generating(m[other], g) => other = s
  PROVE  SeenIn(m, g) = m[s].read
  <1>1. (CHOOSE r \in Session : Generating(m[r], g)) = s
    OBVIOUS
  <1> QED
    BY <1>1 DEF SeenIn

LEMMA SeenByNone ==
  ASSUME NEW m, NEW g, \A s \in Session : ~ Generating(m[s], g)
  PROVE  SeenIn(m, g) = NoCopies
  BY DEF SeenIn

(* Only the engagement that s generates for is seen otherwise when s changes. *)
LEMMA SeenByOthers ==
  ASSUME NEW m, NEW n, NEW g, NEW s \in Session,
         \A r \in Session \ {s} : n[r] = m[r],
         ~ Generating(m[s], g), ~ Generating(n[s], g),
         \A r, other \in Session : Generating(m[r], g) /\ Generating(m[other], g) => other = r
  PROVE  SeenIn(n, g) = SeenIn(m, g)
  <1>1. \A r \in Session : Generating(n[r], g) <=> Generating(m[r], g)
    OBVIOUS
  <1>2. CASE \E r \in Session : Generating(m[r], g)
    <2>1. PICK r \in Session : Generating(m[r], g)
      BY <1>2
    <2>2. SeenIn(m, g) = m[r].read /\ SeenIn(n, g) = n[r].read /\ r # s
      BY <1>1, <2>1, SeenByOne
    <2> QED
      BY <2>2
  <1>3. CASE ~ \E r \in Session : Generating(m[r], g)
    BY <1>1, <1>3, SeenByNone
  <1> QED
    BY <1>2, <1>3

LEMMA OneGenerates ==
  ASSUME IInv, NEW g, NEW r \in Session, NEW other \in Session,
         Generating(sess[r], g), Generating(sess[other], g)
  PROVE  other = r
  BY DEF IInv, OneWriter, Generating

(* s takes up q instead of what it holds; both generate for the same         *)
(* engagement from the same templates, or neither generates.                 *)
LEMMA SnapshotsKept ==
  ASSUME IInv, NEW s \in Session, NEW q, Hold(s, q),
         \A g : Generating(q, g) <=> Generating(sess[s], g),
         \A g : Generating(q, g) => q.read = sess[s].read
  PROVE  Snapshots' = Snapshots
  <1>1. sess'[s] = q /\ \A r \in Session \ {s} : sess'[r] = sess[r]
    BY DEF Hold, IInv, TypeOK
  <1>2. ASSUME NEW g \in Engagement PROVE SeenIn(sess', g) = SeenIn(sess, g)
    <2>1. \A r \in Session : Generating(sess'[r], g) <=> Generating(sess[r], g)
      BY <1>1
    <2>2. CASE Generating(sess[s], g)
      <3>1. SeenIn(sess, g) = sess[s].read /\ SeenIn(sess', g) = sess'[s].read
        BY <2>1, <2>2, OneGenerates, SeenByOne
      <3> QED
        BY <1>1, <2>2, <3>1
    <2>3. CASE ~ Generating(sess[s], g)
      BY <1>1, <2>3, OneGenerates, SeenByOthers
    <2> QED
      BY <2>2, <2>3
  <1> QED
    BY <1>2, SeenIsSeenIn DEF Snapshots

(* s gives up what it generates for g, or has committed it. *)
LEMMA SnapshotForgotten ==
  ASSUME IInv, NEW s \in Session, NEW g \in Engagement, Generating(sess[s], g), Hold(s, Idle)
  PROVE  /\ Snapshots[g] = sess[s].read
         /\ Snapshots' = [Snapshots EXCEPT ![g] = NoCopies]
  <1>1. sess'[s] = Idle /\ \A r \in Session \ {s} : sess'[r] = sess[r]
    BY DEF Hold, IInv, TypeOK
  <1>2. SeenIn(sess, g) = sess[s].read
    BY OneGenerates, SeenByOne
  <1>3. SeenIn(sess', g) = NoCopies
    <2>1. \A r \in Session : ~ Generating(sess'[r], g)
      BY <1>1, OneGenerates DEF Generating
    <2> QED
      BY <2>1, SeenByNone
  <1>4. ASSUME NEW h \in Engagement, h # g PROVE SeenIn(sess', h) = SeenIn(sess, h)
    <2>1. ~ Generating(sess[s], h) /\ ~ Generating(sess'[s], h)
      BY <1>1, <1>4 DEF Generating
    <2> QED
      BY <1>1, <2>1, OneGenerates, SeenByOthers
  <1> QED
    BY <1>2, <1>3, <1>4, SeenIsSeenIn DEF Snapshots

LEMMA LedgerRows ==
  ASSUME TypeOK
  PROVE  /\ L!Rows = Rows
         /\ \A t \in Rows : Sequences[t] = template[t].sequence /\ Sequences[t] \in Sequence
         /\ \A t \in Template \ Rows : Sequences[t] = template[t]
  <1>1. \A t \in Rows : Sequences[t] = template[t].sequence /\ Sequences[t] \in Sequence
    BY RowsAre DEF Sequences, Row
  <1>2. \A t \in Template \ Rows : Sequences[t] = template[t] /\ template[t] \in {Unborn, Gone}
    BY DEF Sequences, Rows
  <1>3. \A t \in Template : Sequences[t] \in {Unborn, Gone} <=> t \notin Rows
    BY <1>1, <1>2, MarksAssumption
  <1>4. L!Rows = Rows
    BY <1>3 DEF L!Rows, Rows
  <1> QED
    BY <1>1, <1>2, <1>4

LEMMA LedgerDropping ==
  ASSUME IInv, NEW s \in Session, sess[s] # Idle, Hold(s, Idle),
         UNCHANGED <<template, copied, referenced>>
  PROVE  L!Next \/ UNCHANGED L!state
  <1>1. UNCHANGED Sequences
    BY DEF Sequences, Rows
  <1>2. CASE sess[s].kind # "generate"
    <2>1. UNCHANGED Snapshots
      BY <1>2, SnapshotsKept DEF Generating
    <2> QED
      BY <1>1, <2>1 DEF L!state
  <1>3. CASE sess[s].kind = "generate"
    <2>1. PICK g \in Engagement : g = sess[s].engagement
      BY <1>3, Held, RequestFields DEF IInv
    <2>2. Snapshots' = [Snapshots EXCEPT ![g] = NoCopies]
      BY <1>3, <2>1, SnapshotForgotten DEF Generating
    <2>3. CASE Snapshots[g] = NoCopies
      BY <1>1, <2>2, <2>3 DEF L!state, Snapshots
    <2>4. CASE Snapshots[g] # NoCopies
      <3>1. L!GiveUp(g)
        BY <1>1, <2>2, <2>4 DEF L!GiveUp, L!NoCopies, NoCopies
      <3> QED
        BY <3>1 DEF L!Next
    <2> QED
      BY <2>3, <2>4
  <1> QED
    BY <1>2, <1>3

LEMMA LedgerLook ==
  ASSUME IInv, NEW s \in Session, NEW g \in Engagement, ReadTemplates(s, g)
  PROVE  L!Look(g)
  <1> DEFINE f == [t \in Rows |-> template[t].sequence]
             q == [kind |-> "generate", phase |-> "send", engagement |-> g, read |-> f]
  <1>1. /\ sess[s] = Idle /\ copied[g] = NoCopies /\ Rows # {}
        /\ \A r \in Session : ~ Generating(sess[r], g)
        /\ Hold(s, q) /\ UNCHANGED <<template, copied, referenced, changed_by>>
    BY DEF ReadTemplates, Generating
  <1>2. f = [t \in L!Rows |-> Sequences[t]] /\ L!Rows = Rows
    BY LedgerRows DEF IInv
  <1>3. Generating(q, g) /\ q.read = f
    <2>1. f \in Copies
      <3>1. \A t \in Rows : template[t].sequence \in Sequence
        BY RowsAre DEF IInv, Row
      <3>2. Rows \subseteq Template
        BY DEF Rows
      <3> QED
        BY <3>1, <3>2 DEF Copies
    <2> HIDE DEF f
    <2>2. q \in Request
      BY <2>1 DEF Request, GenerateRequest
    <2> QED
      BY <2>2, IdleAssumption DEF Generating
  <1> HIDE DEF f, q
  <1>4. sess'[s] = q /\ \A r \in Session \ {s} : sess'[r] = sess[r]
    BY <1>1 DEF Hold, IInv, TypeOK
  <1>5. SeenIn(sess, g) = NoCopies
    BY <1>1, SeenByNone
  <1>6. SeenIn(sess', g) = f
    BY <1>1, <1>3, <1>4, SeenByOne
  <1>7. ASSUME NEW h \in Engagement, h # g PROVE SeenIn(sess', h) = SeenIn(sess, h)
    <2>1. ~ Generating(sess[s], h) /\ ~ Generating(sess'[s], h)
      BY <1>1, <1>3, <1>4, <1>7 DEF Generating
    <2> QED
      BY <1>4, <2>1, OneGenerates, SeenByOthers
  <1>8. Snapshots[g] = NoCopies /\ Snapshots' = [Snapshots EXCEPT ![g] = f]
    BY <1>5, <1>6, <1>7, SeenIsSeenIn DEF Snapshots
  <1>9. UNCHANGED Sequences
    BY <1>1 DEF Sequences, Rows
  <1> QED
    BY <1>1, <1>2, <1>8, <1>9 DEF L!Look, L!NoCopies, NoCopies

(* The row of t becomes what shows as v. *)
LEMMA SequenceShown ==
  ASSUME TypeOK, NEW t \in Template, NEW new, template' = [template EXCEPT ![t] = new],
         NEW v, v = IF new \in {Unborn, Gone} THEN new ELSE new.sequence
  PROVE  Sequences' = [Sequences EXCEPT ![t] = v]
  <1>1. template'[t] = new /\ \A u \in Template \ {t} : template'[u] = template[u]
    BY DEF TypeOK
  <1>2. /\ t \in Rows' <=> new \notin {Unborn, Gone}
        /\ \A u \in Template \ {t} : u \in Rows' <=> u \in Rows
    BY <1>1 DEF Rows
  <1>3. (IF t \in Rows' THEN template'[t].sequence ELSE template'[t]) = v
    BY <1>1, <1>2
  <1>4. ASSUME NEW u \in Template \ {t}
        PROVE  (IF u \in Rows' THEN template'[u].sequence ELSE template'[u]) = Sequences[u]
    BY <1>1, <1>2 DEF Sequences
  <1>5. Sequences' =
          [u \in Template |-> IF u \in Rows' THEN template'[u].sequence ELSE template'[u]]
    BY DEF Sequences
  <1> QED
    BY <1>3, <1>4, <1>5 DEF Sequences

LEMMA LedgerRow ==
  ASSUME IInv, NEW s \in Session, CommitAdd(s) \/ CommitUpdate(s)
  PROVE  L!Next
  <1> DEFINE t == sess[s].template
             n == NewRow(s)
  <1>1. /\ At(s, "add", "commit") \/ At(s, "update", "commit")
        /\ MayCommit(s) /\ Hold(s, Idle)
        /\ template' = [template EXCEPT ![t] = n]
        /\ UNCHANGED <<copied, referenced>>
    BY DEF CommitAdd, CommitUpdate
  <1>2. t \in Template /\ n \in Row /\ n.sequence \in Sequence
    BY <1>1, Written DEF Row
  <1>3. ~ Taken(t, n.sequence)
    BY <1>1, SequenceFree
  <1>4. template[t] = Unborn \/ t \in Rows
    BY <1>1 DEF IInv, OneWriter, At
  <1>5. UNCHANGED Snapshots
    BY <1>1, SnapshotsKept DEF Generating, At
  <1> HIDE DEF t, n
  <1>6. PICK k \in Sequence : k = n.sequence
    BY <1>2
  <1>7. n \notin {Unborn, Gone}
    BY <1>2, MarksAssumption DEF Row
  <1>8. Sequences' = [Sequences EXCEPT ![t] = k]
    BY <1>1, <1>2, <1>6, <1>7, SequenceShown DEF IInv
  <1>9. L!FreeFor(t, k)
    BY <1>3, <1>6, LedgerRows DEF IInv, L!FreeFor, Taken
  <1>10. CASE t \in Rows
    <2>1. L!Change(t, k)
      BY <1>1, <1>5, <1>8, <1>9, <1>10, LedgerRows DEF IInv, L!Change
    <2> QED
      BY <1>2, <2>1 DEF L!Next
  <1>11. CASE template[t] = Unborn
    <2>1. Sequences[t] = Unborn
      BY <1>2, <1>11, LedgerRows DEF IInv, Rows
    <2>2. L!Add(t, k)
      BY <1>1, <1>5, <1>8, <1>9, <2>1 DEF L!Add
    <2> QED
      BY <1>2, <2>2 DEF L!Next
  <1> QED
    BY <1>4, <1>10, <1>11

LEMMA LedgerDelete ==
  ASSUME IInv, NEW s \in Session, CommitDelete(s)
  PROVE  L!Next \/ UNCHANGED L!state
  <1> DEFINE t == sess[s].template
  <1>1. /\ At(s, "delete", "commit") /\ Hold(s, Idle)
        /\ referenced' = referenced \ {<<g, t>> : g \in sess[s].nulled}
        /\ template' = [template EXCEPT ![t] = Gone]
        /\ UNCHANGED copied
    BY DEF CommitDelete
  <1>2. /\ t \in Template /\ template[t] # Unborn
        /\ ~ StillReferenced(t, sess[s].nulled)
    BY <1>1, Held, RequestFields DEF IInv, OneWriter, DeletesClear, At
  <1>3. UNCHANGED Snapshots
    BY <1>1, SnapshotsKept DEF Generating, At
  <1> HIDE DEF t
  <1>4. referenced' = {r \in referenced : r[2] # t}
    <2>1. ASSUME NEW r \in referenced PROVE r[2] = t <=> r \in {<<g, t>> : g \in sess[s].nulled}
      <3>1. r = <<r[1], r[2]>> /\ r[1] \in Engagement
        BY DEF IInv, TypeOK
      <3> QED
        BY <1>2, <3>1 DEF StillReferenced
    <2> QED
      BY <1>1, <2>1
  <1>5. Sequences' = [Sequences EXCEPT ![t] = Gone]
    BY <1>1, <1>2, SequenceShown DEF IInv
  <1>6. CASE t \in Rows
    <2>1. L!Delete(t)
      BY <1>1, <1>3, <1>4, <1>5, <1>6, LedgerRows DEF IInv, L!Delete
    <2> QED
      BY <1>2, <2>1 DEF L!Next
  <1>7. CASE t \notin Rows
    <2>1. Sequences[t] = Gone
      BY <1>2, <1>7 DEF Sequences, Rows
    <2>2. UNCHANGED Sequences
      BY <1>5, <2>1 DEF Sequences
    <2>3. UNCHANGED referenced
      BY <1>4, <1>7 DEF IInv, NoDanglingReference
    <2> QED
      BY <1>1, <1>3, <2>2, <2>3 DEF L!state
  <1> QED
    BY <1>6, <1>7

LEMMA LedgerCopy ==
  ASSUME IInv, NEW s \in Session, CommitTasks(s)
  PROVE  L!Next \/ UNCHANGED L!state
  <1> DEFINE f == sess[s].read
  <1>1. PICK g \in Engagement : g = sess[s].engagement
    BY Held, RequestFields DEF IInv, CommitTasks, At
  <1>2. /\ At(s, "generate", "commit") /\ Hold(s, Idle)
        /\ copied' = [copied EXCEPT ![g] = f]
        /\ referenced' = referenced \cup ({g} \X DOMAIN f)
        /\ UNCHANGED <<template, changed_by>>
    BY <1>1 DEF CommitTasks
  <1>3. copied[g] = NoCopies /\ DOMAIN f \subseteq Rows
    BY <1>1, <1>2 DEF IInv, OneWriter, DeletesClear, At
  <1>4. Snapshots[g] = f /\ Snapshots' = [Snapshots EXCEPT ![g] = NoCopies]
    BY <1>1, <1>2, SnapshotForgotten DEF Generating, At
  <1>5. UNCHANGED Sequences
    BY <1>2 DEF Sequences, Rows
  <1> HIDE DEF f
  <1>6. CASE f = NoCopies
    <2>1. UNCHANGED copied
      BY <1>2, <1>3, <1>6 DEF IInv, TypeOK
    <2>2. UNCHANGED referenced
      BY <1>2, <1>6 DEF NoCopies
    <2>3. UNCHANGED Snapshots
      BY <1>4, <1>6 DEF Snapshots
    <2> QED
      BY <1>5, <2>1, <2>2, <2>3 DEF L!state
  <1>7. CASE f # NoCopies
    <2>1. L!Copy(g)
      BY <1>2, <1>3, <1>4, <1>5, <1>7, LedgerRows DEF IInv, L!Copy, L!NoCopies, NoCopies
    <2> QED
      BY <2>1 DEF L!Next
  <1> QED
    BY <1>6, <1>7

(* Statements and loads show nowhere. *)
LEMMA LedgerQuiet ==
  ASSUME IInv, NEW s \in Session, NEW q, Hold(s, q),
         \A g : Generating(q, g) <=> Generating(sess[s], g),
         \A g : Generating(q, g) => q.read = sess[s].read,
         UNCHANGED <<template, copied, referenced, changed_by>>
  PROVE  UNCHANGED L!state
  <1>1. UNCHANGED Sequences
    BY DEF Sequences, Rows
  <1> QED
    BY <1>1, SnapshotsKept DEF L!state

LEMMA LedgerLoad ==
  ASSUME IInv, NEW s \in Session, Load(s)
  PROVE  L!Next \/ UNCHANGED L!state
  <1>1. ASSUME NEW t \in Template, NEW k \in Sequence, NEW actor \in Admin,
               LoadForAdd(s, t, k, actor)
        PROVE  UNCHANGED L!state
    BY <1>1, LedgerQuiet DEF LoadForAdd, Generating
  <1>2. ASSUME NEW t \in Template, NEW k \in Sequence, NEW actor \in Admin,
               LoadForUpdate(s, t, k, actor)
        PROVE  UNCHANGED L!state
    BY <1>2, LedgerQuiet DEF LoadForUpdate, Generating
  <1>3. ASSUME NEW t \in Template, LoadForDelete(s, t) PROVE UNCHANGED L!state
    BY <1>3, LedgerQuiet DEF LoadForDelete, Generating
  <1>4. ASSUME NEW g \in Engagement, ReadTemplates(s, g) PROVE L!Next
    BY <1>4, LedgerLook DEF L!Next
  <1> QED
    BY <1>1, <1>2, <1>3, <1>4 DEF Load

SameGeneration(q, old) ==
  /\ q.kind = old.kind
  /\ q.kind = "generate" => q # Idle /\ q.engagement = old.engagement /\ q.read = old.read

(* A statement changes what the request holds, but neither its kind nor, of  *)
(* a generation, its engagement and what it has read.                        *)
LEMMA LedgerSend ==
  ASSUME IInv, NEW s \in Session,
         SendAdd(s) \/ SendUpdate(s) \/ NullReferences(s) \/ SendDelete(s) \/ SendTasks(s)
  PROVE  UNCHANGED L!state
  <1>1. sess[s] # Idle /\ sess[s] \in Request
    BY Held DEF IInv, SendAdd, SendUpdate, UpdateFindsRow, NullReferences, SendDelete,
                SendTasks, At
  <1>2. PICK q : Hold(s, q) /\ SameGeneration(q, sess[s])
    <2>1. CASE SendTasks(s)
      <3> DEFINE q == [sess[s] EXCEPT !.phase = "commit"]
      <3>1. sess[s] \in GenerateRequest
        BY <1>1, <2>1, RequestShape DEF SendTasks, At
      <3>2. SameGeneration(q, sess[s])
        BY <1>1, <3>1, TasksSent, IdleAssumption DEF SameGeneration, Request
      <3> QED
        BY <2>1, <3>2 DEF SendTasks
    <2>2. CASE SendAdd(s)
      <3>1. sess[s] \in AddRequest
        BY <1>1, <2>2, RequestShape DEF SendAdd, At
      <3>2. PICK late \in BOOLEAN :
              Hold(s, [sess[s] EXCEPT !.phase = "commit", !.late = late])
        BY <2>2, LooksAgainBoolean DEF SendAdd
      <3> DEFINE q == [sess[s] EXCEPT !.phase = "commit", !.late = late]
      <3>3. q.kind = "add" /\ sess[s].kind = "add"
        BY <2>2, <3>1, AddSent DEF SendAdd, At
      <3>4. SameGeneration(q, sess[s])
        BY <3>3 DEF SameGeneration
      <3> QED
        BY <3>2, <3>4
    <2>3. CASE SendUpdate(s)
      <3>1. sess[s] \in UpdateRequest
        BY <1>1, <2>3, RequestShape DEF SendUpdate, UpdateFindsRow, At
      <3>2. PICK late \in BOOLEAN :
              Hold(s, [sess[s] EXCEPT !.phase = "commit", !.late = late])
        BY <2>3, LooksAgainBoolean DEF SendUpdate, Moves
      <3> DEFINE q == [sess[s] EXCEPT !.phase = "commit", !.late = late]
      <3>3. q.kind = "update" /\ sess[s].kind = "update"
        BY <2>3, <3>1, UpdateSent DEF SendUpdate, UpdateFindsRow, At
      <3>4. SameGeneration(q, sess[s])
        BY <3>3 DEF SameGeneration
      <3> QED
        BY <3>2, <3>4
    <2>4. CASE NullReferences(s)
      <3>1. sess[s] \in DeleteRequest /\ sess[s].kind = "delete"
        BY <1>1, <2>4, RequestShape DEF NullReferences, At
      <3>2. PICK nulled \in SUBSET Engagement :
              Hold(s, [sess[s] EXCEPT !.phase = "send", !.nulled = nulled])
        BY <2>4 DEF NullReferences
      <3> DEFINE q == [sess[s] EXCEPT !.phase = "send", !.nulled = nulled]
      <3>3. q.kind = "delete"
        BY <3>1, DeleteNulled
      <3>4. SameGeneration(q, sess[s])
        BY <3>1, <3>3 DEF SameGeneration
      <3> QED
        BY <3>2, <3>4
    <2>5. CASE SendDelete(s)
      <3> DEFINE q == [sess[s] EXCEPT !.phase = "commit"]
      <3>1. sess[s] \in DeleteRequest /\ sess[s].kind = "delete"
        BY <1>1, <2>5, RequestShape DEF SendDelete, At
      <3>2. q.kind = "delete"
        BY <3>1, DeleteSent
      <3>3. SameGeneration(q, sess[s])
        BY <3>1, <3>2 DEF SameGeneration
      <3> QED
        BY <2>5, <3>3 DEF SendDelete
    <2> QED
      BY <2>1, <2>2, <2>3, <2>4, <2>5
  <1>3. UNCHANGED <<template, copied, referenced, changed_by>>
    BY DEF SendAdd, SendUpdate, NullReferences, SendDelete, SendTasks
  <1> QED
    BY <1>1, <1>2, <1>3, LedgerQuiet DEF Generating, SameGeneration

LEMMA LedgerDropped ==
  ASSUME IInv, NEW s \in Session,
         RefuseSequence(s) \/ DeadlockVictim(s) \/ UpdateFindsNoRow(s) \/ DeleteBlocked(s)
           \/ TasksRefused(s) \/ Crash(s)
  PROVE  L!Next \/ UNCHANGED L!state
  <1>1. sess[s] # Idle
    BY DEF RefuseSequence, Refused, DeadlockVictim, InCycle, Waits, UpdateFindsNoRow,
           UpdateFindsNone, DeleteBlocked, TasksRefused, Crash, At
  <1>2. Hold(s, Idle) /\ UNCHANGED <<template, copied, referenced>>
    BY DEF RefuseSequence, DeadlockVictim, UpdateFindsNoRow, DeleteBlocked, TasksRefused, Crash
  <1> QED
    BY <1>1, <1>2, LedgerDropping

LEMMA StepLedger == IInv /\ [Next]_vars => L!Next \/ UNCHANGED L!state
  <1> SUFFICES ASSUME IInv, [Next]_vars PROVE L!Next \/ UNCHANGED L!state
    OBVIOUS
  <1>1. ASSUME NEW s \in Session, Load(s) \/ Send(s) \/ End(s) \/ Crash(s)
        PROVE  L!Next \/ UNCHANGED L!state
    BY <1>1, LedgerLoad, LedgerSend, LedgerRow, LedgerDelete, LedgerCopy, LedgerDropped
       DEF Send, End
  <1>2. CASE UNCHANGED vars
    BY <1>2 DEF vars, L!state, Sequences, Snapshots, Rows, Seen
  <1> QED
    BY <1>1, <1>2 DEF Next

LEMMA InitLedger == Init => L!Init
  <1> SUFFICES ASSUME Init PROVE L!Init
    OBVIOUS
  <1>1. Sequences = [t \in Template |-> Unborn]
    BY DEF Init, Sequences, Rows
  <1>2. Snapshots = [g \in Engagement |-> NoCopies]
    BY DEF Init, Snapshots, Seen
  <1> QED
    BY <1>1, <1>2 DEF Init, L!Init, L!NoCopies, NoCopies

(* However the statements of adds, updates, deletes and generations overlap, *)
(* what is committed changes as TemplateLedger says: a sequence only to one  *)
(* that is free, and a copy of what one look has shown.                      *)
THEOREM LedgerRefined == Spec => LedgerSpec
  <1>1. IInv /\ [Next]_vars => [L!Next]_(L!state)
    BY StepLedger
  <1>2. Spec => L!Init /\ [][L!Next]_(L!state)
    BY InitLedger, <1>1, Inductive, PTL DEF Spec
  <1>3. L!Spec <=> L!Init /\ [][L!Next]_(L!state)
    BY DEF L!Spec
  <1> QED
    BY <1>2, <1>3 DEF LedgerSpec
=============================================================================

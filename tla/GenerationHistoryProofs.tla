----------------------- MODULE GenerationHistoryProofs ----------------------
(***************************************************************************)
(* What an engagement is committed with, for any series, templates,        *)
(* request sessions, schedulers and bounds.                                *)
(***************************************************************************)
EXTENDS GenerationHistory, GenerationServiceProofs

(* Whoever reaches the COMMIT in a step has just read the templates. *)
LEMMA StepReads ==
  ASSUME TypeOK, [Next]_vars, NEW p \in Process,
         work'[p].kind \in {"next", "create"}, work'[p].phase = "commit"
  PROVE  work'[p] = work[p] \/ work'[p].tasks \in {templates'[work'[p].series]} \ {{}}
  <1> DEFINE Read(c) == c.kind \in {"next", "create"} /\ c.phase = "commit"
  <1>1. ASSUME NEW q \in Process, NEW c, Do(q, c), ~ Read(c)
        PROVE  work'[p] = work[p]
    BY <1>1 DEF Do, TypeOK
  <1>2. ~ Read(Idle) /\ \A why : ~ Read(Failed(why))
    BY DEF Idle, Failed
  <1>3. ASSUME NEW q \in Process, ReadTemplates(q)
        PROVE  work'[p] = work[p] \/ work'[p].tasks \in {templates'[work'[p].series]} \ {{}}
    <2> DEFINE c == [work[q] EXCEPT !.phase = "commit", !.tasks = templates[work[q].series]]
    <2>1. work[q] \in Creation
      BY <1>3, CreationShape DEF ReadTemplates
    <2>2. c.tasks = templates[work[q].series] /\ c.series = work[q].series
      BY <2>1 DEF Creation
    <2>3. templates[work[q].series] # {} /\ templates' = templates
      BY <1>3 DEF ReadTemplates, catalogue
    <2>4. Do(q, c)
      BY <1>3 DEF ReadTemplates, TasksFor
    <2> HIDE DEF c
    <2> QED
      BY <2>2, <2>3, <2>4 DEF Do, TypeOK
  <1>4. ASSUME NEW q \in Process, Insert(q) \/ InsertConflicts(q) PROVE work'[p] = work[p]
    <2>1. work[q] \in Creation
      BY <1>4, CreationShape DEF Insert, InsertConflicts
    <2>2. /\ ~ Read([work[q] EXCEPT !.phase = "templates"])
          /\ ~ Read([work[q] EXCEPT !.phase = "lookup"])
      BY <2>1 DEF Creation
    <2> HIDE DEF Read
    <2> QED
      BY <1>1, <1>2, <1>4, <2>2 DEF Insert, InsertConflicts
  <1>5. ASSUME NEW q \in Process,
               NoTemplates(q) \/ CommitCreation(q) \/ CreationFails(q) \/ LookUp(q)
                 \/ ReplyFailed(q) \/ Crash(q)
        PROVE  work'[p] = work[p]
    <2> HIDE DEF Read
    <2> QED
      BY <1>1, <1>2, <1>5
         DEF NoTemplates, CommitCreation, CreationFails, LookUp, ReplyFailed, Crash, Raise
  <1>6. ASSUME NEW j \in Job, TakeDue(j) PROVE work'[p] = work[p]
    <2>1. PICK e \in due[j] : Do(j, NextOf(e))
      BY <1>6 DEF TakeDue
    <2>2. ~ Read(NextOf(e)) /\ j \in Process
      BY DEF NextOf, Process
    <2> QED
      BY <1>1, <2>1, <2>2
  <1>7. ASSUME NEW s \in Session, Request(s) PROVE work'[p] = work[p]
    <2>1. s \in Process
      BY DEF Process
    <2>2. ASSUME NEW e \in Ids, GenerateNext(s, e) PROVE work'[p] = work[p]
      BY <1>1, <2>1, <2>2 DEF GenerateNext, NextOf
    <2>3. ASSUME NEW series \in Series, NEW period \in Period,
                 CreateEngagement(s, series, period)
          PROVE  work'[p] = work[p]
      BY <1>1, <2>1, <2>3 DEF CreateEngagement
    <2> QED
      BY <1>7, <2>2, <2>3 DEF Request
  <1>8. UNCHANGED work => work'[p] = work[p]
    OBVIOUS
  <1> HIDE DEF Read
  <1> QED
    BY <1>3, <1>4, <1>5, <1>6, <1>7, <1>8
       DEF Next, Step, vars, Fire, MissNight, Night, AdministrativeChange, SoftDelete, Restore,
           SetAutoRenew, SetEnabled, ChangeTemplates

(* No other step adds a row. *)
LEMMA RowsAdded ==
  ASSUME TypeOK, [Next]_vars, ~ \E p \in Process : CommitCreation(p)
  PROVE  Ids' = Ids
  <1>1. ASSUME NEW e \in Ids, RowUpdate(e) PROVE Ids' = Ids
    BY <1>1, UpdatedRow, InPlace DEF UpdatesTo
  <1>2. CASE UNCHANGED engagement
    BY <1>2 DEF Ids
  <1> QED
    BY <1>1, <1>2
       DEF Next, Step, vars, Request, GenerateNext, CreateEngagement, AdministrativeChange,
           RowUpdate, Insert, InsertConflicts, ReadTemplates, NoTemplates, CreationFails, LookUp,
           ReplyFailed, Crash, Fire, TakeDue, MissNight, Night, SetEnabled, ChangeTemplates

LEMMA StepReadWasSeen ==
  TypeOK /\ ReadWasSeen /\ [HistoryNext]_historyVars => ReadWasSeen'
  <1> SUFFICES ASSUME TypeOK, ReadWasSeen, [HistoryNext]_historyVars, NEW p \in Process,
                      work'[p].kind \in {"next", "create"}, work'[p].phase = "commit"
               PROVE  work'[p].tasks \in seen'[p] \ {{}}
    BY DEF ReadWasSeen
  <1>1. CASE UNCHANGED historyVars
    BY <1>1 DEF historyVars, vars, ReadWasSeen
  <1>2. CASE HistoryNext
    <2>1. seen'[p] = seen[p] \cup {templates'[work'[p].series]}
      BY <1>2 DEF HistoryNext, Inserted
    <2>2. work'[p] = work[p] \/ work'[p].tasks \in {templates'[work'[p].series]} \ {{}}
      BY <1>2, StepReads DEF HistoryNext
    <2> QED
      BY <2>1, <2>2 DEF ReadWasSeen
  <1> QED
    BY <1>1, <1>2

(* "An engagement never exists without the tasks its service type defines":  *)
(* whatever happens to the templates while it is being created, it is        *)
(* committed with the tasks of all that its series had at one moment since   *)
(* its INSERT, and they are all still there.                                 *)
THEOREM CreatedComplete == HistorySpec => CreatedWithItsWork
  <1> DEFINE Complete ==
        \A e \in DOMAIN engagement' \ Ids :
          LET created == engagement'[e]
          IN  /\ created.tasks # {}
              /\ created.tasks \subseteq templates[created.series]
              /\ \E p \in Process :
                   /\ Inserted(p) /\ ~ Inserted(p)'
                   /\ work[p].series = created.series /\ work[p].period = created.period
                   /\ created.tasks \in seen[p]
  <1>1. HistoryInit => Init /\ ReadWasSeen
    BY DEF HistoryInit, Init, Idle, ReadWasSeen
  <1>2. [HistoryNext]_historyVars => [Next]_vars
    BY DEF HistoryNext, historyVars
  <1>3. ASSUME TypeOK, ReadWasSeen, TypeOK', [Next]_vars PROVE Complete
    <2>0. DOMAIN engagement' = Ids'
      <3>1. engagement' \in Seq(Row)
        BY <1>3 DEF TypeOK
      <3> QED
        BY <3>1 DEF Ids
    <2>1. ASSUME NEW p \in Process, CommitCreation(p) PROVE Complete
      <3> DEFINE c == work[p]
                 row == [series |-> c.series, period |-> c.period,
                         auto_renew |-> c.auto_renew, deleted |-> FALSE, tasks |-> c.tasks]
      <3>1. c \in Creation
        BY <1>3, <2>1, CreationShape DEF CommitCreation
      <3>2. row \in Row
        BY <3>1 DEF Creation, Row
      <3>3. c.tasks \subseteq templates[c.series] /\ c.tasks \in seen[p] \ {{}}
        BY <1>3, <2>1 DEF CommitCreation, TemplatesStillThere, ReadWasSeen
      <3>4. Inserted(p) /\ ~ Inserted(p)'
        BY <1>3, <2>1 DEF CommitCreation, Inserted, Do, Idle, TypeOK
      <3>5. row.tasks = c.tasks /\ row.series = c.series /\ row.period = c.period
        OBVIOUS
      <3>6. engagement' = Append(engagement, row)
        BY <2>1 DEF CommitCreation
      <3> HIDE DEF row
      <3>7. \A e \in Ids' \ Ids : engagement'[e] = row
        BY <1>3, <3>2, <3>6, AppendedRow
      <3> QED
        BY <2>0, <3>3, <3>4, <3>5, <3>7
    <2>2. CASE ~ \E p \in Process : CommitCreation(p)
      BY <1>3, <2>0, <2>2, RowsAdded
    <2> QED
      BY <2>1, <2>2
  <1>4. TypeOK /\ ReadWasSeen /\ TypeOK' /\ [HistoryNext]_historyVars => [Complete]_historyVars
    BY <1>2, <1>3
  <1>5. HistorySpec => Spec
    BY <1>1, <1>2, PTL DEF HistorySpec, Spec
  <1> HIDE DEF Complete
  <1>6. HistorySpec => [][Complete]_historyVars
    BY <1>1, <1>4, <1>5, StepReadWasSeen, TypeCorrect, PTL DEF HistorySpec
  <1> QED
    BY <1>6 DEF CreatedWithItsWork, Complete
=============================================================================

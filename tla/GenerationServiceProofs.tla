----------------------- MODULE GenerationServiceProofs -----------------------
(***************************************************************************)
(* Theorems about GenerationService, for any series, templates, request    *)
(* sessions, schedulers and bounds.                                        *)
(***************************************************************************)
EXTENDS GenerationService, FiniteSetTheorems, TLAPS

-----------------------------------------------------------------------------
(* Type correctness *)

LEMMA Bounds ==
  /\ LeadDays \in Nat /\ PeriodDays \in Nat /\ MaxDay \in Nat
  /\ MaxPeriod \in Nat /\ MaxChanges \in Nat
  BY BoundAssumption

(* Only a creation has a kind of its own. *)
LEMMA CreationShape ==
  ASSUME TypeOK, NEW p \in Process, work[p].kind \in {"next", "create"}
  PROVE  work[p] \in Creation
  <1>1. CASE work[p] = Idle
    BY <1>1 DEF Idle
  <1>2. CASE \E why \in {"integrity", "no row"} : work[p] = Failed(why)
    <2>1. PICK why \in {"integrity", "no row"} : work[p] = Failed(why)
      BY <1>2
    <2>2. Failed(why).kind = "failed"
      BY DEF Failed
    <2> QED
      BY <2>1, <2>2
  <1>3. CASE work[p] \in Creation
    BY <1>3
  <1> QED
    BY <1>1, <1>2, <1>3 DEF TypeOK

(* What the scheduler's arithmetic gives: a period that starts within the    *)
(* lead time is within the bound on periods.                                 *)
LEMMA StartInRange ==
  ASSUME NEW k \in Nat, NEW d \in Nat, d <= MaxDay, Starts(k) <= d + LeadDays
  PROVE  k <= MaxPeriod
  <1> DEFINE x == MaxDay + LeadDays
             m == x \div PeriodDays
  <1>1. x \in Nat /\ PeriodDays \in Nat /\ PeriodDays > 0 /\ MaxPeriod \in Nat /\ m <= MaxPeriod
    BY BoundAssumption
  <1>2. m \in Nat /\ x < (m + 1) * PeriodDays
    BY <1>1
  <1>3. k * PeriodDays <= x
    BY BoundAssumption DEF Starts
  <1>4. ASSUME k >= m + 1 PROVE FALSE
    <2> HIDE DEF x, m
    <2>1. k * PeriodDays >= (m + 1) * PeriodDays
      BY <1>1, <1>2, <1>4
    <2> QED
      BY <1>1, <1>2, <1>3, <2>1
  <1> HIDE DEF x, m
  <1> QED
    BY <1>1, <1>2, <1>4

LEMMA InitTypeOK == Init => TypeOK /\ DueInRange
  <1> SUFFICES ASSUME Init PROVE TypeOK /\ DueInRange
    OBVIOUS
  <1>1. engagement \in Seq(Row)
    <2>1. PICK n \in Nat : engagement \in [1 .. n -> FirstRow]
      BY SeriesAssumption, FS_CardinalityType DEF Init
    <2>2. 0 \in Period
      BY BoundAssumption DEF Period
    <2>3. FirstRow \subseteq Row
      BY <2>2 DEF FirstRow, Row
    <2> QED
      BY <2>1, <2>3
  <1>2. due = [j \in Job |-> {}]
    BY DEF Init
  <1> QED
    BY <1>1, <1>2, BoundAssumption DEF Init, TypeOK, DueInRange

LEMMA RowType ==
  ASSUME TypeOK, NEW e \in Ids
  PROVE  engagement[e] \in Row
  <1>1. engagement \in Seq(Row) /\ e \in 1 .. Len(engagement)
    BY DEF TypeOK, Ids
  <1> QED
    BY <1>1

(* What a process may be left with. *)
Works == {Idle} \cup Creation \cup {Failed(why) : why \in {"integrity", "no row"}}

(* A step of a process that leaves the rows alone and takes nothing into a   *)
(* job's list.                                                               *)
LEMMA ProcessStepType ==
  ASSUME TypeOK, DueInRange, NEW p \in Process, NEW creation \in Works, Do(p, creation),
         UNCHANGED <<engagement, catalogue, today, fired, ended>>,
         due' \in [Job -> SUBSET Ids], \A j \in Job : due'[j] \subseteq due[j],
         changes' \in 0 .. MaxChanges
  PROVE  TypeOK' /\ DueInRange'
  <1>1. work' \in [Process -> Works]
    BY DEF TypeOK, Do, Works
  <1>2. DueInRange'
    BY DEF TypeOK, DueInRange
  <1> QED
    BY <1>1, <1>2 DEF TypeOK, catalogue, Ids, Works

(* A commit that adds a row or changes rows in place. *)
LEMMA RowStepType ==
  ASSUME TypeOK, DueInRange,
         engagement' \in Seq(Row), Ids \subseteq Ids',
         \A e \in Ids : engagement'[e].period = engagement[e].period,
         work' \in [Process -> Works], UNCHANGED <<catalogue, scheduler>>,
         ended' \in SUBSET Series, changes' \in 0 .. MaxChanges
  PROVE  TypeOK' /\ DueInRange'
  <1>1. due' \in [Job -> SUBSET Ids']
    BY DEF TypeOK, scheduler
  <1>2. DueInRange'
    BY DEF TypeOK, scheduler, DueInRange
  <1> QED
    BY <1>1, <1>2 DEF TypeOK, scheduler, catalogue, Works

(* What an UPDATE of an engagement makes of its row. *)
UpdatesTo(e, row) ==
  /\ engagement' = [engagement EXCEPT ![e] = row]
  /\ row.series = engagement[e].series
  /\ row.period = engagement[e].period
  /\ Restore(e) \/ row.deleted \/ row.deleted = engagement[e].deleted

RowUpdate(e) == SoftDelete(e) \/ Restore(e) \/ \E on \in BOOLEAN : SetAutoRenew(e, on)

LEMMA UpdatedRow ==
  ASSUME TypeOK, NEW e \in Ids, RowUpdate(e)
  PROVE  \E row \in Row : UpdatesTo(e, row)
  <1>1. engagement[e] \in Row
    BY RowType
  <1>2. CASE SoftDelete(e)
    <2>1. [engagement[e] EXCEPT !.deleted = TRUE] \in Row
      BY <1>1 DEF Row
    <2>2. UpdatesTo(e, [engagement[e] EXCEPT !.deleted = TRUE])
      BY <1>1, <1>2 DEF UpdatesTo, SoftDelete, Row
    <2> QED
      BY <2>1, <2>2
  <1>3. CASE Restore(e)
    <2>1. [engagement[e] EXCEPT !.deleted = FALSE] \in Row
      BY <1>1 DEF Row
    <2>2. UpdatesTo(e, [engagement[e] EXCEPT !.deleted = FALSE])
      <3>1. engagement' = [engagement EXCEPT ![e] = [engagement[e] EXCEPT !.deleted = FALSE]]
        BY <1>3 DEF Restore
      <3> QED
        BY <1>1, <1>3, <3>1 DEF UpdatesTo, Row
    <2> QED
      BY <2>1, <2>2
  <1>4. ASSUME NEW on \in BOOLEAN, SetAutoRenew(e, on) PROVE \E row \in Row : UpdatesTo(e, row)
    <2>1. [engagement[e] EXCEPT !.auto_renew = on] \in Row
      BY <1>1 DEF Row
    <2>2. UpdatesTo(e, [engagement[e] EXCEPT !.auto_renew = on])
      BY <1>1, <1>4 DEF UpdatesTo, SetAutoRenew, Row
    <2> QED
      BY <2>1, <2>2
  <1> QED
    BY <1>2, <1>3, <1>4 DEF RowUpdate

LEMMA InPlace ==
  ASSUME TypeOK, NEW e \in Ids, NEW row \in Row, engagement' = [engagement EXCEPT ![e] = row]
  PROVE  /\ engagement' \in Seq(Row) /\ Ids' = Ids
         /\ engagement'[e] = row
         /\ \A f \in Ids \ {e} : engagement'[f] = engagement[f]
  <1>1. engagement \in Seq(Row) /\ e \in 1 .. Len(engagement)
    BY DEF TypeOK, Ids
  <1>2. engagement' \in Seq(Row) /\ Len(engagement') = Len(engagement)
    BY <1>1
  <1>3. engagement'[e] = row
    BY <1>1
  <1>4. \A f \in 1 .. Len(engagement) : f # e => engagement'[f] = engagement[f]
    BY <1>1
  <1> QED
    BY <1>2, <1>3, <1>4 DEF Ids

LEMMA AppendedRow ==
  ASSUME TypeOK, NEW row \in Row, engagement' = Append(engagement, row)
  PROVE  /\ engagement' \in Seq(Row)
         /\ Ids' = Ids \cup {Len(engagement) + 1} /\ Len(engagement) + 1 \notin Ids
         /\ engagement'[Len(engagement) + 1] = row
         /\ \A e \in Ids : engagement'[e] = engagement[e]
  <1>1. engagement \in Seq(Row)
    BY DEF TypeOK
  <1>2. /\ engagement' \in Seq(Row) /\ Len(engagement') = Len(engagement) + 1
        /\ engagement'[Len(engagement) + 1] = row
    BY <1>1
  <1>3. \A e \in 1 .. Len(engagement) : engagement'[e] = engagement[e]
    BY <1>1
  <1>4. Len(engagement) \in Nat
    BY <1>1
  <1> QED
    BY <1>2, <1>3, <1>4 DEF Ids

LEMMA NextOfType ==
  ASSUME TypeOK, NEW e \in Ids, engagement[e].period < MaxPeriod
  PROVE  NextOf(e) \in Creation
  <1>1. engagement[e] \in Row
    BY RowType
  <1>2. engagement[e].period + 1 \in Period
    BY <1>1, BoundAssumption DEF Row, Period
  <1> QED
    BY <1>1, <1>2 DEF NextOf, Row, Creation

LEMMA ChangeType ==
  ASSUME TypeOK, Change
  PROVE  changes' \in 0 .. MaxChanges
  <1>1. MaxChanges \in Nat
    BY BoundAssumption
  <1>2. changes \in 0 .. MaxChanges /\ changes < MaxChanges /\ changes' = changes + 1
    BY DEF TypeOK, Change
  <1> QED
    BY <1>1, <1>2

LEMMA StepTypeOK == TypeOK /\ DueInRange /\ [Next]_vars => TypeOK' /\ DueInRange'
  <1> SUFFICES ASSUME TypeOK, DueInRange, [Next]_vars PROVE TypeOK' /\ DueInRange'
    OBVIOUS
  <1>1. ASSUME NEW p \in Process, Step(p) PROVE TypeOK' /\ DueInRange'
    <2> DEFINE c == work[p]
    <2>1. Idle \in Works /\ \A why \in {"integrity", "no row"} : Failed(why) \in Works
      BY DEF Works
    <2>2. CASE Insert(p) \/ InsertConflicts(p) \/ ReadTemplates(p)
      <3>1. c \in Creation
        BY <2>2, CreationShape DEF Insert, InsertConflicts, ReadTemplates
      <3>2. /\ [c EXCEPT !.phase = "templates"] \in Works
            /\ [c EXCEPT !.phase = "lookup"] \in Works
            /\ [c EXCEPT !.phase = "commit", !.tasks = templates[c.series]] \in Works
        BY <3>1 DEF Creation, Works, TypeOK
      <3>3. PICK creation \in Works : Do(p, creation)
        BY <2>1, <2>2, <3>2 DEF Insert, InsertConflicts, ReadTemplates, TasksFor
      <3> HIDE DEF c
      <3> QED
        BY <2>2, <3>3, ProcessStepType
           DEF Insert, InsertConflicts, ReadTemplates, scheduler, TypeOK
    <2>3. CASE NoTemplates(p) \/ CreationFails(p) \/ LookUp(p) \/ ReplyFailed(p)
      <3>1. PICK creation \in Works : Do(p, creation)
        BY <2>1, <2>3 DEF NoTemplates, CreationFails, LookUp, ReplyFailed, Raise
      <3> QED
        BY <2>3, <3>1, ProcessStepType
           DEF NoTemplates, CreationFails, LookUp, ReplyFailed, AfterFailure, LetJobGoOn,
               scheduler, TypeOK
    <2>4. CASE CommitCreation(p)
      <3>1. c \in Creation
        BY <2>4, CreationShape DEF CommitCreation
      <3> DEFINE row == [series |-> c.series, period |-> c.period,
                         auto_renew |-> c.auto_renew, deleted |-> FALSE, tasks |-> c.tasks]
      <3>2. row \in Row
        BY <3>1 DEF Creation, Row
      <3>3. engagement' = Append(engagement, row)
        BY <2>4 DEF CommitCreation
      <3> HIDE DEF row
      <3>4. /\ engagement' \in Seq(Row) /\ Ids \subseteq Ids'
            /\ \A e \in Ids : engagement'[e] = engagement[e]
        BY <3>2, <3>3, AppendedRow
      <3>5. work' \in [Process -> Works]
        BY <2>1, <2>4 DEF CommitCreation, Do, TypeOK, Works
      <3>6. ended' \in SUBSET Series /\ UNCHANGED <<catalogue, scheduler, changes>>
        BY <2>4 DEF CommitCreation, TypeOK
      <3> QED
        BY <3>4, <3>5, <3>6, RowStepType DEF TypeOK
    <2> QED
      BY <1>1, <2>2, <2>3, <2>4 DEF Step
  <1>2. ASSUME NEW p \in Process, Crash(p) PROVE TypeOK' /\ DueInRange'
    <2>1. Idle \in Works
      BY DEF Works
    <2>2. changes' \in 0 .. MaxChanges
      BY <1>2, ChangeType DEF Crash
    <2>3. due' \in [Job -> SUBSET Ids] /\ \A j \in Job : due'[j] \subseteq due[j]
      BY <1>2 DEF Crash, TypeOK
    <2> QED
      BY <1>2, <2>1, <2>2, <2>3, ProcessStepType DEF Crash
  <1>3. ASSUME NEW j \in Job, Fire(j) \/ TakeDue(j) \/ MissNight(j) PROVE TypeOK' /\ DueInRange'
    <2>1. CASE Fire(j)
      <3>1. \A e \in DueForGeneration : e \in Ids /\ engagement[e].period < MaxPeriod
        <4>1. SUFFICES ASSUME NEW e \in DueForGeneration
                       PROVE  e \in Ids /\ engagement[e].period < MaxPeriod
          OBVIOUS
        <4>2. e \in Ids /\ Starts(engagement[e].period + 1) <= today + LeadDays
          BY DEF DueForGeneration
        <4>3. engagement[e] \in Row
          BY <4>2, RowType
        <4>4. engagement[e].period \in Nat
          BY <4>3, BoundAssumption DEF Row, Period
        <4>5. today \in Nat /\ today <= MaxDay /\ MaxPeriod \in Nat
          <5>1. today \in 0 .. MaxDay
            BY DEF TypeOK
          <5> QED
            BY <5>1, Bounds
        <4>6. engagement[e].period + 1 <= MaxPeriod
          BY <4>2, <4>4, <4>5, StartInRange
        <4> QED
          BY <4>2, <4>4, <4>5, <4>6
      <3> QED
        BY <2>1, <3>1 DEF Fire, TypeOK, DueInRange, Ids, catalogue
    <2>2. CASE TakeDue(j)
      <3>1. j \in Process
        BY DEF Process
      <3>2. PICK e \in due[j] : due' = [due EXCEPT ![j] = @ \ {e}] /\ Do(j, NextOf(e))
        BY <2>2 DEF TakeDue
      <3>3. NextOf(e) \in Works
        BY <3>2, NextOfType DEF TypeOK, DueInRange, Works
      <3>4. due' \in [Job -> SUBSET Ids] /\ \A k \in Job : due'[k] \subseteq due[k]
        BY <3>2 DEF TypeOK
      <3> QED
        BY <2>2, <3>1, <3>2, <3>3, <3>4, ProcessStepType DEF TakeDue, TypeOK
    <2>3. CASE MissNight(j)
      BY <2>3 DEF MissNight, TypeOK, DueInRange, Ids, catalogue
    <2> QED
      BY <1>3, <2>1, <2>2, <2>3
  <1>4. ASSUME NEW s \in Session, Request(s) PROVE TypeOK' /\ DueInRange'
    <2>1. s \in Process
      BY DEF Process
    <2>2. PICK creation \in Creation : Do(s, creation) /\ Change
                                       /\ UNCHANGED <<engagement, catalogue, scheduler, ended>>
      <3>1. ASSUME NEW e \in Ids, GenerateNext(s, e)
            PROVE  NextOf(e) \in Creation /\ Do(s, NextOf(e))
        BY <3>1, NextOfType DEF GenerateNext
      <3>2. ASSUME NEW series \in Series, NEW period \in Period,
                   CreateEngagement(s, series, period)
            PROVE  \E creation \in Creation : Do(s, creation)
        BY <3>2 DEF CreateEngagement, Creation
      <3> QED
        BY <1>4, <3>1, <3>2 DEF Request, GenerateNext, CreateEngagement
    <2> QED
      BY <2>1, <2>2, ChangeType, ProcessStepType DEF Works, scheduler, TypeOK
  <1>5. CASE AdministrativeChange
    <2>1. changes' \in 0 .. MaxChanges
      BY <1>5, ChangeType
         DEF AdministrativeChange, SoftDelete, Restore, SetAutoRenew, SetEnabled, ChangeTemplates
    <2>2. CASE \E s \in Series : SetEnabled(s)
      BY <2>1, <2>2 DEF SetEnabled, scheduler, TypeOK, DueInRange, Ids
    <2>3. CASE \E s \in Series, t \in Template : ChangeTemplates(s, t)
      <3>1. PICK s \in Series, t \in Template : ChangeTemplates(s, t)
        BY <2>3
      <3>2. templates \in [Series -> SUBSET Template]
        BY DEF TypeOK
      <3>3. templates[s] \ {t} \in SUBSET Template /\ templates[s] \cup {t} \in SUBSET Template
        BY <3>2
      <3>4. templates' \in [Series -> SUBSET Template]
        BY <3>1, <3>2, <3>3 DEF ChangeTemplates
      <3> QED
        BY <2>1, <3>1, <3>4 DEF ChangeTemplates, scheduler, TypeOK, DueInRange, Ids
    <2>4. ASSUME NEW e \in Ids, RowUpdate(e) PROVE TypeOK' /\ DueInRange'
      <3>1. PICK row \in Row : UpdatesTo(e, row)
        BY <2>4, UpdatedRow
      <3>2. /\ engagement' \in Seq(Row) /\ Ids' = Ids
            /\ \A f \in Ids : engagement'[f].period = engagement[f].period
        BY <3>1, InPlace DEF UpdatesTo
      <3>3. work' \in [Process -> Works] /\ UNCHANGED <<catalogue, scheduler>>
        BY <2>4 DEF RowUpdate, SoftDelete, Restore, SetAutoRenew, TypeOK, Works
      <3>4. ended' \in SUBSET Series
        <4>1. engagement[e].series \in Series
          BY RowType DEF Row
        <4> QED
          BY <2>4, <4>1 DEF RowUpdate, SoftDelete, Restore, SetAutoRenew, TypeOK
      <3> QED
        BY <2>1, <3>2, <3>3, <3>4, RowStepType
    <2> QED
      BY <1>5, <2>2, <2>3, <2>4 DEF AdministrativeChange, RowUpdate
  <1>6. CASE Night
    <2>1. today' \in 0 .. MaxDay
      <3>1. today \in 0 .. MaxDay /\ today' = IF today < MaxDay THEN today + 1 ELSE today
        BY <1>6 DEF Night, TypeOK
      <3> QED
        BY <3>1, Bounds
    <2> QED
      BY <1>6, <2>1 DEF Night, TypeOK, DueInRange, Ids, catalogue
  <1>7. CASE UNCHANGED vars
    BY <1>7 DEF vars, TypeOK, DueInRange, Ids
  <1> QED
    BY <1>1, <1>2, <1>3, <1>4, <1>5, <1>6, <1>7 DEF Next

(* Every reachable state is well typed, within the bounds of the model. *)
THEOREM TypeCorrect == Spec => []TypeOK
  BY InitTypeOK, StepTypeOK, PTL DEF Spec

-----------------------------------------------------------------------------
(* engagement_unique_period and the keys in flight *)

KeyFacts == UniquePeriod /\ KeysInFlightFree /\ OneInFlight

LEMMA InitKeyFacts == Init => KeyFacts
  <1> SUFFICES ASSUME Init PROVE KeyFacts
    OBVIOUS
  <1>1. \A p \in Process : work[p].kind = "idle"
    BY DEF Init, Idle
  <1>2. KeysInFlightFree /\ OneInFlight
    BY <1>1 DEF KeysInFlightFree, OneInFlight, InFlight
  <1>3. UniquePeriod
    <2> DEFINE n == Cardinality(Series)
               f == [i \in 1 .. n |-> engagement[i].series]
    <2>1. n \in Nat /\ IsFiniteSet(1 .. n) /\ Cardinality(1 .. n) = n
      <3>1. n \in Nat
        BY SeriesAssumption, FS_CardinalityType
      <3> HIDE DEF n
      <3>2. /\ IsFiniteSet(1 .. n)
            /\ Cardinality(1 .. n) = IF 1 > n THEN 0 ELSE n - 1 + 1
        BY <3>1, FS_Interval
      <3> QED
        BY <3>1, <3>2
    <2>2. /\ engagement \in [1 .. n -> FirstRow]
          /\ {engagement[i].series : i \in 1 .. n} = Series
      BY DEF Init
    <2>3. f \in Surjection(1 .. n, Series)
      BY <2>2 DEF Surjection
    <2>4. f \in Injection(1 .. n, Series)
      <3> HIDE DEF f, n
      <3>1. Cardinality(1 .. n) = Cardinality(Series)
        BY <2>1 DEF n
      <3> QED
        BY <2>1, <2>3, <3>1, FS_SurjSameCardinalityImpliesInj
    <2>5. Ids = 1 .. n
      <3> HIDE DEF n
      <3> QED
        BY <2>1, <2>2 DEF Ids
    <2> QED
      BY <2>4, <2>5 DEF Injection, IsInjective, UniquePeriod
  <1> QED
    BY <1>2, <1>3 DEF KeyFacts

(* Letting go of a key, or holding it on, disturbs nothing. *)
LEMMA NoNewKey ==
  ASSUME KeyFacts, UNCHANGED engagement,
         \A q \in Process, s \in Series, k \in Period : InFlight(q, s, k)' => InFlight(q, s, k)
  PROVE  KeyFacts'
  BY DEF KeyFacts, UniquePeriod, KeysInFlightFree, OneInFlight, LiveAt, Ids

LEMMA ProcessKeepsKey ==
  ASSUME TypeOK, KeyFacts, UNCHANGED engagement, NEW p \in Process, NEW creation,
         Do(p, creation),
         creation.kind \in {"next", "create"} /\ creation.phase \in {"templates", "commit"} =>
           InFlight(p, creation.series, creation.period)
  PROVE  KeyFacts'
  <1>1. work'[p] = creation /\ \A q \in Process \ {p} : work'[q] = work[q]
    BY DEF TypeOK, Do
  <1>2. \A q \in Process, s \in Series, k \in Period : InFlight(q, s, k)' => InFlight(q, s, k)
    BY <1>1 DEF InFlight
  <1> QED
    BY <1>2, NoNewKey

(* Updates in place: fewer rows live. *)
LEMMA FewerLive ==
  ASSUME KeyFacts, UNCHANGED work, Ids' = Ids,
         \A e \in Ids : /\ engagement'[e].series = engagement[e].series
                        /\ engagement'[e].period = engagement[e].period
                        /\ ~ engagement'[e].deleted => ~ engagement[e].deleted
  PROVE  KeyFacts'
  <1>1. \A s, k : LiveAt(s, k)' \subseteq LiveAt(s, k)
    BY DEF LiveAt
  <1>2. \A p \in Process : \A s, k : InFlight(p, s, k)' = InFlight(p, s, k)
    BY DEF InFlight
  <1>3. UniquePeriod'
    BY DEF KeyFacts, UniquePeriod
  <1> QED
    BY <1>1, <1>2, <1>3 DEF KeyFacts, KeysInFlightFree, OneInFlight

LEMMA StepKeyFacts == TypeOK /\ DueInRange /\ KeyFacts /\ [Next]_vars => KeyFacts'
  <1> SUFFICES ASSUME TypeOK, DueInRange, KeyFacts, [Next]_vars PROVE KeyFacts'
    OBVIOUS
  <1>1. ASSUME NEW p \in Process, Insert(p) PROVE KeyFacts'
    <2> DEFINE s == work[p].series
               k == work[p].period
    <2>1. work[p] \in Creation
      BY <1>1, CreationShape DEF Insert
    <2>2. /\ work'[p] = [work[p] EXCEPT !.phase = "templates"]
          /\ \A q \in Process \ {p} : work'[q] = work[q]
          /\ UNCHANGED engagement
      BY <1>1 DEF Insert, Do, TypeOK
    <2>3. /\ \A q \in Process \ {p} : ~ InFlight(q, s, k)
          /\ LiveAt(s, k) = {}
      BY <1>1 DEF Insert, KeySettled
    <2>4. \A q \in Process \ {p}, r \in Series, l \in Period :
            InFlight(q, r, l)' = InFlight(q, r, l)
      BY <2>2 DEF InFlight
    <2>5. \A r \in Series, l \in Period : InFlight(p, r, l)' => r = s /\ l = k
      BY <2>1, <2>2 DEF InFlight, Creation
    <2>6. \A r \in Series, l \in Period : LiveAt(r, l)' = LiveAt(r, l)
      BY <2>2 DEF LiveAt, Ids
    <2>7. KeysInFlightFree'
      BY <2>3, <2>4, <2>5, <2>6 DEF KeyFacts, KeysInFlightFree
    <2>8. OneInFlight'
      BY <2>3, <2>4, <2>5 DEF KeyFacts, OneInFlight
    <2>9. UniquePeriod'
      BY <2>2 DEF KeyFacts, UniquePeriod, Ids
    <2> QED
      BY <2>7, <2>8, <2>9 DEF KeyFacts
  <1>2. ASSUME NEW p \in Process,
               InsertConflicts(p) \/ ReadTemplates(p) \/ NoTemplates(p) \/ CreationFails(p)
                 \/ LookUp(p) \/ ReplyFailed(p) \/ Crash(p)
        PROVE  KeyFacts'
    <2>1. Idle.kind = "idle" /\ \A why \in {"integrity", "no row"} : Failed(why).kind = "failed"
      BY DEF Idle, Failed
    <2>2. CASE InsertConflicts(p)
      <3>1. work[p] \in Creation
        BY <2>2, CreationShape DEF InsertConflicts
      <3>2. [work[p] EXCEPT !.phase = "lookup"].phase = "lookup"
        BY <3>1 DEF Creation
      <3> QED
        BY <2>1, <2>2, <3>2, ProcessKeepsKey DEF InsertConflicts
    <2>3. CASE ReadTemplates(p)
      <3> DEFINE c == [work[p] EXCEPT !.phase = "commit", !.tasks = templates[work[p].series]]
      <3>1. work[p] \in Creation
        BY <2>3, CreationShape DEF ReadTemplates
      <3>2. c.series = work[p].series /\ c.period = work[p].period
        BY <3>1 DEF Creation
      <3>3. InFlight(p, c.series, c.period)
        BY <2>3, <3>2 DEF ReadTemplates, InFlight
      <3>4. Do(p, c) /\ UNCHANGED engagement
        BY <2>3 DEF ReadTemplates, TasksFor
      <3> HIDE DEF c
      <3> QED
        BY <3>3, <3>4, ProcessKeepsKey
    <2>4. CASE NoTemplates(p) \/ CreationFails(p) \/ LookUp(p) \/ ReplyFailed(p) \/ Crash(p)
      <3>1. PICK c \in {Idle} \cup {Failed(why) : why \in {"integrity", "no row"}} : Do(p, c)
        BY <2>4 DEF NoTemplates, CreationFails, LookUp, ReplyFailed, Crash, Raise
      <3>2. c.kind \in {"idle", "failed"}
        BY <2>1, <3>1
      <3>3. UNCHANGED engagement
        BY <2>4 DEF NoTemplates, CreationFails, LookUp, ReplyFailed, Crash
      <3> QED
        BY <3>1, <3>2, <3>3, ProcessKeepsKey
    <2> QED
      BY <1>2, <2>2, <2>3, <2>4
  <1>3. ASSUME NEW p \in Process, CommitCreation(p) PROVE KeyFacts'
    <2> DEFINE c == work[p]
               n == Len(engagement) + 1
               row == [series |-> c.series, period |-> c.period,
                       auto_renew |-> c.auto_renew, deleted |-> FALSE, tasks |-> c.tasks]
    <2>1. c \in Creation
      BY <1>3, CreationShape DEF CommitCreation
    <2>2. /\ engagement' = Append(engagement, row)
          /\ work'[p] = Idle /\ \A q \in Process \ {p} : work'[q] = work[q]
      BY <1>3 DEF CommitCreation, Do, TypeOK
    <2>3. InFlight(p, c.series, c.period) /\ c.series \in Series /\ c.period \in Period
      BY <1>3, <2>1 DEF CommitCreation, InFlight, Creation
    <2>4. LiveAt(c.series, c.period) = {}
      BY <2>3 DEF KeyFacts, KeysInFlightFree
    <2>5. row \in Row
      BY <2>1 DEF Creation, Row
    <2>6. /\ Ids' = Ids \cup {n} /\ n \notin Ids
          /\ engagement'[n] = row
          /\ \A e \in Ids : engagement'[e] = engagement[e]
      BY <2>2, <2>5, AppendedRow
    <2>7. row.series = c.series /\ row.period = c.period
      OBVIOUS
    <2> HIDE DEF row, n
    <2>8. UniquePeriod'
      <3>1. SUFFICES ASSUME NEW e \in Ids', NEW f \in Ids',
                            ~ engagement'[e].deleted, ~ engagement'[f].deleted,
                            engagement'[e].series = engagement'[f].series,
                            engagement'[e].period = engagement'[f].period
                     PROVE  e = f
        BY DEF UniquePeriod
      <3>2. CASE e \in Ids /\ f \in Ids
        BY <2>6, <3>1, <3>2 DEF KeyFacts, UniquePeriod
      <3>3. CASE e = n /\ f \in Ids
        BY <2>4, <2>6, <2>7, <3>1, <3>3 DEF LiveAt
      <3>4. CASE e \in Ids /\ f = n
        BY <2>4, <2>6, <2>7, <3>1, <3>4 DEF LiveAt
      <3> QED
        BY <2>6, <3>2, <3>3, <3>4
    <2>9. \A q \in Process, s \in Series, k \in Period :
            InFlight(q, s, k)' => InFlight(q, s, k) /\ q # p
      BY <2>2 DEF InFlight, Idle
    <2>10. OneInFlight'
      BY <2>9 DEF KeyFacts, OneInFlight
    <2>11. KeysInFlightFree'
      <3>1. SUFFICES ASSUME NEW q \in Process, NEW s \in Series, NEW k \in Period,
                            InFlight(q, s, k)'
                     PROVE  LiveAt(s, k)' = {}
        BY DEF KeysInFlightFree
      <3>2. InFlight(q, s, k) /\ q # p
        BY <2>9, <3>1
      <3>3. LiveAt(s, k) = {}
        BY <3>2 DEF KeyFacts, KeysInFlightFree
      <3>4. ~ (s = c.series /\ k = c.period)
        BY <2>3, <3>2 DEF KeyFacts, OneInFlight
      <3> QED
        BY <2>6, <2>7, <3>3, <3>4 DEF LiveAt
    <2> QED
      BY <2>8, <2>10, <2>11 DEF KeyFacts
  <1>4. ASSUME NEW e \in Ids, RowUpdate(e) PROVE KeyFacts'
    <2>1. PICK row \in Row : UpdatesTo(e, row)
      BY <1>4, UpdatedRow
    <2>2. /\ Ids' = Ids /\ engagement'[e] = row
          /\ \A f \in Ids \ {e} : engagement'[f] = engagement[f]
          /\ row.series = engagement[e].series /\ row.period = engagement[e].period
      BY <2>1, InPlace DEF UpdatesTo
    <2>3. UNCHANGED work
      BY <1>4 DEF RowUpdate, SoftDelete, Restore, SetAutoRenew
    <2>4. CASE ~ Restore(e)
      <3>1. ~ engagement'[e].deleted => ~ engagement[e].deleted
        BY <2>1, <2>2, <2>4 DEF UpdatesTo
      <3> QED
        BY <2>2, <2>3, <3>1, FewerLive
    <2>5. CASE Restore(e)
      <3> DEFINE s == engagement[e].series
                 k == engagement[e].period
      <3>1. /\ \A p \in Process : ~ InFlight(p, s, k)
            /\ LiveAt(s, k) = {}
        BY <2>5 DEF Restore, RestoreAccepted, KeySettled
      <3>2. \A p \in Process : \A r, l : InFlight(p, r, l)' = InFlight(p, r, l)
        BY <2>3 DEF InFlight
      <3>3. \A r, l : ~ (r = s /\ l = k) => LiveAt(r, l)' = LiveAt(r, l)
        BY <2>2 DEF LiveAt
      <3>4. UniquePeriod'
        <4>1. SUFFICES ASSUME NEW f \in Ids, NEW g \in Ids,
                              ~ engagement'[f].deleted, ~ engagement'[g].deleted,
                              engagement'[f].series = engagement'[g].series,
                              engagement'[f].period = engagement'[g].period
                       PROVE  f = g
          BY <2>2 DEF UniquePeriod
        <4>2. CASE f # e /\ g # e
          BY <2>2, <4>1, <4>2 DEF KeyFacts, UniquePeriod
        <4>3. CASE f = e /\ g # e
          BY <2>2, <3>1, <4>1, <4>3 DEF LiveAt
        <4>4. CASE f # e /\ g = e
          BY <2>2, <3>1, <4>1, <4>4 DEF LiveAt
        <4> QED
          BY <4>2, <4>3, <4>4
      <3>5. KeysInFlightFree'
        BY <3>1, <3>2, <3>3 DEF KeyFacts, KeysInFlightFree
      <3>6. OneInFlight'
        BY <3>2 DEF KeyFacts, OneInFlight
      <3> QED
        BY <3>4, <3>5, <3>6 DEF KeyFacts
    <2> QED
      BY <2>4, <2>5
  <1>5. ASSUME NEW j \in Job, TakeDue(j) PROVE KeyFacts'
    <2>1. PICK e \in due[j] : Do(j, NextOf(e)) /\ UNCHANGED engagement
      BY <1>5 DEF TakeDue
    <2>2. NextOf(e).phase = "insert"
      BY DEF NextOf
    <2>3. j \in Process
      BY DEF Process
    <2> QED
      BY <2>1, <2>2, <2>3, ProcessKeepsKey
  <1>6. ASSUME NEW s \in Session, Request(s) PROVE KeyFacts'
    <2>1. s \in Process
      BY DEF Process
    <2>2. ASSUME NEW e \in Ids, GenerateNext(s, e) PROVE KeyFacts'
      <3>1. NextOf(e).phase = "insert" /\ Do(s, NextOf(e)) /\ UNCHANGED engagement
        BY <2>2 DEF NextOf, GenerateNext
      <3> QED
        BY <2>1, <3>1, ProcessKeepsKey
    <2>3. ASSUME NEW series \in Series, NEW period \in Period,
                 CreateEngagement(s, series, period)
          PROVE  KeyFacts'
      <3> DEFINE c == [kind |-> "create", phase |-> "insert", series |-> series,
                       period |-> period, auto_renew |-> TRUE, tasks |-> {}]
      <3>1. c.phase = "insert"
        OBVIOUS
      <3>2. Do(s, c) /\ UNCHANGED engagement
        BY <2>3 DEF CreateEngagement
      <3> HIDE DEF c
      <3> QED
        BY <2>1, <3>1, <3>2, ProcessKeepsKey
    <2> QED
      BY <1>6, <2>2, <2>3 DEF Request
  <1>7. CASE UNCHANGED <<engagement, work>>
    BY <1>7, NoNewKey DEF InFlight
  <1>8. ASSUME NEW j \in Job, Fire(j) \/ MissNight(j) PROVE UNCHANGED <<engagement, work>>
    BY <1>8 DEF Fire, MissNight
  <1>9. CASE Night
    BY <1>7, <1>9 DEF Night
  <1>10. CASE AdministrativeChange
    BY <1>4, <1>7, <1>10 DEF AdministrativeChange, RowUpdate, SetEnabled, ChangeTemplates
  <1> QED
    BY <1>1, <1>2, <1>3, <1>5, <1>6, <1>7, <1>8, <1>9, <1>10 DEF Next, Step, vars

(* The inductive invariant holds, for every number of schedulers, sessions,  *)
(* series and changes: what is half done keeps its key to itself.            *)
THEOREM Inductive == Spec => []IInv
  <1>1. Init => IInv
    BY InitTypeOK, InitKeyFacts DEF IInv, KeyFacts
  <1>2. IInv /\ [Next]_vars => IInv'
    BY StepTypeOK, StepKeyFacts DEF IInv, KeyFacts
  <1> QED
    BY <1>1, <1>2, PTL DEF Spec

(* engagement_unique_period for any number of jobs, buttons and restores:    *)
(* no series ever has two live engagements of one period.                    *)
THEOREM UniquePeriodHolds == Spec => []UniquePeriod
  <1>1. IInv => UniquePeriod
    BY DEF IInv
  <1> QED
    BY <1>1, Inductive, PTL

-----------------------------------------------------------------------------
(* PeriodLedger *)

Slots == [k \in Series \X Period |-> SlotOf(k[1], k[2])]

(* With one live row at most, a slot says which auto_renew that row has. *)
LEMMA SlotValue ==
  ASSUME UniquePeriod, NEW s, NEW k
  PROVE  /\ LiveAt(s, k) = {} <=> SlotOf(s, k) = "free"
         /\ SlotOf(s, k) \in L!SlotState
  <1>1. CASE LiveAt(s, k) = {}
    BY <1>1 DEF SlotOf, L!SlotState
  <1>2. ASSUME NEW e \in LiveAt(s, k)
        PROVE  SlotOf(s, k) \in {"renewing", "ending"}
    <2>1. LiveAt(s, k) = {e}
      BY <1>2 DEF UniquePeriod, LiveAt
    <2>2. Cardinality(LiveAt(s, k)) = 1
      BY <2>1, FS_Singleton
    <2> QED
      BY <2>1, <2>2 DEF SlotOf
  <1> QED
    BY <1>1, <1>2 DEF L!SlotState

(* The same of the state a step leads to. *)
LEMMA SlotValueNext ==
  ASSUME UniquePeriod', NEW s, NEW k
  PROVE  /\ LiveAt(s, k)' = {} <=> SlotOf(s, k)' = "free"
         /\ SlotOf(s, k)' \in L!SlotState
  <1>1. CASE LiveAt(s, k)' = {}
    BY <1>1 DEF SlotOf, L!SlotState
  <1>2. ASSUME NEW e \in LiveAt(s, k)'
        PROVE  SlotOf(s, k)' \in {"renewing", "ending"}
    <2>1. LiveAt(s, k)' = {e}
      BY <1>2 DEF UniquePeriod, LiveAt
    <2>2. Cardinality(LiveAt(s, k)') = 1
      BY <2>1, FS_Singleton
    <2> QED
      BY <2>1, <2>2 DEF SlotOf
  <1> QED
    BY <1>1, <1>2 DEF L!SlotState

LEMMA SlotChange ==
  ASSUME NEW s \in Series, NEW k \in Period,
         \A r \in Series, l \in Period : ~ (r = s /\ l = k) => SlotOf(r, l)' = SlotOf(r, l)
  PROVE  Slots' = [Slots EXCEPT ![<<s, k>>] = SlotOf(s, k)']
  <1> DEFINE Key == Series \X Period
             old == Slots
             new == [key \in Key |-> SlotOf(key[1], key[2])']
  <1>1. Slots' = new /\ old = [key \in Key |-> old[key]] /\ DOMAIN old = Key
    BY DEF Slots
  <1>2. \A r \in Series, l \in Period :
          new[<<r, l>>] = SlotOf(r, l)' /\ old[<<r, l>>] = SlotOf(r, l)
    BY DEF Slots
  <1>3. ASSUME NEW key \in Key, key # <<s, k>> PROVE new[key] = old[key]
    <2>1. PICK r \in Series, l \in Period : key = <<r, l>>
      OBVIOUS
    <2>2. SlotOf(r, l)' = SlotOf(r, l)
      BY <1>3, <2>1
    <2> QED
      BY <1>2, <2>1, <2>2
  <1>4. new[<<s, k>>] = SlotOf(s, k)' /\ <<s, k>> \in Key
    BY <1>2
  <1>5. new = [key \in Key |-> new[key]]
    OBVIOUS
  <1> HIDE DEF new, old, Key
  <1>6. new = [old EXCEPT ![<<s, k>>] = new[<<s, k>>]]
    BY <1>1, <1>3, <1>4, <1>5
  <1> QED
    BY <1>1, <1>4, <1>6 DEF old

(* The slots of other keys do not change with a row. *)
LEMMA OtherSlot ==
  ASSUME NEW r, NEW l, LiveAt(r, l)' = LiveAt(r, l),
         \A e \in LiveAt(r, l) : engagement'[e] = engagement[e]
  PROVE  SlotOf(r, l)' = SlotOf(r, l)
  BY DEF SlotOf

LEMMA InitLedger == Init => L!Init
  <1> SUFFICES ASSUME Init PROVE L!Init
    OBVIOUS
  <1>1. UniquePeriod
    BY InitKeyFacts DEF KeyFacts
  <1>2. Slots \in [Series \X Period -> L!SlotState]
    BY <1>1, SlotValue DEF Slots
  <1> QED
    BY <1>2 DEF L!Init, Slots

LEMMA LedgerStep ==
  ASSUME NEW s \in Series, NEW k \in Period, NEW v \in L!SlotState,
         Slots' = [Slots EXCEPT ![<<s, k>>] = v],
         v = "free" => SlotOf(s, k) # "free"
  PROVE  L!Next
  <1>1. Slots[<<s, k>>] = SlotOf(s, k)
    BY DEF Slots
  <1>2. CASE v = "free"
    <2>1. L!Free(s, k)
      BY <1>1, <1>2 DEF L!Free, Slots
    <2> QED
      BY <2>1 DEF L!Next
  <1>3. CASE v # "free"
    <2>1. v \in {"renewing", "ending"}
      BY <1>3 DEF L!SlotState
    <2>2. L!Fill(s, k, v) \/ L!SetRenewal(s, k, v)
      BY <1>1 DEF L!Fill, L!SetRenewal, Slots
    <2> QED
      BY <2>1, <2>2 DEF L!Next
  <1> QED
    BY <1>2, <1>3

LEMMA StepLedger == IInv /\ IInv' /\ [Next]_vars => L!Next \/ UNCHANGED Slots
  <1> SUFFICES ASSUME IInv, IInv', [Next]_vars PROVE L!Next \/ UNCHANGED Slots
    OBVIOUS
  <1> USE DEF IInv
  <1>1. ASSUME NEW p \in Process, CommitCreation(p) PROVE L!Next
    <2>1. work[p] \in Creation
      BY <1>1, CreationShape DEF CommitCreation
    <2>2. PICK c \in Creation : c = work[p]
      BY <2>1
    <2> DEFINE n == Len(engagement) + 1
               row == [series |-> c.series, period |-> c.period,
                       auto_renew |-> c.auto_renew, deleted |-> FALSE, tasks |-> c.tasks]
    <2>3. row \in Row
      BY DEF Creation, Row
    <2>4. engagement' = Append(engagement, row)
      BY <1>1, <2>2 DEF CommitCreation
    <2>5. PICK s \in Series, k \in Period : s = row.series /\ k = row.period
      BY DEF Creation
    <2>6. ~ row.deleted
      OBVIOUS
    <2> HIDE DEF row
    <2>7. /\ Ids' = Ids \cup {n} /\ n \notin Ids /\ engagement'[n] = row
          /\ \A e \in Ids : engagement'[e] = engagement[e]
      BY <2>3, <2>4, AppendedRow
    <2>8. PICK m \in Ids' : m \notin Ids /\ m = n
      BY <2>7
    <2> HIDE DEF n
    <2>9. ASSUME NEW r \in Series, NEW l \in Period, ~ (r = s /\ l = k)
          PROVE  SlotOf(r, l)' = SlotOf(r, l)
      <3>1. LiveAt(r, l)' = LiveAt(r, l)
        BY <2>5, <2>7, <2>9 DEF LiveAt
      <3>2. \A e \in LiveAt(r, l) : engagement'[e] = engagement[e]
        BY <2>7 DEF LiveAt
      <3> QED
        BY <3>1, <3>2, OtherSlot
    <2>10. SlotOf(s, k)' \in L!SlotState \ {"free"}
      <3>1. m \in LiveAt(s, k)'
        BY <2>5, <2>6, <2>7, <2>8 DEF LiveAt
      <3>2. LiveAt(s, k)' # {}
        BY <3>1
      <3> QED
        BY <3>2, SlotValueNext
    <2>11. Slots' = [Slots EXCEPT ![<<s, k>>] = SlotOf(s, k)']
      BY <2>9, SlotChange
    <2>12. PICK v \in L!SlotState \ {"free"} : v = SlotOf(s, k)'
      BY <2>10
    <2> QED
      BY <2>11, <2>12, LedgerStep
  <1>2. ASSUME NEW e \in Ids, RowUpdate(e) PROVE L!Next \/ UNCHANGED Slots
    <2>1. PICK row \in Row : UpdatesTo(e, row)
      BY <1>2, UpdatedRow
    <2>2. PICK s \in Series, k \in Period : s = row.series /\ k = row.period
      BY DEF Row
    <2>3. /\ Ids' = Ids /\ engagement'[e] = row
          /\ \A f \in Ids \ {e} : engagement'[f] = engagement[f]
          /\ engagement[e].series = s /\ engagement[e].period = k
      BY <2>1, <2>2, InPlace DEF UpdatesTo
    <2>4. ASSUME NEW r \in Series, NEW l \in Period, ~ (r = s /\ l = k)
          PROVE  SlotOf(r, l)' = SlotOf(r, l)
      <3>1. LiveAt(r, l)' = LiveAt(r, l)
        BY <2>2, <2>3, <2>4 DEF LiveAt
      <3>2. \A f \in LiveAt(r, l) : engagement'[f] = engagement[f]
        BY <2>3, <2>4 DEF LiveAt
      <3> QED
        BY <3>1, <3>2, OtherSlot
    <2>5. SlotOf(s, k)' \in L!SlotState
      BY SlotValueNext
    <2>6. Slots' = [Slots EXCEPT ![<<s, k>>] = SlotOf(s, k)']
      BY <2>4, SlotChange
    <2>7. PICK v \in L!SlotState : v = SlotOf(s, k)'
      BY <2>5
    <2>8. CASE v = "free" /\ SlotOf(s, k) = "free"
      <3>1. Slots[<<s, k>>] = SlotOf(s, k)'
        BY <2>7, <2>8 DEF Slots
      <3> QED
        BY <2>6, <3>1 DEF Slots
    <2>9. CASE ~ (v = "free" /\ SlotOf(s, k) = "free")
      BY <2>6, <2>7, <2>9, LedgerStep
    <2> QED
      BY <2>8, <2>9
  <1>3. CASE UNCHANGED engagement
    BY <1>3 DEF Slots, SlotOf, LiveAt, Ids
  <1> QED
    BY <1>1, <1>2, <1>3
       DEF Next, Step, vars, Request, GenerateNext, CreateEngagement, AdministrativeChange,
           RowUpdate, Insert, InsertConflicts, ReadTemplates, NoTemplates, CreationFails, LookUp,
           ReplyFailed, Crash, Fire, TakeDue, MissNight, Night, SetEnabled, ChangeTemplates

(* Jobs, buttons, requests and crashes change which engagement holds a       *)
(* period only as PeriodLedger allows: one slot at a time, never two in it.  *)
THEOREM LedgerRefined == Spec => LedgerSpec
  <1>1. IInv /\ IInv' /\ [Next]_vars => [L!Next]_Slots
    BY StepLedger
  <1>2. Spec => L!Init /\ [][L!Next]_Slots
    BY InitLedger, <1>1, Inductive, PTL DEF Spec
  <1>3. L!Spec <=> L!Init /\ [][L!Next]_Slots
    BY DEF L!Spec, Slots
  <1> QED
    BY <1>2, <1>3 DEF LedgerSpec
=============================================================================

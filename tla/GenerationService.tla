------------------------- MODULE GenerationService -------------------------
(***************************************************************************)
(* Recurring engagements: generation_service.py, the daily job that calls  *)
(* it, the generate-next button that calls it too, and the requests of     *)
(* engagement_service.py that create, delete, restore and end engagements  *)
(* around them.                                                            *)
(*                                                                         *)
(* A creation is one transaction: INSERT of the engagement (which takes    *)
(* its key in engagement_unique_period, or waits for whoever has it in     *)
(* flight), SELECT of the templates, COMMIT with the tasks.  The job opens *)
(* one session to list what is due and one more for each engagement.       *)
(*                                                                         *)
(* Days are counted from 0 and a period has PeriodDays of them; the        *)
(* calendar of core/periods.py is a module of its own, Periods.  The code  *)
(* keeps a recurrence in each engagement and never compares two; here all  *)
(* engagements of a series have the same.                                  *)
(***************************************************************************)
EXTENDS Naturals, Sequences, FiniteSets

CONSTANTS Series,      \* client and service type of a recurring engagement
          Template,    \* ids of task templates
          Session,     \* request sessions
          Job,         \* running schedulers, one per server process
          LeadDays,    \* settings.recurrence_lead_days
          PeriodDays,
          MaxDay,      \* bound: the calendar stands still here, nights go on
          MaxPeriod,   \* bound: no request creates a later period
          MaxChanges   \* bound: requests, administrative changes and crashes

ASSUME BoundAssumption ==
  /\ {LeadDays, PeriodDays, MaxDay, MaxPeriod, MaxChanges} \subseteq Nat
  /\ PeriodDays > 0
  /\ (MaxDay + LeadDays) \div PeriodDays <= MaxPeriod
  /\ Session \cap Job = {}

ASSUME SeriesAssumption == IsFiniteSet(Series)

VARIABLES
  engagement,   \* the engagement rows, in the order of their COMMITs
  templates,    \* the task_template rows of each series' service type
  enabled,      \* series whose client and service type are active
  today,
  fired,        \* has tonight's trigger of each scheduler gone?
  due,          \* what each job has listed and not yet taken
  work,         \* the creation each session or job is making
  ended,        \* series whose current period was last told not to renew
  changes

catalogue == <<templates, enabled>>
scheduler == <<today, fired, due>>
vars == <<engagement, templates, enabled, today, fired, due, work, ended, changes>>

Process == Session \cup Job
Period == 0 .. MaxPeriod

Row == [series : Series, period : Period, auto_renew : BOOLEAN, deleted : BOOLEAN,
        tasks : SUBSET Template]

FirstRow == [series : Series, period : {0}, auto_renew : {TRUE}, deleted : {FALSE},
             tasks : (SUBSET Template) \ {{}}]

Creation ==
  [kind : {"next", "create"}, phase : {"insert", "templates", "commit", "lookup"},
   series : Series, period : Period, auto_renew : BOOLEAN, tasks : SUBSET Template]

Idle == [kind |-> "idle"]
Failed(why) == [kind |-> "failed", why |-> why]   \* the exception of a 500 reply

Ids == 1 .. Len(engagement)

TypeOK ==
  /\ engagement \in Seq(Row)
  /\ templates \in [Series -> SUBSET Template]
  /\ enabled \in SUBSET Series
  /\ today \in 0 .. MaxDay
  /\ fired \in [Job -> BOOLEAN]
  /\ due \in [Job -> SUBSET Ids]
  /\ work \in [Process -> {Idle} \cup Creation
                            \cup {Failed(why) : why \in {"integrity", "no row"}}]
  /\ ended \in SUBSET Series
  /\ changes \in 0 .. MaxChanges

(***************************************************************************)
(* engagement_unique_period                                                *)
(***************************************************************************)

LiveAt(s, p) == {e \in Ids : /\ ~ engagement[e].deleted
                             /\ engagement[e].series = s
                             /\ engagement[e].period = p}

InFlight(q, s, p) ==
  /\ work[q].kind \in {"next", "create"}
  /\ work[q].phase \in {"templates", "commit"}
  /\ work[q].series = s
  /\ work[q].period = p

(* None of the others has the key in an uncommitted INSERT. *)
KeySettled(others, s, k) == \A q \in others : ~ InFlight(q, s, k)

Do(p, creation) == work' = [work EXCEPT ![p] = creation]

(* A request replies 500; the job logs the exception and goes on. *)
Raise(p, why) == Do(p, IF p \in Job THEN Idle ELSE Failed(why))

(***************************************************************************)
(* create_next_period and create_engagement, from the first flush on       *)
(***************************************************************************)

Insert(p) ==
  /\ work[p].kind \in {"next", "create"} /\ work[p].phase = "insert"
  /\ KeySettled(Process \ {p}, work[p].series, work[p].period)
  /\ LiveAt(work[p].series, work[p].period) = {}
  /\ Do(p, [work[p] EXCEPT !.phase = "templates"])
  /\ UNCHANGED <<engagement, catalogue, scheduler, ended, changes>>

(* IntegrityError on engagement_unique_period: create_engagement answers     *)
(* 409, create_next_period rolls back and looks for the row that is there.   *)
InsertConflicts(p) ==
  /\ work[p].kind \in {"next", "create"} /\ work[p].phase = "insert"
  /\ KeySettled(Process \ {p}, work[p].series, work[p].period)
  /\ LiveAt(work[p].series, work[p].period) # {}
  /\ IF work[p].kind = "next" THEN Do(p, [work[p] EXCEPT !.phase = "lookup"])
                              ELSE Do(p, Idle)
  /\ UNCHANGED <<engagement, catalogue, scheduler, ended, changes>>

TaskOfOneTemplate(s) == {CHOOSE t \in templates[s] : TRUE}

(* generate_tasks_for_engagement: one task per template. *)
TasksFor(s) == templates[s]

ReadTemplates(p) ==
  /\ work[p].kind \in {"next", "create"} /\ work[p].phase = "templates"
  /\ templates[work[p].series] # {}
  /\ Do(p, [work[p] EXCEPT !.phase = "commit", !.tasks = TasksFor(work[p].series)])
  /\ UNCHANGED <<engagement, catalogue, scheduler, ended, changes>>

LetJobGoOn(p) == UNCHANGED due

StopRunOnFailure(p) == due' = IF p \in Job THEN [due EXCEPT ![p] = {}] ELSE due

(* The `except Exception' of the job's loop: the rest of the run goes on. *)
AfterFailure(p) == LetJobGoOn(p)

(* ConflictError, which rolls the engagement back: "no work in it". *)
NoTemplates(p) ==
  /\ work[p].kind \in {"next", "create"} /\ work[p].phase = "templates"
  /\ templates[work[p].series] = {}
  /\ Do(p, Idle)
  /\ AfterFailure(p)
  /\ UNCHANGED <<engagement, catalogue, today, fired, ended, changes>>

TemplatesStillThere(p) == work[p].tasks \subseteq templates[work[p].series]

CommitCreation(p) ==
  /\ work[p].kind \in {"next", "create"} /\ work[p].phase = "commit"
  /\ TemplatesStillThere(p)
  /\ engagement' = Append(engagement,
       [series |-> work[p].series, period |-> work[p].period,
        auto_renew |-> work[p].auto_renew, deleted |-> FALSE, tasks |-> work[p].tasks])
  /\ ended' = IF p \in Job THEN ended ELSE ended \ {work[p].series}
  /\ Do(p, Idle)
  /\ UNCHANGED <<catalogue, scheduler, changes>>

(* A template was deleted since it was read: the tasks' foreign key fails,   *)
(* which is not the constraint the except clause knows.                      *)
CreationFails(p) ==
  /\ work[p].kind \in {"next", "create"} /\ work[p].phase = "commit"
  /\ ~ TemplatesStillThere(p)
  /\ Raise(p, "integrity")
  /\ AfterFailure(p)
  /\ UNCHANGED <<engagement, catalogue, today, fired, ended, changes>>

(* existing.scalar_one(): (False, the row), or NoResultFound if it has been  *)
(* deleted since the IntegrityError.                                         *)
LookUp(p) ==
  /\ work[p].kind = "next" /\ work[p].phase = "lookup"
  /\ IF LiveAt(work[p].series, work[p].period) # {}
     THEN Do(p, Idle) /\ UNCHANGED due
     ELSE Raise(p, "no row") /\ AfterFailure(p)
  /\ UNCHANGED <<engagement, catalogue, today, fired, ended, changes>>

ReplyFailed(p) ==
  /\ work[p].kind = "failed"
  /\ Do(p, Idle)
  /\ UNCHANGED <<engagement, catalogue, scheduler, ended, changes>>

Step(p) ==
  \/ Insert(p) \/ InsertConflicts(p) \/ ReadTemplates(p) \/ NoTemplates(p)
  \/ CommitCreation(p) \/ CreationFails(p) \/ LookUp(p) \/ ReplyFailed(p)

NextButOne(e) ==
  [kind |-> "next", phase |-> "insert", series |-> engagement[e].series,
   period |-> engagement[e].period + 2, auto_renew |-> engagement[e].auto_renew,
   tasks |-> {}]

(* What create_next_period copies from the engagement it was given, as the   *)
(* session reads it, whatever it has become since it was found due.          *)
NextOf(e) ==
  [kind |-> "next", phase |-> "insert", series |-> engagement[e].series,
   period |-> engagement[e].period + 1, auto_renew |-> engagement[e].auto_renew,
   tasks |-> {}]

(***************************************************************************)
(* run_daily_recurrence_job                                                *)
(***************************************************************************)

Starts(p) == p * PeriodDays
CurrentPeriod == today \div PeriodDays

Latest(e) ==
  /\ ~ engagement[e].deleted
  /\ \A f \in Ids : engagement[f].series = engagement[e].series /\ ~ engagement[f].deleted
                      => engagement[f].period <= engagement[e].period

(* find_series_due_for_generation *)
DueForGeneration ==
  {e \in Ids : /\ Latest(e)
               /\ engagement[e].auto_renew
               /\ engagement[e].series \in enabled
               /\ Starts(engagement[e].period + 1) <= today + LeadDays}

(* 02:00: max_instances = 1, and the list is made in a session of its own. *)
Fire(j) ==
  /\ ~ fired[j]
  /\ work[j] = Idle /\ due[j] = {}
  /\ fired' = [fired EXCEPT ![j] = TRUE]
  /\ due' = [due EXCEPT ![j] = DueForGeneration]
  /\ UNCHANGED <<engagement, catalogue, today, work, ended, changes>>

(* A new session for the next engagement of the list: session.get. *)
TakeDue(j) ==
  /\ work[j] = Idle
  /\ \E e \in due[j] :
       /\ due' = [due EXCEPT ![j] = @ \ {e}]
       /\ Do(j, NextOf(e))
  /\ UNCHANGED <<engagement, catalogue, today, fired, ended, changes>>

(* Another day.  A run still going when its trigger comes is not started a   *)
(* second time, so it has had its trigger.                                   *)
Night ==
  /\ today' = IF today < MaxDay THEN today + 1 ELSE today
  /\ fired' = [j \in Job |-> due[j] # {} \/ work[j] # Idle]
  /\ UNCHANGED <<engagement, catalogue, due, work, ended, changes>>

(* The server is down at 02:00; the job store is in memory. *)
MissNight(j) ==
  /\ ~ fired[j]
  /\ fired' = [fired EXCEPT ![j] = TRUE]
  /\ UNCHANGED <<engagement, catalogue, today, due, work, ended, changes>>

(***************************************************************************)
(* Requests and administrative changes                                     *)
(***************************************************************************)

Change == changes < MaxChanges /\ changes' = changes + 1

(* POST generate-next, once load_engagement has found the row. *)
GenerateNext(s, e) ==
  /\ Change
  /\ work[s] = Idle
  /\ ~ engagement[e].deleted
  /\ engagement[e].period < MaxPeriod   \* bound
  /\ Do(s, NextOf(e))
  /\ UNCHANGED <<engagement, catalogue, scheduler, ended>>

(* create_engagement of a recurring engagement, once _validate_references    *)
(* has passed.                                                               *)
CreateEngagement(s, series, period) ==
  /\ Change
  /\ work[s] = Idle
  /\ series \in enabled
  /\ Do(s, [kind |-> "create", phase |-> "insert", series |-> series,
            period |-> period, auto_renew |-> TRUE, tasks |-> {}])
  /\ UNCHANGED <<engagement, catalogue, scheduler, ended>>

SoftDelete(e) ==
  /\ Change
  /\ ~ engagement[e].deleted
  /\ engagement' = [engagement EXCEPT ![e].deleted = TRUE]
  /\ UNCHANGED <<catalogue, scheduler, work, ended>>

RestoreUnchecked(e) == TRUE

(* restore_engagement's UPDATE takes the key as an INSERT would, or fails. *)
RestoreAccepted(e) ==
  /\ KeySettled(Process, engagement[e].series, engagement[e].period)
  /\ LiveAt(engagement[e].series, engagement[e].period) = {}

Restore(e) ==
  /\ Change
  /\ engagement[e].deleted
  /\ RestoreAccepted(e)
  /\ engagement' = [engagement EXCEPT ![e].deleted = FALSE]
  /\ ended' = ended \ {engagement[e].series}
  /\ UNCHANGED <<catalogue, scheduler, work>>

(* set_auto_renew, and update_engagement's auto_renew: the row was live when *)
(* it was read, and may have been deleted since.                             *)
SetAutoRenew(e, on) ==
  /\ Change
  /\ engagement' = [engagement EXCEPT ![e].auto_renew = on]
  /\ ended' = IF on THEN ended \ {engagement[e].series}
              ELSE IF engagement[e].period = CurrentPeriod
              THEN ended \cup {engagement[e].series}
              ELSE ended
  /\ UNCHANGED <<catalogue, scheduler, work>>

(* update_client and update_service_type with is_active. *)
SetEnabled(s) ==
  /\ Change
  /\ enabled' = IF s \in enabled THEN enabled \ {s} ELSE enabled \cup {s}
  /\ UNCHANGED <<engagement, templates, scheduler, work, ended>>

(* add_task_template, delete_task_template *)
ChangeTemplates(s, t) ==
  /\ Change
  /\ templates' = [templates EXCEPT ![s] = IF t \in @ THEN @ \ {t} ELSE @ \cup {t}]
  /\ UNCHANGED <<engagement, enabled, scheduler, work, ended>>

(* The session or the process dies: the transaction is rolled back, the list forgotten. *)
Crash(p) ==
  /\ Change
  /\ work[p] # Idle \/ (p \in Job /\ due[p] # {})
  /\ Do(p, Idle)
  /\ due' = IF p \in Job THEN [due EXCEPT ![p] = {}] ELSE due
  /\ UNCHANGED <<engagement, catalogue, today, fired, ended>>

(***************************************************************************)
(* The specification: series just begun, each in its first period          *)
(***************************************************************************)

Init ==
  /\ engagement \in {e \in [1 .. Cardinality(Series) -> FirstRow] :
                       {e[i].series : i \in DOMAIN e} = Series}
  /\ templates \in [Series -> SUBSET Template]
  /\ enabled = Series
  /\ today = 0
  /\ fired = [j \in Job |-> FALSE]
  /\ due = [j \in Job |-> {}]
  /\ work = [p \in Process |-> Idle]
  /\ ended = {}
  /\ changes = 0

Request(s) ==
  \/ \E e \in Ids : GenerateNext(s, e)
  \/ \E series \in Series, period \in Period : CreateEngagement(s, series, period)

AdministrativeChange ==
  \/ \E e \in Ids : SoftDelete(e) \/ Restore(e)
  \/ \E e \in Ids, on \in BOOLEAN : SetAutoRenew(e, on)
  \/ \E s \in Series : SetEnabled(s)
  \/ \E s \in Series, t \in Template : ChangeTemplates(s, t)

Next ==
  \/ \E p \in Process : Step(p) \/ Crash(p)
  \/ \E j \in Job : Fire(j) \/ TakeDue(j) \/ MissNight(j)
  \/ \E s \in Session : Request(s)
  \/ AdministrativeChange
  \/ Night

Spec == Init /\ [][Next]_vars

(* PostgreSQL answers every statement and the event loop runs on; nights     *)
(* pass; the server is up at 02:00 on infinitely many of them.               *)
Fairness ==
  /\ \A p \in Process : WF_vars(Step(p))
  /\ \A j \in Job : WF_vars(TakeDue(j)) /\ SF_vars(Fire(j))
  /\ WF_vars(Night)

FairSpec == Spec /\ Fairness

-----------------------------------------------------------------------------
(* Properties *)

(* engagement_unique_period, kept by creations that took their key before    *)
(* anyone could see their row: a series never has two live engagements of    *)
(* one period, whichever jobs, buttons and restores race for it.             *)
UniquePeriod ==
  \A e, f \in Ids :
    /\ ~ engagement[e].deleted /\ ~ engagement[f].deleted
    /\ engagement[e].series = engagement[f].series
    /\ engagement[e].period = engagement[f].period
    => e = f

(* What UniquePeriod rests on: an uncommitted row was inserted where no live *)
(* row was, nobody else has its key in flight, and no restore and no commit  *)
(* has come in between; and a job lists nothing whose next period is beyond  *)
(* the bound.                                                                *)
KeysInFlightFree ==
  \A p \in Process, s \in Series, k \in Period : InFlight(p, s, k) => LiveAt(s, k) = {}

OneInFlight ==
  \A p, q \in Process, s \in Series, k \in Period :
    InFlight(p, s, k) /\ InFlight(q, s, k) => p = q

DueInRange == \A j \in Job : \A e \in due[j] : engagement[e].period < MaxPeriod

(* The inductive invariant: whatever is half done by jobs, buttons and       *)
(* requests, the keys they hold are theirs alone and free of live rows.      *)
IInv == TypeOK /\ UniquePeriod /\ KeysInFlightFree /\ OneInFlight /\ DueInRange

(* Seen as slots, every committed change is one of PeriodLedger's. *)
SlotOf(s, p) ==
  LET live == LiveAt(s, p)
  IN  IF live = {} THEN "free"
      ELSE IF Cardinality(live) > 1 THEN "shared"
      ELSE IF \A e \in live : engagement[e].auto_renew THEN "renewing"
      ELSE "ending"

L == INSTANCE PeriodLedger WITH
       slot <- [k \in Series \X Period |-> SlotOf(k[1], k[2])]

LedgerSpec == L!Spec

(* "One transaction per engagement, so one bad series cannot stop the rest": *)
(* a series does not stay due for ever unless it is itself the bad one.      *)
SeriesDue(s) == \E e \in DueForGeneration : engagement[e].series = s

NoSeriesLeftBehind ==
  \A s \in Series : []<>(~ SeriesDue(s) \/ templates[s] = {})

(* "Turning this off ends the series after the current period." *)
EndedSeriesNotDue ==
  [][\A j \in Job : \A e \in due'[j] \ due[j] : engagement[e].series \notin ended]_vars
=============================================================================

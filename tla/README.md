# A verification development of the task and engagement backend

The repository is a FastAPI service over PostgreSQL.  Firms keep *engagements*
(a client, a service type, for recurring ones a calendar period), each with
*tasks* that go through a review workflow; a nightly job creates the next
period of every recurring engagement.  The Python holds no state between
requests: all state is rows, every request is one database session and (with
one exception, the generation job) one transaction, and everything hard about
the program is in the order in which the statements of concurrent transactions
meet.  That is what the modules here model: one action per stretch of code
between two `await`s at which another session can run, over the *committed*
rows, with what a session has read and locked kept apart in the session.

Paths below are relative to `src/`.

## Inventory

| component | state | operations | hard part | correct when |
|---|---|---|---|---|
| task workflow and staffing (`app/services/task_service.py`) | `task` row: status, assignee, reviewer, deletion; `task_review` rows | `transition_task`, `update_assignment`, `soft_delete_task`, `restore_task`, `create_adhoc_task`, `update_deadline` | two writers lock the row, three do not; checks precede further awaits; a CHECK constraint seen by an autoflush | status, owner and review history agree; decisions are by those entitled; a deleted task does not move |
| engagement cascade (`engagement_service.py`: delete, restore) | `deleted_at` of an engagement and of its tasks | `soft_delete_engagement`, `restore_engagement` | no list of what was deleted, only an equal timestamp; no lock at the load | a restore brings back exactly what its delete took |
| engagement lifecycle (`engagement_service.py`) | `engagement` rows, unique per live client/service/period | create, update, auto-renew, delete, restore | the unique index decides at flush time | one live engagement per period; a series ends when told |
| recurring generation (`generation_service.py`, `app/jobs/`) | the job's list of due engagements; the scheduler in memory | `find_series_due_for_generation`, `create_next_period`, `run_recurrence_generation`, generate-next | two schedulers and a button; a list that grows stale; one bad series; missed nights | each period once, with its tasks; no good series left behind |
| period calendar (`app/core/periods.py`) | none | `_add_months`, `period_bounds`, `next_period` | month lengths, year ends, leap years | periods tile the calendar; each is created on its day |
| catalogue (`service_type_service.py`) | service types and task templates | CRUD, template hard delete | a delete in two statements against generation; sequences checked only at commit; waits for one another | no reference to a deleted template; sequences unique; somebody can always go on |
| clients, users | rows with `is_active` | CRUD | read by the others before their commit | |
| authentication (`auth_service.py`, `core/security.py`, `api/deps.py`) | tokens | login, refresh | the role in a token outlives a change; the row is read before the tokens are made | no role acts longer than an access lifetime after it was held; no tokens for the deactivated |
| audit trail (`alembic/versions/0002_audit_triggers.py`, `app/models/base.py`) | one audit row per INSERT, UPDATE, DELETE | triggers | `updated_by` left out of a flush that does not change it | an update names who made it (it does not always: `catalogue_audit`) |
| dashboard | none | nine counts | separate snapshots | |
| schema, routes' plumbing, configuration, seed | | | | |

Components call each other as Python functions inside one session: the routes
call one service each, generation calls `next_period`, engagement creation
calls `generate_tasks_for_engagement`, the job calls what the generate-next
route calls.  Components interact across requests only through rows.

## Modules

| module | models | built on |
|---|---|---|
| `TaskRules` | the workflow table, who may act, what staffing does to a status: pure definitions | |
| `TaskLifecycle` | the promise: each committed change of a task is one workflow, staffing or deletion step, as if alone | `TaskRules` |
| `TaskService` | the four writers of a task, statement by statement, with row locks, users deactivated, sessions dying | `TaskRules`; implements `TaskLifecycle` |
| `TaskHistory` | `TaskService` and a memory of who did the work | `TaskService` |
| `EngagementCascade` | an engagement's delete and restore, flush, select and commit apart, beside the task requests | |
| `PeriodLedger` | the promise of `engagement_unique_period`: a slot per series and period | |
| `GenerationService` | the job, the button and the requests that create, delete, restore and end engagements | implements `PeriodLedger` |
| `GenerationHistory` | `GenerationService` and a memory of the templates a series has had since an INSERT | `GenerationService` |
| `Periods` | `core/periods.py` on dates: pure definitions | |
| `RecurrenceCalendar` | one series, night by night, on the calendar | `Periods` |
| `TemplateLedger` | the promise of the catalogue: each template changes in one step, to a sequence that is free, and a generation copies what one look has shown | |
| `Catalogue` | the templates of a service type: add, change, delete, generate, and the audit rows | implements `TemplateLedger` |
| `AuthTokens` | logins, refreshes and the age of the role in a token | |
| `...Proofs` | the theorems about the module of that name | the module, `TLAPS` |
| `MC...` | small instances | the module, `TLC` |

### TaskService

The variables `status`, `assignee_id`, `reviewer_id`, `deleted` and `reviews`
are the committed columns and rows; `active` is `app_user.is_active`; `sess[s]`
is what the request served by session `s` has read and decided.
`LockForTransition` is `SELECT ... FOR UPDATE` with every check that follows it
without an await, `CommitTransition` the commit that writes the task and its
review together.  `update_assignment` has a step for each lookup of a user in
between, holding the lock: `CheckReviewer`, `CheckAssignee`, `AutoflushFails`,
`RefuseAssignment`, `CommitAssignment`.  `soft_delete_task` and `restore_task`
read without a lock (`LoadForDeletion`) and their UPDATE waits for the holder
(`CommitDeletion`).  UPDATEs write only columns the session changed
(`Flushed`).  A request refused in the statement that read the row is a
stuttering step.  `Crash` is a connection lost before the commit.  The lookup
of a user by `session.get` autoflushes what has been set so far.  A user named
both as reviewer and as assignee is looked up twice (`UsersToCheck`): the code
drops the object of the first lookup, and the identity map holds it weakly.

`reviews` is in the order of the commits.  The API lists them by `created_at`,
the `now()` of the transaction's start (`models/task.py:70`, `:107`); the two
orders differ when a request that began earlier has waited for the row's lock.
The properties speak of the order of the commits.

Left out: `update_deadline` (no rule reads `due_date`), `updated_by`, the
visibility filters, and the reload after the commit.  `RoleOf` is constant: it
is the role claim of an access token, which a request never looks up again.

### EngagementCascade

One engagement and its tasks.  `deleted_at` is a number, `Null` is 0, and
`clock` is the last `datetime.now()`; no two calls return the same number.
`reason` remembers which operation deleted a task (the code keeps it in
`deletion_reason`).  A cascade is `Load...` (plain SELECT and the ORM
assignments), `Flush...` (the UPDATE of the engagement, sent by the autoflush
of a delete and by the explicit flush of a restore; it takes the row lock),
`Select...` (the tasks) and `Commit...`.  Nothing in the code keeps two cascades
of an engagement apart; the history variable `overlapped` remembers whether two
have been in flight at once.  `TakeSlot` and `FreeSlot` stand for
another engagement in the same period.  Task rows are written at the commit, by
primary key.  `IndividualDeletionKept` is about what a cascade selects, not
about what it overwrites at its commit because it came after the SELECT; the
docstring it quotes speaks of tasks deleted before the call.

### GenerationService

`engagement` lists the rows in the order of their commits.  A creation goes
through `Insert` (or `InsertConflicts`), `ReadTemplates` (or `NoTemplates`),
`CommitCreation` (or `CreationFails`, when a template it read is gone) and, for
`create_next_period`, `LookUp` after a conflict.  An INSERT waits while
somebody else's uncommitted row has its key (`KeySettled`).  `Fire` is the
02:00 trigger and the query for what is due, `TakeDue` the loop with a session
of its own for each entry, `Night` another day, `MissNight` a server that is
down.  Two `Job`s are two processes, each with a scheduler.  Days are numbers
and a period has `PeriodDays` of them, for all the engagements of a series.  The
code is more liberal: `recurrence` is a field of each engagement
(`schemas/engagement.py:39`) and `engagement_unique_period` compares
`period_start` alone, so that engagements of different recurrences, whose
periods may even overlap, can stand under one client and service type.  Such
mixed series are not represented here, nor in `RecurrenceCalendar`, which
follows one frequency.  Each series has a service type of its
own.  One-time engagements have no period and play no part; changes of manager
do not affect generation except through the column they copy.

`ChangeTemplates` adds or deletes a template in one step here; `Catalogue` has
the statements of the two.  It may use the id of a deleted template again, which
the code does not and which only adds behaviours.

`GenerationHistory` remembers in `seen` what the templates of a series have been
since the INSERT of the engagement being created, one set for each moment.  With
it `CreatedWithItsWork` can say which tasks an engagement must have: those of
*all* the templates of one such moment, the SELECT's.  A template added later
than that, before the commit, has no task, and the property does not pretend
otherwise.

### Periods and RecurrenceCalendar

Dates are records and the arithmetic is that of the code; `LastDayOfMonth`,
comparison and `PlusDays` are Python's, modelled by what they do.  A night with
a run tests `Due` and creates at most one period.

### Catalogue

`template` holds the `task_template` rows of one service type, as their
sequence and `updated_by`; `copied` and `referenced` are what generations have
committed: the sequences copied onto an engagement's tasks, and the tasks whose
`task_template_id` is not null; `changed_by` is the actor in each template's
latest audit row.  None of the requests locks what it reads.  A request is
`Load...` (its SELECT and the ORM assignments), `Send...` (the statement that
the flush sends, with the row lock it takes) and `Commit...`; a delete has
`NullReferences` before its DELETE.  The properties are about what PostgreSQL
makes of the rest, so its rules are spelled out:

- `task_template_sequence_unique` is `DEFERRABLE INITIALLY DEFERRED`.  A
  statement whose index entry meets another one goes through, and the COMMIT
  looks again (`LooksAgain` sets `late`); there it waits for whoever has an
  entry with the sequence on its way in or out (`Waits`), fails if a settled
  row has it (`RefuseSequence`) and, in a circle of waits, one of the circle is
  aborted (`DeadlockVictim`).  Who met nothing commits without looking.
- The foreign key of `task.task_template_id`: an INSERT of tasks locks the
  template rows in place until its commit (`KeepsInPlace`), waits for those who
  change their keys (`KeysSettled`) and fails if one is gone; a DELETE looks
  for tasks that still refer to the row (`StillReferenced`).
- The UPDATE that nulls references locks the tasks it finds: a second delete of
  the template waits for it if it has found any (`TasksFree`).
- An UPDATE that finds no row raises (`UpdateFindsNoRow`); a DELETE that finds
  none only logs.

`Flushed` leaves out a column that is as it was loaded, `updated_by` among
them, and `Audit` is the trigger `record_audit`: it takes the actor from the
row.  Titles and offsets are not modelled; an update always has one of them to
write, so that its UPDATE is always sent.  Ids are never used twice.

`TemplateLedger` is what a caller may believe: templates that change in one
step, and generations that take one look.  A row shows as its sequence, a
generation for an engagement as what it has read (`Seen`).  A commit is a step
of the ledger, and a statement, a wait or a lost connection none, or a
generation giving up; the second of two deletes of one template shows nowhere.

### AuthTokens

`role` and `active` are the `app_user` row, `access` and `refresh` the tokens
issued so far, `reading` the rows that a login or refresh has read and not yet
answered: `authenticate_user` and `refresh_access_token` read and check
(`Read`), `issue_tokens` makes the tokens out of what was read (`IssueTokens`),
and `update_user` may commit in between.  `Accepted` is what
`get_current_user` lets in, without a look at the row.  `held` remembers when a
user last was active in a role; no code keeps it.  Time is counted in ticks,
and a token is good up to and including its `exp`, as python-jose has it.
`Latency` is an assumption of the model: the longest time between the SELECT
of the row and the tokens, which the code does not bound (the wait for the
pool, for the event loop and for bcrypt are in it).

## Runs

Bounds are constants of the modules and appear as guards: `MaxReviews` (review
rows), `MaxClock` (timestamps), `MaxChanges` (requests, administrative changes
and crashes), `MaxDay`/`MaxPeriod`, `MaxDays`, `MaxMissed`, `Togglable` (users
who are (de)activated).

| run | instance | shows |
|---|---|---|
| `task_safety` | 1 task, 2 sessions, one user per role, 2 reviews, fairness | types, `StaffingAgrees`, `LedgerAgrees`, the induction invariant, `DecidedByAuthority`, `DeletedIsFrozen`, refinement of `TaskLifecycle`, `RequestsEnd` |
| `task_constraints` | 1 session, 1 review | findings: swapping the assignee into the reviewer's place is a 500, and so is a blank comment |
| `history_own_work` | 1 session | finding: own work approved after a reassignment |
| `cascade_safety` | 2 tasks, 3 sessions, 5 timestamps | `CascadeAgreesAlone`, `IndividualDeletionKept`, `SlotUnique`, the induction invariant |
| `cascade_double_delete` | 1 task, 2 sessions, 2 timestamps | finding: two deletes part the markers (`CascadeAgrees`) |
| `generation_race` (of `GenerationHistory`) | 1 series, 2 templates, 2 jobs, 2 sessions, 3 changes | types, `UniquePeriod`, refinement of `PeriodLedger`, `CreatedWithItsWork`, the induction invariant |
| `generation_liveness` | 2 series, 1 job, 1 session, 2 changes, fairness | `NoSeriesLeftBehind` |
| `generation_ended_series` | 1 series, periods of 2 days, 1 day of lead | finding: a series told to end goes on |
| `calendar_dates` | 450 nights from 15 January 2023 and 2099, 3 frequencies, up to 40 nights missed | `PeriodsTile`, `OnTime`, `NeverEarly`, the induction invariant |
| `catalogue_templates` | 2 templates, 2 sequences, 1 engagement, 2 admins, 3 sessions | `NoDanglingReference`, `SequenceUnique`, `SomeoneGoesOn`, refinement of `TemplateLedger`, the induction invariant |
| `catalogue_audit` | 1 template, 2 admins, 2 sessions | finding: an update is audited under another admin's name (`AuditNamesActor`) |
| `auth_staleness` | 1 user, 2 roles, access tokens of 2 ticks, refresh tokens of 3, latency 1, 6 ticks | `BoundedStaleness`, `OnlyRecentlyActive`, the induction invariant |

Why the bounds suffice.  Rows of different tasks, and of different
engagements, meet in no rule, so one of each shows every interaction; a lock
has a holder and a waiter, so two sessions; each role is represented once, and
what roles decide is decided by equality with the assignee or the reviewer.
Two review rows contain an approval and its reopening.  Five timestamps allow
two cascades, one after the other or overlapping, and single deletions between
them; three sessions, two cascades beside a request for a task.
`CascadeAgreesAlone` says of every behaviour what holds until two cascades
overlap, and `CascadeAgrees`, of which the finding's run shows the violation,
is the same without that condition.  Two requests
racing for a key and a third deleting the winner are three changes; so are
adding a template, deleting another and creating an engagement meanwhile.  The calendar's window has a leap year's February
(2024), the February of a year divisible by 4 that has none (2100), and two
year ends.  Two templates can exchange their sequences, and a third session is there to
delete or to generate meanwhile; a second engagement of the service type would
only repeat what the first one shows, since generations do not block one
another.  Six ticks hold a login, a refresh near the end of its token, a
demotion, a return and the end of the last access token.  The theorems below do
without these bounds.

Deadlock is checked except where a bound on the clock, on nights or on ids
makes the model stop.  In `catalogue_templates` the deadlock that matters is the
invariant `SomeoneGoesOn`: no circle of requests wait for one another.  One kind
of circle does arise, that of commits which exchange sequences, and the property
does not catch it: it is assumed that PostgreSQL's deadlock check ends one of
them (`DeadlockVictim`), so they count as able to go on (`InCycle`).  What is
shown is that statements and commits have no other.  The property says
`Ready`, whose disjuncts are the guards of the actions `Send` and `End` by the
names they have there, and not ENABLED, which could not be proved; on this
instance the two are the same.

### Fairness

`TaskService!FairSpec`: weak fairness of every step of a session that has
taken a request (its connection answers, the event loop returns to it) and
strong fairness of the waiting UPDATE of a delete or restore, because PostgreSQL
queues the waiters of a row.  Nothing makes a request arrive.  A transition or
an assignment whose `SELECT ... FOR UPDATE` waits has not changed anything yet
and is still idle here, so that `RequestsEnd` says that the lock it waits for is
let go, and not that it gets it.
`GenerationService!FairSpec`: weak fairness of the steps of a creation, of the
job's loop and of the passing of nights; strong fairness of `Fire`: the server
is up at 02:00 on infinitely many nights, though on no particular one.

### What the findings say

Each finding run checks one statement quoted from a docstring or from
`Technical Design Note.md`, and TLC's trace is a schedule of the code.

- `transition_task` and `update_assignment` let an `IntegrityError` out
  (`task_constraints`).  TLC prints the shorter schedule, the swap of the
  reviewer: `LockForAssignment`, `CheckReviewer`, `AutoflushFails`.  The blank
  comment is another schedule of the same instance: `request-changes` on a
  submitted task with a comment of blanks, then `TransitionFails`.
- *nobody approves their own work* holds of the assignee of the moment only
  (`history_own_work`).
- `soft_delete_engagement` does not lock the engagement it loads
  (`cascade_double_delete`).
- `auto_renew` is a column of one engagement, copied at generation: within the
  lead time the next one has already copied it (`generation_ended_series`).
  (`manager_id` is copied by the same statement, so a change of manager reaches
  the later periods under the same condition; it is not modelled.)
- `updated_by` is written by the UPDATE only if it differs from what was loaded
  (`catalogue_audit`).  An admin who was the last to change a template loads it;
  a colleague changes it and commits; the admin's own change then leaves
  `updated_by` out, and the trigger audits it as the colleague's.

The models have further behaviours for which there is no run of their own, and
that somebody who changes this code should know:

- `create_next_period` may not find the row it conflicted with, deleted in the
  meantime: `scalar_one` raises (`LookUp`) and generate-next answers 500.
- `update_task_template` has no `except`: a sequence that is taken
  (`RefuseSequence`) is an untranslated `IntegrityError` like those of
  `task_constraints`, and a template deleted meanwhile (`UpdateFindsNoRow`) and
  the loser of two exchanges of sequences (`DeadlockVictim`) are 500s too.
- `delete_task_template` is blocked by the foreign key after all, "rather than
  being blocked" (`service_type_service.py:158`) notwithstanding, when a
  generation commits between its two statements (`DeleteBlocked`); trying again
  succeeds.
- The engagement's delete and restore write the tasks they have selected by
  primary key, without a lock.  A task deleted on its own between a delete's
  SELECT and COMMIT is overwritten and comes back with the engagement, and one
  deleted between a restore's SELECT and COMMIT comes back at once.
- A template added while an engagement is being created, after its SELECT, has
  no task in that engagement (`GenerationHistory`).
- The audit row of a deleted template names its last editor, because the
  trigger has nothing but `OLD.updated_by`.

## Proofs

Seven modules hold theorems.  Their constants - users, tasks, sessions, jobs,
series, templates, lifetimes, bounds - are arbitrary sets and numbers under the
assumptions named.  In each but
`GenerationHistoryProofs`, the invariant `IInv` is checked by TLC in the module's run and proved inductive with one lemma or step
per action; `Inductive` is `Spec => []IInv`, the other invariants follow from
it, and the action properties and refinements are read off the same split into
actions under it.

`TaskServiceProofs`, from `UserAssumption`, `SessionAssumption` and
`BoundAssumption`: `TypeCorrect`, `Inductive`, `StaffingSafe`, `LedgerSafe`,
`DeletedFrozen`, `ReviewsAuthorised`, `Refinement` (`Spec => LifecycleSpec`).
`StaffingAgrees` and `LedgerAgrees` are not inductive: a commit writes what was
decided when the row was read.  `IInv` adds what connects the two moments: a
row's lock has one holder (`OneHolder`), a transition in flight is still
allowed (`HeldTransitionIsAllowed`), and an assignment in flight holds the row
as it is (`HeldRowIsCurrent`).  Deletes and restores take no lock at their
read, so they have no such fact; they keep the others' facts because their
UPDATE waits for the holder, and they touch no column the rules of staffing and
review relate.

`EngagementCascadeProofs`, of every behaviour, overlapping cascades included:
`OverlapInductive`, `TypeCorrect`, `Inductive`, `CascadeSafe`, `SlotSafe`,
`IndividualKept`.  `IInv` has two layers.  `OverlapInv` needs nothing of how
cascades overlap: a restore that has flushed holds the slot (`RestoresHoldSlot`),
and a timestamp that a cascade has written, holds or looks for was never given
to a task deleted individually (`CascadeStamp`, `TaskStamp`, `StampsApart`),
from which `SlotSafe` and `IndividualKept` follow even while the markers are
apart.  `AloneInv` holds until two cascades overlap: the markers agree at the
commit of a delete because its timestamp was in no row and in no other request
(`StampsFresh`), and at that of a restore because what it selected is all that
its delete has left (`CascadeIsCurrent`).

`GenerationServiceProofs`, from `BoundAssumption` and `SeriesAssumption`:
`TypeCorrect`, `Inductive`, `UniquePeriodHolds`, `LedgerRefined`.
`UniquePeriod` alone does not survive a commit; it does with the key of every uncommitted row free (`KeysInFlightFree`) and of one session
(`OneInFlight`), which the wait in front of an INSERT establishes.  The
refinement needs `DueInRange` too: what the job's list names are rows.

`GenerationHistoryProofs`, from the same: `CreatedComplete`.  It rests on
`ReadWasSeen`, that what a creation has read is one of the values its series'
templates have had since its INSERT, and never none.

`CatalogueProofs`, from `MarksAssumption` and `IdleAssumption`: `Inductive`,
`ReferencesSafe`, `SequencesSafe`, `NobodyStuck`, `LedgerRefined`
(`Spec => LedgerSpec`).  `OneWriter` and `DeletesClear` say what the row
locks give: a row has one writer, and a DELETE that has gone through has nulled
every reference while nobody is about to add one.  `ClaimsSettled` is the heart
of the deferred constraint: who commits without looking again was first to
enter its sequence, and every later claim looks.  `NobodyStuck` is an argument
about the waits: were nobody ready, every commit that looks again would wait
for another such commit, so that all of them would be a circle, one of which
the deadlock check ends; hence there is none, and then no lock is held that a
statement could wait for.  `LedgerRefined` maps `CommitAdd`, `CommitUpdate`,
`CommitDelete` and `CommitTasks` to the ledger's steps by the facts that the
invariant gives at a commit - `SequenceFree`, that nobody has the sequence;
`DeletesClear`, that every reference has been nulled and that what was read is
still there - and `ReadTemplates` to `Look`, since an engagement is generated
for by one session.

`AuthTokensProofs`, from `TimeAssumption`: `Inductive`, `StalenessBounded`,
`RefreshOnlyRecentlyActive`.  `BoundedStaleness` speaks of the present only;
`TokensFresh` bounds a token's end by the last time its role was held, and
`RowsFresh` does the same for rows still on their way to a token.

`RecurrenceCalendarProofs`, from `CalendarAssumption`, which lets a series begin
in any year: `Inductive`, `TypeCorrect`, `PeriodsTileSafe`, `NeverEarlySafe`,
`OnTimeSafe`; and, of the functions of `core/periods.py` for any date,
`AddMonthsSafe`, `PeriodHoldsItsDay`, `PeriodsApart`.
`PeriodShape` says what a period that begins in a month of its frequency is,
whatever the lengths of its months, and `CutoffAdvances` that tomorrow's cutoff
is not before today's and at most a month after it.  `IInv` says that the
latest period is one of those (`InPeriod`) and that a series which was up to
date yesterday owes no more than the one period that a run creates
(`CaughtUp`), without which `OnTime` has no reason to hold.

Every invariant and every action property that a passing run checks, and each
of the three refinements, is stated by a theorem.  Only model-checked:
`RequestsEnd` and `NoSeriesLeftBehind` (liveness under
fairness), which the proof system does not reach; and, being refutations, the
findings.

## Not modelled

- The dashboard, the list queries and the visibility filters: they read, each
  SELECT with a snapshot of its own, and the documents promise nothing about
  reads taken together.
- `update_deadline`: one column that no rule reads, without a lock.
- Series of mixed recurrences, and generate-next pressed for a period that the
  lead time has not reached as far as `RecurrenceCalendar` is concerned: its
  `NeverEarly` speaks of the job.
- One-time engagements, which have no period, and the change of an
  engagement's manager, which generation only copies.
- Creating and renaming clients, users and service types: one statement each,
  and only the uniqueness of a name to get wrong.
- Password hashing, signatures, the `_audit` tables' contents but for the
  actor, migrations as such, health check, configuration, seed data.

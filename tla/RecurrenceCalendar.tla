------------------------ MODULE RecurrenceCalendar -------------------------
(***************************************************************************)
(* One recurring series day by day, on the real calendar: the nightly run  *)
(* of generation_service looks at the latest period of the series and      *)
(* creates the one after it when that is due.  GenerationService has the   *)
(* interleavings of a run with everything else; here a run is one step and *)
(* the dates are the point.                                                *)
(***************************************************************************)
EXTENDS Periods

CONSTANTS StartYears,   \* years whose 15 January the series begins on
          LeadDays,     \* settings.recurrence_lead_days
          MaxDays,      \* bound: nights walked
          MaxMissed     \* bound: nights missed before the series has caught up

ASSUME CalendarAssumption ==
  /\ StartYears \subseteq Nat
  /\ LeadDays \in 0 .. 28
  /\ {MaxDays, MaxMissed} \subseteq Nat

VARIABLES today,
          nights,       \* walked so far
          frequency,    \* engagement.recurrence
          latest,       \* period_start and period_end of the latest engagement
          missed        \* nights missed since the series was last up to date

vars == <<today, nights, frequency, latest, missed>>

(* CREATE TABLE engagement: engagement_period_ordered, and what date() wants. *)
RowAccepted(period) ==
  /\ IsDate(period.start) /\ IsDate(period.end)
  /\ DateKey(period.start) < DateKey(period.end)

TypeOK ==
  /\ IsDate(today)
  /\ nights \in 0 .. MaxDays
  /\ frequency \in Frequency
  /\ RowAccepted(latest)
  /\ missed \in 0 .. MaxMissed

Cutoff == PlusDays(today, LeadDays)

DueStrictlyBefore(period_start) ==
  DateKey(NextPeriod(frequency, period_start).start) < DateKey(Cutoff)

DueByOwnStart(period_start) == DateKey(period_start) <= DateKey(Cutoff)

(* find_series_due_for_generation: following_start <= cutoff *)
Due(period_start) ==
  DateKey(NextPeriod(frequency, period_start).start) <= DateKey(Cutoff)

NextDay ==
  /\ nights < MaxDays
  /\ nights' = nights + 1
  /\ today' = PlusDays(today, 1)

(* create_engagement on a start_date of today: the period it falls in. *)
Init ==
  /\ today \in {Date(year, 1, 15) : year \in StartYears}
  /\ nights = 0
  /\ frequency \in Frequency
  /\ latest = PeriodBounds(frequency, today)
  /\ missed = 0

(* The job runs, creates at most one period of the series, and another day   *)
(* comes.                                                                    *)
NightWithRun ==
  /\ NextDay
  /\ latest' = IF Due(latest.start) THEN NextPeriod(frequency, latest.start) ELSE latest
  /\ missed' = IF Due(latest'.start) THEN missed ELSE 0
  /\ UNCHANGED frequency

NightMissed ==
  /\ NextDay
  /\ missed < MaxMissed
  /\ missed' = missed + 1
  /\ UNCHANGED <<frequency, latest>>

Next == NightWithRun \/ NightMissed

Spec == Init /\ [][Next]_vars

-----------------------------------------------------------------------------
(* Properties *)

Day == [year : Nat, month : 1 .. 12, day : 1 .. 31]

(* The periods that next_period strings together are the calendar's: each is *)
(* the period_bounds of its first and of its last day, the one before it     *)
(* ended the day before it began, and no day falls between two of them.      *)
PeriodsTile ==
  LET following == NextPeriod(frequency, latest.start)
  IN  /\ PeriodBounds(frequency, latest.start) = latest
      /\ PeriodBounds(frequency, latest.end) = latest
      /\ PlusDays(latest.end, 1) = following.start
      /\ MonthNumber(following.start) = MonthNumber(latest.start) + MONTHS_PER_PERIOD[frequency]

(* A run that leaves the series up to date, as every run does unless nights  *)
(* were missed, leaves it in the period of the day LeadDays ahead: nothing   *)
(* late, nothing early.                                                      *)
OnTime == [][missed' = 0 => latest' = PeriodBounds(frequency, Cutoff)]_vars

(* However many nights were missed, no period is created before its turn.    *)
NeverEarly == DateKey(latest.start) <= DateKey(Cutoff)

(* The latest period is one that period_bounds gives and not ahead of its    *)
(* time.                                                                     *)
InPeriod ==
  /\ TypeOK /\ NeverEarly
  /\ today \in Day
  /\ latest.start \in Day
  /\ latest = PeriodBounds(frequency, latest.start)

(* A series that was up to date yesterday owes no more than the one period   *)
(* that a run creates.                                                       *)
CaughtUp == missed = 0 => ~ Due(NextPeriod(frequency, latest.start).start)

(* The inductive invariant of the nightly run: it finds a period, and not    *)
(* more than one is owed unless nights were missed.                          *)
IInv == InPeriod /\ CaughtUp
=============================================================================

------------------------------ MODULE Periods ------------------------------
(***************************************************************************)
(* core/periods.py: the calendar of recurring engagements.  A date is a    *)
(* record; what Python's calendar and datetime do with one is external.    *)
(***************************************************************************)
EXTENDS Integers

(* calendar.monthrange(year, month)[1] *)
IsLeapYear(year) == year % 4 = 0 /\ (year % 100 # 0 \/ year % 400 = 0)

LastDayOfMonth(year, month) ==
  CASE month \in {4, 6, 9, 11} -> 30
    [] month = 2 -> IF IsLeapYear(year) THEN 29 ELSE 28
    [] OTHER -> 31

(* date(year, month, day), which raises unless IsDate of the result. *)
Date(year, month, day) == [year |-> year, month |-> month, day |-> day]

IsDate(d) == d.month \in 1 .. 12 /\ d.day \in 1 .. LastDayOfMonth(d.year, d.month)

(* Dates compare as these numbers do. *)
MonthNumber(d) == (d.year * 12) + d.month
DateKey(d) == (MonthNumber(d) * 32) + d.day

(* date + timedelta(days), for no more days than a month is sure to have. *)
PlusDays(d, days) ==
  LET last == LastDayOfMonth(d.year, d.month)
  IN  IF d.day + days <= last THEN [d EXCEPT !.day = @ + days]
      ELSE IF d.month < 12 THEN Date(d.year, d.month + 1, d.day + days - last)
      ELSE Date(d.year + 1, 1, d.day + days - last)

Frequency == {"monthly", "quarterly", "annual"}

MONTHS_PER_PERIOD == [monthly |-> 1, quarterly |-> 3, annual |-> 12]

AddMonthsToYear(any_date, months) ==   \* December rolls over into month 0
  LET total == any_date.month + months
  IN  Date(any_date.year + total \div 12, total % 12, any_date.day)

AddMonths(any_date, months) ==
  LET total == any_date.month - 1 + months
      year  == any_date.year + total \div 12
      month == (total % 12) + 1
      last  == LastDayOfMonth(year, month)
  IN  Date(year, month, IF any_date.day < last THEN any_date.day ELSE last)

BoundsOfTwentyEightDays(frequency, any_date) ==
  LET m     == MONTHS_PER_PERIOD[frequency]
      start == Date(any_date.year, (((any_date.month - 1) \div m) * m) + 1, 1)
  IN  [start |-> start, end |-> [AddMonths(start, m - 1) EXCEPT !.day = 28]]

PeriodBounds(frequency, any_date) ==
  LET m         == MONTHS_PER_PERIOD[frequency]
      start     == Date(any_date.year, (((any_date.month - 1) \div m) * m) + 1, 1)
      end_month == AddMonths(start, m - 1)
  IN  [start |-> start,
       end   |-> [end_month EXCEPT !.day = LastDayOfMonth(end_month.year, end_month.month)]]

NextPeriod(frequency, period_start) ==
  PeriodBounds(frequency, AddMonths(period_start, MONTHS_PER_PERIOD[frequency]))
=============================================================================

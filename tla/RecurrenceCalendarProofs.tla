---------------------- MODULE RecurrenceCalendarProofs ----------------------
(***************************************************************************)
(* Theorems about the calendar of RecurrenceCalendar and Periods, for any  *)
(* year to start in, any lead time of at most 28 days and any bounds.      *)
(***************************************************************************)
EXTENDS RecurrenceCalendar, TLAPS

-----------------------------------------------------------------------------
(* Months *)

LEMMA LastDay ==
  ASSUME NEW year, NEW month \in 1 .. 12
  PROVE  /\ LastDayOfMonth(year, month) \in 28 .. 31
         /\ month \in {1, 12} => LastDayOfMonth(year, month) = 31
  BY DEF LastDayOfMonth

StartMonth(f, month) == (((month - 1) \div MONTHS_PER_PERIOD[f]) * MONTHS_PER_PERIOD[f]) + 1

LEMMA Months ==
  ASSUME NEW f \in Frequency
  PROVE  \/ f = "monthly" /\ MONTHS_PER_PERIOD[f] = 1
         \/ f = "quarterly" /\ MONTHS_PER_PERIOD[f] = 3
         \/ f = "annual" /\ MONTHS_PER_PERIOD[f] = 12
  BY DEF Frequency, MONTHS_PER_PERIOD

(* A period's months are those that start it in the same month. *)
LEMMA StartMonths ==
  ASSUME NEW f \in Frequency, NEW month \in 1 .. 12
  PROVE  LET m == MONTHS_PER_PERIOD[f]
             k == StartMonth(f, month)
         IN  /\ m \in 1 .. 12 /\ k \in 1 .. 12
             /\ k <= month /\ month <= k + m - 1 /\ k + m - 1 <= 12
             /\ \A j \in k .. k + m - 1 : StartMonth(f, j) = k
             /\ k + m <= 12 => StartMonth(f, k + m) = k + m
             /\ k + m > 12 => k + m = 13
             /\ StartMonth(f, 1) = 1
  <1>1. CASE MONTHS_PER_PERIOD[f] = 1
    BY <1>1 DEF StartMonth
  <1>2. CASE MONTHS_PER_PERIOD[f] = 3
    BY <1>2 DEF StartMonth
  <1>3. CASE MONTHS_PER_PERIOD[f] = 12
    BY <1>3 DEF StartMonth
  <1> QED
    BY <1>1, <1>2, <1>3, Months

-----------------------------------------------------------------------------
(* Periods *)

(* The period of f that starts in a month. *)
PeriodFrom(f, year, month) ==
  LET end == month + MONTHS_PER_PERIOD[f] - 1
  IN  [start |-> Date(year, month, 1), end |-> Date(year, end, LastDayOfMonth(year, end))]

LEMMA AddingMonths ==
  ASSUME NEW year \in Nat, NEW month \in 1 .. 12, NEW months \in 0 .. 12
  PROVE  AddMonths(Date(year, month, 1), months) =
           IF month + months <= 12 THEN Date(year, month + months, 1)
           ELSE Date(year + 1, month + months - 12, 1)
  <1> DEFINE total == month - 1 + months
  <1>1. total \in 0 .. 23
    OBVIOUS
  <1>2. /\ total <= 11 => total \div 12 = 0 /\ total % 12 = total
        /\ total > 11 => total \div 12 = 1 /\ total % 12 = total - 12
    BY <1>1
  <1>3. AddMonths(Date(year, month, 1), months) =
          Date(year + total \div 12, (total % 12) + 1, 1)
    <2>1. (total % 12) + 1 \in 1 .. 12
      BY <1>1
    <2>2. LastDayOfMonth(year + total \div 12, (total % 12) + 1) \in 28 .. 31
      BY <2>1, LastDay
    <2> QED
      BY <2>2 DEF AddMonths, Date
  <1> QED
    BY <1>1, <1>2, <1>3

LEMMA Bounds ==
  ASSUME NEW f \in Frequency, NEW d \in Day
  PROVE  PeriodBounds(f, d) = PeriodFrom(f, d.year, StartMonth(f, d.month))
  <1> DEFINE m == MONTHS_PER_PERIOD[f]
             k == StartMonth(f, d.month)
  <1>1. d.year \in Nat /\ d.month \in 1 .. 12
    BY DEF Day
  <1>2. m \in 1 .. 12 /\ k \in 1 .. 12 /\ k + m - 1 <= 12
    BY <1>1, StartMonths
  <1>3. AddMonths(Date(d.year, k, 1), m - 1) = Date(d.year, k + m - 1, 1)
    BY <1>1, <1>2, AddingMonths
  <1>4. PeriodBounds(f, d) =
          LET end_month == AddMonths(Date(d.year, k, 1), m - 1)
          IN  [start |-> Date(d.year, k, 1),
               end   |-> [end_month EXCEPT
                            !.day = LastDayOfMonth(end_month.year, end_month.month)]]
    BY DEF PeriodBounds, StartMonth
  <1> HIDE DEF m, k
  <1>5. PeriodBounds(f, d) =
          [start |-> Date(d.year, k, 1),
           end   |-> Date(d.year, k + m - 1, LastDayOfMonth(d.year, k + m - 1))]
    BY <1>3, <1>4 DEF Date
  <1> QED
    BY <1>5 DEF PeriodFrom, m, k

(* The months of a period, and the period after it. *)
LEMMA PeriodShape ==
  ASSUME NEW f \in Frequency, NEW y \in Nat, NEW k \in 1 .. 12, StartMonth(f, k) = k
  PROVE  LET m         == MONTHS_PER_PERIOD[f]
             period    == PeriodFrom(f, y, k)
             following == IF k + m <= 12 THEN PeriodFrom(f, y, k + m)
                          ELSE PeriodFrom(f, y + 1, 1)
         IN  /\ RowAccepted(period)
             /\ period.start = Date(y, k, 1) /\ period.start \in Day
             /\ PeriodBounds(f, period.start) = period
             /\ PeriodBounds(f, period.end) = period
             /\ NextPeriod(f, period.start) = following
             /\ PlusDays(period.end, 1) = following.start
             /\ MonthNumber(following.start) = MonthNumber(period.start) + m
  <1> DEFINE m == MONTHS_PER_PERIOD[f]
             e == k + m - 1
             last == LastDayOfMonth(y, e)
             period == PeriodFrom(f, y, k)
             following == IF k + m <= 12 THEN PeriodFrom(f, y, k + m)
                          ELSE PeriodFrom(f, y + 1, 1)
  <1>1. /\ m \in 1 .. 12 /\ e \in 1 .. 12 /\ k <= e
        /\ StartMonth(f, e) = k
        /\ k + m <= 12 => StartMonth(f, k + m) = k + m
        /\ k + m > 12 => k + m = 13 /\ e = 12
        /\ StartMonth(f, 1) = 1
    BY StartMonths
  <1>2. last \in 28 .. 31 /\ (e = 12 => last = 31)
    BY <1>1, LastDay
  <1>3. period.start = Date(y, k, 1) /\ period.end = Date(y, e, last)
    BY DEF PeriodFrom
  <1> HIDE DEF m, e, last, period, following
  <1>4. period.start \in Day /\ period.end \in Day
    BY <1>1, <1>2, <1>3 DEF Date, Day
  <1>5. RowAccepted(period)
    <2>1. LastDayOfMonth(y, k) \in 28 .. 31
      BY LastDay
    <2>2. IsDate(period.start)
      BY <1>3, <2>1 DEF IsDate, Date
    <2>3. IsDate(period.end)
      BY <1>1, <1>2, <1>3 DEF IsDate, Date, last
    <2>4. /\ DateKey(period.start) = (y * 12 + k) * 32 + 1
          /\ DateKey(period.end) = (y * 12 + e) * 32 + last
      BY <1>3 DEF DateKey, MonthNumber, Date
    <2> QED
      BY <1>1, <1>2, <2>2, <2>3, <2>4 DEF RowAccepted
  <1>6. PeriodBounds(f, period.start) = period
    BY <1>3, <1>4, Bounds DEF Date, period
  <1>7. PeriodBounds(f, period.end) = period
    BY <1>1, <1>3, <1>4, Bounds DEF Date, period
  <1>8. NextPeriod(f, period.start) = following
    <2>1. AddMonths(period.start, m) = IF k + m <= 12 THEN Date(y, k + m, 1)
                                       ELSE Date(y + 1, k + m - 12, 1)
      BY <1>1, <1>3, AddingMonths
    <2>2. CASE k + m <= 12
      <3>1. AddMonths(period.start, m) = Date(y, k + m, 1)
        BY <2>1, <2>2
      <3>2. Date(y, k + m, 1) \in Day
        BY <1>1, <2>2 DEF Date, Day
      <3>3. PeriodBounds(f, Date(y, k + m, 1)) = PeriodFrom(f, y, k + m)
        BY <1>1, <2>2, <3>2, Bounds DEF Date
      <3> QED
        BY <2>2, <3>1, <3>3 DEF NextPeriod, following, m
    <2>3. CASE k + m > 12
      <3>1. AddMonths(period.start, m) = Date(y + 1, 1, 1)
        BY <1>1, <2>1, <2>3
      <3>2. Date(y + 1, 1, 1) \in Day
        BY DEF Date, Day
      <3>3. PeriodBounds(f, Date(y + 1, 1, 1)) = PeriodFrom(f, y + 1, 1)
        BY <1>1, <3>2, Bounds DEF Date
      <3>4. ~ k + m <= 12
        BY <1>1, <2>3
      <3> QED
        BY <3>1, <3>3, <3>4 DEF NextPeriod, following, m
    <2> QED
      BY <1>1, <2>2, <2>3
  <1>9. following.start = IF e < 12 THEN Date(y, e + 1, 1) ELSE Date(y + 1, 1, 1)
    BY <1>1 DEF following, PeriodFrom, e, m
  <1>10. PlusDays(period.end, 1) = following.start
    <2>1. period.end.day + 1 > last /\ LastDayOfMonth(period.end.year, period.end.month) = last
      BY <1>2, <1>3 DEF Date, last
    <2>2. last + 1 - last = 1
      BY <1>2
    <2> QED
      BY <1>1, <1>2, <1>3, <1>9, <2>1, <2>2 DEF PlusDays, Date
  <1>11. MonthNumber(following.start) = MonthNumber(period.start) + m
    BY <1>1, <1>3, <1>9 DEF MonthNumber, Date, e
  <1> QED
    BY <1>3, <1>4, <1>5, <1>6, <1>7, <1>8, <1>10, <1>11 DEF m, period, following

-----------------------------------------------------------------------------
(* Days *)

(* At most 28 days ahead is a date of this month or of the next. *)
LEMMA AddingDays ==
  ASSUME NEW d \in Day, IsDate(d), NEW days \in 0 .. 28
  PROVE  /\ PlusDays(d, days) \in Day
         /\ IsDate(PlusDays(d, days))
         /\ DateKey(d) <= DateKey(PlusDays(d, days))
  <1> DEFINE last == LastDayOfMonth(d.year, d.month)
  <1>1. /\ d.year \in Nat /\ d.month \in 1 .. 12 /\ d.day \in 1 .. last
        /\ last \in 28 .. 31 /\ (d.month = 12 => last = 31)
    BY LastDay DEF Day, IsDate
  <1>2. d = [year |-> d.year, month |-> d.month, day |-> d.day]
    BY DEF Day
  <1> HIDE DEF last
  <1>3. CASE d.day + days <= last
    <2>1. PlusDays(d, days) = Date(d.year, d.month, d.day + days)
      BY <1>2, <1>3 DEF PlusDays, Date, last
    <2>2. d.day + days \in 1 .. last
      BY <1>1, <1>3
    <2> QED
      BY <1>1, <2>1, <2>2 DEF Date, Day, IsDate, DateKey, MonthNumber, last
  <1>4. CASE ~ d.day + days <= last /\ d.month < 12
    <2>1. PlusDays(d, days) = Date(d.year, d.month + 1, d.day + days - last)
      BY <1>4 DEF PlusDays, last
    <2>2. d.day + days - last \in 1 .. 28 /\ d.month + 1 \in 1 .. 12
      BY <1>1, <1>4
    <2>3. LastDayOfMonth(d.year, d.month + 1) \in 28 .. 31
      BY <2>2, LastDay
    <2> QED
      BY <1>1, <2>1, <2>2, <2>3 DEF Date, Day, IsDate, DateKey, MonthNumber
  <1>5. CASE ~ d.day + days <= last /\ ~ d.month < 12
    <2>1. PlusDays(d, days) = Date(d.year + 1, 1, d.day + days - last)
      BY <1>5 DEF PlusDays, last
    <2>2. d.day + days - last \in 1 .. 28 /\ d.month = 12
      BY <1>1, <1>5
    <2>3. LastDayOfMonth(d.year + 1, 1) \in 28 .. 31
      BY LastDay
    <2> QED
      BY <1>1, <2>1, <2>2, <2>3 DEF Date, Day, IsDate, DateKey, MonthNumber
  <1> QED
    BY <1>3, <1>4, <1>5

(* The day LeadDays ahead is no earlier tomorrow than it was today, and no   *)
(* more than a month later.                                                  *)
LEMMA CutoffAdvances ==
  ASSUME NEW d \in Day, IsDate(d), NEW days \in 0 .. 28
  PROVE  /\ DateKey(PlusDays(d, days)) <= DateKey(PlusDays(PlusDays(d, 1), days))
         /\ MonthNumber(PlusDays(PlusDays(d, 1), days)) <= MonthNumber(PlusDays(d, days)) + 1
  <1> DEFINE last == LastDayOfMonth(d.year, d.month)
             tomorrow == PlusDays(d, 1)
  <1>1. /\ d.year \in Nat /\ d.month \in 1 .. 12 /\ d.day \in 1 .. last
        /\ last \in 28 .. 31
    BY LastDay DEF Day, IsDate
  <1>2. d = [year |-> d.year, month |-> d.month, day |-> d.day]
    BY DEF Day
  <1>3. tomorrow \in Day /\ IsDate(tomorrow)
    BY AddingDays
  <1>4. DateKey(tomorrow) <= DateKey(PlusDays(tomorrow, days))
    BY <1>3, AddingDays
  <1> HIDE DEF last, tomorrow
  <1>5. PlusDays(d, days) =
          IF d.day + days <= last THEN Date(d.year, d.month, d.day + days)
          ELSE IF d.month < 12 THEN Date(d.year, d.month + 1, d.day + days - last)
          ELSE Date(d.year + 1, 1, d.day + days - last)
    BY <1>2 DEF PlusDays, Date, last
  <1>6. CASE d.day + 1 <= last
    <2>1. tomorrow = Date(d.year, d.month, d.day + 1)
      BY <1>2, <1>6 DEF PlusDays, Date, last, tomorrow
    <2>2. PlusDays(tomorrow, days) =
            IF d.day + 1 + days <= last THEN Date(d.year, d.month, d.day + 1 + days)
            ELSE IF d.month < 12 THEN Date(d.year, d.month + 1, d.day + 1 + days - last)
            ELSE Date(d.year + 1, 1, d.day + 1 + days - last)
      BY <2>1 DEF PlusDays, Date, last
    <2> QED
      BY <1>1, <1>5, <1>6, <2>2 DEF DateKey, MonthNumber, Date, tomorrow
  <1>7. CASE d.day = last
    <2>1. tomorrow = IF d.month < 12 THEN Date(d.year, d.month + 1, 1)
                     ELSE Date(d.year + 1, 1, 1)
      <3>1. ~ d.day + 1 <= last /\ d.day + 1 - last = 1
        BY <1>1, <1>7
      <3> QED
        BY <3>1 DEF PlusDays, last, tomorrow
    <2>2. tomorrow.day = 1 /\ tomorrow.year \in Nat /\ tomorrow.month \in 1 .. 12
      BY <1>1, <2>1 DEF Date
    <2>3. LastDayOfMonth(tomorrow.year, tomorrow.month) \in 28 .. 31
      BY <2>2, LastDay
    <2>4. DateKey(PlusDays(d, days)) <=
            IF days = 0 THEN DateKey(d) ELSE MonthNumber(tomorrow) * 32 + days
      <3>1. CASE days = 0
        BY <1>1, <1>5, <1>7, <3>1 DEF DateKey, MonthNumber, Date
      <3>2. CASE days > 0
        BY <1>1, <1>5, <1>7, <2>1, <3>2 DEF DateKey, MonthNumber, Date
      <3> QED
        BY <3>1, <3>2
    <2>5. DateKey(PlusDays(tomorrow, days)) >= MonthNumber(tomorrow) * 32 + days
      <3>1. PlusDays(tomorrow, days) =
              IF 1 + days <= LastDayOfMonth(tomorrow.year, tomorrow.month)
              THEN [tomorrow EXCEPT !.day = @ + days]
              ELSE IF tomorrow.month < 12
              THEN Date(tomorrow.year, tomorrow.month + 1,
                        1 + days - LastDayOfMonth(tomorrow.year, tomorrow.month))
              ELSE Date(tomorrow.year + 1, 1,
                        1 + days - LastDayOfMonth(tomorrow.year, tomorrow.month))
        BY <2>2 DEF PlusDays
      <3>2. tomorrow = [year |-> tomorrow.year, month |-> tomorrow.month, day |-> 1]
        BY <2>1, <2>2 DEF Date
      <3> QED
        BY <2>2, <2>3, <3>1, <3>2 DEF DateKey, MonthNumber, Date
    <2>6. DateKey(d) <= DateKey(tomorrow)
      BY AddingDays DEF tomorrow
    <2>7. /\ DateKey(d) \in Int /\ MonthNumber(tomorrow) \in Int
          /\ DateKey(PlusDays(d, days)) \in Int
          /\ DateKey(PlusDays(tomorrow, days)) \in Int
      <3>1. PlusDays(d, days) \in Day /\ PlusDays(tomorrow, days) \in Day
        BY <1>3, AddingDays
      <3> QED
        BY <2>2, <3>1 DEF DateKey, MonthNumber, Day
    <2>8. DateKey(tomorrow) \in Int
      BY <1>3 DEF DateKey, MonthNumber, Day
    <2>9. DateKey(PlusDays(d, days)) <= DateKey(PlusDays(tomorrow, days))
      BY <1>4, <2>4, <2>5, <2>6, <2>7, <2>8
    <2>10. MonthNumber(PlusDays(tomorrow, days)) <= MonthNumber(tomorrow) + 1
      <3>1. PlusDays(tomorrow, days) =
              IF 1 + days <= LastDayOfMonth(tomorrow.year, tomorrow.month)
              THEN [tomorrow EXCEPT !.day = @ + days]
              ELSE IF tomorrow.month < 12
              THEN Date(tomorrow.year, tomorrow.month + 1,
                        1 + days - LastDayOfMonth(tomorrow.year, tomorrow.month))
              ELSE Date(tomorrow.year + 1, 1,
                        1 + days - LastDayOfMonth(tomorrow.year, tomorrow.month))
        BY <2>2 DEF PlusDays
      <3>2. tomorrow = [year |-> tomorrow.year, month |-> tomorrow.month, day |-> 1]
        BY <2>1, <2>2 DEF Date
      <3> QED
        BY <2>2, <2>3, <3>1, <3>2 DEF MonthNumber, Date
    <2>11. CASE days = 28
      <3>1. MonthNumber(PlusDays(d, days)) = MonthNumber(tomorrow)
        BY <1>1, <1>5, <1>7, <2>1, <2>11 DEF MonthNumber, Date
      <3> QED
        BY <2>9, <2>10, <3>1 DEF tomorrow
    <2>12. CASE days < 28
      <3>1. MonthNumber(PlusDays(tomorrow, days)) = MonthNumber(tomorrow)
        <4>1. 1 + days <= LastDayOfMonth(tomorrow.year, tomorrow.month)
          BY <2>3, <2>12
        <4> QED
          BY <2>2, <4>1 DEF PlusDays, MonthNumber
      <3>2. MonthNumber(tomorrow) <= MonthNumber(PlusDays(d, days)) + 1
        BY <1>1, <1>5, <2>1 DEF MonthNumber, Date
      <3> QED
        BY <2>9, <3>1, <3>2 DEF tomorrow
    <2> QED
      BY <2>11, <2>12
  <1> QED
    BY <1>1, <1>6, <1>7 DEF tomorrow

-----------------------------------------------------------------------------
(* The invariant *)

(* A period that period_bounds gives begins in a month of its frequency. *)
LEMMA Shape ==
  ASSUME NEW f \in Frequency, NEW p, p.start \in Day, p = PeriodBounds(f, p.start)
  PROVE  LET k == StartMonth(f, p.start.month)
         IN  /\ k \in 1 .. 12 /\ StartMonth(f, k) = k
             /\ p.start.year \in Nat
             /\ p = PeriodFrom(f, p.start.year, k)
  <1>1. p.start.year \in Nat /\ p.start.month \in 1 .. 12
    BY DEF Day
  <1>2. StartMonth(f, p.start.month) \in 1 .. 12
        /\ StartMonth(f, StartMonth(f, p.start.month)) = StartMonth(f, p.start.month)
    <2> DEFINE m == MONTHS_PER_PERIOD[f]
               k == StartMonth(f, p.start.month)
    <2>1. /\ m \in 1 .. 12 /\ k \in 1 .. 12
          /\ \A j \in k .. k + m - 1 : StartMonth(f, j) = k
      BY <1>1, StartMonths
    <2> QED
      BY <2>1
  <1>3. p = PeriodFrom(f, p.start.year, StartMonth(f, p.start.month))
    BY Bounds
  <1> QED
    BY <1>1, <1>2, <1>3

LEMMA InitInPeriod == Init => InPeriod
  <1> SUFFICES ASSUME Init PROVE InPeriod
    OBVIOUS
  <1>1. PICK year \in Nat : today = Date(year, 1, 15)
    BY CalendarAssumption DEF Init
  <1>2. today \in Day /\ IsDate(today)
    <2>1. LastDayOfMonth(year, 1) = 31
      BY LastDay
    <2> QED
      BY <1>1, <2>1 DEF Date, Day, IsDate
  <1>3. frequency \in Frequency
    BY DEF Init
  <1>4. StartMonth(frequency, 1) = 1
    BY <1>3, StartMonths
  <1>5. latest = PeriodFrom(frequency, year, 1)
    BY <1>1, <1>2, <1>3, <1>4, Bounds DEF Init, Date
  <1>6. /\ RowAccepted(latest) /\ latest.start = Date(year, 1, 1)
        /\ latest.start \in Day /\ PeriodBounds(frequency, latest.start) = latest
    BY <1>3, <1>4, <1>5, PeriodShape
  <1>7. TypeOK
    BY <1>2, <1>3, <1>6, CalendarAssumption DEF TypeOK, Init
  <1>8. NeverEarly
    <2>1. DateKey(today) <= DateKey(Cutoff) /\ Cutoff \in Day
      BY <1>2, AddingDays, CalendarAssumption DEF Cutoff
    <2>2. DateKey(latest.start) <= DateKey(today)
      BY <1>1, <1>6 DEF DateKey, MonthNumber, Date
    <2>3. DateKey(latest.start) \in Int /\ DateKey(today) \in Int /\ DateKey(Cutoff) \in Int
      BY <1>2, <1>6, <2>1 DEF DateKey, MonthNumber, Day
    <2> QED
      BY <2>1, <2>2, <2>3 DEF NeverEarly
  <1> QED
    BY <1>2, <1>6, <1>7, <1>8 DEF InPeriod

LEMMA StepInPeriod == InPeriod /\ [Next]_vars => InPeriod'
  <1> SUFFICES ASSUME InPeriod, [Next]_vars PROVE InPeriod'
    OBVIOUS
  <1> USE CalendarAssumption
  <1>1. CASE UNCHANGED vars
    BY <1>1 DEF vars, InPeriod, TypeOK, NeverEarly, Cutoff
  <1>2. ASSUME NextDay, frequency' = frequency, missed' \in 0 .. MaxMissed,
               \/ latest' = latest
               \/ Due(latest.start) /\ latest' = NextPeriod(frequency, latest.start)
        PROVE  InPeriod'
    <2>1. /\ today \in Day /\ IsDate(today) /\ frequency \in Frequency
          /\ NeverEarly /\ latest.start \in Day
      BY DEF InPeriod, TypeOK
    <2>2. today' = PlusDays(today, 1) /\ today' \in Day /\ IsDate(today')
      BY <1>2, <2>1, AddingDays DEF NextDay
    <2>3. nights' \in 0 .. MaxDays
      BY <1>2 DEF NextDay, InPeriod, TypeOK
    <2>4. DateKey(Cutoff) <= DateKey(Cutoff')
      BY <2>1, <2>2, CutoffAdvances DEF Cutoff
    <2>5. DateKey(Cutoff) \in Int /\ DateKey(Cutoff') \in Int
      <3>1. Cutoff \in Day /\ Cutoff' \in Day
        BY <2>1, <2>2, AddingDays DEF Cutoff
      <3> QED
        BY <3>1 DEF DateKey, MonthNumber, Day
    <2>6. CASE latest' = latest
      <3>1. NeverEarly'
        <4>1. DateKey(latest.start) \in Int
          BY <2>1 DEF DateKey, MonthNumber, Day
        <4>2. DateKey(latest.start) <= DateKey(Cutoff) /\ DateKey(latest'.start) = DateKey(latest.start)
          BY <2>1, <2>6 DEF NeverEarly
        <4> QED
          BY <2>4, <2>5, <4>1, <4>2 DEF NeverEarly
      <3>2. TypeOK'
        BY <1>2, <2>2, <2>3, <2>6 DEF InPeriod, TypeOK
      <3> QED
        BY <1>2, <2>2, <2>6, <3>1, <3>2 DEF InPeriod
    <2>7. CASE Due(latest.start) /\ latest' = NextPeriod(frequency, latest.start)
      <3> DEFINE m == MONTHS_PER_PERIOD[frequency]
                 y == latest.start.year
                 k == StartMonth(frequency, latest.start.month)
                 y2 == IF k + m <= 12 THEN y ELSE y + 1
                 k2 == IF k + m <= 12 THEN k + m ELSE 1
      <3>1. /\ k \in 1 .. 12 /\ StartMonth(frequency, k) = k /\ y \in Nat
            /\ latest = PeriodFrom(frequency, y, k)
        BY <2>1, Shape DEF InPeriod
      <3>2. latest' = PeriodFrom(frequency, y2, k2)
        BY <2>1, <2>7, <3>1, PeriodShape
      <3>3. y2 \in Nat /\ k2 \in 1 .. 12 /\ StartMonth(frequency, k2) = k2
        BY <2>1, <3>1, StartMonths
      <3> HIDE DEF m, y, k, y2, k2
      <3>4. /\ RowAccepted(latest') /\ latest'.start \in Day
            /\ PeriodBounds(frequency, latest'.start) = latest'
        BY <2>1, <3>2, <3>3, PeriodShape
      <3>5. NeverEarly'
        <4>1. DateKey(latest'.start) \in Int
          BY <3>4 DEF DateKey, MonthNumber, Day
        <4>2. DateKey(latest'.start) <= DateKey(Cutoff)
          BY <2>7 DEF Due
        <4> QED
          BY <2>4, <2>5, <4>1, <4>2 DEF NeverEarly
      <3>6. TypeOK'
        BY <1>2, <2>1, <2>2, <2>3, <3>4 DEF TypeOK
      <3> QED
        BY <1>2, <2>2, <3>4, <3>5, <3>6 DEF InPeriod
    <2> QED
      BY <1>2, <2>6, <2>7
  <1>3. CASE NightWithRun
    <2>1. missed' \in 0 .. MaxMissed
      BY <1>3 DEF NightWithRun, InPeriod, TypeOK
    <2> QED
      BY <1>2, <1>3, <2>1 DEF NightWithRun
  <1>4. CASE NightMissed
    <2>1. missed' \in 0 .. MaxMissed
      BY <1>4 DEF NightMissed, InPeriod, TypeOK
    <2> QED
      BY <1>2, <1>4, <2>1 DEF NightMissed
  <1> QED
    BY <1>1, <1>3, <1>4 DEF Next

-----------------------------------------------------------------------------
(* What is owed *)

(* A month begins before a day exactly when it is not after the day's month. *)
LEMMA MonthBegins ==
  ASSUME NEW start \in Day, start.day = 1, NEW d \in Day
  PROVE  /\ MonthNumber(start) \in Nat /\ MonthNumber(d) \in Nat
         /\ DateKey(start) <= DateKey(d) <=> MonthNumber(start) <= MonthNumber(d)
  BY DEF Day, DateKey, MonthNumber

(* The two periods after one that period_bounds gives. *)
LEMMA NextTwo ==
  ASSUME NEW f \in Frequency, NEW p, p.start \in Day, p = PeriodBounds(f, p.start)
  PROVE  LET m    == MONTHS_PER_PERIOD[f]
             one  == NextPeriod(f, p.start).start
             two  == NextPeriod(f, one).start
         IN  /\ m \in 1 .. 12
             /\ one \in Day /\ one.day = 1 /\ two \in Day /\ two.day = 1
             /\ MonthNumber(one) = MonthNumber(p.start) + m
             /\ MonthNumber(two) = MonthNumber(one) + m
  <1> DEFINE m == MONTHS_PER_PERIOD[f]
             y == p.start.year
             k == StartMonth(f, p.start.month)
             y1 == IF k + m <= 12 THEN y ELSE y + 1
             k1 == IF k + m <= 12 THEN k + m ELSE 1
             y2 == IF k1 + m <= 12 THEN y1 ELSE y1 + 1
             k2 == IF k1 + m <= 12 THEN k1 + m ELSE 1
  <1>2. /\ k \in 1 .. 12 /\ StartMonth(f, k) = k /\ y \in Nat
        /\ p = PeriodFrom(f, y, k)
    BY Shape
  <1>3. m \in 1 .. 12
    BY <1>2, StartMonths
  <1>4. y1 \in Nat /\ k1 \in 1 .. 12 /\ StartMonth(f, k1) = k1
    BY <1>2, StartMonths
  <1>5. y2 \in Nat /\ k2 \in 1 .. 12 /\ StartMonth(f, k2) = k2
    BY <1>4, StartMonths
  <1>6. /\ p.start = Date(y, k, 1)
        /\ NextPeriod(f, p.start) = PeriodFrom(f, y1, k1)
        /\ MonthNumber(PeriodFrom(f, y1, k1).start) = MonthNumber(p.start) + m
    BY <1>2, PeriodShape
  <1> HIDE DEF m, y, k, y1, k1
  <1>7. /\ PeriodFrom(f, y1, k1).start = Date(y1, k1, 1)
        /\ NextPeriod(f, PeriodFrom(f, y1, k1).start) =
             PeriodFrom(f, y2, k2)
        /\ MonthNumber(PeriodFrom(f, y2, k2).start) =
             MonthNumber(PeriodFrom(f, y1, k1).start) + m
    BY <1>4, PeriodShape DEF m
  <1> HIDE DEF y2, k2
  <1>8. PeriodFrom(f, y2, k2).start = Date(y2, k2, 1)
    BY DEF PeriodFrom
  <1>9. /\ Date(y1, k1, 1) \in Day /\ Date(y1, k1, 1).day = 1
        /\ Date(y2, k2, 1) \in Day /\ Date(y2, k2, 1).day = 1
    BY <1>4, <1>5 DEF Date, Day
  <1> QED
    BY <1>3, <1>6, <1>7, <1>8, <1>9 DEF m

(* A day of a period's months has that period for its bounds. *)
LEMMA WithinPeriod ==
  ASSUME NEW f \in Frequency, NEW y \in Nat, NEW k \in 1 .. 12, StartMonth(f, k) = k,
         NEW d \in Day,
         MonthNumber(Date(y, k, 1)) <= MonthNumber(d),
         MonthNumber(d) < MonthNumber(Date(y, k, 1)) + MONTHS_PER_PERIOD[f]
  PROVE  PeriodBounds(f, d) = PeriodFrom(f, y, k)
  <1> DEFINE m == MONTHS_PER_PERIOD[f]
  <1>1. /\ m \in 1 .. 12 /\ k + m - 1 <= 12
        /\ \A j \in k .. k + m - 1 : StartMonth(f, j) = k
    BY StartMonths
  <1>2. d.year \in Nat /\ d.month \in 1 .. 12
    BY DEF Day
  <1> HIDE DEF m
  <1>3. d.year * 12 + d.month >= y * 12 + k /\ d.year * 12 + d.month < y * 12 + k + m
    BY DEF MonthNumber, Date, m
  <1>4. d.year = y /\ d.month \in k .. k + m - 1
    BY <1>1, <1>2, <1>3
  <1>5. StartMonth(f, d.month) = k
    BY <1>1, <1>4
  <1> QED
    BY <1>4, <1>5, Bounds

(* A run that ends with nothing owed has stopped at the period of the cutoff. *)
LEMMA RunSettles ==
  ASSUME IInv, NightWithRun, missed' = 0
  PROVE  ~ DateKey(NextPeriod(frequency, latest'.start).start) <= DateKey(Cutoff)
  <1>1. CASE Due(latest'.start)
    <2>1. missed = 0 /\ ~ Due(NextPeriod(frequency, latest.start).start)
      BY <1>1 DEF NightWithRun, IInv, CaughtUp
    <2> QED
      BY <1>1, <2>1 DEF NightWithRun
  <1>2. CASE ~ Due(latest'.start)
    BY <1>2 DEF Due
  <1> QED
    BY <1>1, <1>2

LEMMA StepCaughtUp == IInv /\ [Next]_vars => CaughtUp'
  <1> SUFFICES ASSUME IInv, [Next]_vars PROVE CaughtUp'
    OBVIOUS
  <1>1. InPeriod /\ InPeriod'
    BY StepInPeriod DEF IInv
  <1>2. CASE UNCHANGED vars
    BY <1>2 DEF vars, IInv, CaughtUp, Due, Cutoff
  <1>3. CASE NightMissed
    BY <1>3 DEF NightMissed, CaughtUp, IInv, InPeriod, TypeOK
  <1>4. CASE NightWithRun
    <2> SUFFICES ASSUME missed' = 0
                 PROVE  ~ Due(NextPeriod(frequency, latest.start).start)'
      BY DEF CaughtUp
    <2> DEFINE m   == MONTHS_PER_PERIOD[frequency]
               one == NextPeriod(frequency, latest'.start).start
               two == NextPeriod(frequency, one).start
    <2>1. frequency' = frequency /\ today' = PlusDays(today, 1)
      BY <1>4 DEF NightWithRun, NextDay
    <2>2. ~ DateKey(one) <= DateKey(Cutoff)
      BY <1>4, RunSettles
    <2>3. /\ m \in 1 .. 12
          /\ one \in Day /\ one.day = 1 /\ two \in Day /\ two.day = 1
          /\ MonthNumber(two) = MonthNumber(one) + m
      <3>1. /\ frequency \in Frequency /\ latest'.start \in Day
            /\ latest' = PeriodBounds(frequency, latest'.start)
        BY <1>1, <2>1 DEF InPeriod, TypeOK
      <3> QED
        BY <3>1, NextTwo
    <2>4. Cutoff \in Day /\ Cutoff' \in Day /\ MonthNumber(Cutoff') <= MonthNumber(Cutoff) + 1
      <3>1. today \in Day /\ IsDate(today) /\ today' \in Day /\ IsDate(today')
        BY <1>1 DEF InPeriod, TypeOK
      <3> QED
        BY <2>1, <3>1, AddingDays, CutoffAdvances, CalendarAssumption DEF Cutoff
    <2> HIDE DEF one, two, m
    <2>5. ~ MonthNumber(one) <= MonthNumber(Cutoff)
      BY <2>2, <2>3, <2>4, MonthBegins
    <2>6. /\ MonthNumber(one) \in Nat /\ MonthNumber(two) \in Nat
          /\ MonthNumber(Cutoff) \in Nat /\ MonthNumber(Cutoff') \in Nat
      BY <2>3, <2>4, MonthBegins
    <2>7. ~ MonthNumber(two) <= MonthNumber(Cutoff')
      BY <2>3, <2>4, <2>5, <2>6
    <2>8. ~ DateKey(two) <= DateKey(Cutoff')
      BY <2>3, <2>4, <2>7, MonthBegins
    <2> QED
      BY <2>1, <2>8 DEF Due, one, two
  <1> QED
    BY <1>2, <1>3, <1>4 DEF Next

LEMMA InitInductive == Init => IInv
  <1> SUFFICES ASSUME Init PROVE IInv
    OBVIOUS
  <1> DEFINE one == NextPeriod(frequency, latest.start).start
             two == NextPeriod(frequency, one).start
  <1>1. InPeriod
    BY InitInPeriod
  <1>2. PICK year \in Nat : today = Date(year, 1, 15)
    BY CalendarAssumption DEF Init
  <1>3. today \in Day /\ IsDate(today)
    BY <1>1 DEF InPeriod, TypeOK
  <1>4. Cutoff \in Day
    BY <1>3, AddingDays, CalendarAssumption DEF Cutoff
  <1>5. MonthNumber(Cutoff) <= MonthNumber(today) + 1
    BY <1>2, CalendarAssumption DEF Cutoff, PlusDays, MonthNumber, Date
  <1>6. MonthNumber(latest.start) = MonthNumber(today)
    <2>1. frequency \in Frequency
      BY DEF Init
    <2>2. latest.start = Date(year, StartMonth(frequency, 1), 1)
      BY <1>2, <1>3, <2>1, Bounds DEF Init, Date, PeriodFrom
    <2> QED
      BY <1>2, <2>1, <2>2, StartMonths DEF MonthNumber, Date
  <1>7. /\ two \in Day /\ two.day = 1
        /\ \E m \in 1 .. 12 : /\ MonthNumber(one) = MonthNumber(latest.start) + m
                              /\ MonthNumber(two) = MonthNumber(one) + m
    BY <1>1, NextTwo DEF InPeriod, TypeOK
  <1> HIDE DEF one, two
  <1>8. MonthNumber(today) \in Nat /\ MonthNumber(Cutoff) \in Nat
    BY <1>3, <1>4 DEF Day, MonthNumber
  <1>9. ~ MonthNumber(two) <= MonthNumber(Cutoff)
    BY <1>5, <1>6, <1>7, <1>8
  <1>10. ~ DateKey(two) <= DateKey(Cutoff)
    BY <1>4, <1>7, <1>9, MonthBegins
  <1> QED
    BY <1>1, <1>10 DEF IInv, CaughtUp, Due, one, two

LEMMA StepInductive == IInv /\ [Next]_vars => IInv'
  BY StepInPeriod, StepCaughtUp DEF IInv

-----------------------------------------------------------------------------
(* Theorems *)

(* The nightly run keeps the latest period a period of its frequency, and no *)
(* later than the lead time allows, in any year and with any nights missed.  *)
THEOREM Inductive == Spec => []IInv
  <1> QED
    BY InitInductive, StepInductive, PTL DEF Spec

(* Every date the run computes is a date, and every row it inserts passes    *)
(* engagement_period_ordered.                                                *)
THEOREM TypeCorrect == Spec => []TypeOK
  <1>1. IInv => TypeOK
    BY DEF IInv, InPeriod
  <1> QED
    BY <1>1, Inductive, PTL

(* However many nights were missed, no period is created before its turn.    *)
THEOREM NeverEarlySafe == Spec => []NeverEarly
  <1>1. IInv => NeverEarly
    BY DEF IInv, InPeriod
  <1> QED
    BY <1>1, Inductive, PTL

(* The periods that next_period strings together tile the calendar: no day   *)
(* between two of them, none in both, whatever the lengths of the months.    *)
THEOREM PeriodsTileSafe == Spec => []PeriodsTile
  <1>1. ASSUME IInv PROVE PeriodsTile
    <2> DEFINE y == latest.start.year
               k == StartMonth(frequency, latest.start.month)
    <2>1. frequency \in Frequency
      BY <1>1 DEF IInv, InPeriod, TypeOK
    <2>2. /\ k \in 1 .. 12 /\ StartMonth(frequency, k) = k /\ y \in Nat
          /\ latest = PeriodFrom(frequency, y, k)
      BY <1>1, <2>1, Shape DEF IInv, InPeriod
    <2> DEFINE m == MONTHS_PER_PERIOD[frequency]
               period == PeriodFrom(frequency, y, k)
               following == IF k + m <= 12 THEN PeriodFrom(frequency, y, k + m)
                            ELSE PeriodFrom(frequency, y + 1, 1)
    <2> HIDE DEF y, k
    <2>3. /\ PeriodBounds(frequency, period.start) = period
          /\ PeriodBounds(frequency, period.end) = period
          /\ NextPeriod(frequency, period.start) = following
          /\ PlusDays(period.end, 1) = following.start
          /\ MonthNumber(following.start) = MonthNumber(period.start) + m
      BY <2>1, <2>2, PeriodShape
    <2> HIDE DEF m, period, following
    <2>4. latest = period
      BY <2>2 DEF period
    <2> QED
      BY <2>3, <2>4 DEF PeriodsTile, m
  <1> QED
    BY <1>1, Inductive, PTL

(* A run that leaves the series up to date leaves it in the period of the    *)
(* day LeadDays ahead, whatever that day is.                                 *)
THEOREM OnTimeSafe == Spec => OnTime
  <1>1. ASSUME IInv, [Next]_vars
        PROVE  [missed' = 0 => latest' = PeriodBounds(frequency, Cutoff)]_vars
    <2> SUFFICES ASSUME NightWithRun, missed' = 0
                 PROVE  latest' = PeriodBounds(frequency, Cutoff)
      <3>1. NightMissed => missed' # 0
        BY <1>1 DEF NightMissed, IInv, InPeriod, TypeOK
      <3> QED
        BY <1>1, <3>1 DEF Next
    <2> DEFINE one == NextPeriod(frequency, latest'.start).start
               m   == MONTHS_PER_PERIOD[frequency]
               y   == latest'.start.year
               k   == StartMonth(frequency, latest'.start.month)
    <2>1. IInv' /\ frequency' = frequency /\ frequency \in Frequency
      BY <1>1, StepInductive DEF NightWithRun, IInv, InPeriod, TypeOK
    <2>2. /\ k \in 1 .. 12 /\ StartMonth(frequency, k) = k /\ y \in Nat
          /\ latest' = PeriodFrom(frequency, y, k)
      <3>1. latest'.start \in Day /\ latest' = PeriodBounds(frequency, latest'.start)
        BY <2>1 DEF IInv, InPeriod
      <3> QED
        BY <2>1, <3>1, Shape
    <2>3. ~ DateKey(one) <= DateKey(Cutoff)
      BY <1>1, RunSettles
    <2>4. Cutoff \in Day
      BY <1>1, AddingDays, CalendarAssumption DEF Cutoff, IInv, InPeriod, TypeOK
    <2>5. DateKey(latest'.start) <= DateKey(Cutoff)
      <3>1. CASE Due(latest.start)
        BY <3>1 DEF NightWithRun, Due
      <3>2. CASE ~ Due(latest.start)
        BY <1>1, <3>2 DEF NightWithRun, IInv, InPeriod, NeverEarly
      <3> QED
        BY <3>1, <3>2
    <2> HIDE DEF y, k, one
    <2>6. /\ latest'.start = Date(y, k, 1)
          /\ MonthNumber(one) = MonthNumber(latest'.start) + m
          /\ one = Date(one.year, one.month, 1) /\ one \in Day
      <3> DEFINE y1 == IF k + m <= 12 THEN y ELSE y + 1
                 k1 == IF k + m <= 12 THEN k + m ELSE 1
      <3>1. y1 \in Nat /\ k1 \in 1 .. 12
        BY <2>1, <2>2, StartMonths
      <3>2. /\ latest'.start = Date(y, k, 1)
            /\ NextPeriod(frequency, latest'.start) = PeriodFrom(frequency, y1, k1)
            /\ MonthNumber(PeriodFrom(frequency, y1, k1).start) = MonthNumber(latest'.start) + m
        BY <2>1, <2>2, PeriodShape
      <3> HIDE DEF y1, k1
      <3>3. one = Date(y1, k1, 1)
        BY <3>2 DEF one, PeriodFrom
      <3> QED
        BY <3>1, <3>2, <3>3 DEF Date, Day, one
    <2>7. latest'.start \in Day /\ latest'.start.day = 1 /\ one.day = 1
      BY <2>2, <2>6 DEF Date, Day
    <2>8. /\ MonthNumber(latest'.start) <= MonthNumber(Cutoff)
          /\ ~ MonthNumber(one) <= MonthNumber(Cutoff)
      BY <2>3, <2>4, <2>5, <2>6, <2>7, MonthBegins
    <2>9. MonthNumber(Cutoff) < MonthNumber(Date(y, k, 1)) + m
      BY <2>4, <2>6, <2>7, <2>8, MonthBegins
    <2> QED
      BY <2>1, <2>2, <2>4, <2>6, <2>8, <2>9, WithinPeriod
  <1> QED
    BY <1>1, Inductive, PTL DEF Spec, OnTime

-----------------------------------------------------------------------------
(* The functions of core/periods.py, for any date *)

LEMMA TwelveMonths ==
  ASSUME NEW n \in Nat
  PROVE  n \div 12 \in Nat /\ n % 12 \in 0 .. 11 /\ n = 12 * (n \div 12) + (n % 12)
  OBVIOUS

(* _add_months gives a date, however short the month it reaches: the day is  *)
(* the same one or, if that month has no such day, an earlier one.           *)
THEOREM AddMonthsSafe ==
  ASSUME NEW d \in Day, IsDate(d), NEW months \in Nat
  PROVE  /\ AddMonths(d, months) \in Day /\ IsDate(AddMonths(d, months))
         /\ MonthNumber(AddMonths(d, months)) = MonthNumber(d) + months
         /\ AddMonths(d, months).day <= d.day
  <1> DEFINE total == d.month - 1 + months
             year  == d.year + total \div 12
             month == (total % 12) + 1
             last  == LastDayOfMonth(year, month)
             day   == IF d.day < last THEN d.day ELSE last
  <1>1. d.year \in Nat /\ d.month \in 1 .. 12 /\ d.day \in 1 .. 31 /\ total \in Nat
    BY DEF Day
  <1>2. PICK q \in Nat, r \in 0 .. 11 :
          q = total \div 12 /\ r = total % 12 /\ total = 12 * q + r
    BY <1>1, TwelveMonths
  <1>3. year \in Nat /\ month \in 1 .. 12 /\ year * 12 + month = d.year * 12 + d.month + months
    <2>1. year = d.year + q /\ month = r + 1
      BY <1>2
    <2>2. d.month - 1 + months = 12 * q + r
      BY <1>2
    <2> HIDE DEF year, month, total
    <2> QED
      BY <1>1, <2>1, <2>2
  <1>4. last \in 28 .. 31
    BY <1>3, LastDay
  <1>5. day \in 1 .. 31 /\ day \in 1 .. last /\ day <= d.day
    BY <1>1, <1>4
  <1>6. AddMonths(d, months) = Date(year, month, day)
    BY DEF AddMonths
  <1>7. LastDayOfMonth(Date(year, month, day).year, Date(year, month, day).month) = last
    BY DEF Date
  <1> HIDE DEF year, month, last, day
  <1> QED
    BY <1>1, <1>3, <1>5, <1>6, <1>7 DEF Date, Day, IsDate, MonthNumber

(* Months first, then days. *)
LEMMA KeysCompare ==
  ASSUME NEW x \in Nat, NEW y \in Nat, NEW i \in 1 .. 31, NEW j \in 1 .. 31
  PROVE  /\ x * 32 + i <= y * 32 + j => x <= y
         /\ x < y => x * 32 + i <= y * 32 + j
         /\ x = y /\ i <= j => x * 32 + i <= y * 32 + j
  OBVIOUS

LEMMA PeriodMonths ==
  ASSUME NEW f \in Frequency, NEW d \in Day
  PROVE  \E k, e \in 1 .. 12 :
           /\ k <= d.month /\ d.month <= e /\ e = k + MONTHS_PER_PERIOD[f] - 1
           /\ StartMonth(f, k) = k
           /\ LastDayOfMonth(d.year, e) \in 28 .. 31
           /\ PeriodBounds(f, d) = PeriodFrom(f, d.year, k)
           /\ PeriodBounds(f, d).start = Date(d.year, k, 1)
           /\ PeriodBounds(f, d).end = Date(d.year, e, LastDayOfMonth(d.year, e))
  <1> DEFINE k == StartMonth(f, d.month)
             e == k + MONTHS_PER_PERIOD[f] - 1
  <1>1. d.month \in 1 .. 12
    BY DEF Day
  <1>2. /\ k \in 1 .. 12 /\ e \in 1 .. 12 /\ k <= d.month /\ d.month <= e
        /\ StartMonth(f, k) = k
    <2>1. MONTHS_PER_PERIOD[f] \in 1 .. 12
      BY <1>1, StartMonths
    <2> QED
      BY <1>1, <2>1, StartMonths
  <1>3. LastDayOfMonth(d.year, e) \in 28 .. 31
    BY <1>2, LastDay
  <1>4. PeriodBounds(f, d) = PeriodFrom(f, d.year, k)
    BY Bounds
  <1>5. /\ PeriodFrom(f, d.year, k).start = Date(d.year, k, 1)
        /\ PeriodFrom(f, d.year, k).end = Date(d.year, e, LastDayOfMonth(d.year, e))
    BY DEF PeriodFrom
  <1> HIDE DEF k
  <1> QED
    BY <1>2, <1>3, <1>4, <1>5

(* period_bounds gives "the calendar-aligned period containing any_date,     *)
(* inclusive", of dates that engagement_period_ordered accepts.              *)
THEOREM PeriodHoldsItsDay ==
  ASSUME NEW f \in Frequency, NEW d \in Day, IsDate(d)
  PROVE  /\ RowAccepted(PeriodBounds(f, d))
         /\ DateKey(PeriodBounds(f, d).start) <= DateKey(d)
         /\ DateKey(d) <= DateKey(PeriodBounds(f, d).end)
  <1>1. PICK k \in 1 .. 12, e \in 1 .. 12 :
          /\ k <= d.month /\ d.month <= e
          /\ StartMonth(f, k) = k
          /\ LastDayOfMonth(d.year, e) \in 28 .. 31
          /\ PeriodBounds(f, d) = PeriodFrom(f, d.year, k)
          /\ PeriodBounds(f, d).start = Date(d.year, k, 1)
          /\ PeriodBounds(f, d).end = Date(d.year, e, LastDayOfMonth(d.year, e))
    BY PeriodMonths
  <1>2. /\ d.year \in Nat /\ d.month \in 1 .. 12 /\ d.day \in 1 .. 31
        /\ d.month = e => d.day <= LastDayOfMonth(d.year, e)
    BY DEF Day, IsDate
  <1>3. /\ DateKey(PeriodBounds(f, d).start) = (d.year * 12 + k) * 32 + 1
        /\ DateKey(PeriodBounds(f, d).end) = (d.year * 12 + e) * 32 + LastDayOfMonth(d.year, e)
        /\ DateKey(d) = (d.year * 12 + d.month) * 32 + d.day
    BY <1>1 DEF DateKey, MonthNumber, Date
  <1>4. RowAccepted(PeriodBounds(f, d))
    BY <1>1, <1>2, PeriodShape
  <1>5. /\ d.year * 12 + k \in Nat /\ d.year * 12 + e \in Nat /\ d.year * 12 + d.month \in Nat
        /\ d.year * 12 + k <= d.year * 12 + d.month
        /\ d.month # e => d.year * 12 + d.month < d.year * 12 + e
    BY <1>1, <1>2
  <1>6. LastDayOfMonth(d.year, e) \in 1 .. 31
    BY <1>1
  <1>7. DateKey(PeriodBounds(f, d).start) <= DateKey(d)
    <2> DEFINE first == d.year * 12 + k
               this  == d.year * 12 + d.month
    <2>1. /\ first \in Nat /\ this \in Nat /\ first <= this
          /\ d.day \in 1 .. 31 /\ 1 \in 1 .. 31 /\ 1 <= d.day
      BY <1>2, <1>5
    <2>2. /\ DateKey(PeriodBounds(f, d).start) = first * 32 + 1
          /\ DateKey(d) = this * 32 + d.day
      BY <1>3
    <2> HIDE DEF first, this
    <2>3. first < this \/ first = this
      BY <2>1
    <2> QED
      BY <2>1, <2>2, <2>3, KeysCompare
  <1>8. DateKey(d) <= DateKey(PeriodBounds(f, d).end)
    <2> DEFINE last  == d.year * 12 + e
               this  == d.year * 12 + d.month
               final == LastDayOfMonth(d.year, e)
    <2>1. /\ last \in Nat /\ this \in Nat /\ final \in 1 .. 31 /\ d.day \in 1 .. 31
          /\ this < last \/ (this = last /\ d.day <= final)
      <3>1. d.month # e => this < last
        BY <1>5
      <3>2. d.month = e => this = last /\ d.day <= final
        BY <1>2
      <3> QED
        BY <1>2, <1>5, <1>6, <3>1, <3>2
    <2>2. DateKey(PeriodBounds(f, d).end) = last * 32 + final /\ DateKey(d) = this * 32 + d.day
      BY <1>3
    <2> HIDE DEF last, this, final
    <2> QED
      BY <2>1, <2>2, KeysCompare
  <1> QED
    BY <1>4, <1>7, <1>8

(* Two periods of a frequency that share a day are the same: engagements of  *)
(* a series that differ in period_start, all that their unique index looks   *)
(* at, do not overlap.                                                       *)
THEOREM PeriodsApart ==
  ASSUME NEW f \in Frequency, NEW a \in Day, NEW b \in Day, NEW d \in Day,
         DateKey(PeriodBounds(f, a).start) <= DateKey(d),
         DateKey(d) <= DateKey(PeriodBounds(f, a).end),
         DateKey(PeriodBounds(f, b).start) <= DateKey(d),
         DateKey(d) <= DateKey(PeriodBounds(f, b).end)
  PROVE  PeriodBounds(f, a) = PeriodBounds(f, b)
  <1>1. ASSUME NEW c \in Day,
               DateKey(PeriodBounds(f, c).start) <= DateKey(d),
               DateKey(d) <= DateKey(PeriodBounds(f, c).end)
        PROVE  PeriodBounds(f, c) = PeriodBounds(f, d)
    <2>1. PICK k \in 1 .. 12, e \in 1 .. 12 :
            /\ e = k + MONTHS_PER_PERIOD[f] - 1
            /\ StartMonth(f, k) = k
            /\ LastDayOfMonth(c.year, e) \in 28 .. 31
            /\ PeriodBounds(f, c) = PeriodFrom(f, c.year, k)
            /\ PeriodBounds(f, c).start = Date(c.year, k, 1)
            /\ PeriodBounds(f, c).end = Date(c.year, e, LastDayOfMonth(c.year, e))
      BY PeriodMonths
    <2>2. /\ c.year \in Nat /\ d.year \in Nat /\ d.month \in 1 .. 12 /\ d.day \in 1 .. 31
          /\ MONTHS_PER_PERIOD[f] \in 1 .. 12
      BY Months DEF Day
    <2>3. /\ DateKey(PeriodBounds(f, c).start) = (c.year * 12 + k) * 32 + 1
          /\ DateKey(PeriodBounds(f, c).end) =
               (c.year * 12 + e) * 32 + LastDayOfMonth(c.year, e)
          /\ DateKey(d) = (d.year * 12 + d.month) * 32 + d.day
      BY <2>1 DEF DateKey, MonthNumber, Date
    <2>4. c.year * 12 + k <= d.year * 12 + d.month /\ d.year * 12 + d.month <= c.year * 12 + e
      <3>1. /\ c.year * 12 + k \in Nat /\ c.year * 12 + e \in Nat
            /\ d.year * 12 + d.month \in Nat
            /\ LastDayOfMonth(c.year, e) \in 1 .. 31 /\ 1 \in 1 .. 31
        BY <2>1, <2>2
      <3> DEFINE first == c.year * 12 + k
                 last  == c.year * 12 + e
                 this  == d.year * 12 + d.month
                 final == LastDayOfMonth(c.year, e)
      <3>2. first * 32 + 1 <= this * 32 + d.day /\ this * 32 + d.day <= last * 32 + final
        BY <1>1, <2>3
      <3>3. first \in Nat /\ last \in Nat /\ this \in Nat /\ final \in 1 .. 31 /\ d.day \in 1 .. 31
        BY <2>2, <3>1
      <3> HIDE DEF first, last, this, final
      <3>4. first <= this
        BY <3>2, <3>3, KeysCompare
      <3>5. this <= last
        BY <3>2, <3>3, KeysCompare
      <3> QED
        BY <3>4, <3>5 DEF first, last, this
    <2>5. /\ MonthNumber(Date(c.year, k, 1)) <= MonthNumber(d)
          /\ MonthNumber(d) < MonthNumber(Date(c.year, k, 1)) + MONTHS_PER_PERIOD[f]
      BY <2>1, <2>2, <2>4 DEF MonthNumber, Date
    <2> QED
      BY <2>1, <2>2, <2>5, WithinPeriod
  <1> QED
    BY <1>1
=============================================================================

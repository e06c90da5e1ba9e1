SPECIFICATION HistorySpec
CONSTANTS
  Series = {audit}
  Template = {t1, t2}
  Session = {s1, s2}
  Job = {j1, j2}
  LeadDays = 1
  PeriodDays = 1
  MaxDay = 1
  MaxPeriod = 2
  MaxChanges = 3
SYMMETRY MCSymmetry
INVARIANT TypeOK
INVARIANT UniquePeriod
INVARIANT IInv
PROPERTY LedgerSpec
PROPERTY CreatedWithItsWork

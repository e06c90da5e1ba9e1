SPECIFICATION Spec
CONSTANTS
  Series = {audit}
  Template = {t1}
  Session = {s1}
  Job = {j1}
  LeadDays = 1
  PeriodDays = 2
  MaxDay = 3
  MaxPeriod = 2
  MaxChanges = 1
SYMMETRY MCSymmetry
PROPERTY EndedSeriesNotDue

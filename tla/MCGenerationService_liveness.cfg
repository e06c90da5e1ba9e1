SPECIFICATION FairSpec
CONSTANTS
  Series = {audit, tax}
  Template = {t1}
  Session = {s1}
  Job = {j1}
  LeadDays = 1
  PeriodDays = 1
  MaxDay = 1
  MaxPeriod = 2
  MaxChanges = 2
PROPERTY NoSeriesLeftBehind

SPECIFICATION Spec
CONSTANTS
  StartYears <- MCStartYears
  LeadDays = 3
  MaxDays = 450
  MaxMissed = 40
\* the walk ends after MaxDays nights
CHECK_DEADLOCK FALSE
INVARIANT TypeOK
INVARIANT PeriodsTile
INVARIANT NeverEarly
INVARIANT IInv
PROPERTY OnTime

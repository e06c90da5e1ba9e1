SPECIFICATION Spec
CONSTANTS
  Task = {t1, t2}
  Session = {s1, s2, s3}
  MaxClock = 5
SYMMETRY MCSymmetry
\* once the MaxClock timestamps are used up nothing may be left to do
CHECK_DEADLOCK FALSE
INVARIANT TypeOK
INVARIANT CascadeAgreesAlone
INVARIANT SlotUnique
INVARIANT IInv
PROPERTY IndividualDeletionKept

SPECIFICATION Spec
CONSTANTS
  Task = {t1}
  Session = {s1, s2}
  MaxClock = 2
SYMMETRY MCSymmetry
\* once the MaxClock timestamps are used up nothing may be left to do
CHECK_DEADLOCK FALSE
INVARIANT CascadeAgrees

SPECIFICATION Spec
CONSTANTS
  Template = {t1, t2}
  Sequence = {1, 2}
  Engagement = {g1}
  Admin = {ada, abe}
  Session = {s1, s2, s3}
  Unborn = Unborn
  Gone = Gone
  Idle = Idle
SYMMETRY MCSymmetry
\* once every template id and engagement is used nothing may be left to do
CHECK_DEADLOCK FALSE
INVARIANT NoDanglingReference
INVARIANT SequenceUnique
INVARIANT SomeoneGoesOn
INVARIANT IInv
PROPERTY LedgerSpec

SPECIFICATION FairSpec
CONSTANTS
  ada = ada
  mia = mia
  tom = tom
  User <- MCUser
  RoleOf <- MCRoleOf
  NoUser = NoUser
  Unset = Unset
  Togglable = {tom}
  Task = {t1}
  Session = {s1, s2}
  MaxReviews = 2
INVARIANT TypeOK
INVARIANT StaffingAgrees
INVARIANT LedgerAgrees
INVARIANT IInv
PROPERTY DecidedByAuthority
PROPERTY DeletedIsFrozen
PROPERTY LifecycleSpec
PROPERTY RequestsEnd

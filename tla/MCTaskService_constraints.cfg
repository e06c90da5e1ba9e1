SPECIFICATION Spec
CONSTANTS
  ada = ada
  mia = mia
  tom = tom
  User <- MCUser
  RoleOf <- MCRoleOf
  NoUser = NoUser
  Unset = Unset
  Togglable = {tom}
  Task = {t1}
  Session = {s1}
  MaxReviews = 1
INVARIANT ConstraintsTranslated

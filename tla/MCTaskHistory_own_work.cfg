SPECIFICATION HistorySpec
CONSTANTS
  ada = ada
  mia = mia
  tom = tom
  User <- MCUser
  RoleOf <- MCRoleOf
  NoUser = NoUser
  Unset = Unset
  Togglable = {}
  Task = {t1}
  Session = {s1}
  MaxReviews = 1
PROPERTY NobodyApprovesOwnWork

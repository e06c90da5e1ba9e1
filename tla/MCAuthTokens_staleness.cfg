SPECIFICATION Spec
CONSTANTS
  User = {mia}
  Role = {manager, team_member}
  AccessLifetime = 2
  RefreshLifetime = 3
  Latency = 1
  MaxClock = 6
SYMMETRY MCSymmetry
\* the user may end inactive, with no token, when time has stopped
CHECK_DEADLOCK FALSE
INVARIANT IInv
INVARIANT BoundedStaleness
PROPERTY OnlyRecentlyActive

SPECIFICATION Spec
CONSTANTS
  Clients <- AllClients
  Sockets = {s1, s2, s3}
  Timers = {t1, t2}
  Routes = {r1, r2}
  Default = {r1}
  BusRoute = r1
  None = None
  MaxPos = 2
  MaxDown = 2
  MaxMounts = 2
INVARIANTS FollowedWhenOpen PhoneStatusIsTrue
PROPERTIES NeverBack Reconnects
CHECK_DEADLOCK FALSE

SPECIFICATION Spec
CONSTANTS
  Places <- ThreePlaces
  Readings <- Fixes
  Stops <- BothEnds
  Buses = {b1}
  BusPlaces <- OneEnd
  StopRadius = 0
  SearchRadius = 1
  Refetch = 2
  AlertRadius = 0
  Limit = 50
  Permissions = {"granted", "denied"}
  Slots = {k1, k2}
  None = None
  MaxTurns = 3
INVARIANTS AlertsAreForTheStop NoStopMissed PollsWhenNeeded NeverGivesUp
CHECK_DEADLOCK FALSE

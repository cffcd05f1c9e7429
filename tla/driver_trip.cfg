SPECIFICATION Spec
CONSTANTS
  Buses = {b1}
  Routes = {r1, r2}
  Statuses <- BusStatuses
  NoTrip = NoTrip
  MaxActs = 4
  MaxCalls = 3
  MaxFirings = 1
SYMMETRY Symmetry
INVARIANTS TrackingFollowsTheTrip PositionsAreOfTheTrip NoBusLeftRunning
CHECK_DEADLOCK FALSE

\* Three players, their ships, and what may cross on the way.
SPECIFICATION Spec
CONSTANTS
  MaxSlots = 3
  NoShip = NoShip
  NotCached = NotCached
  MaxShips = 2
  Courses <- SomeCourses
INVARIANT ClientsShowTheShips
CHECK_DEADLOCK FALSE

SPECIFICATION Spec
CONSTANTS
  Customers = {}
  Pans = {p1}
  Cards = {k1}
  MaxRows = 2
  MaxBookings = 0
  MaxTries = 2
  Closes = TRUE
  Loses = TRUE
  c1 = c1
  k1 = k1
  p1 = p1
INVARIANTS IdsUnique BooksFollowCharger
PROPERTIES SessionMovesForward StartedIsStopped
CHECK_DEADLOCK FALSE

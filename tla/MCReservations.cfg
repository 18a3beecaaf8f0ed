SPECIFICATION SafeSpec
CONSTANTS
  Customers = {c1, c2}
  Pans = {}
  Cards = {}
  MaxRows = 1
  MaxBookings = 2
  MaxTries = 1
  Closes = FALSE
  Loses = FALSE
  c1 = c1
  c2 = c2
SYMMETRY Symmetry
INVARIANT OneBooking
PROPERTIES ReservationHolds
CHECK_DEADLOCK FALSE

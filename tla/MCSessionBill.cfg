SPECIFICATION SafeSpec
CHECK_DEADLOCK FALSE
CONSTANTS
  BaseRate = 20
  ParkingRate = 10
  PeakRate = 10
  PeakFrom = 0
  PeakTo = 1
  Penalty = 10
  Discount = 10
  TaxRate = 5
  UpperLimit = 45
  LowerLimit = 15
  MaxAmount = 40
  Kinds = {"card", "prepaid"}
  m1 = m1
  m2 = m2
  Meters = {m1, m2}
  MaxReadings = 2
  MaxStops = 2
  MaxFailures = 1
  MaxTime = 1
SYMMETRY Symmetry
INVARIANTS WithinPreauth RevenueIsCaptured  PrepaidAddsUp

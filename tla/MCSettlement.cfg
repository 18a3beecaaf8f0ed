SPECIFICATION Spec
CONSTANTS
  Sessions = {t1, t2}
  Partners = {p1, p2}
  Crons = {r1}
  Calls = {g1}
  Admins = {a1, a2}
  Amounts = {1, 2}
  MaxCalcs = 2
  MaxSettlements = 2
  MaxBusy = 2
  MaxTransfers = 2
  MaxFails = 1
  t1 = t1
  t2 = t2
  p1 = p1
  p2 = p2
  r1 = r1
  g1 = g1
  a1 = a1
  a2 = a2
SYMMETRY Symmetry
INVARIANTS PaidOnce SettlementsAddUp PaidIsTransferred TransferredIsSettled
CHECK_DEADLOCK FALSE

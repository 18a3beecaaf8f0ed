SPECIFICATION SafeSpec
CHECK_DEADLOCK FALSE
CONSTANTS
  r1 = r1
  r2 = r2
  d1 = d1
  d2 = d2
  q1 = q1
  q2 = q2
  Rollouts = {r1, r2}
  Devices = {d1, d2}
  Requests = {q1, q2}
  Events = {"COMPLETED", "FAILED"}
  EditedLists = {{d1, d2}}
  MaxBusy = 2
  MaxPlays = 2
  MaxOdd = 1
SYMMETRY Alike
INVARIANTS OneActiveRollout  BackInService OwedIsTold

SPECIFICATION SafeSpec
CHECK_DEADLOCK FALSE
CONSTANTS
  r1 = r1
  r2 = r2
  c1 = c1
  c2 = c2
  Rollouts = {r1, r2}
  Chargers = {c1, c2}
  Fleet <- BothAndOne
  MaxBusy = 2
  MaxBoots = 1
  MaxOdd = 1
INVARIANTS OneAtATime InstalledIsReal EndIsSummed SentWasTold

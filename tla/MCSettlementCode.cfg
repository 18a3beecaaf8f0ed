SPECIFICATION Spec
CONSTANTS
  Callers = {g1, g2}
  Codes = {k1, k2, k3, k4}
  MaxTaken = 3
  g1 = g1
  g2 = g2
  k1 = k1
  k2 = k2
  k3 = k3
  k4 = k4
PROPERTY UniqueCodeGenerated
CHECK_DEADLOCK FALSE

SPECIFICATION Spec
CONSTANTS
  i1 = i1
  c1 = c1
  c2 = c2
  k1 = k1
  Identities = {i1}
  Conns = {c1, c2}
  IdentityOf <- MCIdentityOf
  Calls = {k1}
  AllowExternal = FALSE
  MaxInbox = 1
  MaxApiDeletes = 1
  MaxRestarts = 1
  NoConn = NoConn
INVARIANTS NewestKeepsEntry
PROPERTIES RegistrationHealsRows LiveChargerIsReachable 
CHECK_DEADLOCK FALSE

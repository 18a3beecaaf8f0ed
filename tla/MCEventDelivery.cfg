SPECIFICATION DeliverySpec
CONSTANTS
  Events = {1, 2}
  MaxRetries = 3
  MaxCrashes = 1
INVARIANTS ExecutionsBounded OrderKept
 
CHECK_DEADLOCK FALSE

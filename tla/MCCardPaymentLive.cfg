SPECIFICATION Spec
CHECK_DEADLOCK FALSE
CONSTANTS
  Clients = {}
  Providers = {"moneris", "littlepay"}
  Sweepers = {"cron"}
  MaxStops = 2
  MaxCrashes = 1
PROPERTIES StoppedSessionSettles RevenueFollows

SPECIFICATION Spec
CONSTANTS
  Events = {"e1", "e2"}
  Reported = {"Available", "Faulted"}
  Settable = {"disabled"}
  Parties = {"monitor", "operator", "activator", "rollout", "device"}
  MaxBusy = 2
  Started = FALSE
PROPERTIES InoperativeHolds OfflineIsSilent FaultHolds SilentGoesOffline HeartbeatRevives
CHECK_DEADLOCK FALSE

\* One caller of usque_tunnel_stop: does the run loop end?
CONSTANTS
  signal = signal
  thread = thread
  Callers <- MCCallers
  AutoRoute = TRUE
  MaxFailures = 1
  MaxStops = 1
SPECIFICATION FairSpec
PROPERTIES
  StopEndsRun
CHECK_DEADLOCK FALSE

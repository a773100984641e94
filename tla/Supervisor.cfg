\* The run loop with two callers of usque_tunnel_stop, up to three failed
\* attempts.  A destroyed or aborted tunnel has no further step.
CONSTANTS
  signal = signal
  thread = thread
  Callers <- MCCallers
  AutoRoute = TRUE
  MaxFailures = 3
  MaxStops = 3
SPECIFICATION FairSpec
INVARIANTS
  TypeOK
  NoDescriptorLeak
  LeakPaidByFailures
  WatchersServed
  HandlesSoundUntilExit
  ExitNeedsStop
  NeverReturns
PROPERTIES
  StopHeard
CHECK_DEADLOCK FALSE

\* Two threads, two calls each, in every overlap; three devices, three
\* packets of the host.  After the last call, and after the last device,
\* nothing more happens.
CONSTANTS
  t1 = t1
  t2 = t2
  Senders <- MCSenders
  MaxCalls = 2
  MaxDevices = 3
  MaxArrivals = 3
SPECIFICATION MCSpec
INVARIANTS
  TypesOK
  LoneCallWhole
  DeviceAccounted
PROPERTIES
  SlotDrains
  RingDrained
  AttemptEnds
CHECK_DEADLOCK FALSE

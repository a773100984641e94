\* Two threads with one call each: is every packet the engine reads a packet
\* that was submitted?
CONSTANTS
  t1 = t1
  t2 = t2
  Senders <- MCSenders
  MaxCalls = 1
SPECIFICATION Spec
INVARIANTS
  CallsArriveWhole
CHECK_DEADLOCK FALSE

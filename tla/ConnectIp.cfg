\* One packet of every kind, followed until it is dropped; five units of
\* stream data in packets of two, with credit and congestion window for less
\* or for all of it.  A dropped packet and a write loop that spins are final.
CONSTANTS
  Packets <- MCPackets
  Datagrams <- MCDatagrams
  NoiseSizes = {0, 100, 1479, 1480, 1481}
  NoiseRests = {62079, 193149}
  Buffer = 1500
  Capacity = 2
  Request = 2
  MaxRoom = 2
  MaxCredit = 5
SPECIFICATION MCSpec
INVARIANTS
  TypesOK
  HopsPaid
  ChecksumSound
  ComposedParses
  BytesOnce
PROPERTIES
  LoopEnds
  RequestWritten
CHECK_DEADLOCK FALSE

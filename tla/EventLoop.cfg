\* One connection, every loss pattern; three tunnels, any stage failing.
\* After on_stop nothing more happens once the network is empty, nor after
\* the last tunnel.
CONSTANT MaxTunnels = 3
SPECIFICATION MCSpec
INVARIANTS
  TypesOK
  TimerStaysArmed
  TunnelAccounted
PROPERTIES
  LossRecovered
  PostNoiseOnce
CHECK_DEADLOCK FALSE

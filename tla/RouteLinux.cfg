\* Four attempts on Linux, three on the BSDs, with crashes, reboots, other
\* accounts and changes of the network.
CONSTANTS
  eth0 = eth0
  wlan0 = wlan0
  Ifaces <- MCIfaces
  Score <- MCScore
  Tun = Tun
  None = None
  Endpoints = {e1, e2}
  NoEndpoint = NoEndpoint
  MaxAttempts = 4
  Gateways = {g1, g2}
  NoGateway = NoGateway
  MaxSetups = 3
SPECIFICATION MCSpec
INVARIANTS
  TypesOK
  LinuxFileKept
  OneRuleWhileGuarded
  BsdFileKept
  BypassBeforeTunnel

\* No repeated replies and more queries than the array holds: is every reply
\* of the hijack target restored?
CONSTANTS
  c1 = c1
  c2 = c2
  s1 = s1
  s2 = s2
  hijack = hijack
  Clients <- MCClients
  Servers <- MCServers
  Target <- hijack
  MaxPending = 3
  MaxQueries = 4
  MaxRepeats = 0
SPECIFICATION Spec
INVARIANTS
  EveryReplyRestored

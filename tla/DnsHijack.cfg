\* Room for three mappings and five queries: the array fills up and is used
\* again after removals.
CONSTANTS
  c1 = c1
  c2 = c2
  s1 = s1
  s2 = s2
  hijack = hijack
  Clients <- MCClients
  Servers <- MCServers
  Target <- hijack
  MaxPending = 3
  MaxQueries = 5
  MaxRepeats = 2
SPECIFICATION Spec
INVARIANTS
  TypeOK
  RestoredIsAsked
  NoneForgotten
PROPERTIES
  ImplementsNat

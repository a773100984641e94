\* As ConfigStore.cfg.
CONSTANTS
  p1 = p1
  p2 = p2
  Procs <- MCProcs
  Devices = {d1, d2}
  NoKey = NoKey
  Edits <- MCEdits
  MaxDns = 2
SPECIFICATION Spec
SYMMETRY Symmetry
INVARIANTS
  SavedLoads

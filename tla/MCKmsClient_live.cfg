SPECIFICATION LiveSpec

CONSTANTS
  g1 = g1
  g2 = g2
  Nobody = Nobody
  Callers <- TwoCallers
  Backends <- AllBackends
  Operations <- AllOperations
  Faults <- AllFaults
  Shapes <- FullOnly
  MaxGrants = 6
  MaxDisruptions = 2

INVARIANTS
  GrantsPerDisruption
PROPERTIES
  CallsRecover
  EveryCallReturns

SPECIFICATION Spec

CONSTANTS
  g1 = g1
  g2 = g2
  Nobody = Nobody
  Callers <- TwoCallers
  Backends <- OnlySelf
  Operations <- OnlyCalls
  Faults <- OnlyRevoke
  Shapes <- FullOnly
  MaxGrants = 4
  MaxDisruptions = 1

INVARIANTS
  OneGrantPerDisruption

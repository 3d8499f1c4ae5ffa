SPECIFICATION NoTimeoutSpec

CONSTANTS
  g1 = g1
  g2 = g2
  Nobody = Nobody
  Callers <- TwoCallers
  Backends <- OnlySelf
  Operations <- OnlyCalls
  Faults <- OnlyCancel
  Shapes <- FullOnly
  MaxGrants = 2
  MaxDisruptions = 1

PROPERTIES
  CancelledCallReturns

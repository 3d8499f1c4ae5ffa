SPECIFICATION Spec

CONSTANTS
  g1 = g1
  g2 = g2
  Nobody = Nobody
  Callers <- TwoCallers
  Backends <- OnlyKeycloak
  Operations <- AllOperations
  Faults <- NoFaults
  Shapes <- FullOnly
  MaxGrants = 2
  MaxDisruptions = 1

INVARIANTS
  LoginFollowsLogout

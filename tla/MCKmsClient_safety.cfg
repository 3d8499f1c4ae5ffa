SPECIFICATION Spec

CONSTANTS
  g1 = g1
  g2 = g2
  Nobody = Nobody
  Callers <- TwoCallers
  Backends <- AllBackends
  Operations <- AllOperations
  Faults <- AllFaults
  Shapes <- SomeShapes
  MaxGrants = 3
  MaxDisruptions = 3

SYMMETRY Symmetry
INVARIANTS
  TypeOK
  ReplayIsFresh
  UnauthorizedIsGenuine
  SelfManagedLoginFollowsLogout
PROPERTIES
  NewestGrantKept
  CallsAreOneShot

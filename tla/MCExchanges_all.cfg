SPECIFICATION Spec

CONSTANTS
  Backends <- AllBackends
  Properties <- SomeProperties
  CallMethods <- SomeMethods
  Correlations <- WithId
  TokenNames <- SomeTokenNames
  TokenErrors <- SomeTokenErrors
  AuthStatuses <- EveryStatus
  APIErrors <- SomeAPIErrors
  Statuses <- ErrorStatuses
  MaxGrants = 3
  MaxDisruptions = 2

INVARIANTS
  TypeOK
  ResultComesWithSuccess
  CodeIsReliable
  LoginFollowsRejection
  BearerIsTheNamedProperty
  AttemptsAreAlike
PROPERTIES
  ErrorsAreOneShot

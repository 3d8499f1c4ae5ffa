SPECIFICATION Spec

CONSTANTS
  Backends <- OnlyKeycloak
  Properties <- OnlyDefault
  CallMethods <- OnlyDelete
  Correlations <- WithId
  TokenNames <- JustAccess
  TokenErrors <- Overriding
  AuthStatuses <- ErrorStatuses
  APIErrors <- OnlyStandard
  Statuses <- ErrorStatuses
  MaxGrants = 2
  MaxDisruptions = 1

INVARIANTS
  LoginFollowsRejection

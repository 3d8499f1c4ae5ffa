SPECIFICATION Spec

CONSTANTS
  PageSize = 2
  MaxItems = 4
  Orders <- OnlySorted
  Envelopes <- OnlyFull
  Changes <- AnyChange

INVARIANTS
  SurvivorsAreListed

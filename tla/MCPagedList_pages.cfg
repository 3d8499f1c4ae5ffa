SPECIFICATION Spec

CONSTANTS
  PageSize = 2
  MaxItems = 5
  Orders <- AnyOrder
  Envelopes <- AnyEnvelope
  Changes <- AnyChange

INVARIANTS
  TypeOK
  UnchangedListIsExact
  OneLostPerDeletion
  RequestsAreBounded

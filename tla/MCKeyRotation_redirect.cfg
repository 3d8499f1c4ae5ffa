SPECIFICATION Spec

CONSTANTS
  r1 = r1
  r2 = r2
  Rotators <- TwoRotators
  Views <- AnyView
  Answers <- AnyAnswer
  MaxKeys = 4

SYMMETRY Symmetry

INVARIANTS
  UnknownMeansRotated

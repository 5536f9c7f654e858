CONSTANTS
  o1 = o1
  o2 = o2
  o3 = o3
  a1 = a1
  a2 = a2
  g1 = g1
  NoGeneration = NoGeneration
  Ops <- MCOps
  Actors <- MCActors
  Generations <- MCGenerations
  ReviewTimes <- MCReviewTimes
  MAX_OPERATIONS = 2
  MaxRevision = 2
  MaxTime = 3
SYMMETRY TableSymmetry
SPECIFICATION TableSpec
INVARIANTS
  ResultTruthful
  ExpiryIsReal
PROPERTIES
  KeepsPromise

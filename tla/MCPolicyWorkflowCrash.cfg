CONSTANTS
  o1 = o1
  o2 = o2
  o3 = o3
  o4 = o4
  a1 = a1
  a2 = a2
  u1 = u1
  u2 = u2
  d1 = d1
  d2 = d2
  NoGeneration = NoGeneration
  NotInstalled = NotInstalled
  NoOp = NoOp
  Torn = Torn
  Ops <- ThreeOps
  Actors <- OneActor
  Uids <- OneUid
  ActorUid <- OwnActor
  Directories <- OneDirectory
  DirectoryOwner <- OwnDirectory
  Registered <- OneDirectory
  MAX_OPERATIONS = 3
  MAX_PENDING = 2
  MAX_ACTIVE = 2
  MAX_CONTEXTS = 3
  QUEUE = 1
  REVIEW_TIME = 2
  WAIT = 1
  TICKET_LEASE = 1
  MaxGeneration = 1
  MaxTime = 0
  MaxExits = 0
  MaxCrashes = 1
SYMMETRY OpSymmetry
CHECK_DEADLOCK FALSE
SPECIFICATION WorkflowSpec
INVARIANTS
  KernelWithinReviewed
PROPERTIES
  OnlyOwnOperationActivates

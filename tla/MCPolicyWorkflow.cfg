CONSTANTS
  o1 = o1
  o2 = o2
  o3 = o3
  o4 = o4
  a1 = a1
  a2 = a2
  u1 = u1
  u2 = u2
  d1 = d1
  d2 = d2
  NoGeneration = NoGeneration
  NotInstalled = NotInstalled
  NoOp = NoOp
  Torn = Torn
  Ops <- TwoOps
  Actors <- OneActor
  Uids <- OneUid
  ActorUid <- OwnActor
  Directories <- OneDirectory
  DirectoryOwner <- OwnDirectory
  Registered <- OneDirectory
  MAX_OPERATIONS = 2
  MAX_PENDING = 2
  MAX_ACTIVE = 2
  MAX_CONTEXTS = 2
  QUEUE = 1
  REVIEW_TIME = 2
  WAIT = 1
  TICKET_LEASE = 1
  MaxGeneration = 2
  MaxTime = 3
  MaxExits = 1
  MaxCrashes = 0
SYMMETRY OpSymmetry
CHECK_DEADLOCK FALSE
SPECIFICATION WorkflowSpec
INVARIANTS
  OneCommitPerReview
  NoOrphanRunning
  ResidualIsReported
PROPERTIES
  CompletedIsEffective
  UsesOperationTable

CONSTANTS
  o1 = o1
  o2 = o2
  o3 = o3
  o4 = o4
  a1 = a1
  a2 = a2
  u1 = u1
  u2 = u2
  d1 = d1
  d2 = d2
  NoGeneration = NoGeneration
  NotInstalled = NotInstalled
  NoOp = NoOp
  Torn = Torn
  Ops <- TwoOps
  Actors <- OneActor
  Uids <- OneUid
  ActorUid <- OwnActor
  Directories <- OneDirectory
  DirectoryOwner <- OwnDirectory
  Registered <- NoDirectory
  MAX_OPERATIONS = 2
  MAX_PENDING = 2
  MAX_ACTIVE = 2
  MAX_CONTEXTS = 2
  QUEUE = 1
  REVIEW_TIME = 1
  WAIT = 1
  TICKET_LEASE = 1
  MaxGeneration = 1
  MaxTime = 1
  MaxExits = 1
  MaxCrashes = 1
CHECK_DEADLOCK FALSE
SPECIFICATION FairWorkflowSpec
INVARIANTS
  LabelsAreJournaled
PROPERTIES
  StartedWorkEnds

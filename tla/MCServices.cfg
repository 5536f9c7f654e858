CONSTANTS
  w1 = w1
  w2 = w2
  r1 = r1
  r2 = r2
  s1 = s1
  s2 = s2
  h1 = h1
  disk1 = disk1
  disk2 = disk2
  repo1 = repo1
  repo2 = repo2
  usb1 = usb1
  usb2 = usb2
  a1 = a1
  f1 = f1
  f2 = f2
  Workers <- MCWorkers
  Refreshers <- MCRefreshers
  MaxBoots = 2
  Snapshots <- MCSnapshots
  MaxVersion = 2
  MaxInstalls = 3
  MAX_HISTORY = 1
  MaxPoints = 4
  KEEP_POINTS = 2
  Helpers <- MCHelpers
  Destinations <- MCDestinations
  Repositories <- MCRepositories
  NoRepository = NoRepository
  Overlap = FALSE
  MaxEvents = 3
  MaxNow = 4
  RETENTION = 2
  MAX_ROOT_SPOOL_EVENTS = 2
  MIGRATION_LIMIT = 1
  Devices <- MCDevices
  Syncers <- MCSyncers
  UsbDevices <- MCDevices
  MaxId = 2
  MaxOwner = 2
  Legacy = 2
  MaxItem = 5
  MAX_ITEMS = 3
  Conditions <- MCConditions
  DAY = 2
  STABILITY = 1
  MaxClock = 4
  MaxNotification = 2
  MaxOwners = 2
  MaxRecord = 2
  MaxFile = 3
  KEEP = 1
  BATCH = 2
  MaxCheck = 8
  FRESH = 1
  QUIET = 1
  HEARTBEAT = 2
  Actors <- MCActors
  MaxLife = 2
  MaxReference = 1
  MaxDenial = 2
  RETAIN = 1
  LIMIT = 1
  StartupFiles <- MCStartupFiles
  MaxContent = 2
  MaxScans = 3
  MAX_EVENTS = 2
  MaxRelease = 2
SPECIFICATION ServicesSpec
CHECK_DEADLOCK FALSE
INVARIANTS
  RefreshNotStuck
  EvidenceGoesForward
  RecordIsOfItsRepository
  FindingsFollowDevices
  ClearedStaysCleared
  LossIsReported
  ShownActiveIsRecent
  DenialsAreKept
  ChangeIsNotForgotten
PROPERTIES
  CompletePointKept
  ResolvedStaysResolved
  OneReminderADay
  UndoneIsAsBefore

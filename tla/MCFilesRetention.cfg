CONSTANTS
  threat = threat
  other = other
  q1 = q1
  q2 = q2
  s1 = s1
  s2 = s2
  f1 = f1
  f2 = f2
  NoFile = NoFile
  NoId = NoId
  Threat = threat
  Contents <- MCContents
  QuarantineIds <- MCQuarantineIds
  MaxQueued = 2
  Scans <- MCScans
  MaxVersion = 2
  MaxGeneration = 2
  Files <- MCFileNames
  RootOf <- MCRootOf
  MAX_QUEUE = 1
  MAX_EVENTS = 1
  MaxClock = 3
SPECIFICATION FilesSpec
CHECK_DEADLOCK FALSE
INVARIANTS
  QuarantinedCanBeHandled

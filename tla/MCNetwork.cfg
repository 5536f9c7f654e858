CONSTANTS
  lasting = lasting
  timed = timed
  booted = booted
  app = app
  t1 = t1
  t2 = t2
  h1 = h1
  h2 = h2
  home = home
  office = office
  dock = dock
  site = site
  tunnel = tunnel
  quad9 = quad9
  mullvad = mullvad
  NoValue = NoValue
  PermanentRules <- MCPermanent
  TimedRules <- MCTimed
  BootRules <- MCBoot
  ApplicationRules <- MCApplication
  Reviews <- MCReviews
  MaxRevision = 4
  UserRules <- MCUserRules
  MaxPolicies = 3
  Threads <- MCThreads
  MAX_NETWORK_ACTIVITY = 2
  Networks <- MCNetworks
  Kind <- MCKind
  IfIndex <- MCIfIndex
  ProviderOrder <- MCProviderOrder
SPECIFICATION NetworkingSpec
SYMMETRY MCSymmetry
CHECK_DEADLOCK FALSE
INVARIANTS
  
  DnsPolicyHolds
  NoOrphanScope
PROPERTIES
  SavedOnReviewedPolicy

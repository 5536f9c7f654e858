CONSTANTS
  alice = alice
  bob = bob
  app = app
  call = call
  Accounts <- MCAccounts
  MaxLogin = 3
  MaxAdministrations = 2
  SensorKinds <- MCSensorKinds
  Apps <- MCApps
  MaxChanges = 2
  MAX_RECENT_EVENTS = 1
  MAX_SHOWN = 1
SPECIFICATION SessionsSpec
CHECK_DEADLOCK FALSE
PROPERTIES
  RollbackRestores
  StartsOnEmptySeat
  LockIsShown
  SourcesAreShown

CONSTANTS
  u1 = u1
  u2 = u2
  r1 = r1
  r2 = r2
  d1 = d1
  d2 = d2
  g1 = g1
  g2 = g2
  i1 = i1
  i2 = i2
  i3 = i3
  rpm = rpm
  flatpak = flatpak
  c1 = c1
  c2 = c2
  NotInstalled = NotInstalled
  Uids <- MCUids
  ResourceRefs <- MCResourceRefs
  Objects <- MCObjects
  GrantRefs <- MCGrantRefs
  Installations <- MCInstallations
  InstallationOwner <- MCInstallationOwner
  Providers <- MCProviders
  InstallationProvider <- MCInstallationProvider
  Generations <- MCGenerations
  MAX_POLICY_RESOURCES = 2
  MAX_POLICY_GRANTS = 2
  MAX_INSTALLATION_GRANTS = 1
  MAX_APPLICATIONS = 2
  MaxRevision = 6
  MaxInventory = 2
SYMMETRY StoreSymmetry
SPECIFICATION StoreSpec
INVARIANTS
  StoreReadable
  OneChangePerRevision

SPECIFICATION FairSpec
CONSTANTS
  Schemes <- MCInverted
  Manifests <- MCManifests
  CheckinInterval = 3
  RetryInterval = 2
  StoreMayFail = FALSE
  NoList = NoList
  CorruptList = CorruptList
  NoManifest = NoManifest
  CorruptManifest <- MCCorruptManifest
  MaxTime = 3
  MaxUpdates = 2
  MaxCrashes = 1
INVARIANTS DiskCoversLoaded
PROPERTIES KeepsUp
CHECK_DEADLOCK FALSE

SPECIFICATION Spec
CONSTANTS
  Schemes <- MCSchemes
  Manifests <- MCTwoManifests
  CheckinInterval = 3
  RetryInterval = 2
  StoreMayFail = TRUE
  NoList = NoList
  CorruptList = CorruptList
  NoManifest = NoManifest
  CorruptManifest <- MCCorruptManifest
  MaxTime = 3
  MaxUpdates = 3
  MaxCrashes = 1
INVARIANTS MapsAgree TimelineKept HandOversKept
PROPERTIES ManifestSwitch
CHECK_DEADLOCK FALSE

SPECIFICATION EitherSpec
CONSTANTS
  Signals = {s1, s2}
  Frames = {f1}
  SignalValues = {0, 1}
  FrameSizes = {1, 2}
  Matrices <- SafetyMatrices
  MaxConditions = 2
  MaxSamples = 3
  SendOnce = TRUE
  NoData = NoData
  MaxTime = 3
  MaxRecorded = 3
  WindowSizes = {1, 2}
  Values <- WindowValues
  Highest = 9
  WindowTime = 6
  WindowSamples = 3
  s1 = s1
  s2 = s2
  f1 = f1
INVARIANTS RingHoldsLatest UnmarkedDoesNotHold WindowsKept
PROPERTIES PublishedInFull TriggeredServed

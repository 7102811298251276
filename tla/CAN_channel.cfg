SPECIFICATION FairSpec
CONSTANTS
  SocketSize = 2
  BufferSize = 1
  Batch = 1
  mTimestampTypeToUse = "KERNEL_SOFTWARE_TIMESTAMP"
  MaxFrames = 2
  MaxChanges = 2
  MaxTime = 2
CHECK_DEADLOCK FALSE
INVARIANTS DictionaryThere WakeNotLost
PROPERTIES BufferKept ThreadsComeToRest

SPECIFICATION FairSpec
CONSTANTS
  ChannelCount = 2
  AckOutcomes = {"granted", "rejected", "error"}
  MaxRefusals = 3
  MaxInterrupts = 2
INVARIANTS PromisesUsedOnce DestructionClean
PROPERTIES ConnectionSettles
CHECK_DEADLOCK FALSE

SPECIFICATION FairSpec
CONSTANTS
  ChannelCount = 1
  AckOutcomes = {"granted", "rejected", "error"}
  MaxRefusals = 0
  MaxInterrupts = 0
PROPERTIES SubscribeReturns
CHECK_DEADLOCK FALSE

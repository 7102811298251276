SPECIFICATION FairSpec
CONSTANTS
  PIDs <- MCPIDs
  SecondRange <- MCSecondRange
  Reported <- MCReported
  Dictionaries <- MCDictionaries
  ECUs = {"engine", "transmission"}
  MAX_PID_RANGE = 2
  PIDInterval = 1
  DTCInterval = 1
  MaxChanges = 2
  MaxLate = 1
  MaxLost = 0
CHECK_DEADLOCK FALSE
INVARIANTS RequestsSupported WakeNotLost
PROPERTIES AllAsked RoundsServed

SPECIFICATION FairSpec
CONSTANTS
  Ids = {1, 2}
  Reconnecting = {1}
  Overlapping = {2}
  MaxReports = 4
CHECK_DEADLOCK FALSE
INVARIANTS ReportNotLost NoneLeftRunning
PROPERTIES BinderKeepsUp

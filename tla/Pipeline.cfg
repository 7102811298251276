SPECIFICATION FairSpec
CONSTANTS
  Producers = {p1}
  Inputs <- MCInputs
  Worker = worker
  Engine = engine
  BatchSize = 2
  OutputSize = 1
  Width = 8
  MaxTime = 2
  MaxSamples = 2
  MaxPackages = 2
  MaxMatrices = 1
CHECK_DEADLOCK FALSE
INVARIANTS FillMetricTrue EvaluatedBeforeSleep NothingOverlooked
PROPERTIES Served

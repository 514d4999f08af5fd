SPECIFICATION FairSpec
CONSTANTS
  r1 = r1
  r2 = r2
  test = test
  deploy = deploy
  deploy2 = deploy2
  Run = {r1, r2}
  Job = {test, deploy, deploy2}
  RunOf <- MCRunOf
  DeployJob = {deploy, deploy2}
  MaxFaults = 2
  MaxNet = 2
INVARIANTS
  DeployedOnce
  GaugeIsTrue
PROPERTIES
  RunsTold
CHECK_DEADLOCK FALSE

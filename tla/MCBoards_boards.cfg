SPECIFICATION FairSpec
CONSTANTS
  FirstIncident = i1
  FirstRun = r1
  Incident = {i1, i2}
  Legacy = {i2}
  Run = {r1, r2}
  Recent = 1
  Earlier <- MCEarlier
  Working <- MCWorking
  Runbook = {"b1"}
  Press = {p1, p2}
  Exam = {e1, e2}
  Scenario <- MCScenario
  Verdict <- MCVerdict
  Start = {"overview", "oncall", "incidents", "runbooks", "scorecard"}
  MaxActs <- MCMaxActs
  None = None
  NoExam = NoExam
INVARIANTS
  InterruptedIsOver
  ButtonIsOwn
PROPERTIES
  QuietIsTrue
  GateReachesIncident
  UngradedCostNothing
CHECK_DEADLOCK FALSE

SPECIFICATION FairSpec
CONSTANTS
  Req = {r1, r2}
  p1 = p1
  p2 = p2
  h1 = h1
  h2 = h2
  c1 = c1
  c2 = c2
  c3 = c3
  HashOf <- MCHashOf
  ScoreOf <- MCScoreOf
  Prompt = {p1, p2}
  TopK = 2
  Concurrency = 1
  MaxFaults = 2
  None = None
INVARIANTS
  RunsPaired
  ServedIsWhole
  AnsweredFromOwn
PROPERTIES
  EverythingEnds
CHECK_DEADLOCK FALSE

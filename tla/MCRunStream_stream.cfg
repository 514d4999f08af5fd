SPECIFICATION FairSpec
CONSTANTS
  Turn = {t1, t2}
  Reader = {c1, c2}
  State = {s1, s2, s3}
  MaxTokens = 1
  MaxFaults = 1
  None = None
INVARIANTS
  DeliveryAccounted
  DoneIsRecorded
PROPERTIES
  StreamsEnd
CHECK_DEADLOCK FALSE

SPECIFICATION FairSpec
CONSTANTS
  Tool = {t1, t2}
  Artifact = {a1}
  Gate = {g1}
  Poll = {p1, p2}
  Grant = {w1}
  Model = {m0, m1}
  Put = {u1, u2}
  MaxActs = 4
  None = None
  NoGate = NoGate
  Unknown = Unknown
INVARIANTS
  FeedsAgree
  DisplaysStored
PROPERTIES
  LockReleases
  DecidedLeaves
  PendingIsShown
CHECK_DEADLOCK FALSE

SPECIFICATION FairSpec
CONSTANTS
  Action = {a1}
  TwoPatch = {a1}
  Approval = {p1}
  Call = {c1, c2}
  Operator = {o1, o2}
  Cap = 1
  MaxNonces = 2
  MaxUses = 2
  MaxTimeouts = 0
  MaxFaults = 1
  None = None
INVARIANTS
  OnlyApproved
  WaiterTold
  SessionOwnsStatus
PROPERTIES
  DecisionArrives
CHECK_DEADLOCK FALSE

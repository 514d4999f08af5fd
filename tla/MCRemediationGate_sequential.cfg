SPECIFICATION Spec
CONSTANTS
  Action = {a1, a2}
  TwoPatch = {a1}
  Approval = {p1, p2}
  Call = {c1}
  Operator = {o1}
  Cap = 1
  MaxNonces = 3
  MaxUses = 3
  MaxTimeouts = 1
  MaxFaults = 1
  None = None
SYMMETRY GateSymmetry
INVARIANTS
  SingleUse
  RemediationsRecorded
CHECK_DEADLOCK FALSE

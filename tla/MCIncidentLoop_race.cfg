SPECIFICATION Spec
CONSTANTS
  Key = {k1}
  OnlyName = n1
  Name <- MCName
  NameOf <- MCNameOf
  Incident = {i1, i2}
  Run = {r1, r2, r3}
  Approval = {}
  Operator = {}
  Handler = {h1, h2}
  MaxEscalations = 0
  MaxFires = 1
  MaxFaults = 1
  None = None
SYMMETRY HandlerSymmetry
INVARIANTS
  OneOpenPerKey
  RunsPaidFor
PROPERTIES
  ImplementsLifecycle

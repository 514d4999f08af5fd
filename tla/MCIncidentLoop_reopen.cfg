SPECIFICATION FairSpec
CONSTANTS
  Key = {k1}
  OnlyName = n1
  Name <- MCName
  NameOf <- MCNameOf
  Incident = {i1, i2}
  Run = {r1, r2}
  Approval = {}
  Operator = {}
  Handler = {h1}
  MaxEscalations = 0
  MaxFires = 2
  MaxFaults = 1
  None = None
PROPERTIES
  FiringHasIncident

SPECIFICATION FairSpec
CONSTANTS
  Key = {k1}
  OnlyName = n1
  Name <- MCName
  NameOf <- MCNameOf
  Incident = {i1}
  Run = {r1, r2, r3}
  Approval = {p1}
  Operator = {o1}
  Handler = {h1}
  MaxEscalations = 1
  MaxFires = 1
  MaxFaults = 1
  None = None
INVARIANTS
  EscalationsBounded
  OneLiveRunPerIncident
  VerifiedWasRemediated
  SettledIsArmed
PROPERTIES
  StillFiringIsEscalated

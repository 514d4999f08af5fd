-------------------------- MODULE MCRemediationGate --------------------------
(* Instances of RemediationGate for TLC; approvals, calls and operators are *)
(* interchangeable in the runs that check safety.                           *)
EXTENDS RemediationGate, TLC

GateSymmetry ==
  Permutations(Approval) \cup Permutations(Call) \cup Permutations(Operator)

=============================================================================

--------------------------- MODULE MCIncidentLoop ---------------------------
(* Instances of IncidentLoop for TLC: every key has the same alertname, and *)
(* the webhook handlers are interchangeable in the runs that check safety. *)
EXTENDS IncidentLoop, TLC

CONSTANT OnlyName

MCName == {OnlyName}
MCNameOf == [k \in Key |-> OnlyName]

HandlerSymmetry == Permutations(Handler)

=============================================================================

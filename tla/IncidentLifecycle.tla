-------------------------- MODULE IncidentLifecycle --------------------------
(***************************************************************************)
(* What the alert loop of agent-service promises about its incidents,      *)
(* whatever the deliveries, runs and failures: one incident at a time per  *)
(* alert_key, an incident that is resolved stays resolved, at most         *)
(* MaxEscalations re-escalations, and never more investigations than the   *)
(* first one and one per re-escalation.                                    *)
(***************************************************************************)
EXTENDS Naturals

CONSTANTS Key, Incident, MaxEscalations, None

VARIABLE board  \* the incidents as an operator sees them

Unraised == [status |-> "absent", key |-> None, escalations |-> 0, runs |-> 0]

Raised(k) == [status |-> "open", key |-> k, escalations |-> 0, runs |-> 0]

Init == board = [i \in Incident |-> Unraised]

\* An alert nobody works on raises an incident.
Raise(i, k) ==
  /\ board[i] = Unraised
  /\ \A j \in Incident : board[j].status = "open" => board[j].key # k
  /\ board' = [board EXCEPT ![i] = Raised(k)]

Escalate(i) ==
  /\ board[i].status # "absent"
  /\ board[i].escalations < MaxEscalations
  /\ board' = [board EXCEPT ![i].escalations = @ + 1]

Investigate(i) ==
  /\ board[i].status # "absent"
  /\ board[i].runs < 1 + board[i].escalations
  /\ board' = [board EXCEPT ![i].runs = @ + 1]

Resolve(i) ==
  /\ board[i].status # "absent"
  /\ board' = [board EXCEPT ![i].status = "resolved"]

Next == \E i \in Incident :
  \/ \E k \in Key : Raise(i, k)
  \/ Escalate(i) \/ Investigate(i) \/ Resolve(i)

Spec == Init /\ [][Next]_board

=============================================================================

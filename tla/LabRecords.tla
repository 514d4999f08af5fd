------------------------------ MODULE LabRecords ------------------------------
(***************************************************************************)
(* What the boards of the console read, and the reads of apps/web/src/     *)
(* server.  The incidents, runs and approval gates are written by          *)
(* agent-service; the exams by ExamRunner.  Three planes answer or do not: *)
(* Postgres, agent-service and Mimir.  A read that fails is an empty list  *)
(* or null.  Rows are named by their ids; a run has at most one gate.      *)
(***************************************************************************)
EXTENDS Naturals, SequencesExt, FiniteSetsExt

CONSTANTS
  Incident,       \* rows of incidents
  Legacy,         \* the ones without an alert_key
  Run,            \* rows of agent_runs
  Earlier,        \* incidents that are open from the start, oldest first
  Working,        \* and the runs that investigate them
  Recent,         \* bound: rows the overview asks for (10 in the code)
  Runbook,        \* the files of runbooks/
  None

ASSUME RecordsAssumption ==
  /\ Legacy \subseteq Incident
  /\ Earlier \in Seq(Incident) /\ Working \in Seq(Run) /\ Len(Working) = Len(Earlier)
  /\ Recent \in Nat \ {0}
  /\ None \notin Incident \cup Run /\ Incident \cap Run = {}

Plane == {"records", "agents", "telemetry"}

VARIABLES
  up,        \* the planes that answer
  opened,    \* incidents, oldest first
  incident,  \* their status
  begun,     \* runs, oldest first
  run,       \* their status and the incident they are linked to
  asked,     \* runs that asked for an approval, oldest request first
  gate       \* agent_approvals.decision

recordVars == <<up, opened, incident, begun, run, asked, gate>>

RecordsInit ==
  /\ up = Plane
  /\ opened = Earlier
  /\ incident = [i \in Incident |-> IF i \in ToSet(Earlier) THEN "open" ELSE "none"]
  /\ begun = Working
  /\ run = [r \in Run |->
       IF r \in ToSet(Working)
       THEN [status |-> "running", of |-> Earlier[CHOOSE k \in DOMAIN Working : Working[k] = r]]
       ELSE [status |-> "none", of |-> None]]
  /\ asked = <<>>
  /\ gate = [r \in Run |-> "none"]

-----------------------------------------------------------------------------
(* The writers.                                                            *)

OpenIncident(i) ==
  /\ incident[i] = "none"
  /\ incident' = [incident EXCEPT ![i] = "open"]
  /\ opened' = Append(opened, i)
  /\ UNCHANGED <<up, begun, run, asked, gate>>

ResolveIncident(i) ==
  /\ incident[i] = "open"
  /\ incident' = [incident EXCEPT ![i] = "resolved"]
  /\ UNCHANGED <<up, opened, begun, run, asked, gate>>

\* create_run, and link_run when it investigates an incident
StartRun(r, i) ==
  /\ run[r].status = "none"
  /\ i # None => incident[i] # "none"
  /\ run' = [run EXCEPT ![r] = [status |-> "running", of |-> i]]
  /\ begun' = Append(begun, r)
  /\ UNCHANGED <<up, opened, incident, asked, gate>>

\* RunContext.request_approval: the row first, the status after it
AddApproval(r) ==
  /\ run[r].status = "running" /\ gate[r] = "none"
  /\ gate' = [gate EXCEPT ![r] = "open"]
  /\ asked' = Append(asked, r)
  /\ UNCHANGED <<up, opened, incident, begun, run>>

AwaitApproval(r) ==
  /\ run[r].status = "running" /\ gate[r] = "open"
  /\ run' = [run EXCEPT ![r].status = "awaiting_approval"]
  /\ UNCHANGED <<up, opened, incident, begun, asked, gate>>

\* decide_approval; the session goes on after it
DecideGate(r, decision) ==
  /\ gate[r] = "open"
  /\ gate' = [gate EXCEPT ![r] = decision]
  /\ UNCHANGED <<up, opened, incident, begun, run, asked>>

ResumeApproved(r) ==
  /\ run[r].status = "awaiting_approval" /\ gate[r] = "approved"
  /\ run' = [run EXCEPT ![r].status = "running"]
  /\ UNCHANGED <<up, opened, incident, begun, asked, gate>>

\* the run completes, fails or is denied, which no read tells apart; an
\* approval without a decision may be left behind
EndRun(r) ==
  /\ run[r].status \in {"running", "awaiting_approval"}
  /\ run' = [run EXCEPT ![r].status = "ended"]
  /\ UNCHANGED <<up, opened, incident, begun, asked, gate>>

PlaneFails(p) ==
  /\ p \in up
  /\ up' = up \ {p}
  /\ UNCHANGED <<opened, incident, begun, run, asked, gate>>

PlaneReturns(p) ==
  /\ p \notin up
  /\ up' = up \cup {p}
  /\ UNCHANGED <<opened, incident, begun, run, asked, gate>>

-----------------------------------------------------------------------------
(* The reads of Postgres.                                                  *)

\* a query that fails has no rows
SafeRows(rows) == IF "records" \in up THEN rows ELSE <<>>

\* order by ... desc limit n
NewestFirst(seq, n) ==
  [k \in 1..(IF Len(seq) < n THEN Len(seq) ELSE n) |-> seq[Len(seq) + 1 - k]]

DatabaseReachable == "records" \in up

IncidentRow(i) == [id |-> i, status |-> incident[i]]

RecentIncidents(limit) ==
  LET newest == NewestFirst(opened, limit)
  IN  SafeRows([k \in DOMAIN newest |-> IncidentRow(newest[k])])

IncidentById(i) ==
  IF DatabaseReachable /\ i \in Incident /\ incident[i] # "none"
  THEN IncidentRow(i) ELSE None

RunRow(r) == [id |-> r, status |-> run[r].status]

RecentAgentRunsFromDb(limit) ==
  LET newest == NewestFirst(begun, limit)
  IN  SafeRows([k \in DOMAIN newest |-> RunRow(newest[k])])

\* the undecided gates of runs in one of the statuses, newest request first
Undecided(statuses) ==
  Reverse(SelectSeq(asked, LAMBDA r : gate[r] = "open" /\ run[r].status \in statuses))

PendingApprovalsFromDb == SafeRows(Undecided({"awaiting_approval"}))

Keyed == SelectSeq(opened, LAMBDA i : i \notin Legacy)

\* toOncallIncident; the runs come from a query of their own
OncallIncident(i) == IncidentRow(i)

OncallRows ==
  LET newest == NewestFirst(Keyed, Len(Keyed))
  IN  SafeRows([k \in DOMAIN newest |-> OncallIncident(newest[k])])

\* incident_runs joined to agent_runs, in the order the runs began
OncallRunsFor(ids) ==
  LET linked == SelectSeq(begun, LAMBDA r : run[r].of \in ids)
  IN  SafeRows([k \in DOMAIN linked |->
                  [id |-> linked[k], of |-> run[linked[k]].of, status |-> run[linked[k]].status]])

OncallRow(i) ==
  IF DatabaseReachable /\ incident[i] # "none" THEN OncallIncident(i) ELSE None

\* Mutant: a gate is only looked for on a run that already awaits it.
OncallGateAwaiting(i) ==
  LET gates == SafeRows(SelectSeq(Undecided({"awaiting_approval"}), LAMBDA r : run[r].of = i))
  IN  IF gates = <<>> THEN None ELSE Head(gates)

\* limit 1; the status follows the row, so a running run has one too
OncallGate(i) ==
  LET gates == SafeRows(SelectSeq(Undecided({"awaiting_approval", "running"}),
                                  LAMBDA r : run[r].of = i))
  IN  IF gates = <<>> THEN None ELSE Head(gates)

-----------------------------------------------------------------------------
(* The other planes.                                                       *)

AgentServiceReachable == "agents" \in up

\* a refused query still proves that Mimir answers
InstantQuery == [reachable |-> "telemetry" \in up]

\* one of the queries getting through is enough
FetchGoldenSignals == InstantQuery

\* the directory is local: no plane is asked
ListRunbooks == Runbook
===============================================================================

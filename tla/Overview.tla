------------------------------- MODULE Overview -------------------------------
(***************************************************************************)
(* The overview of the console, routes/index.tsx: what it asks for and     *)
(* what it says about the answers.  `got` is what one load brought.        *)
(***************************************************************************)
EXTENDS LabRecords

OverviewQuery == {"signals", "incidents", "runs", "approvals", "records", "agents"}

\* getOverview: six reads in parallel, each at its own moment
OverviewRead(q) ==
  CASE q = "signals" -> FetchGoldenSignals
    [] q = "incidents" -> RecentIncidents(Recent)
    [] q = "runs" -> RecentAgentRunsFromDb(Recent)
    [] q = "approvals" -> PendingApprovalsFromDb
    [] q = "records" -> DatabaseReachable
    [] q = "agents" -> AgentServiceReachable

LIVE_RUN_STATUSES == {"running", "awaiting_approval"}

IsRunLive(row) == row.status \in LIVE_RUN_STATUSES

IsIncidentLive(row) == row.status # "resolved"

-----------------------------------------------------------------------------
(* The sentence at the top.                                                *)

\* the rows that make the sentence
OpenIncidents(got) == {k \in DOMAIN got["incidents"] : IsIncidentLive(got["incidents"][k])}

LiveRuns(got) == {k \in DOMAIN got["runs"] : IsRunLive(got["runs"][k])}

Summarize(got) ==
  [open |-> Cardinality(OpenIncidents(got)), approvals |-> Len(got["approvals"]),
   live |-> Cardinality(LiveRuns(got))]

\* "Nothing open.", and no sentence at all about what is not known
Nothing == [open |-> 0, approvals |-> 0, live |-> 0]

Unknown == {}

\* Mutant: the sentence is said whether or not the records answered.
HeadlineUnasked(got) == {Summarize(got)}

\* "Nothing open." can only be said when the record store answered
Headline(got) == IF got["records"] THEN {Summarize(got)} ELSE Unknown

\* the planes that are named as down
DependencyStrip(got) ==
  {p \in Plane : CASE p = "telemetry" -> ~got["signals"].reachable
                   [] p = "records" -> ~got["records"]
                   [] p = "agents" -> ~got["agents"]}

-----------------------------------------------------------------------------
(* The panels.                                                             *)

\* the gates link to their runs; decisions need the agent service
ApprovalBar(got) ==
  [gates |-> got["approvals"],
   decidable |-> got["agents"]]

\* unknown is not a measured zero
SignalStrip(got) ==
  IF got["signals"].reachable THEN "measured" ELSE "unreachable"

\* unsettled rows float up, each half in the order of the rows
Floated(rows, live) ==
  SelectSeq(rows, LAMBDA row : row \in live) \o SelectSeq(rows, LAMBDA row : row \notin live)

\* an empty list is only news when something answered
LedgerEmpty(got) == IF got["records"] THEN "none recorded" ELSE "can't reach Postgres"

\* a row is a link to the inbox
IncidentLink(row) == [page |-> "incidents", id |-> row.id]

Ledger(got, rows) == IF rows = <<>> THEN LedgerEmpty(got) ELSE rows

OverviewPage(got) ==
  [headline |-> Headline(got),
   down |-> DependencyStrip(got),
   bar |-> ApprovalBar(got),
   strip |-> SignalStrip(got),
   incidents |-> Ledger(got, Floated(got["incidents"], {r \in Range(got["incidents"]) : IsIncidentLive(r)})),
   runs |-> Ledger(got, Floated(got["runs"], {r \in Range(got["runs"]) : IsRunLive(r)}))]
===============================================================================

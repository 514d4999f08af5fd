----------------------------- MODULE OncallBoard ------------------------------
(***************************************************************************)
(* The on-call page, routes/oncall.tsx: a feed of the incidents that have  *)
(* an alert key and the panel of the selected one, with its approval gate. *)
(***************************************************************************)
EXTENDS LabRecords

VARIABLES
  deciding,  \* the panel's buttons are disabled
  calls      \* decideApproval calls on their way

oncallVars == <<deciding, calls>>

OncallInit == deciding = FALSE /\ calls = {}

Decision == {"approved", "denied"}

-----------------------------------------------------------------------------
(* The loader.                                                             *)

\* oncallFeed: the rows, then their runs unless there is no row
FeedAsks(got) ==
  IF "feed" \notin DOMAIN got THEN {"feed"}
  ELSE {"feedRuns"} \ (DOMAIN got \cup {q \in {"feedRuns"} : got["feed"] = <<>>})

\* oncallIncidentDetail: the row, then the rest in parallel unless it is null
DetailAsks(id, got) ==
  CASE id = None -> {}
    [] id # None /\ "detail" \notin DOMAIN got -> {"detail"}
    [] OTHER -> IF got["detail"] = None THEN {}
                ELSE {"detailRuns", "gate"} \ DOMAIN got

\* both at once
OncallAsks(id, got) == FeedAsks(got) \cup DetailAsks(id, got)

OncallRead(q, id, got) ==
  CASE q = "feed" -> OncallRows
    [] q = "feedRuns" -> OncallRunsFor({got["feed"][k].id : k \in DOMAIN got["feed"]})
    [] q = "detail" -> OncallRow(id)
    [] q = "detailRuns" -> OncallRunsFor({id})
    [] q = "gate" -> OncallGate(id)

-----------------------------------------------------------------------------
(* The display.                                                            *)

\* the gate shows in the runs: no field of the incident says it
StatusBadge(row, runs) ==
  CASE row.status = "resolved" -> "resolved"  \* or verified, by its verified_at
    [] OTHER -> IF \E k \in DOMAIN runs : runs[k].status = "awaiting_approval"
                THEN "awaiting approval" ELSE "investigating"

RunsOf(row, got) ==
  IF "feedRuns" \in DOMAIN got
  THEN SelectSeq(got["feedRuns"], LAMBDA r : r.of = row.id) ELSE <<>>

\* "All quiet", whether or not the records answered
FeedList(got) ==
  IF got["feed"] = <<>> THEN "all quiet"
  ELSE [k \in DOMAIN got["feed"] |->
          LET row == got["feed"][k]
          IN  [id |-> row.id, badge |-> StatusBadge(row, RunsOf(row, got))]]

\* the panel of the selected incident; null is "Select a page"
HasPanel(got) == "detail" \in DOMAIN got /\ got["detail"] # None

PanelGate(got) == IF HasPanel(got) THEN got["gate"] ELSE None

IncidentDetailPanel(got) ==
  [id |-> got["detail"].id,
   badge |-> StatusBadge(got["detail"], got["detailRuns"]),
   gate |-> PanelGate(got),
   runs |-> got["detailRuns"]]

OncallPage(got) ==
  [feed |-> FeedList(got),
   panel |-> IF HasPanel(got) THEN IncidentDetailPanel(got) ELSE "select a page"]

-----------------------------------------------------------------------------
(* The decision.                                                           *)

\* the gate the panel shows, whatever became of it since
PanelDecide(got, decision) ==
  /\ PanelGate(got) # None /\ ~deciding
  /\ deciding' = TRUE
  /\ calls' = calls \cup {[run |-> PanelGate(got), decision |-> decision]}

\* POST /runs/{id}/approve, if the service is up; only an open gate takes it
ServeDecision(call) ==
  /\ call \in calls
  /\ calls' = calls \ {call}
  /\ IF AgentServiceReachable /\ gate[call.run] = "open"
     THEN DecideGate(call.run, call.decision)
     ELSE UNCHANGED recordVars
  /\ UNCHANGED deciding

\* a null answer is not told from a decision: the page invalidates itself,
\* which may or may not wait for the next data, and enables the buttons
DecisionReturns ==
  /\ deciding /\ calls = {}
  /\ deciding' = FALSE
  /\ UNCHANGED calls

\* keyed by the incident: a panel that is replaced starts with its buttons on
PanelGone == deciding' = FALSE /\ UNCHANGED calls
===============================================================================

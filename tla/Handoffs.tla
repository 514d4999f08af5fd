------------------------------- MODULE Handoffs -------------------------------
(***************************************************************************)
(* The two pages that start a run: the incident inbox, routes/incidents    *)
(* .tsx, which hands an incident to the auto-fixer, and the runbooks,      *)
(* routes/runbooks.tsx, which hands a file to the executor.  A press is    *)
(* one click on a start button and the server function it calls.           *)
(***************************************************************************)
EXTENDS LabRecords

CONSTANT Press  \* bound: clicks on a start button

Sample == "sample-001"

VARIABLES
  press,     \* the clicks and what became of them
  starting,  \* the button of the page is disabled
  failed     \* the page shows that the run could not be started

handoffVars == <<press, starting, failed>>

NoPress == [state |-> "none", what |-> None, here |-> FALSE]

HandoffInit ==
  /\ press = [p \in Press |-> NoPress]
  /\ starting = FALSE
  /\ failed = FALSE

-----------------------------------------------------------------------------
(* The pages.                                                              *)

\* getIncidentInbox: the list, then the selected one; both may be the sample
InboxAsks(id, got) ==
  IF "list" \notin DOMAIN got THEN {"list"}
  ELSE IF id = None THEN {} ELSE {"selected"} \ DOMAIN got

InboxRead(q, id) ==
  CASE q = "list" ->
         LET rows == RecentIncidents(Cardinality(Incident))
         IN  IF rows = <<>> THEN <<[id |-> Sample, status |-> "resolved"]>> ELSE rows
    [] q = "selected" ->
         IF id = Sample THEN [id |-> Sample, status |-> "resolved"] ELSE IncidentById(id)

\* what can be handed over: not the sample, and nothing when nothing is shown
InboxOffers(got) ==
  IF "selected" \in DOMAIN got /\ got["selected"] # None
  THEN {got["selected"].id} \ {Sample} ELSE {}

PostmortemPanel(got) ==
  [id |-> got["selected"].id, sample |-> got["selected"].id = Sample,
   offers |-> InboxOffers(got), disabled |-> starting, error |-> failed]

InboxPage(got) ==
  [list |-> got["list"],
   panel |-> IF "selected" \in DOMAIN got /\ got["selected"] # None
             THEN PostmortemPanel(got) ELSE "select an incident"]

\* one file is selected from the start, when there is one
RunbooksPage(got) ==
  [list |-> got["runbooks"], offers |-> got["runbooks"],
   disabled |-> starting, error |-> failed]

-----------------------------------------------------------------------------
(* A start.                                                                *)

PressStart(p, what, lookedUp) ==
  /\ press[p].state = "none" /\ ~starting
  /\ press' = [press EXCEPT ![p] =
                 [NoPress EXCEPT !.state = IF lookedUp THEN "posting" ELSE "looking",
                                 !.what = what, !.here = TRUE]]
  /\ starting' = TRUE
  /\ failed' = FALSE

\* startAutoFix and runWithExecutor
StartAutoFix(p, i) == PressStart(p, i, FALSE) /\ UNCHANGED recordVars

RunWithExecutor(p, book) == PressStart(p, book, TRUE) /\ UNCHANGED recordVars

\* autoFixIncident: an incident that is not found is not handed over
LookUp(p) ==
  /\ press[p].state = "looking"
  /\ press' = [press EXCEPT ![p].state =
                 IF IncidentById(press[p].what) = None THEN "refused" ELSE "posting"]
  /\ UNCHANGED <<starting, failed, recordVars>>

\* startTriggeredRun: the run begins and its id comes back, unless it is lost
TriggerRun(p, r, lost) ==
  /\ press[p].state = "posting" /\ AgentServiceReachable
  /\ StartRun(r, None)
  /\ press' = [press EXCEPT ![p].state = IF lost THEN "refused" ELSE "accepted"]
  /\ UNCHANGED <<starting, failed>>

\* the service is down or rejects the request: null
TriggerFails(p) ==
  /\ press[p].state = "posting"
  /\ press' = [press EXCEPT ![p].state = "refused"]
  /\ UNCHANGED <<starting, failed, recordVars>>

\* Mutant: the answer of a panel that was left is taken for one of this panel.
TellAnyFailure(p) ==
  /\ press[p].state = "refused"
  /\ press' = [press EXCEPT ![p].state = "told"]
  /\ failed' = TRUE
  /\ starting' = FALSE
  /\ UNCHANGED recordVars

\* the panel shows the error, if it is still the one that was pressed
TellFailure(p) ==
  /\ press[p].state = "refused"
  /\ press' = [press EXCEPT ![p].state = IF press[p].here THEN "told" ELSE "dropped"]
  /\ failed' = (failed \/ press[p].here)
  /\ starting' = (starting /\ ~press[p].here)
  /\ UNCHANGED recordVars

\* an accepted start calls navigate and, at once, enables the button of its panel
TakeAccepted(p) ==
  /\ press[p].state = "accepted"
  /\ press' = [press EXCEPT ![p].state = "leaving"]
  /\ starting' = (starting /\ ~press[p].here)
  /\ UNCHANGED <<failed, recordVars>>

\* the page of the run has loaded and replaces the one the operator is on by now
GoToRun(p) ==
  /\ press[p].state = "leaving"
  /\ press' = [q \in Press |-> [press[q] EXCEPT
                 !.state = IF q = p THEN "gone" ELSE @, !.here = FALSE]]
  /\ starting' = FALSE
  /\ failed' = FALSE
  /\ UNCHANGED recordVars

\* the page, or the panel keyed by its incident, is replaced
PageGone ==
  /\ press' = [p \in Press |-> [press[p] EXCEPT !.here = FALSE]]
  /\ starting' = FALSE
  /\ failed' = FALSE
===============================================================================

----------------------------- MODULE ApprovalDesk -----------------------------
(***************************************************************************)
(* The approval gates as the operator of the console meets them:           *)
(* components/approval-toaster.tsx, which polls the database and keeps one *)
(* toast per undecided gate, and the decision of routes/agents/runs/$runId *)
(* .tsx.  Both post to agent-service through the BFF.                      *)
(*                                                                         *)
(* Polls are fired by setInterval and nothing makes one wait for another:  *)
(* an answer can be applied after the answer to a later poll.  There are   *)
(* fewer gates than the ten rows pendingApprovalsFromDb reads.             *)
(***************************************************************************)
EXTENDS Naturals

CONSTANTS
  Gate,   \* the approval rows
  Poll,   \* bound: polls in flight at once
  NoGate

Decision == {"approved", "denied"}
Place == {"toast", "page"}

ASSUME DeskAssumption == NoGate \notin Gate

VARIABLES
  gate,     \* agent_approvals.decision
  moved,    \* gates of other runs whose run is not awaiting approval any more
  poll,     \* the polls in flight, each with the rows it read
  toasted,  \* the effect's set of approvalIds
  toast,    \* the toasts on the screen
  call,     \* decideApproval calls of a toast or of a run page
  view,     \* the gate of the run page that is open, as its loader saw it
  touched   \* history: gates whose toast the operator used

deskVars == <<gate, moved, poll, toasted, toast, call, view, touched>>

NoView == [gate |-> NoGate, undecided |-> FALSE]

DeskInit ==
  /\ gate = [g \in Gate |-> "none"]
  /\ moved = {}
  /\ poll = [p \in Poll |-> {}]
  /\ toasted = {}
  /\ toast = {}
  /\ call = [c \in Gate \X Place |-> "idle"]
  /\ view = NoView
  /\ touched = {}

\* ctx.add_approval
Raise(g) ==
  /\ gate[g] = "none"
  /\ gate' = [gate EXCEPT ![g] = "open"]
  /\ UNCHANGED <<moved, poll, toasted, toast, call, view, touched>>

\* a call of the same run whose own approval came in sets the run running
\* (request_approval), and the next one that asks sets it waiting again
SiblingGoesOn(g) ==
  /\ gate[g] = "open" /\ g \notin moved
  /\ moved' = moved \cup {g}
  /\ UNCHANGED <<gate, poll, toasted, toast, call, view, touched>>

SiblingAsks(g) ==
  /\ gate[g] = "open" /\ g \in moved
  /\ moved' = moved \ {g}
  /\ UNCHANGED <<gate, poll, toasted, toast, call, view, touched>>

-----------------------------------------------------------------------------
(* The poll of the toaster.                                                *)

\* where decision is null and status = 'awaiting_approval'
PendingApprovals(awaiting) == {g \in awaiting : gate[g] = "open"}

\* getPendingApprovals: a read that fails is an empty list
PollRead(p, rows) ==
  /\ poll[p] = {}
  /\ poll' = [poll EXCEPT ![p] = {rows}]
  /\ UNCHANGED <<gate, moved, toasted, toast, call, view, touched>>

\* Mutant: only new gates are looked at, none is dismissed.
PollAdds(p) ==
  /\ \E rows \in poll[p] :
       /\ toast' = toast \cup (rows \ toasted)
       /\ toasted' = toasted \cup rows
  /\ poll' = [poll EXCEPT ![p] = {}]
  /\ UNCHANGED <<gate, moved, call, view, touched>>

\* Mutant: a gate that was dismissed stays in the set.
PollRemembers(p) ==
  /\ \E rows \in poll[p] :
       /\ toast' = (toast \cap rows) \cup (rows \ toasted)
       /\ toasted' = toasted \cup rows
  /\ poll' = [poll EXCEPT ![p] = {}]
  /\ UNCHANGED <<gate, moved, call, view, touched>>

\* every gate that left is dismissed, every gate that is new is toasted
PollApply(p) ==
  /\ \E rows \in poll[p] :
       /\ toast' = (toast \ (toasted \ rows)) \cup (rows \ toasted)
       /\ toasted' = rows
  /\ poll' = [poll EXCEPT ![p] = {}]
  /\ UNCHANGED <<gate, moved, call, view, touched>>

-----------------------------------------------------------------------------
(* The decision.                                                           *)

Call(g, where, state) == call' = [call EXCEPT ![<<g, where>>] = state]

\* ApprovalToast.decide: its buttons are disabled while the call runs
ToastDecide(g, decision) ==
  /\ g \in toast
  /\ call[g, "toast"] = "idle"
  /\ Call(g, "toast", decision)
  /\ touched' = touched \cup {g}
  /\ UNCHANGED <<gate, moved, poll, toasted, toast, view>>

\* the run page's decide, on what the loader last saw; one call at a time
PageDecide(decision) ==
  /\ view.undecided
  /\ call[view.gate, "page"] = "idle"
  /\ Call(view.gate, "page", decision)
  /\ UNCHANGED <<gate, moved, poll, toasted, toast, view, touched>>

\* POST /runs/{id}/approve: only an undecided row takes the decision
Approve(g, where) ==
  /\ call[g, where] \in Decision
  /\ gate' = [gate EXCEPT ![g] = IF @ = "open" THEN call[g, where] ELSE @]
  /\ Call(g, where, "answered")
  /\ UNCHANGED <<moved, poll, toasted, toast, view, touched>>

\* submitApprovalDecision answers null: the service is down or refused
DecisionLost(g, where) ==
  /\ call[g, where] \in Decision
  /\ Call(g, where, "answered")
  /\ UNCHANGED <<gate, moved, poll, toasted, toast, view, touched>>

\* the BFF cannot be reached and decideApproval throws
DecisionThrows(g, where) ==
  /\ call[g, where] \in Decision
  /\ Call(g, where, "idle")
  /\ UNCHANGED <<gate, moved, poll, toasted, toast, view, touched>>

\* the await returns: the toast goes, the run page reads its run again
Decided(g, where) ==
  /\ call[g, where] = "answered"
  /\ Call(g, where, "idle")
  /\ toast' = IF where = "toast" THEN toast \ {g} ELSE toast
  /\ view' = IF view.gate = g THEN [view EXCEPT !.undecided = gate[g] = "open"] ELSE view
  /\ UNCHANGED <<gate, moved, poll, toasted, touched>>

-----------------------------------------------------------------------------
(* The run page.                                                           *)

ShowRun(g) == view' = [gate |-> g, undecided |-> gate[g] = "open"]

OpenRunPage(g) ==
  /\ gate[g] # "none"
  /\ ShowRun(g)
  /\ UNCHANGED <<gate, moved, poll, toasted, toast, call, touched>>

\* the toast's link, which dismisses it and leaves it in the set
ViewRun(g) ==
  /\ g \in toast
  /\ toast' = toast \ {g}
  /\ touched' = touched \cup {g}
  /\ ShowRun(g)
  /\ UNCHANGED <<gate, moved, poll, toasted, call>>

\* the page's poll, every 2.5 s while the status it last saw is live; a read
\* that fails shows no run, and no status to poll for
RunPagePoll(found) ==
  /\ view.undecided
  /\ IF found THEN ShowRun(view.gate) ELSE view' = [view EXCEPT !.undecided = FALSE]
  /\ UNCHANGED <<gate, moved, poll, toasted, toast, call, touched>>

LeaveRunPage ==
  /\ view.gate # NoGate
  /\ view' = NoView
  /\ UNCHANGED <<gate, moved, poll, toasted, toast, call, touched>>

===============================================================================

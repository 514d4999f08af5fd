-------------------------------- MODULE Console --------------------------------
(***************************************************************************)
(* The console, one tab: the chat and the run it talks to, the approval    *)
(* gate of that run and gates of other runs, the toaster, the run page and *)
(* the settings page.  The toaster is there on every route.                *)
(***************************************************************************)
EXTENDS AgentChat, ApprovalDesk, AgentSettings

CONSTANT
  MaxActs  \* bound: acts of the operator and the model, and failures

ASSUME ConsoleAssumption == MaxActs \in Nat

VARIABLE acts

vars == <<chatVars, deskVars, settingsVars, acts>>

Init == ChatInit /\ DeskInit /\ SettingsInit /\ acts = 0

\* what follows by itself, and what someone does or what goes wrong
Follows == UNCHANGED acts

Act == acts < MaxActs /\ acts' = acts + 1

OnlyChat == UNCHANGED <<deskVars, settingsVars>>
OnlyDesk == UNCHANGED <<chatVars, settingsVars>>
OnlySettings == UNCHANGED <<chatVars, deskVars>>

-----------------------------------------------------------------------------
(* Turns and gates.                                                        *)

\* the gate the session is parked on
Parked == Last(run.approvals).id

TurnStep ==
  /\ OnlyChat
  /\ \/ /\ Follows
        /\ BeginTurn \/ FinishTurn \/ EndStopped \/ \E t \in Tool : FinishTool(t)
     \/ /\ Act
        /\ \/ Speak \/ StopEarly \/ CrashTurn \/ RestartService
           \/ \E t \in Tool : StartTool(t)
           \/ \E a \in Artifact : SaveArtifact(a)

\* the chat's run asks, or another run does; the turn of the chat waits for
\* one gate at a time, another run has calls that wait beside each other
AskApproval(g) == Act /\ Ask(g) /\ Raise(g) /\ UNCHANGED settingsVars

OtherAsks(g) == Act /\ Raise(g) /\ OnlyDesk

OtherRunStep(g) ==
  /\ g \notin Ids(run.approvals)
  /\ Act /\ OnlyDesk
  /\ SiblingGoesOn(g) \/ SiblingAsks(g)

\* the gates whose run has status awaiting_approval
Awaiting ==
  {g \in Gate : IF g \in Ids(run.approvals) THEN run.status = "awaiting_approval"
                ELSE g \notin moved}

GoOn ==
  /\ session.pc = "parked" /\ gate[Parked] \in Decision
  /\ Unpark(gate[Parked])
  /\ Follows /\ OnlyChat

\* the decision of a gate nobody waits for settles the run
Settle(g, where) ==
  run' = IF g \in Ids(run.approvals) /\ gate[g] = "open" /\ session.pc # "parked"
         THEN [run EXCEPT !.status = IF call[g, where] = "approved"
                                     THEN "completed" ELSE "denied"]
         ELSE run

Serve(g, where) ==
  \/ /\ Approve(g, where) /\ Settle(g, where) /\ Follows
     /\ UNCHANGED <<session, wire, resume, pane, settingsVars>>
  \/ Act /\ OnlyDesk /\ (DecisionLost(g, where) \/ DecisionThrows(g, where))

-----------------------------------------------------------------------------
(* The tab.                                                                *)

ChatStep ==
  /\ OnlyChat
  /\ \/ Act /\ (Send \/ SelectRun \/ NewChat \/ BreakStream)
     \/ view = NoView /\ ~page.open /\ EnterChat /\ Follows

Answer == AcceptChat \/ (run.status \in IN_FLIGHT_STATUSES /\ RefuseChat)

Post == OnlyChat /\ ((Follows /\ Answer) \/ (Act /\ RefuseChat))

Read == OnlyChat /\ Follows /\ (Receive \/ ReadFails)

Refresh == OnlyChat /\ ((Follows /\ Load(TRUE)) \/ (Act /\ Load(FALSE)))

PollBegins(p) ==
  OnlyDesk /\ ((Follows /\ PollRead(p, PendingApprovals(Awaiting))) \/ (Act /\ PollRead(p, {})))

PollEnds(p) == OnlyDesk /\ Follows /\ PollApply(p)

Returns(g, where) == OnlyDesk /\ Follows /\ Decided(g, where)

\* one route at a time
LeaveRoute ==
  /\ IF pane.mounted THEN LeaveChat ELSE UNCHANGED chatVars
  /\ IF page.open THEN CloseSettings ELSE UNCHANGED settingsVars

OpenPage(g) == Act /\ LeaveRoute /\ (OpenRunPage(g) \/ ViewRun(g))

Decide ==
  /\ OnlyDesk /\ Act
  /\ \E decision \in Decision :
       PageDecide(decision) \/ \E g \in Gate : ToastDecide(g, decision)

Page ==
  /\ OnlyDesk
  /\ \/ Follows /\ (RunPagePoll(TRUE) \/ LeaveRunPage)
     \/ Act /\ RunPagePoll(FALSE)

OpenSettingsPage ==
  /\ pane.mounted /\ LeaveChat
  /\ \E found \in BOOLEAN : OpenSettings(found)
  /\ Act /\ UNCHANGED deskVars

LeaveSettings == page.open /\ CloseSettings /\ Follows /\ OnlySettings

Save ==
  /\ OnlySettings /\ Act
  /\ \E p \in Put : \/ \E tool \in Grant : ToggleGrant(p, tool)
                    \/ \E model \in Model : PickModel(p, model)
                    \/ PutFails(p)

\* once, while the page is open
OtherTab ==
  /\ page.open /\ ~raced
  /\ OnlySettings /\ Act
  /\ \/ \E model \in Model : OtherTabSaves([model |-> model])
     \/ \E grants \in SUBSET Grant : OtherTabSaves([grants |-> grants])

PutStep(p) == OnlySettings /\ Follows /\ (MergeStored(p) \/ SaveMerged(p) \/ PutReturns(p))

Timers == OnlySettings /\ Follows /\ (Reload \/ SavedFades)

Polls == \E p \in Poll : PollBegins(p)

Answers == \E p \in Poll : PollEnds(p)

Next ==
  \/ TurnStep \/ GoOn \/ ChatStep \/ Post \/ Read \/ Refresh \/ Decide \/ Page
  \/ \E g \in Gate :
       \/ AskApproval(g) \/ OtherAsks(g) \/ OtherRunStep(g) \/ OpenPage(g)
       \/ \E where \in Place : Serve(g, where) \/ Returns(g, where)
  \/ OpenSettingsPage \/ LeaveSettings \/ Save \/ OtherTab \/ Timers
  \/ \E p \in Put : PutStep(p)
  \/ Polls \/ Answers

Spec == Init /\ [][Next]_vars

\* the intervals fire and reads come back, no one in particular: a poll may
\* hang for ever; what operators, agents and the service do is not promised
Fairness == WF_vars(Refresh) /\ WF_vars(Polls) /\ WF_vars(Answers)

FairSpec == Spec /\ Fairness

-----------------------------------------------------------------------------
(* Properties.                                                             *)

Bare(part) == [part EXCEPT !.at = 0]

Rendered(parts) ==
  GroupRunFeed([n \in DOMAIN parts |-> Bare(parts[n])], Kind \ {"approval"})

\* A pane that read every stream to its end without an error shows, block
\* for block, what the run page builds from the persisted run (run-feed.ts:
\* "so both render identically"), approvals aside and unless a turn stopped
\* early while it spoke: the notice is a message of its own in the row and
\* more of the same one on the pane.
FeedsAgree ==
  pane.whole /\ pane.runId /\ ~pane.busy => Rendered(pane.parts) = Rendered(BuildRunFeed(run))

Settled == run.status \in RESUMABLE_STATUSES

\* A pane locked because its run was in flight is unlocked once it settles.
LockReleases == (Locked /\ Settled) ~> ~(Locked /\ Settled)

\* Once a gate is decided its toast is gone for good, whatever order the
\* answers of the polls come in and whoever decided it.
DecidedLeaves == \A g \in Gate : gate[g] \in Decision ~> [](g \notin toast)

\* A gate the operator has not touched, on a run that waits, is on the
\* screen sooner or later, or decided, or its run was moved on by another
\* call; also when reads failed or came late, or the run did not wait before.
PendingIsShown ==
  \A g \in Gate :
    gate[g] = "open" /\ g \in Awaiting
      ~> (g \in toast \/ g \in touched \/ gate[g] \in Decision \/ g \notin Awaiting)

\* With one update at a time and one tab, a page that does not report an
\* error displays what is stored, also after an answer was lost: what is
\* toggled next is toggled on the row there is (nextGrants).
DisplaysStored ==
  /\ page.open /\ ~raced /\ InFlight = {}
  /\ page.phase \in {"saved", "idle"} /\ Displayed # Unknown
  => Displayed = stored

===============================================================================

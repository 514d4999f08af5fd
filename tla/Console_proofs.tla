--------------------------- MODULE Console_proofs ---------------------------
(***************************************************************************)
(* Proofs about one tab of the console.  The settings page: with one       *)
(* update at a time, a page without an error either displays the stored    *)
(* row or waits for the answer of the update that made them differ         *)
(* (OneAtATime, DisplayHolds).  The approval toasts: the set of ids the    *)
(* polls keep and the screen agree (ToastsAreTracked), and a gate that was *)
(* decided and that no read on its way has seen stays away (ClearedIsGone).*)
(* The chat: the blocks of a pane that read every stream to its end are    *)
(* those of the persisted run (FeedsAgree).  The blocks of a page are      *)
(* reached part by part (Stages); what a part adds at its place in the     *)
(* order of the feed is what its event adds at the end of the pane         *)
(* (GrownFeed); and the events that are not read make of the pane what the *)
(* turn has made of the run (PaneInv).                                     *)
(***************************************************************************)
EXTENDS Console, SequenceTheorems, FiniteSetTheorems, WellFoundedInduction, TLAPS

-----------------------------------------------------------------------------
(* The settings page.                                                      *)

Update == [model : Model] \cup [grants : SUBSET Grant]

PutRow ==
  [at : {"none", "sent", "merged", "answered"}, update : Update \cup {Unknown},
   merged : Settings \cup {Unknown}, heard : BOOLEAN]

PageRow ==
  [open : BOOLEAN, loaded : Settings \cup {Unknown}, saved : Settings \cup {Unknown},
   phase : {"idle", "saving", "saved", "error"}]

SettingsTypeOK ==
  /\ stored \in Settings
  /\ put \in [Put -> PutRow]
  /\ \A p \in Put : put[p].at = "sent" => put[p].update \in Update
  /\ \A p \in Put : put[p].at \in {"merged", "answered"} => put[p].merged \in Settings
  /\ page \in PageRow
  /\ raced \in BOOLEAN

\* On an open page of one tab there is one update at a time, what it was
\* answered with is stored, and a page at rest has none on its way.
AtRest ==
  page.phase \in {"saved", "idle"} =>
    InFlight = {} /\ (Displayed = Unknown \/ Displayed = stored)

OneAtATime ==
  page.open /\ ~raced =>
    /\ \A p, q \in InFlight : p = q
    /\ \A p \in Put : put[p].at = "answered" => put[p].merged = stored
    /\ AtRest

SettingsInv == SettingsTypeOK /\ OneAtATime

LEMMA MergeOK ==
  ASSUME NEW settings \in Settings, NEW update \in Update
  PROVE  Merge(settings, update) \in Settings
BY DEF Merge, Settings, Update

LEMMA DisplayedOK ==
  ASSUME SettingsTypeOK
  PROVE  Displayed \in Settings \cup {Unknown}
BY DEF SettingsTypeOK, PageRow, Displayed

LEMMA SettingsInitOK == SettingsInit => SettingsInv
<1> SUFFICES ASSUME SettingsInit PROVE SettingsInv
  OBVIOUS
<1>1. stored \in Settings
  <2>1. (CHOOSE m \in Model : TRUE) \in Model
    BY SettingsAssumption
  <2> QED
    BY <2>1 DEF SettingsInit, Settings
<1>2. put \in [Put -> PutRow] /\ \A p \in Put : put[p].at = "none"
  BY DEF SettingsInit, NoPut, PutRow
<1>3. page \in PageRow /\ ~page.open
  BY DEF SettingsInit, Closed, PageRow
<1> QED
  BY <1>1, <1>2, <1>3 DEF SettingsInit, SettingsInv, SettingsTypeOK, OneAtATime

(* An update of the page.                                                  *)
LEMMA PushOK ==
  ASSUME SettingsInv, NEW p \in Put, NEW update \in Update, Push(p, update)
  PROVE  SettingsInv'
<1> DEFINE new == [NoPut EXCEPT !.at = "sent", !.update = update, !.heard = TRUE]
<1>1. /\ put[p].at = "none" /\ stored' = stored
      /\ put' = [put EXCEPT ![p] = new]
      /\ raced' = (raced \/ InFlight # {})
      /\ page' = [page EXCEPT !.phase = "saving"]
  <2>1. NoPut.at = "none"
    BY DEF NoPut
  <2> QED
    BY <2>1 DEF Push
<1>2. new \in PutRow /\ new.at = "sent" /\ new.update \in Update
  <2>1. NoPut \in PutRow
    BY DEF NoPut, PutRow
  <2> QED
    BY <2>1 DEF PutRow
<1> HIDE DEF new
<1>3. /\ put' \in [Put -> PutRow] /\ put'[p] = new
      /\ \A q \in Put : q # p => put'[q] = put[q]
  BY <1>1, <1>2 DEF SettingsInv, SettingsTypeOK
<1>4. page' \in PageRow /\ page'.phase = "saving"
  BY <1>1 DEF SettingsInv, SettingsTypeOK, PageRow
<1>5. SettingsTypeOK'
  <2>1. raced' \in BOOLEAN
    BY <1>1 DEF SettingsInv, SettingsTypeOK
  <2> QED
    BY <2>1, <1>1, <1>2, <1>3, <1>4 DEF SettingsInv, SettingsTypeOK
<1>6. OneAtATime'
  <2> SUFFICES ASSUME ~raced' PROVE OneAtATime'
    BY DEF OneAtATime
  <2>1. ~raced /\ InFlight = {}
    BY <1>1
  <2>2. \A q \in Put : q # p => put'[q].at = "none"
    BY <1>3, <2>1 DEF InFlight
  <2>3. InFlight' \subseteq {p}
    BY <2>2 DEF InFlight
  <2>4. \A q \in Put : put'[q].at # "answered"
    BY <2>2, <1>2, <1>3
  <2> QED
    BY <2>3, <2>4, <1>4 DEF OneAtATime, AtRest
<1> QED
  BY <1>5, <1>6 DEF SettingsInv

(* An answer is displayed.                                                 *)
LEMMA AnsweredOK ==
  ASSUME SettingsTypeOK, NEW answer \in Settings \cup {Unknown},
         NEW phase \in {"saved", "error"}, Answered(answer, phase)
  PROVE  /\ page' \in PageRow
         /\ page'.open = page.open
         /\ page'.phase = phase
         /\ answer # Unknown => Displayed' = answer
BY DEF SettingsTypeOK, PageRow, Answered, Displayed

LEMMA SettingsNextOK ==
  ASSUME SettingsInv,
         \/ \E found \in BOOLEAN : OpenSettings(found)
         \/ Reload \/ CloseSettings \/ SavedFades
         \/ \E p \in Put : \/ \E tool \in Grant : ToggleGrant(p, tool)
                           \/ \E model \in Model : PickModel(p, model)
                           \/ PutReturns(p) \/ PutFails(p) \/ MergeStored(p) \/ SaveMerged(p)
         \/ \E model \in Model : OtherTabSaves([model |-> model])
         \/ \E grants \in SUBSET Grant : OtherTabSaves([grants |-> grants])
         \/ UNCHANGED settingsVars
  PROVE  SettingsInv'
<1>1. ASSUME NEW found \in BOOLEAN, OpenSettings(found) PROVE SettingsInv'
  <2> DEFINE row == IF found THEN stored ELSE Unknown
  <2>1. page' = [open |-> TRUE, loaded |-> row, saved |-> Unknown, phase |-> "idle"]
    BY <1>1 DEF OpenSettings, Closed
  <2>2. raced' = (InFlight # {}) /\ stored' = stored /\ put' = put
    BY <1>1 DEF OpenSettings
  <2>3. InFlight' = InFlight
    BY <2>2 DEF InFlight
  <2>4. page' \in PageRow
    BY <2>1 DEF SettingsInv, SettingsTypeOK, PageRow
  <2>5. SettingsTypeOK'
    BY <2>2, <2>4 DEF SettingsInv, SettingsTypeOK
  <2>6. Displayed' = Unknown \/ Displayed' = stored
    BY <2>1 DEF Displayed
  <2>7. ~raced' => \A q \in Put : put'[q].at = "none"
    BY <2>2 DEF InFlight
  <2> QED
    BY <2>2, <2>3, <2>5, <2>6, <2>7 DEF SettingsInv, OneAtATime, AtRest
<1>2. CASE Reload
  <2>1. page' = [page EXCEPT !.loaded = stored] /\ stored' = stored /\ put' = put /\ raced' = raced
    BY <1>2 DEF Reload
  <2>2. /\ page' \in PageRow /\ page'.phase = page.phase /\ page'.open = page.open
        /\ Displayed' = IF page.saved # Unknown THEN Displayed ELSE stored
    BY <2>1 DEF SettingsInv, SettingsTypeOK, PageRow, Displayed
  <2>3. InFlight' = InFlight
    BY <2>1 DEF InFlight
  <2> QED
    BY <2>1, <2>2, <2>3, SettingsAssumption
    DEF SettingsInv, SettingsTypeOK, OneAtATime, AtRest, Displayed
<1>3. CASE CloseSettings
  <2>1. page' \in PageRow /\ ~page'.open
    BY <1>3 DEF CloseSettings, Closed, PageRow
  <2>2. put' \in [Put -> PutRow]
    <3>1. \A p \in Put : [put[p] EXCEPT !.heard = FALSE] \in PutRow
      BY DEF SettingsInv, SettingsTypeOK, PutRow
    <3> QED
      BY <1>3, <3>1 DEF CloseSettings
  <2>3. \A p \in Put : /\ put'[p].at = put[p].at
                       /\ put'[p].update = put[p].update
                       /\ put'[p].merged = put[p].merged
    BY <1>3 DEF CloseSettings, SettingsInv, SettingsTypeOK, PutRow
  <2> QED
    BY <1>3, <2>1, <2>2, <2>3 DEF CloseSettings, SettingsInv, SettingsTypeOK, OneAtATime
<1>4. CASE SavedFades
  <2>1. page' = [page EXCEPT !.phase = "idle"] /\ stored' = stored /\ put' = put /\ raced' = raced
        /\ page.phase = "saved"
    BY <1>4 DEF SavedFades
  <2>2. /\ page' \in PageRow /\ page'.open = page.open
        /\ Displayed' = Displayed
    BY <2>1 DEF SettingsInv, SettingsTypeOK, PageRow, Displayed
  <2>3. InFlight' = InFlight
    BY <2>1 DEF InFlight
  <2> QED
    BY <2>1, <2>2, <2>3 DEF SettingsInv, SettingsTypeOK, OneAtATime, AtRest
<1>5. ASSUME NEW p \in Put, NEW tool \in Grant, ToggleGrant(p, tool) PROVE SettingsInv'
  <2>1. Displayed \in Settings
    BY <1>5, DisplayedOK DEF ToggleGrant, Push, SettingsInv
  <2>2. NextGrants(tool) \in SUBSET Grant
    BY <2>1 DEF NextGrants, Settings
  <2>3. [grants |-> NextGrants(tool)] \in Update
    BY <2>2 DEF Update
  <2> QED
    BY <1>5, <2>3, PushOK DEF ToggleGrant
<1>6. ASSUME NEW p \in Put, NEW model \in Model, PickModel(p, model) PROVE SettingsInv'
  <2>1. [model |-> model] \in Update
    BY DEF Update
  <2> QED
    BY <1>6, <2>1, PushOK DEF PickModel
<1>7. ASSUME NEW p \in Put, PutReturns(p) PROVE SettingsInv'
  <2>1. /\ put[p].at = "answered" /\ put' = [put EXCEPT ![p] = NoPut]
        /\ stored' = stored /\ raced' = raced
    BY <1>7 DEF PutReturns
  <2>2. NoPut \in PutRow /\ NoPut.at = "none"
    BY DEF NoPut, PutRow
  <2>3. /\ put' \in [Put -> PutRow] /\ put'[p] = NoPut
        /\ \A q \in Put : q # p => put'[q] = put[q]
    BY <2>1, <2>2 DEF SettingsInv, SettingsTypeOK
  <2>4. /\ page' \in PageRow /\ page'.open = page.open
        /\ page' = page \/ (page'.phase = "saved" /\ Displayed' = put[p].merged)
    <3>1. put[p].merged \in Settings
      BY <2>1 DEF SettingsInv, SettingsTypeOK
    <3>2. CASE put[p].heard
      <4>1. Answered(put[p].merged, "saved")
        BY <1>7, <3>2 DEF PutReturns
      <4> QED
        BY <3>1, <4>1, AnsweredOK, SettingsAssumption DEF SettingsInv
    <3>3. CASE ~put[p].heard
      BY <1>7, <3>3 DEF PutReturns, SettingsInv, SettingsTypeOK
    <3> QED
      BY <3>2, <3>3
  <2>5. SettingsTypeOK'
    BY <2>1, <2>2, <2>3, <2>4 DEF SettingsInv, SettingsTypeOK
  <2>6. ASSUME page'.open, ~raced' PROVE OneAtATime'
    <3>1. page.open /\ ~raced
      BY <2>1, <2>4, <2>6
    <3>2. p \in InFlight /\ InFlight' \subseteq InFlight
      BY <2>1, <2>2, <2>3 DEF InFlight
    <3>3. InFlight' = {} /\ put[p].merged = stored
      BY <2>1, <2>2, <2>3, <3>1, <3>2 DEF SettingsInv, OneAtATime, InFlight
    <3>4. AtRest'
      BY <2>1, <2>4, <3>1, <3>2, <3>3 DEF SettingsInv, OneAtATime, AtRest
    <3> QED
      BY <3>3, <3>4 DEF OneAtATime, InFlight
  <2> QED
    BY <2>5, <2>6 DEF SettingsInv, OneAtATime
<1>8. ASSUME NEW p \in Put, PutFails(p) PROVE SettingsInv'
  <2> DEFINE row == IF put[p].at = "merged" THEN [put[p] EXCEPT !.heard = FALSE] ELSE NoPut
  <2>1. /\ put' = [put EXCEPT ![p] = row]
        /\ stored' = stored /\ raced' = raced /\ Answered(Unknown, "error")
    BY <1>8 DEF PutFails
  <2>2. /\ row \in PutRow
        /\ row.at \in {"none", "merged"}
        /\ row.at # "none" => put[p].at = "merged"
        /\ row.at = "merged" => row.merged = put[p].merged
    BY DEF NoPut, PutRow, SettingsInv, SettingsTypeOK
  <2> HIDE DEF row
  <2>3. /\ put' \in [Put -> PutRow] /\ put'[p] = row
        /\ \A q \in Put : q # p => put'[q] = put[q]
    BY <2>1, <2>2 DEF SettingsInv, SettingsTypeOK
  <2>4. page' \in PageRow /\ page'.open = page.open /\ page'.phase = "error"
    BY <2>1, AnsweredOK DEF SettingsInv
  <2>5. SettingsTypeOK'
    BY <2>1, <2>2, <2>3, <2>4 DEF SettingsInv, SettingsTypeOK
  <2>6. InFlight' \subseteq InFlight
    BY <2>2, <2>3 DEF InFlight
  <2>7. OneAtATime'
    BY <2>1, <2>2, <2>3, <2>4, <2>6 DEF SettingsInv, OneAtATime, AtRest
  <2> QED
    BY <2>5, <2>7 DEF SettingsInv
<1>9. ASSUME NEW p \in Put, MergeStored(p) PROVE SettingsInv'
  <2> DEFINE new == Merge(stored, put[p].update)
             row == [put[p] EXCEPT !.at = "merged", !.merged = new]
  <2>1. /\ put[p].at = "sent"
        /\ page' = page /\ stored' = stored /\ raced' = raced
    BY <1>9 DEF MergeStored
  <2>2. new \in Settings
    BY <2>1, MergeOK DEF SettingsInv, SettingsTypeOK
  <2>3. put' = [put EXCEPT ![p] = row]
    BY <1>9 DEF MergeStored, SettingsInv, SettingsTypeOK
  <2> HIDE DEF new
  <2>4. row \in PutRow /\ row.at = "merged" /\ row.merged = new
    BY <2>2 DEF PutRow, SettingsInv, SettingsTypeOK
  <2> HIDE DEF row
  <2>5. /\ put' \in [Put -> PutRow] /\ put'[p] = row
        /\ \A q \in Put : q # p => put'[q] = put[q]
    BY <2>3, <2>4 DEF SettingsInv, SettingsTypeOK
  <2>6. SettingsTypeOK'
    BY <2>1, <2>2, <2>4, <2>5 DEF SettingsInv, SettingsTypeOK
  <2>7. InFlight' = InFlight /\ Displayed' = Displayed
    BY <2>1, <2>4, <2>5 DEF InFlight, Displayed
  <2>8. OneAtATime'
    BY <2>1, <2>4, <2>5, <2>7 DEF SettingsInv, OneAtATime, AtRest
  <2> QED
    BY <2>6, <2>8 DEF SettingsInv
<1>10. ASSUME NEW p \in Put, SaveMerged(p) PROVE SettingsInv'
  <2> DEFINE row == [put[p] EXCEPT !.at = "answered"]
  <2>1. /\ put[p].at = "merged" /\ stored' = put[p].merged
        /\ page' = page /\ raced' = raced
    BY <1>10 DEF SaveMerged
  <2>3. put' = [put EXCEPT ![p] = row]
    BY <1>10 DEF SaveMerged, SettingsInv, SettingsTypeOK
  <2>4. row \in PutRow /\ row.at = "answered" /\ row.merged = put[p].merged
    BY DEF PutRow, SettingsInv, SettingsTypeOK
  <2> HIDE DEF row
  <2>5. /\ put' \in [Put -> PutRow] /\ put'[p] = row
        /\ \A q \in Put : q # p => put'[q] = put[q]
    BY <2>3, <2>4 DEF SettingsInv, SettingsTypeOK
  <2>6. SettingsTypeOK'
    BY <2>1, <2>4, <2>5 DEF SettingsInv, SettingsTypeOK
  <2>7. InFlight' = InFlight /\ p \in InFlight
    BY <2>1, <2>4, <2>5 DEF InFlight
  <2>8. OneAtATime'
    BY <2>1, <2>4, <2>5, <2>7 DEF SettingsInv, OneAtATime, AtRest, InFlight
  <2> QED
    BY <2>6, <2>8 DEF SettingsInv
<1>11. ASSUME NEW update \in Update, OtherTabSaves(update) PROVE SettingsInv'
  <2>1. stored' \in Settings /\ raced' = TRUE /\ put' = put /\ page' = page
    BY <1>11, MergeOK DEF OtherTabSaves, SettingsInv, SettingsTypeOK
  <2> QED
    BY <2>1 DEF SettingsInv, SettingsTypeOK, OneAtATime
<1>12. ASSUME NEW model \in Model, OtherTabSaves([model |-> model]) PROVE SettingsInv'
  BY <1>11, <1>12 DEF Update
<1>13. ASSUME NEW grants \in SUBSET Grant, OtherTabSaves([grants |-> grants]) PROVE SettingsInv'
  BY <1>11, <1>13 DEF Update
<1>14. CASE UNCHANGED settingsVars
  BY <1>14 DEF settingsVars, SettingsInv, SettingsTypeOK, OneAtATime, AtRest, InFlight, Displayed
<1> QED
  BY <1>1, <1>2, <1>3, <1>4, <1>5, <1>6, <1>7, <1>8, <1>9, <1>10, <1>12, <1>13, <1>14

LEMMA SettingsStep ==
  ASSUME SettingsInv, [Next]_vars
  PROVE  SettingsInv'
<1>1. CASE TurnStep \/ GoOn \/ ChatStep \/ Post \/ Read \/ Refresh \/ Decide \/ Page
           \/ Polls \/ Answers \/ UNCHANGED vars
  <2>1. UNCHANGED settingsVars
    BY <1>1 DEF TurnStep, GoOn, ChatStep, Post, Read, Refresh, Decide, Page, Polls, PollBegins,
                Answers, PollEnds, OnlyChat, OnlyDesk, vars
  <2> QED
    BY <2>1, SettingsNextOK
<1>2. ASSUME NEW g \in Gate, AskApproval(g) \/ OtherAsks(g) \/ OpenPage(g) \/ OtherRunStep(g)
      PROVE  SettingsInv'
  <2>1. UNCHANGED settingsVars \/ CloseSettings
    BY <1>2 DEF AskApproval, OtherAsks, OtherRunStep, OnlyDesk, OpenPage, LeaveRoute
  <2> QED
    BY <2>1, SettingsNextOK
<1>3. ASSUME NEW g \in Gate, NEW where \in Place, Serve(g, where) \/ Returns(g, where)
      PROVE  SettingsInv'
  <2>1. UNCHANGED settingsVars
    BY <1>3 DEF Serve, Returns, OnlyDesk
  <2> QED
    BY <2>1, SettingsNextOK
<1>4. CASE OpenSettingsPage
  BY <1>4, SettingsNextOK DEF OpenSettingsPage
<1>5. CASE LeaveSettings
  BY <1>5, SettingsNextOK DEF LeaveSettings
<1>6. CASE Save
  <2>1. PICK p \in Put : \/ \E tool \in Grant : ToggleGrant(p, tool)
                         \/ \E model \in Model : PickModel(p, model)
                         \/ PutFails(p)
    BY <1>6 DEF Save
  <2> QED
    BY <2>1, SettingsNextOK
<1>7. CASE OtherTab
  BY <1>7, SettingsNextOK DEF OtherTab
<1>8. CASE Timers
  BY <1>8, SettingsNextOK DEF Timers
<1>9. ASSUME NEW p \in Put, PutStep(p) PROVE SettingsInv'
  BY <1>9, SettingsNextOK DEF PutStep
<1> QED
  BY <1>1, <1>2, <1>3, <1>4, <1>5, <1>6, <1>7, <1>8, <1>9 DEF Next

(* With one update at a time and one tab, a settings page that reports no  *)
(* error displays the stored row, also after the answer of an update was   *)
(* lost: push and the loader of settings.tsx, PUT /settings.               *)
THEOREM DisplayHolds == Spec => []DisplaysStored
<1>1. Init => SettingsInv
  BY SettingsInitOK DEF Init
<1>2. SettingsInv /\ [Next]_vars => SettingsInv'
  BY SettingsStep
<1>3. SettingsInv => DisplaysStored
  BY DEF SettingsInv, OneAtATime, AtRest, DisplaysStored
<1> QED
  BY <1>1, <1>2, <1>3, PTL DEF Spec

-----------------------------------------------------------------------------
(* The toaster.                                                            *)

\* What is on the screen is in the effect's set of ids, so a poll without
\* it dismisses it; what is in the set and not on the screen was used.
ToastsTracked ==
  /\ toast \subseteq toasted
  /\ toasted \ touched \subseteq toast

DeskInv ==
  /\ toasted \subseteq Gate
  /\ poll \in [Poll -> SUBSET SUBSET Gate]
  /\ call \in [Gate \X Place -> Decision \cup {"idle", "answered"}]
  /\ gate \in [Gate -> Decision \cup {"none", "open"}]
  /\ \A g \in Gate : call[g, "toast"] # "idle" => g \in touched
  /\ view \in [gate : Gate \cup {NoGate}, undecided : BOOLEAN]
  /\ view.undecided => view.gate \in Gate
  /\ ToastsTracked

LEMMA DeskInitOK == DeskInit => DeskInv
<1> SUFFICES ASSUME DeskInit PROVE DeskInv
  OBVIOUS
<1>1. /\ call \in [Gate \X Place -> Decision \cup {"idle", "answered"}]
      /\ \A g \in Gate : call[g, "toast"] = "idle"
  BY DEF DeskInit, Place
<1>2. gate \in [Gate -> Decision \cup {"none", "open"}]
  BY DEF DeskInit
<1>3. poll \in [Poll -> SUBSET SUBSET Gate] /\ \A p \in Poll : poll[p] = {}
  BY DEF DeskInit
<1>4. view \in [gate : Gate \cup {NoGate}, undecided : BOOLEAN] /\ ~view.undecided
  BY DEF DeskInit, NoView
<1> QED
  BY <1>1, <1>2, <1>3, <1>4 DEF DeskInit, DeskInv, ToastsTracked

LEMMA CallOK ==
  ASSUME DeskInv, NEW g \in Gate, NEW where \in Place,
         NEW state \in Decision \cup {"idle", "answered"}, Call(g, where, state),
         touched \subseteq touched',
         where = "toast" /\ state # "idle" => g \in touched'
  PROVE  /\ call' \in [Gate \X Place -> Decision \cup {"idle", "answered"}]
         /\ \A h \in Gate : call'[h, "toast"] # "idle" => h \in touched'
<1>1. "toast" \in Place /\ <<g, where>> \in Gate \X Place
  BY DEF Place
<1>2. call' = [call EXCEPT ![<<g, where>>] = state]
  BY DEF Call
<1>3. \A h \in Gate : <<h, "toast">> = <<g, where>> => h = g /\ where = "toast"
  OBVIOUS
<1>4. \A h \in Gate : call'[h, "toast"] = IF <<h, "toast">> = <<g, where>> THEN state
                                          ELSE call[h, "toast"]
  BY <1>1, <1>2 DEF DeskInv
<1> QED
  BY <1>1, <1>2, <1>3, <1>4 DEF DeskInv

\* The actions of the desk.
DeskStep ==
  \/ UNCHANGED deskVars
  \/ \E p \in Poll : \/ \E rows \in SUBSET PendingApprovals(Gate) : PollRead(p, rows)
                     \/ PollApply(p)
  \/ \E g \in Gate : Raise(g) \/ OpenRunPage(g) \/ ViewRun(g) \/ SiblingGoesOn(g) \/ SiblingAsks(g)
  \/ \E g \in Gate, decision \in Decision : ToastDecide(g, decision)
  \/ \E decision \in Decision : PageDecide(decision)
  \/ \E g \in Gate, where \in Place :
       Approve(g, where) \/ DecisionLost(g, where) \/ DecisionThrows(g, where)
         \/ Decided(g, where)
  \/ \E found \in BOOLEAN : RunPagePoll(found)
  \/ LeaveRunPage

LEMMA DeskSteps == [Next]_vars => DeskStep
<1> SUFFICES ASSUME [Next]_vars PROVE DeskStep
  OBVIOUS
<1>1. CASE TurnStep \/ GoOn \/ ChatStep \/ Post \/ Read \/ Refresh \/ OpenSettingsPage
           \/ LeaveSettings \/ Save \/ OtherTab \/ Timers \/ (\E p \in Put : PutStep(p))
           \/ UNCHANGED vars
  <2>1. UNCHANGED deskVars
    BY <1>1 DEF TurnStep, GoOn, ChatStep, Post, Read, Refresh, OpenSettingsPage, LeaveSettings,
                Save, OtherTab, Timers, PutStep, OnlyChat, OnlySettings, vars
  <2> QED
    BY <2>1 DEF DeskStep
<1>2. CASE Decide
  BY <1>2 DEF Decide, DeskStep
<1>3. CASE Page
  BY <1>3 DEF Page, DeskStep
<1>4. ASSUME NEW p \in Poll, PollBegins(p) PROVE DeskStep
  <2>1. /\ PendingApprovals(Awaiting) \in SUBSET PendingApprovals(Gate)
        /\ {} \in SUBSET PendingApprovals(Gate)
    BY DEF PendingApprovals, Awaiting
  <2> QED
    BY <1>4, <2>1 DEF PollBegins, DeskStep
<1>5. CASE Answers
  BY <1>5 DEF Answers, PollEnds, DeskStep
<1>6. ASSUME NEW g \in Gate, AskApproval(g) \/ OtherAsks(g) \/ OpenPage(g) \/ OtherRunStep(g)
      PROVE  DeskStep
  BY <1>6 DEF AskApproval, OtherAsks, OpenPage, OtherRunStep, DeskStep
<1>7. ASSUME NEW g \in Gate, NEW where \in Place, Serve(g, where) \/ Returns(g, where)
      PROVE  DeskStep
  BY <1>7 DEF Serve, Returns, DeskStep
<1> QED
  BY <1>1, <1>2, <1>3, <1>4, <1>5, <1>6, <1>7 DEF Next, Polls

\* A gate that is decided, that the effect's set has lost and that no read
\* on its way has seen.
Cleared(g) ==
  /\ gate[g] \in Decision
  /\ g \notin toasted
  /\ \A p \in Poll : \A rows \in poll[p] : g \notin rows

LEMMA DeskStepOK ==
  ASSUME DeskInv, DeskStep
  PROVE  DeskInv' /\ \A g \in Gate : Cleared(g) => Cleared(g)'
<1> DEFINE Good == DeskInv' /\ \A g \in Gate : Cleared(g) => Cleared(g)'
<1>1. CASE UNCHANGED deskVars
  BY <1>1 DEF deskVars, DeskInv, ToastsTracked, Cleared
<1>2. ASSUME NEW p \in Poll, NEW rows \in SUBSET PendingApprovals(Gate), PollRead(p, rows)
      PROVE  Good
  <2>1. poll' = [poll EXCEPT ![p] = {rows}] /\ UNCHANGED <<gate, toasted, toast, call, view, touched>>
    BY <1>2 DEF PollRead
  <2>2. {rows} \in SUBSET SUBSET Gate
    BY DEF PendingApprovals
  <2>3. /\ poll' \in [Poll -> SUBSET SUBSET Gate] /\ poll'[p] = {rows}
        /\ \A q \in Poll : q # p => poll'[q] = poll[q]
    BY <2>1, <2>2 DEF DeskInv
  <2>4. DeskInv'
    BY <2>1, <2>3 DEF DeskInv, ToastsTracked
  <2>5. \A g \in rows : gate[g] \notin Decision
    BY DEF PendingApprovals, Decision
  <2>6. \A g \in Gate : Cleared(g) => Cleared(g)'
    BY <2>1, <2>3, <2>5 DEF Cleared
  <2> QED
    BY <2>4, <2>6
<1>3. ASSUME NEW p \in Poll, PollApply(p) PROVE Good
  <2>1. PICK rows \in poll[p] : /\ toast' = (toast \ (toasted \ rows)) \cup (rows \ toasted)
                                /\ toasted' = rows
    BY <1>3 DEF PollApply
  <2>2. poll' = [poll EXCEPT ![p] = {}] /\ UNCHANGED <<gate, call, view, touched>>
    BY <1>3 DEF PollApply
  <2>3. /\ poll' \in [Poll -> SUBSET SUBSET Gate] /\ poll'[p] = {}
        /\ \A q \in Poll : q # p => poll'[q] = poll[q]
    BY <2>2 DEF DeskInv
  <2>4. ToastsTracked'
    BY <2>1, <2>2 DEF DeskInv, ToastsTracked
  <2> QED
    BY <2>1, <2>2, <2>3, <2>4 DEF DeskInv, Cleared
<1>4. ASSUME NEW g \in Gate, Raise(g) PROVE Good
  <2>1. gate' = [gate EXCEPT ![g] = "open"] /\ gate[g] = "none"
        /\ UNCHANGED <<poll, toasted, toast, call, view, touched>>
    BY <1>4 DEF Raise
  <2>2. /\ gate' \in [Gate -> Decision \cup {"none", "open"}]
        /\ \A h \in Gate : gate[h] \in Decision => gate'[h] = gate[h]
    BY <2>1 DEF DeskInv, Decision
  <2> QED
    BY <2>1, <2>2 DEF DeskInv, ToastsTracked, Cleared
<1>5. ASSUME NEW g \in Gate, ShowRun(g), UNCHANGED <<gate, poll, toasted, call>>,
             \/ UNCHANGED <<toast, touched>>
             \/ toast' = toast \ {g} /\ touched' = touched \cup {g}
      PROVE  Good
  <2>1. view' \in [gate : Gate \cup {NoGate}, undecided : BOOLEAN] /\ view'.gate \in Gate
    BY <1>5 DEF ShowRun
  <2>2. ToastsTracked'
    BY <1>5 DEF DeskInv, ToastsTracked
  <2> QED
    BY <1>5, <2>1, <2>2 DEF DeskInv, Cleared
<1>6. ASSUME NEW g \in Gate, OpenRunPage(g) \/ ViewRun(g) PROVE Good
  BY <1>5, <1>6 DEF OpenRunPage, ViewRun
<1>7. ASSUME NEW g \in Gate, NEW decision \in Decision, ToastDecide(g, decision) PROVE Good
  <2>1. /\ Call(g, "toast", decision) /\ touched' = touched \cup {g}
        /\ UNCHANGED <<gate, poll, toasted, toast, view>>
    BY <1>7 DEF ToastDecide
  <2>2. /\ call' \in [Gate \X Place -> Decision \cup {"idle", "answered"}]
        /\ \A h \in Gate : call'[h, "toast"] # "idle" => h \in touched'
    BY <2>1, CallOK DEF Place
  <2> QED
    BY <2>1, <2>2 DEF DeskInv, ToastsTracked, Cleared
<1>8. ASSUME NEW decision \in Decision, PageDecide(decision) PROVE Good
  <2>1. /\ Call(view.gate, "page", decision) /\ view.gate \in Gate
        /\ UNCHANGED <<gate, poll, toasted, toast, view, touched>>
    BY <1>8 DEF PageDecide, DeskInv
  <2>2. /\ call' \in [Gate \X Place -> Decision \cup {"idle", "answered"}]
        /\ \A h \in Gate : call'[h, "toast"] # "idle" => h \in touched'
    BY <2>1, CallOK DEF Place
  <2> QED
    BY <2>1, <2>2 DEF DeskInv, ToastsTracked, Cleared
<1>9. ASSUME NEW g \in Gate, NEW where \in Place,
             Approve(g, where) \/ DecisionLost(g, where) \/ DecisionThrows(g, where)
      PROVE  Good
  <2>1. UNCHANGED <<poll, toasted, toast, view, touched>> /\ call[g, where] \in Decision
    BY <1>9 DEF Approve, DecisionLost, DecisionThrows
  <2>2. Call(g, where, "answered") \/ Call(g, where, "idle")
    BY <1>9 DEF Approve, DecisionLost, DecisionThrows
  <2>3. where = "toast" => g \in touched'
    BY <2>1 DEF DeskInv, Decision
  <2>4. /\ call' \in [Gate \X Place -> Decision \cup {"idle", "answered"}]
        /\ \A h \in Gate : call'[h, "toast"] # "idle" => h \in touched'
    BY <2>1, <2>2, <2>3, CallOK
  <2>5. /\ gate' \in [Gate -> Decision \cup {"none", "open"}]
        /\ \A h \in Gate : gate[h] \in Decision => gate'[h] = gate[h]
    BY <1>9, <2>1 DEF Approve, DecisionLost, DecisionThrows, DeskInv, Decision
  <2> QED
    BY <2>1, <2>4, <2>5 DEF DeskInv, ToastsTracked, Cleared
<1>10. ASSUME NEW g \in Gate, NEW where \in Place, Decided(g, where) PROVE Good
  <2>1. /\ call[g, where] = "answered" /\ Call(g, where, "idle")
        /\ toast' = IF where = "toast" THEN toast \ {g} ELSE toast
        /\ view' = IF view.gate = g THEN [view EXCEPT !.undecided = (gate[g] = "open")] ELSE view
        /\ UNCHANGED <<gate, poll, toasted, touched>>
    BY <1>10 DEF Decided
  <2>2. /\ call' \in [Gate \X Place -> Decision \cup {"idle", "answered"}]
        /\ \A h \in Gate : call'[h, "toast"] # "idle" => h \in touched'
    BY <2>1, CallOK
  <2>3. /\ view' \in [gate : Gate \cup {NoGate}, undecided : BOOLEAN]
        /\ view'.undecided => view'.gate \in Gate
    BY <2>1 DEF DeskInv
  <2>4. ToastsTracked'
    BY <2>1 DEF DeskInv, ToastsTracked
  <2> QED
    BY <2>1, <2>2, <2>3, <2>4 DEF DeskInv, Cleared
<1>11. ASSUME NEW found \in BOOLEAN, RunPagePoll(found) PROVE Good
  <2>1. view.gate \in Gate
    BY <1>11 DEF RunPagePoll, DeskInv
  <2>2. CASE found
    BY <1>5, <1>11, <2>1, <2>2 DEF RunPagePoll
  <2>3. CASE ~found
    <3>1. view' = [view EXCEPT !.undecided = FALSE]
          /\ UNCHANGED <<gate, poll, toasted, toast, call, touched>>
      BY <1>11, <2>3 DEF RunPagePoll
    <3>2. view' \in [gate : Gate \cup {NoGate}, undecided : BOOLEAN] /\ view'.gate \in Gate
      BY <2>1, <3>1 DEF DeskInv
    <3> QED
      BY <3>1, <3>2 DEF DeskInv, ToastsTracked, Cleared
  <2> QED
    BY <2>2, <2>3
<1>12. CASE LeaveRunPage
  <2>1. view' = [gate |-> NoGate, undecided |-> FALSE]
        /\ UNCHANGED <<gate, poll, toasted, toast, call, touched>>
    BY <1>12 DEF LeaveRunPage, NoView
  <2> QED
    BY <2>1 DEF DeskInv, ToastsTracked, Cleared
<1>14. ASSUME NEW g \in Gate, SiblingGoesOn(g) \/ SiblingAsks(g) PROVE Good
  <2>1. UNCHANGED <<gate, poll, toasted, toast, call, view, touched>>
    BY <1>14 DEF SiblingGoesOn, SiblingAsks
  <2> QED
    BY <2>1 DEF DeskInv, ToastsTracked, Cleared
<1> HIDE DEF Good
<1>13. Good
  BY <1>1, <1>2, <1>3, <1>4, <1>6, <1>7, <1>8, <1>9, <1>10, <1>11, <1>12, <1>14 DEF DeskStep, Good
<1> QED
  BY <1>13 DEF Good

(* The effect's set of ids and the screen agree, whatever order the        *)
(* answers of the polls come in: every toast is known to the set, so the   *)
(* next poll without its gate dismisses it, and a gate the set has is on   *)
(* the screen unless the operator used its toast (approval-toaster.tsx).   *)
THEOREM ToastsAreTracked == Spec => []ToastsTracked
<1>1. Init => DeskInv
  BY DeskInitOK DEF Init
<1>2. DeskInv /\ [Next]_vars => DeskInv'
  BY DeskSteps, DeskStepOK
<1>3. DeskInv => ToastsTracked
  BY DEF DeskInv
<1> QED
  BY <1>1, <1>2, <1>3, PTL DEF Spec

(* The safety half of DecidedLeaves: once a gate is decided, the set has   *)
(* lost it and no read on its way has seen it, it is not on the screen and *)
(* stays cleared, so no poll shows it again.                               *)
THEOREM ClearedIsGone ==
  Spec => /\ [](\A g \in Gate : Cleared(g) => g \notin toast)
          /\ [][\A g \in Gate : Cleared(g) => Cleared(g)']_vars
<1>1. Init => DeskInv
  BY DeskInitOK DEF Init
<1>2. DeskInv /\ [Next]_vars => DeskInv'
  BY DeskSteps, DeskStepOK
<1>3. DeskInv /\ [Next]_vars => [\A g \in Gate : Cleared(g) => Cleared(g)']_vars
  BY DeskSteps, DeskStepOK
<1>4. DeskInv => \A g \in Gate : Cleared(g) => g \notin toast
  BY DEF DeskInv, ToastsTracked, Cleared
<1> QED
  BY <1>1, <1>2, <1>3, <1>4, PTL DEF Spec

-----------------------------------------------------------------------------
(* The feeds.                                                              *)

\* Induction over the naturals, of a set.
LEMMA InductiveSet ==
  ASSUME NEW T, 0 \in T, \A n \in Nat : n \in T => n + 1 \in T
  PROVE  Nat \subseteq T
<1> DEFINE U == {n \in Nat : n \notin T}
<1> SUFFICES ASSUME U # {} PROVE FALSE
  OBVIOUS
<1>1. PICK x \in U : \A y \in U : ~(<<y, x>> \in OpToRel(<, Nat))
  <2>1. U \subseteq Nat
    OBVIOUS
  <2> HIDE DEF U
  <2> QED
    BY <2>1, NatLessThanWellFounded, WFMin, Zenon
<1>2. x # 0 /\ x - 1 \in Nat
  OBVIOUS
<1>3. x - 1 \in U
  BY <1>2
<1>4. <<x - 1, x>> \in OpToRel(<, Nat)
  BY <1>2 DEF OpToRel
<1> QED
  BY <1>1, <1>3, <1>4

Ident == {"msg"} \cup Tool \cup Artifact \cup Gate

Body == [role : {"user", "assistant"}, content : Seq(Nat)] \cup {"pending", "ok", None}

AnyPart == [kind : Kind, id : Ident, body : Body, at : Nat]

Block == AnyPart \cup [kind : {"tools"}, calls : Seq(AnyPart)]

Feed == [blocks : Seq(Block), held : Seq(AnyPart)]

Empty == [blocks |-> <<>>, held |-> <<>>]

\* What a part of a page does to what is there before it.
Adds(feed, part) ==
  IF part.kind = "approval" THEN feed ELSE GroupPart(feed, Bare(part))

\* What is there after each part.
Stages(parts, f) ==
  /\ f \in [0 .. Len(parts) -> Feed]
  /\ f[0] = Empty
  /\ \A n \in 1 .. Len(parts) : f[n] = Adds(f[n - 1], parts[n])

FeedOf(parts) ==
  Grouped([n \in DOMAIN parts |-> Bare(parts[n])], Kind \ {"approval"})

LEMMA BareTyped ==
  ASSUME NEW part \in AnyPart
  PROVE  /\ Bare(part) \in AnyPart
         /\ Bare(part).kind = part.kind
         /\ Bare(part).id = part.id
         /\ Bare(part).body = part.body
         /\ Bare(part) = [kind |-> part.kind, id |-> part.id, body |-> part.body, at |-> 0]
<1>1. part.kind \in Kind /\ part.id \in Ident /\ part.body \in Body
  BY DEF AnyPart
<1>2. Bare(part) = [kind |-> part.kind, id |-> part.id, body |-> part.body, at |-> 0]
  BY DEF Bare, AnyPart
<1> QED
  BY <1>1, <1>2 DEF AnyPart

LEMMA GroupTyped ==
  ASSUME NEW feed \in Feed, NEW part \in AnyPart
  PROVE  GroupPart(feed, part) \in Feed
<1>1. feed.blocks \in Seq(Block) /\ feed.held \in Seq(AnyPart) /\ part \in Block
  BY DEF Feed, Block
<1>2. CASE part.kind = "artifact"
  <2>1. Append(feed.held, part) \in Seq(AnyPart)
    BY <1>1
  <2>2. GroupPart(feed, part) = [feed EXCEPT !.held = Append(feed.held, part)]
    BY <1>2 DEF GroupPart
  <2> QED
    BY <2>1, <2>2 DEF Feed
<1>3. CASE part.kind = "tool"
  <2> DEFINE blocks == feed.blocks
             last == Len(blocks)
             block == blocks[last]
             new == [block EXCEPT !.calls = Append(@, part)]
  <2>1. GroupPart(feed, part) = FoldTool(feed, part) /\ blocks \in Seq(Block)
    BY <1>1, <1>3 DEF GroupPart
  <2>2. last > 0 /\ block.kind = "tools" =>
          FoldTool(feed, part) = [feed EXCEPT !.blocks = [blocks EXCEPT ![last] = new]]
    BY DEF FoldTool, Feed
  <2>3. ~(last > 0 /\ block.kind = "tools") =>
          FoldTool(feed, part) = [feed EXCEPT !.blocks = Append(blocks, ToolsBlock(<<part>>))]
    BY DEF FoldTool, Feed
  <2> HIDE DEF blocks
  <2>4. CASE last > 0 /\ block.kind = "tools"
    <3>1. block \in Block
      BY <2>1, <2>4
    <3>2. block \in [kind : {"tools"}, calls : Seq(AnyPart)]
      BY <3>1, <2>4 DEF Block, AnyPart, Kind
    <3>3. new \in Block
      BY SMTT(30), <3>2 DEF Block
    <3> HIDE DEF new
    <3>4. [blocks EXCEPT ![last] = new] \in Seq(Block)
      BY <2>1, <2>4, <3>3, ExceptSeq
    <3> QED
      BY <2>1, <2>2, <2>4, <3>4 DEF Feed
  <2>5. CASE ~(last > 0 /\ block.kind = "tools")
    <3>1. ToolsBlock(<<part>>) \in Block
      BY DEF ToolsBlock, Block
    <3>2. Append(blocks, ToolsBlock(<<part>>)) \in Seq(Block)
      BY <2>1, <3>1
    <3> QED
      BY <2>1, <2>3, <2>5, <3>2 DEF Feed
  <2> QED
    BY <2>4, <2>5
<1>4. CASE part.kind \notin {"artifact", "tool"}
  <2> DEFINE ended == IF UserMessage(part) THEN EndTurn(feed) ELSE feed
  <2>1. feed.held \in Seq(Block)
    BY <1>1 DEF Block
  <2>2. ended \in Feed
    BY <1>1, <2>1 DEF EndTurn, Feed
  <2> HIDE DEF ended
  <2>3. Append(ended.blocks, part) \in Seq(Block)
    BY <1>1, <2>2 DEF Feed
  <2>4. GroupPart(feed, part) = [ended EXCEPT !.blocks = Append(@, part)]
    BY <1>4 DEF GroupPart, ended
  <2> QED
    BY <2>2, <2>3, <2>4 DEF Feed
<1> QED
  BY <1>2, <1>3, <1>4

LEMMA AddsTyped ==
  ASSUME NEW feed \in Feed, NEW part \in AnyPart
  PROVE  Adds(feed, part) \in Feed
BY GroupTyped, BareTyped DEF Adds

\* The blocks of a page are reached part by part.
LEMMA StagesExist ==
  ASSUME NEW parts \in Seq(AnyPart)
  PROVE  \E f : Stages(parts, f) /\ FeedOf(parts) = f[Len(parts)]
<1> DEFINE N == Len(parts)
           bare == [n \in DOMAIN parts |-> Bare(parts[n])]
           After(f, n) == IF n = 0 THEN Empty
                          ELSE IF bare[n].kind \in Kind \ {"approval"}
                               THEN GroupPart(f[n - 1], bare[n]) ELSE f[n - 1]
           Rec(f, m) == f = [n \in 0 .. m |-> After(f, n)]
           T == {m \in Nat : \E f : Rec(f, m)}
           feed == CHOOSE f : Rec(f, N)
<1>1. N \in Nat /\ DOMAIN parts = 1 .. N /\ Len(bare) = N
  OBVIOUS
<1>2. FeedOf(parts) = feed[N]
  BY <1>1 DEF FeedOf, Grouped, Empty
<1> HIDE DEF feed
<1>3. 0 \in T
  <2> DEFINE f == [n \in 0 .. 0 |-> Empty]
  <2>1. Rec(f, 0)
    OBVIOUS
  <2> HIDE DEF Rec
  <2> QED
    BY <2>1
<1>4. ASSUME NEW m \in Nat, m \in T
      PROVE  m + 1 \in T
  <2>1. PICK f : Rec(f, m)
    BY <1>4
  <2> DEFINE g == [n \in 0 .. m + 1 |-> IF n = m + 1 THEN After(f, n) ELSE f[n]]
  <2>2. \A n \in 0 .. m + 1 : g[n] = After(g, n)
    <3> TAKE n \in 0 .. m + 1
    <3>1. n # 0 => g[n - 1] = f[n - 1]
      OBVIOUS
    <3>2. After(g, n) = After(f, n)
      BY <3>1
    <3>3. n # m + 1 => f[n] = After(f, n)
      <4> SUFFICES ASSUME n # m + 1 PROVE f[n] = After(f, n)
        OBVIOUS
      <4>1. n \in 0 .. m
        OBVIOUS
      <4> HIDE DEF After
      <4> QED
        BY <2>1, <4>1
    <3> HIDE DEF After
    <3> QED
      BY <3>2, <3>3
  <2>3. Rec(g, m + 1)
    <3>1. g = [n \in 0 .. m + 1 |-> g[n]]
      OBVIOUS
    <3> HIDE DEF After, g
    <3> QED
      BY <2>2, <3>1
  <2> HIDE DEF Rec
  <2> QED
    BY <2>3
<1>5. Rec(feed, N)
  <2>1. N \in T
    <3> HIDE DEF T
    <3> QED
      BY <1>1, <1>3, <1>4, InductiveSet
  <2> HIDE DEF Rec
  <2> QED
    BY <2>1 DEF feed
<1>6. feed[0] = Empty
  BY <1>1, <1>5
<1>7. \A n \in 1 .. N : feed[n] = Adds(feed[n - 1], parts[n])
  <2> TAKE n \in 1 .. N
  <2>1. feed[n] = After(feed, n)
    <3> HIDE DEF After
    <3> QED
      BY <1>1, <1>5
  <2>2. bare[n] = Bare(parts[n]) /\ parts[n] \in AnyPart
    BY <1>1
  <2>3. bare[n].kind = parts[n].kind /\ parts[n].kind \in Kind
    BY <2>2, BareTyped DEF AnyPart
  <2> HIDE DEF bare
  <2> QED
    BY <2>1, <2>2, <2>3 DEF Adds
<1>8. \A n \in 0 .. N : feed[n] \in Feed
  <2> DEFINE W == {m \in Nat : m <= N => feed[m] \in Feed}
  <2>1. 0 \in W
    <3>1. Empty \in Feed
      BY DEF Empty, Feed
    <3> QED
      BY <1>6, <3>1
  <2>2. \A m \in Nat : m \in W => m + 1 \in W
    <3> SUFFICES ASSUME NEW m \in Nat, m \in W, m + 1 <= N PROVE feed[m + 1] \in Feed
      OBVIOUS
    <3>1. feed[m] \in Feed /\ m + 1 \in 1 .. N /\ parts[m + 1] \in AnyPart
      BY <1>1
    <3>2. feed[m + 1] = Adds(feed[m + 1 - 1], parts[m + 1])
      BY <1>7, <3>1
    <3> QED
      BY <3>1, <3>2, AddsTyped
  <2> HIDE DEF W
  <2>3. Nat \subseteq W
    BY <2>1, <2>2, InductiveSet
  <2> QED
    BY <2>3, <1>1 DEF W
<1>9. feed \in [0 .. N -> Feed]
  BY <1>5, <1>8
<1> HIDE DEF Rec
<1> QED
  BY <1>2, <1>6, <1>7, <1>9 DEF Stages

\* Tool calls and approvals come before the artifacts and approvals of their
\* moment without a difference.
LEMMA AddsCommute ==
  ASSUME NEW feed \in Feed, NEW x \in AnyPart, NEW y \in AnyPart,
         x.kind \in {"tool", "approval"}, y.kind \in {"approval", "artifact"}
  PROVE  Adds(Adds(feed, x), y) = Adds(Adds(feed, y), x)
<1>1. CASE x.kind = "approval" \/ y.kind = "approval"
  BY <1>1 DEF Adds
<1>2. CASE x.kind = "tool" /\ y.kind = "artifact"
  <2> DEFINE t == Bare(x)
             a == Bare(y)
  <2>1. t.kind = "tool" /\ a.kind = "artifact"
    BY <1>2, BareTyped
  <2>2. Adds(Adds(feed, x), y) = GroupPart(GroupPart(feed, t), a)
    BY <1>2 DEF Adds
  <2>3. Adds(Adds(feed, y), x) = GroupPart(GroupPart(feed, a), t)
    BY <1>2 DEF Adds
  <2> HIDE DEF t, a
  <2>4. \A f : GroupPart(f, a) = [f EXCEPT !.held = Append(@, a)]
    BY <2>1 DEF GroupPart
  <2>5. \A f : GroupPart(f, t) = FoldTool(f, t)
    BY <2>1 DEF GroupPart
  <2>6. FoldTool([feed EXCEPT !.held = Append(@, a)], t) = [FoldTool(feed, t) EXCEPT !.held = Append(@, a)]
    BY DEF FoldTool, Feed
  <2> QED
    BY <2>2, <2>3, <2>4, <2>5, <2>6
<1> QED
  BY <1>1, <1>2

Inserted(parts, k, x) ==
  [n \in 1 .. Len(parts) + 1 |->
     IF n <= k THEN parts[n] ELSE IF n = k + 1 THEN x ELSE parts[n - 1]]

\* A part that comes before others of its moment is shown after them.
LEMMA InsertedFeed ==
  ASSUME NEW parts \in Seq(AnyPart), NEW x \in AnyPart, NEW k \in 0 .. Len(parts),
         k = Len(parts) \/ x.kind \in {"tool", "approval"},
         \A n \in k + 1 .. Len(parts) : parts[n].kind \in {"approval", "artifact"}
  PROVE  /\ Inserted(parts, k, x) \in Seq(AnyPart)
         /\ FeedOf(Inserted(parts, k, x)) = Adds(FeedOf(parts), x)
<1> DEFINE N == Len(parts)
           new == Inserted(parts, k, x)
<1>1. N \in Nat /\ Len(new) = N + 1 /\ DOMAIN new = 1 .. N + 1
  BY DEF Inserted
<1>2. \A n \in 1 .. N + 1 : /\ n <= k => new[n] = parts[n]
                            /\ n = k + 1 => new[n] = x
                            /\ n > k + 1 => new[n] = parts[n - 1]
  BY DEF Inserted
<1>3. \A n \in 1 .. N + 1 : new[n] \in AnyPart
  BY DEF Inserted
<1>4. new \in Seq(AnyPart)
  <2>1. new \in [1 .. N + 1 -> AnyPart]
    BY <1>3 DEF Inserted
  <2> QED
    BY <1>1, <2>1, IsASeq
<1> HIDE DEF new
<1>5. PICK f : Stages(parts, f) /\ FeedOf(parts) = f[N]
  BY StagesExist
<1>6. PICK g : Stages(new, g) /\ FeedOf(new) = g[N + 1]
  BY <1>1, <1>4, StagesExist
<1>7. \A m \in 0 .. k : g[m] = f[m]
  <2> DEFINE W == {m \in Nat : m <= k => g[m] = f[m]}
  <2>1. 0 \in W
    BY <1>5, <1>6 DEF Stages
  <2>2. \A m \in Nat : m \in W => m + 1 \in W
    <3> SUFFICES ASSUME NEW m \in Nat, m \in W, m + 1 <= k PROVE g[m + 1] = f[m + 1]
      OBVIOUS
    <3>1. m + 1 \in 1 .. N /\ m + 1 \in 1 .. N + 1 /\ g[m] = f[m] /\ m + 1 - 1 = m
      OBVIOUS
    <3> QED
      BY <3>1, <1>1, <1>2, <1>5, <1>6 DEF Stages
  <2> HIDE DEF W
  <2>3. Nat \subseteq W
    BY <2>1, <2>2, InductiveSet
  <2> QED
    BY <2>3 DEF W
<1>8. \A m \in k .. N : g[m + 1] = Adds(f[m], x)
  <2> DEFINE P(m) == k + m <= N => g[k + m + 1] = Adds(f[k + m], x)
             W == {m \in Nat : P(m)}
  <2>1. 0 \in W
    <3>1. k + 1 \in 1 .. N + 1 /\ k + 1 - 1 = k /\ g[k] = f[k] /\ k + 0 = k
      BY <1>7
    <3> QED
      BY <3>1, <1>1, <1>2, <1>6 DEF Stages
  <2>2. \A m \in Nat : m \in W => m + 1 \in W
    <3> SUFFICES ASSUME NEW m \in Nat, P(m) PROVE P(m + 1)
      <4> HIDE DEF P
      <4> QED
        OBVIOUS
    <3> SUFFICES ASSUME k + (m + 1) <= N
                 PROVE  g[k + (m + 1) + 1] = Adds(f[k + (m + 1)], x)
      OBVIOUS
    <3> DEFINE i == k + m
               y == parts[i + 1]
    <3>1. i \in Nat /\ i + 1 \in 1 .. N /\ i + 2 \in 1 .. N + 1 /\ i + 1 \in k + 1 .. N /\ i + 2 > k + 1
      OBVIOUS
    <3>2. y \in AnyPart /\ y.kind \in {"approval", "artifact"} /\ x.kind \in {"tool", "approval"}
      BY <3>1
    <3>3. f[i] \in Feed /\ f[i + 1] = Adds(f[i], y)
      BY <3>1, <1>5 DEF Stages
    <3>4. new[i + 2] = y /\ g[i + 2] = Adds(g[i + 1], new[i + 2])
      BY <3>1, <1>1, <1>2, <1>6 DEF Stages
    <3>5. g[i + 1] = Adds(f[i], x)
      BY <3>1
    <3> HIDE DEF y
    <3>6. Adds(Adds(f[i], x), y) = Adds(Adds(f[i], y), x)
      BY <3>2, <3>3, AddsCommute
    <3> QED
      BY SMTT(30), <3>1, <3>3, <3>4, <3>5, <3>6
  <2> HIDE DEF W
  <2>3. Nat \subseteq W
    BY <2>1, <2>2, InductiveSet
  <2> TAKE m \in k .. N
  <2>4. m - k \in W
    BY <2>3
  <2> QED
    BY <2>4 DEF W
<1> QED
  BY <1>1, <1>4, <1>5, <1>6, <1>8 DEF new

\* A part at the end of a page is added to the blocks of the rest.
LEMMA AppendedFeed ==
  ASSUME NEW parts \in Seq(AnyPart), NEW x \in AnyPart
  PROVE  /\ Append(parts, x) \in Seq(AnyPart)
         /\ FeedOf(Append(parts, x)) = Adds(FeedOf(parts), x)
<1> DEFINE N == Len(parts)
<1>1. N \in Nat /\ \A n \in N + 1 .. N : FALSE
  OBVIOUS
<1>2. /\ Inserted(parts, N, x) \in Seq(AnyPart)
      /\ FeedOf(Inserted(parts, N, x)) = Adds(FeedOf(parts), x)
  BY <1>1, InsertedFeed
<1>3. Len(Inserted(parts, N, x)) = N + 1
  BY <1>1 DEF Inserted
<1>4. \A n \in 1 .. N + 1 : Append(parts, x)[n] = Inserted(parts, N, x)[n]
  BY <1>1, AppendProperties DEF Inserted
<1>5. Append(parts, x) \in Seq(AnyPart) /\ Len(Append(parts, x)) = N + 1
  BY AppendProperties
<1> HIDE DEF N
<1>6. Append(parts, x) = Inserted(parts, N, x)
  BY <1>2, <1>3, <1>4, <1>5, SeqEqual
<1> QED
  BY <1>2, <1>5, <1>6

\* A tool call replaces the one that has its id, where that is.
Renewed(part, tool) == IF part.kind = "tool" /\ part.id = tool.id THEN tool ELSE part

RenewedBlock(block, tool) ==
  IF block.kind = "tools"
  THEN ToolsBlock([n \in DOMAIN block.calls |-> Renewed(block.calls[n], tool)])
  ELSE block

RenewedBlocks(blocks, tool) == [n \in DOMAIN blocks |-> RenewedBlock(blocks[n], tool)]

RenewedFeed(feed, tool) ==
  [blocks |-> RenewedBlocks(feed.blocks, tool), held |-> feed.held]

LEMMA RenewedTyped ==
  ASSUME NEW tool \in AnyPart
  PROVE  /\ \A part \in AnyPart : Renewed(part, tool) \in AnyPart
         /\ \A calls \in Seq(AnyPart) :
              /\ [n \in DOMAIN calls |-> Renewed(calls[n], tool)] \in Seq(AnyPart)
              /\ Len([n \in DOMAIN calls |-> Renewed(calls[n], tool)]) = Len(calls)
         /\ \A block \in Block : RenewedBlock(block, tool) \in Block
         /\ \A blocks \in Seq(Block) :
              /\ RenewedBlocks(blocks, tool) \in Seq(Block)
              /\ Len(RenewedBlocks(blocks, tool)) = Len(blocks)
         /\ \A feed \in Feed : RenewedFeed(feed, tool) \in Feed
<1>1. \A part \in AnyPart : Renewed(part, tool) \in AnyPart
  BY DEF Renewed
<1>2. ASSUME NEW calls \in Seq(AnyPart)
      PROVE  /\ [n \in DOMAIN calls |-> Renewed(calls[n], tool)] \in Seq(AnyPart)
             /\ Len([n \in DOMAIN calls |-> Renewed(calls[n], tool)]) = Len(calls)
  <2> DEFINE new == [n \in DOMAIN calls |-> Renewed(calls[n], tool)]
  <2>1. DOMAIN calls = 1 .. Len(calls) /\ Len(calls) \in Nat /\ \A n \in DOMAIN calls : calls[n] \in AnyPart
    OBVIOUS
  <2>2. new \in [1 .. Len(calls) -> AnyPart]
    BY <1>1, <2>1
  <2> QED
    BY <2>1, <2>2, IsASeq
<1>3. ASSUME NEW block \in Block
      PROVE  RenewedBlock(block, tool) \in Block
  <2>1. CASE block.kind = "tools"
    <3>1. block.calls \in Seq(AnyPart)
      BY <2>1 DEF Block, AnyPart, Kind
    <3>2. ToolsBlock([n \in DOMAIN block.calls |-> Renewed(block.calls[n], tool)]) \in Block
      BY <1>2, <3>1 DEF ToolsBlock, Block
    <3> QED
      BY <2>1, <3>2 DEF RenewedBlock
  <2>2. CASE block.kind # "tools"
    BY <2>2 DEF RenewedBlock
  <2> QED
    BY <2>1, <2>2
<1>4. ASSUME NEW blocks \in Seq(Block)
      PROVE  /\ RenewedBlocks(blocks, tool) \in Seq(Block)
             /\ Len(RenewedBlocks(blocks, tool)) = Len(blocks)
  <2>1. DOMAIN blocks = 1 .. Len(blocks) /\ Len(blocks) \in Nat /\ \A n \in DOMAIN blocks : blocks[n] \in Block
    OBVIOUS
  <2>2. RenewedBlocks(blocks, tool) \in [1 .. Len(blocks) -> Block]
    BY <1>3, <2>1 DEF RenewedBlocks
  <2> QED
    BY <2>1, <2>2, IsASeq
<1>5. \A feed \in Feed : RenewedFeed(feed, tool) \in Feed
  BY <1>4 DEF RenewedFeed, Feed
<1> QED
  BY <1>1, <1>2, <1>3, <1>4, <1>5

\* Renewing what is there, and then what was appended to it.
LEMMA RenewedAppend ==
  ASSUME NEW tool \in AnyPart
  PROVE  /\ \A blocks \in Seq(Block), block \in Block :
              RenewedBlocks(Append(blocks, block), tool)
                = Append(RenewedBlocks(blocks, tool), RenewedBlock(block, tool))
         /\ \A blocks, more \in Seq(Block) :
              RenewedBlocks(blocks \o more, tool)
                = RenewedBlocks(blocks, tool) \o RenewedBlocks(more, tool)
         /\ \A held \in Seq(AnyPart) : held \in Seq(Block) /\ RenewedBlocks(held, tool) = held
<1>1. ASSUME NEW blocks \in Seq(Block), NEW block \in Block
      PROVE  RenewedBlocks(Append(blocks, block), tool)
               = Append(RenewedBlocks(blocks, tool), RenewedBlock(block, tool))
  <2> DEFINE all == Append(blocks, block)
             left == RenewedBlocks(all, tool)
             old == RenewedBlocks(blocks, tool)
             right == Append(old, RenewedBlock(block, tool))
  <2>1. /\ all \in Seq(Block) /\ Len(all) = Len(blocks) + 1 /\ Len(blocks) \in Nat
        /\ all[Len(blocks) + 1] = block
        /\ \A n \in 1 .. Len(blocks) : all[n] = blocks[n]
    BY AppendProperties
  <2>2. /\ old \in Seq(Block) /\ Len(old) = Len(blocks) /\ RenewedBlock(block, tool) \in Block
        /\ left \in Seq(Block) /\ Len(left) = Len(blocks) + 1
    BY <2>1, RenewedTyped
  <2>3. /\ right \in Seq(Block) /\ Len(right) = Len(blocks) + 1
        /\ right[Len(blocks) + 1] = RenewedBlock(block, tool)
        /\ \A n \in 1 .. Len(blocks) : right[n] = old[n]
    BY <2>2, AppendProperties
  <2>4. /\ \A n \in 1 .. Len(blocks) + 1 : left[n] = RenewedBlock(all[n], tool)
        /\ \A n \in 1 .. Len(blocks) : old[n] = RenewedBlock(blocks[n], tool)
    BY <2>1 DEF RenewedBlocks
  <2> HIDE DEF all, left, old, right
  <2>5. \A n \in 1 .. Len(blocks) + 1 : left[n] = right[n]
    BY <2>1, <2>3, <2>4
  <2>6. left = right
    BY <2>2, <2>3, <2>5, SeqEqual
  <2> QED
    BY <2>6 DEF left, right, all, old
<1>2. ASSUME NEW blocks \in Seq(Block), NEW more \in Seq(Block)
      PROVE  RenewedBlocks(blocks \o more, tool)
               = RenewedBlocks(blocks, tool) \o RenewedBlocks(more, tool)
  <2> DEFINE all == blocks \o more
             left == RenewedBlocks(all, tool)
             a == RenewedBlocks(blocks, tool)
             b == RenewedBlocks(more, tool)
             right == a \o b
             N == Len(blocks) + Len(more)
  <2>1. /\ all \in Seq(Block) /\ Len(all) = N /\ Len(blocks) \in Nat /\ Len(more) \in Nat
        /\ \A n \in 1 .. N : all[n] = IF n <= Len(blocks) THEN blocks[n] ELSE more[n - Len(blocks)]
    BY ConcatProperties
  <2>2. /\ a \in Seq(Block) /\ Len(a) = Len(blocks)
        /\ b \in Seq(Block) /\ Len(b) = Len(more)
        /\ left \in Seq(Block) /\ Len(left) = N
    BY <2>1, RenewedTyped
  <2>3. /\ right \in Seq(Block) /\ Len(right) = N
        /\ \A n \in 1 .. N : right[n] = IF n <= Len(blocks) THEN a[n] ELSE b[n - Len(blocks)]
    <3> HIDE DEF a, b
    <3>1. /\ right \in Seq(Block) /\ Len(right) = Len(a) + Len(b)
          /\ \A n \in 1 .. Len(a) + Len(b) :
               right[n] = IF n <= Len(a) THEN a[n] ELSE b[n - Len(a)]
      <4>1. a \in Seq(Block) /\ b \in Seq(Block)
        BY <2>2
      <4> QED
        BY <4>1, ConcatProperties, Zenon
    <3> QED
      BY <2>2, <3>1
  <2>4. /\ \A n \in 1 .. N : left[n] = RenewedBlock(all[n], tool)
        /\ \A n \in 1 .. Len(blocks) : a[n] = RenewedBlock(blocks[n], tool)
        /\ \A n \in 1 .. Len(more) : b[n] = RenewedBlock(more[n], tool)
    BY <2>1 DEF RenewedBlocks
  <2> HIDE DEF all, left, a, b, right
  <2>5. \A n \in 1 .. N : left[n] = right[n]
    <3> TAKE n \in 1 .. N
    <3>1. CASE n <= Len(blocks)
      <4>1. n \in 1 .. Len(blocks)
        BY <2>1, <3>1
      <4> QED
        BY <2>1, <2>3, <2>4, <3>1, <4>1
    <3>2. CASE ~(n <= Len(blocks))
      <4>1. n - Len(blocks) \in 1 .. Len(more)
        BY <2>1, <3>2
      <4> QED
        BY <2>1, <2>3, <2>4, <3>2, <4>1
    <3> QED
      BY <3>1, <3>2
  <2>6. left = right
    BY <2>2, <2>3, <2>5, SeqEqual
  <2> QED
    BY <2>6 DEF left, right, all, a, b
<1>3. ASSUME NEW held \in Seq(AnyPart)
      PROVE  held \in Seq(Block) /\ RenewedBlocks(held, tool) = held
  <2>1. AnyPart \subseteq Block
    BY DEF Block
  <2>2. held \in Seq(Block)
    BY <2>1, SeqMonotonic
  <2>3. \A n \in 1 .. Len(held) : held[n] \in AnyPart /\ held[n].kind # "tools"
    <3>1. \A part \in AnyPart : part.kind # "tools"
      BY DEF AnyPart, Kind
    <3> QED
      BY <3>1
  <2>4. \A n \in 1 .. Len(held) : RenewedBlocks(held, tool)[n] = held[n]
    BY <2>3 DEF RenewedBlocks, RenewedBlock
  <2>5. RenewedBlocks(held, tool) \in Seq(Block) /\ Len(RenewedBlocks(held, tool)) = Len(held)
    BY <2>2, RenewedTyped
  <2> QED
    BY <2>2, <2>4, <2>5, SeqEqual
<1> QED
  BY <1>1, <1>2, <1>3

\* What each kind of part adds to a feed.
LEMMA GroupArtifact ==
  ASSUME NEW blocks, NEW held, NEW part, part.kind = "artifact"
  PROVE  GroupPart([blocks |-> blocks, held |-> held], part)
           = [blocks |-> blocks, held |-> Append(held, part)]
BY DEF GroupPart

LEMMA GroupFirstTool ==
  ASSUME NEW blocks, NEW held, NEW part, part.kind = "tool",
         ~(Len(blocks) > 0 /\ blocks[Len(blocks)].kind = "tools")
  PROVE  GroupPart([blocks |-> blocks, held |-> held], part)
           = [blocks |-> Append(blocks, ToolsBlock(<<part>>)), held |-> held]
BY DEF GroupPart, FoldTool

LEMMA GroupNextTool ==
  ASSUME NEW blocks, NEW held, NEW part, part.kind = "tool", NEW calls,
         Len(blocks) > 0 /\ blocks[Len(blocks)] = ToolsBlock(calls)
  PROVE  GroupPart([blocks |-> blocks, held |-> held], part)
           = [blocks |-> [blocks EXCEPT ![Len(blocks)] = ToolsBlock(Append(calls, part))],
              held |-> held]
<1> DEFINE feed == [blocks |-> blocks, held |-> held]
           last == Len(blocks)
<1>1. GroupPart(feed, part) = [feed EXCEPT !.blocks[last].calls = Append(@, part)]
  BY DEF GroupPart, FoldTool, ToolsBlock
<1>2. [blocks[last] EXCEPT !.calls = Append(calls, part)] = ToolsBlock(Append(calls, part))
  BY DEF ToolsBlock
<1>3. blocks[last].calls = calls
  BY DEF ToolsBlock
<1>4. [feed EXCEPT !.blocks[last].calls = Append(@, part)]
        = [feed EXCEPT !.blocks = [blocks EXCEPT ![last] = [blocks[last] EXCEPT !.calls = Append(calls, part)]]]
  BY <1>3
<1> QED
  BY <1>1, <1>2, <1>4
LEMMA GroupUser ==
  ASSUME NEW blocks, NEW held, NEW part, part.kind \notin {"artifact", "tool"}, UserMessage(part)
  PROVE  GroupPart([blocks |-> blocks, held |-> held], part)
           = [blocks |-> Append(blocks \o held, part), held |-> <<>>]
BY DEF GroupPart, EndTurn

LEMMA GroupOther ==
  ASSUME NEW blocks, NEW held, NEW part, part.kind \notin {"artifact", "tool"}, ~UserMessage(part)
  PROVE  GroupPart([blocks |-> blocks, held |-> held], part)
           = [blocks |-> Append(blocks, part), held |-> held]
BY DEF GroupPart

\* The answer of a tool call, before or after a part is grouped, is the same.
LEMMA RenewedGroup ==
  ASSUME NEW tool \in AnyPart, tool.kind = "tool", NEW feed \in Feed, NEW part \in AnyPart
  PROVE  GroupPart(RenewedFeed(feed, tool), Renewed(part, tool))
           = RenewedFeed(GroupPart(feed, part), tool)
<1> DEFINE blocks == feed.blocks
           held == feed.held
           old == RenewedBlocks(blocks, tool)
           x == Renewed(part, tool)
           R(b, h) == [blocks |-> b, held |-> h]
<1>1. /\ blocks \in Seq(Block) /\ held \in Seq(AnyPart) /\ old \in Seq(Block)
      /\ Len(blocks) \in Nat /\ Len(old) = Len(blocks)
      /\ \A n \in 1 .. Len(blocks) : old[n] = RenewedBlock(blocks[n], tool)
      /\ feed = R(blocks, held)
      /\ RenewedFeed(feed, tool) = R(old, held)
  BY RenewedTyped DEF Feed, RenewedFeed, RenewedBlocks
<1>2. x.kind = part.kind /\ x \in AnyPart /\ x \in Block /\ part \in Block
  BY DEF Renewed, Block
<1>3. \A b, h : RenewedFeed(R(b, h), tool) = R(RenewedBlocks(b, tool), h)
  BY DEF RenewedFeed
<1> HIDE DEF blocks, held, x
<1>4. CASE part.kind = "artifact"
  <2>1. x = part
    BY <1>4 DEF Renewed, x
  <2>2. RenewedBlocks(blocks, tool) = old
    OBVIOUS
  <2> HIDE DEF old
  <2>3. GroupPart(R(blocks, held), part) = R(blocks, Append(held, part))
    BY <1>4, GroupArtifact
  <2>4. GroupPart(R(old, held), part) = R(old, Append(held, part))
    BY <1>4, GroupArtifact
  <2> HIDE DEF R
  <2> QED
    BY <1>1, <1>3, <2>1, <2>2, <2>3, <2>4 DEF x
<1>5. CASE part.kind = "tool"
  <2> DEFINE last == Len(blocks)
             block == blocks[last]
  <2>1. last > 0 => block \in Block /\ old[last] = RenewedBlock(block, tool)
    BY <1>1
  <2>2. CASE last > 0 /\ block.kind = "tools"
    <3>1. block \in [kind : {"tools"}, calls : Seq(AnyPart)]
      BY <2>1, <2>2 DEF Block, AnyPart, Kind
    <3> DEFINE calls == block.calls
               theirs == [n \in DOMAIN calls |-> Renewed(calls[n], tool)]
               a == ToolsBlock(Append(calls, part))
               b == ToolsBlock(Append(theirs, x))
    <3>2. calls \in Seq(AnyPart) /\ theirs \in Seq(AnyPart) /\ block = ToolsBlock(calls)
      BY <3>1, RenewedTyped DEF ToolsBlock
    <3>3. old[last] = ToolsBlock(theirs)
      BY <2>1, <2>2 DEF RenewedBlock
    <3>4. [n \in DOMAIN Append(calls, part) |-> Renewed(Append(calls, part)[n], tool)] = Append(theirs, x)
      <4> DEFINE all == Append(calls, part)
                 left == [n \in DOMAIN all |-> Renewed(all[n], tool)]
                 right == Append(theirs, x)
      <4>1. /\ all \in Seq(AnyPart) /\ Len(all) = Len(calls) + 1 /\ Len(calls) \in Nat
            /\ all[Len(calls) + 1] = part
            /\ \A n \in 1 .. Len(calls) : all[n] = calls[n]
        <5> HIDE DEF calls
        <5> QED
          BY <3>2, AppendProperties
      <4>2. left \in Seq(AnyPart) /\ Len(left) = Len(all) /\ Len(theirs) = Len(calls)
        <5> HIDE DEF all, calls
        <5> QED
          BY <3>2, <4>1, RenewedTyped
      <4>3. /\ right \in Seq(AnyPart) /\ Len(right) = Len(theirs) + 1
            /\ right[Len(theirs) + 1] = x
            /\ \A n \in 1 .. Len(theirs) : right[n] = theirs[n]
        <5> HIDE DEF theirs
        <5> QED
          BY <1>2, <3>2, AppendProperties
      <4>4. /\ \A n \in 1 .. Len(calls) + 1 : left[n] = Renewed(all[n], tool)
            /\ \A n \in 1 .. Len(calls) : theirs[n] = Renewed(calls[n], tool)
        <5>1. DOMAIN all = 1 .. Len(calls) + 1 /\ DOMAIN calls = 1 .. Len(calls)
          BY <3>2, <4>1
        <5> HIDE DEF all, calls
        <5> QED
          BY <5>1
      <4> HIDE DEF all, left, theirs, right, calls
      <4>5. \A n \in 1 .. Len(calls) + 1 : left[n] = right[n]
        BY <4>1, <4>2, <4>3, <4>4 DEF x
      <4>6. left = right
        BY <4>1, <4>2, <4>3, <4>5, SeqEqual
      <4> QED
        BY <4>6 DEF left, right, all
    <3>5. RenewedBlock(a, tool) = b
      BY <3>4 DEF RenewedBlock, ToolsBlock
    <3>6. RenewedBlocks([blocks EXCEPT ![last] = a], tool) = [old EXCEPT ![last] = b]
      <4>1. last \in DOMAIN blocks /\ DOMAIN old = DOMAIN blocks
        BY <1>1, <2>2
      <4>2. old = [n \in DOMAIN blocks |-> RenewedBlock(blocks[n], tool)]
        BY DEF RenewedBlocks
      <4> HIDE DEF a, b, last, old
      <4> QED
        BY <3>5, <4>1, <4>2 DEF RenewedBlocks
    <3>7. GroupPart(R(blocks, held), part) = R([blocks EXCEPT ![last] = a], held)
      <4> HIDE DEF calls
      <4> QED
        BY <1>5, <2>2, <3>2, GroupNextTool
    <3>8. GroupPart(R(old, held), x) = R([old EXCEPT ![last] = b], held)
      <4>1. Len(old) > 0 /\ old[Len(old)] = ToolsBlock(theirs) /\ Len(old) = last
        BY <1>1, <2>2, <3>3
      <4> HIDE DEF theirs, old, last
      <4> QED
        BY <1>2, <1>5, <4>1, GroupNextTool
    <3> HIDE DEF R, a, b, old, last
    <3> QED
      BY <1>1, <1>3, <3>6, <3>7, <3>8 DEF x
  <2>3. CASE ~(last > 0 /\ block.kind = "tools")
    <3>1. ~(Len(old) > 0 /\ old[Len(old)].kind = "tools")
      <4>1. block.kind # "tools" => RenewedBlock(block, tool) = block
        BY DEF RenewedBlock
      <4> HIDE DEF old
      <4> QED
        BY <1>1, <2>1, <2>3, <4>1
    <3> DEFINE a == ToolsBlock(<<part>>)
               b == ToolsBlock(<<x>>)
    <3>2. RenewedBlock(a, tool) = b
      <4>1. [n \in DOMAIN <<part>> |-> Renewed(<<part>>[n], tool)] = <<x>>
        BY DEF x
      <4> QED
        BY <4>1 DEF RenewedBlock, ToolsBlock
    <3>3. a \in Block
      BY DEF ToolsBlock, Block
    <3>4. GroupPart(R(blocks, held), part) = R(Append(blocks, a), held)
      BY <1>5, <2>3, GroupFirstTool
    <3>5. GroupPart(R(old, held), x) = R(Append(old, b), held)
      <4> HIDE DEF old
      <4> QED
        BY <1>2, <1>5, <3>1, GroupFirstTool
    <3>6. RenewedBlocks(Append(blocks, a), tool) = Append(old, b)
      <4> HIDE DEF a, b
      <4> QED
        BY <1>1, <3>2, <3>3, RenewedAppend
    <3> HIDE DEF R, a, b, old
    <3> QED
      BY <1>1, <1>3, <3>4, <3>5, <3>6 DEF x
  <2> QED
    BY <2>2, <2>3
<1>6. CASE part.kind \notin {"artifact", "tool"}
  <2>1. x = part /\ RenewedBlock(part, tool) = part
    BY <1>6 DEF Renewed, RenewedBlock, AnyPart, Kind, x
  <2>2. held \in Seq(Block) /\ RenewedBlocks(held, tool) = held
    BY <1>1, RenewedAppend
  <2>3. CASE UserMessage(part)
    <3> DEFINE both == blocks \o held
               mine == old \o held
    <3>1. GroupPart(R(blocks, held), part) = R(Append(both, part), <<>>)
      BY <1>6, <2>3, GroupUser
    <3>2. GroupPart(R(old, held), part) = R(Append(mine, part), <<>>)
      <4> HIDE DEF old
      <4> QED
        BY <1>6, <2>3, GroupUser
    <3>3. both \in Seq(Block)
      BY <1>1, <2>2, ConcatProperties
    <3>4. RenewedBlocks(both, tool) = mine
      <4>1. RenewedBlocks(both, tool) = old \o RenewedBlocks(held, tool)
        BY <1>1, <2>2, RenewedAppend
      <4> QED
        BY <2>2, <4>1
    <3> HIDE DEF both, mine
    <3>5. RenewedBlocks(Append(both, part), tool) = Append(mine, part)
      <4>1. RenewedBlocks(Append(both, part), tool)
              = Append(RenewedBlocks(both, tool), RenewedBlock(part, tool))
        BY <1>2, <3>3, RenewedAppend
      <4> QED
        BY <2>1, <3>4, <4>1
    <3> HIDE DEF R, old
    <3> QED
      BY <1>1, <1>3, <2>1, <3>1, <3>2, <3>5 DEF x
  <2>4. CASE ~UserMessage(part)
    <3>1. GroupPart(R(blocks, held), part) = R(Append(blocks, part), held)
      BY <1>6, <2>4, GroupOther
    <3>2. GroupPart(R(old, held), part) = R(Append(old, part), held)
      <4> HIDE DEF old
      <4> QED
        BY <1>6, <2>4, GroupOther
    <3>3. RenewedBlocks(Append(blocks, part), tool) = Append(old, part)
      <4>1. RenewedBlocks(Append(blocks, part), tool)
              = Append(old, RenewedBlock(part, tool))
        BY <1>1, <1>2, RenewedAppend
      <4> QED
        BY <2>1, <4>1
    <3> HIDE DEF R, old
    <3> QED
      BY <1>1, <1>3, <2>1, <3>1, <3>2, <3>3 DEF x
  <2> QED
    BY <2>3, <2>4
<1> QED
  BY <1>4, <1>5, <1>6 DEF x

\* A page where the call is replaced shows the feed with the call replaced.
LEMMA ReplacedFeed ==
  ASSUME NEW tool \in AnyPart, tool.kind = "tool",
         NEW old \in Seq(AnyPart), NEW new \in Seq(AnyPart), Len(new) = Len(old),
         \A n \in 1 .. Len(old) : Bare(new[n]) = Renewed(Bare(old[n]), tool)
  PROVE  FeedOf(new) = RenewedFeed(FeedOf(old), tool)
<1> DEFINE N == Len(old)
<1>1. N \in Nat
  OBVIOUS
<1>2. PICK f : Stages(old, f) /\ FeedOf(old) = f[N]
  BY StagesExist
<1>3. PICK g : Stages(new, g) /\ FeedOf(new) = g[N]
  BY StagesExist
<1> DEFINE W == {m \in Nat : m <= N => g[m] = RenewedFeed(f[m], tool)}
<1>4. 0 \in W
  <2>1. RenewedBlocks(<<>>, tool) = <<>>
    BY DEF RenewedBlocks
  <2> QED
    BY <1>2, <1>3, <2>1 DEF Stages, RenewedFeed, Empty
<1>5. \A m \in Nat : m \in W => m + 1 \in W
  <2> SUFFICES ASSUME NEW m \in Nat, m \in W, m + 1 <= N
               PROVE  g[m + 1] = RenewedFeed(f[m + 1], tool)
    OBVIOUS
  <2> DEFINE x == old[m + 1]
             y == new[m + 1]
  <2>1. m + 1 \in 1 .. N /\ m \in 0 .. N /\ x \in AnyPart /\ y \in AnyPart /\ m + 1 - 1 = m
    OBVIOUS
  <2>2. /\ f[m] \in Feed /\ f[m + 1] = Adds(f[m], x)
        /\ g[m] = RenewedFeed(f[m], tool) /\ g[m + 1] = Adds(g[m], y)
    BY <2>1, <1>2, <1>3 DEF Stages
  <2>3. Bare(y) = Renewed(Bare(x), tool)
    BY <2>1
  <2> HIDE DEF x, y
  <2>4. Bare(x) \in AnyPart /\ x.kind = Bare(x).kind /\ y.kind = Bare(y).kind
    BY <2>1, BareTyped
  <2>5. x.kind = y.kind
    BY <2>3, <2>4 DEF Renewed
  <2>6. GroupPart(g[m], Bare(y)) = RenewedFeed(GroupPart(f[m], Bare(x)), tool)
    BY <2>2, <2>3, <2>4, RenewedGroup
  <2> QED
    BY <2>2, <2>5, <2>6 DEF Adds
<1> HIDE DEF W
<1>6. N \in W
  BY <1>1, <1>4, <1>5, InductiveSet
<1> QED
  BY <1>2, <1>3, <1>6 DEF W

-----------------------------------------------------------------------------
(* The order of the parts of a run.                                        *)

Listed(row) ==
  /\ Lists(row) \in [Kind -> Seq(AnyPart)]
  /\ \A kind \in Kind : \A n \in DOMAIN Lists(row)[kind] : Lists(row)[kind][n].kind = kind

\* the entries of a run, in the order of its feed
Sorted(row, order) ==
  /\ order \in Seq(Entries(row))
  /\ \A e \in Entries(row) : \E n \in 1 .. Len(order) : order[n] = e
  /\ \A m, n \in 1 .. Len(order) : Before(row, order[m], order[n]) <=> m < n

LEMMA Ranked ==
  /\ \A k \in Kind : KindRank[k] \in Nat
  /\ \A k, l \in Kind : KindRank[k] = KindRank[l] => k = l
BY DEF Kind, KindRank

LEMMA EntryTyped ==
  ASSUME NEW row, Listed(row), NEW e \in Entries(row)
  PROVE  /\ e[1] \in Kind /\ e[2] \in Nat /\ e = <<e[1], e[2]>>
         /\ e[2] \in 1 .. Len(Lists(row)[e[1]])
         /\ Entry(row, e) \in AnyPart /\ Entry(row, e).kind = e[1] /\ Entry(row, e).at \in Nat
<1>1. PICK k \in Kind : e \in {k} \X DOMAIN Lists(row)[k]
  BY DEF Entries
<1>2. Lists(row)[k] \in Seq(AnyPart)
  BY DEF Listed
<1>3. e[1] = k /\ e[2] \in DOMAIN Lists(row)[k] /\ e = <<e[1], e[2]>>
  BY <1>1
<1>4. e[2] \in 1 .. Len(Lists(row)[k]) /\ e[2] \in Nat
  BY <1>2, <1>3
<1>5. Entry(row, e) \in AnyPart /\ Entry(row, e).kind = k
  BY <1>2, <1>3, <1>4 DEF Entry, Listed
<1> QED
  BY <1>3, <1>4, <1>5 DEF AnyPart

LEMMA EntryOf ==
  ASSUME NEW row, Listed(row), NEW k \in Kind, NEW n \in 1 .. Len(Lists(row)[k])
  PROVE  <<k, n>> \in Entries(row) /\ Entry(row, <<k, n>>) = Lists(row)[k][n]
<1>1. n \in DOMAIN Lists(row)[k]
  BY DEF Listed
<1> QED
  BY <1>1 DEF Entries, Entry

\* Before is a strict total order of the entries.
LEMMA BeforeOrder ==
  ASSUME NEW row, Listed(row), NEW c \in Entries(row), NEW d \in Entries(row), NEW e \in Entries(row)
  PROVE  /\ Before(row, c, d) /\ Before(row, d, e) => Before(row, c, e)
         /\ ~(Before(row, c, d) /\ Before(row, d, c))
         /\ c # d => Before(row, c, d) \/ Before(row, d, c)
<1>1. /\ c[1] \in Kind /\ c[2] \in Nat /\ Entry(row, c).at \in Nat
      /\ d[1] \in Kind /\ d[2] \in Nat /\ Entry(row, d).at \in Nat
      /\ e[1] \in Kind /\ e[2] \in Nat /\ Entry(row, e).at \in Nat
      /\ c = <<c[1], c[2]>> /\ d = <<d[1], d[2]>>
  BY EntryTyped
<1>2. /\ KindRank[c[1]] \in Nat /\ KindRank[d[1]] \in Nat /\ KindRank[e[1]] \in Nat
      /\ KindRank[c[1]] = KindRank[d[1]] => c[1] = d[1]
  BY <1>1, Ranked
<1>3. Before(row, c, d) /\ Before(row, d, e) => Before(row, c, e)
  BY <1>1, <1>2 DEF Before
<1>4. ~(Before(row, c, d) /\ Before(row, d, c))
  BY <1>1, <1>2 DEF Before
<1>5. ASSUME c # d PROVE Before(row, c, d) \/ Before(row, d, c)
  <2>1. c[1] # d[1] \/ c[2] # d[2]
    BY <1>1, <1>5
  <2> QED
    BY <1>1, <1>2, <2>1 DEF Before
<1> QED
  BY <1>3, <1>4, <1>5

\* A set that is listed without repetition.
LEMMA Counted ==
  ASSUME NEW n \in Nat, NEW list, NEW S,
         \A m \in 1 .. n : list[m] \in S,
         \A l, m \in 1 .. n : list[l] = list[m] => l = m,
         \A d \in S : \E m \in 1 .. n : list[m] = d
  PROVE  Cardinality(S) = n
<1> DEFINE f == [m \in 1 .. n |-> list[m]]
<1>1. f \in [1 .. n -> S]
  OBVIOUS
<1>2. \A l, m \in 1 .. n : f[l] = f[m] => l = m
  OBVIOUS
<1>3. \A d \in S : \E m \in 1 .. n : f[m] = d
  OBVIOUS
<1> HIDE DEF f
<1>4. f \in Bijection(1 .. n, S)
  BY <1>1, <1>2, <1>3 DEF Bijection, Injection, Surjection, IsInjective
<1>5. ExistsBijection(1 .. n, S)
  BY <1>4 DEF ExistsBijection
<1>6. IsFiniteSet(1 .. n) /\ Cardinality(1 .. n) = n
  BY FS_Interval
<1> QED
  BY <1>5, <1>6, FS_Bijection

\* What BuildRunFeed computes by counting is the order there is.
LEMMA SortedFeed ==
  ASSUME NEW row, NEW order, Sorted(row, order)
  PROVE  BuildRunFeed(row) = [n \in 1 .. Len(order) |-> Entry(row, order[n])]
<1> DEFINE N == Len(order)
           All == Entries(row)
<1>1. N \in Nat /\ \A n \in 1 .. N : order[n] \in All
  BY DEF Sorted
<1>2. \A m, n \in 1 .. N : order[m] = order[n] => m = n
  <2> SUFFICES ASSUME NEW m \in 1 .. N, NEW n \in 1 .. N, order[m] = order[n], m < n PROVE FALSE
    BY <1>1
  <2> QED
    BY DEF Sorted
<1>3. ASSUME NEW n \in 1 .. N
      PROVE  Position(row, order[n]) = n
  <2> DEFINE Earlier == {d \in All : Before(row, d, order[n])}
  <2>1. n - 1 \in Nat /\ \A m \in 1 .. n - 1 : m \in 1 .. N /\ m < n
    BY <1>1
  <2>2. \A m \in 1 .. n - 1 : order[m] \in Earlier
    BY <1>1, <2>1 DEF Sorted
  <2>3. \A d \in Earlier : \E m \in 1 .. n - 1 : order[m] = d
    <3> TAKE d \in Earlier
    <3>1. PICK m \in 1 .. N : order[m] = d
      BY DEF Sorted
    <3>2. m < n
      BY <3>1 DEF Sorted
    <3> QED
      BY <1>1, <3>1, <3>2
  <2>4. \A l, m \in 1 .. n - 1 : order[l] = order[m] => l = m
    BY <1>2, <2>1
  <2>5. Cardinality(Earlier) = n - 1
    <3> HIDE DEF Earlier
    <3> QED
      BY <2>1, <2>2, <2>3, <2>4, Counted
  <2> QED
    BY <1>1, <2>5 DEF Position
<1>4. Cardinality(All) = N
  <2>1. \A d \in All : \E m \in 1 .. N : order[m] = d
    BY DEF Sorted
  <2> HIDE DEF All
  <2> QED
    BY <1>1, <1>2, <2>1, Counted
<1>5. ASSUME NEW n \in 1 .. N
      PROVE  (CHOOSE e \in All : Position(row, e) = n) = order[n]
  <2>1. order[n] \in All /\ Position(row, order[n]) = n
    BY <1>1, <1>3
  <2>2. \A e \in All : Position(row, e) = n => e = order[n]
    <3> TAKE e \in All
    <3>1. PICK m \in 1 .. N : order[m] = e
      BY DEF Sorted
    <3> QED
      BY <1>3, <3>1
  <2> HIDE DEF All
  <2> QED
    BY <2>1, <2>2
<1>6. BuildRunFeed(row) =
        [n \in 1 .. N |-> Entry(row, CHOOSE e \in All : Position(row, e) = n)]
  BY <1>4 DEF BuildRunFeed
<1> HIDE DEF All, N
<1> QED
  BY <1>5, <1>6 DEF N

\* The feed is the entries of the run, in their order.
LEMMA FeedListed ==
  ASSUME NEW row, Listed(row), NEW order, Sorted(row, order)
  PROVE  /\ BuildRunFeed(row) \in Seq(AnyPart)
         /\ Len(BuildRunFeed(row)) = Len(order)
         /\ \A n \in 1 .. Len(order) : BuildRunFeed(row)[n] = Entry(row, order[n])
<1>1. BuildRunFeed(row) = [n \in 1 .. Len(order) |-> Entry(row, order[n])]
  BY SortedFeed
<1>2. \A n \in 1 .. Len(order) : Entry(row, order[n]) \in AnyPart
  <2> TAKE n \in 1 .. Len(order)
  <2>1. order[n] \in Entries(row)
    BY DEF Sorted
  <2> QED
    BY <2>1, EntryTyped
<1>3. Len(order) \in Nat
  BY DEF Sorted
<1> QED
  BY <1>1, <1>2, <1>3, IsASeq

\* A set of first numbers is an interval.
LEMMA FirstOnes ==
  ASSUME NEW N \in Nat, NEW D \in SUBSET (1 .. N), \A n \in D : \A m \in 1 .. n : m \in D
  PROVE  \E k \in 0 .. N : D = 1 .. k
<1> SUFFICES ASSUME \A k \in 0 .. N : D # 1 .. k PROVE FALSE
  OBVIOUS
<1> DEFINE T == {n \in Nat : n <= N /\ 1 .. n \subseteq D}
<1>1. 0 \in T
  OBVIOUS
<1>2. ASSUME NEW n \in Nat, n \in T
      PROVE  n + 1 \in T
  <2>1. n \in 0 .. N /\ D # 1 .. n /\ 1 .. n \subseteq D
    BY <1>2
  <2>2. PICK d \in D : d \notin 1 .. n
    BY <2>1
  <2>3. d \in Nat /\ n + 1 <= d /\ d <= N
    BY <2>1, <2>2
  <2>4. n + 1 \in D
    BY <2>2, <2>3
  <2>5. 1 .. n + 1 \subseteq D
    BY <2>1, <2>4
  <2> QED
    BY <2>3, <2>5
<1> HIDE DEF T
<1>3. N + 1 \in T
  BY <1>1, <1>2, InductiveSet
<1> QED
  BY <1>3 DEF T

\* A part is added to the list of its kind.
Grown(row, new, part) ==
  /\ \A kind \in Kind \ {part.kind} : Lists(new)[kind] = Lists(row)[kind]
  /\ Lists(new)[part.kind] = Append(Lists(row)[part.kind], part)

\* No part is later, or of this moment and shown after it for a reason.
Latest(row, part) ==
  \A e \in Entries(row) :
    \/ Entry(row, e).at < part.at
    \/ /\ Entry(row, e).at = part.at
       /\ \/ KindRank[e[1]] <= KindRank[part.kind]
          \/ part.kind \in {"tool", "approval"} /\ e[1] \in {"approval", "artifact"}

\* A row with one more part, stamped no earlier than the rest, has an order:
\* the part comes after all but the later kinds of its own moment.
LEMMA GrownListed ==
  ASSUME NEW row, Listed(row), NEW part \in AnyPart, NEW new, Grown(row, new, part),
         NEW z, z = <<part.kind, Len(Lists(row)[part.kind]) + 1>>
  PROVE  /\ Listed(new)
         /\ z \notin Entries(row)
         /\ Entries(new) = Entries(row) \cup {z}
         /\ Entry(new, z) = part
         /\ \A e \in Entries(row) : Entry(new, e) = Entry(row, e)
<1> DEFINE K == part.kind
           old == Lists(row)[K]
           N == Len(old)
<1>1. K \in Kind
  BY DEF AnyPart
<1>2. K \in Kind /\ old \in Seq(AnyPart) /\ N \in Nat
  <2>1. old \in Seq(AnyPart)
    BY <1>1 DEF Listed
  <2> HIDE DEF old
  <2> QED
    BY <1>1, <2>1
<1>3. /\ Lists(new)[K] \in Seq(AnyPart) /\ Len(Lists(new)[K]) = N + 1
      /\ Lists(new)[K][N + 1] = part
      /\ \A n \in 1 .. N : Lists(new)[K][n] = old[n]
  <2> HIDE DEF old
  <2>1. Lists(new)[K] = Append(old, part)
    BY DEF Grown, old
  <2> QED
    BY <1>2, <2>1, AppendProperties
<1>4. \A kind \in Kind \ {K} : Lists(new)[kind] = Lists(row)[kind] /\ Lists(row)[kind] \in Seq(AnyPart)
  BY DEF Grown, Listed
<1>5. Listed(new)
  <2>1. Lists(new) \in [Kind -> Seq(AnyPart)]
    <3>1. Lists(new) = [kind \in Kind |-> Lists(new)[kind]]
      BY DEF Lists, Kind
    <3>2. \A kind \in Kind : Lists(new)[kind] \in Seq(AnyPart)
      BY <1>3, <1>4
    <3> QED
      BY <3>1, <3>2
  <2>2. ASSUME NEW kind \in Kind, NEW n \in DOMAIN Lists(new)[kind]
        PROVE  Lists(new)[kind][n].kind = kind
    <3>1. CASE kind # K
      BY <1>4, <3>1 DEF Listed
    <3>2. CASE kind = K /\ n = N + 1
      BY <1>3, <3>2
    <3>3. CASE kind = K /\ n # N + 1
      <4>1. n \in 1 .. N + 1
        BY <1>3, <3>3
      <4>2. n \in 1 .. N /\ Lists(new)[kind][n] = old[n]
        <5> HIDE DEF old, N
        <5> QED
          BY <1>2, <1>3, <3>3, <4>1
      <4>3. n \in DOMAIN old
        BY <1>2, <4>2
      <4> QED
        BY <1>2, <3>3, <4>2, <4>3 DEF Listed
    <3> QED
      BY <3>1, <3>2, <3>3
  <2> QED
    BY <2>1, <2>2 DEF Listed
<1>6. z \notin Entries(row)
  <2> SUFFICES ASSUME z \in Entries(row) PROVE FALSE
    OBVIOUS
  <2>1. z[2] \in 1 .. Len(Lists(row)[z[1]])
    BY EntryTyped
  <2> QED
    BY <1>2, <2>1
<1>7. \A e \in Entries(row) : e \in Entries(new) /\ Entry(new, e) = Entry(row, e)
  <2> TAKE e \in Entries(row)
  <2>1. e[1] \in Kind /\ e = <<e[1], e[2]>> /\ e[2] \in 1 .. Len(Lists(row)[e[1]])
    BY EntryTyped
  <2>2. /\ e[2] \in 1 .. Len(Lists(new)[e[1]])
        /\ Lists(new)[e[1]][e[2]] = Lists(row)[e[1]][e[2]]
    <3>1. CASE e[1] = K
      BY <1>2, <1>3, <2>1, <3>1
    <3>2. CASE e[1] # K
      BY <1>4, <2>1, <3>2
    <3> QED
      BY <3>1, <3>2
  <2> QED
    BY <1>5, <2>1, <2>2, EntryOf DEF Entry
<1>8. z \in Entries(new) /\ Entry(new, z) = part
  <2>1. N + 1 \in 1 .. Len(Lists(new)[K])
    BY <1>2, <1>3
  <2> QED
    BY <1>2, <1>3, <1>5, <2>1, EntryOf
<1>9. \A e \in Entries(new) : e = z \/ e \in Entries(row)
  <2> TAKE e \in Entries(new)
  <2>1. e[1] \in Kind /\ e = <<e[1], e[2]>> /\ e[2] \in 1 .. Len(Lists(new)[e[1]])
    BY <1>5, EntryTyped
  <2>2. CASE e[1] # K
    BY <1>4, <2>1, <2>2, EntryOf
  <2>3. CASE e[1] = K /\ e[2] = N + 1
    BY <2>1, <2>3
  <2>4. CASE e[1] = K /\ e[2] # N + 1
    <3>1. e[2] \in 1 .. Len(Lists(row)[e[1]])
      BY <1>2, <1>3, <2>1, <2>4
    <3> QED
      BY <2>1, <3>1, EntryOf
  <2> QED
    BY <2>2, <2>3, <2>4
<1> QED
  BY <1>5, <1>6, <1>7, <1>8, <1>9

\* What the part makes of the blocks does not depend on what it precedes.
LEMMA GrownFeed ==
  ASSUME NEW row, Listed(row), NEW order, Sorted(row, order),
         NEW part \in AnyPart, Latest(row, part),
         NEW new, Grown(row, new, part)
  PROVE  /\ Listed(new)
         /\ \E later : Sorted(new, later)
         /\ FeedOf(BuildRunFeed(new)) = Adds(FeedOf(BuildRunFeed(row)), part)
<1> DEFINE N == Len(order)
           z == <<part.kind, Len(Lists(row)[part.kind]) + 1>>
           D == {n \in 1 .. N : Before(new, order[n], z)}
<1>1. /\ Listed(new) /\ z \notin Entries(row) /\ Entries(new) = Entries(row) \cup {z}
      /\ Entry(new, z) = part /\ \A e \in Entries(row) : Entry(new, e) = Entry(row, e)
  BY GrownListed
<1>2. z[1] = part.kind
  OBVIOUS
<1> HIDE DEF z
<1>3. N \in Nat /\ \A n \in 1 .. N : order[n] \in Entries(row) /\ order[n] \in Entries(new)
  BY <1>1 DEF Sorted
<1>4. \A d, e \in Entries(row) : Before(new, d, e) <=> Before(row, d, e)
  BY <1>1 DEF Before
<1>5. \A m, n \in 1 .. N : Before(new, order[m], order[n]) <=> m < n
  BY <1>3, <1>4 DEF Sorted
<1>6. PICK k \in 0 .. N : D = 1 .. k
  <2>1. D \in SUBSET (1 .. N)
    OBVIOUS
  <2>2. ASSUME NEW n \in D, NEW m \in 1 .. n
        PROVE  m \in D
    <3>1. m \in 1 .. N /\ n \in 1 .. N /\ Before(new, order[n], z)
      BY <1>3
    <3>2. CASE m = n
      BY <3>2
    <3>3. CASE m # n
      <4>1. Before(new, order[m], order[n])
        BY <1>3, <1>5, <3>1, <3>3
      <4>2. order[m] \in Entries(new) /\ order[n] \in Entries(new) /\ z \in Entries(new)
        BY <1>1, <1>3, <3>1
      <4>3. Before(new, order[m], z)
        BY <1>1, <3>1, <4>1, <4>2, BeforeOrder
      <4> QED
        BY <3>1, <4>3
    <3> QED
      BY <3>2, <3>3
  <2> HIDE DEF D
  <2> QED
    BY <1>3, <2>1, <2>2, FirstOnes
<1>7. \A n \in 1 .. N : /\ n <= k <=> Before(new, order[n], z)
                        /\ n > k <=> Before(new, z, order[n])
  <2> TAKE n \in 1 .. N
  <2>1. n <= k <=> Before(new, order[n], z)
    BY <1>3, <1>6
  <2>2. order[n] \in Entries(new) /\ z \in Entries(new) /\ order[n] # z
    BY <1>1, <1>3
  <2>3. Before(new, order[n], z) <=> ~Before(new, z, order[n])
    BY <1>1, <2>2, BeforeOrder
  <2> QED
    BY <1>3, <2>1, <2>3
<1> HIDE DEF D
<1> DEFINE later == Inserted(order, k, z)
           feed == BuildRunFeed(row)
           longer == BuildRunFeed(new)
<1>8. /\ Len(later) = N + 1 /\ DOMAIN later = 1 .. N + 1
      /\ later[k + 1] = z
      /\ \A n \in 1 .. N + 1 : /\ n <= k => later[n] = order[n]
                               /\ n > k + 1 => later[n] = order[n - 1]
  BY <1>3 DEF Inserted
<1>9. Sorted(new, later)
  <2>1. later \in Seq(Entries(new))
    <3>1. \A n \in 1 .. N + 1 : later[n] \in Entries(new)
      BY <1>1, <1>3, <1>8
    <3>2. later \in [1 .. N + 1 -> Entries(new)]
      BY <3>1, <1>3 DEF Inserted
    <3> QED
      BY <1>3, <3>2, IsASeq
  <2>2. ASSUME NEW e \in Entries(new)
        PROVE  \E n \in 1 .. N + 1 : later[n] = e
    <3>1. CASE e = z
      BY <1>3, <1>8, <3>1
    <3>2. CASE e # z
      <4>1. PICK m \in 1 .. N : order[m] = e
        BY <1>1, <3>2 DEF Sorted
      <4>2. CASE m <= k
        <5>1. m \in 1 .. N + 1
          BY <1>3
        <5>2. later[m] = e
          BY <1>8, <4>1, <4>2, <5>1
        <5> QED
          BY <5>1, <5>2
      <4>3. CASE ~(m <= k)
        <5>1. m + 1 \in 1 .. N + 1 /\ m + 1 > k + 1 /\ m + 1 - 1 = m
          BY <1>3, <4>3
        <5>2. later[m + 1] = e
          <6> HIDE DEF later
          <6> QED
            BY <1>8, <4>1, <5>1
        <5> QED
          BY <5>1, <5>2
      <4> QED
        BY <4>2, <4>3
    <3> QED
      BY <3>1, <3>2
  <2>3. ASSUME NEW m \in 1 .. N + 1, NEW n \in 1 .. N + 1
        PROVE  Before(new, later[m], later[n]) <=> m < n
    <3> DEFINE at(i) == IF i <= k THEN i ELSE i - 1
    <3>1. \A i \in 1 .. N + 1 : i # k + 1 => at(i) \in 1 .. N /\ later[i] = order[at(i)]
      BY SMTT(30), <1>3, <1>8
    <3>2. CASE m # k + 1 /\ n # k + 1
      <4>1. at(m) < at(n) <=> m < n
        BY <1>3, <3>2
      <4> HIDE DEF at
      <4> QED
        BY <1>5, <3>1, <3>2, <4>1
    <3>3. CASE m # k + 1 /\ n = k + 1
      <4>1. at(m) <= k <=> m < n
        BY <1>3, <3>3
      <4> HIDE DEF at
      <4> QED
        BY <1>7, <1>8, <3>1, <3>3, <4>1
    <3>4. CASE m = k + 1 /\ n # k + 1
      <4>1. at(n) > k <=> m < n
        BY <1>3, <3>4
      <4> HIDE DEF at
      <4> QED
        BY <1>7, <1>8, <3>1, <3>4, <4>1
    <3>5. CASE m = k + 1 /\ n = k + 1
      <4>1. z \in Entries(new) /\ ~Before(new, z, z)
        BY <1>1, BeforeOrder
      <4> QED
        BY <1>3, <1>8, <3>5, <4>1
    <3> QED
      BY <3>2, <3>3, <3>4, <3>5
  <2> HIDE DEF later
  <2> QED
    BY <1>8, <2>1, <2>2, <2>3 DEF Sorted
<1>10. /\ feed \in Seq(AnyPart) /\ Len(feed) = N
       /\ \A n \in 1 .. N : feed[n] = Entry(row, order[n])
  BY FeedListed
<1>11. /\ longer \in Seq(AnyPart) /\ Len(longer) = N + 1
       /\ \A n \in 1 .. N + 1 : longer[n] = Entry(new, later[n])
  <2> HIDE DEF later
  <2> QED
    BY <1>1, <1>8, <1>9, FeedListed
<1>12. longer = Inserted(feed, k, part)
  <2>1. \A n \in 1 .. N + 1 : longer[n] = Inserted(feed, k, part)[n]
    <3> TAKE n \in 1 .. N + 1
    <3>1. CASE n <= k
      <4>1. n \in 1 .. N
        BY <1>3, <3>1
      <4> QED
        BY <1>1, <1>3, <1>8, <1>10, <1>11, <3>1, <4>1 DEF Inserted
    <3>2. CASE n = k + 1
      BY <1>1, <1>3, <1>8, <1>10, <1>11, <3>2 DEF Inserted
    <3>3. CASE n > k + 1
      <4>1. n - 1 \in 1 .. N /\ ~(n <= k) /\ n # k + 1
        BY <1>3, <3>3
      <4> QED
        BY <1>1, <1>3, <1>8, <1>10, <1>11, <3>3, <4>1 DEF Inserted
    <3> QED
      BY <1>3, <3>1, <3>2, <3>3
  <2>2. longer = [n \in 1 .. N + 1 |-> longer[n]]
    BY <1>11
  <2>3. Inserted(feed, k, part) = [n \in 1 .. N + 1 |-> Inserted(feed, k, part)[n]]
    BY <1>10 DEF Inserted
  <2> QED
    BY <2>1, <2>2, <2>3
<1>13. \A n \in k + 1 .. N : /\ feed[n].kind \in {"approval", "artifact"}
                             /\ part.kind \in {"tool", "approval"}
  <2> TAKE n \in k + 1 .. N
  <2>1. n \in 1 .. N /\ n > k
    BY <1>3
  <2> DEFINE e == order[n]
  <2>2. e \in Entries(row) /\ Before(new, z, e) /\ feed[n] = Entry(row, e)
    BY <1>3, <1>7, <1>10, <2>1
  <2> HIDE DEF e, feed
  <2>3. /\ Entry(row, e).kind = e[1] /\ Entry(row, e).at \in Nat /\ e[1] \in Kind /\ e[2] \in Nat
        /\ e = <<e[1], e[2]>> /\ Entry(row, e) = Entry(new, e)
    BY <1>1, <2>2, EntryTyped
  <2>4. part.at \in Nat /\ part.kind \in Kind
    BY DEF AnyPart
  <2>5. \/ part.at < Entry(row, e).at
        \/ part.at = Entry(row, e).at /\ KindRank[part.kind] < KindRank[e[1]]
        \/ part.at = Entry(row, e).at /\ part.kind = e[1] /\ z[2] < e[2]
    BY <1>1, <1>2, <2>2, <2>3 DEF Before
  <2>6. part.kind = e[1] => ~(z[2] < e[2])
    <3>1. e[2] \in 1 .. Len(Lists(row)[e[1]]) /\ Len(Lists(row)[e[1]]) \in Nat
      BY <2>2, <2>3, EntryTyped DEF Listed
    <3> QED
      BY <3>1 DEF z
  <2>7. KindRank[e[1]] \in Nat /\ KindRank[part.kind] \in Nat
    BY <2>3, <2>4, Ranked
  <2> QED
    BY <2>2, <2>3, <2>4, <2>5, <2>6, <2>7 DEF Latest
<1>14. k = N \/ part.kind \in {"tool", "approval"}
  <2>1. k # N => N \in k + 1 .. N
    BY <1>3
  <2> QED
    BY <1>13, <2>1
<1>15. FeedOf(Inserted(feed, k, part)) = Adds(FeedOf(feed), part)
  <2> HIDE DEF feed
  <2> QED
    BY <1>3, <1>10, <1>13, <1>14, InsertedFeed
<1> HIDE DEF feed, longer, later
<1> QED
  BY <1>1, <1>9, <1>12, <1>15 DEF feed, longer

-----------------------------------------------------------------------------
(* The ids on a page, and what an event does to it.                        *)

AllIds(parts, kind) == {parts[n].id : n \in {m \in DOMAIN parts : parts[m].kind = kind}}

LEMMA IdsAppend ==
  ASSUME NEW parts \in Seq(AnyPart), NEW x \in AnyPart
  PROVE  /\ Ids(Append(parts, x)) = Ids(parts) \cup {x.id}
         /\ \A kind \in Kind :
              AllIds(Append(parts, x), kind)
                = AllIds(parts, kind) \cup IF x.kind = kind THEN {x.id} ELSE {}
<1> DEFINE N == Len(parts)
           new == Append(parts, x)
<1>1. /\ N \in Nat /\ DOMAIN parts = 1 .. N /\ DOMAIN new = 1 .. N + 1
      /\ new[N + 1] = x /\ \A n \in 1 .. N : new[n] = parts[n]
  BY AppendProperties
<1> HIDE DEF new, N
<1>2. /\ \A n \in DOMAIN new : n = N + 1 \/ n \in DOMAIN parts
      /\ N + 1 \in DOMAIN new /\ DOMAIN parts \subseteq DOMAIN new
      /\ \A n \in DOMAIN parts : new[n] = parts[n]
  BY <1>1
<1>3. Ids(new) = Ids(parts) \cup {x.id}
  BY <1>1, <1>2 DEF Ids
<1>4. ASSUME NEW kind \in Kind
      PROVE  AllIds(new, kind) = AllIds(parts, kind) \cup IF x.kind = kind THEN {x.id} ELSE {}
  <2>1. \A i : i \in AllIds(new, kind) <=> \E n \in DOMAIN new : new[n].kind = kind /\ new[n].id = i
    BY DEF AllIds
  <2>2. \A i : i \in AllIds(parts, kind) <=>
                 \E n \in DOMAIN parts : parts[n].kind = kind /\ parts[n].id = i
    BY DEF AllIds
  <2> QED
    BY <1>1, <1>2, <2>1, <2>2
<1> QED
  BY <1>3, <1>4 DEF new

\* The feed has the ids of the lists.
LEMMA FeedIds ==
  ASSUME NEW row, Listed(row), NEW order, Sorted(row, order), NEW kind \in Kind
  PROVE  AllIds(BuildRunFeed(row), kind) = Ids(Lists(row)[kind])
<1> DEFINE feed == BuildRunFeed(row)
           list == Lists(row)[kind]
           N == Len(order)
<1>1. /\ feed \in Seq(AnyPart) /\ Len(feed) = N /\ N \in Nat
      /\ \A n \in 1 .. N : feed[n] = Entry(row, order[n]) /\ order[n] \in Entries(row)
  BY SMTT(30), FeedListed DEF Sorted
<1>2. DOMAIN feed = 1 .. N
  BY <1>1
<1>3. list \in Seq(AnyPart)
  BY DEF Listed
<1> HIDE DEF feed, list, N
<1>4. DOMAIN list = 1 .. Len(list)
  BY <1>3
<1>5. ASSUME NEW n \in DOMAIN feed, feed[n].kind = kind
      PROVE  feed[n].id \in Ids(list)
  <2> DEFINE e == order[n]
  <2>1. e \in Entries(row) /\ feed[n] = Entry(row, e)
    BY <1>1, <1>2
  <2> HIDE DEF e
  <2>2. e[1] = kind /\ e[2] \in 1 .. Len(list) /\ Entry(row, e) = list[e[2]]
    BY <1>5, <2>1, EntryTyped DEF Entry, list
  <2> QED
    BY <1>4, <2>1, <2>2 DEF Ids
<1>6. ASSUME NEW m \in DOMAIN list
      PROVE  list[m].id \in AllIds(feed, kind)
  <2>1. <<kind, m>> \in Entries(row) /\ Entry(row, <<kind, m>>) = list[m]
    BY <1>4, EntryOf DEF list
  <2>2. PICK n \in 1 .. N : order[n] = <<kind, m>>
    BY <2>1 DEF Sorted, N
  <2>3. list[m].kind = kind
    BY DEF Listed, list
  <2>4. n \in DOMAIN feed /\ feed[n] = list[m] /\ feed[n].kind = kind
    BY <1>1, <1>2, <2>1, <2>2, <2>3
  <2> QED
    BY <2>4 DEF AllIds
<1>7. AllIds(feed, kind) \subseteq Ids(list)
  BY <1>5 DEF AllIds
<1>8. Ids(list) \subseteq AllIds(feed, kind)
  BY <1>6 DEF Ids
<1> QED
  BY <1>7, <1>8 DEF feed, list

\* The pane, part for part what a replaced part makes of it.
LEMMA UpsertReplaces ==
  ASSUME NEW parts \in Seq(AnyPart), NEW tool \in AnyPart, tool.kind = "tool", tool.at = 0,
         tool.id \in AllIds(parts, "tool")
  PROVE  /\ Upsert(parts, tool) \in Seq(AnyPart)
         /\ Len(Upsert(parts, tool)) = Len(parts)
         /\ \A n \in 1 .. Len(parts) :
              /\ Upsert(parts, tool)[n].kind = parts[n].kind
              /\ Upsert(parts, tool)[n].id = parts[n].id
              /\ parts[n].kind # "tool" => Upsert(parts, tool)[n] = parts[n]
         /\ FeedOf(Upsert(parts, tool)) = RenewedFeed(FeedOf(parts), tool)
<1> DEFINE new == Upsert(parts, tool)
           N == Len(parts)
<1>1. N \in Nat /\ DOMAIN parts = 1 .. N /\ \A n \in 1 .. N : parts[n] \in AnyPart
  OBVIOUS
<1>2. \E n \in DOMAIN parts : parts[n].kind = tool.kind /\ parts[n].id = tool.id
  BY DEF AllIds
<1>3. new = [n \in 1 .. N |-> IF parts[n].kind = tool.kind /\ parts[n].id = tool.id
                              THEN tool ELSE parts[n]]
  BY <1>1, <1>2 DEF Upsert
<1> HIDE DEF new
<1>4. new \in [1 .. N -> AnyPart]
  BY <1>1, <1>3
<1>5. new \in Seq(AnyPart) /\ Len(new) = N
  BY <1>1, <1>4, IsASeq
<1>6. Bare(tool) = tool
  <2>1. tool = [kind |-> tool.kind, id |-> tool.id, body |-> tool.body, at |-> 0]
    BY DEF AnyPart
  <2> QED
    BY <2>1, BareTyped
<1>7. \A n \in 1 .. N : Bare(new[n]) = Renewed(Bare(parts[n]), tool)
  BY <1>1, <1>3, <1>6, BareTyped DEF Renewed
<1>8. FeedOf(new) = RenewedFeed(FeedOf(parts), tool)
  BY <1>5, <1>7, ReplacedFeed
<1>9. \A n \in 1 .. N : /\ new[n].kind = parts[n].kind /\ new[n].id = parts[n].id
                        /\ parts[n].kind # "tool" => new[n] = parts[n]
  BY <1>3
<1> QED
  BY <1>5, <1>8, <1>9 DEF new

LEMMA UpsertAppends ==
  ASSUME NEW parts \in Seq(AnyPart), NEW part \in AnyPart, part.id \notin AllIds(parts, part.kind)
  PROVE  Upsert(parts, part) = Append(parts, part)
<1>1. ~(\E n \in DOMAIN parts : parts[n].kind = part.kind /\ parts[n].id = part.id)
  BY DEF AllIds
<1> QED
  BY <1>1 DEF Upsert

\* The result of a tool replaces the call in the row.
Replaced(row, new, t) ==
  /\ \A kind \in Kind \ {"tool"} : Lists(new)[kind] = Lists(row)[kind]
  /\ Lists(new)["tool"] = Resolved(Lists(row)["tool"], {t}, "ok")

\* The answer of a tool call renews the feed where the call is.
LEMMA ReplacedRow ==
  ASSUME NEW row, Listed(row), NEW order, Sorted(row, order), NEW t \in Tool,
         NEW new, Replaced(row, new, t)
  PROVE  /\ Listed(new) /\ Sorted(new, order)
         /\ Entries(new) = Entries(row)
         /\ \A e \in Entries(row) : Entry(new, e).at = Entry(row, e).at
         /\ \A kind \in Kind : Ids(Lists(new)[kind]) = Ids(Lists(row)[kind])
         /\ FeedOf(BuildRunFeed(new))
              = RenewedFeed(FeedOf(BuildRunFeed(row)), ToolCall(t, "ok", 0))
<1> DEFINE old == Lists(row)["tool"]
           calls == Lists(new)["tool"]
           N == Len(old)
           tool == ToolCall(t, "ok", 0)
<1>1. "tool" \in Kind /\ old \in Seq(AnyPart) /\ \A n \in DOMAIN old : old[n].kind = "tool"
  BY DEF Kind, Listed
<1>2. calls = Resolved(old, {t}, "ok")
  BY DEF Replaced
<1> HIDE DEF old, calls
<1>3. N \in Nat /\ DOMAIN old = 1 .. N /\ \A n \in 1 .. N : old[n] \in AnyPart /\ old[n].kind = "tool"
  BY <1>1
<1>4. DOMAIN calls = 1 .. N
  BY <1>2, <1>3 DEF Resolved
<1>5. ASSUME NEW n \in 1 .. N
      PROVE  /\ calls[n] \in AnyPart /\ calls[n].kind = "tool"
             /\ calls[n].id = old[n].id /\ calls[n].at = old[n].at
             /\ Bare(calls[n]) = Renewed(Bare(old[n]), tool)
  <2> DEFINE x == old[n]
  <2>1. calls[n] = IF x.id = t THEN [x EXCEPT !.body = "ok"] ELSE x
    BY <1>2, <1>3 DEF Resolved
  <2>2. x \in AnyPart /\ x.kind = "tool"
    BY <1>3
  <2> HIDE DEF x
  <2>3. "ok" \in Body
    BY DEF Body
  <2>4. [x EXCEPT !.body = "ok"] = [kind |-> "tool", id |-> x.id, body |-> "ok", at |-> x.at]
    BY <2>2 DEF AnyPart
  <2> DEFINE z == [kind |-> "tool", id |-> x.id, body |-> "ok", at |-> x.at]
  <2>5. z \in AnyPart
    BY <2>2, <2>3 DEF AnyPart
  <2>6. /\ z.kind = "tool" /\ z.id = x.id /\ z.at = x.at /\ z.body = "ok"
    OBVIOUS
  <2> HIDE DEF z
  <2>7. Bare(z) = [kind |-> "tool", id |-> x.id, body |-> "ok", at |-> 0]
    BY <2>5, <2>6, BareTyped
  <2>8. tool = [kind |-> "tool", id |-> t, body |-> "ok", at |-> 0]
    BY DEF ToolCall, Part
  <2>9. Bare(x).kind = "tool" /\ Bare(x).id = x.id
    BY <2>2, BareTyped
  <2>10. x.id = t => Bare(z) = Renewed(Bare(x), tool)
    BY <2>7, <2>8, <2>9 DEF Renewed
  <2>11. x.id # t => Bare(x) = Renewed(Bare(x), tool)
    BY <2>8, <2>9 DEF Renewed
  <2>12. calls[n] = IF x.id = t THEN z ELSE x
    BY <2>1, <2>4 DEF z
  <2> QED
    BY <2>2, <2>5, <2>6, <2>10, <2>11, <2>12 DEF x
<1>6. calls \in Seq(AnyPart) /\ Len(calls) = N
  <2>1. calls = [n \in 1 .. N |-> calls[n]]
    BY <1>2, <1>3 DEF Resolved
  <2>2. calls \in [1 .. N -> AnyPart]
    BY <1>5, <2>1
  <2> QED
    BY <1>3, <2>2, IsASeq
<1>7. \A kind \in Kind \ {"tool"} : /\ Lists(new)[kind] = Lists(row)[kind]
                                    /\ Lists(row)[kind] \in Seq(AnyPart)
  BY DEF Replaced, Listed
<1>8. Listed(new)
  <2>1. Lists(new) = [kind \in Kind |-> Lists(new)[kind]]
    BY DEF Lists, Kind
  <2>2. \A kind \in Kind : Lists(new)[kind] \in Seq(AnyPart)
    BY <1>6, <1>7 DEF calls
  <2>3. Lists(new) \in [Kind -> Seq(AnyPart)]
    BY <2>1, <2>2
  <2>4. ASSUME NEW kind \in Kind, NEW n \in DOMAIN Lists(new)[kind]
        PROVE  Lists(new)[kind][n].kind = kind
    <3>1. CASE kind # "tool"
      BY <1>7, <3>1 DEF Listed
    <3>2. CASE kind = "tool"
      BY <1>4, <1>5, <3>2 DEF calls
    <3> QED
      BY <3>1, <3>2
  <2> QED
    BY <2>3, <2>4 DEF Listed
<1>9. \A kind \in Kind : Len(Lists(new)[kind]) = Len(Lists(row)[kind])
  BY <1>6, <1>7 DEF calls, old
<1>10. Entries(new) = Entries(row)
  <2>1. \A e \in Entries(new) : e \in Entries(row)
    <3> TAKE e \in Entries(new)
    <3>1. e[1] \in Kind /\ e = <<e[1], e[2]>> /\ e[2] \in 1 .. Len(Lists(new)[e[1]])
      BY <1>8, EntryTyped
    <3> QED
      BY <1>9, <3>1, EntryOf
  <2>2. \A e \in Entries(row) : e \in Entries(new)
    <3> TAKE e \in Entries(row)
    <3>1. e[1] \in Kind /\ e = <<e[1], e[2]>> /\ e[2] \in 1 .. Len(Lists(row)[e[1]])
      BY EntryTyped
    <3> QED
      BY <1>8, <1>9, <3>1, EntryOf
  <2> QED
    BY <2>1, <2>2
<1>11. ASSUME NEW e \in Entries(row)
       PROVE  /\ Entry(new, e).at = Entry(row, e).at
              /\ Bare(Entry(new, e)) = Renewed(Bare(Entry(row, e)), tool)
  <2>1. e[1] \in Kind /\ e[2] \in 1 .. Len(Lists(row)[e[1]]) /\ Entry(row, e) \in AnyPart
        /\ Entry(row, e).kind = e[1]
    BY EntryTyped
  <2>2. CASE e[1] = "tool"
    BY <1>5, <2>1, <2>2 DEF Entry, calls, old
  <2>3. CASE e[1] # "tool"
    <3>1. Entry(new, e) = Entry(row, e)
      BY <1>7, <2>1, <2>3 DEF Entry
    <3>2. Bare(Entry(row, e)).kind # "tool"
      BY <2>1, <2>3, BareTyped
    <3> QED
      BY <3>1, <3>2 DEF Renewed
  <2> QED
    BY <2>2, <2>3
<1>12. \A d, e \in Entries(row) : Before(new, d, e) <=> Before(row, d, e)
  BY <1>11 DEF Before
<1>13. Sorted(new, order)
  <2>1. Len(order) \in Nat /\ \A n \in 1 .. Len(order) : order[n] \in Entries(row)
    BY DEF Sorted
  <2> QED
    BY <1>10, <1>12, <2>1 DEF Sorted
<1>14. FeedOf(BuildRunFeed(new)) = RenewedFeed(FeedOf(BuildRunFeed(row)), tool)
  <2> DEFINE feed == BuildRunFeed(row)
             later == BuildRunFeed(new)
  <2>1. /\ feed \in Seq(AnyPart) /\ Len(feed) = Len(order)
        /\ \A n \in 1 .. Len(order) : feed[n] = Entry(row, order[n]) /\ order[n] \in Entries(row)
    <3>1. \A n \in 1 .. Len(order) : order[n] \in Entries(row)
      BY DEF Sorted
    <3> QED
      BY <3>1, FeedListed
  <2>2. /\ later \in Seq(AnyPart) /\ Len(later) = Len(order)
        /\ \A n \in 1 .. Len(order) : later[n] = Entry(new, order[n])
    BY <1>8, <1>13, FeedListed
  <2>3. \A n \in 1 .. Len(feed) : Bare(later[n]) = Renewed(Bare(feed[n]), tool)
    BY <1>11, <2>1, <2>2
  <2>4. tool \in AnyPart /\ tool.kind = "tool"
    BY DEF ToolCall, Part, AnyPart, Kind, Ident, Body
  <2> HIDE DEF feed, later, tool
  <2> QED
    BY <2>1, <2>2, <2>3, <2>4, ReplacedFeed DEF feed, later
<1>15. \A kind \in Kind : Ids(Lists(new)[kind]) = Ids(Lists(row)[kind])
  <2>1. Ids(calls) = Ids(old)
    BY <1>3, <1>4, <1>5 DEF Ids
  <2> QED
    BY <1>7, <2>1 DEF calls, old
<1> QED
  BY <1>8, <1>10, <1>11, <1>13, <1>14, <1>15

-----------------------------------------------------------------------------
(* The pane and the row.                                                   *)

\* The pane shows what the feed of the row shows, approvals aside.
Agrees(parts, row) ==
  /\ parts \in Seq(AnyPart)
  /\ FeedOf(parts) = FeedOf(BuildRunFeed(row))
  /\ AllIds(parts, "tool") = Ids(row.toolCalls)
  /\ AllIds(parts, "artifact") = Ids(row.artifacts)

\* The same, but for a message that is not in the row yet.
Ahead(parts, row, message) ==
  \E before : Agrees(before, row) /\ parts = Append(before, message)

Sent(parts, row) == Ahead(parts, row, Message("user", <<>>, 0))

\* The narration that is not flushed is the last part of the pane.
Live(parts, row, segment) ==
  /\ segment = <<>> => Agrees(parts, row) /\ ~LastIsAssistant(parts)
  /\ segment # <<>> => Ahead(parts, row, Message("assistant", segment, 0))

RowInv(row, clock) ==
  /\ Listed(row)
  /\ \E order : Sorted(row, order)
  /\ \A e \in Entries(row) : Entry(row, e).at <= clock

LEMMA PartTyped ==
  ASSUME NEW kind \in Kind, NEW id \in Ident, NEW body \in Body, NEW at \in Nat,
         NEW m, m = Part(kind, id, body, at)
  PROVE  /\ m \in AnyPart /\ m.kind = kind /\ m.id = id /\ m.at = at /\ m.body = body
         /\ Bare(m) = Part(kind, id, body, 0)
<1>1. m \in AnyPart /\ m.kind = kind /\ m.id = id /\ m.at = at /\ m.body = body
  BY DEF Part, AnyPart
<1>2. Bare(m) = Part(kind, id, body, 0)
  BY <1>1, BareTyped DEF Part
<1> QED
  BY <1>1, <1>2

LEMMA MessageTyped ==
  ASSUME NEW role \in {"user", "assistant"}, NEW content \in Seq(Nat), NEW at \in Nat,
         NEW m, m = Message(role, content, at)
  PROVE  /\ m \in AnyPart /\ m.kind = "message" /\ m.at = at /\ m.body.role = role
         /\ Bare(m) = Message(role, content, 0)
<1>1. Says(role, content) \in Body /\ Says(role, content).role = role
  BY DEF Says, Body
<1>2. "msg" \in Ident /\ "message" \in Kind
  BY DEF Ident, Kind
<1> QED
  BY <1>1, <1>2, PartTyped DEF Message

LEMMA UserTyped ==
  ASSUME NEW at \in Nat, NEW m, m = Message("user", <<>>, at)
  PROVE  /\ m \in AnyPart /\ m.kind = "message" /\ m.at = at /\ m.body.role = "user"
         /\ Bare(m) = Message("user", <<>>, 0)
<1>1. \A c \in Seq(Nat) : m = Message("user", c, at) =>
         /\ m \in AnyPart /\ m.kind = "message" /\ m.at = at /\ m.body.role = "user"
         /\ Bare(m) = Message("user", c, 0)
  BY MessageTyped
<1>2. <<>> \in Seq(Nat)
  OBVIOUS
<1> QED
  BY <1>1, <1>2

LEMMA CallTyped ==
  ASSUME NEW t \in Tool, NEW status \in {"pending", "ok"}, NEW at \in Nat,
         NEW m, m = ToolCall(t, status, at)
  PROVE  /\ m \in AnyPart /\ m.kind = "tool" /\ m.id = t /\ m.at = at
         /\ Bare(m) = ToolCall(t, status, 0)
<1>1. t \in Ident /\ status \in Body /\ "tool" \in Kind
  BY DEF Ident, Body, Kind
<1> QED
  BY <1>1, PartTyped DEF ToolCall

LEMMA ApprovalTyped ==
  ASSUME NEW g \in Gate, NEW at \in Nat, NEW m, m = Part("approval", g, None, at)
  PROVE  /\ m \in AnyPart /\ m.kind = "approval" /\ m.id = g /\ m.at = at
         /\ Bare(m) = Part("approval", g, None, 0)
<1>1. g \in Ident /\ None \in Body /\ "approval" \in Kind
  BY DEF Ident, Body, Kind
<1> QED
  BY <1>1, PartTyped

LEMMA ArtifactTyped ==
  ASSUME NEW a \in Artifact, NEW at \in Nat, NEW m, m = Part("artifact", a, None, at)
  PROVE  /\ m \in AnyPart /\ m.kind = "artifact" /\ m.id = a /\ m.at = at
         /\ Bare(m) = Part("artifact", a, None, 0)
<1>1. a \in Ident /\ None \in Body /\ "artifact" \in Kind
  BY DEF Ident, Body, Kind
<1> QED
  BY <1>1, PartTyped

\* The stamp of a part is not shown.
LEMMA AddsBare ==
  ASSUME NEW feed, NEW x \in AnyPart, NEW y \in AnyPart, Bare(x) = Bare(y)
  PROVE  Adds(feed, x) = Adds(feed, y)
<1>1. x.kind = y.kind
  BY BareTyped
<1> QED
  BY <1>1 DEF Adds

\* The last part of a page.
LEMMA LastPart ==
  ASSUME NEW parts \in Seq(AnyPart), NEW x \in AnyPart
  PROVE  LastIsAssistant(Append(parts, x)) <=> AssistantMessage(x)
<1>1. /\ Append(parts, x) # <<>> /\ Last(Append(parts, x)) = x
  BY AppendProperties DEF Last
<1> QED
  BY <1>1 DEF LastIsAssistant

\* A row that a part is added to.
LEMMA RowGrows ==
  ASSUME NEW row, NEW clock \in Nat, RowInv(row, clock), NEW part \in AnyPart,
         NEW new, Grown(row, new, part), NEW now \in Nat, clock <= now, part.at <= now,
         \/ \A e \in Entries(row) : Entry(row, e).at < part.at
         \/ part.at = clock /\ part.kind # "message"
  PROVE  /\ RowInv(new, now)
         /\ FeedOf(BuildRunFeed(new)) = Adds(FeedOf(BuildRunFeed(row)), part)
         /\ \A e \in Entries(new) : \/ e \in Entries(row) /\ Entry(new, e) = Entry(row, e)
                                    \/ Entry(new, e) = part
<1>1. PICK order : Sorted(row, order)
  BY DEF RowInv
<1>2. Listed(row) /\ \A e \in Entries(row) : Entry(row, e).at <= clock
  BY DEF RowInv
<1>3. Latest(row, part)
  <2>1. part.at \in Nat /\ part.kind \in Kind
    BY DEF AnyPart
  <2>2. CASE \A e \in Entries(row) : Entry(row, e).at < part.at
    BY <2>2 DEF Latest
  <2>3. CASE part.at = clock /\ part.kind # "message"
    <3> SUFFICES ASSUME NEW e \in Entries(row)
                 PROVE  \/ Entry(row, e).at < part.at
                        \/ /\ Entry(row, e).at = part.at
                           /\ \/ KindRank[e[1]] <= KindRank[part.kind]
                              \/ part.kind \in {"tool", "approval"} /\ e[1] \in {"approval", "artifact"}
      BY DEF Latest
    <3>1. e[1] \in Kind /\ Entry(row, e).at \in Nat /\ Entry(row, e).at <= clock
      BY <1>2, EntryTyped
    <3>2. \/ KindRank[e[1]] <= KindRank[part.kind]
          \/ part.kind \in {"tool", "approval"} /\ e[1] \in {"approval", "artifact"}
      BY <2>1, <2>3, <3>1 DEF KindRank, Kind
    <3> QED
      BY <2>3, <3>1, <3>2
  <2> QED
    BY <2>2, <2>3
<1>4. /\ Listed(new) /\ \E later : Sorted(new, later)
      /\ FeedOf(BuildRunFeed(new)) = Adds(FeedOf(BuildRunFeed(row)), part)
  BY <1>1, <1>2, <1>3, GrownFeed
<1>5. \A e \in Entries(new) : \/ e \in Entries(row) /\ Entry(new, e) = Entry(row, e)
                              \/ Entry(new, e) = part
  <2> DEFINE z == <<part.kind, Len(Lists(row)[part.kind]) + 1>>
  <2>1. /\ Entries(new) = Entries(row) \cup {z} /\ Entry(new, z) = part
        /\ \A e \in Entries(row) : Entry(new, e) = Entry(row, e)
    BY <1>2, GrownListed
  <2> QED
    BY <2>1
<1>6. \A e \in Entries(new) : Entry(new, e).at <= now
  <2> TAKE e \in Entries(new)
  <2>1. CASE e \in Entries(row) /\ Entry(new, e) = Entry(row, e)
    <3>1. Entry(row, e).at \in Nat /\ Entry(row, e).at <= clock
      BY <1>2, <2>1, EntryTyped
    <3> QED
      BY <2>1, <3>1
  <2> QED
    BY <1>5, <2>1
<1> QED
  BY <1>4, <1>5, <1>6 DEF RowInv

\* A row that has the same lists.
LEMMA RowStays ==
  ASSUME NEW row, NEW new, Lists(new) = Lists(row)
  PROVE  /\ Entries(new) = Entries(row)
         /\ \A e : Entry(new, e) = Entry(row, e)
         /\ BuildRunFeed(new) = BuildRunFeed(row)
         /\ \A clock : RowInv(row, clock) => RowInv(new, clock)
<1>1. Entries(new) = Entries(row)
  BY DEF Entries
<1>2. \A e : Entry(new, e) = Entry(row, e)
  BY DEF Entry
<1>3. \A d, e : Before(new, d, e) = Before(row, d, e)
  BY <1>2 DEF Before
<1>4. \A e : Position(new, e) = Position(row, e)
  <2> TAKE e
  <2>1. {d \in Entries(new) : Before(new, d, e)} = {d \in Entries(row) : Before(row, d, e)}
    BY <1>1, <1>3
  <2> QED
    BY <2>1 DEF Position
<1>5. BuildRunFeed(new) = BuildRunFeed(row)
  <2>1. \A n : (CHOOSE e \in Entries(new) : Position(new, e) = n)
                 = (CHOOSE e \in Entries(row) : Position(row, e) = n)
    BY <1>1, <1>4
  <2> QED
    BY <1>1, <1>2, <2>1 DEF BuildRunFeed
<1>6. Listed(new) = Listed(row)
  BY DEF Listed
<1>7. \A order : Sorted(new, order) = Sorted(row, order)
  BY SMTT(30), <1>1, <1>3 DEF Sorted
<1> QED
  BY <1>1, <1>2, <1>5, <1>6, <1>7 DEF RowInv

\* What an event makes of a page.
LEMMA ShownIs ==
  ASSUME NEW parts, NEW part
  PROVE  /\ Shown(parts, Event("token", part)) = AppendToken(parts, part)
         /\ Shown(parts, Event("tool_call", part)) = Upsert(parts, part)
         /\ Shown(parts, Event("artifact", part)) = Upsert(parts, part)
         /\ \A type \in {"run", "approval_required", "done"} :
              Shown(parts, Event(type, part)) = parts
BY DEF Shown, Event

LEMMA RowLists ==
  ASSUME NEW row
  PROVE  /\ Lists(row)["message"] = row.messages
         /\ Lists(row)["tool"] = row.toolCalls
         /\ Lists(row)["approval"] = row.approvals
         /\ Lists(row)["artifact"] = row.artifacts
BY DEF Lists

LEMMA AgreesStays ==
  ASSUME NEW row, NEW new, Lists(new) = Lists(row), NEW parts, Agrees(parts, row)
  PROVE  Agrees(parts, new)
BY RowStays, RowLists DEF Agrees

\* A part is added to the row and to the page.
LEMMA PartAppears ==
  ASSUME NEW row, Listed(row), NEW x \in AnyPart, NEW y \in AnyPart, Bare(x) = Bare(y),
         NEW new, Grown(row, new, y), NEW parts, Agrees(parts, row),
         FeedOf(BuildRunFeed(new)) = Adds(FeedOf(BuildRunFeed(row)), y)
  PROVE  /\ Agrees(Append(parts, x), new)
         /\ y.kind = "approval" => Agrees(parts, new)
<1>1. x.kind = y.kind /\ x.id = y.id
  BY BareTyped
<1>2. Adds(FeedOf(parts), x) = Adds(FeedOf(parts), y)
  BY AddsBare
<1>3. /\ parts \in Seq(AnyPart) /\ FeedOf(parts) = FeedOf(BuildRunFeed(row))
      /\ AllIds(parts, "tool") = Ids(row.toolCalls)
      /\ AllIds(parts, "artifact") = Ids(row.artifacts)
  BY DEF Agrees
<1>4. /\ Append(parts, x) \in Seq(AnyPart)
      /\ FeedOf(Append(parts, x)) = FeedOf(BuildRunFeed(new))
  BY <1>2, <1>3, AppendedFeed
<1>5. ASSUME NEW kind \in Kind
      PROVE  Ids(Lists(new)[kind])
               = Ids(Lists(row)[kind]) \cup IF x.kind = kind THEN {x.id} ELSE {}
  <2>1. CASE x.kind = kind
    <3>1. Lists(new)[kind] = Append(Lists(row)[kind], y) /\ Lists(row)[kind] \in Seq(AnyPart)
      BY <1>1, <2>1 DEF Grown, Listed
    <3> QED
      BY <1>1, <2>1, <3>1, IdsAppend
  <2>2. CASE x.kind # kind
    BY <1>1, <2>2 DEF Grown
  <2> QED
    BY <2>1, <2>2
<1>6. "tool" \in Kind /\ "artifact" \in Kind
  BY DEF Kind
<1>7. Agrees(Append(parts, x), new)
  <2>1. \A kind \in Kind : AllIds(Append(parts, x), kind)
                             = AllIds(parts, kind) \cup IF x.kind = kind THEN {x.id} ELSE {}
    BY <1>3, IdsAppend
  <2>2. AllIds(Append(parts, x), "tool") = Ids(new.toolCalls)
    <3>1. Ids(new.toolCalls) = Ids(row.toolCalls) \cup IF x.kind = "tool" THEN {x.id} ELSE {}
      BY <1>5, <1>6, RowLists
    <3> QED
      BY <1>3, <1>6, <2>1, <3>1
  <2>3. AllIds(Append(parts, x), "artifact") = Ids(new.artifacts)
    <3>1. Ids(new.artifacts) = Ids(row.artifacts) \cup IF x.kind = "artifact" THEN {x.id} ELSE {}
      BY <1>5, <1>6, RowLists
    <3> QED
      BY <1>3, <1>6, <2>1, <3>1
  <2> QED
    BY <1>4, <2>2, <2>3 DEF Agrees
<1>8. y.kind = "approval" => Agrees(parts, new)
  <2> SUFFICES ASSUME y.kind = "approval" PROVE Agrees(parts, new)
    OBVIOUS
  <2>1. FeedOf(BuildRunFeed(new)) = FeedOf(BuildRunFeed(row))
    BY DEF Adds
  <2>2. new.toolCalls = row.toolCalls /\ new.artifacts = row.artifacts
    BY <1>6, RowLists DEF Grown
  <2> QED
    BY <1>3, <2>1, <2>2 DEF Agrees
<1> QED
  BY <1>7, <1>8

\* A call's result replaces it in the row and on the page.
LEMMA CallRenewed ==
  ASSUME NEW row, Listed(row), NEW order, Sorted(row, order), NEW t \in Tool,
         t \in Ids(row.toolCalls), NEW new, Replaced(row, new, t),
         NEW parts, Agrees(parts, row), ~LastIsAssistant(parts),
         NEW shows, shows = Upsert(parts, ToolCall(t, "ok", 0))
  PROVE  Agrees(shows, new) /\ ~LastIsAssistant(shows)
<1> DEFINE tool == ToolCall(t, "ok", 0)
<1>1. tool \in AnyPart /\ tool.kind = "tool" /\ tool.id = t /\ tool.at = 0
  BY CallTyped
<1>2. /\ parts \in Seq(AnyPart) /\ FeedOf(parts) = FeedOf(BuildRunFeed(row))
      /\ AllIds(parts, "tool") = Ids(row.toolCalls)
      /\ AllIds(parts, "artifact") = Ids(row.artifacts)
  BY DEF Agrees
<1>3. shows = Upsert(parts, tool) /\ tool.id \in AllIds(parts, "tool")
  BY <1>1, <1>2
<1>4. FeedOf(BuildRunFeed(new)) = RenewedFeed(FeedOf(BuildRunFeed(row)), tool)
  BY ReplacedRow
<1> HIDE DEF tool
<1>5. /\ shows \in Seq(AnyPart) /\ Len(shows) = Len(parts)
      /\ \A n \in 1 .. Len(parts) : /\ shows[n].kind = parts[n].kind
                                    /\ shows[n].id = parts[n].id
                                    /\ parts[n].kind # "tool" => shows[n] = parts[n]
      /\ FeedOf(shows) = RenewedFeed(FeedOf(parts), tool)
  BY <1>1, <1>2, <1>3, UpsertReplaces
<1>6. FeedOf(shows) = FeedOf(BuildRunFeed(new))
  BY <1>2, <1>4, <1>5
<1>7. DOMAIN shows = 1 .. Len(parts) /\ DOMAIN parts = 1 .. Len(parts) /\ Len(parts) \in Nat
  BY <1>2, <1>5
<1>8. \A kind : AllIds(shows, kind) = AllIds(parts, kind)
  BY <1>5, <1>7 DEF AllIds
<1>9. Ids(new.toolCalls) = Ids(row.toolCalls) /\ Ids(new.artifacts) = Ids(row.artifacts)
  <2>1. \A kind \in Kind : Ids(Lists(new)[kind]) = Ids(Lists(row)[kind])
    BY ReplacedRow
  <2>2. "tool" \in Kind /\ "artifact" \in Kind
    BY DEF Kind
  <2> QED
    BY <2>1, <2>2, RowLists
<1>10. ~LastIsAssistant(shows)
  <2> SUFFICES ASSUME LastIsAssistant(shows) PROVE FALSE
    OBVIOUS
  <2>1. shows # <<>> /\ Last(shows) = shows[Len(parts)] /\ AssistantMessage(Last(shows))
    BY <1>5 DEF LastIsAssistant, Last
  <2>2. Len(parts) \in 1 .. Len(parts)
    BY <1>5, <1>7, <2>1
  <2>3. parts # <<>> /\ Last(parts) = parts[Len(parts)]
    BY <1>2, <2>2 DEF Last
  <2>4. parts[Len(parts)] = shows[Len(parts)]
    BY <1>5, <2>1, <2>2 DEF AssistantMessage
  <2> QED
    BY <2>1, <2>3, <2>4 DEF LastIsAssistant
<1> QED
  BY <1>2, <1>5, <1>6, <1>8, <1>9, <1>10 DEF Agrees

\* One more word of a message.
LEMMA ContentGrows ==
  ASSUME NEW role, NEW content, NEW word
  PROVE  [Message(role, content, 0) EXCEPT !.body.content = Append(@, word)]
           = Message(role, Append(content, word), 0)
<1>1. [Says(role, content) EXCEPT !.content = Append(@, word)] = Says(role, Append(content, word))
  BY DEF Says
<1>2. Says(role, content).content = content
  BY DEF Says
<1>3. ASSUME NEW k, NEW i, NEW body, NEW at
      PROVE  [[kind |-> k, id |-> i, body |-> body, at |-> at] EXCEPT !.body.content = Append(@, word)]
               = [kind |-> k, id |-> i, body |-> [body EXCEPT !.content = Append(body.content, word)],
                  at |-> at]
  BY SMTT(30)
<1> HIDE DEF Says
<1>4. [Says(role, content) EXCEPT !.content = Append(Says(role, content).content, word)]
        = Says(role, Append(content, word))
  BY <1>1
<1> QED
  BY <1>3, <1>4 DEF Message, Part

\* A token is one more word of the narration.
LEMMA WordAppears ==
  ASSUME NEW row, NEW segment \in Seq(Nat), NEW word \in Nat, NEW parts, Live(parts, row, segment)
  PROVE  Live(AppendToken(parts, word), row, Append(segment, word))
<1>1. Append(segment, word) # <<>> /\ Append(segment, word) \in Seq(Nat)
  BY AppendProperties
<1> SUFFICES Ahead(AppendToken(parts, word), row, Message("assistant", Append(segment, word), 0))
  BY <1>1 DEF Live
<1>2. CASE segment = <<>>
  <2>1. Append(segment, word) = <<word>>
    BY <1>2
  <2>2. Agrees(parts, row) /\ AppendToken(parts, word) = Append(parts, Message("assistant", <<word>>, 0))
    BY <1>2 DEF Live, AppendToken
  <2> QED
    BY <2>1, <2>2 DEF Ahead
<1>3. CASE segment # <<>>
  <2> DEFINE old == Message("assistant", segment, 0)
             new == Message("assistant", Append(segment, word), 0)
  <2>1. PICK before : Agrees(before, row) /\ parts = Append(before, old)
    BY <1>3 DEF Live, Ahead
  <2>2. before \in Seq(AnyPart)
    BY <2>1 DEF Agrees
  <2>3. old \in AnyPart /\ AssistantMessage(old)
    BY MessageTyped DEF AssistantMessage
  <2>4. new \in AnyPart
    BY <1>1, MessageTyped
  <2>5. [old EXCEPT !.body.content = Append(@, word)] = new
    BY ContentGrows
  <2> HIDE DEF old, new
  <2>6. LastIsAssistant(parts)
    BY <2>1, <2>2, <2>3, LastPart
  <2>7. parts \in Seq(AnyPart) /\ Len(parts) = Len(before) + 1 /\ Len(before) \in Nat
        /\ parts[Len(before) + 1] = old /\ \A n \in 1 .. Len(before) : parts[n] = before[n]
    BY <2>1, <2>2, <2>3, AppendProperties
  <2>8. AppendToken(parts, word)
          = [parts EXCEPT ![Len(parts)] = [parts[Len(parts)] EXCEPT !.body.content = Append(@, word)]]
    BY <2>6 DEF AppendToken
  <2>9. AppendToken(parts, word) = [parts EXCEPT ![Len(before) + 1] = new]
    BY <2>5, <2>7, <2>8
  <2>10. [parts EXCEPT ![Len(before) + 1] = new] = Append(before, new)
    <3> DEFINE x == [parts EXCEPT ![Len(before) + 1] = new]
    <3>1. x \in Seq(AnyPart) /\ Len(x) = Len(before) + 1
      BY <2>4, <2>7, ExceptSeq
    <3>2. \A n \in 1 .. Len(before) + 1 : x[n] = IF n = Len(before) + 1 THEN new ELSE before[n]
      BY <2>7
    <3>3. /\ Append(before, new) \in Seq(AnyPart) /\ Len(Append(before, new)) = Len(before) + 1
          /\ Append(before, new)[Len(before) + 1] = new
          /\ \A n \in 1 .. Len(before) : Append(before, new)[n] = before[n]
      BY <2>2, <2>4, AppendProperties
    <3>4. \A n \in 1 .. Len(before) + 1 : x[n] = Append(before, new)[n]
      BY <2>7, <3>2, <3>3
    <3> HIDE DEF x
    <3>5. x = Append(before, new)
      BY <3>1, <3>3, <3>4, SeqEqual
    <3> QED
      BY <3>5 DEF x
  <2> QED
    BY <2>1, <2>9, <2>10 DEF Ahead, new
<1> QED
  BY <1>2, <1>3

\* What the events, applied one by one, make of the page.
Arrives(parts, events, to) ==
  \E f : /\ f[0] = parts
         /\ \A n \in 1 .. Len(events) : f[n] = Shown(f[n - 1], events[n])
         /\ f[Len(events)] = to

\* Nothing to read, one event more to read, and one event read.
LEMMA ArrivesNone ==
  ASSUME NEW parts, NEW to
  PROVE  Arrives(parts, <<>>, to) <=> to = parts
<1>1. Arrives(parts, <<>>, to) => to = parts
  BY DEF Arrives
<1>2. Arrives(parts, <<>>, parts)
  <2> DEFINE f == [n \in {0} |-> parts]
  <2>1. f[0] = parts /\ Len(<<>>) = 0 /\ \A n \in 1 .. Len(<<>>) : f[n] = Shown(f[n - 1], <<>>[n])
    OBVIOUS
  <2> HIDE DEF f
  <2> QED
    BY <2>1 DEF Arrives
<1> QED
  BY <1>1, <1>2

LEMMA ArrivesAppend ==
  ASSUME NEW S, NEW events \in Seq(S), NEW event \in S, NEW parts, NEW to,
         Arrives(parts, events, to)
  PROVE  Arrives(parts, Append(events, event), Shown(to, event))
<1> DEFINE N == Len(events)
           more == Append(events, event)
<1>1. PICK f : /\ f[0] = parts
               /\ \A n \in 1 .. N : f[n] = Shown(f[n - 1], events[n])
               /\ f[N] = to
  BY DEF Arrives
<1>2. N \in Nat /\ Len(more) = N + 1 /\ more[N + 1] = event /\ \A n \in 1 .. N : more[n] = events[n]
  BY AppendProperties
<1> HIDE DEF more, N
<1> DEFINE g == [n \in 0 .. N + 1 |-> IF n = N + 1 THEN Shown(to, event) ELSE f[n]]
<1>3. /\ g[0] = parts /\ g[N + 1] = Shown(to, event)
      /\ \A n \in 0 .. N : g[n] = f[n]
  BY <1>1, <1>2
<1> HIDE DEF g
<1>4. \A n \in 1 .. N + 1 : g[n] = Shown(g[n - 1], more[n])
  <2> TAKE n \in 1 .. N + 1
  <2>1. CASE n = N + 1
    <3>1. n - 1 = N /\ N \in 0 .. N
      BY <1>2, <2>1
    <3> QED
      BY <1>1, <1>2, <1>3, <2>1, <3>1
  <2>2. CASE n # N + 1
    <3>1. n \in 1 .. N /\ n \in 0 .. N /\ n - 1 \in 0 .. N
      BY <1>2, <2>2
    <3> QED
      BY <1>1, <1>2, <1>3, <3>1
  <2> QED
    BY <2>1, <2>2
<1> QED
  BY <1>2, <1>3, <1>4 DEF Arrives, more

LEMMA ArrivesTail ==
  ASSUME NEW S, NEW events \in Seq(S), events # <<>>, NEW parts, NEW to,
         Arrives(parts, events, to)
  PROVE  Arrives(Shown(parts, Head(events)), Tail(events), to)
<1> DEFINE N == Len(events)
           rest == Tail(events)
<1>1. PICK f : /\ f[0] = parts
               /\ \A n \in 1 .. N : f[n] = Shown(f[n - 1], events[n])
               /\ f[N] = to
  BY DEF Arrives
<1>2. /\ N \in Nat /\ N >= 1 /\ Len(rest) = N - 1 /\ Head(events) = events[1]
      /\ \A n \in 1 .. N - 1 : rest[n] = events[n + 1]
  OBVIOUS
<1> HIDE DEF rest, N
<1> DEFINE g == [n \in 0 .. N - 1 |-> f[n + 1]]
<1>3. \A n \in 0 .. N - 1 : g[n] = f[n + 1]
  OBVIOUS
<1> HIDE DEF g
<1>4. g[0] = Shown(parts, Head(events)) /\ g[N - 1] = to
  <2>1. 0 \in 0 .. N - 1 /\ N - 1 \in 0 .. N - 1 /\ N - 1 + 1 = N /\ 0 + 1 = 1 /\ 1 \in 1 .. N
        /\ 1 - 1 = 0
    BY <1>2
  <2> QED
    BY <1>1, <1>2, <1>3, <2>1
<1>5. \A n \in 1 .. N - 1 : g[n] = Shown(g[n - 1], rest[n])
  <2> TAKE n \in 1 .. N - 1
  <2>1. n \in 0 .. N - 1 /\ n - 1 \in 0 .. N - 1 /\ n - 1 + 1 = n /\ n + 1 \in 1 .. N /\ n + 1 - 1 = n
    BY <1>2
  <2> QED
    BY <1>1, <1>2, <1>3, <2>1
<1> QED
  BY <1>2, <1>4, <1>5 DEF Arrives, rest

-----------------------------------------------------------------------------
(* The invariant of the chat.                                              *)

Status == IN_FLIGHT_STATUSES \cup RESUMABLE_STATUSES \cup {"absent"}

RunRow ==
  [status : Status, messages : Seq(AnyPart), toolCalls : Seq(AnyPart),
   approvals : Seq(AnyPart), artifacts : Seq(AnyPart)]

SessionRow ==
  [pc : {"off", "begin", "on", "parked", "stopped"}, clock : Nat, segment : Seq(Nat), pending : SUBSET Tool]

EventRow ==
  [type : {"run", "token", "tool_call", "artifact", "approval_required", "done", "error"},
   part : AnyPart \cup Nat \cup {None}]

WireRow ==
  [phase : {"idle", "posting", "unread", "open", "broken"}, events : Seq(EventRow)]

\* What the parts of a pane are is a matter of the pane that is whole.
ChatTyped ==
  /\ run \in RunRow
  /\ session \in SessionRow
  /\ wire \in WireRow
  /\ DOMAIN pane = {"mounted", "resumed", "runId", "parts", "busy", "sentHere", "approval", "whole"}
  /\ \A n \in DOMAIN run.approvals : run.approvals[n].id \in Gate

\* Nothing the turn has written is later than its clock, and what it has
\* said and not written is later than all of it.
TurnInv ==
  /\ RowInv(run, session.clock)
  /\ session.segment # <<>> =>
       /\ session.pc = "on" /\ session.pending = {}
       /\ \A e \in Entries(run) : Entry(run, e).at < session.clock
  /\ session.pending \subseteq Ids(run.toolCalls)
  /\ run.status = "absent" => Entries(run) = {}
  /\ session.pc \in {"on", "parked"} => run.status \in {"running", "awaiting_approval"}

\* An open gate of the run is the one it was asked last and waits for, so a
\* decision settles no run that goes on.
GatesInv ==
  \A n \in DOMAIN run.approvals :
    /\ gate[run.approvals[n].id] # "none"
    /\ gate[run.approvals[n].id] = "open" =>
         /\ n = Len(run.approvals) /\ session.pc \in {"parked", "off"}
         /\ run.status = "awaiting_approval"

LastType(events) == events[Len(events)].type

Over == {"done", "error"}

\* The events that are not read make of the pane what the turn has made of
\* the run.
OpenInv ==
  /\ pane.busy
  /\ \A n \in 1 .. Len(wire.events) :
       wire.events[n].type \in Over => n = Len(wire.events) /\ session.pc = "off"
  /\ session.pc = "begin" => wire.events = <<>> /\ Sent(pane.parts, run)
  /\ session.pc \in {"on", "parked"} =>
       \E to : Arrives(pane.parts, wire.events, to) /\ Live(to, run, session.segment)
  /\ session.pc = "stopped" =>
       \E to : Arrives(pane.parts, wire.events, to) /\ Agrees(to, run)
  /\ session.pc = "off" =>
       /\ wire.events # <<>> /\ LastType(wire.events) \in Over
       /\ LastType(wire.events) = "done" =>
            \E to : Arrives(pane.parts, wire.events, to) /\ Agrees(to, run)

WholeInv ==
  /\ wire.phase # "unread"
  /\ wire.phase = "idle" =>
       /\ session.pc = "off"
       /\ pane.runId \/ run.status = "absent" => Agrees(pane.parts, run)
  /\ wire.phase = "posting" => session.pc = "off" /\ pane.busy /\ Sent(pane.parts, run)
  /\ wire.phase = "broken" => pane.busy
  /\ wire.phase = "open" => OpenInv

PaneInv ==
  /\ ~pane.mounted => wire.phase \in {"idle", "unread"}
  /\ pane.whole => WholeInv

ChatInv == ChatTyped /\ TurnInv /\ GatesInv /\ PaneInv

-----------------------------------------------------------------------------
(* The steps of the turn.                                                  *)

\* What the page is once its events are in, while the turn goes on.
Ready(to) ==
  /\ session.pc = "begin" => Sent(to, run)
  /\ session.pc = "on" => Live(to, run, session.segment)
  /\ session.pc = "stopped" => Agrees(to, run)

LEMMA EventsTyped ==
  /\ \A type \in {"run", "done", "error"} : Event(type, None) \in EventRow
  /\ \A word \in Nat : Event("token", word) \in EventRow
  /\ \A part \in AnyPart, type \in {"tool_call", "artifact", "approval_required"} :
       Event(type, part) \in EventRow
  /\ \A type, part : Event(type, part).type = type
BY DEF Event, EventRow

\* An event of the turn reaches the pane that reads to the end.
LEMMA Published ==
  ASSUME ChatTyped, PaneInv, NEW event \in EventRow, Publish(event), pane' = pane,
         session.pc \in {"begin", "on", "stopped"},
         session'.pc \in {"on", "parked", "stopped", "off"},
         event.type \in Over <=> session'.pc = "off",
         \A to : Ready(to) =>
           /\ session'.pc \in {"on", "parked"} => Live(Shown(to, event), run', session'.segment)
           /\ session'.pc = "stopped" => Agrees(Shown(to, event), run')
           /\ event.type = "done" => Agrees(Shown(to, event), run')
  PROVE  wire' \in WireRow /\ PaneInv'
<1> DEFINE old == wire.events
           new == Append(old, event)
<1>1. wire \in WireRow /\ old \in Seq(EventRow)
  BY DEF ChatTyped, WireRow
<1>2. /\ new \in Seq(EventRow) /\ Len(new) = Len(old) + 1 /\ Len(old) \in Nat /\ new # <<>>
      /\ new[Len(old) + 1] = event /\ \A n \in 1 .. Len(old) : new[n] = old[n]
  BY <1>1, AppendProperties
<1>3. CASE wire.phase = "open"
  <2>1. wire' = [wire EXCEPT !.events = new]
    BY <1>3 DEF Publish
  <2>2. wire' \in WireRow /\ wire'.phase = "open" /\ wire'.events = new
    BY <1>1, <1>2, <1>3, <2>1 DEF WireRow
  <2>3. ASSUME pane.whole PROVE OpenInv'
    <3>1. OpenInv
      BY <1>3, <2>3 DEF PaneInv, WholeInv
    <3>2. PICK to : Arrives(pane.parts, old, to) /\ Ready(to)
      <4>1. CASE session.pc = "begin"
        <5>1. old = <<>> /\ Sent(pane.parts, run)
          BY <3>1, <4>1 DEF OpenInv
        <5>2. Arrives(pane.parts, old, pane.parts)
          BY <5>1, ArrivesNone
        <5> QED
          BY <4>1, <5>1, <5>2 DEF Ready
      <4>2. CASE session.pc = "on"
        BY <3>1, <4>2 DEF OpenInv, Ready
      <4>3. CASE session.pc = "stopped"
        BY <3>1, <4>3 DEF OpenInv, Ready
      <4> QED
        BY <4>1, <4>2, <4>3
    <3> DEFINE then == Shown(to, event)
    <3>3. Arrives(pane.parts, new, then)
      BY <1>1, <3>2, ArrivesAppend
    <3>4. /\ session'.pc \in {"on", "parked"} => Live(then, run', session'.segment)
          /\ session'.pc = "stopped" => Agrees(then, run')
          /\ event.type = "done" => Agrees(then, run')
      BY <3>2
    <3> HIDE DEF then, new, old
    <3>5. \A n \in 1 .. Len(new) : new[n].type \in Over => n = Len(new) /\ session'.pc = "off"
      <4> TAKE n \in 1 .. Len(new)
      <4>1. CASE n = Len(new)
        BY <1>2, <4>1
      <4>2. CASE n # Len(new)
        <5>1. n \in 1 .. Len(old) /\ n # Len(old) + 1
          BY <1>2, <4>2
        <5>2. session.pc # "off"
          OBVIOUS
        <5> QED
          BY <1>2, <3>1, <5>1, <5>2 DEF OpenInv, old
      <4> QED
        BY <4>1, <4>2
    <3>6. LastType(new) = event.type
      BY <1>2 DEF LastType
    <3>7. pane'.busy /\ pane'.parts = pane.parts
      BY <3>1 DEF OpenInv
    <3> QED
      BY <1>2, <2>2, <3>3, <3>4, <3>5, <3>6, <3>7 DEF OpenInv, Over
  <2> HIDE DEF new, old
  <2>4. PaneInv'
    BY <1>3, <2>2, <2>3 DEF PaneInv, WholeInv
  <2> QED
    BY <2>2, <2>4
<1>4. CASE wire.phase # "open"
  <2>1. wire' = wire
    BY <1>4 DEF Publish
  <2>2. PaneInv'
    BY <1>1, <1>4, <2>1 DEF PaneInv, WholeInv, WireRow
  <2> QED
    BY <1>1, <2>1, <2>2
<1> QED
  BY <1>3, <1>4

\* A row of the run, and the one that differs in the status or in a list.
LEMMA StatusSet ==
  ASSUME NEW row \in RunRow, NEW status \in Status, NEW new, new = [row EXCEPT !.status = status]
  PROVE  /\ new \in RunRow /\ Lists(new) = Lists(row) /\ new.status = status
         /\ new.toolCalls = row.toolCalls /\ new.approvals = row.approvals
         /\ new.artifacts = row.artifacts
BY DEF RunRow, Lists

LEMMA MessageAdded ==
  ASSUME NEW row \in RunRow, NEW m \in AnyPart, m.kind = "message",
         NEW new, new = [row EXCEPT !.messages = Append(@, m)]
  PROVE  /\ new \in RunRow /\ Grown(row, new, m) /\ new.status = row.status
         /\ new.toolCalls = row.toolCalls /\ new.approvals = row.approvals
         /\ new.artifacts = row.artifacts
<1>1. Append(row.messages, m) \in Seq(AnyPart)
  BY DEF RunRow
<1>2. /\ new \in RunRow /\ new.status = row.status /\ new.messages = Append(row.messages, m)
      /\ new.toolCalls = row.toolCalls /\ new.approvals = row.approvals /\ new.artifacts = row.artifacts
  BY <1>1 DEF RunRow
<1>3. Grown(row, new, m)
  BY <1>2 DEF Grown, Lists, Kind
<1> QED
  BY <1>2, <1>3

LEMMA CallAdded ==
  ASSUME NEW row \in RunRow, NEW m \in AnyPart, m.kind = "tool",
         NEW new, new = [row EXCEPT !.toolCalls = Append(@, m)]
  PROVE  /\ new \in RunRow /\ Grown(row, new, m) /\ new.status = row.status
         /\ new.toolCalls = Append(row.toolCalls, m) /\ new.approvals = row.approvals
         /\ new.artifacts = row.artifacts
<1>1. Append(row.toolCalls, m) \in Seq(AnyPart)
  BY DEF RunRow
<1>2. /\ new \in RunRow /\ new.status = row.status /\ new.toolCalls = Append(row.toolCalls, m)
      /\ new.messages = row.messages /\ new.approvals = row.approvals /\ new.artifacts = row.artifacts
  BY <1>1 DEF RunRow
<1>3. Grown(row, new, m)
  BY <1>2 DEF Grown, Lists, Kind
<1> QED
  BY <1>2, <1>3

LEMMA ApprovalAdded ==
  ASSUME NEW row \in RunRow, NEW m \in AnyPart, m.kind = "approval",
         NEW new, new = [row EXCEPT !.approvals = Append(@, m)]
  PROVE  /\ new \in RunRow /\ Grown(row, new, m) /\ new.status = row.status
         /\ new.toolCalls = row.toolCalls /\ new.approvals = Append(row.approvals, m)
         /\ new.artifacts = row.artifacts
<1>1. Append(row.approvals, m) \in Seq(AnyPart)
  BY DEF RunRow
<1>2. /\ new \in RunRow /\ new.status = row.status /\ new.approvals = Append(row.approvals, m)
      /\ new.messages = row.messages /\ new.toolCalls = row.toolCalls /\ new.artifacts = row.artifacts
  BY <1>1 DEF RunRow
<1>3. Grown(row, new, m)
  BY <1>2 DEF Grown, Lists, Kind
<1> QED
  BY <1>2, <1>3

LEMMA ArtifactAdded ==
  ASSUME NEW row \in RunRow, NEW m \in AnyPart, m.kind = "artifact",
         NEW new, new = [row EXCEPT !.artifacts = Append(@, m)]
  PROVE  /\ new \in RunRow /\ Grown(row, new, m) /\ new.status = row.status
         /\ new.toolCalls = row.toolCalls /\ new.approvals = row.approvals
         /\ new.artifacts = Append(row.artifacts, m)
<1>1. Append(row.artifacts, m) \in Seq(AnyPart)
  BY DEF RunRow
<1>2. /\ new \in RunRow /\ new.status = row.status /\ new.artifacts = Append(row.artifacts, m)
      /\ new.messages = row.messages /\ new.toolCalls = row.toolCalls /\ new.approvals = row.approvals
  BY <1>1 DEF RunRow
<1>3. Grown(row, new, m)
  BY <1>2 DEF Grown, Lists, Kind
<1> QED
  BY <1>2, <1>3

\* The user's message is in the row, as it is on the pane that sent it.
LEMMA BeginTurnOK ==
  ASSUME ChatTyped, TurnInv, PaneInv, BeginTurn
  PROVE  ChatTyped' /\ TurnInv' /\ PaneInv'
<1> DEFINE now == session.clock + 1
           m == Message("user", <<>>, now)
           sent == Message("user", <<>>, 0)
           mid == [run EXCEPT !.status = "running"]
<1>1. /\ session \in SessionRow /\ session.clock \in Nat /\ now \in Nat /\ session.pc = "begin"
      /\ run \in RunRow
  BY DEF ChatTyped, SessionRow, BeginTurn
<1>2. session.segment = <<>>
  BY <1>1 DEF TurnInv
<1>3. /\ m \in AnyPart /\ m.kind = "message" /\ m.at = now /\ Bare(m) = sent
      /\ sent \in AnyPart /\ Bare(sent) = sent /\ sent.body.role = "user"
  BY <1>1, UserTyped
<1>4. session' = [session EXCEPT !.pc = "on", !.clock = now] /\ pane' = pane
      /\ Publish(Event("run", None))
  BY DEF BeginTurn
<1>5. session' \in SessionRow /\ session'.pc = "on" /\ session'.clock = now
      /\ session'.segment = <<>> /\ session'.pending = session.pending
  BY <1>1, <1>2, <1>4 DEF SessionRow
<1>6. run' = [mid EXCEPT !.messages = Append(@, m)]
  BY <1>1 DEF BeginTurn, RunRow
<1> HIDE DEF m, sent
<1>7. mid \in RunRow /\ Lists(mid) = Lists(run) /\ mid.status = "running"
      /\ mid.approvals = run.approvals /\ mid.toolCalls = run.toolCalls
  BY <1>1, StatusSet DEF Status, IN_FLIGHT_STATUSES
<1> HIDE DEF mid
<1>8. run' \in RunRow /\ Grown(mid, run', m) /\ run'.status = "running"
      /\ run'.approvals = run.approvals /\ run'.toolCalls = run.toolCalls
  BY <1>3, <1>6, <1>7, MessageAdded
<1>9. RowInv(mid, session.clock) /\ \A e \in Entries(mid) : Entry(mid, e).at < now
  <2>1. RowInv(mid, session.clock)
    BY <1>7, RowStays DEF TurnInv
  <2>2. ASSUME NEW e \in Entries(mid) PROVE Entry(mid, e).at < now
    BY <1>1, <2>1, EntryTyped DEF RowInv
  <2> QED
    BY <2>1, <2>2
<1> HIDE DEF now
<1>10. \A e \in Entries(mid) : Entry(mid, e).at < m.at
  BY <1>3, <1>9
<1>11. session.clock <= now /\ m.at <= now
  BY <1>1, <1>3 DEF now
<1>12. /\ RowInv(run', now)
       /\ FeedOf(BuildRunFeed(run')) = Adds(FeedOf(BuildRunFeed(mid)), m)
  BY <1>11, <1>1, <1>3, <1>8, <1>9, <1>10, RowGrows
<1>13. TurnInv'
  BY <1>5, <1>8, <1>12 DEF TurnInv
<1>14. ASSUME NEW to, Sent(to, run) PROVE Live(to, run', <<>>)
  <2>1. PICK before : Agrees(before, run) /\ to = Append(before, sent)
    BY <1>14 DEF Sent, Ahead, sent
  <2>2. Agrees(before, mid)
    BY <1>7, <2>1, AgreesStays
  <2>3. Agrees(to, run')
    BY <1>3, <1>8, <1>9, <1>12, <2>1, <2>2, PartAppears DEF RowInv
  <2>4. ~LastIsAssistant(to)
    BY <1>3, <2>1, LastPart DEF Agrees, AssistantMessage
  <2> QED
    BY <2>3, <2>4 DEF Live
<1>15. wire' \in WireRow /\ PaneInv'
  <2>1. \A to : Ready(to) => Live(Shown(to, Event("run", None)), run', session'.segment)
    BY <1>1, <1>5, <1>14, ShownIs DEF Ready
  <2>2. Event("run", None) \in EventRow /\ Event("run", None).type = "run"
    BY EventsTyped
  <2> QED
    BY <1>1, <1>4, <1>5, <2>1, <2>2, Published DEF Over
<1>16. ChatTyped'
  BY <1>4, <1>5, <1>8, <1>15 DEF ChatTyped
<1> QED
  BY <1>13, <1>15, <1>16

\* A word is on its way to the pane, and not in the row yet.
LEMMA SpeakOK ==
  ASSUME ChatTyped, TurnInv, PaneInv, Speak
  PROVE  ChatTyped' /\ TurnInv' /\ PaneInv'
<1> DEFINE word == session.clock + 1
           event == Event("token", word)
<1>1. /\ session \in SessionRow /\ session.clock \in Nat /\ word \in Nat /\ session.pc = "on"
      /\ session.segment \in Seq(Nat) /\ session.pending = {}
  BY DEF ChatTyped, SessionRow, Speak, Working
<1>2. /\ session' = [session EXCEPT !.clock = word, !.segment = Append(@, word)]
      /\ Publish(event) /\ run' = run /\ pane' = pane
  BY DEF Speak
<1>3. Append(session.segment, word) \in Seq(Nat) /\ Append(session.segment, word) # <<>>
  BY <1>1, AppendProperties
<1>4. /\ session' \in SessionRow /\ session'.pc = "on" /\ session'.clock = word
      /\ session'.segment = Append(session.segment, word) /\ session'.pending = {}
  BY <1>1, <1>2, <1>3 DEF SessionRow
<1>5. \A e \in Entries(run) : Entry(run, e).at < word
  <2> TAKE e \in Entries(run)
  <2>1. Entry(run, e).at \in Nat /\ Entry(run, e).at <= session.clock
    BY EntryTyped DEF TurnInv, RowInv
  <2> QED
    BY <1>1, <2>1
<1>6. TurnInv'
  <2>1. RowInv(run, word)
    <3>1. ASSUME NEW e \in Entries(run) PROVE Entry(run, e).at <= word
      BY <1>1, <1>5, EntryTyped DEF TurnInv, RowInv
    <3> HIDE DEF word
    <3> QED
      BY <3>1 DEF TurnInv, RowInv
  <2> HIDE DEF word
  <2> QED
    BY <1>1, <1>2, <1>4, <1>5, <2>1 DEF TurnInv
<1> HIDE DEF word
<1>7. event \in EventRow /\ event.type = "token"
  BY <1>1, EventsTyped
<1>8. \A to : Ready(to) => Live(Shown(to, event), run', session'.segment)
  <2> SUFFICES ASSUME NEW to, Ready(to)
               PROVE  Live(AppendToken(to, word), run, Append(session.segment, word))
    BY <1>2, <1>4, ShownIs
  <2>1. Live(to, run, session.segment)
    BY <1>1 DEF Ready
  <2> QED
    BY <1>1, <2>1, WordAppears
<1> HIDE DEF event
<1>9. wire' \in WireRow /\ PaneInv'
  BY <1>1, <1>2, <1>4, <1>7, <1>8, Published DEF Over
<1>10. ChatTyped'
  BY <1>2, <1>4, <1>9 DEF ChatTyped
<1> QED
  BY <1>6, <1>9, <1>10

\* What was said is written before the tool is called.
LEMMA FlushOK ==
  ASSUME ChatTyped, TurnInv, session.pc = "on", NEW row, row = [run EXCEPT !.messages = Flushed]
  PROVE  /\ row \in RunRow /\ RowInv(row, session.clock) /\ row.status = run.status
         /\ row.toolCalls = run.toolCalls /\ row.approvals = run.approvals
         /\ \A to : Live(to, run, session.segment) => Agrees(to, row)
<1>1. run \in RunRow /\ session.segment \in Seq(Nat) /\ session.clock \in Nat
  BY DEF ChatTyped, SessionRow
<1>2. CASE session.segment = <<>>
  <2>1. row = run
    BY <1>1, <1>2 DEF Flushed, RunRow
  <2> QED
    BY <1>1, <1>2, <2>1 DEF TurnInv, Live
<1>3. CASE session.segment # <<>>
  <2> DEFINE m == Message("assistant", session.segment, session.clock)
             said == Message("assistant", session.segment, 0)
  <2>1. m \in AnyPart /\ m.kind = "message" /\ m.at = session.clock /\ Bare(m) = said
    BY <1>1, MessageTyped
  <2>2. said \in AnyPart /\ Bare(said) = said
    BY <1>1, MessageTyped
  <2>3. row = [run EXCEPT !.messages = Append(@, m)]
    BY <1>1, <1>3 DEF Flushed, RunRow
  <2> HIDE DEF m
  <2>4. row \in RunRow /\ Grown(run, row, m) /\ row.status = run.status
        /\ row.toolCalls = run.toolCalls /\ row.approvals = run.approvals
    BY <1>1, <2>1, <2>3, MessageAdded
  <2>5. /\ RowInv(run, session.clock) /\ Listed(run)
        /\ \A e \in Entries(run) : Entry(run, e).at < m.at
    BY <1>3, <2>1 DEF TurnInv, RowInv
  <2>6. m.at <= session.clock /\ session.clock <= session.clock
    BY <1>1, <2>1
  <2>7. /\ RowInv(row, session.clock)
        /\ FeedOf(BuildRunFeed(row)) = Adds(FeedOf(BuildRunFeed(run)), m)
    BY <1>1, <2>1, <2>4, <2>5, <2>6, RowGrows
  <2>8. ASSUME NEW to, Live(to, run, session.segment) PROVE Agrees(to, row)
    <3>1. PICK before : Agrees(before, run) /\ to = Append(before, said)
      BY <1>3, <2>8 DEF Live, Ahead
    <3> HIDE DEF said
    <3>2. Bare(said) = Bare(m)
      BY <2>1, <2>2
    <3> QED
      BY <2>1, <2>2, <2>4, <2>5, <2>7, <3>1, <3>2, PartAppears
  <2> QED
    BY <2>4, <2>7, <2>8
<1> QED
  BY <1>2, <1>3

\* The narration is flushed before the call that it led to.
LEMMA StartToolOK ==
  ASSUME ChatTyped, TurnInv, PaneInv, NEW t \in Tool, StartTool(t)
  PROVE  ChatTyped' /\ TurnInv' /\ PaneInv'
<1> DEFINE clock == session.clock
           row == [run EXCEPT !.messages = Flushed]
           m == ToolCall(t, "pending", clock)
           shown == ToolCall(t, "pending", 0)
           event == Event("tool_call", shown)
<1>1. /\ session \in SessionRow /\ clock \in Nat /\ session.pc = "on" /\ run \in RunRow
      /\ session.pending \in SUBSET Tool
  BY DEF ChatTyped, SessionRow, StartTool, Working
<1>2. /\ session' = [session EXCEPT !.segment = <<>>, !.pending = @ \cup {t}]
      /\ Publish(event) /\ pane' = pane /\ t \notin Ids(run.toolCalls)
  BY DEF StartTool
<1>3. run' = [row EXCEPT !.toolCalls = Append(@, m)]
  BY <1>1 DEF StartTool, RunRow
<1>4. /\ row \in RunRow /\ RowInv(row, clock) /\ row.status = run.status
      /\ row.toolCalls = run.toolCalls /\ row.approvals = run.approvals
      /\ \A to : Live(to, run, session.segment) => Agrees(to, row)
  BY <1>1, FlushOK
<1> HIDE DEF row
<1>5. m \in AnyPart /\ m.kind = "tool" /\ m.id = t /\ m.at = clock /\ Bare(m) = shown
  BY <1>1, CallTyped
<1>6. shown \in AnyPart /\ shown.kind = "tool" /\ shown.id = t /\ Bare(shown) = shown
  BY CallTyped
<1> HIDE DEF m, shown
<1>7. /\ run' \in RunRow /\ Grown(row, run', m) /\ run'.status = run.status
      /\ run'.toolCalls = Append(run.toolCalls, m) /\ run'.approvals = run.approvals
  BY <1>3, <1>4, <1>5, CallAdded
<1>8. clock <= clock /\ m.at <= clock
  BY <1>1, <1>5
<1> HIDE DEF clock
<1>9. /\ RowInv(run', clock)
      /\ FeedOf(BuildRunFeed(run')) = Adds(FeedOf(BuildRunFeed(row)), m)
  BY <1>1, <1>4, <1>5, <1>7, <1>8, RowGrows
<1>10. /\ session' \in SessionRow /\ session'.pc = "on" /\ session'.clock = clock
       /\ session'.segment = <<>> /\ session'.pending = session.pending \cup {t}
  <2>1. session.pending \cup {t} \in SUBSET Tool /\ <<>> \in Seq(Nat)
    BY <1>1
  <2> QED
    BY <1>1, <1>2, <2>1 DEF SessionRow, clock
<1>11. TurnInv'
  <2>1. run.toolCalls \in Seq(AnyPart)
    BY <1>1 DEF RunRow
  <2>2. Ids(run'.toolCalls) = Ids(run.toolCalls) \cup {t}
    BY <1>5, <1>7, <2>1, IdsAppend
  <2>3. run'.status \in {"running", "awaiting_approval"}
    BY <1>1, <1>7 DEF TurnInv
  <2> QED
    BY <1>9, <1>10, <2>2, <2>3 DEF TurnInv
<1>12. event \in EventRow /\ event.type = "tool_call"
  BY <1>6, EventsTyped
<1>13. \A to : Ready(to) => Live(Shown(to, event), run', session'.segment)
  <2> SUFFICES ASSUME NEW to, Ready(to) PROVE Live(Upsert(to, shown), run', <<>>)
    BY <1>10, ShownIs
  <2>1. Agrees(to, row) /\ to \in Seq(AnyPart)
    BY <1>1, <1>4 DEF Ready, Agrees
  <2>2. t \notin AllIds(to, "tool")
    BY <1>2, <1>4, <2>1 DEF Agrees
  <2>3. Upsert(to, shown) = Append(to, shown)
    BY <1>6, <2>1, <2>2, UpsertAppends
  <2>4. Agrees(Append(to, shown), run')
    BY <1>4, <1>5, <1>6, <1>7, <1>9, <2>1, PartAppears DEF RowInv
  <2>5. ~LastIsAssistant(Append(to, shown))
    BY <1>6, <2>1, LastPart DEF AssistantMessage
  <2> QED
    BY <2>3, <2>4, <2>5 DEF Live
<1> HIDE DEF event
<1>14. wire' \in WireRow /\ PaneInv'
  BY <1>1, <1>2, <1>10, <1>12, <1>13, Published DEF Over
<1>15. ChatTyped'
  BY <1>2, <1>7, <1>10, <1>14 DEF ChatTyped
<1> QED
  BY <1>11, <1>14, <1>15

LEMMA FinishToolOK ==
  ASSUME ChatTyped, TurnInv, PaneInv, NEW t \in Tool, FinishTool(t)
  PROVE  ChatTyped' /\ TurnInv' /\ PaneInv'
<1> DEFINE shown == ToolCall(t, "ok", 0)
           event == Event("tool_call", shown)
           calls == Resolved(run.toolCalls, {t}, "ok")
<1>1. /\ session \in SessionRow /\ session.pc = "on" /\ run \in RunRow
      /\ session.pending \in SUBSET Tool /\ t \in session.pending
  BY DEF ChatTyped, SessionRow, FinishTool, Working
<1>2. session.segment = <<>> /\ t \in Ids(run.toolCalls)
  BY <1>1 DEF TurnInv
<1>3. /\ session' = [session EXCEPT !.pending = @ \ {t}]
      /\ Publish(event) /\ pane' = pane /\ run' = [run EXCEPT !.toolCalls = calls]
  BY DEF FinishTool
<1>4. /\ run'.status = run.status /\ run'.messages = run.messages /\ run'.toolCalls = calls
      /\ run'.approvals = run.approvals /\ run'.artifacts = run.artifacts
      /\ DOMAIN run' = DOMAIN run
  BY <1>1, <1>3 DEF RunRow
<1>5. Replaced(run, run', t)
  BY <1>4 DEF Replaced, Lists, Kind
<1> HIDE DEF calls
<1>6. PICK order : Sorted(run, order)
  BY DEF TurnInv, RowInv
<1>7. Listed(run)
  BY DEF TurnInv, RowInv
<1>8. /\ Listed(run') /\ Sorted(run', order) /\ Entries(run') = Entries(run)
      /\ \A e \in Entries(run) : Entry(run', e).at = Entry(run, e).at
      /\ \A kind \in Kind : Ids(Lists(run')[kind]) = Ids(Lists(run)[kind])
  BY <1>5, <1>6, <1>7, ReplacedRow
<1>9. /\ run' \in RunRow
      /\ Ids(run'.toolCalls) = Ids(run.toolCalls)
  <2>1. "tool" \in Kind
    BY DEF Kind
  <2>2. calls \in Seq(AnyPart)
    BY <1>4, <1>8, <2>1, RowLists DEF Listed
  <2>3. Ids(run'.toolCalls) = Ids(run.toolCalls)
    BY <1>8, <2>1, RowLists
  <2> QED
    BY <1>1, <1>3, <2>2, <2>3 DEF RunRow
<1>10. /\ session' \in SessionRow /\ session'.pc = "on" /\ session'.clock = session.clock
       /\ session'.segment = <<>> /\ session'.pending = session.pending \ {t}
  BY <1>1, <1>2, <1>3 DEF SessionRow
<1>11. TurnInv'
  <2>1. RowInv(run', session.clock)
    BY <1>8 DEF TurnInv, RowInv
  <2> QED
    BY <1>1, <1>4, <1>8, <1>9, <1>10, <2>1 DEF TurnInv
<1>12. event \in EventRow /\ event.type = "tool_call"
  <2>1. shown \in AnyPart
    BY CallTyped
  <2> QED
    BY <2>1, EventsTyped
<1>13. \A to : Ready(to) => Live(Shown(to, event), run', session'.segment)
  <2> SUFFICES ASSUME NEW to, Ready(to) PROVE Live(Upsert(to, shown), run', <<>>)
    BY <1>10, ShownIs
  <2>1. Agrees(to, run) /\ ~LastIsAssistant(to)
    BY <1>1, <1>2 DEF Ready, Live
  <2>2. Agrees(Upsert(to, shown), run') /\ ~LastIsAssistant(Upsert(to, shown))
    BY <1>2, <1>5, <1>6, <1>7, <2>1, CallRenewed
  <2> QED
    BY <2>2 DEF Live
<1> HIDE DEF event
<1>14. wire' \in WireRow /\ PaneInv'
  BY <1>1, <1>3, <1>10, <1>12, <1>13, Published DEF Over
<1>15. ChatTyped'
  BY <1>3, <1>4, <1>9, <1>10, <1>14 DEF ChatTyped
<1> QED
  BY <1>11, <1>14, <1>15

LEMMA SaveArtifactOK ==
  ASSUME ChatTyped, TurnInv, PaneInv, NEW a \in Artifact, SaveArtifact(a)
  PROVE  ChatTyped' /\ TurnInv' /\ PaneInv'
<1> DEFINE clock == session.clock
           m == Part("artifact", a, None, clock)
           shown == Part("artifact", a, None, 0)
           event == Event("artifact", shown)
<1>1. /\ session \in SessionRow /\ clock \in Nat /\ session.pc = "on" /\ run \in RunRow
      /\ session.pending # {}
  BY DEF ChatTyped, SessionRow, SaveArtifact, Working
<1>2. session.segment = <<>> /\ session'.segment = <<>>
  BY <1>1 DEF TurnInv, SaveArtifact
<1>3. /\ session' = session /\ Publish(event) /\ pane' = pane /\ a \notin Ids(run.artifacts)
      /\ run' = [run EXCEPT !.artifacts = Append(@, m)]
  BY DEF SaveArtifact
<1>4. m \in AnyPart /\ m.kind = "artifact" /\ m.id = a /\ m.at = clock /\ Bare(m) = shown
  BY <1>1, ArtifactTyped
<1>5. shown \in AnyPart /\ shown.kind = "artifact" /\ shown.id = a /\ Bare(shown) = shown
  BY ArtifactTyped
<1> HIDE DEF m, shown
<1>6. /\ run' \in RunRow /\ Grown(run, run', m) /\ run'.status = run.status
      /\ run'.toolCalls = run.toolCalls /\ run'.approvals = run.approvals
  BY <1>1, <1>3, <1>4, ArtifactAdded
<1>7. clock <= clock /\ m.at <= clock
  BY <1>1, <1>4
<1>8. RowInv(run, clock) /\ Listed(run)
  BY DEF TurnInv, RowInv
<1> HIDE DEF clock
<1>9. /\ RowInv(run', clock)
      /\ FeedOf(BuildRunFeed(run')) = Adds(FeedOf(BuildRunFeed(run)), m)
  BY <1>1, <1>4, <1>6, <1>7, <1>8, RowGrows
<1>10. TurnInv'
  <2>1. run'.status \in {"running", "awaiting_approval"}
    BY <1>1, <1>6 DEF TurnInv
  <2>2. session.pending \subseteq Ids(run'.toolCalls)
    BY <1>6 DEF TurnInv
  <2> QED
    BY <1>1, <1>2, <1>3, <1>9, <2>1, <2>2 DEF TurnInv, clock
<1>11. event \in EventRow /\ event.type = "artifact"
  BY <1>5, EventsTyped
<1>12. \A to : Ready(to) => Live(Shown(to, event), run', session'.segment)
  <2> SUFFICES ASSUME NEW to, Ready(to) PROVE Live(Upsert(to, shown), run', <<>>)
    BY <1>2, ShownIs
  <2>1. Agrees(to, run) /\ to \in Seq(AnyPart)
    BY <1>1, <1>2 DEF Ready, Live, Agrees
  <2>2. a \notin AllIds(to, "artifact")
    BY <1>3, <2>1 DEF Agrees
  <2>3. Upsert(to, shown) = Append(to, shown)
    BY <1>5, <2>1, <2>2, UpsertAppends
  <2>4. Agrees(Append(to, shown), run')
    BY <1>4, <1>5, <1>6, <1>8, <1>9, <2>1, PartAppears
  <2>5. ~LastIsAssistant(Append(to, shown))
    BY <1>5, <2>1, LastPart DEF AssistantMessage
  <2> QED
    BY <2>3, <2>4, <2>5 DEF Live
<1> HIDE DEF event
<1>13. wire' \in WireRow /\ PaneInv'
  BY <1>1, <1>3, <1>11, <1>12, Published DEF Over
<1>14. ChatTyped'
  BY <1>1, <1>3, <1>6, <1>13 DEF ChatTyped
<1> QED
  BY <1>10, <1>13, <1>14

\* The gate is in the row, and on no page of blocks.
LEMMA AskOK ==
  ASSUME ChatTyped, TurnInv, PaneInv, NEW g \in Gate, Ask(g)
  PROVE  /\ ChatTyped' /\ TurnInv' /\ PaneInv'
         /\ session.pc = "on" /\ session'.pc = "parked" /\ run'.status = "awaiting_approval"
         /\ Len(run'.approvals) = Len(run.approvals) + 1 /\ Len(run.approvals) \in Nat
         /\ DOMAIN run'.approvals = 1 .. Len(run.approvals) + 1
         /\ run'.approvals[Len(run.approvals) + 1].id = g
         /\ \A n \in 1 .. Len(run.approvals) : run'.approvals[n] = run.approvals[n]
<1> DEFINE clock == session.clock
           row == [run EXCEPT !.status = "awaiting_approval"]
           m == Part("approval", g, None, clock)
           shown == Part("approval", g, None, 0)
           event == Event("approval_required", shown)
           N == Len(run.approvals)
<1>1. /\ session \in SessionRow /\ clock \in Nat /\ session.pc = "on" /\ run \in RunRow
      /\ session.pending # {}
  BY DEF ChatTyped, SessionRow, Ask, Working
<1>2. session.segment = <<>>
  BY <1>1 DEF TurnInv
<1>3. session' = [session EXCEPT !.pc = "parked"] /\ Publish(event) /\ pane' = pane
  BY DEF Ask
<1>4. run' = [row EXCEPT !.approvals = Append(@, m)]
  BY <1>1 DEF Ask, RunRow
<1>5. /\ row \in RunRow /\ Lists(row) = Lists(run) /\ row.status = "awaiting_approval"
      /\ row.approvals = run.approvals /\ row.toolCalls = run.toolCalls
  BY <1>1, StatusSet DEF Status, IN_FLIGHT_STATUSES
<1> HIDE DEF row
<1>6. m \in AnyPart /\ m.kind = "approval" /\ m.id = g /\ m.at = clock /\ Bare(m) = shown
  BY <1>1, ApprovalTyped
<1>7. shown \in AnyPart /\ Bare(shown) = shown
  BY ApprovalTyped
<1> HIDE DEF m, shown
<1>8. /\ run' \in RunRow /\ Grown(row, run', m) /\ run'.status = "awaiting_approval"
      /\ run'.toolCalls = run.toolCalls /\ run'.approvals = Append(run.approvals, m)
  BY <1>4, <1>5, <1>6, ApprovalAdded
<1>9. clock <= clock /\ m.at <= clock
  BY <1>1, <1>6
<1>10. RowInv(row, clock) /\ Listed(row)
  BY <1>5, RowStays DEF TurnInv, RowInv
<1> HIDE DEF clock
<1>11. /\ RowInv(run', clock)
       /\ FeedOf(BuildRunFeed(run')) = Adds(FeedOf(BuildRunFeed(row)), m)
  BY <1>1, <1>6, <1>8, <1>9, <1>10, RowGrows
<1>12. /\ session' \in SessionRow /\ session'.pc = "parked" /\ session'.clock = clock
       /\ session'.segment = <<>> /\ session'.pending = session.pending
  BY <1>1, <1>2, <1>3 DEF SessionRow, clock
<1>13. TurnInv'
  BY <1>8, <1>11, <1>12 DEF TurnInv
<1>14. event \in EventRow /\ event.type = "approval_required"
  BY <1>7, EventsTyped
<1>15. \A to : Ready(to) => Live(Shown(to, event), run', session'.segment)
  <2> SUFFICES ASSUME NEW to, Ready(to) PROVE Live(to, run', <<>>)
    BY <1>12, ShownIs
  <2>1. Agrees(to, run) /\ ~LastIsAssistant(to)
    BY <1>1, <1>2 DEF Ready, Live
  <2>2. Agrees(to, row)
    BY <1>5, <2>1, AgreesStays
  <2>3. Agrees(to, run')
    BY <1>6, <1>8, <1>10, <1>11, <2>2, PartAppears
  <2> QED
    BY <2>1, <2>3 DEF Live
<1> HIDE DEF event
<1>16. wire' \in WireRow /\ PaneInv'
  BY <1>1, <1>3, <1>12, <1>14, <1>15, Published DEF Over
<1>17. /\ Len(run'.approvals) = N + 1 /\ N \in Nat
       /\ DOMAIN run'.approvals = 1 .. N + 1 /\ DOMAIN run.approvals = 1 .. N
       /\ run'.approvals[N + 1] = m
       /\ \A n \in 1 .. N : run'.approvals[n] = run.approvals[n]
  <2>1. run.approvals \in Seq(AnyPart)
    BY <1>1 DEF RunRow
  <2> QED
    BY <1>6, <1>8, <2>1, AppendProperties
<1> HIDE DEF N
<1>18. \A n \in 1 .. N + 1 : run'.approvals[n].id \in Gate
  <2> TAKE n \in 1 .. N + 1
  <2>1. n = N + 1 \/ n \in 1 .. N
    BY <1>17
  <2> QED
    BY <1>6, <1>17, <2>1 DEF ChatTyped
<1>19. ChatTyped'
  BY <1>3, <1>8, <1>12, <1>16, <1>17, <1>18 DEF ChatTyped
<1> QED
  BY <1>1, <1>6, <1>8, <1>12, <1>13, <1>16, <1>17, <1>19 DEF N

\* The last narration is flushed: the row is what the pane will show.
LEMMA FinishTurnOK ==
  ASSUME ChatTyped, TurnInv, PaneInv, FinishTurn
  PROVE  ChatTyped' /\ TurnInv' /\ PaneInv'
<1> DEFINE clock == session.clock
           row == [run EXCEPT !.messages = Flushed]
           event == Event("done", None)
<1>1. /\ session \in SessionRow /\ clock \in Nat /\ session.pc = "on" /\ run \in RunRow
  BY DEF ChatTyped, SessionRow, FinishTurn, Working
<1>2. session' = [session EXCEPT !.pc = "off", !.segment = <<>>] /\ Publish(event) /\ pane' = pane
  BY DEF FinishTurn
<1>3. run' = [row EXCEPT !.status = "completed"]
  BY <1>1 DEF FinishTurn, RunRow
<1>4. /\ row \in RunRow /\ RowInv(row, clock)
      /\ row.toolCalls = run.toolCalls /\ row.approvals = run.approvals
      /\ \A to : Live(to, run, session.segment) => Agrees(to, row)
  BY <1>1, FlushOK
<1> HIDE DEF row
<1>5. /\ run' \in RunRow /\ Lists(run') = Lists(row) /\ run'.status = "completed"
      /\ run'.approvals = run.approvals /\ run'.toolCalls = run.toolCalls
  BY <1>3, <1>4, StatusSet DEF Status, RESUMABLE_STATUSES
<1>6. RowInv(run', clock)
  BY <1>4, <1>5, RowStays
<1>7. /\ session' \in SessionRow /\ session'.pc = "off" /\ session'.clock = clock
      /\ session'.segment = <<>> /\ session'.pending = session.pending
  <2>1. <<>> \in Seq(Nat) /\ {} \in SUBSET Tool
    OBVIOUS
  <2> QED
    BY <1>1, <1>2, <2>1 DEF SessionRow
<1>8. TurnInv'
  BY <1>5, <1>6, <1>7 DEF TurnInv
<1>9. event \in EventRow /\ event.type = "done"
  BY EventsTyped
<1>10. \A to : Ready(to) => Agrees(Shown(to, event), run')
  <2> SUFFICES ASSUME NEW to, Ready(to) PROVE Agrees(to, run')
    BY ShownIs
  <2>1. Agrees(to, row)
    BY <1>1, <1>4 DEF Ready
  <2> QED
    BY <1>5, <2>1, AgreesStays
<1> HIDE DEF event
<1>11. wire' \in WireRow /\ PaneInv'
  BY <1>1, <1>2, <1>7, <1>9, <1>10, Published DEF Over
<1>12. ChatTyped'
  BY <1>2, <1>5, <1>7, <1>11 DEF ChatTyped
<1> QED
  BY <1>8, <1>11, <1>12

\* The notice of a turn that stopped early follows the last message of the
\* row; on the pane it is a message of its own only if nothing was being said.
LEMMA StopEarlyOK ==
  ASSUME ChatTyped, TurnInv, PaneInv, StopEarly
  PROVE  ChatTyped' /\ TurnInv' /\ PaneInv' /\ run'.approvals = run.approvals
<1> DEFINE clock == session.clock
           now == clock + 1
           words == <<0>>
           row == [run EXCEPT !.messages = Flushed]
           m == Message("assistant", words, now)
           told == Message("assistant", words, 0)
           event == Event("token", 0)
<1>1. /\ session \in SessionRow /\ clock \in Nat /\ now \in Nat /\ clock <= now
      /\ session.pc = "on" /\ session.pending = {} /\ run \in RunRow /\ wire \in WireRow
      /\ session.segment \in Seq(Nat)
  BY DEF ChatTyped, SessionRow, StopEarly, Working
<1>2. /\ session' = [session EXCEPT !.pc = "stopped", !.clock = now, !.segment = <<>>]
      /\ Publish(event)
      /\ pane' = IF session.segment = <<>> THEN pane ELSE [pane EXCEPT !.whole = FALSE]
  BY DEF StopEarly
<1>3. run' = [row EXCEPT !.messages = Append(@, m)]
  BY <1>1 DEF StopEarly, RunRow
<1>4. /\ row \in RunRow /\ RowInv(row, clock)
      /\ row.toolCalls = run.toolCalls /\ row.approvals = run.approvals
      /\ row.status = run.status
      /\ \A to : Live(to, run, session.segment) => Agrees(to, row)
  BY <1>1, FlushOK
<1> HIDE DEF row
<1>5. words \in Seq(Nat)
  OBVIOUS
<1> HIDE DEF words
<1>6. /\ m \in AnyPart /\ m.kind = "message" /\ m.at = now /\ Bare(m) = told
      /\ told \in AnyPart /\ Bare(told) = told
  BY <1>1, <1>5, MessageTyped
<1> HIDE DEF m
<1>7. /\ run' \in RunRow /\ Grown(row, run', m) /\ run'.status = run.status
      /\ run'.approvals = run.approvals /\ run'.toolCalls = run.toolCalls
  BY <1>3, <1>4, <1>6, MessageAdded
<1>8. \A e \in Entries(row) : Entry(row, e).at < m.at
  <2> TAKE e \in Entries(row)
  <2>1. Entry(row, e).at \in Nat /\ Entry(row, e).at <= clock
    BY <1>4, EntryTyped DEF RowInv
  <2> QED
    BY <1>1, <1>6, <2>1
<1> HIDE DEF clock, now
<1>9. /\ RowInv(run', now)
      /\ FeedOf(BuildRunFeed(run')) = Adds(FeedOf(BuildRunFeed(row)), m)
  BY <1>1, <1>4, <1>6, <1>7, <1>8, RowGrows
<1>10. /\ session' \in SessionRow /\ session'.pc = "stopped" /\ session'.clock = now
       /\ session'.segment = <<>> /\ session'.pending = {}
  <2>1. <<>> \in Seq(Nat)
    OBVIOUS
  <2> QED
    BY <1>1, <1>2, <2>1 DEF SessionRow
<1>11. TurnInv'
  <2>1. run'.status # "absent"
    BY <1>1, <1>7 DEF TurnInv
  <2> HIDE DEF now
  <2> QED
    BY <1>7, <1>9, <1>10, <2>1 DEF TurnInv
<1>12. wire' \in WireRow /\ PaneInv'
  <2>1. CASE session.segment = <<>>
    <3>1. ASSUME NEW to, Ready(to) PROVE Agrees(Shown(to, event), run')
      <4>1. Live(to, run, session.segment)
        BY <1>1, <3>1 DEF Ready
      <4>2. Agrees(to, row) /\ ~LastIsAssistant(to)
        BY <1>4, <2>1, <4>1 DEF Live
      <4>3. Shown(to, event) = Append(to, told)
        BY <4>2, ShownIs DEF AppendToken, words
      <4> HIDE DEF told, event
      <4>4. Listed(row) /\ Bare(told) = Bare(m)
        BY <1>4, <1>6 DEF RowInv
      <4> QED
        BY <1>6, <1>7, <1>9, <4>2, <4>3, <4>4, PartAppears
    <3>2. event \in EventRow /\ event.type = "token"
      BY EventsTyped
    <3>3. pane' = pane
      BY <1>2, <2>1
    <3> HIDE DEF event
    <3> QED
      BY <1>1, <1>2, <1>10, <3>1, <3>2, <3>3, Published DEF Over
  <2>2. CASE session.segment # <<>>
    <3>1. event \in EventRow
      BY EventsTyped
    <3>2. wire' \in WireRow /\ wire'.phase = wire.phase
      <4>1. CASE wire.phase = "open"
        <5>1. Append(wire.events, event) \in Seq(EventRow)
          BY <1>1, <3>1 DEF WireRow
        <5> HIDE DEF event
        <5>2. wire' = [wire EXCEPT !.events = Append(@, event)]
          BY <1>2, <4>1 DEF Publish
        <5> QED
          BY <1>1, <5>1, <5>2 DEF WireRow
      <4>2. CASE wire.phase # "open"
        BY <1>1, <1>2, <4>2 DEF Publish
      <4> QED
        BY <4>1, <4>2
    <3>3. ~pane'.whole /\ pane'.mounted = pane.mounted
      BY <1>2, <2>2 DEF ChatTyped
    <3> QED
      BY <3>2, <3>3 DEF PaneInv
  <2> QED
    BY <2>1, <2>2
<1>13. DOMAIN pane' = DOMAIN pane
  BY <1>2
<1>14. ChatTyped'
  BY <1>7, <1>10, <1>12, <1>13 DEF ChatTyped
<1> QED
  BY <1>7, <1>11, <1>12, <1>14

\* The turn that stopped early is over, and fails.
LEMMA EndStoppedOK ==
  ASSUME ChatTyped, TurnInv, PaneInv, EndStopped
  PROVE  ChatTyped' /\ TurnInv' /\ PaneInv' /\ run'.approvals = run.approvals
<1> DEFINE event == Event("done", None)
<1>1. /\ session \in SessionRow /\ session.pc = "stopped" /\ run \in RunRow
  BY DEF ChatTyped, EndStopped
<1>2. /\ session' = [session EXCEPT !.pc = "off"] /\ Publish(event) /\ pane' = pane
      /\ run' = [run EXCEPT !.status = "failed"]
  BY DEF EndStopped
<1>3. /\ run' \in RunRow /\ Lists(run') = Lists(run) /\ run'.status = "failed"
      /\ run'.approvals = run.approvals /\ run'.toolCalls = run.toolCalls
  BY <1>1, <1>2, StatusSet DEF Status, RESUMABLE_STATUSES
<1>4. /\ session' \in SessionRow /\ session'.pc = "off" /\ session'.clock = session.clock
      /\ session'.segment = session.segment /\ session'.pending = session.pending
  BY <1>1, <1>2 DEF SessionRow
<1>5. session.segment = <<>>
  BY <1>1 DEF TurnInv
<1>6. RowInv(run', session.clock)
  BY <1>3, RowStays DEF TurnInv
<1>7. TurnInv'
  BY <1>3, <1>4, <1>5, <1>6 DEF TurnInv
<1>8. event \in EventRow /\ event.type = "done"
  BY EventsTyped
<1>9. \A to : Ready(to) => Agrees(Shown(to, event), run')
  <2> SUFFICES ASSUME NEW to, Ready(to) PROVE Agrees(to, run')
    BY ShownIs
  <2>1. Agrees(to, run)
    BY <1>1 DEF Ready
  <2> QED
    BY <1>3, <2>1, AgreesStays
<1> HIDE DEF event
<1>10. wire' \in WireRow /\ PaneInv'
  BY <1>1, <1>2, <1>4, <1>8, <1>9, Published DEF Over
<1>11. ChatTyped'
  BY <1>2, <1>3, <1>4, <1>10 DEF ChatTyped
<1> QED
  BY <1>3, <1>7, <1>10, <1>11

\* The narration of a turn that fails is lost, and the pane is told.
LEMMA CrashTurnOK ==
  ASSUME ChatTyped, TurnInv, PaneInv, CrashTurn
  PROVE  ChatTyped' /\ TurnInv' /\ PaneInv'
<1> DEFINE event == Event("error", None)
<1>1. session \in SessionRow /\ session.pc = "on" /\ run \in RunRow
  BY DEF ChatTyped, CrashTurn, Working
<1>2. /\ session' = [session EXCEPT !.pc = "off", !.segment = <<>>, !.pending = {}]
      /\ Publish(event) /\ pane' = pane /\ run' = [run EXCEPT !.status = "failed"]
  BY DEF CrashTurn
<1>3. /\ run' \in RunRow /\ Lists(run') = Lists(run) /\ run'.status = "failed"
      /\ run'.approvals = run.approvals
  BY <1>1, <1>2, StatusSet DEF Status, RESUMABLE_STATUSES
<1>4. /\ session' \in SessionRow /\ session'.pc = "off" /\ session'.clock = session.clock
      /\ session'.segment = <<>> /\ session'.pending = {}
  <2>1. <<>> \in Seq(Nat) /\ {} \in SUBSET Tool
    OBVIOUS
  <2> QED
    BY <1>1, <1>2, <2>1 DEF SessionRow
<1>5. TurnInv'
  <2>1. RowInv(run', session.clock)
    BY <1>3, RowStays DEF TurnInv
  <2> QED
    BY <1>3, <1>4, <2>1 DEF TurnInv
<1>6. event \in EventRow /\ event.type = "error"
  BY EventsTyped
<1> HIDE DEF event
<1>7. wire' \in WireRow /\ PaneInv'
  BY <1>1, <1>2, <1>4, <1>6, Published DEF Over
<1>8. ChatTyped'
  BY <1>2, <1>3, <1>4, <1>7 DEF ChatTyped
<1> QED
  BY <1>5, <1>7, <1>8

LEMMA RestartServiceOK ==
  ASSUME ChatTyped, TurnInv, PaneInv, RestartService
  PROVE  ChatTyped' /\ TurnInv' /\ PaneInv'
<1> DEFINE now == session.clock + 1
           words == <<0>>
           m == Message("assistant", words, now)
           row == [run EXCEPT !.status = "failed"]
<1>1. /\ session \in SessionRow /\ session.clock \in Nat /\ now \in Nat /\ session.pc # "off"
      /\ run \in RunRow /\ wire \in WireRow
  BY DEF ChatTyped, SessionRow, RestartService
<1>2. /\ session' = [session EXCEPT !.pc = "off", !.clock = now, !.segment = <<>>, !.pending = {}]
      /\ wire' = IF wire.phase = "open" THEN [wire EXCEPT !.phase = "broken"] ELSE wire
      /\ pane' = pane
  BY DEF RestartService
<1>3. /\ session' \in SessionRow /\ session'.pc = "off" /\ session'.clock = now
      /\ session'.segment = <<>> /\ session'.pending = {}
  <2>1. <<>> \in Seq(Nat) /\ {} \in SUBSET Tool
    OBVIOUS
  <2> QED
    BY <1>1, <1>2, <2>1 DEF SessionRow
<1>4. RowInv(run, session.clock) /\ \A e \in Entries(run) : Entry(run, e).at < now
  <2>1. RowInv(run, session.clock)
    BY DEF TurnInv
  <2>2. ASSUME NEW e \in Entries(run) PROVE Entry(run, e).at < now
    BY <1>1, <2>1, EntryTyped DEF RowInv
  <2> QED
    BY <2>1, <2>2
<1>5. /\ run' \in RunRow /\ RowInv(run', now) /\ run'.approvals = run.approvals
      /\ run'.status = "absent" => Entries(run') = {}
  <2>1. CASE run.status = "running"
    <3>1. run' = [row EXCEPT !.messages = Append(@, m)]
      BY <1>1, <2>1 DEF RestartService, RunRow
    <3>2. /\ row \in RunRow /\ Lists(row) = Lists(run) /\ row.status = "failed"
          /\ row.approvals = run.approvals
      BY <1>1, StatusSet DEF Status, RESUMABLE_STATUSES
    <3> HIDE DEF row
    <3>3. words \in Seq(Nat)
      OBVIOUS
    <3> HIDE DEF words
    <3>4. m \in AnyPart /\ m.kind = "message" /\ m.at = now
      BY <1>1, <3>3, MessageTyped
    <3> HIDE DEF m
    <3>5. /\ run' \in RunRow /\ Grown(row, run', m) /\ run'.status = "failed"
          /\ run'.approvals = run.approvals
      BY <3>1, <3>2, <3>4, MessageAdded
    <3>6. RowInv(row, session.clock) /\ \A e \in Entries(row) : Entry(row, e).at < m.at
      BY <1>4, <3>2, <3>4, RowStays
    <3>7. session.clock <= now /\ m.at <= now
      BY <1>1, <3>4
    <3> HIDE DEF now
    <3>8. RowInv(run', now)
      BY <1>1, <3>4, <3>5, <3>6, <3>7, RowGrows
    <3> QED
      BY <3>5, <3>8
  <2>2. CASE run.status # "running"
    <3>1. run' = run
      BY <2>2 DEF RestartService
    <3>2. RowInv(run, now)
      <4>1. ASSUME NEW e \in Entries(run) PROVE Entry(run, e).at <= now
        BY <1>1, <1>4, EntryTyped DEF RowInv
      <4> HIDE DEF now
      <4> QED
        BY <1>4, <4>1 DEF RowInv
    <3> QED
      BY <1>1, <3>1, <3>2 DEF TurnInv
  <2> QED
    BY <2>1, <2>2
<1> HIDE DEF now
<1>6. TurnInv'
  BY <1>3, <1>5 DEF TurnInv
<1>7. /\ wire' \in WireRow
      /\ wire.phase # "open" => wire' = wire
      /\ wire.phase = "open" => wire'.phase = "broken"
  BY <1>1, <1>2 DEF WireRow
<1>8. PaneInv'
  <2>1. ~pane.mounted => wire'.phase \in {"idle", "unread"}
    BY <1>7 DEF PaneInv
  <2>2. ASSUME pane.whole PROVE wire'.phase = "broken" /\ pane.busy
    <3>1. wire.phase \in {"open", "broken"} /\ WholeInv
      BY <1>1, <2>2 DEF PaneInv, WholeInv, WireRow
    <3> QED
      BY <1>7, <3>1 DEF WholeInv, OpenInv
  <2> QED
    BY <1>2, <2>1, <2>2 DEF PaneInv, WholeInv
<1>9. ChatTyped'
  BY <1>2, <1>3, <1>5, <1>7 DEF ChatTyped
<1> QED
  BY <1>6, <1>8, <1>9

-----------------------------------------------------------------------------
(* The gates of the run, and what a decision does to it.                   *)

NoneOpen == \A n \in DOMAIN run.approvals : gate[run.approvals[n].id] # "open"

\* No gate changes, and none of the open ones is passed by.
LEMMA GatesStay ==
  ASSUME GatesInv, gate' = gate, run'.approvals = run.approvals,
         NoneOpen \/ (session'.pc \in {"parked", "off"} /\ run'.status = run.status)
  PROVE  GatesInv'
BY DEF GatesInv, NoneOpen

LEMMA NoneIsOpen ==
  ASSUME GatesInv, session.pc \notin {"parked", "off"} \/ run.status # "awaiting_approval"
  PROVE  NoneOpen
BY DEF GatesInv, NoneOpen

\* What a page shows of a row it shows of a row with the same lists.
LEMMA ShowsStay ==
  ASSUME NEW row, NEW new, Lists(new) = Lists(row)
  PROVE  /\ \A parts : Agrees(parts, row) => Agrees(parts, new)
         /\ \A parts : Sent(parts, row) => Sent(parts, new)
         /\ \A parts, segment : Live(parts, row, segment) => Live(parts, new, segment)
<1>1. \A parts : Agrees(parts, row) => Agrees(parts, new)
  BY AgreesStays
<1>2. \A parts, m : Ahead(parts, row, m) => Ahead(parts, new, m)
  BY <1>1 DEF Ahead
<1> QED
  BY <1>1, <1>2 DEF Sent, Live

\* The status of the run changes, or a parked turn goes on.
LEMMA StatusOK ==
  ASSUME ChatTyped, TurnInv, PaneInv, NEW status \in Status,
         status = "absent" => run.status = "absent",
         run' = [run EXCEPT !.status = status], UNCHANGED <<wire, pane>>,
         \/ session' = session
         \/ session.pc = "parked" /\ session' = [session EXCEPT !.pc = "on"],
         session'.pc \in {"on", "parked"} => status \in {"running", "awaiting_approval"}
  PROVE  /\ ChatTyped' /\ TurnInv' /\ PaneInv'
         /\ run'.approvals = run.approvals /\ run'.status = status
<1>1. run \in RunRow /\ session \in SessionRow /\ wire \in WireRow
  BY DEF ChatTyped
<1>2. /\ run' \in RunRow /\ Lists(run') = Lists(run) /\ run'.status = status
      /\ run'.toolCalls = run.toolCalls /\ run'.approvals = run.approvals
  BY <1>1, StatusSet
<1>3. /\ session' \in SessionRow /\ session'.clock = session.clock
      /\ session'.segment = session.segment /\ session'.pending = session.pending
      /\ session'.pc = session.pc \/ (session.pc = "parked" /\ session'.pc = "on")
  BY <1>1 DEF SessionRow
<1>4. /\ Entries(run') = Entries(run) /\ \A e : Entry(run', e) = Entry(run, e)
      /\ RowInv(run', session.clock)
  BY <1>2, RowStays DEF TurnInv
<1>5. TurnInv'
  BY <1>2, <1>3, <1>4 DEF TurnInv
<1>6. ChatTyped'
  BY <1>1, <1>2, <1>3 DEF ChatTyped
<1>7. ASSUME pane.whole PROVE WholeInv'
  <2>1. WholeInv
    BY <1>7 DEF PaneInv
  <2>2. /\ \A parts : Agrees(parts, run) => Agrees(parts, run')
        /\ \A parts : Sent(parts, run) => Sent(parts, run')
        /\ \A parts, segment : Live(parts, run, segment) => Live(parts, run', segment)
    BY <1>2, ShowsStay
  <2>3. CASE wire.phase = "idle"
    BY <1>2, <1>3, <2>1, <2>2, <2>3 DEF WholeInv
  <2>4. CASE wire.phase = "posting"
    BY <1>2, <1>3, <2>1, <2>2, <2>4 DEF WholeInv
  <2>5. CASE wire.phase = "open"
    <3>1. OpenInv
      BY <2>1, <2>5 DEF WholeInv
    <3>2. session.pc = "off" <=> session'.pc = "off"
      BY <1>3
    <3>3. session.pc = "begin" <=> session'.pc = "begin"
      BY <1>3
    <3>4. session'.pc \in {"on", "parked"} => session.pc \in {"on", "parked"}
      BY <1>3
    <3>5. session'.pc = "stopped" => session.pc = "stopped"
      BY <1>3
    <3>6. OpenInv'
      BY <1>3, <2>2, <3>1, <3>2, <3>3, <3>4, <3>5 DEF OpenInv
    <3> QED
      BY <2>5, <3>6 DEF WholeInv
  <2>6. CASE wire.phase = "broken"
    BY <2>1, <2>6 DEF WholeInv
  <2> QED
    BY <1>1, <2>1, <2>3, <2>4, <2>5, <2>6 DEF WholeInv, WireRow
<1>8. PaneInv'
  BY <1>7 DEF PaneInv
<1> QED
  BY <1>2, <1>5, <1>6, <1>8

\* The turn goes on when its gate is decided: none is open.
LEMMA GoOnOK ==
  ASSUME ChatInv, GoOn
  PROVE  ChatInv'
<1> DEFINE status == IF gate[Parked] = "approved" THEN "running" ELSE run.status
<1>1. ChatTyped /\ TurnInv /\ GatesInv /\ PaneInv
  BY DEF ChatInv
<1>2. /\ session.pc = "parked" /\ gate[Parked] \in Decision
      /\ session' = [session EXCEPT !.pc = "on"] /\ UNCHANGED <<wire, pane>> /\ gate' = gate
      /\ run' = IF gate[Parked] = "approved" THEN [run EXCEPT !.status = "running"] ELSE run
  BY DEF GoOn, Unpark, OnlyChat, deskVars
<1>3. run \in RunRow
  BY <1>1 DEF ChatTyped
<1>4. run.status \in {"running", "awaiting_approval"}
  BY <1>1, <1>2 DEF TurnInv
<1>5. status \in Status /\ status \in {"running", "awaiting_approval"} /\ status # "absent"
  BY <1>4 DEF Status, IN_FLIGHT_STATUSES
<1>6. run' = [run EXCEPT !.status = status]
  <2>1. [run EXCEPT !.status = run.status] = run
    BY <1>3 DEF RunRow
  <2> QED
    BY <1>2, <2>1
<1> HIDE DEF status
<1>7. ChatTyped' /\ TurnInv' /\ PaneInv' /\ run'.approvals = run.approvals
  BY <1>1, <1>2, <1>5, <1>6, StatusOK
<1>8. NoneOpen
  <2> SUFFICES ASSUME NEW n \in DOMAIN run.approvals, gate[run.approvals[n].id] = "open"
               PROVE  FALSE
    BY DEF NoneOpen
  <2>1. n = Len(run.approvals)
    BY <1>1 DEF GatesInv
  <2>2. Parked = run.approvals[n].id
    BY <2>1 DEF Parked, Last
  <2> QED
    BY <1>2, <2>2 DEF Decision
<1>9. GatesInv'
  BY <1>1, <1>2, <1>7, <1>8, GatesStay
<1> QED
  BY <1>7, <1>9 DEF ChatInv

\* A decision settles the run only when no turn waits for it.
LEMMA ApproveOK ==
  ASSUME ChatInv, gate \in [Gate -> Decision \cup {"none", "open"}],
         NEW g \in Gate, NEW where \in Place,
         Approve(g, where), Settle(g, where), UNCHANGED <<session, wire, resume, pane>>
  PROVE  ChatInv'
<1> DEFINE settles == g \in Ids(run.approvals) /\ gate[g] = "open" /\ session.pc # "parked"
           status == IF settles THEN IF call[g, where] = "approved" THEN "completed" ELSE "denied"
                     ELSE run.status
<1>1. ChatTyped /\ TurnInv /\ GatesInv /\ PaneInv /\ run \in RunRow
  BY DEF ChatInv, ChatTyped
<1>2. run' = [run EXCEPT !.status = status]
  <2>1. [run EXCEPT !.status = run.status] = run
    BY <1>1 DEF RunRow
  <2> QED
    BY <2>1 DEF Settle
<1>3. ASSUME settles
      PROVE  /\ status \in {"completed", "denied"}
             /\ session.pc = "off"
             /\ \A n \in DOMAIN run.approvals :
                  gate[run.approvals[n].id] = "open" => run.approvals[n].id = g
  <2>1. PICK n \in DOMAIN run.approvals : run.approvals[n].id = g
    BY <1>3 DEF Ids
  <2>2. n = Len(run.approvals) /\ session.pc \in {"parked", "off"}
    BY <1>1, <1>3, <2>1 DEF GatesInv
  <2> QED
    BY <1>1, <1>3, <2>1, <2>2 DEF GatesInv
<1>4. ~settles => status = run.status
  OBVIOUS
<1> HIDE DEF settles, status
<1>5. /\ status \in Status
      /\ status = "absent" => run.status = "absent"
  BY <1>1, <1>3, <1>4 DEF RunRow, Status, RESUMABLE_STATUSES
<1>6. session'.pc \in {"on", "parked"} => status \in {"running", "awaiting_approval"}
  BY <1>1, <1>3, <1>4 DEF TurnInv
<1>7. /\ ChatTyped' /\ TurnInv' /\ PaneInv' /\ run'.approvals = run.approvals
      /\ run'.status = status
  BY <1>1, <1>2, <1>3, <1>4, <1>5, <1>6, StatusOK
<1>8. /\ \A h \in Gate : h # g => gate'[h] = gate[h]
      /\ gate'[g] # "open"
      /\ gate[g] # "none" => gate'[g] # "none"
  <2>1. call[g, where] \in Decision /\ gate' = [gate EXCEPT ![g] = IF @ = "open" THEN call[g, where] ELSE @]
    BY DEF Approve
  <2> QED
    BY <2>1 DEF Decision
<1>9. GatesInv'
  <2> SUFFICES ASSUME NEW n \in DOMAIN run.approvals
               PROVE  /\ gate'[run.approvals[n].id] # "none"
                      /\ gate'[run.approvals[n].id] = "open" =>
                           /\ n = Len(run.approvals) /\ session.pc \in {"parked", "off"}
                           /\ status = "awaiting_approval"
    BY <1>7 DEF GatesInv
  <2> DEFINE h == run.approvals[n].id
  <2>1. h \in Gate /\ gate[h] # "none"
        /\ (gate[h] = "open" => /\ n = Len(run.approvals) /\ session.pc \in {"parked", "off"}
                                /\ run.status = "awaiting_approval")
    BY <1>1 DEF ChatTyped, GatesInv
  <2>2. CASE h = g
    BY <1>8, <2>1, <2>2
  <2>3. CASE h # g
    <3>1. gate'[h] = gate[h]
      BY <1>8, <2>1, <2>3
    <3>2. gate[h] = "open" => status = run.status
      BY <1>3, <1>4, <2>3
    <3> QED
      BY <2>1, <3>1, <3>2
  <2> QED
    BY <2>2, <2>3
<1> QED
  BY <1>7, <1>9 DEF ChatInv

\* Another run asks, or this one does.
LEMMA RaiseGates ==
  ASSUME ChatTyped, GatesInv, gate \in [Gate -> Decision \cup {"none", "open"}],
         NEW g \in Gate, Raise(g), run' = run, session' = session
  PROVE  GatesInv'
<1>1. gate[g] = "none" /\ gate' = [gate EXCEPT ![g] = "open"]
  BY DEF Raise
<1>2. \A n \in DOMAIN run.approvals : /\ run.approvals[n].id \in Gate
                                      /\ run.approvals[n].id # g
  BY <1>1 DEF ChatTyped, GatesInv
<1>3. \A n \in DOMAIN run.approvals : gate'[run.approvals[n].id] = gate[run.approvals[n].id]
  BY <1>1, <1>2
<1> QED
  BY <1>3 DEF GatesInv

LEMMA AskApprovalOK ==
  ASSUME ChatInv, gate \in [Gate -> Decision \cup {"none", "open"}],
         NEW g \in Gate, AskApproval(g)
  PROVE  ChatInv'
<1> DEFINE N == Len(run.approvals)
<1>1. ChatTyped /\ TurnInv /\ GatesInv /\ PaneInv /\ Ask(g)
  BY DEF ChatInv, AskApproval
<1>2. gate[g] = "none" /\ gate' = [gate EXCEPT ![g] = "open"]
  BY DEF AskApproval, Raise
<1>3. /\ ChatTyped' /\ TurnInv' /\ PaneInv'
      /\ session.pc = "on" /\ session'.pc = "parked" /\ run'.status = "awaiting_approval"
      /\ Len(run'.approvals) = N + 1 /\ N \in Nat
      /\ DOMAIN run'.approvals = 1 .. N + 1
      /\ run'.approvals[N + 1].id = g
      /\ \A n \in 1 .. N : run'.approvals[n] = run.approvals[n]
  BY <1>1, AskOK
<1>4. run.approvals \in Seq(AnyPart)
  BY <1>1 DEF ChatTyped, RunRow
<1>5. DOMAIN run.approvals = 1 .. N
  BY <1>4
<1> HIDE DEF N
<1>6. \A n \in 1 .. N : LET h == run.approvals[n].id
                        IN h \in Gate /\ gate[h] # "none" /\ gate[h] # "open"
  BY <1>1, <1>3, <1>5 DEF ChatTyped, GatesInv
<1>7. \A n \in 1 .. N : LET h == run'.approvals[n].id
                        IN gate'[h] # "none" /\ gate'[h] # "open"
  BY <1>2, <1>3, <1>6
<1>8. GatesInv'
  <2> SUFFICES ASSUME NEW n \in 1 .. N + 1
               PROVE  /\ gate'[run'.approvals[n].id] # "none"
                      /\ gate'[run'.approvals[n].id] = "open" => n = N + 1
    BY <1>3 DEF GatesInv
  <2>1. CASE n = N + 1
    BY <1>2, <1>3, <2>1
  <2>2. CASE n # N + 1
    <3>1. n \in 1 .. N
      BY <1>3, <2>2
    <3> QED
      BY <1>7, <3>1
  <2> QED
    BY <2>1, <2>2
<1> QED
  BY <1>3, <1>8 DEF ChatInv

-----------------------------------------------------------------------------
(* The POST and its response.                                              *)

LEMMA NoWireTyped == NoWire \in WireRow /\ NoWire.phase = "idle"
<1>1. <<>> \in Seq(EventRow)
  OBVIOUS
<1> QED
  BY <1>1 DEF NoWire, WireRow

\* The POST is answered.
LEMMA OpenedOK ==
  ASSUME ChatTyped, PaneInv, NEW events \in Seq(EventRow), Opened(events),
         wire.phase \in {"posting", "unread"}, run' = run, pane' = pane,
         session' \in SessionRow,
         pane.whole => \/ events = <<>> /\ session'.pc = "begin"
                       \/ /\ Len(events) = 1 /\ events[1].type = "error"
                          /\ session'.pc = "off"
  PROVE  ChatTyped' /\ PaneInv'
<1>1. wire \in WireRow /\ run \in RunRow
  BY DEF ChatTyped
<1>2. CASE wire.phase = "posting"
  <2>1. wire' \in WireRow /\ wire'.phase = "open" /\ wire'.events = events
    BY <1>2 DEF Opened, WireRow
  <2>2. ASSUME pane.whole PROVE OpenInv'
    <3>1. pane.busy /\ Sent(pane.parts, run)
      BY <1>2, <2>2 DEF PaneInv, WholeInv
    <3>2. CASE events = <<>> /\ session'.pc = "begin"
      BY <2>1, <3>1, <3>2 DEF OpenInv
    <3>3. CASE Len(events) = 1 /\ events[1].type = "error" /\ session'.pc = "off"
      <4>1. events # <<>> /\ LastType(events) = "error"
        <5>1. Len(events) # 0
          BY <3>3
        <5>2. events # <<>>
          BY <5>1
        <5>3. LastType(events) = events[1].type
          BY <3>3 DEF LastType
        <5> QED
          BY <3>3, <5>2, <5>3
      <4>2. \A n \in 1 .. Len(events) : n = Len(events)
        BY <3>3
      <4>3. wire'.events = events /\ session'.pc = "off" /\ pane'.busy
        BY <2>1, <3>1, <3>3
      <4>4. LastType(events) \in Over /\ LastType(events) # "done"
        BY <4>1 DEF Over
      <4>5. /\ session'.pc \notin {"begin", "on", "parked", "stopped"}
            /\ \A n \in 1 .. Len(events) :
                 events[n].type \in Over => n = Len(events) /\ session'.pc = "off"
        BY <4>2, <4>3
      <4> QED
        BY <4>1, <4>3, <4>4, <4>5 DEF OpenInv
    <3> QED
      BY <2>2, <3>2, <3>3
  <2>3. pane.mounted
    BY <1>2 DEF PaneInv
  <2>4. PaneInv'
    BY <2>1, <2>2, <2>3 DEF PaneInv, WholeInv
  <2> QED
    BY <1>1, <2>1, <2>4 DEF ChatTyped
<1>3. CASE wire.phase = "unread"
  <2>1. wire' = NoWire
    BY <1>3 DEF Opened
  <2>2. wire' \in WireRow /\ wire'.phase = "idle"
    BY <2>1, NoWireTyped
  <2>3. ~pane.whole
    BY <1>3 DEF PaneInv, WholeInv
  <2>4. PaneInv'
    BY <2>2, <2>3 DEF PaneInv
  <2> QED
    BY <1>1, <2>2, <2>4 DEF ChatTyped
<1> QED
  BY <1>2, <1>3

\* A turn begins: the pane has sent what the turn will write first.
LEMMA AcceptChatOK ==
  ASSUME ChatInv, AcceptChat, gate' = gate
  PROVE  ChatInv'
<1>1. ChatTyped /\ TurnInv /\ GatesInv /\ PaneInv /\ session \in SessionRow
  BY DEF ChatInv, ChatTyped
<1>2. /\ session' = [session EXCEPT !.pc = "begin"] /\ Opened(<<>>) /\ run' = run /\ pane' = pane
      /\ wire.phase \in {"posting", "unread"} /\ run.status \in RESUMABLE_STATUSES \cup {"absent"}
  BY DEF AcceptChat
<1>3. /\ session' \in SessionRow /\ session'.pc = "begin" /\ session'.clock = session.clock
      /\ session'.segment = session.segment /\ session'.pending = session.pending
  BY <1>1, <1>2 DEF SessionRow
<1>4. run.status \notin {"running", "awaiting_approval"}
  BY <1>2 DEF RESUMABLE_STATUSES
<1>5. session.pc # "on"
  BY <1>1, <1>4 DEF TurnInv
<1>6. TurnInv'
  BY <1>1, <1>2, <1>3, <1>5 DEF TurnInv
<1>7. <<>> \in Seq(EventRow)
  OBVIOUS
<1>8. ChatTyped' /\ PaneInv'
  BY <1>1, <1>2, <1>3, <1>7, OpenedOK
<1>9. GatesInv'
  BY <1>1, <1>2, <1>4, NoneIsOpen, GatesStay
<1> QED
  BY <1>6, <1>8, <1>9 DEF ChatInv

LEMMA RefuseChatOK ==
  ASSUME ChatInv, RefuseChat, gate' = gate
  PROVE  ChatInv'
<1> DEFINE events == <<Event("error", None)>>
<1>1. ChatTyped /\ TurnInv /\ GatesInv /\ PaneInv /\ session \in SessionRow
  BY DEF ChatInv, ChatTyped
<1>2. /\ session' = session /\ Opened(events) /\ run' = run /\ pane' = pane
      /\ wire.phase \in {"posting", "unread"}
  BY DEF RefuseChat
<1>3. Event("error", None) \in EventRow /\ Event("error", None).type = "error"
  BY EventsTyped
<1>4. events \in Seq(EventRow) /\ Len(events) = 1 /\ events[1].type = "error"
  BY <1>3
<1>5. pane.whole => session.pc = "off"
  BY <1>1, <1>2 DEF PaneInv, WholeInv
<1> HIDE DEF events
<1>6. ChatTyped' /\ PaneInv'
  BY <1>1, <1>2, <1>4, <1>5, OpenedOK
<1>7. TurnInv' /\ GatesInv'
  BY <1>1, <1>2 DEF TurnInv, GatesInv
<1> QED
  BY <1>6, <1>7 DEF ChatInv

LEMMA BreakStreamOK ==
  ASSUME ChatInv, BreakStream, gate' = gate
  PROVE  ChatInv'
<1>1. /\ ChatTyped /\ TurnInv /\ GatesInv /\ PaneInv /\ wire \in WireRow /\ wire.phase = "open"
      /\ wire' = [wire EXCEPT !.phase = "broken"] /\ UNCHANGED <<run, session, pane>>
  BY DEF ChatInv, ChatTyped, BreakStream
<1>2. wire' \in WireRow /\ wire'.phase = "broken"
  BY <1>1 DEF WireRow
<1>3. pane.mounted /\ (pane.whole => pane.busy)
  BY <1>1 DEF PaneInv, WholeInv, OpenInv
<1>4. PaneInv'
  BY <1>1, <1>2, <1>3 DEF PaneInv, WholeInv
<1>5. ChatTyped' /\ TurnInv' /\ GatesInv'
  BY <1>1, <1>2 DEF ChatTyped, TurnInv, GatesInv
<1> QED
  BY <1>4, <1>5 DEF ChatInv

PaneFields ==
  {"mounted", "resumed", "runId", "parts", "busy", "sentHere", "approval", "whole"}

LEMMA SendOK ==
  ASSUME ChatInv, Send, gate' = gate
  PROVE  ChatInv'
<1> DEFINE sent == Message("user", <<>>, 0)
<1>1. /\ ChatTyped /\ TurnInv /\ GatesInv /\ PaneInv /\ UNCHANGED <<run, session>>
      /\ DOMAIN pane = PaneFields
  BY DEF ChatInv, ChatTyped, Send, PaneFields
<1>2. /\ pane.mounted /\ wire.phase = "idle" /\ (pane.runId \/ run.status = "absent")
      /\ pane' = [pane EXCEPT !.busy = TRUE, !.sentHere = TRUE, !.approval = FALSE,
                    !.parts = Append(@, sent)]
      /\ wire' = [phase |-> "posting", events |-> <<>>]
  BY DEF Send
<1> HIDE DEF sent
<1>3. /\ DOMAIN pane' = PaneFields /\ pane'.busy /\ pane'.parts = Append(pane.parts, sent)
      /\ pane'.mounted = pane.mounted /\ pane'.whole = pane.whole
  BY <1>1, <1>2 DEF PaneFields
<1>4. wire' \in WireRow /\ wire'.phase = "posting"
  <2>1. <<>> \in Seq(EventRow)
    OBVIOUS
  <2> QED
    BY <1>2, <2>1 DEF WireRow
<1>5. ASSUME pane.whole PROVE session.pc = "off" /\ Sent(pane'.parts, run)
  <2>1. session.pc = "off" /\ Agrees(pane.parts, run)
    BY <1>1, <1>2, <1>5 DEF PaneInv, WholeInv
  <2> QED
    BY <1>3, <2>1 DEF Sent, Ahead, sent
<1>6. PaneInv'
  BY <1>1, <1>2, <1>3, <1>4, <1>5 DEF PaneInv, WholeInv
<1>7. ChatTyped' /\ TurnInv' /\ GatesInv'
  BY <1>1, <1>3, <1>4 DEF ChatTyped, TurnInv, GatesInv, PaneFields
<1> QED
  BY <1>6, <1>7 DEF ChatInv

LEMMA TailFields ==
  ASSUME NEW S, NEW events \in Seq(S), events # <<>>, NEW N, N = Len(events)
  PROVE  /\ N \in Nat /\ N >= 1 /\ Head(events) = events[1]
         /\ Tail(events) \in Seq(S) /\ Len(Tail(events)) = N - 1
         /\ \A n \in 1 .. N - 1 : Tail(events)[n] = events[n + 1]
         /\ N = 1 => Tail(events) = <<>>
         /\ N # 1 => Tail(events) # <<>>
<1>1. /\ N \in Nat /\ N >= 1 /\ Head(events) = events[1]
      /\ Tail(events) \in Seq(S) /\ Len(Tail(events)) = N - 1
      /\ \A n \in 1 .. N - 1 : Tail(events)[n] = events[n + 1]
  OBVIOUS
<1>2. Tail(events) = <<>> <=> Len(Tail(events)) = 0
  BY <1>1, EmptySeq
<1> QED
  BY <1>1, <1>2

LEMMA ReceivedFields ==
  ASSUME NEW p, {"mounted", "parts", "busy", "whole"} \subseteq DOMAIN p, NEW new,
         NEW parts, NEW runId, NEW approval, NEW busy, NEW whole,
         new = [p EXCEPT !.parts = parts, !.runId = runId, !.approval = approval,
                         !.busy = busy, !.whole = whole]
  PROVE  /\ DOMAIN new = DOMAIN p /\ new.parts = parts /\ new.busy = busy
         /\ new.mounted = p.mounted /\ new.whole = whole
  OBVIOUS

\* One event less to read, and the pane is one event further.
LEMMA ReceiveOK ==
  ASSUME ChatInv, Receive, gate' = gate
  PROVE  ChatInv'
<1> DEFINE events == wire.events
           event == Head(events)
           over == event.type \in Over
           N == Len(events)
<1>1. /\ ChatTyped /\ TurnInv /\ GatesInv /\ PaneInv /\ UNCHANGED <<run, session>>
      /\ DOMAIN pane = PaneFields /\ wire \in WireRow /\ session \in SessionRow
  BY DEF ChatInv, ChatTyped, Receive, PaneFields
<1>2. wire.phase = "open" /\ events # <<>> /\ events \in Seq(EventRow)
  BY <1>1 DEF Receive, WireRow
<1>3. /\ pane' = [pane EXCEPT !.parts = Shown(@, event),
                              !.runId = @ \/ event.type = "run",
                              !.approval = @ \/ event.type = "approval_required",
                              !.busy = ~over,
                              !.whole = @ /\ event.type # "error"]
      /\ wire' = IF over THEN NoWire ELSE [wire EXCEPT !.events = Tail(events)]
  BY DEF Receive, Over
<1>4. /\ N \in Nat /\ N >= 1 /\ event = events[1]
      /\ Tail(events) \in Seq(EventRow) /\ Len(Tail(events)) = N - 1
      /\ \A n \in 1 .. N - 1 : Tail(events)[n] = events[n + 1]
      /\ N = 1 => Tail(events) = <<>>
      /\ N # 1 => Tail(events) # <<>>
  BY <1>2, TailFields
<1> HIDE DEF over
<1>5. /\ DOMAIN pane' = PaneFields /\ pane'.parts = Shown(pane.parts, event)
      /\ pane'.busy = ~over /\ pane'.mounted = pane.mounted
      /\ pane'.whole = (pane.whole /\ event.type # "error")
  <2>1. /\ "parts" \in DOMAIN pane /\ "busy" \in DOMAIN pane /\ "mounted" \in DOMAIN pane
        /\ "whole" \in DOMAIN pane
    BY <1>1 DEF PaneFields
  <2> QED
    BY <1>1, <1>3, <2>1, ReceivedFields
<1>6. /\ over => wire' = NoWire
      /\ ~over => wire' \in WireRow /\ wire'.phase = "open" /\ wire'.events = Tail(events)
  BY <1>1, <1>2, <1>3, <1>4 DEF WireRow
<1>7. wire' \in WireRow
  BY <1>6, NoWireTyped
<1>8. ASSUME pane.whole, event.type # "error" PROVE WholeInv'
  <2>1. OpenInv
    BY <1>1, <1>2, <1>8 DEF PaneInv, WholeInv
  <2>2. session.pc # "begin"
    BY <1>2, <2>1 DEF OpenInv
  <2>3. \A to : Arrives(pane.parts, events, to) => Arrives(pane'.parts, Tail(events), to)
    BY <1>2, <1>5, ArrivesTail
  <2>4. CASE over
    <3>1. event.type = "done"
      BY <1>8, <2>4 DEF over, Over
    <3>2. N = 1 /\ session.pc = "off"
      BY <1>4, <2>1, <2>4 DEF OpenInv, over
    <3>3. LastType(events) = "done"
      BY <1>4, <3>1, <3>2 DEF LastType
    <3>4. PICK to : Arrives(pane.parts, events, to) /\ Agrees(to, run)
      BY <2>1, <3>2, <3>3 DEF OpenInv
    <3>5. Arrives(pane'.parts, <<>>, to)
      BY <1>4, <2>3, <3>2, <3>4
    <3>6. Agrees(pane'.parts, run)
      BY <3>4, <3>5, ArrivesNone
    <3> QED
      BY <1>1, <1>6, <2>4, <3>2, <3>6, NoWireTyped DEF WholeInv
  <2>5. CASE ~over
    <3> DEFINE rest == Tail(events)
    <3>1. \A n \in 1 .. N - 1 : rest[n].type \in Over => n = N - 1 /\ session.pc = "off"
      <4> TAKE n \in 1 .. N - 1
      <4>1. n + 1 \in 1 .. N /\ rest[n] = events[n + 1]
        BY <1>4
      <4>2. events[n + 1].type \in Over => n + 1 = N /\ session.pc = "off"
        BY <2>1, <4>1 DEF OpenInv
      <4> QED
        BY <1>4, <4>1, <4>2
    <3>2. ASSUME session.pc \in {"on", "parked"}
          PROVE  \E to : Arrives(pane'.parts, rest, to) /\ Live(to, run, session.segment)
      BY <2>1, <2>3, <3>2 DEF OpenInv
    <3>3. ASSUME session.pc = "off"
          PROVE  /\ rest # <<>> /\ LastType(rest) \in Over
                 /\ LastType(rest) = "done" =>
                      \E to : Arrives(pane'.parts, rest, to) /\ Agrees(to, run)
      <4>1. /\ LastType(events) \in Over
            /\ LastType(events) = "done" =>
                 \E to : Arrives(pane.parts, events, to) /\ Agrees(to, run)
        BY <2>1, <3>3 DEF OpenInv
      <4>2. N # 1
        BY <1>4, <2>5, <4>1 DEF LastType, over
      <4>3. N - 1 \in 1 .. N - 1 /\ N - 1 + 1 = N
        BY <1>4, <4>2
      <4>4. LastType(rest) = LastType(events)
        BY <1>4, <4>3 DEF LastType
      <4> QED
        BY <1>4, <2>3, <4>1, <4>2, <4>4
    <3>5. ASSUME session.pc = "stopped"
          PROVE  \E to : Arrives(pane'.parts, rest, to) /\ Agrees(to, run)
      BY <2>1, <2>3, <3>5 DEF OpenInv
    <3>4. pane'.busy /\ Len(rest) = N - 1
      BY <1>4, <1>5, <2>5
    <3> HIDE DEF rest, N
    <3>6. OpenInv'
      BY <1>1, <1>6, <2>2, <2>5, <3>1, <3>2, <3>3, <3>4, <3>5 DEF OpenInv, rest
    <3> QED
      BY <1>6, <2>5, <3>6 DEF WholeInv
  <2> QED
    BY <2>4, <2>5
<1>9. PaneInv'
  <2>1. pane.mounted
    BY <1>1, <1>2 DEF PaneInv
  <2> QED
    BY <1>5, <1>8, <2>1 DEF PaneInv
<1>10. ChatTyped' /\ TurnInv' /\ GatesInv'
  BY <1>1, <1>5, <1>7 DEF ChatTyped, TurnInv, GatesInv, PaneFields
<1> QED
  BY <1>9, <1>10 DEF ChatInv

LEMMA ReadFailsOK ==
  ASSUME ChatInv, ReadFails, gate' = gate
  PROVE  ChatInv'
<1>1. /\ ChatTyped /\ TurnInv /\ GatesInv /\ PaneInv /\ UNCHANGED <<run, session>>
      /\ DOMAIN pane = PaneFields
      /\ wire' = NoWire /\ pane' = [pane EXCEPT !.busy = FALSE, !.whole = FALSE]
  BY DEF ChatInv, ChatTyped, ReadFails, PaneFields
<1>2. DOMAIN pane' = PaneFields /\ ~pane'.whole
  BY <1>1 DEF PaneFields
<1>3. wire' \in WireRow /\ wire'.phase = "idle"
  BY <1>1, NoWireTyped
<1>4. PaneInv'
  BY <1>2, <1>3 DEF PaneInv
<1>5. ChatTyped' /\ TurnInv' /\ GatesInv'
  BY <1>1, <1>2, <1>3 DEF ChatTyped, TurnInv, GatesInv, PaneFields
<1> QED
  BY <1>4, <1>5 DEF ChatInv

-----------------------------------------------------------------------------
(* A mount of the pane.                                                    *)

\* The feed that is built from the row agrees with it.
LEMMA FeedAgrees ==
  ASSUME TurnInv
  PROVE  Agrees(BuildRunFeed(run), run)
<1>1. Listed(run)
  BY DEF TurnInv, RowInv
<1>2. PICK order : Sorted(run, order)
  BY DEF TurnInv, RowInv
<1>3. BuildRunFeed(run) \in Seq(AnyPart)
  BY <1>1, <1>2, FeedListed
<1>4. /\ AllIds(BuildRunFeed(run), "tool") = Ids(Lists(run)["tool"])
      /\ AllIds(BuildRunFeed(run), "artifact") = Ids(Lists(run)["artifact"])
  BY <1>1, <1>2, FeedIds DEF Kind
<1> QED
  BY <1>3, <1>4 DEF Agrees, Lists

\* The feed of a run with no parts.
LEMMA NothingListed ==
  ASSUME Entries(run) = {}
  PROVE  BuildRunFeed(run) = <<>>
<1>1. Cardinality(Entries(run)) = 0
  BY FS_EmptySet
<1> QED
  BY <1>1 DEF BuildRunFeed

Fresh(new, status) ==
  /\ DOMAIN new = PaneFields
  /\ new.runId <=> status # None
  /\ new.parts = IF status = None THEN <<>> ELSE BuildRunFeed(run)
  /\ new.whole => session.pc = "off" /\ wire.phase \notin {"posting", "unread"}

\* The three mounts, and what is left of a pane that is gone.
LEMMA MountedFresh ==
  /\ \A status : Fresh(Mounted(status), status) /\ Mounted(status).mounted
  /\ Fresh(Unmounted, None)
<1>1. \A status : Fresh(Mounted(status), status) /\ Mounted(status).mounted
  BY DEF Fresh, Mounted, PaneFields
<1>2. \A p : Fresh(p, None) => Fresh([p EXCEPT !.mounted = FALSE], None)
  BY DEF Fresh, PaneFields
<1> QED
  BY <1>1, <1>2 DEF Unmounted

LEMMA DroppedOK ==
  /\ Dropped \in WireRow /\ Dropped.phase \in {"idle", "unread"}
  /\ Dropped.phase = "unread" <=> wire.phase \in {"posting", "unread"}
<1>1. NoWire \in WireRow /\ NoWire.phase = "idle"
  BY NoWireTyped
<1>2. /\ [NoWire EXCEPT !.phase = "unread"] \in WireRow
      /\ [NoWire EXCEPT !.phase = "unread"].phase = "unread"
  BY <1>1 DEF WireRow
<1> QED
  BY <1>1, <1>2 DEF Dropped

\* A mounted pane shows the row it resumes, and nothing of a row it does not.
LEMMA MountOK ==
  ASSUME ChatInv, NEW status, Fresh(pane', status),
         run' = run, session' = session, gate' = gate,
         wire' \in WireRow, wire'.phase \in {"idle", "unread"},
         wire'.phase = "unread" <=> wire.phase \in {"posting", "unread"}
  PROVE  ChatInv'
<1>1. ChatTyped /\ TurnInv /\ GatesInv
  BY DEF ChatInv
<1>2. ChatTyped' /\ TurnInv' /\ GatesInv'
  BY <1>1 DEF ChatTyped, TurnInv, GatesInv, Fresh, PaneFields
<1>3. ASSUME pane'.runId \/ run.status = "absent" PROVE Agrees(pane'.parts, run)
  <2>1. Agrees(BuildRunFeed(run), run)
    BY <1>1, FeedAgrees
  <2>2. CASE status = None
    <3>1. Entries(run) = {}
      BY <1>1, <1>3, <2>2 DEF Fresh, TurnInv
    <3> QED
      BY <2>1, <2>2, <3>1, NothingListed DEF Fresh
  <2>3. CASE status # None
    BY <2>1, <2>3 DEF Fresh
  <2> QED
    BY <2>2, <2>3
<1>4. pane'.whole => session'.pc = "off" /\ wire'.phase = "idle"
  BY DEF Fresh
<1>5. PaneInv'
  BY <1>3, <1>4 DEF PaneInv, WholeInv
<1> QED
  BY <1>2, <1>5 DEF ChatInv

LEMMA SameChat ==
  ASSUME ChatInv, UNCHANGED chatVars, gate' = gate
  PROVE  ChatInv'
BY DEF chatVars, ChatInv, ChatTyped, TurnInv, GatesInv, PaneInv, WholeInv, OpenInv

LEMMA RenderOK ==
  ASSUME ChatInv, NEW status, Render(status), run' = run, session' = session, gate' = gate
  PROVE  ChatInv'
<1>1. CASE UNCHANGED <<pane, wire>>
  BY <1>1 DEF ChatInv, ChatTyped, TurnInv, GatesInv, PaneInv, WholeInv, OpenInv
<1>2. CASE pane' = Mounted(status) /\ wire' = Dropped
  BY <1>2, MountedFresh, DroppedOK, MountOK
<1> QED
  BY <1>1, <1>2 DEF Render

\* The pane is mounted again, or gone.
LEMMA MountsOK ==
  ASSUME ChatInv, gate' = gate,
         \/ \E found \in BOOLEAN : Load(found)
         \/ SelectRun \/ NewChat \/ LeaveChat \/ EnterChat
  PROVE  ChatInv'
<1>1. ASSUME NEW found \in BOOLEAN, Load(found) PROVE ChatInv'
  BY <1>1, RenderOK DEF Load
<1>2. CASE SelectRun
  BY <1>2, RenderOK DEF SelectRun
<1>3. CASE NewChat
  <2>1. Fresh(pane', None)
    BY <1>3, MountedFresh DEF NewChat
  <2> QED
    BY <1>3, <2>1, DroppedOK, MountOK DEF NewChat
<1>4. CASE LeaveChat
  <2>1. Fresh(pane', None)
    BY <1>4, MountedFresh DEF LeaveChat
  <2> QED
    BY <1>4, <2>1, DroppedOK, MountOK DEF LeaveChat
<1>5. CASE EnterChat
  <2>1. Fresh(pane', None)
    BY <1>5, MountedFresh DEF EnterChat
  <2>2. wire' = wire /\ wire \in WireRow /\ wire.phase \in {"idle", "unread"}
    BY <1>5 DEF EnterChat, ChatInv, ChatTyped, PaneInv
  <2> QED
    BY <1>5, <2>1, <2>2, MountOK DEF EnterChat
<1> QED
  BY <1>1, <1>2, <1>3, <1>4, <1>5

-----------------------------------------------------------------------------
(* Every step.                                                             *)

LEMMA TurnStepOK ==
  ASSUME ChatInv, TurnStep
  PROVE  ChatInv'
<1>1. ChatTyped /\ TurnInv /\ GatesInv /\ PaneInv /\ gate' = gate
  BY DEF ChatInv, TurnStep, OnlyChat, deskVars
<1>2. run \in RunRow /\ session \in SessionRow
  BY <1>1 DEF ChatTyped
<1>3. ASSUME ChatTyped' /\ TurnInv' /\ PaneInv', run'.approvals = run.approvals,
             session.pc \notin {"parked", "off"}
      PROVE  ChatInv'
  BY <1>1, <1>3, NoneIsOpen, GatesStay DEF ChatInv
<1>4. /\ DOMAIN run = {"status", "messages", "toolCalls", "approvals", "artifacts"}
  BY <1>2 DEF RunRow
<1>5. CASE BeginTurn
  BY <1>1, <1>3, <1>4, <1>5, BeginTurnOK DEF BeginTurn
<1>6. CASE FinishTurn
  BY <1>1, <1>3, <1>4, <1>6, FinishTurnOK DEF FinishTurn, Working
<1>7. ASSUME NEW t \in Tool, FinishTool(t) PROVE ChatInv'
  BY <1>1, <1>3, <1>4, <1>7, FinishToolOK DEF FinishTool, Working
<1>8. CASE Speak
  BY <1>1, <1>3, <1>8, SpeakOK DEF Speak, Working
<1>9. CASE CrashTurn
  BY <1>1, <1>3, <1>4, <1>9, CrashTurnOK DEF CrashTurn, Working
<1>10. CASE RestartService
  <2>1. ChatTyped' /\ TurnInv' /\ PaneInv'
    BY <1>1, <1>10, RestartServiceOK
  <2>2. /\ run'.approvals = run.approvals
        /\ run' = run \/ run.status = "running"
    BY <1>4, <1>10 DEF RestartService
  <2>3. session'.pc = "off"
    BY <1>2, <1>10 DEF RestartService, SessionRow
  <2>4. GatesInv'
    BY <1>1, <2>2, <2>3, NoneIsOpen, GatesStay
  <2> QED
    BY <2>1, <2>4 DEF ChatInv
<1>11. ASSUME NEW t \in Tool, StartTool(t) PROVE ChatInv'
  BY <1>1, <1>3, <1>4, <1>11, StartToolOK DEF StartTool, Working
<1>12. ASSUME NEW a \in Artifact, SaveArtifact(a) PROVE ChatInv'
  BY <1>1, <1>3, <1>4, <1>12, SaveArtifactOK DEF SaveArtifact, Working
<1>13. CASE StopEarly
  BY <1>1, <1>3, <1>13, StopEarlyOK DEF StopEarly, Working
<1>14. CASE EndStopped
  BY <1>1, <1>3, <1>14, EndStoppedOK DEF EndStopped
<1> QED
  BY <1>5, <1>6, <1>7, <1>8, <1>9, <1>10, <1>11, <1>12, <1>13, <1>14 DEF TurnStep

LEMMA TabStepOK ==
  ASSUME ChatInv, ChatStep \/ Post \/ Read \/ Refresh
  PROVE  ChatInv'
<1>1. gate' = gate
  BY DEF ChatStep, Post, Read, Refresh, OnlyChat, deskVars
<1>2. CASE ChatStep
  BY <1>1, <1>2, SendOK, MountsOK, BreakStreamOK DEF ChatStep
<1>3. CASE Post
  BY <1>1, <1>3, AcceptChatOK, RefuseChatOK DEF Post, Answer
<1>4. CASE Read
  BY <1>1, <1>4, ReceiveOK, ReadFailsOK DEF Read
<1>5. CASE Refresh
  BY <1>1, <1>5, MountsOK DEF Refresh
<1> QED
  BY <1>2, <1>3, <1>4, <1>5

\* The rest of the console leaves the gates alone but for Raise and Approve.
LEMMA ElsewhereOK ==
  ASSUME ChatInv,
         \/ Decide \/ Page \/ Polls \/ Answers
         \/ \E g \in Gate, where \in Place : Returns(g, where)
         \/ \E g \in Gate : OtherRunStep(g)
         \/ LeaveSettings \/ Save \/ OtherTab \/ Timers \/ \E p \in Put : PutStep(p)
         \/ UNCHANGED vars
  PROVE  ChatInv'
<1>1. UNCHANGED chatVars
  BY DEF Decide, Page, Polls, PollBegins, Answers, PollEnds, Returns, OtherRunStep, LeaveSettings,
         Save, OtherTab, Timers, PutStep, OnlyDesk, OnlySettings, vars
<1>2. gate' = gate
  <2>1. CASE Decide
    BY <2>1 DEF Decide, PageDecide, ToastDecide
  <2>2. CASE Page
    BY <2>2 DEF Page, RunPagePoll, LeaveRunPage
  <2>3. CASE Polls
    BY <2>3 DEF Polls, PollBegins, PollRead
  <2>4. CASE Answers
    BY <2>4 DEF Answers, PollEnds, PollApply
  <2>5. ASSUME NEW g \in Gate, NEW where \in Place, Returns(g, where) PROVE gate' = gate
    BY <2>5 DEF Returns, Decided
  <2>6. CASE LeaveSettings \/ Save \/ OtherTab \/ Timers \/ \E p \in Put : PutStep(p)
    BY <2>6 DEF LeaveSettings, Save, OtherTab, Timers, PutStep, OnlySettings, deskVars
  <2>7. CASE UNCHANGED vars
    BY <2>7 DEF vars, deskVars
  <2>8. ASSUME NEW g \in Gate, OtherRunStep(g) PROVE gate' = gate
    BY <2>8 DEF OtherRunStep, SiblingGoesOn, SiblingAsks
  <2> QED
    BY <2>1, <2>2, <2>3, <2>4, <2>5, <2>6, <2>7, <2>8
<1> QED
  BY <1>1, <1>2, SameChat

LEMMA ChatNextOK ==
  ASSUME ChatInv, DeskInv, [Next]_vars
  PROVE  ChatInv'
<1>1. gate \in [Gate -> Decision \cup {"none", "open"}]
  BY DEF DeskInv
<1>2. CASE TurnStep
  BY <1>2, TurnStepOK
<1>3. CASE GoOn
  BY <1>3, GoOnOK
<1>4. CASE ChatStep \/ Post \/ Read \/ Refresh
  BY <1>4, TabStepOK
<1>5. ASSUME NEW g \in Gate, AskApproval(g) PROVE ChatInv'
  BY <1>1, <1>5, AskApprovalOK
<1>6. ASSUME NEW g \in Gate, OtherAsks(g) PROVE ChatInv'
  <2>1. Raise(g) /\ UNCHANGED <<run, session, wire, pane>>
    BY <1>6 DEF OtherAsks, OnlyDesk, chatVars
  <2>2. ChatTyped /\ TurnInv /\ GatesInv /\ PaneInv
    BY DEF ChatInv
  <2>3. GatesInv'
    BY <1>1, <2>1, <2>2, RaiseGates
  <2>4. ChatTyped' /\ TurnInv' /\ PaneInv'
    BY <2>1, <2>2 DEF ChatTyped, TurnInv, PaneInv, WholeInv, OpenInv
  <2> QED
    BY <2>3, <2>4 DEF ChatInv
<1>7. ASSUME NEW g \in Gate, OpenPage(g) PROVE ChatInv'
  <2>1. gate' = gate
    BY <1>7 DEF OpenPage, OpenRunPage, ViewRun
  <2>2. LeaveChat \/ UNCHANGED chatVars
    BY <1>7 DEF OpenPage, LeaveRoute
  <2> QED
    BY <2>1, <2>2, MountsOK, SameChat
<1>8. ASSUME NEW g \in Gate, NEW where \in Place, Serve(g, where) PROVE ChatInv'
  <2>1. CASE Approve(g, where) /\ Settle(g, where) /\ UNCHANGED <<session, wire, resume, pane>>
    BY <1>1, <2>1, ApproveOK
  <2>2. CASE OnlyDesk /\ (DecisionLost(g, where) \/ DecisionThrows(g, where))
    <3>1. UNCHANGED chatVars /\ gate' = gate
      BY <2>2 DEF OnlyDesk, DecisionLost, DecisionThrows
    <3> QED
      BY <3>1, SameChat
  <2> QED
    BY <1>8, <2>1, <2>2 DEF Serve
<1>9. CASE OpenSettingsPage
  <2>1. LeaveChat /\ gate' = gate
    BY <1>9 DEF OpenSettingsPage, deskVars
  <2> QED
    BY <2>1, MountsOK
<1>10. CASE \/ Decide \/ Page \/ Polls \/ Answers
            \/ \E g \in Gate, where \in Place : Returns(g, where)
            \/ \E g \in Gate : OtherRunStep(g)
            \/ LeaveSettings \/ Save \/ OtherTab \/ Timers \/ \E p \in Put : PutStep(p)
            \/ UNCHANGED vars
  BY <1>10, ElsewhereOK
<1> QED
  BY <1>2, <1>3, <1>4, <1>5, <1>6, <1>7, <1>8, <1>9, <1>10 DEF Next

LEMMA ChatInitOK == ChatInit => ChatInv
<1> SUFFICES ASSUME ChatInit PROVE ChatInv
  OBVIOUS
<1>1. <<>> \in Seq(AnyPart) /\ <<>> \in Seq(Nat)
  OBVIOUS
<1>2. run = NoRun /\ session = NoSession /\ wire = NoWire /\ pane = Mounted(None)
  BY DEF ChatInit
<1>3. /\ run \in RunRow /\ run.status = "absent"
      /\ \A kind \in Kind : Lists(run)[kind] = <<>>
      /\ run.approvals = <<>> /\ run.toolCalls = <<>>
  BY <1>1, <1>2 DEF NoRun, RunRow, Status, Lists, Kind
<1>4. Entries(run) = {}
  BY <1>3 DEF Entries
<1>5. /\ session \in SessionRow /\ session.pc = "off" /\ session.clock = 0
      /\ session.segment = <<>> /\ session.pending = {}
  BY <1>1, <1>2 DEF NoSession, SessionRow
<1>6. wire \in WireRow /\ wire.phase = "idle"
  BY <1>2, NoWireTyped
<1>7. Fresh(pane, None) /\ pane.mounted
  BY <1>2, MountedFresh
<1>8. ChatTyped
  BY <1>3, <1>5, <1>6, <1>7 DEF ChatTyped, Fresh, PaneFields
<1>9. Listed(run)
  <2>1. Lists(run) \in [Kind -> Seq(AnyPart)]
    BY <1>3 DEF RunRow, Lists, Kind
  <2>2. \A kind \in Kind : DOMAIN Lists(run)[kind] = {}
    BY <1>3
  <2> QED
    BY <2>1, <2>2 DEF Listed
<1>10. Sorted(run, <<>>)
  BY <1>4 DEF Sorted
<1>11. TurnInv
  BY <1>3, <1>4, <1>5, <1>9, <1>10 DEF TurnInv, RowInv
<1>12. GatesInv
  BY <1>3 DEF GatesInv
<1>13. Agrees(pane.parts, run)
  BY <1>4, <1>7, <1>11, FeedAgrees, NothingListed DEF Fresh
<1>14. PaneInv
  BY <1>5, <1>6, <1>7, <1>13 DEF PaneInv, WholeInv
<1> QED
  BY <1>8, <1>11, <1>12, <1>14 DEF ChatInv

\* The invariant of the chat is what FeedsAgree needs: a pane that is not
\* busy has no response to read.
LEMMA ChatAgrees == ChatInv => FeedsAgree
<1> SUFFICES ASSUME ChatInv, pane.whole, pane.runId, ~pane.busy
             PROVE  Rendered(pane.parts) = Rendered(BuildRunFeed(run))
  BY DEF FeedsAgree
<1>1. wire \in WireRow /\ PaneInv
  BY DEF ChatInv, ChatTyped
<1>2. wire.phase = "idle"
  BY <1>1 DEF PaneInv, WholeInv, OpenInv, WireRow
<1>3. Agrees(pane.parts, run)
  BY <1>1, <1>2 DEF PaneInv, WholeInv
<1>4. \A parts : Rendered(parts) = EndTurn(FeedOf(parts)).blocks
  BY DEF Rendered, GroupRunFeed, FeedOf
<1> QED
  BY <1>3, <1>4 DEF Agrees

(* A pane that read every stream to its end without an error shows, block  *)
(* for block, what the run page builds from the persisted run: the events  *)
(* of a turn of agents/base.py applied in order by readAgentStream give    *)
(* the same blocks as the sort of run-feed.ts, approvals aside and unless  *)
(* a turn stopped early while it spoke (StopEarly).                        *)
THEOREM FeedsAgreeHolds == Spec => []FeedsAgree
<1>1. Init => DeskInv /\ ChatInv
  BY DeskInitOK, ChatInitOK DEF Init
<1>2. DeskInv /\ ChatInv /\ [Next]_vars => (DeskInv /\ ChatInv)'
  <2> SUFFICES ASSUME DeskInv, ChatInv, [Next]_vars PROVE DeskInv' /\ ChatInv'
    OBVIOUS
  <2>1. DeskInv'
    BY DeskSteps, DeskStepOK
  <2>2. ChatInv'
    BY ChatNextOK
  <2> QED
    BY <2>1, <2>2
<1>3. DeskInv /\ ChatInv => FeedsAgree
  BY ChatAgrees
<1> QED
  BY <1>1, <1>2, <1>3, PTL DEF Spec

===============================================================================

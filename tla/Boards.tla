-------------------------------- MODULE Boards --------------------------------
(***************************************************************************)
(* The boards of the console, one tab: the overview, the on-call page, the *)
(* incident inbox, the runbooks and the scorecard.  A page shows what the  *)
(* last load of its loader brought.  A load is several reads, each at a    *)
(* moment of its own while agent-service, operators and failures go on; an *)
(* interval loads again, and does nothing while a load is on its way.      *)
(***************************************************************************)
EXTENDS Overview, OncallBoard, Handoffs, ExamBoard

CONSTANTS
  Start,   \* the pages a tab may start on
  MaxActs  \* bound: acts of operators, agents and the lab, and failures, by
           \* the page that is open

BoardPage == {"overview", "oncall", "incidents", "runbooks", "scorecard"}

Polled == {"overview", "oncall", "scorecard"}

ASSUME BoardsAssumption == Start \subseteq BoardPage /\ MaxActs \in [BoardPage -> Nat]

VARIABLES
  tab,      \* the page, a board or "run", and the id of its search
  loading,  \* a load is on its way
  got,      \* what it has brought so far
  shown,    \* what the page shows
  dark,     \* history of the load: planes that were down all through it
  lit,      \* planes that were up all through it
  steady,   \* incidents and runs that called for attention all through it
  acts

loadVars == <<loading, got, shown, dark, lit, steady>>

vars == <<recordVars, oncallVars, handoffVars, examVars, tab, loadVars, acts>>

NoData == <<>>

Init ==
  /\ RecordsInit /\ OncallInit /\ HandoffInit /\ ExamInit
  /\ \E page \in Start : tab = [page |-> page, id |-> None]
  /\ loading = FALSE /\ got = NoData /\ shown = NoData
  /\ dark = {} /\ lit = {} /\ steady = {}
  /\ acts = 0

\* what follows by itself, and what someone does or what goes wrong
Follows == UNCHANGED acts

Act ==
  /\ tab.page \in BoardPage /\ acts < MaxActs[tab.page]
  /\ acts' = acts + 1

-----------------------------------------------------------------------------
(* The loads.                                                              *)

\* what the overview is to say something about
Urgent ==
  {i \in ToSet(NewestFirst(opened, Recent)) : incident[i] = "open"} \cup
  {r \in ToSet(NewestFirst(begun, Recent)) : run[r].status \in LIVE_RUN_STATUSES}

Watching == loading /\ tab.page = "overview"

\* what stays as it was while a load of the overview is on its way
StaysSo ==
  IF Watching
  THEN /\ dark' = dark \ up'
       /\ lit' = lit \cap up'
       /\ steady' = steady \cap Urgent'
  ELSE UNCHANGED <<dark, lit, steady>>

Asks ==
  CASE tab.page = "overview" -> OverviewQuery \ DOMAIN got
    [] tab.page = "oncall" -> OncallAsks(tab.id, got)
    [] tab.page = "incidents" -> InboxAsks(tab.id, got)
    [] tab.page = "runbooks" -> {"runbooks"} \ DOMAIN got
    [] tab.page = "scorecard" -> {"examRuns", "examResults"} \ DOMAIN got

Answer(q) ==
  CASE tab.page = "overview" -> OverviewRead(q)
    [] tab.page = "oncall" -> OncallRead(q, tab.id, got)
    [] tab.page = "incidents" -> InboxRead(q, tab.id)
    [] tab.page = "runbooks" -> ListRunbooks
    [] tab.page = "scorecard" ->
         CASE ~AgentServiceReachable -> <<>>
           [] AgentServiceReachable /\ q = "examRuns" -> ListExamRuns
           [] OTHER -> ListExamResults

\* the first load of a page, and what its interval does
BeginLoad ==
  /\ ~loading /\ tab.page \in BoardPage
  /\ shown = NoData \/ tab.page \in Polled
  /\ loading' = TRUE
  /\ got' = NoData
  /\ dark' = IF tab.page = "overview" THEN Plane \ up ELSE {}
  /\ lit' = IF tab.page = "overview" THEN up ELSE {}
  /\ steady' = IF tab.page = "overview" THEN Urgent ELSE {}
  /\ Follows
  /\ UNCHANGED <<recordVars, oncallVars, handoffVars, examVars, tab, shown>>

ReadOne ==
  /\ loading
  /\ \E q \in Asks :
       got' = [x \in DOMAIN got \cup {q} |-> IF x = q THEN Answer(q) ELSE got[x]]
  /\ Follows
  /\ UNCHANGED <<recordVars, oncallVars, handoffVars, examVars, tab, loading, shown,
                 dark, lit, steady>>

\* everything is in; a panel without its incident is taken away
ApplyLoad ==
  /\ loading /\ Asks = {}
  /\ loading' = FALSE
  /\ shown' = got
  /\ got' = NoData
  /\ dark' = {} /\ lit' = {} /\ steady' = {}
  /\ IF tab.page = "oncall" /\ ~HasPanel(got) THEN PanelGone ELSE UNCHANGED oncallVars
  /\ Follows
  /\ UNCHANGED <<recordVars, handoffVars, examVars, tab>>

-----------------------------------------------------------------------------
(* The operator.                                                           *)

\* another page, or another incident of this one
Leave(page, id) ==
  /\ tab' = [page |-> page, id |-> id]
  /\ loading' = FALSE /\ got' = NoData /\ shown' = NoData
  /\ dark' = {} /\ lit' = {} /\ steady' = {}
  /\ PanelGone

\* what the rows of the page lead to
Linked ==
  CASE tab.page = "overview" /\ shown # NoData ->
         {IncidentLink(shown["incidents"][k]) : k \in DOMAIN shown["incidents"]}
    [] tab.page = "oncall" /\ shown # NoData ->
         {[page |-> "oncall", id |-> shown["feed"][k].id] : k \in DOMAIN shown["feed"]}
    [] tab.page = "incidents" /\ shown # NoData ->
         {[page |-> "incidents", id |-> shown["list"][k].id] : k \in DOMAIN shown["list"]}
    [] OTHER -> {}

Visit ==
  /\ \/ \E page \in Start \ {tab.page} : Leave(page, None)
     \/ \E link \in Linked \ {tab} : Leave(link.page, link.id)
  /\ Act /\ PageGone
  /\ UNCHANGED <<recordVars, examVars>>

Decide ==
  /\ tab.page = "oncall" /\ shown # NoData
  /\ \E decision \in Decision : PanelDecide(shown, decision)
  /\ Act
  /\ UNCHANGED <<recordVars, handoffVars, examVars, tab, loadVars>>

Hand ==
  /\ shown # NoData
  /\ \E p \in Press :
       \/ tab.page = "incidents" /\ \E i \in InboxOffers(shown) : StartAutoFix(p, i)
       \/ tab.page = "runbooks" /\ \E book \in shown["runbooks"] : RunWithExecutor(p, book)
  /\ Act
  /\ UNCHANGED <<oncallVars, examVars, tab, loadVars>>

-----------------------------------------------------------------------------
(* The calls of the pages.                                                 *)

Served ==
  /\ \E call \in calls : ServeDecision(call)
  /\ Follows /\ StaysSo
  /\ UNCHANGED <<handoffVars, examVars, tab, loading, got, shown>>

DecisionBack ==
  /\ DecisionReturns
  /\ Follows
  /\ UNCHANGED <<recordVars, handoffVars, examVars, tab, loadVars>>

Trigger ==
  /\ \E p \in Press :
       \/ Follows /\ LookUp(p)
       \/ Follows /\ \E r \in Run : TriggerRun(p, r, FALSE)
       \/ Act /\ \E r \in Run : TriggerRun(p, r, TRUE)
       \/ Act /\ TriggerFails(p)
  /\ StaysSo
  /\ UNCHANGED <<oncallVars, examVars, tab, loading, got, shown>>

Told ==
  /\ \E p \in Press : TellFailure(p) \/ TakeAccepted(p)
  /\ Follows
  /\ UNCHANGED <<oncallVars, examVars, tab, loadVars>>

\* to the page of the run, which is not a board
Gone ==
  /\ \E p \in Press : GoToRun(p)
  /\ Leave("run", None)
  /\ Follows
  /\ UNCHANGED examVars

-----------------------------------------------------------------------------
(* Everyone else.                                                          *)

\* the planes a page asks
Asked ==
  CASE tab.page = "overview" -> Plane
    [] tab.page \in {"oncall", "incidents"} -> {"records", "agents"}
    [] OTHER -> {"agents"}

\* bound: what the open page cannot show does not move
AgentsGoOn ==
  /\ "records" \in Asked
  /\ \/ /\ Follows
        /\ \E r \in Run : AwaitApproval(r) \/ ResumeApproved(r)
     \/ /\ Act
        /\ \/ \E i \in Incident : OpenIncident(i) \/ ResolveIncident(i)
           \/ \E r \in Run :
                \/ \E i \in Incident \cup {None} : StartRun(r, i)
                \/ AddApproval(r) \/ EndRun(r)
                \/ \E decision \in Decision : DecideGate(r, decision)
  /\ StaysSo
  /\ UNCHANGED <<oncallVars, handoffVars, examVars, tab, loading, got, shown>>

PlaneStep ==
  /\ \E p \in Asked : PlaneFails(p) \/ PlaneReturns(p)
  /\ Act /\ StaysSo
  /\ UNCHANGED <<oncallVars, handoffVars, examVars, tab, loading, got, shown>>

ExamStep ==
  /\ tab.page = "scorecard"
  /\ \E e \in Exam :
       \/ /\ Follows
          /\ \/ SetLabLock(e) \/ NewExamRun(e, TRUE, TRUE)
             \/ FinishExam(e, TRUE)
       \/ /\ Act
          /\ \/ TestLabLock(e) \/ KillRunner(e) \/ FinishExam(e, FALSE)
             \/ \E written \in BOOLEAN : AskGraded(e, written) \/ AskUngraded(e, written)
             \/ \E created \in BOOLEAN : NewExamRun(e, created, FALSE)
  /\ UNCHANGED <<recordVars, oncallVars, handoffVars, tab, loadVars>>

Next ==
  \/ BeginLoad \/ ReadOne \/ ApplyLoad
  \/ Visit \/ Decide \/ Hand
  \/ Served \/ DecisionBack \/ Trigger \/ Told \/ Gone
  \/ AgentsGoOn \/ PlaneStep \/ ExamStep

Spec == Init /\ [][Next]_vars

\* the intervals fire and reads come back; nothing else is promised
Fairness == WF_vars(BeginLoad) /\ WF_vars(ReadOne) /\ WF_vars(ApplyLoad)

FairSpec == Spec /\ Fairness

-----------------------------------------------------------------------------
(* Properties.                                                             *)

LoadEnds == loading /\ ~loading' /\ shown' # NoData

OnOverview == tab.page = "overview" /\ LoadEnds

\* "Nothing open." is never said over an incident that was open, or a run that
\* was live, all the while the page loaded, among the newest rows it asks for;
\* and a plane that was down all the while is named, one that was up is not.
\* A record store that came or went during the load may have answered the
\* probe and not the lists: then the sentence may be wrong.
QuietIsTrue ==
  [][OnOverview =>
       /\ "records" \in dark \cup lit =>
            (Headline(shown') = {Nothing} => steady = {})
       /\ dark \subseteq DependencyStrip(shown')
       /\ lit \cap DependencyStrip(shown') = {}]_vars

\* a run of the incident the operator looks at waits for a decision, and no
\* run of it asked later
Awaited(r) ==
  /\ tab = [page |-> "oncall", id |-> run[r].of] /\ run[r].of # None
  /\ "records" \in up
  /\ gate[r] = "open" /\ run[r].status # "ended"
  /\ \A k, n \in DOMAIN asked :
       (asked[k] = r /\ n > k /\ run[asked[n]].of = run[r].of) => gate[asked[n]] # "open"

\* An approval gate that stays the newest of the selected incident, with the
\* record store up, is on the panel sooner or later and stays there.
GateReachesIncident ==
  \A r \in Run : <>[]Awaited(r) => <>[](shown # NoData /\ PanelGate(shown) = r)

OnScorecard == tab.page = "scorecard" /\ shown # NoData

Cards(data) == BuildScorecard(data["examRuns"], data["examResults"])

Listed(data) == {data["examRuns"][k].id : k \in DOMAIN data["examRuns"]}

\* the same runs, and the same graded rows in whatever order
GradesAs(data, next) ==
  LET old == data["examResults"]
      new == next["examResults"]
  IN  /\ Listed(next) = Listed(data)
      /\ \E f \in Bijection(OnlyGraded(new), OnlyGraded(old)) :
           \A k \in OnlyGraded(new) : new[k] = old[f[k]]

\* A load of the scorecard that brings no new verdict changes no grade: a
\* question never asked, an alert that never fired and an unusable scenario
\* count neither for nor against the agent, in any figure of the page.
UngradedCostNothing ==
  [][(OnScorecard /\ LoadEnds /\ GradesAs(shown, shown')) =>
       /\ PooledAccuracy(Cards(shown')) = PooledAccuracy(Cards(shown))
       /\ TrendStrip(Cards(shown')) = TrendStrip(Cards(shown))
       /\ CriterionTotals(shown'["examResults"]) = CriterionTotals(shown["examResults"])]_vars

\* An exam the scorecard calls interrupted is not running: a later run proves
\* it, unless two runners tested the lock before either of them took it.
InterruptedIsOver ==
  (OnScorecard /\ ~raced) =>
    \A k \in DOMAIN Cards(shown) :
      RunLabel(Cards(shown), k) = "interrupted" => ~Alive(Cards(shown)[k].run.id)

\* a start of the panel on the screen is under way
UnderWay(p) ==
  press[p].here /\ press[p].state \in {"looking", "posting", "refused", "accepted"}

\* A panel has at most one start under way, and its button is disabled exactly
\* as long: the answer that an earlier panel waited for neither enables it nor
\* puts an error on it.
ButtonIsOwn ==
  /\ \A p, q \in Press : UnderWay(p) /\ UnderWay(q) => p = q
  /\ starting <=> \E p \in Press : UnderWay(p)
  /\ failed => \E p \in Press : press[p].here /\ press[p].state = "told"
===============================================================================

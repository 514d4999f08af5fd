---------------------------- MODULE IncidentLoop ----------------------------
(***************************************************************************)
(* The alert-to-incident loop of agent-service: the webhook ingress        *)
(* (app.py webhook_alerts), the on-call run with its verify-then-close     *)
(* step (agents/oncall.py), its approvals (context.py, hub.py and app.py   *)
(* approve), the escalation watcher (escalation.py) and the boot sequence  *)
(* (db.fail_orphaned_runs), over the Postgres tables they share.           *)
(*                                                                         *)
(* Every `await` on the database is one action: the handlers, the run      *)
(* tasks, the requests of operators and the watcher are coroutines of one  *)
(* event loop, so anything may happen between two awaits.  An action is    *)
(* the commit of a statement together with the code that follows it, where *)
(* nothing but the statement matters to anybody else; where the code that  *)
(* follows does (an approval's future) it is an action of its own, for     *)
(* another coroutine may run between the commit and its answer.  Time      *)
(* appears only as the state of a verify_deadline relative to now.         *)
(***************************************************************************)
EXTENDS Naturals, Sequences

CONSTANTS
  Key,             \* alert_key values (alertname/workload)
  Name,            \* alertnames, what grafana_active_alerts is asked about
  NameOf,          \* the alertname of a key
  Incident,        \* ids that new_id("inc") hands out
  Run,             \* ids that new_run hands out
  Approval,        \* ids that add_approval hands out
  Handler,         \* concurrently executing POST /webhook/alerts requests
  Operator,        \* operators, each of whom decides once (POST approve)
  MaxEscalations,  \* escalation.MAX_ESCALATIONS
  MaxFires,        \* bound: how often an alert starts firing
  MaxFaults,       \* bound: database errors and restarts of the process
  None             \* no id

ASSUME ConstantsAssumption ==
  /\ NameOf \in [Key -> Name]
  /\ MaxEscalations \in Nat
  /\ MaxFires \in Nat
  /\ MaxFaults \in Nat
  /\ None \notin Key \cup Incident \cup Run \cup Approval

VARIABLES
  inc,         \* table incidents
  feed,        \* table incident_alerts: the newest observation of an incident
  linked,      \* table incident_runs, oldest link first
  run,         \* table agent_runs: the status column
  remediated,  \* table incident_timeline: incidents with a 'remediation' row
  approval,    \* table agent_approvals
  future,      \* hub: the futures of make_approval
  post,        \* the requests of operators
  overruled,   \* history: runs whose row a decision settled under their session
  handler,     \* the webhook handlers
  task,        \* the asyncio tasks executing run_oncall
  watcher,     \* the watcher_loop task
  active,      \* Alertmanager: is the alert of a key firing now
  sent,        \* notifications on their way to the webhook
  fires, faults  \* what the bounds count

vars == <<inc, feed, linked, run, remediated, approval, future, post, overruled,
          handler, task, watcher, active, sent, fires, faults>>

gate   == <<approval, future, post, overruled>>
tables == <<inc, feed, linked, run, remediated, gate>>
world  == <<active, sent, fires>>

-----------------------------------------------------------------------------
(* Rows and coroutines.                                                    *)

IncidentRow ==
  [status : {"absent", "open", "resolved"}, key : Key \cup {None},
   escalations : Nat, deadline : {"unset", "ahead", "passed"},
   by : {"nobody", "webhook", "verified", "cleared"}]

NoIncident == [status |-> "absent", key |-> None, escalations |-> 0,
               deadline |-> "unset", by |-> "nobody"]

RunStatus == {"absent", "queued", "running", "awaiting_approval",
              "completed", "failed", "denied"}

\* what stands for no link is no status
ASSUME NoneAssumption == None \notin RunStatus

\* Mutant: a failed run counts as one that is still in flight.
InFlightAndFailed == {"queued", "running", "awaiting_approval", "failed"}

\* escalation._IN_FLIGHT_RUN_STATUSES
InFlightStatuses == {"queued", "running", "awaiting_approval"}

HandlerState ==
  [pc : {"idle", "lookup", "create", "refetch", "attachNew", "createRun",
         "link", "attach", "close"},
   key : Key \cup {None}, status : {"firing", "resolved"},
   inc : Incident \cup {None}, run : Run \cup {None}]

IdleHandler == [pc |-> "idle", key |-> None, status |-> "firing",
                inc |-> None, run |-> None]

ApprovalRow ==
  [run : Run \cup {None}, decision : {"absent", "null", "approved", "denied"},
   spent : BOOLEAN]

NoApproval == [run |-> None, decision |-> "absent", spent |-> FALSE]

PostState ==
  [pc : {"idle", "resolve", "settle", "done"}, approval : Approval \cup {None},
   decision : {"approved", "denied"}, recorded : BOOLEAN]

NoPost == [pc |-> "idle", approval |-> None, decision |-> "denied", recorded |-> FALSE]
Answered == [NoPost EXCEPT !.pc = "done"]

TaskState ==
  [pc : {"none", "begin", "session", "inserted", "announce", "parked", "resumed",
         "arming", "guard", "evidence", "query", "act", "end"},
   inc : Incident \cup {None}, approval : Approval \cup {None},
   outcome : {"completed", "failed"},
   decision : {"none", "remediated", "unremediated",
               "verify", "resolve", "deadline", "leave-open"}]

NoTask == [pc |-> "none", inc |-> None, approval |-> None,
           outcome |-> "completed", decision |-> "none"]

WatcherState ==
  [pc : {"sleep", "next", "state", "status", "bump", "arm", "createRun",
         "link"},
   due : SUBSET [inc : Incident, escalations : Nat],
   inc : Incident \cup {None}, escalations : Nat, firing : BOOLEAN,
   run : Run \cup {None}]

SleepingWatcher == [pc |-> "sleep", due |-> {}, inc |-> None,
                    escalations |-> 0, firing |-> FALSE, run |-> None]

Open(i) == inc[i].status = "open"

OpenFor(k) == {i \in Incident : Open(i) /\ inc[i].key = k}

\* models.new_id: ids are never reused; which fresh one is immaterial
NewIncident == CHOOSE i \in Incident : inc[i].status = "absent"
NewRun      == CHOOSE r \in Run : run[r] = "absent"
Unasked     == CHOOSE p \in Approval : approval[p].decision = "absent"

Live(r) == task[r].pc # "none"

\* grafana_active_alerts filters by alertname only, whatever the workload.
StillActive(k) == \E j \in Key : NameOf[j] = NameOf[k] /\ active[j]

\* Mutant: the two decisions that resolve an incident are swapped.
ClosingDecisionSwapped(wasRemediated, alertActive) ==
  IF wasRemediated THEN IF alertActive THEN "deadline" ELSE "resolve"
                   ELSE IF alertActive THEN "leave-open" ELSE "verify"

\* escalation.closing_decision
ClosingDecision(wasRemediated, alertActive) ==
  IF wasRemediated THEN IF alertActive THEN "deadline" ELSE "verify"
                   ELSE IF alertActive THEN "leave-open" ELSE "resolve"

\* db.latest_linked_run_status, None when there is no link
LatestLinkedStatus(i) ==
  IF linked[i] = <<>> THEN None ELSE run[linked[i][Len(linked[i])]]

\* Mutants: one escalation too many; a run in flight does not block.
EscalationDueOffByOne(escalations, firing, latest) ==
  escalations <= MaxEscalations /\ latest \notin InFlightStatuses /\ firing

EscalationDueAnyRun(escalations, firing, latest) ==
  escalations < MaxEscalations /\ firing

\* escalation.escalation_due.  The snapshot row is open and past its deadline
\* because due_incidents selected it; what is tested is the rest.
EscalationDue(escalations, firing, latest) ==
  /\ escalations < MaxEscalations
  /\ latest \notin InFlightStatuses
  /\ firing

Init ==
  /\ inc = [i \in Incident |-> NoIncident]
  /\ feed = [i \in Incident |-> "none"]
  /\ linked = [i \in Incident |-> <<>>]
  /\ run = [r \in Run |-> "absent"]
  /\ remediated = {}
  /\ approval = [p \in Approval |-> NoApproval]
  /\ future = [p \in Approval |-> "none"]
  /\ post = [o \in Operator |-> NoPost]
  /\ overruled = {}
  /\ handler = [h \in Handler |-> IdleHandler]
  /\ task = [r \in Run |-> NoTask]
  /\ watcher = SleepingWatcher
  /\ active = [k \in Key |-> FALSE]
  /\ sent = {}
  /\ fires = 0
  /\ faults = 0

-----------------------------------------------------------------------------
(* Alertmanager and Grafana: at-least-once, unordered notifications, a     *)
(* firing alert repeated for as long as it fires.                          *)

AlertFires(k) ==
  /\ ~active[k]
  /\ fires < MaxFires
  /\ active' = [active EXCEPT ![k] = TRUE]
  /\ sent' = sent \cup {<<k, "firing">>}
  /\ fires' = fires + 1
  /\ UNCHANGED <<tables, handler, task, watcher, faults>>

AlertClears(k) ==
  /\ active[k]
  /\ active' = [active EXCEPT ![k] = FALSE]
  /\ sent' = sent \cup {<<k, "resolved">>}
  /\ UNCHANGED <<tables, handler, task, watcher, fires, faults>>

AlertRepeats(k) ==
  /\ active[k]
  /\ <<k, "firing">> \notin sent
  /\ sent' = sent \cup {<<k, "firing">>}
  /\ UNCHANGED <<tables, handler, task, watcher, active, fires, faults>>

\* The deadline of a resolved incident is never read.
DeadlinePasses(i) ==
  /\ Open(i)
  /\ inc[i].deadline = "ahead"
  /\ inc' = [inc EXCEPT ![i].deadline = "passed"]
  /\ UNCHANGED <<feed, linked, run, remediated, gate, handler, task, watcher,
                 world, faults>>

-----------------------------------------------------------------------------
(* POST /webhook/alerts, one event.                                        *)

Receive(h, k, s) ==
  /\ handler[h].pc = "idle"
  /\ <<k, s>> \in sent
  /\ sent' = sent \ {<<k, s>>}
  /\ handler' = [handler EXCEPT ![h] =
                   [IdleHandler EXCEPT !.pc = "lookup", !.key = k, !.status = s]]
  /\ UNCHANGED <<tables, task, watcher, active, fires, faults>>

\* find_open_incident_by_key, then ingress_decision
LookupSpawn(h) ==
  /\ handler[h].pc = "lookup"
  /\ handler[h].status = "firing"
  /\ OpenFor(handler[h].key) = {}
  /\ handler' = [handler EXCEPT ![h].pc = "create"]
  /\ UNCHANGED <<tables, task, watcher, world, faults>>

LookupIgnore(h) ==
  /\ handler[h].pc = "lookup"
  /\ handler[h].status = "resolved"
  /\ OpenFor(handler[h].key) = {}
  /\ handler' = [handler EXCEPT ![h] = IdleHandler]
  /\ UNCHANGED <<tables, task, watcher, world, faults>>

GotoWith(h, label, i) ==
  handler' = [handler EXCEPT ![h] = [handler[h] EXCEPT !.pc = label, !.inc = i]]

LookupFound(h) ==
  /\ handler[h].pc = "lookup"
  /\ \E i \in OpenFor(handler[h].key) :
       GotoWith(h, "attach", i)
  /\ UNCHANGED <<tables, task, watcher, world, faults>>

\* Mutant: no unique index on the alert_key of open incidents.
CreateUnindexed(h) ==
  /\ handler[h].pc = "create"
  /\ \E i \in Incident : inc[i].status = "absent"
  /\ inc' = [inc EXCEPT ![NewIncident] =
                [NoIncident EXCEPT !.status = "open", !.key = handler[h].key]]
  /\ GotoWith(h, "attachNew", NewIncident)
  /\ UNCHANGED <<feed, linked, run, remediated, gate, task, watcher, world, faults>>

\* create_incident: ON CONFLICT (alert_key) WHERE status = 'open' DO NOTHING
CreateIncident(h) ==
  /\ handler[h].pc = "create"
  /\ OpenFor(handler[h].key) = {}
  /\ \E i \in Incident : inc[i].status = "absent"
  /\ inc' = [inc EXCEPT ![NewIncident] =
                [NoIncident EXCEPT !.status = "open", !.key = handler[h].key]]
  /\ GotoWith(h, "attachNew", NewIncident)
  /\ UNCHANGED <<feed, linked, run, remediated, gate, task, watcher, world, faults>>

\* Mutant: the index covers resolved incidents too.
ConflictWithResolved(h) ==
  /\ handler[h].pc = "create"
  /\ \E i \in Incident : inc[i].key = handler[h].key
  /\ handler' = [handler EXCEPT ![h].pc = "refetch"]
  /\ UNCHANGED <<tables, task, watcher, world, faults>>

CreateConflict(h) ==
  /\ handler[h].pc = "create"
  /\ OpenFor(handler[h].key) # {}
  /\ handler' = [handler EXCEPT ![h].pc = "refetch"]
  /\ UNCHANGED <<tables, task, watcher, world, faults>>

\* Mutant: the loser of the race investigates the winner's incident as well.
RefetchSpawns(h) ==
  /\ handler[h].pc = "refetch"
  /\ \E i \in OpenFor(handler[h].key) :
       GotoWith(h, "attachNew", i)
  /\ UNCHANGED <<tables, task, watcher, world, faults>>

RefetchFound(h) ==
  /\ handler[h].pc = "refetch"
  /\ \E i \in OpenFor(handler[h].key) :
       GotoWith(h, "attach", i)
  /\ UNCHANGED <<tables, task, watcher, world, faults>>

RefetchIgnore(h) ==
  /\ handler[h].pc = "refetch"
  /\ OpenFor(handler[h].key) = {}
  /\ handler' = [handler EXCEPT ![h] = IdleHandler]
  /\ UNCHANGED <<tables, task, watcher, world, faults>>

\* attach_alert: the observation is inserted whatever became of the incident
AttachObservation(h) ==
  feed' = [feed EXCEPT ![handler[h].inc] = handler[h].status]

AttachNew(h) ==
  /\ handler[h].pc = "attachNew"
  /\ AttachObservation(h)
  /\ handler' = [handler EXCEPT ![h].pc = "createRun"]
  /\ UNCHANGED <<inc, linked, run, remediated, gate, task, watcher, world, faults>>

\* Mutant: attaching a firing observation reopens the incident.
AttachReopens(h) ==
  /\ handler[h].pc = "attach"
  /\ handler[h].status = "firing"
  /\ AttachObservation(h)
  /\ inc' = [inc EXCEPT ![handler[h].inc].status = "open"]
  /\ handler' = [handler EXCEPT ![h] = IdleHandler]
  /\ UNCHANGED <<linked, run, remediated, gate, task, watcher, world, faults>>

AttachFiring(h) ==
  /\ handler[h].pc = "attach"
  /\ handler[h].status = "firing"
  /\ AttachObservation(h)
  /\ handler' = [handler EXCEPT ![h] = IdleHandler]
  /\ UNCHANGED <<inc, linked, run, remediated, gate, task, watcher, world, faults>>

AttachResolved(h) ==
  /\ handler[h].pc = "attach"
  /\ handler[h].status = "resolved"
  /\ AttachObservation(h)
  /\ handler' = [handler EXCEPT ![h].pc = "close"]
  /\ UNCHANGED <<inc, linked, run, remediated, gate, task, watcher, world, faults>>

\* what close_incident and mark_verified write
Resolved(row, by) == [row EXCEPT !.status = "resolved", !.by = by]

\* close_incident: UPDATE ... WHERE id = $1, whatever the row's status is
CloseByWebhook(h) ==
  /\ handler[h].pc = "close"
  /\ inc' = [inc EXCEPT ![handler[h].inc] = Resolved(@, "webhook")]
  /\ handler' = [handler EXCEPT ![h] = IdleHandler]
  /\ UNCHANGED <<feed, linked, run, remediated, gate, task, watcher, world, faults>>

\* new_run and create_run: the row is queued
CreateRun(h) ==
  /\ handler[h].pc = "createRun"
  /\ \E r \in Run : run[r] = "absent"
  /\ run' = [run EXCEPT ![NewRun] = "queued"]
  /\ handler' = [handler EXCEPT ![h] =
                   [handler[h] EXCEPT !.pc = "link", !.run = NewRun]]
  /\ UNCHANGED <<inc, feed, linked, remediated, gate, task, watcher, world, faults>>

\* link_run, and asyncio.create_task on the same line of control
StartTask(r, i) ==
  /\ linked' = [linked EXCEPT ![i] = Append(@, r)]
  /\ task' = [task EXCEPT ![r] = [NoTask EXCEPT !.pc = "begin", !.inc = i]]

LinkRun(h) ==
  /\ handler[h].pc = "link"
  /\ StartTask(handler[h].run, handler[h].inc)
  /\ handler' = [handler EXCEPT ![h] = IdleHandler]
  /\ UNCHANGED <<inc, feed, run, remediated, gate, watcher, world, faults>>

\* An exception answers 500 and the sender delivers the notification again.
HandlerFails(h) ==
  /\ handler[h].pc # "idle"
  /\ faults < MaxFaults
  /\ faults' = faults + 1
  /\ sent' = sent \cup {<<handler[h].key, handler[h].status>>}
  /\ handler' = [handler EXCEPT ![h] = IdleHandler]
  /\ UNCHANGED <<tables, task, watcher, active, fires>>

HandlerStep(h) ==
  \/ LookupSpawn(h) \/ LookupIgnore(h) \/ LookupFound(h)
  \/ CreateIncident(h) \/ CreateConflict(h)
  \/ RefetchFound(h) \/ RefetchIgnore(h)
  \/ AttachNew(h) \/ AttachFiring(h) \/ AttachResolved(h)
  \/ CloseByWebhook(h) \/ CreateRun(h) \/ LinkRun(h)

-----------------------------------------------------------------------------
(* The task of run r: run_oncall under _guard_run or escalation._guarded.  *)

Goto(r, label) == task' = [task EXCEPT ![r].pc = label]

\* ctx.begin; the alert banner, the pre-checks and the runbook match that
\* follow it read other systems and change none of these tables.
Begin(r) ==
  /\ task[r].pc = "begin"
  /\ run' = [run EXCEPT ![r] = "running"]
  /\ Goto(r, "session")
  /\ UNCHANGED <<inc, feed, linked, remediated, gate, handler, watcher, world, faults>>

-----------------------------------------------------------------------------
(* request_approval, one await at a time.                                  *)

Asks(r, label, p) ==
  task' = [task EXCEPT ![r] = [task[r] EXCEPT !.pc = label, !.approval = p]]

\* add_approval: the row,
InsertApproval(r) ==
  /\ task[r].pc = "session"
  /\ \E p \in Approval : approval[p].decision = "absent"
  /\ approval' = [approval EXCEPT ![Unasked] =
                    [run |-> r, decision |-> "null", spent |-> FALSE]]
  /\ Asks(r, "inserted", Unasked)
  /\ UNCHANGED <<inc, feed, linked, run, remediated, future, post, overruled, handler,
                 watcher, world, faults>>

\* the status,
SetAwaiting(r) ==
  /\ task[r].pc = "inserted"
  /\ run' = [run EXCEPT ![r] = "awaiting_approval"]
  /\ Goto(r, "announce")
  /\ UNCHANGED <<inc, feed, linked, remediated, gate, handler, watcher, world, faults>>

\* and, back in the coroutine, ev_approval and make_approval
Park(r) ==
  /\ task[r].pc = "announce"
  /\ future' = [future EXCEPT ![task[r].approval] = "parked"]
  /\ Goto(r, "parked")
  /\ UNCHANGED <<inc, feed, linked, run, remediated, approval, post, overruled, handler,
                 watcher, world, faults>>

\* The decision arrives.  A denial leaves the status at awaiting_approval while
\* the agent goes on;
Resume(r) ==
  /\ task[r].pc = "parked"
  /\ future[task[r].approval] \in {"approved", "denied"}
  /\ Asks(r, IF future[task[r].approval] = "approved" THEN "resumed" ELSE "session", None)
  /\ UNCHANGED <<tables, handler, watcher, world, faults>>

\* an approval writes it.
SetRunning(r) ==
  /\ task[r].pc = "resumed"
  /\ run' = [run EXCEPT ![r] = "running"]
  /\ Goto(r, "session")
  /\ UNCHANGED <<inc, feed, linked, remediated, gate, handler, watcher, world, faults>>

-----------------------------------------------------------------------------
(* POST /runs/{id}/approve.                                                *)

\* decide_approval: UPDATE ... WHERE decision IS NULL
PostDecide(o, p, d) ==
  /\ post[o].pc = "idle"
  /\ approval[p].decision # "absent"
  /\ approval' = [approval EXCEPT ![p].decision = IF @ = "null" THEN d ELSE @]
  /\ post' = [post EXCEPT ![o] =
       [pc |-> "resolve", approval |-> p, decision |-> d,
        recorded |-> approval[p].decision = "null"]]
  /\ UNCHANGED <<inc, feed, linked, run, remediated, future, overruled, handler, task,
                 watcher, world, faults>>

\* resolve_approval; a request neither recorded nor resolved changes nothing,
PostResolve(o) ==
  /\ post[o].pc = "resolve"
  /\ IF future[post[o].approval] = "parked"
     THEN /\ future' = [future EXCEPT ![post[o].approval] = post[o].decision]
          /\ post' = [post EXCEPT ![o] = Answered]
     ELSE /\ post' = [post EXCEPT ![o] =
                 IF post[o].recorded THEN [post[o] EXCEPT !.pc = "settle"] ELSE Answered]
          /\ UNCHANGED future
  /\ UNCHANGED <<inc, feed, linked, run, remediated, approval, overruled, handler, task,
                 watcher, world, faults>>

\* and where no future waited (not yet, or not any more) the decision settles
\* the row of the run, whether its session goes on or not.
PostSettle(o) ==
  /\ post[o].pc = "settle"
  /\ LET r == approval[post[o].approval].run
     IN /\ run' = [run EXCEPT ![r] =
                     IF post[o].decision = "approved" THEN "completed" ELSE "denied"]
        /\ overruled' = overruled \cup {q \in Run : q = r /\ Live(q)}
  /\ post' = [post EXCEPT ![o] = Answered]
  /\ UNCHANGED <<inc, feed, linked, remediated, approval, future, handler, task, watcher,
                 world, faults>>

PostFails(o) ==
  /\ post[o].pc = "settle"
  /\ faults < MaxFaults
  /\ faults' = faults + 1
  /\ post' = [post EXCEPT ![o] = Answered]
  /\ UNCHANGED <<inc, feed, linked, run, remediated, approval, future, overruled, handler,
                 task, watcher, world>>

PostStep(o) == PostResolve(o) \/ PostSettle(o)

-----------------------------------------------------------------------------
(* The rest of the session, and the closing step.                          *)

\* _record_remediation: the timeline row, then the deadline.  The execution
\* popped its dry run, so another one needs another approval.
RecordRemediation(r) ==
  /\ task[r].pc = "session"
  /\ \E p \in Approval :
       /\ approval[p].run = r /\ approval[p].decision = "approved" /\ ~approval[p].spent
       /\ approval' = [approval EXCEPT ![p].spent = TRUE]
  /\ remediated' = remediated \cup {task[r].inc}
  /\ Goto(r, "arming")
  /\ UNCHANGED <<inc, feed, linked, run, future, post, overruled, handler, watcher, world,
                 faults>>

ArmAfterRemediation(r) ==
  /\ task[r].pc = "arming"
  /\ inc' = [inc EXCEPT ![task[r].inc].deadline = "ahead"]
  /\ Goto(r, "session")
  /\ UNCHANGED <<feed, linked, run, remediated, gate, handler, watcher, world, faults>>

\* run_agent_session returns, or raises (AgentSessionError, a crash)
SessionEnds(r, outcome) ==
  /\ task[r].pc = "session"
  /\ task' = [task EXCEPT ![r] = [task[r] EXCEPT !.pc = "guard", !.outcome = outcome]]
  /\ UNCHANGED <<tables, handler, watcher, world, faults>>

\* _close_incident, one await at a time
CloseGuard(r) ==
  /\ task[r].pc = "guard"
  /\ Goto(r, IF Open(task[r].inc) THEN "evidence" ELSE "end")
  /\ UNCHANGED <<tables, handler, watcher, world, faults>>

Decided(r, label, decision) ==
  task' = [task EXCEPT ![r] = [task[r] EXCEPT !.pc = label, !.decision = decision]]

CloseEvidence(r) ==
  /\ task[r].pc = "evidence"
  /\ Decided(r, "query", IF task[r].inc \in remediated
                         THEN "remediated" ELSE "unremediated")
  /\ UNCHANGED <<tables, handler, watcher, world, faults>>

\* an error answer counts as an active alert
CloseQuery(r) ==
  /\ task[r].pc = "query"
  /\ \E answer \in {StillActive(inc[task[r].inc].key), TRUE} :
       Decided(r, "act", ClosingDecision(task[r].decision = "remediated", answer))
  /\ UNCHANGED <<tables, handler, watcher, world, faults>>

\* mark_verified: UPDATE ... WHERE id = $1, whatever the row's status is
CloseResolves(r) ==
  /\ task[r].pc = "act"
  /\ task[r].decision \in {"verify", "resolve"}
  /\ inc' = [inc EXCEPT ![task[r].inc] =
               Resolved(@, IF task[r].decision = "verify" THEN "verified" ELSE "cleared")]
  /\ Goto(r, "end")
  /\ UNCHANGED <<feed, linked, run, remediated, gate, handler, watcher, world, faults>>

Ensured(row) ==
  IF row.deadline = "unset" THEN [row EXCEPT !.deadline = "ahead"] ELSE row

\* Mutant: only a remediated incident gets a deadline.
CloseArmsRemediated(r) ==
  /\ task[r].pc = "act"
  /\ task[r].decision \in {"deadline", "leave-open"}
  /\ inc' = [inc EXCEPT ![task[r].inc] =
               IF task[r].decision = "deadline" THEN Ensured(@) ELSE @]
  /\ Goto(r, "end")
  /\ UNCHANGED <<feed, linked, run, remediated, gate, handler, watcher, world, faults>>

\* ensure_verify_deadline: COALESCE(verify_deadline, now + minutes)
CloseArms(r) ==
  /\ task[r].pc = "act"
  /\ task[r].decision \in {"deadline", "leave-open"}
  /\ inc' = [inc EXCEPT ![task[r].inc] = Ensured(@)]
  /\ Goto(r, "end")
  /\ UNCHANGED <<feed, linked, run, remediated, gate, handler, watcher, world, faults>>

\* ctx.end or ctx.fail; the task is over
End(r) ==
  /\ task[r].pc = "end"
  /\ run' = [run EXCEPT ![r] = task[r].outcome]
  /\ task' = [task EXCEPT ![r] = NoTask]
  /\ UNCHANGED <<inc, feed, linked, remediated, gate, handler, watcher, world, faults>>

\* A database error: before the `try` it ends the run without the closing
\* step; in the closing step it is swallowed; in ctx.end it becomes a failure.
TaskFails(r) ==
  /\ faults < MaxFaults
  /\ faults' = faults + 1
  /\ \/ /\ task[r].pc = "begin" \/ (task[r].pc = "end" /\ task[r].outcome = "completed")
        /\ task' = [task EXCEPT ![r] =
                      [task[r] EXCEPT !.pc = "end", !.outcome = "failed"]]
     \/ /\ task[r].pc \in {"guard", "evidence", "query", "act"}
        /\ task' = [task EXCEPT ![r].pc = "end"]
     \/ /\ task[r].pc \in {"inserted", "resumed", "arming"}
        /\ Asks(r, "session", None)
     \/ /\ task[r].pc = "end" /\ task[r].outcome = "failed"
        /\ task' = [task EXCEPT ![r] = NoTask]
  /\ UNCHANGED <<tables, handler, watcher, world>>

TaskStep(r) ==
  \/ Begin(r)
  \/ InsertApproval(r) \/ SetAwaiting(r) \/ Park(r) \/ Resume(r) \/ SetRunning(r)
  \/ RecordRemediation(r) \/ ArmAfterRemediation(r)
  \/ \E outcome \in {"completed", "failed"} : SessionEnds(r, outcome)
  \/ CloseGuard(r) \/ CloseEvidence(r) \/ CloseQuery(r)
  \/ CloseResolves(r) \/ CloseArms(r) \/ End(r)

-----------------------------------------------------------------------------
(* watcher_loop: one task, the incidents of a poll one after the other.    *)

\* the loop's locals are overwritten before they are read again
Continue == watcher' = [SleepingWatcher EXCEPT !.pc = "next", !.due = watcher.due]

Poll ==
  /\ watcher.pc = "sleep"
  /\ watcher' = [watcher EXCEPT !.pc = "next",
       !.due = {[inc |-> i, escalations |-> inc[i].escalations] :
                  i \in {j \in Incident : Open(j) /\ inc[j].deadline = "passed"}}]
  /\ UNCHANGED <<tables, handler, task, world, faults>>

Sleep ==
  /\ watcher.pc = "next"
  /\ watcher.due = {}
  /\ watcher' = SleepingWatcher
  /\ UNCHANGED <<tables, handler, task, world, faults>>

NextDue ==
  /\ watcher.pc = "next"
  /\ \E d \in watcher.due :
       watcher' = [watcher EXCEPT !.pc = "state", !.due = @ \ {d},
                     !.inc = d.inc, !.escalations = d.escalations]
  /\ UNCHANGED <<tables, handler, task, world, faults>>

\* alert_state: is the newest observation a firing one
ReadAlertState ==
  /\ watcher.pc = "state"
  /\ watcher' = [watcher EXCEPT !.pc = "status",
                                !.firing = (feed[watcher.inc] = "firing")]
  /\ UNCHANGED <<tables, handler, task, world, faults>>

\* latest_linked_run_status and escalation_due.  escalate's two early returns
\* cannot be taken: there is a firing observation, and it parsed before.
Decide ==
  /\ watcher.pc = "status"
  /\ IF EscalationDue(watcher.escalations, watcher.firing,
                      LatestLinkedStatus(watcher.inc))
     THEN watcher' = [watcher EXCEPT !.pc = "bump"]
     ELSE Continue
  /\ UNCHANGED <<tables, handler, task, world, faults>>

BumpEscalations ==
  /\ watcher.pc = "bump"
  /\ inc' = [inc EXCEPT ![watcher.inc].escalations = @ + 1]
  /\ watcher' = [watcher EXCEPT !.pc = "arm"]
  /\ UNCHANGED <<feed, linked, run, remediated, gate, handler, task, world, faults>>

SetVerifyDeadline ==
  /\ watcher.pc = "arm"
  /\ inc' = [inc EXCEPT ![watcher.inc].deadline = "ahead"]
  /\ watcher' = [watcher EXCEPT !.pc = "createRun"]
  /\ UNCHANGED <<feed, linked, run, remediated, gate, handler, task, world, faults>>

CreateEscalationRun ==
  /\ watcher.pc = "createRun"
  /\ \E r \in Run : run[r] = "absent"
  /\ run' = [run EXCEPT ![NewRun] = "queued"]
  /\ watcher' = [watcher EXCEPT !.pc = "link", !.run = NewRun]
  /\ UNCHANGED <<inc, feed, linked, remediated, gate, handler, task, world, faults>>

LinkEscalationRun ==
  /\ watcher.pc = "link"
  /\ StartTask(watcher.run, watcher.inc)
  /\ Continue
  /\ UNCHANGED <<inc, feed, run, remediated, gate, handler, world, faults>>

\* an exception is logged and the loop goes on with the next incident
WatcherFails ==
  /\ watcher.pc \notin {"sleep", "next"}
  /\ faults < MaxFaults
  /\ faults' = faults + 1
  /\ Continue
  /\ UNCHANGED <<tables, handler, task, world>>

WatcherStep ==
  \/ Poll \/ Sleep \/ NextDue \/ ReadAlertState \/ Decide
  \/ BumpEscalations \/ SetVerifyDeadline
  \/ CreateEscalationRun \/ LinkEscalationRun

-----------------------------------------------------------------------------
(* The process dies and starts again: every coroutine is gone, unanswered  *)
(* notifications are retried, and lifespan runs fail_orphaned_runs before  *)
(* anything else.                                                          *)

Restart ==
  /\ faults < MaxFaults
  /\ faults' = faults + 1
  /\ sent' = sent \cup {<<handler[h].key, handler[h].status>> :
                          h \in {g \in Handler : handler[g].pc # "idle"}}
  /\ handler' = [h \in Handler |-> IdleHandler]
  /\ task' = [r \in Run |-> NoTask]
  /\ watcher' = SleepingWatcher
  /\ run' = [r \in Run |-> IF run[r] = "running" THEN "failed" ELSE run[r]]
  /\ future' = [p \in Approval |-> "none"]
  /\ post' = [o \in Operator |-> IF post[o].pc = "idle" THEN NoPost ELSE Answered]
  /\ UNCHANGED <<inc, feed, linked, remediated, approval, overruled, active, fires>>

Next ==
  \/ \E k \in Key : AlertFires(k) \/ AlertClears(k) \/ AlertRepeats(k)
  \/ \E i \in Incident : DeadlinePasses(i)
  \/ \E h \in Handler, k \in Key, s \in {"firing", "resolved"} : Receive(h, k, s)
  \/ \E h \in Handler : HandlerStep(h) \/ HandlerFails(h)
  \/ \E r \in Run : TaskStep(r) \/ TaskFails(r)
  \/ \E o \in Operator, p \in Approval, d \in {"approved", "denied"} : PostDecide(o, p, d)
  \/ \E o \in Operator : PostStep(o) \/ PostFails(o)
  \/ WatcherStep \/ WatcherFails
  \/ Restart

Spec == Init /\ [][Next]_vars

-----------------------------------------------------------------------------
(* Safety.                                                                 *)

TypeOK ==
  /\ inc \in [Incident -> IncidentRow]
  /\ feed \in [Incident -> {"none", "firing", "resolved"}]
  /\ linked \in [Incident -> Seq(Run)]
  /\ run \in [Run -> RunStatus]
  /\ remediated \subseteq Incident
  /\ approval \in [Approval -> ApprovalRow]
  /\ future \in [Approval -> {"none", "parked", "approved", "denied"}]
  /\ post \in [Operator -> PostState]
  /\ overruled \subseteq Run
  /\ handler \in [Handler -> HandlerState]
  /\ task \in [Run -> TaskState]
  /\ watcher \in WatcherState
  /\ active \in [Key -> BOOLEAN]
  /\ sent \subseteq Key \X {"firing", "resolved"}
  /\ fires \in 0 .. MaxFires
  /\ faults \in 0 .. MaxFaults

\* "One alert, one brain, one incident": two deliveries that both saw no open
\* incident never leave two open incidents for one alert_key.
OneOpenPerKey ==
  \A i, j \in Incident :
    Open(i) /\ Open(j) /\ inc[i].key = inc[j].key => i = j

\* No incident is re-escalated more than MAX_ESCALATIONS times, although the
\* watcher compares the count of a row it read before several awaits.
EscalationsBounded ==
  \A i \in Incident : inc[i].escalations <= MaxEscalations

\* The runs an incident ever gets are its one investigation and one run per
\* counted escalation: no delivery, failure or restart buys it another.
RunsPaidFor ==
  \A i \in Incident : Len(linked[i]) <= 1 + inc[i].escalations

\* The watcher never piles a run on top of one that is still executing, except
\* where an operator's decision, having found no future, wrote a final status
\* over the one of the live session.
OneLiveRunPerIncident ==
  \A r, s \in Run :
    Live(r) /\ Live(s) /\ task[r].inc = task[s].inc
      => r = s \/ r \in overruled \/ s \in overruled

\* The closing step records "recovery verified" only for an incident whose
\* timeline shows that a remediation executed.
VerifiedWasRemediated ==
  \A i \in Incident : inc[i].by = "verified" => i \in remediated

\* What makes the invariants above inductive.  A coroutine only refers to rows
\* that exist;
RowsExist ==
  /\ \A h \in Handler :
       handler[h].pc \in {"attachNew", "createRun", "link", "attach", "close"}
         => handler[h].inc \in Incident /\ inc[handler[h].inc].status # "absent"
  /\ \A h \in Handler : handler[h].pc # "idle" => handler[h].key \in Key
  /\ \A h \in Handler : handler[h].pc = "link" => handler[h].run \in Run
  /\ \A r \in Run : Live(r) =>
       task[r].inc \in Incident /\ inc[task[r].inc].status # "absent"
  /\ watcher.pc \notin {"sleep", "next"} =>
       watcher.inc \in Incident /\ inc[watcher.inc].status # "absent"
  /\ watcher.pc = "link" => watcher.run \in Run
  /\ \A d \in watcher.due : inc[d.inc].status # "absent"

\* an incident that does not exist yet has no history;
FreshIsBlank ==
  \A i \in Incident : inc[i].status = "absent" =>
    inc[i] = NoIncident /\ linked[i] = <<>>

\* at most one handler is about to give an incident its investigation;
Investigating(h, i) ==
  handler[h].pc \in {"attachNew", "createRun", "link"} /\ handler[h].inc = i

OneInvestigator ==
  \A g, h \in Handler, i \in Incident :
    Investigating(g, i) /\ Investigating(h, i) => g = h

\* the runs already linked and the ones on their way are paid for;
Escalating(i) == watcher.pc \in {"arm", "createRun", "link"} /\ watcher.inc = i

Owed(i) == (IF \E h \in Handler : Investigating(h, i) THEN 1 ELSE 0)
             + (IF Escalating(i) THEN 1 ELSE 0)

RunsBudgeted ==
  \A i \in Incident : Len(linked[i]) + Owed(i) <= 1 + inc[i].escalations

\* and what the watcher read of an escalation count is still the count.
CountsFresh ==
  /\ \A d \in watcher.due : d.escalations = inc[d.inc].escalations
  /\ watcher.pc \notin {"sleep", "next"} =>
       \A d \in watcher.due : d.inc # watcher.inc
  /\ watcher.pc \in {"state", "status", "bump"} =>
       watcher.escalations = inc[watcher.inc].escalations
  /\ watcher.pc = "bump" => watcher.escalations < MaxEscalations

IInv ==
  /\ TypeOK /\ RowsExist /\ FreshIsBlank /\ OneInvestigator /\ RunsBudgeted
  /\ CountsFresh /\ OneOpenPerKey /\ EscalationsBounded

\* The row of the newest run says it is over, and so it is.  A row that a decision
\* settled may belong to a session that waits for that decision for ever.
NewestIsOver(i) ==
  /\ LatestLinkedStatus(i) \in {"completed", "failed", "denied"}
  /\ ~Live(linked[i][Len(linked[i])])

\* When the newest run of an open incident is over without a restart or a
\* database error, the incident has a deadline the watcher can find
\* (oncall.py:284-287), whoever wrote the run's status last.
SettledIsArmed ==
  faults = 0 =>
    \A i \in Incident : Open(i) /\ NewestIsOver(i) => inc[i].deadline # "unset"

\* The tables implement the abstract life cycle of an incident: the promise of
\* IncidentLifecycle holds of the rows, step by step.
Lifecycle == INSTANCE IncidentLifecycle WITH
  board <- [i \in Incident |->
              [status |-> inc[i].status, key |-> inc[i].key,
               escalations |-> inc[i].escalations, runs |-> Len(linked[i])]]

ImplementsLifecycle == Lifecycle!Spec

-----------------------------------------------------------------------------
(* Liveness.  The event loop runs every ready coroutine, sessions end      *)
(* (max_turns), time passes and a firing alert is repeated; nothing makes  *)
(* an operator answer or an alert fire or clear.                           *)

Progress(r) ==
  \/ Begin(r) \/ SetAwaiting(r) \/ Park(r) \/ Resume(r) \/ SetRunning(r)
  \/ ArmAfterRemediation(r)
  \/ \E outcome \in {"completed", "failed"} : SessionEnds(r, outcome)
  \/ CloseGuard(r) \/ CloseEvidence(r) \/ CloseQuery(r)
  \/ CloseResolves(r) \/ CloseArms(r) \/ End(r)

Fairness ==
  /\ \A k \in Key : WF_vars(AlertRepeats(k))
  /\ \A k \in Key, s \in {"firing", "resolved"} :
       SF_vars(\E h \in Handler : Receive(h, k, s))
  /\ \A i \in Incident : WF_vars(DeadlinePasses(i))
  /\ \A h \in Handler : WF_vars(HandlerStep(h))
  /\ \A r \in Run : WF_vars(Progress(r))
  /\ \A o \in Operator : WF_vars(PostStep(o))
  /\ WF_vars(WatcherStep)

FairSpec == Spec /\ Fairness

\* An alert that keeps firing has an open incident sooner or later, whatever
\* late or repeated notifications and failures did before (or the model has no
\* incident id left, which its bound on ids brings about).
FiringHasIncident ==
  \A k \in Key :
    active[k] ~> \/ ~active[k]
                 \/ OpenFor(k) # {}
                 \/ \A i \in Incident : inc[i].status # "absent"

\* a session of incident i waits for an operator, or a decision came before it
\* waited
Held(i) ==
  \E r \in Run :
    /\ task[r].inc = i
    /\ \/ task[r].pc = "parked" /\ approval[task[r].approval].decision = "null"
       \/ r \in overruled

\* An open incident whose alert keeps firing does not stay below the cap for
\* ever, unless an operator leaves an approval unanswered, answered it before
\* the session waited, or a failure took the deadline.
StillFiringIsEscalated ==
  \A i \in Incident :
    []<>~( /\ Open(i) /\ feed[i] = "firing"
           /\ inc[i].escalations < MaxEscalations
           /\ ~Held(i) /\ faults = 0 )

=============================================================================

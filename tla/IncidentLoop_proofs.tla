------------------------ MODULE IncidentLoop_proofs ------------------------
(***************************************************************************)
(* Proofs that the alert loop keeps its invariants, and implements the     *)
(* abstract life cycle of an incident, for every number of keys, incidents *)
(* (finitely or infinitely many), runs and concurrent handlers.            *)
(*                                                                         *)
(* The second half is about the runs of an incident: that two of them are  *)
(* live at once only where a decision overruled one, that an incident      *)
(* closed as verified was remediated, and that without a failure one whose *)
(* newest run is over is armed.                                            *)
(***************************************************************************)
EXTENDS IncidentLoop, TLAPS

\* The part of the inductive invariant besides the types.
Rest ==
  /\ RowsExist /\ FreshIsBlank /\ OneInvestigator /\ RunsBudgeted
  /\ CountsFresh /\ OneOpenPerKey /\ EscalationsBounded

-----------------------------------------------------------------------------
(* Types.                                                                  *)

LEMMA InitInv == Init => IInv
<1> SUFFICES ASSUME Init PROVE IInv
  OBVIOUS
<1>1. TypeOK
  BY ConstantsAssumption DEF Init, TypeOK, IncidentRow, NoIncident, RunStatus,
     HandlerState, IdleHandler, TaskState, NoTask, WatcherState, SleepingWatcher,
     ApprovalRow, NoApproval, PostState, NoPost
<1>2. RowsExist /\ OneInvestigator /\ CountsFresh
  BY DEF Init, RowsExist, OneInvestigator, CountsFresh, Investigating, Live,
     IdleHandler, NoTask, SleepingWatcher
<1>3. FreshIsBlank /\ RunsBudgeted /\ OneOpenPerKey /\ EscalationsBounded
  BY ConstantsAssumption
  DEF Init, FreshIsBlank, RunsBudgeted, OneOpenPerKey, EscalationsBounded, Owed,
      Investigating, Escalating, Open, NoIncident, IdleHandler, SleepingWatcher
<1> QED
  BY <1>1, <1>2, <1>3 DEF IInv

\* Setting a deadline keeps the rows in their type.
LEMMA DeadlineTypes ==
  ASSUME inc \in [Incident -> IncidentRow], NEW i, NEW d \in {"ahead", "passed"},
         inc' = [inc EXCEPT ![i] = [inc[i] EXCEPT !.deadline = d]]
  PROVE  inc' \in [Incident -> IncidentRow]
<1>1. \A row \in IncidentRow : [row EXCEPT !.deadline = d] \in IncidentRow
  BY DEF IncidentRow
<1> QED
  BY <1>1

LEMMA WorldTypes ==
  ASSUME TypeOK,
         NEW k \in Key, AlertFires(k) \/ AlertClears(k) \/ AlertRepeats(k)
  PROVE  TypeOK'
<1> USE DEF TypeOK, tables, gate
<1>1. CASE AlertFires(k)
  BY <1>1, ConstantsAssumption DEF AlertFires
<1>2. CASE AlertClears(k)
  BY <1>2 DEF AlertClears
<1>3. CASE AlertRepeats(k)
  BY <1>3 DEF AlertRepeats
<1> QED
  BY <1>1, <1>2, <1>3

LEMMA HandlerTypes ==
  ASSUME TypeOK, RowsExist,
         NEW h \in Handler, HandlerStep(h) \/ HandlerFails(h)
  PROVE  TypeOK'
<1>0. handler[h] \in HandlerState /\ IdleHandler \in HandlerState
  BY DEF TypeOK, HandlerState, IdleHandler
<1>1. CASE LookupSpawn(h)
  <2>1. [handler[h] EXCEPT !.pc = "create"] \in HandlerState
    BY <1>0 DEF HandlerState
  <2> QED
    BY <1>1, <2>1 DEF LookupSpawn, TypeOK, tables, gate, world
<1>2. CASE LookupIgnore(h)
  BY <1>2, <1>0 DEF LookupIgnore, TypeOK, tables, gate, world
<1>3. CASE LookupFound(h) \/ RefetchFound(h)
  <2>1. PICK i \in Incident : GotoWith(h, "attach", i)
    BY <1>3 DEF LookupFound, RefetchFound, OpenFor
  <2>2. [handler[h] EXCEPT !.pc = "attach", !.inc = i] \in HandlerState
    BY <1>0 DEF HandlerState
  <2> QED
    BY <1>3, <2>1, <2>2
    DEF LookupFound, RefetchFound, GotoWith, TypeOK, tables, gate, world
<1>4. CASE CreateIncident(h)
  <2>1. NewIncident \in Incident
    BY <1>4 DEF CreateIncident, NewIncident
  <2>2. [handler[h] EXCEPT !.pc = "attachNew", !.inc = NewIncident] \in HandlerState
    BY <1>0, <2>1 DEF HandlerState
  <2>3. [NoIncident EXCEPT !.status = "open", !.key = handler[h].key] \in IncidentRow
    BY <1>0 DEF HandlerState, IncidentRow, NoIncident
  <2> QED
    BY <1>4, <2>1, <2>2, <2>3 DEF CreateIncident, GotoWith, TypeOK, gate, world
<1>5. CASE CreateConflict(h)
  <2>1. [handler[h] EXCEPT !.pc = "refetch"] \in HandlerState
    BY <1>0 DEF HandlerState
  <2> QED
    BY <1>5, <2>1 DEF CreateConflict, TypeOK, tables, gate, world
<1>6. CASE RefetchIgnore(h)
  BY <1>6, <1>0 DEF RefetchIgnore, TypeOK, tables, gate, world
<1>7. feed \in [Incident -> {"none", "firing", "resolved"}] =>
        [feed EXCEPT ![handler[h].inc] = handler[h].status]
           \in [Incident -> {"none", "firing", "resolved"}]
  BY <1>0 DEF HandlerState
<1>8. CASE AttachNew(h)
  <2>1. [handler[h] EXCEPT !.pc = "createRun"] \in HandlerState
    BY <1>0 DEF HandlerState
  <2> QED
    BY <1>8, <1>7, <2>1 DEF AttachNew, AttachObservation, TypeOK, gate, world
<1>9. CASE AttachFiring(h)
  BY <1>9, <1>0, <1>7 DEF AttachFiring, AttachObservation, TypeOK, gate, world
<1>10. CASE AttachResolved(h)
  <2>1. [handler[h] EXCEPT !.pc = "close"] \in HandlerState
    BY <1>0 DEF HandlerState
  <2> QED
    BY <1>10, <1>7, <2>1 DEF AttachResolved, AttachObservation, TypeOK, gate, world
<1>11. CASE CloseByWebhook(h)
  <2>1. \A row \in IncidentRow : Resolved(row, "webhook") \in IncidentRow
    BY DEF IncidentRow, Resolved
  <2> QED
    BY <1>11, <1>0, <2>1 DEF CloseByWebhook, TypeOK, gate, world
<1>12. CASE CreateRun(h)
  <2>1. NewRun \in Run
    BY <1>12 DEF CreateRun, NewRun
  <2>2. [handler[h] EXCEPT !.pc = "link", !.run = NewRun] \in HandlerState
    BY <1>0, <2>1 DEF HandlerState
  <2> QED
    BY <1>12, <2>1, <2>2 DEF CreateRun, RunStatus, TypeOK, gate, world
<1>13. CASE LinkRun(h)
  <2>1. handler[h].run \in Run /\ handler[h].inc \in Incident
    BY <1>13 DEF LinkRun, RowsExist
  <2>2. [NoTask EXCEPT !.pc = "begin", !.inc = handler[h].inc] \in TaskState
    BY <2>1 DEF TaskState, NoTask
  <2> QED
    BY <1>13, <1>0, <2>1, <2>2 DEF LinkRun, StartTask, TypeOK, gate, world
<1>14. CASE HandlerFails(h)
  <2>1. handler[h].key \in Key
    BY <1>14 DEF HandlerFails, RowsExist
  <2>2. <<handler[h].key, handler[h].status>> \in Key \X {"firing", "resolved"}
    BY <1>0, <2>1 DEF HandlerState
  <2> QED
    BY <1>14, <1>0, <2>2, ConstantsAssumption DEF HandlerFails, TypeOK, tables, gate
<1> QED
  BY <1>1, <1>2, <1>3, <1>4, <1>5, <1>6, <1>8, <1>9, <1>10, <1>11, <1>12,
     <1>13, <1>14 DEF HandlerStep

LEMMA TaskTypes ==
  ASSUME TypeOK, RowsExist, NEW r \in Run, TaskStep(r) \/ TaskFails(r)
  PROVE  TypeOK'
<1>0. task[r] \in TaskState /\ NoTask \in TaskState
  BY DEF TypeOK, TaskState, NoTask
<1>g. \A label \in {"session", "announce", "parked", "arming", "evidence", "end"} :
        Goto(r, label) => task' \in [Run -> TaskState]
  <2> TAKE label \in {"session", "announce", "parked", "arming", "evidence", "end"}
  <2>1. [task[r] EXCEPT !.pc = label] \in TaskState
    BY <1>0 DEF TaskState
  <2> QED
    BY <2>1 DEF Goto, TypeOK
<1>d. \A label \in {"query", "act"},
         decision \in {"remediated", "unremediated", "verify", "resolve",
                      "deadline", "leave-open"} :
        Decided(r, label, decision) => task' \in [Run -> TaskState]
  <2> TAKE label \in {"query", "act"},
           decision \in {"remediated", "unremediated", "verify", "resolve",
                        "deadline", "leave-open"}
  <2>1. [task[r] EXCEPT !.pc = label, !.decision = decision] \in TaskState
    BY <1>0 DEF TaskState
  <2>2. task \in [Run -> TaskState]
    BY DEF TypeOK
  <2> QED
    BY <2>1, <2>2 DEF Decided
<1>a. \A label \in {"session", "inserted", "resumed"}, p \in Approval \cup {None} :
        Asks(r, label, p) => task' \in [Run -> TaskState]
  <2> TAKE label \in {"session", "inserted", "resumed"}, p \in Approval \cup {None}
  <2>1. [task[r] EXCEPT !.pc = label, !.approval = p] \in TaskState
    BY <1>0 DEF TaskState
  <2>2. task \in [Run -> TaskState]
    BY DEF TypeOK
  <2> QED
    BY <2>1, <2>2 DEF Asks
<1>1. CASE Begin(r) \/ SetAwaiting(r) \/ SetRunning(r)
  BY <1>1, <1>g DEF Begin, SetAwaiting, SetRunning, RunStatus, TypeOK, gate, world
<1>2. CASE InsertApproval(r)
  <2>1. Unasked \in Approval
    BY <1>2 DEF InsertApproval, Unasked
  <2>2. approval' \in [Approval -> ApprovalRow]
    BY <1>2 DEF InsertApproval, ApprovalRow, TypeOK
  <2>3. task' \in [Run -> TaskState]
    BY <1>2, <1>a, <2>1 DEF InsertApproval
  <2> QED
    BY <1>2, <2>2, <2>3 DEF InsertApproval, TypeOK, world
<1>3. CASE Park(r)
  <2>1. future' \in [Approval -> {"none", "parked", "approved", "denied"}]
    BY <1>3 DEF Park, TypeOK
  <2> QED
    BY <1>3, <1>g, <2>1 DEF Park, TypeOK, world
<1>4. CASE Resume(r)
  BY <1>4, <1>a DEF Resume, TypeOK, tables, gate, world
<1>5. CASE RecordRemediation(r)
  <2>1. task[r].inc \in Incident
    BY <1>5 DEF RecordRemediation, RowsExist, Live
  <2>2. PICK p \in Approval : approval' = [approval EXCEPT ![p].spent = TRUE]
    BY <1>5 DEF RecordRemediation
  <2>3. approval' \in [Approval -> ApprovalRow]
    <3>1. \A row \in ApprovalRow : [row EXCEPT !.spent = TRUE] \in ApprovalRow
      BY DEF ApprovalRow
    <3> QED
      BY <2>2, <3>1 DEF TypeOK
  <2> QED
    BY <1>5, <1>g, <2>1, <2>3 DEF RecordRemediation, TypeOK, world
<1>6. CASE ArmAfterRemediation(r)
  <2>1. inc' \in [Incident -> IncidentRow]
    BY <1>6, DeadlineTypes DEF ArmAfterRemediation, TypeOK
  <2> QED
    BY <1>6, <1>g, <2>1 DEF ArmAfterRemediation, TypeOK, gate, world
<1>7. ASSUME NEW outcome \in {"completed", "failed"}, SessionEnds(r, outcome)
      PROVE  TypeOK'
  <2>1. [task[r] EXCEPT !.pc = "guard", !.outcome = outcome] \in TaskState
    BY <1>0 DEF TaskState
  <2> QED
    BY <1>7, <2>1 DEF SessionEnds, TypeOK, tables, gate, world
<1>8. CASE CloseGuard(r)
  BY <1>8, <1>g DEF CloseGuard, TypeOK, tables, gate, world
<1>9. CASE CloseEvidence(r)
  BY <1>9, <1>d DEF CloseEvidence, TypeOK, tables, gate, world
<1>10. CASE CloseQuery(r)
  <2>1. PICK answer : Decided(r, "act", ClosingDecision(task[r].decision = "remediated", answer))
    BY <1>10 DEF CloseQuery
  <2>2. ClosingDecision(task[r].decision = "remediated", answer)
          \in {"verify", "resolve", "deadline", "leave-open"}
    BY DEF ClosingDecision
  <2> QED
    BY <1>10, <1>d, <2>1, <2>2 DEF CloseQuery, TypeOK, tables, gate, world
<1>11. CASE CloseResolves(r)
  <2>1. \A row \in IncidentRow, by \in {"verified", "cleared"} :
          Resolved(row, by) \in IncidentRow
    BY DEF IncidentRow, Resolved
  <2>2. inc' \in [Incident -> IncidentRow]
    BY <1>11, <2>1 DEF CloseResolves, TypeOK
  <2> QED
    BY <1>11, <1>g, <2>2 DEF CloseResolves, TypeOK, gate, world
<1>12. CASE CloseArms(r)
  <2>1. \A row \in IncidentRow : Ensured(row) \in IncidentRow
    BY DEF IncidentRow, Ensured
  <2>2. inc' \in [Incident -> IncidentRow]
    BY <1>12, <2>1 DEF CloseArms, TypeOK
  <2> QED
    BY <1>12, <1>g, <2>2 DEF CloseArms, TypeOK, gate, world
<1>13. CASE End(r)
  <2>1. run' \in [Run -> RunStatus]
    BY <1>13, <1>0 DEF End, RunStatus, TaskState, TypeOK
  <2> QED
    BY <1>13, <1>0, <2>1 DEF End, TypeOK, gate, world
<1>14. CASE TaskFails(r)
  <2>1. \A label \in {"session", "end"} :
          [task[r] EXCEPT !.pc = label] \in TaskState
    BY <1>0 DEF TaskState
  <2>2. [task[r] EXCEPT !.pc = "end", !.outcome = "failed"] \in TaskState
    BY <1>0 DEF TaskState
  <2>3. task' \in [Run -> TaskState]
    BY <1>14, <1>0, <1>a, <2>1, <2>2 DEF TaskFails, TypeOK
  <2> QED
    BY <1>14, <2>3, ConstantsAssumption DEF TaskFails, TypeOK, tables, gate, world
<1> QED
  BY <1>1, <1>2, <1>3, <1>4, <1>5, <1>6, <1>7, <1>8, <1>9, <1>10, <1>11,
     <1>12, <1>13, <1>14 DEF TaskStep

LEMMA PostTypes ==
  ASSUME TypeOK, NEW o \in Operator,
         \/ PostStep(o) \/ PostFails(o)
         \/ \E p \in Approval, d \in {"approved", "denied"} : PostDecide(o, p, d)
  PROVE  TypeOK'
<1>0. /\ post \in [Operator -> PostState] /\ NoPost \in PostState /\ Answered \in PostState
      /\ post[o] \in PostState
  BY DEF TypeOK, PostState, NoPost, Answered
<1>1. ASSUME NEW p \in Approval, NEW d \in {"approved", "denied"}, PostDecide(o, p, d)
      PROVE  TypeOK'
  <2>1. \A row \in ApprovalRow : [row EXCEPT !.decision = d] \in ApprovalRow
    BY DEF ApprovalRow
  <2>2. approval' \in [Approval -> ApprovalRow]
    BY <1>1, <2>1 DEF PostDecide, TypeOK, ApprovalRow
  <2>3. [pc |-> "resolve", approval |-> p, decision |-> d,
         recorded |-> approval[p].decision = "null"] \in PostState
    BY DEF PostState
  <2> QED
    BY <1>0, <1>1, <2>2, <2>3 DEF PostDecide, TypeOK, world
<1>2. CASE PostResolve(o)
  <2>1. [post[o] EXCEPT !.pc = "settle"] \in PostState
    BY <1>0 DEF PostState
  <2>2. post' \in [Operator -> PostState]
    BY <1>0, <1>2, <2>1 DEF PostResolve
  <2>3. post[o].decision \in {"approved", "denied"}
    BY <1>0 DEF PostState
  <2>4. future' \in [Approval -> {"none", "parked", "approved", "denied"}]
    BY <1>2, <2>3 DEF PostResolve, TypeOK
  <2> QED
    BY <1>2, <2>2, <2>4 DEF PostResolve, TypeOK, world
<1>3. CASE PostSettle(o)
  BY <1>0, <1>3 DEF PostSettle, TypeOK, RunStatus, world
<1>4. CASE PostFails(o)
  BY <1>0, <1>4, ConstantsAssumption DEF PostFails, TypeOK, world
<1> QED
  BY <1>1, <1>2, <1>3, <1>4 DEF PostStep

LEMMA WatcherTypes ==
  ASSUME TypeOK, RowsExist, WatcherStep \/ WatcherFails
  PROVE  TypeOK'
<1>0. watcher \in WatcherState /\ SleepingWatcher \in WatcherState
  BY DEF TypeOK, WatcherState, SleepingWatcher
<1>1. watcher' \in WatcherState
  <2>1. CASE Poll
    <3>1. {[inc |-> i, escalations |-> inc[i].escalations] :
             i \in {j \in Incident : Open(j) /\ inc[j].deadline = "passed"}}
            \in SUBSET [inc : Incident, escalations : Nat]
      BY DEF TypeOK, IncidentRow
    <3> QED
      BY <2>1, <3>1, <1>0 DEF Poll, WatcherState
  <2>2. CASE Sleep
    BY <2>2, <1>0 DEF Sleep
  <2>3. CASE NextDue
    <3>1. PICK d \in watcher.due :
            watcher' = [watcher EXCEPT !.pc = "state", !.due = @ \ {d},
                          !.inc = d.inc, !.escalations = d.escalations]
      BY <2>3 DEF NextDue
    <3>2. d \in [inc : Incident, escalations : Nat]
      BY <1>0 DEF WatcherState
    <3> QED
      BY <3>1, <3>2, <1>0 DEF WatcherState
  <2>4. CASE ReadAlertState
    BY <2>4, <1>0 DEF ReadAlertState, WatcherState
  <2>5. CASE Continue
    BY <2>5, <1>0 DEF Continue, WatcherState, SleepingWatcher
  <2>6. CASE Decide
    BY <2>5, <2>6, <1>0 DEF Decide, WatcherState
  <2>7. CASE BumpEscalations \/ SetVerifyDeadline
    BY <2>7, <1>0 DEF BumpEscalations, SetVerifyDeadline, WatcherState
  <2>8. CASE CreateEscalationRun
    <3>1. NewRun \in Run
      BY <2>8 DEF CreateEscalationRun, NewRun
    <3> QED
      BY <2>8, <3>1, <1>0 DEF CreateEscalationRun, WatcherState
  <2>9. CASE LinkEscalationRun \/ WatcherFails
    BY <2>5, <2>9 DEF LinkEscalationRun, WatcherFails
  <2> QED
    BY <2>1, <2>2, <2>3, <2>4, <2>6, <2>7, <2>8, <2>9 DEF WatcherStep
<1>2. CASE Poll \/ Sleep \/ NextDue \/ ReadAlertState \/ Decide
  BY <1>1, <1>2 DEF Poll, Sleep, NextDue, ReadAlertState, Decide, TypeOK,
                    tables, gate, world
<1>3. CASE BumpEscalations
  <2>1. \A row \in IncidentRow :
          [row EXCEPT !.escalations = row.escalations + 1] \in IncidentRow
    BY DEF IncidentRow
  <2>2. inc' = [inc EXCEPT ![watcher.inc] =
                 [inc[watcher.inc] EXCEPT !.escalations = inc[watcher.inc].escalations + 1]]
    BY <1>3 DEF BumpEscalations
  <2>3. inc' \in [Incident -> IncidentRow]
    BY <2>1, <2>2 DEF TypeOK
  <2> QED
    BY <1>1, <1>3, <2>3 DEF BumpEscalations, TypeOK, gate, world
<1>4. CASE SetVerifyDeadline
  <2>1. inc' \in [Incident -> IncidentRow]
    BY <1>4, DeadlineTypes DEF SetVerifyDeadline, TypeOK
  <2> QED
    BY <1>1, <1>4, <2>1 DEF SetVerifyDeadline, TypeOK, gate, world
<1>5. CASE CreateEscalationRun
  BY <1>1, <1>5 DEF CreateEscalationRun, RunStatus, TypeOK, gate, world
<1>6. CASE LinkEscalationRun
  <2>1. watcher.run \in Run /\ watcher.inc \in Incident
    BY <1>6 DEF LinkEscalationRun, RowsExist
  <2>2. [NoTask EXCEPT !.pc = "begin", !.inc = watcher.inc] \in TaskState
    BY <2>1 DEF TaskState, NoTask
  <2> QED
    BY <1>1, <1>6, <2>1, <2>2 DEF LinkEscalationRun, StartTask, TypeOK, gate, world
<1>7. CASE WatcherFails
  BY <1>1, <1>7, ConstantsAssumption DEF WatcherFails, TypeOK, tables, gate, world
<1> QED
  BY <1>2, <1>3, <1>4, <1>5, <1>6, <1>7 DEF WatcherStep

LEMMA TypeStep ==
  ASSUME TypeOK, RowsExist, [Next]_vars
  PROVE  TypeOK'
<1>1. ASSUME NEW i \in Incident, DeadlinePasses(i)
      PROVE  TypeOK'
  <2>1. inc' \in [Incident -> IncidentRow]
    BY <1>1, DeadlineTypes DEF DeadlinePasses, TypeOK
  <2> QED
    BY <1>1, <2>1 DEF DeadlinePasses, TypeOK, gate, world
<1>2. ASSUME NEW h \in Handler, NEW k \in Key, NEW s \in {"firing", "resolved"},
             Receive(h, k, s)
      PROVE  TypeOK'
  <2>1. [IdleHandler EXCEPT !.pc = "lookup", !.key = k, !.status = s] \in HandlerState
    BY DEF HandlerState, IdleHandler
  <2> QED
    BY <1>2, <2>1 DEF Receive, TypeOK, tables, gate
<1>3. CASE Restart
  <2>1. sent' \subseteq Key \X {"firing", "resolved"}
    BY <1>3 DEF Restart, TypeOK, HandlerState, RowsExist
  <2>2. post' \in [Operator -> PostState]
    BY <1>3 DEF Restart, PostState, NoPost, Answered
  <2>3. run' \in [Run -> RunStatus] /\ faults' \in 0 .. MaxFaults
    BY <1>3, ConstantsAssumption DEF Restart, TypeOK, RunStatus
  <2>4. /\ IdleHandler \in HandlerState /\ NoTask \in TaskState
        /\ SleepingWatcher \in WatcherState
    BY ConstantsAssumption
    DEF HandlerState, IdleHandler, TaskState, NoTask, WatcherState, SleepingWatcher
  <2> QED
    BY <1>3, <2>1, <2>2, <2>3, <2>4 DEF Restart, TypeOK
<1>5. CASE UNCHANGED vars
  BY <1>5 DEF vars, TypeOK
<1> QED
  BY <1>1, <1>2, <1>3, <1>5, WorldTypes, HandlerTypes, TaskTypes, PostTypes, WatcherTypes
  DEF Next

-----------------------------------------------------------------------------
(* The rest of the invariant.  Most steps only advance coroutines and touch *)
(* rows in ways the invariant does not notice: what that means, once.       *)

\* an incident keeps its key, its count and its existence, and never reopens
IncidentKept(i) ==
  /\ inc'[i].key = inc[i].key
  /\ inc'[i].escalations = inc[i].escalations
  /\ inc[i].status = "absent" => inc'[i] = inc[i]
  /\ inc[i].status # "absent" => inc'[i].status # "absent"
  /\ inc'[i].status = "open" => inc[i].status = "open"

\* a handler refers to existing rows, and begins no investigation
HandlerKept(h) ==
  /\ handler'[h].pc # "idle" => handler'[h].key \in Key
  /\ handler'[h].pc \in {"attachNew", "createRun", "link", "attach", "close"}
       => handler'[h].inc \in Incident /\ inc[handler'[h].inc].status # "absent"
  /\ handler'[h].pc = "link" => handler'[h].run \in Run
  /\ handler'[h].pc \in {"attachNew", "createRun", "link"} =>
       /\ handler[h].pc \in {"attachNew", "createRun", "link"}
       /\ handler'[h].inc = handler[h].inc

TaskKept(r) ==
  task'[r].pc # "none" => task[r].pc # "none" /\ task'[r].inc = task[r].inc

\* the watcher stays with its incident or leaves it
WatcherKept ==
  /\ watcher'.due \subseteq watcher.due
  /\ watcher'.pc \notin {"sleep", "next"} =>
       watcher.pc \notin {"sleep", "next"} /\ watcher'.inc = watcher.inc
  /\ watcher'.pc = "link" => watcher'.run \in Run
  /\ watcher'.pc \in {"state", "status", "bump"} =>
       /\ watcher.pc \in {"state", "status", "bump"}
       /\ watcher'.escalations = watcher.escalations
  /\ watcher'.pc = "bump" => watcher'.escalations < MaxEscalations
  /\ watcher'.pc \in {"arm", "createRun", "link"} =>
       watcher.pc \in {"arm", "createRun", "link"}

LEMMA UnchangedKept ==
  ASSUME IInv
  PROVE  /\ inc' = inc => \A i \in Incident : IncidentKept(i)
         /\ \A h \in Handler : handler'[h] = handler[h] => HandlerKept(h)
         /\ handler' = handler => \A h \in Handler : HandlerKept(h)
         /\ task' = task => \A r \in Run : TaskKept(r)
         /\ watcher' = watcher => WatcherKept
<1>1. inc' = inc => \A i \in Incident : IncidentKept(i)
  BY DEF IncidentKept
<1>2. \A h \in Handler : handler'[h] = handler[h] => HandlerKept(h)
  BY DEF HandlerKept, IInv, RowsExist
<1>3. watcher' = watcher => WatcherKept
  BY DEF WatcherKept, IInv, RowsExist, CountsFresh
<1>4. task' = task => \A r \in Run : TaskKept(r)
  BY DEF TaskKept
<1> QED
  BY <1>1, <1>2, <1>3, <1>4

LEMMA KeptRest ==
  ASSUME IInv, TypeOK', UNCHANGED linked,
         \A i \in Incident : IncidentKept(i),
         \A h \in Handler : HandlerKept(h),
         \A r \in Run : TaskKept(r),
         WatcherKept
  PROVE  Rest'
<1>1. RowsExist'
  <2>1. \A i \in Incident : inc[i].status # "absent" => inc'[i].status # "absent"
    BY DEF IncidentKept
  <2>2. \A d \in watcher.due : d.inc \in Incident
    BY DEF IInv, TypeOK, WatcherState
  <2>3. /\ \A h \in Handler :
             handler'[h].pc \in {"attachNew", "createRun", "link", "attach", "close"}
               => handler'[h].inc \in Incident /\ inc'[handler'[h].inc].status # "absent"
        /\ \A h \in Handler : handler'[h].pc # "idle" => handler'[h].key \in Key
        /\ \A h \in Handler : handler'[h].pc = "link" => handler'[h].run \in Run
    BY <2>1 DEF HandlerKept
  <2>4. \A r \in Run : task'[r].pc # "none" =>
          task'[r].inc \in Incident /\ inc'[task'[r].inc].status # "absent"
    BY <2>1 DEF TaskKept, IInv, RowsExist, Live
  <2>5. /\ watcher'.pc \notin {"sleep", "next"} =>
             watcher'.inc \in Incident /\ inc'[watcher'.inc].status # "absent"
        /\ watcher'.pc = "link" => watcher'.run \in Run
        /\ \A d \in watcher'.due : inc'[d.inc].status # "absent"
    BY <2>1, <2>2 DEF WatcherKept, IInv, RowsExist
  <2> QED
    BY <2>3, <2>4, <2>5 DEF RowsExist, Live
<1>2. FreshIsBlank'
  BY DEF FreshIsBlank, IncidentKept, IInv
<1>3. \A h \in Handler, i \in Incident : Investigating(h, i)' => Investigating(h, i)
  BY DEF HandlerKept, Investigating
<1>4. OneInvestigator'
  BY <1>3 DEF OneInvestigator, IInv
<1>5. \A i \in Incident : Escalating(i)' => Escalating(i)
  BY DEF WatcherKept, Escalating
<1>6. RunsBudgeted'
  <2> SUFFICES ASSUME NEW i \in Incident
               PROVE  Len(linked'[i]) + Owed(i)' <= 1 + inc'[i].escalations
    BY DEF RunsBudgeted
  <2>1. Len(linked[i]) + Owed(i) <= 1 + inc[i].escalations
    BY DEF RunsBudgeted, IInv
  <2>2. Owed(i) \in Nat /\ Owed(i)' \in Nat /\ Owed(i)' <= Owed(i)
    BY <1>3, <1>5 DEF Owed
  <2>3. inc'[i].escalations = inc[i].escalations
    BY DEF IncidentKept
  <2>4. Len(linked[i]) \in Nat /\ inc[i].escalations \in Nat
    BY DEF IInv, TypeOK, IncidentRow
  <2> QED
    BY <2>1, <2>2, <2>3, <2>4
<1>7. CountsFresh'
  <2>1. \A i \in Incident : inc'[i].escalations = inc[i].escalations
    BY DEF IncidentKept
  <2>2. \A d \in watcher.due : d.inc \in Incident
    BY DEF IInv, TypeOK, WatcherState
  <2>3. watcher.pc \notin {"sleep", "next"} => watcher.inc \in Incident
    BY DEF IInv, RowsExist
  <2> QED
    BY <2>1, <2>2, <2>3 DEF CountsFresh, WatcherKept, IInv
<1>8. OneOpenPerKey'
  BY DEF OneOpenPerKey, Open, IncidentKept, IInv
<1>9. EscalationsBounded'
  BY DEF EscalationsBounded, IncidentKept, IInv
<1> QED
  BY <1>1, <1>2, <1>4, <1>6, <1>7, <1>8, <1>9 DEF Rest

-----------------------------------------------------------------------------
(* The six steps that are noticed: an incident or an investigation begins, *)
(* an escalation is counted, or the watcher turns to an incident.          *)

LEMMA CreateIncidentRest ==
  ASSUME IInv, TypeOK', NEW h \in Handler, CreateIncident(h)
  PROVE  Rest'
<1> DEFINE n == NewIncident
<1>1. n \in Incident /\ inc[n].status = "absent"
  BY DEF CreateIncident, NewIncident
<1>2. /\ inc'[n] = [NoIncident EXCEPT !.status = "open", !.key = handler[h].key]
      /\ \A i \in Incident \ {n} : inc'[i] = inc[i]
  BY <1>1 DEF CreateIncident, IInv, TypeOK
<1>3. /\ inc'[n].status = "open" /\ inc'[n].key = handler[h].key
      /\ inc'[n].escalations = 0
  BY <1>2 DEF NoIncident
<1>4. /\ handler'[h].pc = "attachNew" /\ handler'[h].inc = n
      /\ handler'[h].key = handler[h].key
      /\ \A g \in Handler \ {h} : handler'[g] = handler[g]
  <2>1. handler' = [handler EXCEPT ![h] = [handler[h] EXCEPT !.pc = "attachNew", !.inc = n]]
    BY DEF CreateIncident, GotoWith
  <2> QED
    BY <2>1 DEF IInv, TypeOK, HandlerState
<1>5. UNCHANGED <<linked, run, task, watcher>> /\ OpenFor(handler[h].key) = {}
      /\ handler[h].pc = "create"
  BY DEF CreateIncident
<1>6. \A i \in Incident : inc[i].status # "absent" => i # n /\ inc'[i] = inc[i]
  BY <1>1, <1>2
<1>7. RowsExist'
  <2>1. \A g \in Handler :
          handler'[g].pc \in {"attachNew", "createRun", "link", "attach", "close"}
            => handler'[g].inc \in Incident /\ inc'[handler'[g].inc].status # "absent"
    BY <1>1, <1>3, <1>4, <1>6 DEF IInv, RowsExist
  <2>2. \A g \in Handler :
          /\ handler'[g].pc # "idle" => handler'[g].key \in Key
          /\ handler'[g].pc = "link" => handler'[g].run \in Run
    BY <1>4, <1>5 DEF IInv, RowsExist
  <2>3. \A d \in watcher.due : d.inc \in Incident
    BY DEF IInv, TypeOK, WatcherState
  <2> QED
    BY <1>5, <1>6, <2>1, <2>2, <2>3 DEF IInv, RowsExist, Live
<1>8. FreshIsBlank'
  BY <1>2, <1>3, <1>5 DEF IInv, FreshIsBlank
<1>9. \A g \in Handler : ~Investigating(g, n)
  BY <1>1 DEF IInv, RowsExist, Investigating
<1>10. \A g \in Handler, i \in Incident :
         Investigating(g, i)' <=> IF i = n THEN g = h ELSE Investigating(g, i)
  BY <1>4, <1>5, <1>9 DEF Investigating
<1>11. OneInvestigator'
  BY <1>10 DEF OneInvestigator, IInv
<1>12. RunsBudgeted'
  <2> SUFFICES ASSUME NEW i \in Incident
               PROVE  Len(linked'[i]) + Owed(i)' <= 1 + inc'[i].escalations
    BY DEF RunsBudgeted
  <2>1. Escalating(i)' = Escalating(i)
    BY <1>5 DEF Escalating
  <2>2. CASE i = n
    <3>1. linked[i] = <<>> /\ ~Escalating(i)
      BY <1>1, <2>2 DEF IInv, FreshIsBlank, RowsExist, Escalating
    <3>2. Owed(i)' <= 1 /\ Owed(i)' \in Nat
      BY <2>1, <3>1 DEF Owed
    <3> QED
      BY <1>3, <1>5, <2>2, <3>1, <3>2
  <2>3. CASE i # n
    <3>1. Owed(i)' = Owed(i)
      BY <1>10, <2>1, <2>3 DEF Owed
    <3> QED
      BY <1>2, <1>5, <2>3, <3>1 DEF IInv, RunsBudgeted
  <2> QED
    BY <2>2, <2>3
<1>13. CountsFresh'
  <2>1. \A d \in watcher.due : d.inc \in Incident /\ inc[d.inc].status # "absent"
    BY DEF IInv, TypeOK, WatcherState, RowsExist
  <2>2. watcher.pc \notin {"sleep", "next"} =>
          watcher.inc \in Incident /\ inc[watcher.inc].status # "absent"
    BY DEF IInv, RowsExist
  <2> QED
    BY <1>5, <1>6, <2>1, <2>2 DEF IInv, CountsFresh
<1>14. OneOpenPerKey'
  <2>1. \A i \in Incident : inc[i].status = "open" => inc[i].key # handler[h].key
    BY <1>5 DEF OpenFor, Open
  <2>2. \A i \in Incident : inc'[i].status = "open" /\ i # n
                           => inc[i].status = "open" /\ inc'[i].key = inc[i].key
                              /\ inc'[i].key # inc'[n].key
    BY <1>2, <1>3, <2>1
  <2>3. \A i, j \in Incident :
          inc[i].status = "open" /\ inc[j].status = "open" /\ inc[i].key = inc[j].key
            => i = j
    BY DEF IInv, OneOpenPerKey, Open
  <2> QED
    BY <2>2, <2>3 DEF OneOpenPerKey, Open
<1>15. EscalationsBounded'
  <2>1. \A i \in Incident :
          inc'[i].escalations = 0 \/ inc'[i].escalations = inc[i].escalations
    BY <1>2, <1>3
  <2>2. \A i \in Incident : inc[i].escalations <= MaxEscalations
    BY DEF IInv, EscalationsBounded
  <2> QED
    BY <2>1, <2>2, ConstantsAssumption DEF EscalationsBounded
<1> QED
  BY <1>7, <1>8, <1>11, <1>12, <1>13, <1>14, <1>15 DEF Rest

\* The task of run r begins on incident i, and nothing else refers to i's run.
LEMMA StartTaskRows ==
  ASSUME IInv, NEW r \in Run, NEW i \in Incident, StartTask(r, i)
  PROVE  /\ Len(linked'[i]) = Len(linked[i]) + 1
         /\ \A j \in Incident \ {i} : linked'[j] = linked[j]
         /\ task'[r].inc = i
         /\ \A q \in Run \ {r} : task'[q] = task[q]
<1>1. /\ linked'[i] = Append(linked[i], r)
      /\ \A j \in Incident \ {i} : linked'[j] = linked[j]
  BY DEF StartTask, IInv, TypeOK
<1>2. linked[i] \in Seq(Run)
  BY DEF IInv, TypeOK
<1>3. /\ task'[r] = [NoTask EXCEPT !.pc = "begin", !.inc = i]
      /\ \A q \in Run \ {r} : task'[q] = task[q]
  BY DEF StartTask, IInv, TypeOK
<1>4. task'[r].inc = i
  BY <1>3 DEF NoTask
<1>5. Len(linked'[i]) = Len(linked[i]) + 1
  BY <1>1, <1>2
<1> QED
  BY <1>1, <1>3, <1>4, <1>5

LEMMA LinkRunRest ==
  ASSUME IInv, TypeOK', NEW h \in Handler, LinkRun(h)
  PROVE  Rest'
<1> DEFINE n == handler[h].inc
           r == handler[h].run
<1>1. /\ n \in Incident /\ inc[n].status # "absent" /\ r \in Run
      /\ handler[h].pc = "link"
  BY DEF LinkRun, IInv, RowsExist
<1>2. /\ Len(linked'[n]) = Len(linked[n]) + 1
      /\ \A j \in Incident \ {n} : linked'[j] = linked[j]
      /\ task'[r].inc = n
      /\ \A q \in Run \ {r} : task'[q] = task[q]
  BY <1>1, StartTaskRows DEF LinkRun
<1>3. /\ handler'[h] = IdleHandler
      /\ \A g \in Handler \ {h} : handler'[g] = handler[g]
      /\ inc' = inc /\ watcher' = watcher
  BY DEF LinkRun, IInv, TypeOK
<1>4. RowsExist'
  BY <1>1, <1>2, <1>3 DEF IInv, RowsExist, Live, IdleHandler
<1>5. FreshIsBlank'
  BY <1>1, <1>2, <1>3 DEF IInv, FreshIsBlank
<1>6. \A g \in Handler, i \in Incident :
        Investigating(g, i)' <=> Investigating(g, i) /\ g # h
  BY <1>3 DEF Investigating, IdleHandler
<1>7. OneInvestigator'
  BY <1>6 DEF OneInvestigator, IInv
<1>8. RunsBudgeted'
  <2> SUFFICES ASSUME NEW i \in Incident
               PROVE  Len(linked'[i]) + Owed(i)' <= 1 + inc[i].escalations
    BY <1>3 DEF RunsBudgeted
  <2>1. Len(linked[i]) + Owed(i) <= 1 + inc[i].escalations
    BY DEF RunsBudgeted, IInv
  <2>2. Escalating(i)' = Escalating(i)
    BY <1>3 DEF Escalating
  <2>3. Len(linked[i]) \in Nat /\ inc[i].escalations \in Nat
    BY DEF IInv, TypeOK, IncidentRow
  <2>4. CASE i = n
    <3>1. Investigating(h, i) /\ \A g \in Handler : ~Investigating(g, i)'
      BY <1>1, <1>6, <2>4 DEF IInv, OneInvestigator, Investigating
    <3>2. Owed(i)' + 1 = Owed(i) /\ Owed(i)' \in Nat
      BY <2>2, <3>1 DEF Owed
    <3>3. Len(linked'[i]) = Len(linked[i]) + 1
      BY <1>2, <2>4, Zenon
    <3>4. Owed(i) \in Nat
      BY DEF Owed
    <3>5. Len(linked'[i]) + Owed(i)' = Len(linked[i]) + Owed(i)
      BY <2>3, <3>2, <3>3, <3>4
    <3> QED
      BY <2>1, <3>5
  <2>5. CASE i # n
    <3>1. Owed(i)' <= Owed(i) /\ Owed(i) \in Nat /\ Owed(i)' \in Nat
      BY <1>6, <2>2 DEF Owed
    <3>2. Len(linked'[i]) = Len(linked[i])
      BY <1>2, <2>5
    <3> QED
      BY <2>1, <2>3, <3>1, <3>2
  <2> QED
    BY <2>4, <2>5
<1>9. CountsFresh' /\ OneOpenPerKey' /\ EscalationsBounded'
  BY <1>3 DEF IInv, CountsFresh, OneOpenPerKey, EscalationsBounded, Open
<1> QED
  BY <1>4, <1>5, <1>7, <1>8, <1>9 DEF Rest

LEMMA LinkEscalationRest ==
  ASSUME IInv, TypeOK', LinkEscalationRun
  PROVE  Rest'
<1> DEFINE n == watcher.inc
           r == watcher.run
<1>1. /\ n \in Incident /\ inc[n].status # "absent" /\ r \in Run
      /\ watcher.pc = "link"
  BY DEF LinkEscalationRun, IInv, RowsExist
<1>2. /\ Len(linked'[n]) = Len(linked[n]) + 1
      /\ \A j \in Incident \ {n} : linked'[j] = linked[j]
      /\ task'[r].inc = n
      /\ \A q \in Run \ {r} : task'[q] = task[q]
  BY <1>1, StartTaskRows DEF LinkEscalationRun
<1>3. /\ watcher'.pc = "next" /\ watcher'.due = watcher.due
      /\ inc' = inc /\ handler' = handler
  BY DEF LinkEscalationRun, Continue, SleepingWatcher
<1>4. RowsExist'
  BY <1>1, <1>2, <1>3 DEF IInv, RowsExist, Live
<1>5. FreshIsBlank' /\ OneInvestigator'
  BY <1>1, <1>2, <1>3 DEF IInv, FreshIsBlank, OneInvestigator, Investigating
<1>6. RunsBudgeted'
  <2> SUFFICES ASSUME NEW i \in Incident
               PROVE  Len(linked'[i]) + Owed(i)' <= 1 + inc[i].escalations
    BY <1>3 DEF RunsBudgeted
  <2>1. Len(linked[i]) + Owed(i) <= 1 + inc[i].escalations
    BY DEF RunsBudgeted, IInv
  <2>2. \A h \in Handler : Investigating(h, i)' <=> Investigating(h, i)
    BY <1>3 DEF Investigating
  <2>3. Len(linked[i]) \in Nat /\ inc[i].escalations \in Nat
    BY DEF IInv, TypeOK, IncidentRow
  <2>4. (Escalating(i) <=> i = n) /\ ~Escalating(i)'
    BY <1>1, <1>3 DEF Escalating
  <2>5. /\ Owed(i) \in Nat /\ Owed(i)' \in Nat
        /\ i = n => Owed(i)' + 1 = Owed(i)
        /\ i # n => Owed(i)' = Owed(i)
    BY <2>2, <2>4 DEF Owed
  <2> QED
    BY <1>2, <2>1, <2>3, <2>5, SMTT(30)
<1>7. CountsFresh' /\ OneOpenPerKey' /\ EscalationsBounded'
  BY <1>3 DEF IInv, CountsFresh, OneOpenPerKey, EscalationsBounded, Open
<1> QED
  BY <1>4, <1>5, <1>6, <1>7 DEF Rest

LEMMA BumpRest ==
  ASSUME IInv, TypeOK', BumpEscalations
  PROVE  Rest'
<1> DEFINE n == watcher.inc
<1>1. /\ n \in Incident /\ inc[n].status # "absent"
      /\ inc[n].escalations < MaxEscalations
      /\ watcher.pc = "bump"
  BY DEF BumpEscalations, IInv, RowsExist, CountsFresh
<1>2. \A i \in Incident : inc[i] \in IncidentRow
  BY DEF IInv, TypeOK
<1>3. /\ inc' = [inc EXCEPT ![n] = [inc[n] EXCEPT !.escalations = inc[n].escalations + 1]]
      /\ inc \in [Incident -> IncidentRow]
  BY DEF BumpEscalations, IInv, TypeOK
<1>4. /\ \A i \in Incident \ {n} : inc'[i] = inc[i]
      /\ inc'[n].status = inc[n].status /\ inc'[n].key = inc[n].key
      /\ inc'[n].escalations = inc[n].escalations + 1
  BY <1>1, <1>2, <1>3 DEF IncidentRow
<1>5. /\ watcher'.pc = "arm" /\ watcher'.inc = n /\ watcher'.due = watcher.due
      /\ UNCHANGED <<linked, run, handler, task>>
  BY DEF BumpEscalations, IInv, TypeOK, WatcherState
<1>6. \A d \in watcher.due : d.inc \in Incident /\ d.inc # n
  BY <1>1 DEF IInv, TypeOK, WatcherState, CountsFresh
<1>7. \A i \in Incident :
        inc'[i].status = inc[i].status /\ inc'[i].key = inc[i].key
  BY <1>4
<1>8. RowsExist'
  BY <1>1, <1>5, <1>6, <1>7 DEF IInv, RowsExist, Live
<1>9. FreshIsBlank' /\ OneInvestigator'
  BY <1>1, <1>4, <1>5, <1>7 DEF IInv, FreshIsBlank, OneInvestigator, Investigating
<1>10. RunsBudgeted'
  <2> SUFFICES ASSUME NEW i \in Incident
               PROVE  Len(linked[i]) + Owed(i)' <= 1 + inc'[i].escalations
    BY <1>5 DEF RunsBudgeted
  <2>1. Len(linked[i]) + Owed(i) <= 1 + inc[i].escalations
    BY DEF RunsBudgeted, IInv
  <2>2. \A h \in Handler : Investigating(h, i)' <=> Investigating(h, i)
    BY <1>5 DEF Investigating
  <2>3. Len(linked[i]) \in Nat /\ inc[i].escalations \in Nat
    BY <1>2 DEF IInv, TypeOK, IncidentRow
  <2>4. ~Escalating(i) /\ (Escalating(i)' <=> i = n)
    BY <1>1, <1>5 DEF Escalating
  <2>5. /\ Owed(i) \in Nat /\ Owed(i)' \in Nat
        /\ i = n => Owed(i)' = Owed(i) + 1
        /\ i # n => Owed(i)' = Owed(i)
    BY <2>2, <2>4 DEF Owed
  <2>6. /\ i = n => inc'[i].escalations = inc[i].escalations + 1
        /\ i # n => inc'[i].escalations = inc[i].escalations
    BY <1>4, SMTT(30)
  <2>7. CASE i = n
    BY <2>1, <2>3, <2>5, <2>6, <2>7, SMTT(30)
  <2>8. CASE i # n
    BY <2>1, <2>3, <2>5, <2>6, <2>8
  <2> QED
    BY <2>7, <2>8
<1>11. CountsFresh'
  BY <1>4, <1>5, <1>6 DEF IInv, CountsFresh
<1>12. OneOpenPerKey'
  BY <1>7 DEF IInv, OneOpenPerKey, Open
<1>13. EscalationsBounded'
  BY <1>1, <1>2, <1>4, ConstantsAssumption DEF IInv, EscalationsBounded, IncidentRow
<1> QED
  BY <1>8, <1>9, <1>10, <1>11, <1>12, <1>13 DEF Rest

\* The watcher reads the due incidents, or takes one of them.
LEMMA WatcherTurnsRest ==
  ASSUME IInv, TypeOK', Poll \/ NextDue
  PROVE  Rest'
<1>1. UNCHANGED <<inc, linked, run, handler, task>>
  BY DEF Poll, NextDue, tables
<1>2. /\ \A d \in watcher'.due : /\ d.inc \in Incident
                                 /\ inc[d.inc].status # "absent"
                                 /\ d.escalations = inc[d.inc].escalations
      /\ watcher'.pc \in {"next", "state"}
      /\ watcher'.pc = "state" =>
           /\ watcher'.inc \in Incident /\ inc[watcher'.inc].status # "absent"
           /\ watcher'.escalations = inc[watcher'.inc].escalations
           /\ \A d \in watcher'.due : d.inc # watcher'.inc
  <2>1. CASE Poll
    <3>1. /\ watcher'.pc = "next"
          /\ watcher'.due =
               {[inc |-> i, escalations |-> inc[i].escalations] :
                  i \in {j \in Incident : Open(j) /\ inc[j].deadline = "passed"}}
      BY <2>1 DEF Poll, IInv, TypeOK, WatcherState
    <3>2. \A d \in watcher'.due :
            \E i \in Incident :
              /\ inc[i].status = "open"
              /\ d = [inc |-> i, escalations |-> inc[i].escalations]
      BY <3>1 DEF Open
    <3>3. \A d \in watcher'.due : /\ d.inc \in Incident
                                  /\ inc[d.inc].status # "absent"
                                  /\ d.escalations = inc[d.inc].escalations
      BY <3>2
    <3> QED
      BY <3>1, <3>3
  <2>2. CASE NextDue
    <3>1. PICK e \in watcher.due :
            watcher' = [watcher EXCEPT !.pc = "state", !.due = @ \ {e},
                          !.inc = e.inc, !.escalations = e.escalations]
      BY <2>2 DEF NextDue
    <3>2. /\ watcher'.pc = "state" /\ watcher'.due = watcher.due \ {e}
          /\ watcher'.inc = e.inc /\ watcher'.escalations = e.escalations
      BY <3>1 DEF IInv, TypeOK, WatcherState
    <3>3. watcher.due \subseteq [inc : Incident, escalations : Nat]
      BY DEF IInv, TypeOK, WatcherState
    <3>4. \A d \in watcher.due : /\ d.inc \in Incident
                                 /\ inc[d.inc].status # "absent"
                                 /\ d.escalations = inc[d.inc].escalations
      BY <3>3 DEF IInv, RowsExist, CountsFresh
    <3>5. \A d \in watcher.due : d.inc = e.inc => d = e
      BY <3>3, <3>4
    <3> QED
      BY <3>2, <3>4, <3>5
  <2> QED
    BY <2>1, <2>2
<1>3. RowsExist'
  BY <1>1, <1>2 DEF IInv, RowsExist, Live
<1>4. FreshIsBlank' /\ OneInvestigator' /\ OneOpenPerKey' /\ EscalationsBounded'
  BY <1>1 DEF IInv, FreshIsBlank, OneInvestigator, Investigating, OneOpenPerKey,
              EscalationsBounded, Open
<1>5. RunsBudgeted'
  <2> SUFFICES ASSUME NEW i \in Incident
               PROVE  Len(linked[i]) + Owed(i)' <= 1 + inc[i].escalations
    BY <1>1 DEF RunsBudgeted
  <2>1. Len(linked[i]) + Owed(i) <= 1 + inc[i].escalations
    BY DEF RunsBudgeted, IInv
  <2>2. Len(linked[i]) \in Nat /\ inc[i].escalations \in Nat
    BY DEF IInv, TypeOK, IncidentRow
  <2>3. ~Escalating(i)' /\ \A h \in Handler : Investigating(h, i)' <=> Investigating(h, i)
    BY <1>1, <1>2 DEF Escalating, Investigating
  <2>4. Owed(i) \in Nat /\ Owed(i)' \in Nat /\ Owed(i)' <= Owed(i)
    BY <2>3 DEF Owed
  <2> QED
    BY <2>1, <2>2, <2>4
<1>6. CountsFresh'
  BY <1>1, <1>2 DEF IInv, CountsFresh
<1> QED
  BY <1>3, <1>4, <1>5, <1>6 DEF Rest

-----------------------------------------------------------------------------
(* Every step.                                                             *)

LEMMA WorldRest ==
  ASSUME IInv, TypeOK',
         \/ \E k \in Key : AlertFires(k) \/ AlertClears(k) \/ AlertRepeats(k)
         \/ \E o \in Operator, p \in Approval, d \in {"approved", "denied"} :
              PostDecide(o, p, d)
         \/ \E o \in Operator : PostStep(o) \/ PostFails(o)
         \/ UNCHANGED vars
  PROVE  Rest'
<1>1. UNCHANGED <<inc, linked, handler, task, watcher>>
  BY DEF AlertFires, AlertClears, AlertRepeats, PostDecide, PostStep, PostResolve,
         PostSettle, PostFails, vars, tables
<1> QED
  BY <1>1, UnchangedKept, KeptRest

LEMMA DeadlineRest ==
  ASSUME IInv, TypeOK', NEW i \in Incident, DeadlinePasses(i)
  PROVE  Rest'
<1>1. UNCHANGED <<linked, handler, task, watcher>>
  BY DEF DeadlinePasses
<1>2. inc' = [inc EXCEPT ![i] = [inc[i] EXCEPT !.deadline = "passed"]]
  BY DEF DeadlinePasses
<1>3. \A j \in Incident : IncidentKept(j)
  BY <1>2 DEF DeadlinePasses, Open, IncidentKept, IInv, TypeOK, IncidentRow
<1> QED
  BY <1>1, <1>3, UnchangedKept, KeptRest

\* The steps of a handler other than CreateIncident and LinkRun.
LEMMA HandlerRest ==
  ASSUME IInv, TypeOK', NEW h \in Handler,
         \/ HandlerStep(h) \/ HandlerFails(h)
         \/ \E k \in Key, s \in {"firing", "resolved"} : Receive(h, k, s)
  PROVE  Rest'
<1>0. handler \in [Handler -> HandlerState]
  BY DEF IInv, TypeOK
<1>1. ASSUME handler' = [handler EXCEPT ![h] = handler'[h]], HandlerKept(h)
      PROVE  \A g \in Handler : HandlerKept(g)
  <2>1. \A g \in Handler : g # h => handler'[g] = handler[g]
    BY <1>0, <1>1
  <2> QED
    BY <1>1, <2>1, UnchangedKept
<1>2. handler[h].pc # "idle" => handler[h].key \in Key
  BY DEF IInv, RowsExist
<1>3. ASSUME handler' = [handler EXCEPT ![h] = IdleHandler]
      PROVE  \A g \in Handler : HandlerKept(g)
  <2>1. handler'[h] = IdleHandler
    BY <1>0, <1>3
  <2> QED
    BY <1>0, <1>1, <1>3, <2>1 DEF HandlerKept, IdleHandler
<1>4. ASSUME NEW label, handler' = [handler EXCEPT ![h].pc = label],
             handler[h].pc # "idle",
             \/ label \in {"create", "refetch"}
             \/ label = "createRun" /\ handler[h].pc = "attachNew"
             \/ label = "close" /\ handler[h].pc = "attach"
      PROVE  \A g \in Handler : HandlerKept(g)
  <2>1. /\ handler'[h].pc = label
        /\ handler'[h].key = handler[h].key /\ handler'[h].inc = handler[h].inc
        /\ handler' = [handler EXCEPT ![h] = handler'[h]]
    BY <1>0, <1>4 DEF HandlerState
  <2>2. handler[h].pc \in {"attachNew", "attach"} =>
          handler[h].inc \in Incident /\ inc[handler[h].inc].status # "absent"
    BY DEF IInv, RowsExist
  <2> QED
    BY <1>1, <1>2, <1>4, <2>1, <2>2 DEF HandlerKept
<1>5. CASE LookupSpawn(h) \/ CreateConflict(h)
  BY <1>4, <1>5, UnchangedKept, KeptRest
  DEF LookupSpawn, CreateConflict, tables
<1>6. CASE LookupIgnore(h) \/ RefetchIgnore(h) \/ AttachFiring(h) \/ HandlerFails(h)
  BY <1>3, <1>6, UnchangedKept, KeptRest
  DEF LookupIgnore, RefetchIgnore, AttachFiring, HandlerFails, tables
<1>7. CASE AttachNew(h) \/ AttachResolved(h)
  BY <1>4, <1>7, UnchangedKept, KeptRest DEF AttachNew, AttachResolved
<1>8. CASE LookupFound(h) \/ RefetchFound(h)
  <2>1. PICK i \in OpenFor(handler[h].key) : GotoWith(h, "attach", i)
    BY <1>8 DEF LookupFound, RefetchFound
  <2>2. /\ handler'[h].pc = "attach" /\ handler'[h].inc = i
        /\ handler'[h].key = handler[h].key
        /\ handler' = [handler EXCEPT ![h] = handler'[h]]
    BY <1>0, <2>1 DEF GotoWith, HandlerState
  <2>3. HandlerKept(h)
    BY <1>2, <1>8, <2>1, <2>2
    DEF LookupFound, RefetchFound, HandlerKept, OpenFor, Open
  <2> QED
    BY <1>1, <1>8, <2>2, <2>3, UnchangedKept, KeptRest
    DEF LookupFound, RefetchFound, tables
<1>9. CASE CreateRun(h)
  <2>1. NewRun \in Run
    BY <1>9 DEF CreateRun, NewRun
  <2>2. /\ handler'[h].pc = "link" /\ handler'[h].inc = handler[h].inc
        /\ handler'[h].key = handler[h].key /\ handler'[h].run = NewRun
        /\ handler' = [handler EXCEPT ![h] = handler'[h]]
    BY <1>0, <1>9 DEF CreateRun, HandlerState
  <2>3. HandlerKept(h)
    BY <1>2, <1>9, <2>1, <2>2 DEF CreateRun, HandlerKept, IInv, RowsExist
  <2> QED
    BY <1>1, <1>9, <2>2, <2>3, UnchangedKept, KeptRest DEF CreateRun
<1>10. CASE CloseByWebhook(h)
  <2>1. /\ handler[h].inc \in Incident /\ inc[handler[h].inc].status # "absent"
        /\ inc \in [Incident -> IncidentRow]
    BY <1>10 DEF CloseByWebhook, IInv, TypeOK, RowsExist
  <2>2. inc' = [inc EXCEPT ![handler[h].inc] = Resolved(inc[handler[h].inc], "webhook")]
    BY <1>10 DEF CloseByWebhook
  <2>3. \A i \in Incident : IncidentKept(i)
    BY <2>1, <2>2 DEF IncidentKept, Resolved, IncidentRow
  <2> QED
    BY <1>3, <1>10, <2>3, UnchangedKept, KeptRest DEF CloseByWebhook
<1>11. ASSUME NEW k \in Key, NEW s \in {"firing", "resolved"}, Receive(h, k, s)
       PROVE  Rest'
  <2>1. /\ handler' = [handler EXCEPT ![h] = handler'[h]]
        /\ handler'[h] = [IdleHandler EXCEPT !.pc = "lookup", !.key = k, !.status = s]
    BY <1>0, <1>11 DEF Receive
  <2>2. HandlerKept(h)
    BY <2>1 DEF HandlerKept, IdleHandler
  <2> QED
    BY <1>1, <1>11, <2>1, <2>2, UnchangedKept, KeptRest DEF Receive, tables
<1> QED
  BY <1>5, <1>6, <1>7, <1>8, <1>9, <1>10, <1>11, CreateIncidentRest, LinkRunRest
  DEF HandlerStep

LEMMA TaskRest ==
  ASSUME IInv, TypeOK', NEW r \in Run, TaskStep(r) \/ TaskFails(r)
  PROVE  Rest'
<1>0. task \in [Run -> TaskState] /\ inc \in [Incident -> IncidentRow]
  BY DEF IInv, TypeOK
<1>1. ASSUME \/ \E label : Goto(r, label)
             \/ \E label, decision : Decided(r, label, decision)
             \/ \E label, p : Asks(r, label, p)
             \/ \E label, outcome :
                  task' = [task EXCEPT ![r] = [task[r] EXCEPT !.pc = label,
                                                              !.outcome = outcome]],
             task[r].pc # "none"
      PROVE  \A q \in Run : TaskKept(q)
  <2>1. task'[r].inc = task[r].inc /\ \A q \in Run : q # r => task'[q] = task[q]
    BY <1>0, <1>1 DEF Goto, Decided, Asks, TaskState
  <2> QED
    BY <1>1, <2>1 DEF TaskKept
<1>2. ASSUME task' = [task EXCEPT ![r] = NoTask]
      PROVE  \A q \in Run : TaskKept(q)
  BY <1>0, <1>2 DEF TaskKept, NoTask
<1>3. ASSUME UNCHANGED <<linked, handler, watcher>>,
             \A i \in Incident : IncidentKept(i), \A q \in Run : TaskKept(q)
      PROVE  Rest'
  BY <1>3, UnchangedKept, KeptRest
<1>4. task[r].pc # "none" =>
        task[r].inc \in Incident /\ inc[task[r].inc].status # "absent"
  BY DEF IInv, RowsExist, Live
<1>5. CASE Begin(r) \/ SetAwaiting(r) \/ Park(r) \/ SetRunning(r) \/ RecordRemediation(r)
  BY <1>1, <1>3, <1>5, UnchangedKept
  DEF Begin, SetAwaiting, Park, SetRunning, RecordRemediation
<1>6. CASE CloseGuard(r) \/ InsertApproval(r) \/ Resume(r)
  BY <1>1, <1>3, <1>6, UnchangedKept DEF InsertApproval, Resume, CloseGuard, tables
<1>7. CASE CloseEvidence(r) \/ CloseQuery(r)
  BY <1>1, <1>3, <1>7, UnchangedKept DEF CloseEvidence, CloseQuery, tables
<1>8. ASSUME NEW outcome, SessionEnds(r, outcome)
      PROVE  Rest'
  BY <1>1, <1>3, <1>8, UnchangedKept DEF SessionEnds, tables
<1>9. CASE ArmAfterRemediation(r)
  <2>1. inc' = [inc EXCEPT ![task[r].inc] =
                  [inc[task[r].inc] EXCEPT !.deadline = "ahead"]]
    BY <1>9 DEF ArmAfterRemediation
  <2>2. \A i \in Incident : IncidentKept(i)
    BY <1>0, <1>4, <1>9, <2>1 DEF ArmAfterRemediation, IncidentKept, IncidentRow
  <2> QED
    BY <1>1, <1>3, <1>9, <2>2 DEF ArmAfterRemediation
<1>10. CASE CloseResolves(r)
  <2>1. \A by : \A row \in IncidentRow :
          /\ Resolved(row, by).key = row.key
          /\ Resolved(row, by).escalations = row.escalations
          /\ Resolved(row, by).status = "resolved"
    BY DEF Resolved, IncidentRow
  <2>2. task[r].inc \in Incident /\ inc[task[r].inc].status # "absent"
    BY <1>4, <1>10 DEF CloseResolves
  <2>3. \A i \in Incident : IncidentKept(i)
    BY <1>0, <1>10, <2>1, <2>2 DEF CloseResolves, IncidentKept
  <2> QED
    BY <1>1, <1>3, <1>10, <2>3 DEF CloseResolves
<1>11. CASE CloseArms(r)
  <2>1. \A row \in IncidentRow :
          /\ Ensured(row).key = row.key
          /\ Ensured(row).escalations = row.escalations
          /\ Ensured(row).status = row.status
    BY DEF Ensured, IncidentRow
  <2>2. task[r].inc \in Incident /\ inc[task[r].inc].status # "absent"
    BY <1>4, <1>11 DEF CloseArms
  <2>3. \A i \in Incident : IncidentKept(i)
    BY <1>0, <1>11, <2>1, <2>2 DEF CloseArms, IncidentKept
  <2> QED
    BY <1>1, <1>3, <1>11, <2>3 DEF CloseArms
<1>12. CASE End(r)
  BY <1>2, <1>3, <1>12, UnchangedKept DEF End
<1>13. CASE TaskFails(r)
  <2>1. UNCHANGED <<inc, linked, handler, watcher>>
    BY <1>13 DEF TaskFails, tables
  <2>2. \A q \in Run : TaskKept(q)
    BY <1>1, <1>2, <1>13 DEF TaskFails, Goto
  <2> QED
    BY <1>3, <2>1, <2>2, UnchangedKept
<1> QED
  BY <1>5, <1>6, <1>7, <1>8, <1>9, <1>10, <1>11, <1>12, <1>13 DEF TaskStep

LEMMA WatcherRest ==
  ASSUME IInv, TypeOK', WatcherStep \/ WatcherFails
  PROVE  Rest'
<1>0. watcher \in WatcherState
  BY DEF IInv, TypeOK
<1>1. CASE Poll \/ NextDue
  BY <1>1, WatcherTurnsRest
<1>2. ASSUME Sleep \/ Continue
      PROVE  WatcherKept
  <2>1. CASE Sleep
    BY <2>1 DEF Sleep, SleepingWatcher, WatcherKept
  <2>2. CASE Continue
    <3>1. watcher'.pc = "next" /\ watcher'.due = watcher.due
      BY <2>2 DEF Continue, SleepingWatcher
    <3> QED
      BY <3>1 DEF WatcherKept
  <2> QED
    BY <1>2, <2>1, <2>2
<1>3. CASE Sleep \/ WatcherFails
  BY <1>2, <1>3, UnchangedKept, KeptRest DEF Sleep, WatcherFails, tables
<1>4. CASE ReadAlertState
  <2>1. WatcherKept
    BY <1>0, <1>4 DEF ReadAlertState, WatcherKept, WatcherState
  <2> QED
    BY <1>4, <2>1, UnchangedKept, KeptRest DEF ReadAlertState, tables
<1>5. CASE Decide
  <2>1. ASSUME watcher' = [watcher EXCEPT !.pc = "bump"],
               watcher.escalations < MaxEscalations
        PROVE  WatcherKept
    BY <1>0, <1>5, <2>1 DEF Decide, WatcherKept, WatcherState
  <2>2. WatcherKept
    BY <1>2, <1>5, <2>1 DEF Decide, EscalationDue
  <2> QED
    BY <1>5, <2>2, UnchangedKept, KeptRest DEF Decide, tables
<1>6. CASE BumpEscalations
  BY <1>6, BumpRest
<1>7. CASE SetVerifyDeadline
  <2>1. WatcherKept
    BY <1>0, <1>7 DEF SetVerifyDeadline, WatcherKept, WatcherState
  <2>2. /\ inc' = [inc EXCEPT ![watcher.inc] =
                     [inc[watcher.inc] EXCEPT !.deadline = "ahead"]]
        /\ watcher.inc \in Incident /\ inc[watcher.inc].status # "absent"
        /\ inc \in [Incident -> IncidentRow]
    BY <1>7 DEF SetVerifyDeadline, IInv, TypeOK, RowsExist
  <2>3. \A i \in Incident : IncidentKept(i)
    BY <2>2 DEF IncidentKept, IncidentRow
  <2> QED
    BY <1>7, <2>1, <2>3, UnchangedKept, KeptRest DEF SetVerifyDeadline
<1>8. CASE CreateEscalationRun
  <2>1. NewRun \in Run
    BY <1>8 DEF CreateEscalationRun, NewRun
  <2>2. WatcherKept
    BY <1>0, <1>8, <2>1 DEF CreateEscalationRun, WatcherKept, WatcherState
  <2> QED
    BY <1>8, <2>2, UnchangedKept, KeptRest DEF CreateEscalationRun
<1>9. CASE LinkEscalationRun
  BY <1>9, LinkEscalationRest
<1> QED
  BY <1>1, <1>3, <1>4, <1>5, <1>6, <1>7, <1>8, <1>9 DEF WatcherStep

LEMMA RestartRest ==
  ASSUME IInv, TypeOK', Restart
  PROVE  Rest'
<1>1. UNCHANGED <<inc, linked>>
  BY DEF Restart
<1>2. \A h \in Handler : HandlerKept(h)
  BY DEF Restart, HandlerKept, IdleHandler
<1>3. \A r \in Run : TaskKept(r)
  BY DEF Restart, TaskKept, NoTask
<1>4. WatcherKept
  BY DEF Restart, WatcherKept, SleepingWatcher
<1> QED
  BY <1>1, <1>2, <1>3, <1>4, UnchangedKept, KeptRest

LEMMA InductiveStep == IInv /\ [Next]_vars => IInv'
<1> SUFFICES ASSUME IInv, [Next]_vars PROVE IInv'
  OBVIOUS
<1>1. TypeOK'
  BY TypeStep DEF IInv
<1>2. Rest'
  <2>1. CASE \E k \in Key : AlertFires(k) \/ AlertClears(k) \/ AlertRepeats(k)
    BY <1>1, <2>1, WorldRest
  <2>2. CASE \/ \E o \in Operator, p \in Approval, d \in {"approved", "denied"} :
                  PostDecide(o, p, d)
             \/ \E o \in Operator : PostStep(o) \/ PostFails(o)
             \/ UNCHANGED vars
    BY <1>1, <2>2, WorldRest
  <2>3. ASSUME NEW i \in Incident, DeadlinePasses(i) PROVE Rest'
    BY <1>1, <2>3, DeadlineRest
  <2>4. ASSUME NEW h \in Handler,
               \/ HandlerStep(h) \/ HandlerFails(h)
               \/ \E k \in Key, s \in {"firing", "resolved"} : Receive(h, k, s)
        PROVE  Rest'
    BY <1>1, <2>4, HandlerRest
  <2>5. ASSUME NEW r \in Run, TaskStep(r) \/ TaskFails(r) PROVE Rest'
    BY <1>1, <2>5, TaskRest
  <2>6. CASE WatcherStep \/ WatcherFails
    BY <1>1, <2>6, WatcherRest
  <2>7. CASE Restart
    BY <1>1, <2>7, RestartRest
  <2> QED
    BY <2>1, <2>2, <2>3, <2>4, <2>5, <2>6, <2>7 DEF Next
<1> QED
  BY <1>1, <1>2 DEF IInv, Rest

-----------------------------------------------------------------------------
(* The theorems.                                                           *)

\* The inductive invariant holds of every state the loop reaches.
THEOREM Invariance == Spec => []IInv
<1>1. IInv /\ [Next]_vars => IInv'
  BY InductiveStep
<1> QED
  BY <1>1, InitInv, PTL DEF Spec

\* Every row, coroutine and counter stays in its type.
THEOREM TypeCorrect == Spec => []TypeOK
<1>1. IInv => TypeOK
  BY DEF IInv
<1> QED
  BY <1>1, Invariance, PTL

\* Any number of concurrent deliveries leaves one open incident per alert_key.
THEOREM DedupeHolds == Spec => []OneOpenPerKey
<1>1. IInv => OneOpenPerKey
  BY DEF IInv
<1> QED
  BY <1>1, Invariance, PTL

\* No incident is re-escalated more than MAX_ESCALATIONS times.
THEOREM CapHolds == Spec => []EscalationsBounded
<1>1. IInv => EscalationsBounded
  BY DEF IInv
<1> QED
  BY <1>1, Invariance, PTL

\* An incident never gets more runs than its investigation and one per counted
\* escalation.
THEOREM BudgetHolds == Spec => []RunsPaidFor
<1>1. IInv => RunsPaidFor
  <2> SUFFICES ASSUME IInv, NEW i \in Incident
               PROVE  Len(linked[i]) <= 1 + inc[i].escalations
    BY DEF RunsPaidFor
  <2>1. Len(linked[i]) + Owed(i) <= 1 + inc[i].escalations
    BY DEF IInv, RunsBudgeted
  <2>2. Len(linked[i]) \in Nat /\ inc[i].escalations \in Nat
    BY DEF IInv, TypeOK, IncidentRow
  <2>3. Owed(i) \in Nat
    BY DEF Owed
  <2> QED
    BY <2>1, <2>2, <2>3
<1> QED
  BY <1>1, Invariance, PTL

-----------------------------------------------------------------------------
(* The rows implement the life cycle of an incident.                       *)

Board == [i \in Incident |->
            [status |-> inc[i].status, key |-> inc[i].key,
             escalations |-> inc[i].escalations, runs |-> Len(linked[i])]]

\* the row of incident i that an operator sees is the same as before
SameOnBoard(i) ==
  /\ inc'[i].status = inc[i].status /\ inc'[i].key = inc[i].key
  /\ inc'[i].escalations = inc[i].escalations
  /\ linked'[i] = linked[i]

LEMMA BoardStutters ==
  ASSUME \A i \in Incident : SameOnBoard(i)
  PROVE  Board' = Board
BY DEF SameOnBoard, Board

LEMMA RaiseImplements ==
  ASSUME IInv, NEW h \in Handler, CreateIncident(h)
  PROVE  Lifecycle!Next
<1>0. NewIncident \in Incident /\ inc[NewIncident].status = "absent"
  BY DEF CreateIncident, NewIncident
<1>1. PICK n \in Incident : n = NewIncident /\ inc[n].status = "absent"
  BY <1>0
<1>4. PICK k \in Key : k = handler[h].key
  BY DEF CreateIncident, IInv, RowsExist
<1>2. inc[n] = NoIncident /\ linked[n] = <<>>
  BY <1>1 DEF IInv, FreshIsBlank
<1>3. /\ inc'[n] = [NoIncident EXCEPT !.status = "open", !.key = k]
      /\ \A i \in Incident \ {n} : inc'[i] = inc[i]
      /\ linked' = linked
  BY <1>1, <1>4 DEF CreateIncident, IInv, TypeOK
<1>5. Board[n] = Lifecycle!Unraised
  BY <1>1, <1>2 DEF Board, Lifecycle!Unraised, NoIncident
<1>6. \A j \in Incident : Board[j].status = "open" => Board[j].key # k
  BY <1>4 DEF CreateIncident, OpenFor, Open, Board
<1>7. Board' = [Board EXCEPT ![n] = Lifecycle!Raised(k)]
  <2>1. Board'[n] = Lifecycle!Raised(k)
    BY <1>1, <1>2, <1>3 DEF Board, NoIncident, Lifecycle!Raised
  <2>2. \A i \in Incident \ {n} : Board'[i] = Board[i]
    BY <1>3 DEF Board
  <2> QED
    BY <1>1, <2>1, <2>2 DEF Board
<1>8. Lifecycle!Raise(n, k)
  BY <1>1, <1>5, <1>6, <1>7 DEF Lifecycle!Raise, Board
<1> QED
  BY <1>1, <1>4, <1>8 DEF Lifecycle!Next

LEMMA ResolveImplements ==
  ASSUME IInv, NEW i \in Incident, inc[i].status # "absent", NEW by,
         inc' = [inc EXCEPT ![i] = Resolved(inc[i], by)], linked' = linked
  PROVE  Lifecycle!Next
<1>1. /\ inc'[i] = Resolved(inc[i], by)
      /\ \A j \in Incident \ {i} : inc'[j] = inc[j]
      /\ inc[i] \in IncidentRow
  BY DEF IInv, TypeOK
<1>2. /\ inc'[i].status = "resolved" /\ inc'[i].key = inc[i].key
      /\ inc'[i].escalations = inc[i].escalations
  <2>1. \A row \in IncidentRow :
          /\ Resolved(row, by).status = "resolved"
          /\ Resolved(row, by).key = row.key
          /\ Resolved(row, by).escalations = row.escalations
    BY DEF Resolved, IncidentRow
  <2> QED
    BY <1>1, <2>1
<1>3. Board' = [Board EXCEPT ![i].status = "resolved"]
  BY <1>1, <1>2 DEF Board
<1>4. Lifecycle!Resolve(i)
  BY <1>3 DEF Lifecycle!Resolve, Board
<1> QED
  BY <1>4 DEF Lifecycle!Next

LEMMA EscalateImplements ==
  ASSUME IInv, BumpEscalations
  PROVE  Lifecycle!Next
<1>1. PICK n \in Incident :
        /\ n = watcher.inc /\ inc[n].status # "absent"
        /\ inc[n].escalations < MaxEscalations /\ inc[n] \in IncidentRow
  BY DEF BumpEscalations, IInv, TypeOK, RowsExist, CountsFresh
<1>2. /\ inc' = [inc EXCEPT ![n] = [inc[n] EXCEPT !.escalations = inc[n].escalations + 1]]
      /\ inc \in [Incident -> IncidentRow] /\ linked' = linked
  BY <1>1 DEF BumpEscalations, IInv, TypeOK
<1>3. /\ \A i \in Incident \ {n} : inc'[i] = inc[i]
      /\ inc'[n].status = inc[n].status /\ inc'[n].key = inc[n].key
      /\ inc'[n].escalations = inc[n].escalations + 1
  BY <1>1, <1>2 DEF IncidentRow
<1>4. Board' = [Board EXCEPT ![n].escalations = Board[n].escalations + 1]
  BY <1>1, <1>2, <1>3, SMTT(30) DEF Board
<1>5. Lifecycle!Escalate(n)
  BY <1>1, <1>4 DEF Lifecycle!Escalate, Board
<1> QED
  BY <1>1, <1>5 DEF Lifecycle!Next

LEMMA InvestigateImplements ==
  ASSUME IInv, NEW i \in Incident, NEW r \in Run, inc[i].status # "absent",
         Owed(i) >= 1, StartTask(r, i), inc' = inc
  PROVE  Lifecycle!Next
<1>1. /\ Len(linked'[i]) = Len(linked[i]) + 1
      /\ \A j \in Incident \ {i} : linked'[j] = linked[j]
  BY StartTaskRows
<1>2. Len(linked[i]) < 1 + inc[i].escalations
  <2>1. Len(linked[i]) + Owed(i) <= 1 + inc[i].escalations
    BY DEF IInv, RunsBudgeted
  <2>2. Len(linked[i]) \in Nat /\ inc[i].escalations \in Nat
    BY DEF IInv, TypeOK, IncidentRow
  <2>3. Owed(i) \in Nat
    BY DEF Owed
  <2> QED
    BY <2>1, <2>2, <2>3
<1>3. Board' = [Board EXCEPT ![i].runs = Board[i].runs + 1]
  BY <1>1 DEF Board
<1>4. Lifecycle!Investigate(i)
  BY <1>2, <1>3 DEF Lifecycle!Investigate, Board
<1> QED
  BY <1>4 DEF Lifecycle!Next

LEMMA WorldImplements ==
  ASSUME IInv,
         \/ \E k \in Key : AlertFires(k) \/ AlertClears(k) \/ AlertRepeats(k)
         \/ \E i \in Incident : DeadlinePasses(i)
         \/ \E h \in Handler, k \in Key, s \in {"firing", "resolved"} : Receive(h, k, s)
         \/ \E o \in Operator, p \in Approval, d \in {"approved", "denied"} :
              PostDecide(o, p, d)
         \/ \E o \in Operator : PostStep(o) \/ PostFails(o)
         \/ Restart
         \/ UNCHANGED vars
  PROVE  Board' = Board
<1>1. ASSUME NEW i \in Incident, DeadlinePasses(i) PROVE Board' = Board
  <2>1. inc' = [inc EXCEPT ![i] = [inc[i] EXCEPT !.deadline = "passed"]]
    BY <1>1 DEF DeadlinePasses
  <2>2. \A j \in Incident : SameOnBoard(j)
    BY <1>1, <2>1 DEF DeadlinePasses, SameOnBoard, IInv, TypeOK, IncidentRow
  <2> QED
    BY <2>2, BoardStutters
<1>2. ASSUME inc' = inc, linked' = linked PROVE Board' = Board
  BY <1>2, BoardStutters DEF SameOnBoard
<1> QED
  BY <1>1, <1>2
  DEF AlertFires, AlertClears, AlertRepeats, Receive, PostDecide, PostStep, PostResolve,
      PostSettle, PostFails, Restart, vars, tables

LEMMA HandlerImplements ==
  ASSUME IInv, NEW h \in Handler, HandlerStep(h) \/ HandlerFails(h)
  PROVE  Lifecycle!Next \/ Board' = Board
<1>1. ASSUME inc' = inc, linked' = linked PROVE Board' = Board
  BY <1>1, BoardStutters DEF SameOnBoard
<1>2. CASE CreateIncident(h)
  BY <1>2, RaiseImplements
<1>3. CASE CloseByWebhook(h)
  <2>1. handler[h].inc \in Incident /\ inc[handler[h].inc].status # "absent"
    BY <1>3 DEF CloseByWebhook, IInv, RowsExist
  <2> QED
    BY <1>3, <2>1, ResolveImplements DEF CloseByWebhook
<1>4. CASE LinkRun(h)
  <2>1. /\ handler[h].inc \in Incident /\ inc[handler[h].inc].status # "absent"
        /\ handler[h].run \in Run /\ Investigating(h, handler[h].inc)
    BY <1>4 DEF LinkRun, IInv, RowsExist, Investigating
  <2>2. Owed(handler[h].inc) >= 1
    BY <2>1 DEF Owed
  <2> QED
    BY <1>4, <2>1, <2>2, InvestigateImplements DEF LinkRun
<1> QED
  BY <1>1, <1>2, <1>3, <1>4
  DEF HandlerStep, LookupSpawn, LookupIgnore, LookupFound, CreateConflict,
      RefetchFound, RefetchIgnore, AttachNew, AttachFiring, AttachResolved,
      CreateRun, HandlerFails, tables

LEMMA TaskImplements ==
  ASSUME IInv, NEW r \in Run, TaskStep(r) \/ TaskFails(r)
  PROVE  Lifecycle!Next \/ Board' = Board
<1>1. ASSUME inc' = inc, linked' = linked PROVE Board' = Board
  BY <1>1, BoardStutters DEF SameOnBoard
<1>2. task[r].pc # "none" =>
        task[r].inc \in Incident /\ inc[task[r].inc].status # "absent"
  BY DEF IInv, RowsExist, Live
<1>3. CASE ArmAfterRemediation(r)
  <2>1. inc' = [inc EXCEPT ![task[r].inc] =
                  [inc[task[r].inc] EXCEPT !.deadline = "ahead"]]
    BY <1>3 DEF ArmAfterRemediation
  <2>2. \A i \in Incident : SameOnBoard(i)
    BY <1>2, <1>3, <2>1 DEF ArmAfterRemediation, SameOnBoard, IInv, TypeOK, IncidentRow
  <2> QED
    BY <2>2, BoardStutters
<1>4. CASE CloseResolves(r)
  <2>1. task[r].inc \in Incident /\ inc[task[r].inc].status # "absent"
    BY <1>2, <1>4 DEF CloseResolves
  <2> QED
    BY <1>4, <2>1, ResolveImplements DEF CloseResolves
<1>5. CASE CloseArms(r)
  <2>1. \A row \in IncidentRow :
          /\ Ensured(row).key = row.key
          /\ Ensured(row).escalations = row.escalations
          /\ Ensured(row).status = row.status
    BY DEF Ensured, IncidentRow
  <2>2. \A i \in Incident : SameOnBoard(i)
    BY <1>2, <1>5, <2>1 DEF CloseArms, SameOnBoard, IInv, TypeOK
  <2> QED
    BY <2>2, BoardStutters
<1> QED
  BY <1>1, <1>3, <1>4, <1>5
  DEF TaskStep, Begin, InsertApproval, SetAwaiting, Park, Resume, SetRunning,
      RecordRemediation, SessionEnds, CloseGuard, CloseEvidence, CloseQuery, End,
      TaskFails, tables

LEMMA WatcherImplements ==
  ASSUME IInv, WatcherStep \/ WatcherFails
  PROVE  Lifecycle!Next \/ Board' = Board
<1>1. ASSUME inc' = inc, linked' = linked PROVE Board' = Board
  BY <1>1, BoardStutters DEF SameOnBoard
<1>2. CASE BumpEscalations
  BY <1>2, EscalateImplements
<1>3. CASE SetVerifyDeadline
  <2>1. inc' = [inc EXCEPT ![watcher.inc] =
                  [inc[watcher.inc] EXCEPT !.deadline = "ahead"]]
    BY <1>3 DEF SetVerifyDeadline
  <2>2. \A i \in Incident : SameOnBoard(i)
    BY <1>3, <2>1 DEF SetVerifyDeadline, SameOnBoard, IInv, TypeOK, IncidentRow
  <2> QED
    BY <2>2, BoardStutters
<1>4. CASE LinkEscalationRun
  <2>1. /\ watcher.inc \in Incident /\ inc[watcher.inc].status # "absent"
        /\ watcher.run \in Run /\ Escalating(watcher.inc)
    BY <1>4 DEF LinkEscalationRun, IInv, RowsExist, Escalating
  <2>2. Owed(watcher.inc) >= 1
    BY <2>1 DEF Owed
  <2> QED
    BY <1>4, <2>1, <2>2, InvestigateImplements DEF LinkEscalationRun
<1> QED
  BY <1>1, <1>2, <1>3, <1>4
  DEF WatcherStep, Poll, Sleep, NextDue, ReadAlertState, Decide,
      CreateEscalationRun, WatcherFails, tables

\* The tables implement IncidentLifecycle: whatever the deliveries, failures and
\* restarts, an operator sees incidents raised once, escalated and investigated
\* within their budget, and never reopened.
THEOREM Refinement == Spec => ImplementsLifecycle
<1>1. Init => Lifecycle!Init
  BY DEF Init, Lifecycle!Init, Lifecycle!Unraised, NoIncident
<1>2. IInv /\ [Next]_vars => Lifecycle!Next \/ Board' = Board
  <2> SUFFICES ASSUME IInv, [Next]_vars PROVE Lifecycle!Next \/ Board' = Board
    OBVIOUS
  <2>1. ASSUME NEW h \in Handler, HandlerStep(h) \/ HandlerFails(h)
        PROVE  Lifecycle!Next \/ Board' = Board
    BY <2>1, HandlerImplements
  <2>2. ASSUME NEW r \in Run, TaskStep(r) \/ TaskFails(r)
        PROVE  Lifecycle!Next \/ Board' = Board
    BY <2>2, TaskImplements
  <2>3. CASE WatcherStep \/ WatcherFails
    BY <2>3, WatcherImplements
  <2> QED
    BY <2>1, <2>2, <2>3, WorldImplements DEF Next
<1>3. IInv /\ [Next]_vars => [Lifecycle!Next]_Board
  BY <1>2
<1> QED
  BY <1>1, <1>3, Invariance, PTL DEF Spec, ImplementsLifecycle, Lifecycle!Spec, Board

-----------------------------------------------------------------------------
(* The runs: the inductive invariant, on top of IInv.                      *)

Newest(i) == linked[i][Len(linked[i])]

HasRun(i) == linked[i] # <<>>

\* A run that is about to be linked has just been created;
ToLinkIsFresh ==
  /\ \A h \in Handler : handler[h].pc = "link" =>
       run[handler[h].run] = "queued" /\ ~Live(handler[h].run)
  /\ watcher.pc = "link" => run[watcher.run] = "queued" /\ ~Live(watcher.run)

\* nobody else links it;
ToLinkIsOwn ==
  /\ \A g, h \in Handler :
       handler[g].pc = "link" /\ handler[h].pc = "link" /\ handler[g].run = handler[h].run
         => g = h
  /\ \A h \in Handler :
       handler[h].pc = "link" /\ watcher.pc = "link" => handler[h].run # watcher.run

\* and nobody has linked it, while what is linked is linked once.
NewestIsOwn ==
  /\ \A i \in Incident : HasRun(i) =>
       /\ run[Newest(i)] # "absent"
       /\ \A h \in Handler : handler[h].pc = "link" => handler[h].run # Newest(i)
       /\ watcher.pc = "link" => watcher.run # Newest(i)
  /\ \A i, j \in Incident : HasRun(i) /\ HasRun(j) /\ Newest(i) = Newest(j) => i = j

\* A live run is in flight and the newest of its incident, unless a decision
\* wrote over its status while it went on;
LiveInFlight ==
  \A r \in Run : Live(r) =>
    /\ run[r] # "absent"
    /\ r \notin overruled => run[r] \in InFlightStatuses

LiveIsNewest ==
  \A r \in Run : Live(r) =>
    /\ HasRun(task[r].inc)
    /\ r \notin overruled => Newest(task[r].inc) = r
    /\ \A i \in Incident : HasRun(i) /\ Newest(i) = r => task[r].inc = i

\* the statuses of a run that is over
Over == {"completed", "failed", "denied"}

\* a session belongs to a run that has begun;
SessionsBegun ==
  \A r \in Run : task[r].pc \notin {"none", "begin", "end"} =>
    run[r] \notin {"absent", "queued"}

\* so does an approval, and without a failure that run is executing or over;
AskersBegun ==
  \A p \in Approval : approval[p].decision # "absent" =>
    /\ approval[p].run \in Run
    /\ run[approval[p].run] \notin {"absent", "queued"}
    /\ faults = 0 => Live(approval[p].run) \/ run[approval[p].run] \in Over

\* and what an operator decides is an approval somebody asked for.
PostsAsked ==
  \A o \in Operator : post[o].pc \in {"resolve", "settle"} =>
    post[o].approval \in Approval /\ approval[post[o].approval].decision # "absent"

Begun == SessionsBegun /\ AskersBegun /\ PostsAsked

\* An incident whose investigation is on its way has no run and no deadline,
\* and the watcher has never heard of it;
Unstarted ==
  \A h \in Handler, i \in Incident : Investigating(h, i) =>
    /\ ~HasRun(i) /\ inc[i].deadline = "unset"
    /\ \A d \in watcher.due : d.inc # i
    /\ watcher.pc \notin {"sleep", "next"} => watcher.inc # i

\* one that is being escalated has no live run that was not overruled.
EscalatedIsIdle ==
  watcher.pc \in {"bump", "arm", "createRun", "link"} =>
    \A r \in Run : Live(r) /\ r \notin overruled => task[r].inc # watcher.inc

\* What the closing step read of the timeline stays true.
EvidenceStands ==
  \A r \in Run : Live(r) /\ task[r].decision \in {"remediated", "verify"} =>
    task[r].inc \in remediated

\* Without a failure a run gets to its end by way of the closing step.
EndIsArmed ==
  faults = 0 => \A r \in Run, i \in Incident : task[r].pc = "end" /\ task[r].inc = i =>
    ~Open(i) \/ inc[i].deadline # "unset"

RunsInv ==
  /\ ToLinkIsFresh /\ ToLinkIsOwn /\ NewestIsOwn
  /\ LiveInFlight /\ LiveIsNewest /\ Begun
  /\ Unstarted /\ EscalatedIsIdle
  /\ EvidenceStands /\ VerifiedWasRemediated
  /\ EndIsArmed /\ SettledIsArmed

-----------------------------------------------------------------------------
(* Which run belongs to which incident.  Most steps leave that alone: what  *)
(* it means, once.                                                          *)

Identity ==
  /\ ToLinkIsFresh /\ ToLinkIsOwn /\ NewestIsOwn
  /\ LiveInFlight /\ LiveIsNewest /\ Unstarted /\ EscalatedIsIdle

\* a handler begins no investigation and brings no run to be linked
HandlerCalm(h) ==
  /\ handler'[h].pc \in {"attachNew", "createRun", "link"} =>
       /\ handler[h].pc \in {"attachNew", "createRun", "link"}
       /\ handler'[h].inc = handler[h].inc
  /\ handler'[h].pc = "link" => handler[h].pc = "link" /\ handler'[h].run = handler[h].run

\* a run that moves is not one that waits to be linked
RunCalm(r) ==
  \/ run'[r] = run[r]
  \/ /\ Live(r) \/ run[r] \notin {"absent", "queued"}
     /\ run'[r] # "absent"
     /\ task'[r].pc # "none" => run'[r] \in InFlightStatuses \/ r \in overruled'

\* the watcher goes on to an incident it has polled, and escalates none anew
WatcherCalm ==
  /\ watcher'.due \subseteq watcher.due
  /\ watcher'.pc \notin {"sleep", "next"} =>
       \/ watcher.pc \notin {"sleep", "next"} /\ watcher'.inc = watcher.inc
       \/ \E d \in watcher.due : watcher'.inc = d.inc
  /\ watcher'.pc \in {"bump", "arm", "createRun", "link"} =>
       watcher.pc \in {"bump", "arm", "createRun", "link"} /\ watcher'.inc = watcher.inc
  /\ watcher'.pc = "link" => watcher.pc = "link" /\ watcher'.run = watcher.run

\* no incident whose investigation is on its way gets a deadline
DeadlinesCalm ==
  \A h \in Handler, i \in Incident :
    Investigating(h, i) => inc'[i].deadline = inc[i].deadline

LEMMA CalmSteps ==
  /\ handler' = handler => \A h \in Handler : HandlerCalm(h)
  /\ run' = run => \A r \in Run : RunCalm(r)
  /\ task' = task => \A r \in Run : TaskKept(r)
  /\ watcher' = watcher => WatcherCalm
  /\ inc' = inc => DeadlinesCalm
BY DEF HandlerCalm, RunCalm, TaskKept, WatcherCalm, DeadlinesCalm

LEMMA CalmIdentity ==
  ASSUME IInv, Identity, UNCHANGED linked, overruled \subseteq overruled',
         WatcherCalm, DeadlinesCalm,
         \A h \in Handler : HandlerCalm(h),
         \A r \in Run : RunCalm(r) /\ TaskKept(r)
  PROVE  Identity'
<1>1. /\ \A h \in Handler : handler[h].pc = "link" => handler[h].run \in Run
      /\ watcher.pc = "link" => watcher.run \in Run
  BY DEF IInv, RowsExist
<1>2. \A r \in Run : run[r] = "queued" /\ ~Live(r) => run'[r] = "queued" /\ ~Live(r)'
  BY DEF RunCalm, TaskKept, Live
<1>3. ToLinkIsFresh'
  BY <1>1, <1>2 DEF Identity, ToLinkIsFresh, HandlerCalm, WatcherCalm, Live
<1>4. ToLinkIsOwn'
  BY DEF Identity, ToLinkIsOwn, HandlerCalm, WatcherCalm
<1>5. NewestIsOwn'
  <2>1. \A i \in Incident : HasRun(i) => Newest(i) \in Run
    BY DEF IInv, TypeOK, HasRun, Newest
  <2>2. \A i \in Incident : HasRun(i)' = HasRun(i) /\ Newest(i)' = Newest(i)
    BY DEF HasRun, Newest
  <2>3. \A r \in Run : run[r] # "absent" => run'[r] # "absent"
    BY DEF RunCalm
  <2> QED
    BY <2>1, <2>2, <2>3 DEF Identity, NewestIsOwn, HandlerCalm, WatcherCalm
<1>6. LiveInFlight'
  BY DEF Identity, LiveInFlight, Live, RunCalm, TaskKept
<1>7. LiveIsNewest'
  BY DEF Identity, LiveIsNewest, Live, TaskKept, HasRun, Newest
<1>8. Unstarted'
  <2>1. \A h \in Handler, i \in Incident : Investigating(h, i)' => Investigating(h, i)
    BY DEF Investigating, HandlerCalm
  <2>2. SUFFICES ASSUME NEW h \in Handler, NEW i \in Incident, Investigating(h, i)
                 PROVE  /\ ~HasRun(i)' /\ inc'[i].deadline = "unset"
                        /\ \A d \in watcher'.due : d.inc # i
                        /\ watcher'.pc \notin {"sleep", "next"} => watcher'.inc # i
    BY <2>1 DEF Unstarted
  <2>3. /\ ~HasRun(i) /\ inc[i].deadline = "unset"
        /\ \A d \in watcher.due : d.inc # i
        /\ watcher.pc \notin {"sleep", "next"} => watcher.inc # i
    BY <2>2 DEF Identity, Unstarted
  <2> QED
    BY <2>2, <2>3 DEF DeadlinesCalm, WatcherCalm, HasRun
<1>9. EscalatedIsIdle'
  BY DEF Identity, EscalatedIsIdle, Live, TaskKept, WatcherCalm
<1> QED
  BY <1>3, <1>4, <1>5, <1>6, <1>7, <1>8, <1>9 DEF Identity

-----------------------------------------------------------------------------
(* The steps that do change it.                                            *)

LEMMA CreateIncidentIdentity ==
  ASSUME IInv, Identity, NEW h \in Handler, CreateIncident(h)
  PROVE  Identity'
<1> DEFINE n == NewIncident
<1>1. n \in Incident /\ inc[n].status = "absent"
  BY DEF CreateIncident, NewIncident
<1>2. /\ inc'[n].deadline = "unset"
      /\ \A i \in Incident : i # n => inc'[i] = inc[i]
      /\ UNCHANGED <<linked, run, overruled, task, watcher>>
  BY <1>1 DEF CreateIncident, IInv, TypeOK, NoIncident, gate
<1>3. /\ handler'[h].pc = "attachNew" /\ handler'[h].inc = n
      /\ \A g \in Handler : g # h => handler'[g] = handler[g]
  BY DEF CreateIncident, GotoWith, IInv, TypeOK, HandlerState
<1>4. ToLinkIsFresh' /\ ToLinkIsOwn'
  BY <1>2, <1>3 DEF Identity, ToLinkIsFresh, ToLinkIsOwn, Live
<1>5. NewestIsOwn'
  BY <1>2, <1>3 DEF Identity, NewestIsOwn, Newest, HasRun
<1>6. LiveInFlight' /\ LiveIsNewest' /\ EscalatedIsIdle'
  BY <1>2 DEF Identity, LiveInFlight, LiveIsNewest, EscalatedIsIdle, Live, Newest, HasRun
<1>7. Unstarted'
  <2>1. /\ ~HasRun(n)
        /\ \A d \in watcher.due : d.inc # n
        /\ watcher.pc \notin {"sleep", "next"} => watcher.inc # n
    BY <1>1 DEF IInv, FreshIsBlank, RowsExist, HasRun
  <2>2. \A g \in Handler, i \in Incident :
          Investigating(g, i)' => i = n \/ (Investigating(g, i) /\ i # n)
    BY <1>1, <1>3 DEF Investigating
  <2> QED
    BY <1>2, <2>1, <2>2 DEF Identity, Unstarted, HasRun
<1> QED
  BY <1>4, <1>5, <1>6, <1>7 DEF Identity

\* A new run is nobody's, and nobody is at it.
LEMMA NewRunIsFresh ==
  ASSUME IInv, Identity, \E r \in Run : run[r] = "absent",
         run' = [run EXCEPT ![NewRun] = "queued"]
  PROVE  /\ NewRun \in Run /\ ~Live(NewRun)
         /\ run'[NewRun] = "queued" /\ \A r \in Run : r # NewRun => run'[r] = run[r]
         /\ \A i \in Incident : HasRun(i) => Newest(i) # NewRun /\ Newest(i) \in Run
         /\ \A h \in Handler : handler[h].pc = "link" => handler[h].run # NewRun
         /\ watcher.pc = "link" => watcher.run # NewRun
<1>1. NewRun \in Run /\ run[NewRun] = "absent"
  BY DEF NewRun
<1>2. \A i \in Incident : HasRun(i) => Newest(i) \in Run
  BY DEF IInv, TypeOK, HasRun, Newest
<1>3. ~Live(NewRun)
  BY <1>1 DEF Identity, LiveInFlight, InFlightStatuses
<1>4. /\ \A h \in Handler : handler[h].pc = "link" => handler[h].run # NewRun
      /\ watcher.pc = "link" => watcher.run # NewRun
  BY <1>1 DEF Identity, ToLinkIsFresh
<1>5. \A i \in Incident : HasRun(i) => Newest(i) # NewRun
  BY <1>1 DEF Identity, NewestIsOwn
<1>6. run'[NewRun] = "queued" /\ \A r \in Run : r # NewRun => run'[r] = run[r]
  BY <1>1 DEF IInv, TypeOK
<1> QED
  BY <1>1, <1>2, <1>3, <1>4, <1>5, <1>6

LEMMA CreateRunIdentity ==
  ASSUME IInv, Identity, NEW h \in Handler, CreateRun(h)
  PROVE  Identity'
<1>1. /\ NewRun \in Run /\ ~Live(NewRun)
      /\ run'[NewRun] = "queued" /\ \A r \in Run : r # NewRun => run'[r] = run[r]
      /\ \A i \in Incident : HasRun(i) => Newest(i) # NewRun /\ Newest(i) \in Run
      /\ \A g \in Handler : handler[g].pc = "link" => handler[g].run # NewRun
      /\ watcher.pc = "link" => watcher.run # NewRun
  BY NewRunIsFresh DEF CreateRun
<1>2. /\ handler'[h].pc = "link" /\ handler'[h].run = NewRun
      /\ handler[h].pc = "createRun" /\ handler'[h].inc = handler[h].inc
      /\ \A g \in Handler : g # h => handler'[g] = handler[g]
      /\ UNCHANGED <<inc, linked, overruled, task, watcher>>
  BY DEF CreateRun, IInv, TypeOK, HandlerState, gate
<1>3. /\ \A g \in Handler : handler[g].pc = "link" => handler[g].run \in Run
      /\ watcher.pc = "link" => watcher.run \in Run
  BY DEF IInv, RowsExist
<1>4. ToLinkIsFresh' /\ ToLinkIsOwn'
  BY <1>1, <1>2, <1>3 DEF Identity, ToLinkIsFresh, ToLinkIsOwn, Live
<1>5. NewestIsOwn'
  BY <1>1, <1>2 DEF Identity, NewestIsOwn, Newest, HasRun
<1>6. LiveInFlight' /\ LiveIsNewest' /\ EscalatedIsIdle'
  BY <1>1, <1>2
  DEF Identity, LiveInFlight, LiveIsNewest, EscalatedIsIdle, Live, Newest, HasRun
<1>7. Unstarted'
  BY <1>2 DEF Identity, Unstarted, Investigating, HasRun
<1> QED
  BY <1>4, <1>5, <1>6, <1>7 DEF Identity

LEMMA CreateEscalationIdentity ==
  ASSUME IInv, Identity, CreateEscalationRun
  PROVE  Identity'
<1>1. /\ NewRun \in Run /\ ~Live(NewRun)
      /\ run'[NewRun] = "queued" /\ \A r \in Run : r # NewRun => run'[r] = run[r]
      /\ \A i \in Incident : HasRun(i) => Newest(i) # NewRun /\ Newest(i) \in Run
      /\ \A g \in Handler : handler[g].pc = "link" => handler[g].run # NewRun
  BY NewRunIsFresh DEF CreateEscalationRun
<1>2. /\ watcher'.pc = "link" /\ watcher'.run = NewRun
      /\ watcher.pc = "createRun" /\ watcher'.inc = watcher.inc /\ watcher'.due = watcher.due
      /\ UNCHANGED <<inc, linked, overruled, task, handler>>
  BY DEF CreateEscalationRun, IInv, TypeOK, WatcherState, gate
<1>3. \A g \in Handler : handler[g].pc = "link" => handler[g].run \in Run
  BY DEF IInv, RowsExist
<1>4. ToLinkIsFresh' /\ ToLinkIsOwn'
  BY <1>1, <1>2, <1>3 DEF Identity, ToLinkIsFresh, ToLinkIsOwn, Live
<1>5. NewestIsOwn'
  BY <1>1, <1>2 DEF Identity, NewestIsOwn, Newest, HasRun
<1>6. LiveInFlight' /\ LiveIsNewest' /\ EscalatedIsIdle'
  BY <1>1, <1>2
  DEF Identity, LiveInFlight, LiveIsNewest, EscalatedIsIdle, Live, Newest, HasRun
<1>7. Unstarted'
  BY <1>2 DEF Identity, Unstarted, Investigating, HasRun
<1> QED
  BY <1>4, <1>5, <1>6, <1>7 DEF Identity

\* A run is linked and its task begins.
LEMMA StartTaskNewest ==
  ASSUME IInv, NEW r \in Run, NEW i \in Incident, StartTask(r, i)
  PROVE  /\ HasRun(i)' /\ Newest(i)' = r
         /\ \A j \in Incident : j # i => HasRun(j)' = HasRun(j) /\ Newest(j)' = Newest(j)
         /\ task'[r].pc = "begin" /\ task'[r].inc = i
         /\ \A q \in Run : q # r => task'[q] = task[q]
<1>1. linked'[i] = Append(linked[i], r) /\ linked[i] \in Seq(Run)
  BY DEF StartTask, IInv, TypeOK
<1>2. linked'[i] # <<>> /\ linked'[i][Len(linked'[i])] = r
  BY <1>1
<1>3. \A j \in Incident : j # i => linked'[j] = linked[j]
  BY DEF StartTask, IInv, TypeOK
<1>4. /\ task'[r].pc = "begin" /\ task'[r].inc = i
      /\ \A q \in Run : q # r => task'[q] = task[q]
  BY DEF StartTask, IInv, TypeOK, NoTask
<1> QED
  BY <1>2, <1>3, <1>4 DEF HasRun, Newest

LEMMA LinkRunIdentity ==
  ASSUME IInv, Identity, NEW h \in Handler, LinkRun(h)
  PROVE  Identity'
<1>0. PICK n \in Incident, r \in Run : n = handler[h].inc /\ r = handler[h].run
  BY DEF LinkRun, IInv, RowsExist
<1>1. handler[h].pc = "link" /\ Investigating(h, n)
  BY <1>0 DEF LinkRun, Investigating
<1>2. /\ HasRun(n)' /\ Newest(n)' = r
      /\ \A j \in Incident : j # n => HasRun(j)' = HasRun(j) /\ Newest(j)' = Newest(j)
      /\ task'[r].pc = "begin" /\ task'[r].inc = n
      /\ \A q \in Run : q # r => task'[q] = task[q]
  <2>1. StartTask(r, n)
    BY <1>0 DEF LinkRun, StartTask
  <2> QED
    BY <2>1, StartTaskNewest, Zenon
<1>3. /\ handler'[h].pc = "idle"
      /\ \A g \in Handler : g # h => handler'[g] = handler[g]
      /\ UNCHANGED <<inc, run, overruled, watcher>>
  BY DEF LinkRun, IInv, TypeOK, IdleHandler, gate
<1>4. /\ run[r] = "queued" /\ ~Live(r)
      /\ \A g \in Handler : g # h /\ handler[g].pc = "link" => handler[g].run # r
      /\ watcher.pc = "link" => watcher.run # r
      /\ \A i \in Incident : HasRun(i) => Newest(i) # r
  BY <1>0, <1>1 DEF Identity, ToLinkIsFresh, ToLinkIsOwn, NewestIsOwn
<1>5. /\ ~HasRun(n)
      /\ watcher.pc \notin {"sleep", "next"} => watcher.inc # n
      /\ \A q \in Run : Live(q) => task[q].inc # n
  BY <1>0, <1>1 DEF Identity, Unstarted, LiveIsNewest
<1>6. \A q \in Run : Live(q) => task[q].inc \in Incident
  BY DEF IInv, RowsExist
<1>7. ToLinkIsFresh' /\ ToLinkIsOwn'
  BY <1>2, <1>3, <1>4 DEF Identity, ToLinkIsFresh, ToLinkIsOwn, Live, IInv, RowsExist
<1>8. NewestIsOwn'
  BY <1>2, <1>3, <1>4, <1>5 DEF Identity, NewestIsOwn
<1>9. LiveInFlight'
  BY <1>2, <1>3, <1>4 DEF Identity, LiveInFlight, Live, InFlightStatuses
<1>10. LiveIsNewest'
  BY <1>2, <1>3, <1>4, <1>5, <1>6 DEF Identity, LiveIsNewest, Live
<1>11. Unstarted'
  <2>1. \A g \in Handler, i \in Incident :
          Investigating(g, i)' => Investigating(g, i) /\ i # n
    BY <1>0, <1>1, <1>3 DEF Investigating, IInv, OneInvestigator
  <2> QED
    BY <1>2, <1>3, <2>1 DEF Identity, Unstarted
<1>12. EscalatedIsIdle'
  BY <1>0, <1>2, <1>3, <1>5 DEF Identity, EscalatedIsIdle, Live
<1> QED
  BY <1>7, <1>8, <1>9, <1>10, <1>11, <1>12 DEF Identity

LEMMA LinkEscalationIdentity ==
  ASSUME IInv, Identity, LinkEscalationRun
  PROVE  Identity'
<1>0. PICK n \in Incident, r \in Run : n = watcher.inc /\ r = watcher.run
  BY DEF LinkEscalationRun, IInv, RowsExist
<1>1. watcher.pc = "link"
  BY DEF LinkEscalationRun
<1>2. /\ HasRun(n)' /\ Newest(n)' = r
      /\ \A j \in Incident : j # n => HasRun(j)' = HasRun(j) /\ Newest(j)' = Newest(j)
      /\ task'[r].pc = "begin" /\ task'[r].inc = n
      /\ \A q \in Run : q # r => task'[q] = task[q]
  <2>1. StartTask(r, n)
    BY <1>0 DEF LinkEscalationRun, StartTask
  <2> QED
    BY <2>1, StartTaskNewest, Zenon
<1>3. /\ watcher'.pc = "next" /\ watcher'.due = watcher.due
      /\ UNCHANGED <<inc, run, overruled, handler>>
  BY DEF LinkEscalationRun, Continue, SleepingWatcher, gate
<1>4. /\ run[r] = "queued" /\ ~Live(r)
      /\ \A g \in Handler : handler[g].pc = "link" => handler[g].run # r
      /\ \A i \in Incident : HasRun(i) => Newest(i) # r
  BY <1>0, <1>1 DEF Identity, ToLinkIsFresh, ToLinkIsOwn, NewestIsOwn
<1>5. \A q \in Run : Live(q) =>
        /\ task[q].inc \in Incident
        /\ q \notin overruled => task[q].inc # n
  BY <1>0, <1>1 DEF Identity, EscalatedIsIdle, IInv, RowsExist
<1>6. ToLinkIsFresh' /\ ToLinkIsOwn'
  BY <1>2, <1>3, <1>4 DEF Identity, ToLinkIsFresh, ToLinkIsOwn, Live, IInv, RowsExist
<1>7. NewestIsOwn'
  BY <1>2, <1>3, <1>4 DEF Identity, NewestIsOwn
<1>8. LiveInFlight'
  BY <1>2, <1>3, <1>4 DEF Identity, LiveInFlight, Live, InFlightStatuses
<1>9. LiveIsNewest'
  BY <1>2, <1>3, <1>4, <1>5 DEF Identity, LiveIsNewest, Live
<1>10. Unstarted'
  <2>1. \A g \in Handler, i \in Incident : Investigating(g, i)' => Investigating(g, i) /\ i # n
    BY <1>0, <1>1, <1>3 DEF Investigating, Identity, Unstarted
  <2> QED
    BY <1>2, <1>3, <2>1 DEF Identity, Unstarted
<1>11. EscalatedIsIdle'
  BY <1>3 DEF EscalatedIsIdle
<1> QED
  BY <1>6, <1>7, <1>8, <1>9, <1>10, <1>11 DEF Identity

-----------------------------------------------------------------------------
(* All steps.                                                              *)

LEMMA HandlerIdentity ==
  ASSUME IInv, Identity, NEW h \in Handler, HandlerStep(h) \/ HandlerFails(h)
  PROVE  Identity'
<1>0. handler \in [Handler -> HandlerState]
  BY DEF IInv, TypeOK
<1>1. ASSUME \/ handler' = [handler EXCEPT ![h] = IdleHandler]
             \/ \E label \in {"create", "refetch", "attach", "close"} :
                  \/ handler' = [handler EXCEPT ![h].pc = label]
                  \/ \E i : GotoWith(h, label, i)
             \/ /\ handler[h].pc = "attachNew"
                /\ handler' = [handler EXCEPT ![h].pc = "createRun"],
             UNCHANGED <<linked, run, overruled, task, watcher>>, DeadlinesCalm
      PROVE  Identity'
  <2>1. \A g \in Handler : g # h => handler'[g] = handler[g]
    BY <1>0, <1>1 DEF GotoWith
  <2>2. \/ handler'[h].pc \in {"idle", "create", "refetch", "attach", "close"}
        \/ /\ handler[h].pc = "attachNew"
           /\ handler'[h].pc = "createRun" /\ handler'[h].inc = handler[h].inc
    <3>0. handler[h] \in HandlerState
      BY <1>0
    <3>1. CASE handler' = [handler EXCEPT ![h] = IdleHandler]
      BY <1>0, <3>1 DEF IdleHandler
    <3>2. ASSUME NEW label \in {"create", "refetch", "attach", "close"},
                 \/ handler' = [handler EXCEPT ![h].pc = label]
                 \/ \E i : GotoWith(h, label, i)
          PROVE  handler'[h].pc = label
      BY <1>0, <3>0, <3>2 DEF GotoWith, HandlerState
    <3>3. CASE handler[h].pc = "attachNew" /\ handler' = [handler EXCEPT ![h].pc = "createRun"]
      BY <1>0, <3>0, <3>3 DEF HandlerState
    <3> QED
      BY <1>1, <3>1, <3>2, <3>3
  <2>3. \A g \in Handler : HandlerCalm(g)
    BY <2>1, <2>2 DEF HandlerCalm
  <2> QED
    BY <1>1, <2>3, CalmSteps, CalmIdentity
<1>2. CASE LookupSpawn(h) \/ LookupIgnore(h) \/ CreateConflict(h) \/ RefetchIgnore(h)
  BY <1>1, <1>2, CalmSteps
  DEF LookupSpawn, LookupIgnore, CreateConflict, RefetchIgnore, tables, gate
<1>3. CASE LookupFound(h) \/ RefetchFound(h)
  BY <1>1, <1>3, CalmSteps DEF LookupFound, RefetchFound, tables, gate
<1>4. CASE AttachNew(h) \/ AttachFiring(h) \/ AttachResolved(h)
  BY <1>1, <1>4, CalmSteps DEF AttachNew, AttachFiring, AttachResolved, gate
<1>5. CASE CloseByWebhook(h)
  <2>1. inc' = [inc EXCEPT ![handler[h].inc] =
                  [inc[handler[h].inc] EXCEPT !.status = "resolved", !.by = "webhook"]]
    BY <1>5 DEF CloseByWebhook, Resolved
  <2>2. DeadlinesCalm
    BY <2>1 DEF DeadlinesCalm, IInv, TypeOK, IncidentRow
  <2> QED
    BY <1>1, <1>5, <2>2 DEF CloseByWebhook, gate
<1>6. CASE HandlerFails(h)
  BY <1>1, <1>6, CalmSteps DEF HandlerFails, tables, gate
<1> QED
  BY <1>2, <1>3, <1>4, <1>5, <1>6,
     CreateIncidentIdentity, CreateRunIdentity, LinkRunIdentity DEF HandlerStep

LEMMA TaskIdentity ==
  ASSUME IInv, Identity, NEW r \in Run, TaskStep(r) \/ TaskFails(r)
  PROVE  Identity'
<1>0. task \in [Run -> TaskState] /\ inc \in [Incident -> IncidentRow] /\ run \in [Run -> RunStatus]
  BY DEF IInv, TypeOK
<1>1. ASSUME \/ task' = [task EXCEPT ![r] = NoTask]
             \/ \E label : Goto(r, label)
             \/ \E label, p : Asks(r, label, p)
             \/ \E label, decision : Decided(r, label, decision)
             \/ \E label, outcome :
                  task' = [task EXCEPT ![r] = [task[r] EXCEPT !.pc = label,
                                                              !.outcome = outcome]],
             Live(r)
      PROVE  \A q \in Run : TaskKept(q)
  <2>1. /\ task'[r].pc # "none" => task'[r].inc = task[r].inc
        /\ \A q \in Run : q # r => task'[q] = task[q]
    <3>1. CASE task' = [task EXCEPT ![r] = NoTask]
      BY <1>0, <3>1 DEF NoTask
    <3>2. ASSUME NEW label, Goto(r, label)
          PROVE  task'[r].inc = task[r].inc /\ \A q \in Run : q # r => task'[q] = task[q]
      BY <1>0, <3>2 DEF Goto, TaskState
    <3>3. ASSUME NEW label, NEW decision, Decided(r, label, decision)
          PROVE  task'[r].inc = task[r].inc /\ \A q \in Run : q # r => task'[q] = task[q]
      BY <1>0, <3>3 DEF Decided, TaskState
    <3>4. ASSUME NEW label, NEW outcome,
                 task' = [task EXCEPT ![r] = [task[r] EXCEPT !.pc = label,
                                                             !.outcome = outcome]]
          PROVE  task'[r].inc = task[r].inc /\ \A q \in Run : q # r => task'[q] = task[q]
      BY <1>0, <3>4 DEF TaskState
    <3>5. ASSUME NEW label, NEW p, Asks(r, label, p)
          PROVE  task'[r].inc = task[r].inc /\ \A q \in Run : q # r => task'[q] = task[q]
      BY <1>0, <3>5 DEF Asks, TaskState
    <3> QED
      BY <1>1, <3>1, <3>2, <3>3, <3>4, <3>5
  <2> QED
    BY <1>1, <2>1 DEF TaskKept, Live
<1>2. ASSUME Live(r), \A q \in Run : TaskKept(q), DeadlinesCalm,
             \A q \in Run : RunCalm(q), UNCHANGED <<linked, overruled, handler, watcher>>
      PROVE  Identity'
  BY <1>2, CalmSteps, CalmIdentity
<1>3. ASSUME Live(r), NEW status \in InFlightStatuses, run' = [run EXCEPT ![r] = status]
      PROVE  \A q \in Run : RunCalm(q)
  BY <1>0, <1>3 DEF RunCalm, InFlightStatuses
<1>4. CASE Begin(r) \/ SetAwaiting(r) \/ SetRunning(r)
  BY <1>1, <1>2, <1>3, <1>4, CalmSteps
  DEF Begin, SetAwaiting, SetRunning, Live, InFlightStatuses, gate
<1>5. CASE InsertApproval(r) \/ Park(r) \/ Resume(r) \/ RecordRemediation(r) \/ CloseGuard(r)
  BY <1>1, <1>2, <1>5, CalmSteps
  DEF InsertApproval, Park, Resume, RecordRemediation, CloseGuard, Live, tables, gate
<1>6. CASE CloseEvidence(r) \/ CloseQuery(r)
  BY <1>1, <1>2, <1>6, CalmSteps DEF CloseEvidence, CloseQuery, Live, tables, gate
<1>7. ASSUME NEW outcome, SessionEnds(r, outcome)
      PROVE  Identity'
  BY <1>1, <1>2, <1>7, CalmSteps DEF SessionEnds, Live, tables, gate
<1>8. ASSUME Live(r), \A i \in Incident : i # task[r].inc => inc'[i] = inc[i]
      PROVE  DeadlinesCalm
  BY <1>8 DEF DeadlinesCalm, Identity, LiveIsNewest, Unstarted
<1>9. CASE ArmAfterRemediation(r) \/ CloseResolves(r) \/ CloseArms(r)
  <2>1. Live(r) /\ \E label : Goto(r, label)
    BY <1>9 DEF ArmAfterRemediation, CloseResolves, CloseArms, Live
  <2>2. \A i \in Incident : i # task[r].inc => inc'[i] = inc[i]
    BY <1>0, <1>9 DEF ArmAfterRemediation, CloseResolves, CloseArms
  <2> QED
    BY <1>1, <1>2, <1>8, <1>9, <2>1, <2>2, CalmSteps
    DEF ArmAfterRemediation, CloseResolves, CloseArms, gate
<1>10. CASE End(r)
  <2>1. /\ run'[r] # "absent" /\ \A q \in Run : q # r => run'[q] = run[q]
        /\ task'[r].pc = "none"
    BY <1>0, <1>10 DEF End, TaskState, NoTask
  <2>2. Live(r) /\ \A q \in Run : RunCalm(q)
    BY <1>10, <2>1 DEF RunCalm, End, Live
  <2> QED
    BY <1>1, <1>2, <1>10, <2>2, CalmSteps DEF End, gate
<1>11. CASE TaskFails(r)
  <2>1. Live(r) /\ \A q \in Run : TaskKept(q)
    BY <1>1, <1>11 DEF TaskFails, Goto, Live
  <2> QED
    BY <1>2, <1>11, <2>1, CalmSteps DEF TaskFails, tables, gate
<1> QED
  BY <1>4, <1>5, <1>6, <1>7, <1>9, <1>10, <1>11 DEF TaskStep

LEMMA WatcherIdentity ==
  ASSUME IInv, Identity, WatcherStep \/ WatcherFails
  PROVE  Identity'
<1>0. watcher \in WatcherState
  BY DEF IInv, TypeOK
<1>1. ASSUME WatcherCalm, DeadlinesCalm, UNCHANGED <<linked, run, overruled, task, handler>>
      PROVE  Identity'
  BY <1>1, CalmSteps, CalmIdentity
<1>2. Continue => WatcherCalm
  BY DEF Continue, WatcherCalm, SleepingWatcher
<1>3. CASE Poll
  <2>1. /\ watcher'.pc = "next"
        /\ \A d \in watcher'.due : d.inc \in Incident /\ inc[d.inc].deadline = "passed"
        /\ UNCHANGED <<inc, linked, run, overruled, task, handler>>
    BY <1>0, <1>3 DEF Poll, WatcherState, tables, gate
  <2>2. Unstarted'
    BY <2>1 DEF Identity, Unstarted, Investigating, HasRun
  <2>3. ToLinkIsFresh' /\ ToLinkIsOwn' /\ NewestIsOwn' /\ EscalatedIsIdle'
    BY <2>1
    DEF Identity, ToLinkIsFresh, ToLinkIsOwn, NewestIsOwn, EscalatedIsIdle, Live, HasRun, Newest
  <2>4. LiveInFlight' /\ LiveIsNewest'
    BY <2>1 DEF Identity, LiveInFlight, LiveIsNewest, Live, HasRun, Newest
  <2> QED
    BY <2>2, <2>3, <2>4 DEF Identity
<1>4. CASE Sleep
  <2>1. WatcherCalm
    BY <1>4 DEF Sleep, WatcherCalm, SleepingWatcher
  <2> QED
    BY <1>1, <1>4, <2>1, CalmSteps DEF Sleep, tables, gate
<1>5. CASE NextDue
  <2>1. WatcherCalm
    BY <1>0, <1>5 DEF NextDue, WatcherCalm, WatcherState
  <2> QED
    BY <1>1, <1>5, <2>1, CalmSteps DEF NextDue, tables, gate
<1>6. CASE ReadAlertState
  <2>1. WatcherCalm
    BY <1>0, <1>6 DEF ReadAlertState, WatcherCalm, WatcherState
  <2> QED
    BY <1>1, <1>6, <2>1, CalmSteps DEF ReadAlertState, tables, gate
<1>7. ASSUME Decide, EscalationDue(watcher.escalations, watcher.firing,
                                   LatestLinkedStatus(watcher.inc))
      PROVE  Identity'
  <2>1. /\ watcher.pc = "status" /\ watcher'.pc = "bump"
        /\ watcher'.inc = watcher.inc /\ watcher'.due = watcher.due
        /\ UNCHANGED <<inc, linked, run, overruled, task, handler>>
    BY <1>0, <1>7 DEF Decide, WatcherState, tables, gate
  <2>2. EscalatedIsIdle'
    <3> SUFFICES ASSUME NEW r \in Run, Live(r), r \notin overruled,
                        task[r].inc = watcher.inc
                 PROVE  FALSE
      BY <2>1 DEF EscalatedIsIdle, Live
    <3>1. LatestLinkedStatus(watcher.inc) = run[r] /\ run[r] \in InFlightStatuses
      BY DEF LatestLinkedStatus, Identity, LiveIsNewest, LiveInFlight, HasRun, Newest
    <3> QED
      BY <1>7, <3>1 DEF EscalationDue
  <2>3. ToLinkIsFresh' /\ ToLinkIsOwn' /\ NewestIsOwn'
    BY <2>1 DEF Identity, ToLinkIsFresh, ToLinkIsOwn, NewestIsOwn, Live, HasRun, Newest
  <2>4. LiveInFlight' /\ LiveIsNewest' /\ Unstarted'
    BY <2>1
    DEF Identity, LiveInFlight, LiveIsNewest, Unstarted, Investigating, Live, HasRun, Newest
  <2> QED
    BY <2>2, <2>3, <2>4 DEF Identity
<1>8. CASE Decide
  BY <1>1, <1>2, <1>7, <1>8, CalmSteps DEF Decide, tables, gate
<1>9. CASE BumpEscalations \/ SetVerifyDeadline
  <2>1. /\ watcher.pc \in {"bump", "arm"} /\ WatcherCalm
        /\ UNCHANGED <<linked, run, overruled, task, handler>>
    BY <1>0, <1>9 DEF BumpEscalations, SetVerifyDeadline, WatcherCalm, WatcherState, gate
  <2>2. \A i \in Incident : i # watcher.inc => inc'[i] = inc[i]
    BY <1>9 DEF BumpEscalations, SetVerifyDeadline, IInv, TypeOK
  <2>3. DeadlinesCalm
    BY <2>1, <2>2 DEF DeadlinesCalm, Identity, Unstarted
  <2> QED
    BY <1>1, <2>1, <2>3
<1>10. CASE WatcherFails
  BY <1>1, <1>2, <1>10, CalmSteps DEF WatcherFails, tables, gate
<1> QED
  BY <1>3, <1>4, <1>5, <1>6, <1>8, <1>9, <1>10,
     CreateEscalationIdentity, LinkEscalationIdentity DEF WatcherStep

LEMMA PostIdentity ==
  ASSUME IInv, Identity, Begun, NEW o \in Operator,
         \/ \E p \in Approval, d \in {"approved", "denied"} : PostDecide(o, p, d)
         \/ PostStep(o) \/ PostFails(o)
  PROVE  Identity'
<1>1. ASSUME UNCHANGED <<inc, linked, run, overruled, handler, task, watcher>>
      PROVE  Identity'
  BY <1>1, CalmSteps, CalmIdentity
<1>2. CASE PostSettle(o)
  <2>1. PICK r \in Run : r = approval[post[o].approval].run /\ run[r] \notin {"absent", "queued"}
    BY <1>2 DEF PostSettle, Begun, PostsAsked, AskersBegun
  <2>2. /\ overruled' = overruled \cup {q \in Run : q = r /\ Live(q)}
        /\ run'[r] # "absent" /\ \A q \in Run : q # r => run'[q] = run[q]
        /\ UNCHANGED <<inc, linked, handler, task, watcher>>
    BY <1>2, <2>1 DEF PostSettle, IInv, TypeOK
  <2>3. \A q \in Run : RunCalm(q)
    BY <2>1, <2>2 DEF RunCalm, Live
  <2> QED
    BY <2>2, <2>3, CalmSteps, CalmIdentity
<1> QED
  BY <1>1, <1>2 DEF PostDecide, PostStep, PostResolve, PostFails

LEMMA IdentityStep ==
  ASSUME IInv, Identity, Begun, [Next]_vars
  PROVE  Identity'
<1>1. ASSUME UNCHANGED <<linked, run, overruled, task, watcher>>, DeadlinesCalm,
             \A h \in Handler : HandlerCalm(h)
      PROVE  Identity'
  BY <1>1, CalmSteps, CalmIdentity
<1>2. ASSUME NEW k \in Key, AlertFires(k) \/ AlertClears(k) \/ AlertRepeats(k)
      PROVE  Identity'
  BY <1>1, <1>2, CalmSteps DEF AlertFires, AlertClears, AlertRepeats, tables, gate
<1>3. ASSUME NEW i \in Incident, DeadlinePasses(i)
      PROVE  Identity'
  <2>1. inc[i].deadline = "ahead" /\ \A j \in Incident : j # i => inc'[j] = inc[j]
    BY <1>3 DEF DeadlinePasses, IInv, TypeOK
  <2>2. DeadlinesCalm
    BY <2>1 DEF DeadlinesCalm, Identity, Unstarted
  <2> QED
    BY <1>1, <1>3, <2>2, CalmSteps DEF DeadlinePasses, gate
<1>4. ASSUME NEW h \in Handler, NEW k \in Key, NEW s \in {"firing", "resolved"},
             Receive(h, k, s)
      PROVE  Identity'
  <2>1. /\ handler'[h].pc = "lookup"
        /\ \A g \in Handler : g # h => handler'[g] = handler[g]
    BY <1>4 DEF Receive, IInv, TypeOK, IdleHandler
  <2>2. \A g \in Handler : HandlerCalm(g)
    BY <2>1 DEF HandlerCalm
  <2> QED
    BY <1>1, <1>4, <2>2, CalmSteps DEF Receive, tables, gate
<1>6. CASE Restart
  <2>1. /\ \A h \in Handler : HandlerCalm(h)
        /\ \A r \in Run : TaskKept(r) /\ RunCalm(r)
        /\ WatcherCalm
    BY <1>6
    DEF Restart, HandlerCalm, TaskKept, RunCalm, WatcherCalm, IdleHandler, NoTask,
        SleepingWatcher, IInv, TypeOK
  <2> QED
    BY <1>6, <2>1, CalmSteps, CalmIdentity DEF Restart
<1>7. CASE UNCHANGED vars
  BY <1>1, <1>7, CalmSteps DEF vars
<1> QED
  BY <1>2, <1>3, <1>4, <1>6, <1>7, HandlerIdentity, TaskIdentity, PostIdentity, WatcherIdentity
  DEF Next

-----------------------------------------------------------------------------
(* A session, and whoever asked for an approval, has begun.                *)

\* a run does not fall back, and what executed still does or is over
RunOnward(r) ==
  /\ run[r] \notin {"absent", "queued"} => run'[r] \notin {"absent", "queued"}
  /\ task'[r].pc \notin {"none", "begin", "end"} =>
       \/ task[r].pc \notin {"none", "begin", "end"}
       \/ run'[r] \notin {"absent", "queued"}
  /\ faults' = 0 /\ run[r] \notin {"absent", "queued"} /\ (Live(r) \/ run[r] \in Over)
       => Live(r)' \/ run'[r] \in Over

\* an approval stays, and a new one belongs to a session that goes on
ApprovalOnward(p) ==
  /\ approval[p].decision # "absent" =>
       approval'[p].decision # "absent" /\ approval'[p].run = approval[p].run
  /\ approval[p].decision = "absent" /\ approval'[p].decision # "absent" =>
       /\ approval'[p].run \in Run
       /\ run'[approval'[p].run] \notin {"absent", "queued"}
       /\ task'[approval'[p].run].pc # "none"

\* a decision stays with the approval it is about
PostOnward(o) ==
  post'[o].pc \in {"resolve", "settle"} =>
    \/ post[o].pc \in {"resolve", "settle"} /\ post'[o].approval = post[o].approval
    \/ post'[o].approval \in Approval /\ approval[post'[o].approval].decision # "absent"

LEMMA BegunFrame ==
  ASSUME IInv, Begun, faults' = 0 => faults = 0,
         \A r \in Run : RunOnward(r),
         \A p \in Approval : ApprovalOnward(p),
         \A o \in Operator : PostOnward(o)
  PROVE  Begun'
<1>1. SessionsBegun'
  BY DEF Begun, SessionsBegun, RunOnward
<1>2. AskersBegun'
  <2> SUFFICES ASSUME NEW p \in Approval, approval'[p].decision # "absent"
               PROVE  /\ approval'[p].run \in Run
                      /\ run'[approval'[p].run] \notin {"absent", "queued"}
                      /\ faults' = 0 =>
                           Live(approval[p].run)' \/ run'[approval'[p].run] \in Over
    BY DEF AskersBegun
  <2>1. CASE approval[p].decision = "absent"
    BY <2>1 DEF ApprovalOnward, Live
  <2>2. CASE approval[p].decision # "absent"
    <3>1. approval'[p].run = approval[p].run /\ approval[p].run \in Run
      BY <2>2 DEF ApprovalOnward, Begun, AskersBegun
    <3>2. /\ run[approval[p].run] \notin {"absent", "queued"}
          /\ faults = 0 => Live(approval[p].run) \/ run[approval[p].run] \in Over
      BY <2>2 DEF Begun, AskersBegun
    <3> QED
      BY <3>1, <3>2 DEF RunOnward, Live
  <2> QED
    BY <2>1, <2>2
<1>3. PostsAsked'
  BY DEF Begun, PostsAsked, PostOnward, ApprovalOnward
<1> QED
  BY <1>1, <1>2, <1>3 DEF Begun

LEMMA OnwardSteps ==
  /\ UNCHANGED <<run, task>> => \A r \in Run : RunOnward(r)
  /\ UNCHANGED approval => \A p \in Approval : ApprovalOnward(p)
  /\ UNCHANGED post => \A o \in Operator : PostOnward(o) \/ ~PostsAsked
BY DEF RunOnward, ApprovalOnward, PostOnward, PostsAsked, Live

LEMMA TaskBegun ==
  ASSUME IInv, Begun, NEW r \in Run, TaskStep(r) \/ TaskFails(r)
  PROVE  Begun'
<1>0. /\ task \in [Run -> TaskState] /\ run \in [Run -> RunStatus] /\ faults \in Nat
      /\ approval \in [Approval -> ApprovalRow] /\ task[r] \in TaskState
  BY ConstantsAssumption DEF IInv, TypeOK
<1>1. ASSUME Live(r), UNCHANGED post, faults' = 0 => faults = 0,
             \A p \in Approval : ApprovalOnward(p),
             \A q \in Run : q # r => run'[q] = run[q] /\ task'[q] = task[q],
             run'[r] = run[r] \/ run'[r] \notin {"absent", "queued"},
             task'[r].pc # "none" \/ run'[r] \in Over \/ faults' # 0,
             \/ task'[r].pc \in {"none", "begin", "end"}
             \/ task[r].pc \notin {"none", "begin", "end"}
             \/ run'[r] \notin {"absent", "queued"}
      PROVE  Begun'
  <2>1. \A q \in Run : RunOnward(q)
    BY <1>1 DEF RunOnward, Live
  <2> QED
    BY <1>1, <2>1, BegunFrame, OnwardSteps DEF Begun
<1>2. CASE InsertApproval(r)
  <2>1. PICK n \in Approval : n = Unasked /\ approval[n].decision = "absent"
    BY <1>2 DEF InsertApproval, Unasked
  <2>2. /\ task[r].pc = "session" /\ task'[r].pc = "inserted"
        /\ \A q \in Run : q # r => task'[q] = task[q]
        /\ UNCHANGED <<run, post, faults>>
    BY <1>0, <1>2 DEF InsertApproval, Asks, TaskState
  <2>3. /\ approval'[n].run = r /\ \A p \in Approval : p # n => approval'[p] = approval[p]
    BY <1>0, <1>2, <2>1 DEF InsertApproval
  <2>4. \A p \in Approval : ApprovalOnward(p)
    BY <2>1, <2>2, <2>3 DEF ApprovalOnward, Begun, SessionsBegun
  <2> QED
    BY <1>1, <2>2, <2>4 DEF Live
<1>3. CASE RecordRemediation(r)
  <2>1. \A p \in Approval : /\ approval'[p].run = approval[p].run
                            /\ approval'[p].decision = approval[p].decision
    BY <1>0, <1>3 DEF RecordRemediation, ApprovalRow
  <2>2. \A p \in Approval : ApprovalOnward(p)
    BY <2>1 DEF ApprovalOnward
  <2>3. /\ task[r].pc = "session" /\ task'[r].pc = "arming"
        /\ \A q \in Run : q # r => task'[q] = task[q]
        /\ UNCHANGED <<run, post, faults>>
    BY <1>0, <1>3 DEF RecordRemediation, Goto, TaskState
  <2> QED
    BY <1>1, <2>2, <2>3 DEF Live
<1>4. ASSUME UNCHANGED <<gate, run>>, faults' = faults \/ faults' = faults + 1,
             task[r].pc \notin {"none", "begin", "end"}, task'[r].pc # "none",
             \A q \in Run : q # r => task'[q] = task[q]
      PROVE  Begun'
  BY <1>0, <1>1, <1>4, OnwardSteps DEF gate, Live
<1>5. CASE Begin(r) \/ SetAwaiting(r) \/ SetRunning(r)
  <2>1. /\ Live(r) /\ UNCHANGED <<approval, post, faults>> /\ task'[r].pc # "none"
        /\ run'[r] \in {"running", "awaiting_approval"}
        /\ \A q \in Run : q # r => run'[q] = run[q] /\ task'[q] = task[q]
    BY <1>0, <1>5 DEF Begin, SetAwaiting, SetRunning, Goto, Live, TaskState, gate
  <2> QED
    BY <1>1, <2>1, OnwardSteps
<1>6. CASE Park(r)
  <2>1. /\ Live(r) /\ UNCHANGED <<run, approval, post, faults>>
        /\ task[r].pc = "announce" /\ task'[r].pc = "parked"
        /\ \A q \in Run : q # r => task'[q] = task[q]
    BY <1>0, <1>6 DEF Park, Goto, Live, TaskState
  <2> QED
    BY <1>1, <2>1, OnwardSteps
<1>7. CASE Resume(r)
  <2>1. /\ task[r].pc = "parked" /\ task'[r].pc \in {"resumed", "session"}
        /\ \A q \in Run : q # r => task'[q] = task[q]
        /\ UNCHANGED <<gate, run, faults>>
    BY <1>0, <1>7 DEF Resume, Asks, TaskState, tables
  <2> QED
    BY <1>4, <2>1
<1>8. CASE ArmAfterRemediation(r) \/ CloseResolves(r) \/ CloseArms(r) \/ CloseGuard(r)
  <2>1. /\ task[r].pc \notin {"none", "begin", "end"} /\ task'[r].pc # "none"
        /\ \A q \in Run : q # r => task'[q] = task[q]
        /\ UNCHANGED <<gate, run, faults>>
    BY <1>0, <1>8
    DEF ArmAfterRemediation, CloseResolves, CloseArms, CloseGuard, Goto, TaskState, tables
  <2> QED
    BY <1>4, <2>1
<1>9. ASSUME NEW label \in {"guard", "query", "act"},
             task[r].pc \notin {"none", "begin", "end"},
             UNCHANGED <<gate, run, faults>>,
             \/ \E decision : Decided(r, label, decision)
             \/ \E outcome : task' = [task EXCEPT ![r] =
                               [task[r] EXCEPT !.pc = label, !.outcome = outcome]]
      PROVE  Begun'
  <2>1. ASSUME NEW decision, Decided(r, label, decision)
        PROVE  task'[r].pc = label /\ \A q \in Run : q # r => task'[q] = task[q]
    BY <1>0, <2>1 DEF Decided, TaskState
  <2>2. ASSUME NEW outcome, task' = [task EXCEPT ![r] =
                               [task[r] EXCEPT !.pc = label, !.outcome = outcome]]
        PROVE  task'[r].pc = label /\ \A q \in Run : q # r => task'[q] = task[q]
    BY <1>0, <2>2 DEF TaskState
  <2>3. task'[r].pc # "none" /\ \A q \in Run : q # r => task'[q] = task[q]
    BY <1>9, <2>1, <2>2
  <2> QED
    BY <1>4, <1>9, <2>3
<1>12. CASE CloseEvidence(r) \/ CloseQuery(r) \/ \E outcome : SessionEnds(r, outcome)
  BY <1>9, <1>12 DEF CloseEvidence, CloseQuery, SessionEnds, tables
<1>10. CASE End(r)
  <2>1. /\ Live(r) /\ UNCHANGED <<approval, post, faults>>
        /\ task'[r].pc = "none" /\ run'[r] \in Over
        /\ \A q \in Run : q # r => run'[q] = run[q] /\ task'[q] = task[q]
    BY <1>0, <1>10 DEF End, Live, TaskState, NoTask, Over, gate
  <2> QED
    BY <1>1, <2>1, OnwardSteps DEF Over
<1>11. CASE TaskFails(r)
  <2>1. /\ Live(r) /\ UNCHANGED <<run, approval, post>> /\ faults' # 0
    BY <1>0, <1>11 DEF TaskFails, Live, tables, gate
  <2>2. \A q \in Run : q # r => task'[q] = task[q]
    BY <1>0, <1>11 DEF TaskFails, Asks
  <2>3. \/ task'[r].pc \in {"none", "begin", "end"}
        \/ task[r].pc \notin {"none", "begin", "end"}
    <3>1. CASE task[r].pc \in {"begin", "end", "none"}
      <4>1. CASE task' = [task EXCEPT ![r] = NoTask]
        BY <1>0, <4>1 DEF NoTask
      <4>2. CASE task' = [task EXCEPT ![r] = [task[r] EXCEPT !.pc = "end",
                                                             !.outcome = "failed"]]
        BY <1>0, <4>2 DEF TaskState
      <4> QED
        BY <1>11, <3>1, <4>1, <4>2 DEF TaskFails
    <3> QED
      BY <3>1
  <2> QED
    BY <1>1, <2>1, <2>2, <2>3, OnwardSteps
<1> QED
  BY <1>2, <1>3, <1>5, <1>6, <1>7, <1>8, <1>10, <1>11, <1>12 DEF TaskStep

LEMMA PostBegun ==
  ASSUME IInv, Begun, NEW o \in Operator,
         \/ \E p \in Approval, d \in {"approved", "denied"} : PostDecide(o, p, d)
         \/ PostStep(o) \/ PostFails(o)
  PROVE  Begun'
<1>0. /\ run \in [Run -> RunStatus] /\ faults \in Nat
      /\ approval \in [Approval -> ApprovalRow] /\ post \in [Operator -> PostState]
      /\ post[o] \in PostState
  BY ConstantsAssumption DEF IInv, TypeOK
<1>1. ASSUME UNCHANGED <<run, approval, task>>, faults' = faults \/ faults' = faults + 1,
             \A q \in Operator : PostOnward(q)
      PROVE  Begun'
  BY <1>0, <1>1, BegunFrame, OnwardSteps
<1>2. ASSUME post' = [post EXCEPT ![o] = Answered]
      PROVE  \A q \in Operator : PostOnward(q)
  BY <1>0, <1>2 DEF PostOnward, Answered, NoPost
<1>3. ASSUME NEW p \in Approval, NEW d \in {"approved", "denied"}, PostDecide(o, p, d)
      PROVE  Begun'
  <2>1. /\ approval[p].decision # "absent" /\ UNCHANGED <<run, task, faults>>
        /\ post' = [post EXCEPT ![o] =
                     [pc |-> "resolve", approval |-> p, decision |-> d,
                      recorded |-> approval[p].decision = "null"]]
        /\ approval' = [approval EXCEPT ![p] =
             [approval[p] EXCEPT !.decision = IF @ = "null" THEN d ELSE @]]
    BY <1>3 DEF PostDecide
  <2>2. \A q \in Operator : PostOnward(q)
    BY <1>0, <2>1 DEF PostOnward
  <2>3. \A q \in Approval : ApprovalOnward(q)
    BY <1>0, <2>1 DEF ApprovalOnward, ApprovalRow
  <2> QED
    BY <1>3, <2>1, <2>2, <2>3, BegunFrame, OnwardSteps
<1>4. CASE PostResolve(o)
  <2>1. \A q \in Operator : PostOnward(q)
    <3>1. CASE post' = [post EXCEPT ![o] = Answered]
      BY <1>2, <3>1
    <3>2. CASE post' = [post EXCEPT ![o] = [post[o] EXCEPT !.pc = "settle"]]
      BY <1>0, <1>4, <3>2 DEF PostResolve, PostOnward, PostState
    <3> QED
      BY <1>4, <3>1, <3>2 DEF PostResolve
  <2> QED
    BY <1>1, <1>4, <2>1 DEF PostResolve
<1>5. CASE PostSettle(o)
  <2>1. PICK r \in Run : r = approval[post[o].approval].run
    BY <1>5 DEF PostSettle, Begun, PostsAsked, AskersBegun
  <2>2. /\ run'[r] \in Over /\ \A q \in Run : q # r => run'[q] = run[q]
        /\ UNCHANGED <<approval, task, faults>>
    BY <1>0, <1>5, <2>1 DEF PostSettle, Over
  <2>3. \A q \in Run : RunOnward(q)
    BY <2>2 DEF RunOnward, Live, Over
  <2>4. \A q \in Operator : PostOnward(q)
    BY <1>2, <1>5 DEF PostSettle
  <2> QED
    BY <2>2, <2>3, <2>4, BegunFrame, OnwardSteps
<1>6. CASE PostFails(o)
  BY <1>1, <1>2, <1>6 DEF PostFails
<1> QED
  BY <1>3, <1>4, <1>5, <1>6 DEF PostStep

LEMMA BegunStep ==
  ASSUME IInv, Identity, Begun, [Next]_vars
  PROVE  Begun'
<1>0. /\ task \in [Run -> TaskState] /\ run \in [Run -> RunStatus] /\ faults \in Nat
  BY ConstantsAssumption DEF IInv, TypeOK
<1>1. ASSUME UNCHANGED <<approval, post>>, faults' = faults \/ faults' = faults + 1,
             \A r \in Run : RunOnward(r)
      PROVE  Begun'
  BY <1>0, <1>1, BegunFrame, OnwardSteps DEF Begun
<1>2. ASSUME UNCHANGED <<run, gate, task>>, faults' = faults \/ faults' = faults + 1
      PROVE  Begun'
  BY <1>1, <1>2, OnwardSteps DEF gate
<1>3. ASSUME NEW k \in Key, AlertFires(k) \/ AlertClears(k) \/ AlertRepeats(k)
      PROVE  Begun'
  BY <1>2, <1>3 DEF AlertFires, AlertClears, AlertRepeats, tables
<1>4. ASSUME NEW i \in Incident, DeadlinePasses(i) PROVE Begun'
  BY <1>2, <1>4 DEF DeadlinePasses
<1>5. ASSUME NEW h \in Handler, NEW k \in Key, NEW s \in {"firing", "resolved"},
             Receive(h, k, s)
      PROVE  Begun'
  BY <1>2, <1>5 DEF Receive, tables
<1>6. ASSUME \E r \in Run : run[r] = "absent", run' = [run EXCEPT ![NewRun] = "queued"],
             UNCHANGED <<gate, task, faults>>
      PROVE  Begun'
  <2>1. NewRun \in Run /\ run[NewRun] = "absent"
    BY <1>6 DEF NewRun
  <2>2. task[NewRun].pc \in {"none", "begin", "end"}
    BY <2>1 DEF Begun, SessionsBegun
  <2>3. \A r \in Run : RunOnward(r)
    BY <1>0, <1>6, <2>1, <2>2 DEF RunOnward, Live
  <2> QED
    BY <1>1, <1>6, <2>3 DEF gate
<1>7. ASSUME NEW r \in Run, NEW i, StartTask(r, i), UNCHANGED <<gate, run, faults>>
      PROVE  Begun'
  <2>1. /\ task'[r].pc = "begin"
        /\ \A q \in Run : q # r => task'[q] = task[q]
    BY <1>0, <1>7 DEF StartTask, NoTask
  <2>2. \A q \in Run : RunOnward(q)
    BY <1>7, <2>1 DEF RunOnward, Live
  <2> QED
    BY <1>1, <1>7, <2>2 DEF gate
<1>8. ASSUME NEW h \in Handler, HandlerStep(h) \/ HandlerFails(h) PROVE Begun'
  <2>1. CASE CreateRun(h)
    BY <1>6, <2>1 DEF CreateRun
  <2>2. CASE LinkRun(h)
    <3>1. handler[h].run \in Run
      BY <2>2 DEF LinkRun, IInv, RowsExist
    <3> QED
      BY <1>7, <2>2, <3>1 DEF LinkRun
  <2> QED
    BY <1>2, <1>8, <2>1, <2>2
    DEF HandlerStep, LookupSpawn, LookupIgnore, LookupFound, CreateIncident, CreateConflict,
        RefetchFound, RefetchIgnore, AttachNew, AttachFiring, AttachResolved, CloseByWebhook,
        HandlerFails, tables
<1>9. CASE WatcherStep \/ WatcherFails
  <2>1. CASE CreateEscalationRun
    BY <1>6, <2>1 DEF CreateEscalationRun
  <2>2. CASE LinkEscalationRun
    <3>1. watcher.run \in Run
      BY <2>2 DEF LinkEscalationRun, IInv, RowsExist
    <3> QED
      BY <1>7, <2>2, <3>1 DEF LinkEscalationRun
  <2> QED
    BY <1>2, <1>9, <2>1, <2>2
    DEF WatcherStep, Poll, Sleep, NextDue, ReadAlertState, Decide, BumpEscalations,
        SetVerifyDeadline, WatcherFails, tables
<1>10. CASE Restart
  <2>1. faults' # 0 /\ UNCHANGED approval
    BY <1>0, <1>10 DEF Restart
  <2>2. \A r \in Run : RunOnward(r)
    BY <1>0, <1>10, <2>1 DEF Restart, RunOnward, NoTask
  <2>3. \A o \in Operator : PostOnward(o)
    BY <1>10 DEF Restart, PostOnward, NoPost, Answered
  <2> QED
    BY <2>1, <2>2, <2>3, BegunFrame, OnwardSteps
<1>11. CASE UNCHANGED vars
  BY <1>2, <1>11 DEF vars, gate
<1> QED
  BY <1>3, <1>4, <1>5, <1>8, <1>9, <1>10, <1>11, TaskBegun, PostBegun DEF Next

-----------------------------------------------------------------------------
(* Verified incidents were remediated.                                     *)

LEMMA EvidenceFrame ==
  ASSUME EvidenceStands, VerifiedWasRemediated, remediated \subseteq remediated',
         \A i \in Incident :
           inc'[i].by = "verified" => inc[i].by = "verified" \/ i \in remediated',
         \A r \in Run : Live(r)' /\ task'[r].decision \in {"remediated", "verify"} =>
           \/ task'[r].inc \in remediated'
           \/ /\ Live(r) /\ task'[r].inc = task[r].inc
              /\ task'[r].decision = task[r].decision
  PROVE  EvidenceStands' /\ VerifiedWasRemediated'
BY DEF EvidenceStands, VerifiedWasRemediated

LEMMA TaskEvidence ==
  ASSUME IInv, EvidenceStands, VerifiedWasRemediated,
         NEW r \in Run, TaskStep(r) \/ TaskFails(r)
  PROVE  EvidenceStands' /\ VerifiedWasRemediated'
<1>0. /\ task \in [Run -> TaskState] /\ inc \in [Incident -> IncidentRow]
      /\ task[r] \in TaskState
  BY DEF IInv, TypeOK
<1>1. ASSUME Live(r), UNCHANGED inc, remediated \subseteq remediated',
             \/ task' = [task EXCEPT ![r] = NoTask]
             \/ \E label : Goto(r, label)
             \/ \E label, p : Asks(r, label, p)
             \/ \E label, outcome :
                  task' = [task EXCEPT ![r] = [task[r] EXCEPT !.pc = label,
                                                              !.outcome = outcome]]
      PROVE  EvidenceStands' /\ VerifiedWasRemediated'
  <2>1. \A q \in Run : q # r => task'[q] = task[q]
    BY <1>0, <1>1 DEF Goto, Asks
  <2>2. \/ task'[r].pc = "none"
        \/ task'[r].inc = task[r].inc /\ task'[r].decision = task[r].decision
    <3>1. CASE task' = [task EXCEPT ![r] = NoTask]
      BY <1>0, <3>1 DEF NoTask
    <3>2. ASSUME NEW label, Goto(r, label)
          PROVE  task'[r].inc = task[r].inc /\ task'[r].decision = task[r].decision
      BY <1>0, <3>2 DEF Goto, TaskState
    <3>3. ASSUME NEW label, NEW outcome,
                 task' = [task EXCEPT ![r] = [task[r] EXCEPT !.pc = label,
                                                             !.outcome = outcome]]
          PROVE  task'[r].inc = task[r].inc /\ task'[r].decision = task[r].decision
      BY <1>0, <3>3 DEF TaskState
    <3>4. ASSUME NEW label, NEW p, Asks(r, label, p)
          PROVE  task'[r].inc = task[r].inc /\ task'[r].decision = task[r].decision
      BY <1>0, <3>4 DEF Asks, TaskState
    <3> QED
      BY <1>1, <3>1, <3>2, <3>3, <3>4
  <2>3. \A q \in Run : Live(q)' => /\ Live(q) /\ task'[q].inc = task[q].inc
                                  /\ task'[q].decision = task[q].decision
    BY <1>1, <2>1, <2>2 DEF Live
  <2> QED
    BY <1>1, <2>3, EvidenceFrame DEF Live
<1>2. CASE Begin(r) \/ SetAwaiting(r) \/ SetRunning(r) \/ RecordRemediation(r)
  BY <1>1, <1>2 DEF Begin, SetAwaiting, SetRunning, RecordRemediation, Live
<1>3. CASE InsertApproval(r) \/ Park(r) \/ Resume(r)
  BY <1>1, <1>3 DEF InsertApproval, Park, Resume, Live, tables
<1>4. CASE CloseGuard(r) \/ \E outcome \in {"completed", "failed"} : SessionEnds(r, outcome)
  BY <1>1, <1>4 DEF CloseGuard, SessionEnds, Live, tables
<1>5. CASE End(r)
  BY <1>1, <1>5 DEF End, Live
<1>6. CASE TaskFails(r)
  BY <1>1, <1>6 DEF TaskFails, Goto, Live, tables
<1>7. ASSUME NEW label, NEW decision, Decided(r, label, decision), Live(r),
             decision \in {"remediated", "verify"} => task[r].inc \in remediated,
             UNCHANGED <<inc, remediated>>
      PROVE  EvidenceStands' /\ VerifiedWasRemediated'
  <2>1. /\ task'[r].inc = task[r].inc /\ task'[r].decision = decision
        /\ \A q \in Run : q # r => task'[q] = task[q]
    BY <1>0, <1>7 DEF Decided, TaskState
  <2>2. \A q \in Run : Live(q)' /\ task'[q].decision \in {"remediated", "verify"} =>
          \/ task'[q].inc \in remediated
          \/ /\ Live(q) /\ task'[q].inc = task[q].inc
             /\ task'[q].decision = task[q].decision
    BY <1>7, <2>1 DEF Live
  <2> QED
    BY <1>7, <2>2, EvidenceFrame DEF Live
<1>8. CASE CloseEvidence(r)
  <2>1. PICK decision \in {"remediated", "unremediated"} :
          /\ Decided(r, "query", decision)
          /\ decision = "remediated" => task[r].inc \in remediated
    BY <1>8 DEF CloseEvidence
  <2> QED
    BY <1>7, <1>8, <2>1 DEF CloseEvidence, Live, tables
<1>9. CASE CloseQuery(r)
  <2>1. PICK answer : Decided(r, "act",
                              ClosingDecision(task[r].decision = "remediated", answer))
    BY <1>9 DEF CloseQuery
  <2>2. PICK decision : decision = ClosingDecision(task[r].decision = "remediated", answer)
    OBVIOUS
  <2>3. decision # "remediated" /\ (decision = "verify" => task[r].decision = "remediated")
    BY <2>2 DEF ClosingDecision
  <2>4. Live(r) /\ UNCHANGED <<inc, remediated>>
    BY <1>9 DEF CloseQuery, Live, tables
  <2> QED
    BY <1>7, <2>1, <2>2, <2>3, <2>4 DEF EvidenceStands
<1>10. ASSUME Live(r), Goto(r, task'[r].pc), UNCHANGED remediated,
              \A i \in Incident : inc'[i].by = "verified" =>
                inc[i].by = "verified" \/ i \in remediated
       PROVE  EvidenceStands' /\ VerifiedWasRemediated'
  <2>1. /\ task'[r].inc = task[r].inc /\ task'[r].decision = task[r].decision
        /\ \A q \in Run : q # r => task'[q] = task[q]
    BY <1>0, <1>10 DEF Goto, TaskState
  <2> QED
    BY <1>10, <2>1, EvidenceFrame DEF Live
<1>11. CASE ArmAfterRemediation(r) \/ CloseArms(r)
  <2>1. \A i \in Incident : inc'[i].by = inc[i].by
    BY <1>0, <1>11 DEF ArmAfterRemediation, CloseArms, Ensured, IncidentRow
  <2>2. Goto(r, task'[r].pc)
    BY <1>0, <1>11 DEF ArmAfterRemediation, CloseArms, Goto, TaskState
  <2> QED
    BY <1>10, <1>11, <2>1, <2>2 DEF ArmAfterRemediation, CloseArms, Live
<1>12. CASE CloseResolves(r)
  <2>1. \A i \in Incident : inc'[i].by = "verified" =>
          \/ inc[i].by = "verified"
          \/ i = task[r].inc /\ task[r].decision = "verify"
    BY <1>0, <1>12 DEF CloseResolves, Resolved, IncidentRow
  <2>2. Goto(r, task'[r].pc)
    BY <1>0, <1>12 DEF CloseResolves, Goto, TaskState
  <2> QED
    BY <1>10, <1>12, <2>1, <2>2 DEF CloseResolves, Live, EvidenceStands
<1> QED
  BY <1>2, <1>3, <1>4, <1>5, <1>6, <1>8, <1>9, <1>11, <1>12 DEF TaskStep

LEMMA EvidenceStep ==
  ASSUME IInv, EvidenceStands, VerifiedWasRemediated, [Next]_vars
  PROVE  EvidenceStands' /\ VerifiedWasRemediated'
<1>0. task \in [Run -> TaskState] /\ inc \in [Incident -> IncidentRow]
  BY DEF IInv, TypeOK
<1>1. ASSUME UNCHANGED <<remediated, task>>,
             \A i \in Incident : inc'[i].by = "verified" => inc[i].by = "verified"
      PROVE  EvidenceStands' /\ VerifiedWasRemediated'
  BY <1>1, EvidenceFrame DEF Live
<1>2. ASSUME NEW k \in Key, AlertFires(k) \/ AlertClears(k) \/ AlertRepeats(k)
      PROVE  EvidenceStands' /\ VerifiedWasRemediated'
  BY <1>1, <1>2 DEF AlertFires, AlertClears, AlertRepeats, tables
<1>3. ASSUME NEW i \in Incident, DeadlinePasses(i)
      PROVE  EvidenceStands' /\ VerifiedWasRemediated'
  <2>1. \A j \in Incident : inc'[j].by = inc[j].by
    BY <1>0, <1>3 DEF DeadlinePasses, IncidentRow
  <2> QED
    BY <1>1, <1>3, <2>1 DEF DeadlinePasses
<1>4. ASSUME NEW h \in Handler, NEW k \in Key, NEW s \in {"firing", "resolved"},
             Receive(h, k, s)
      PROVE  EvidenceStands' /\ VerifiedWasRemediated'
  BY <1>1, <1>4 DEF Receive, tables
<1>5. ASSUME NEW r \in Run, NEW i, StartTask(r, i), UNCHANGED <<inc, remediated>>
      PROVE  EvidenceStands' /\ VerifiedWasRemediated'
  <2>1. /\ task'[r].decision = "none"
        /\ \A q \in Run : q # r => task'[q] = task[q]
    BY <1>0, <1>5 DEF StartTask, NoTask
  <2> QED
    BY <1>5, <2>1, EvidenceFrame DEF Live
<1>6. ASSUME NEW h \in Handler, HandlerStep(h) \/ HandlerFails(h)
      PROVE  EvidenceStands' /\ VerifiedWasRemediated'
  <2>1. CASE CreateIncident(h)
    <3>1. \A i \in Incident : inc'[i].by = "verified" => inc[i].by = "verified"
      BY <1>0, <2>1 DEF CreateIncident, NoIncident
    <3> QED
      BY <1>1, <2>1, <3>1 DEF CreateIncident
  <2>2. CASE CloseByWebhook(h)
    <3>1. \A i \in Incident : inc'[i].by = "verified" => inc[i].by = "verified"
      BY <1>0, <2>2 DEF CloseByWebhook, Resolved, IncidentRow
    <3> QED
      BY <1>1, <2>2, <3>1 DEF CloseByWebhook
  <2>3. CASE LinkRun(h)
    <3>1. handler[h].run \in Run
      BY <2>3 DEF LinkRun, IInv, RowsExist
    <3> QED
      BY <1>5, <2>3, <3>1 DEF LinkRun
  <2> QED
    BY <1>1, <1>6, <2>1, <2>2, <2>3
    DEF HandlerStep, LookupSpawn, LookupIgnore, LookupFound, CreateConflict, RefetchFound,
        RefetchIgnore, AttachNew, AttachFiring, AttachResolved, CreateRun, HandlerFails, tables
<1>7. CASE WatcherStep \/ WatcherFails
  <2>1. CASE LinkEscalationRun
    <3>1. watcher.run \in Run
      BY <2>1 DEF LinkEscalationRun, IInv, RowsExist
    <3> QED
      BY <1>5, <2>1, <3>1 DEF LinkEscalationRun
  <2>2. CASE BumpEscalations \/ SetVerifyDeadline
    <3>1. \A i \in Incident : inc'[i].by = inc[i].by
      BY <1>0, <2>2 DEF BumpEscalations, SetVerifyDeadline, IncidentRow
    <3> QED
      BY <1>1, <2>2, <3>1 DEF BumpEscalations, SetVerifyDeadline
  <2> QED
    BY <1>1, <1>7, <2>1, <2>2
    DEF WatcherStep, Poll, Sleep, NextDue, ReadAlertState, Decide, CreateEscalationRun,
        WatcherFails, tables
<1>8. ASSUME NEW o \in Operator,
             \/ \E p \in Approval, d \in {"approved", "denied"} : PostDecide(o, p, d)
             \/ PostStep(o) \/ PostFails(o)
      PROVE  EvidenceStands' /\ VerifiedWasRemediated'
  BY <1>1, <1>8 DEF PostDecide, PostStep, PostResolve, PostSettle, PostFails
<1>9. CASE Restart
  BY <1>9, EvidenceFrame DEF Restart, NoTask, Live
<1>10. CASE UNCHANGED vars
  BY <1>1, <1>10 DEF vars
<1> QED
  BY <1>2, <1>3, <1>4, <1>6, <1>7, <1>8, <1>9, <1>10, TaskEvidence DEF Next

-----------------------------------------------------------------------------
(* An incident whose newest run is over is armed.                           *)

Armed(i) == ~Open(i) \/ inc[i].deadline # "unset"

Settled(i) == NewestIsOver(i)

\* what was executing still is
LiveKept == \A r \in Run : Live(r) => Live(r)'

\* nothing disarms an incident that exists
ArmedKept == \A i \in Incident : inc[i].status # "absent" /\ Armed(i) => Armed(i)'

\* Only an incident that exists is settled.
LEMMA SettledHasRun ==
  ASSUME FreshIsBlank, NEW i \in Incident, Settled(i)
  PROVE  HasRun(i) /\ inc[i].status # "absent"
<1>1. None \notin {"completed", "failed", "denied"}
  BY NoneAssumption DEF RunStatus
<1> QED
  BY <1>1 DEF Settled, NewestIsOver, LatestLinkedStatus, HasRun, FreshIsBlank

LEMMA ArmedFrame ==
  ASSUME IInv, EndIsArmed, SettledIsArmed, faults' = faults, ArmedKept,
         \A r \in Run, i \in Incident : task'[r].pc = "end" /\ task'[r].inc = i =>
           Armed(i)' \/ (task[r].pc = "end" /\ task[r].inc = i),
         \A i \in Incident : Settled(i)' => Settled(i) \/ Armed(i)'
  PROVE  EndIsArmed' /\ SettledIsArmed'
<1>1. EndIsArmed'
  <2> SUFFICES ASSUME faults = 0, NEW r \in Run, NEW i \in Incident,
                      task[r].pc = "end", task[r].inc = i
               PROVE  Armed(i)'
    BY DEF EndIsArmed, Armed
  <2>1. inc[i].status # "absent" /\ Armed(i)
    BY DEF IInv, RowsExist, Live, EndIsArmed, Armed
  <2> QED
    BY <2>1 DEF ArmedKept
<1>2. SettledIsArmed'
  <2> SUFFICES ASSUME faults = 0, NEW i \in Incident, Settled(i)
               PROVE  Armed(i)'
    BY DEF SettledIsArmed, Settled, Armed
  <2>1. Armed(i)
    BY DEF SettledIsArmed, Settled, Armed
  <2> QED
    BY <2>1, SettledHasRun DEF ArmedKept, IInv
<1> QED
  BY <1>1, <1>2

\* What the steps below have in common.
LEMMA ArmedSteps ==
  ASSUME IInv
  PROVE  /\ inc' = inc => ArmedKept
         /\ (\A i \in Incident : \/ inc'[i] = inc[i]
                                 \/ inc[i].status = "absent"
                                 \/ inc'[i].status = "resolved"
                                 \/ inc'[i].deadline # "unset") => ArmedKept
         /\ UNCHANGED <<linked, run>> /\ LiveKept =>
              \A i \in Incident : Settled(i)' => Settled(i)
<1>1. \A i \in Incident : HasRun(i) => Newest(i) \in Run
  BY DEF IInv, TypeOK, HasRun, Newest
<1>2. \A i \in Incident : Settled(i)' => HasRun(i)'
  BY NoneAssumption DEF Settled, NewestIsOver, LatestLinkedStatus, HasRun, RunStatus
<1>3. ASSUME UNCHANGED <<linked, run>>, LiveKept
      PROVE  \A i \in Incident : Settled(i)' => Settled(i)
  BY <1>1, <1>2, <1>3 DEF LiveKept, Settled, NewestIsOver, LatestLinkedStatus, HasRun, Newest
<1> QED
  BY <1>3 DEF ArmedKept, Armed, Open

\* A run that only gets a status of its beginning settles nothing.
LEMMA RunMovesUnsettled ==
  ASSUME IInv, NEW r \in Run, NEW s \in RunStatus \ {"completed", "failed", "denied"},
         run' = [run EXCEPT ![r] = s], UNCHANGED linked, LiveKept
  PROVE  \A i \in Incident : Settled(i)' => Settled(i)
<1> SUFFICES ASSUME NEW i \in Incident, Settled(i)'
             PROVE  Settled(i)
  OBVIOUS
<1>1. run \in [Run -> RunStatus]
  BY DEF IInv, TypeOK
<1>2. HasRun(i)
  BY NoneAssumption DEF Settled, NewestIsOver, LatestLinkedStatus, HasRun, RunStatus
<1>3. Newest(i) \in Run
  BY <1>2 DEF IInv, TypeOK, HasRun, Newest
<1> QED
  BY <1>1, <1>2, <1>3
  DEF Settled, NewestIsOver, LatestLinkedStatus, HasRun, Newest, LiveKept

LEMMA TaskArmed ==
  ASSUME IInv, Identity, EndIsArmed, SettledIsArmed, faults' = faults,
         NEW r \in Run, TaskStep(r)
  PROVE  EndIsArmed' /\ SettledIsArmed'
<1>0. /\ task \in [Run -> TaskState] /\ inc \in [Incident -> IncidentRow]
      /\ task[r] \in TaskState /\ run \in [Run -> RunStatus]
  BY DEF IInv, TypeOK
<1>a. ASSUME NEW label, label # "none",
             \/ Goto(r, label)
             \/ \E p : Asks(r, label, p)
             \/ \E decision : Decided(r, label, decision)
             \/ \E outcome : task' = [task EXCEPT ![r] =
                               [task[r] EXCEPT !.pc = label, !.outcome = outcome]]
      PROVE  /\ LiveKept /\ task'[r].pc = label
             /\ \A q \in Run : q # r => task'[q] = task[q]
  <2>1. ASSUME NEW p, Asks(r, label, p)
        PROVE  task'[r].pc = label /\ \A q \in Run : q # r => task'[q] = task[q]
    BY <1>0, <2>1 DEF Asks, TaskState
  <2>2. ASSUME NEW decision, Decided(r, label, decision)
        PROVE  task'[r].pc = label /\ \A q \in Run : q # r => task'[q] = task[q]
    BY <1>0, <2>2 DEF Decided, TaskState
  <2>3. ASSUME NEW outcome, task' = [task EXCEPT ![r] =
                               [task[r] EXCEPT !.pc = label, !.outcome = outcome]]
        PROVE  task'[r].pc = label /\ \A q \in Run : q # r => task'[q] = task[q]
    BY <1>0, <2>3 DEF TaskState
  <2>4. ASSUME Goto(r, label)
        PROVE  task'[r].pc = label /\ \A q \in Run : q # r => task'[q] = task[q]
    BY <1>0, <2>4 DEF Goto, TaskState
  <2>5. task'[r].pc = label /\ \A q \in Run : q # r => task'[q] = task[q]
    BY <1>a, <2>1, <2>2, <2>3, <2>4
  <2> QED
    BY <1>a, <2>5 DEF LiveKept, Live
<1>1. ASSUME NEW label, Goto(r, label), ArmedKept,
             \A i \in Incident : label = "end" /\ task[r].inc = i => Armed(i)',
             \A i \in Incident : Settled(i)' => Settled(i)
      PROVE  EndIsArmed' /\ SettledIsArmed'
  <2>1. /\ task'[r].pc = label /\ task'[r].inc = task[r].inc
        /\ \A q \in Run : q # r => task'[q] = task[q]
    BY <1>0, <1>1 DEF Goto, TaskState
  <2>2. \A q \in Run, i \in Incident : task'[q].pc = "end" /\ task'[q].inc = i =>
          Armed(i)' \/ (task[q].pc = "end" /\ task[q].inc = i)
    BY <1>1, <2>1
  <2> QED
    BY <1>1, <2>2, ArmedFrame
<1>2. ASSUME NEW s \in InFlightStatuses, run' = [run EXCEPT ![r] = s],
             UNCHANGED <<inc, linked>>, NEW label \in {"session", "announce"},
             Goto(r, label)
      PROVE  EndIsArmed' /\ SettledIsArmed'
  <2>1. s \in RunStatus \ {"completed", "failed", "denied"}
    BY DEF InFlightStatuses, RunStatus
  <2>2. LiveKept
    BY <1>a, <1>2
  <2> QED
    BY <1>1, <1>2, <2>1, <2>2, RunMovesUnsettled, ArmedSteps
<1>3. CASE Begin(r) \/ SetAwaiting(r) \/ SetRunning(r)
  BY <1>2, <1>3 DEF Begin, SetAwaiting, SetRunning, InFlightStatuses
<1>4. CASE RecordRemediation(r) \/ Park(r)
  <2>1. LiveKept
    BY <1>a, <1>4 DEF RecordRemediation, Park
  <2> QED
    BY <1>1, <1>4, <2>1, ArmedSteps DEF RecordRemediation, Park
<1>5. CASE CloseGuard(r)
  <2>1. \A i \in Incident : task[r].inc = i /\ ~Open(i) => Armed(i)'
    BY <1>5 DEF CloseGuard, Armed, Open, tables
  <2>2. LiveKept
    BY <1>a, <1>5 DEF CloseGuard
  <2> QED
    BY <1>1, <1>5, <2>1, <2>2, ArmedSteps DEF CloseGuard, tables
<1>6. ASSUME NEW label \in {"guard", "query", "act", "inserted", "resumed", "session"},
             UNCHANGED <<inc, linked, run>>,
             \/ \E p : Asks(r, label, p)
             \/ \E decision : Decided(r, label, decision)
             \/ \E outcome : task' = [task EXCEPT ![r] =
                               [task[r] EXCEPT !.pc = label, !.outcome = outcome]]
      PROVE  EndIsArmed' /\ SettledIsArmed'
  <2>1. /\ LiveKept /\ task'[r].pc # "end"
        /\ \A q \in Run : q # r => task'[q] = task[q]
    BY <1>a, <1>6
  <2> QED
    BY <1>6, <2>1, ArmedFrame, ArmedSteps
<1>7. CASE CloseEvidence(r) \/ CloseQuery(r) \/ \E outcome : SessionEnds(r, outcome)
  BY <1>6, <1>7 DEF CloseEvidence, CloseQuery, SessionEnds, tables
<1>b. CASE InsertApproval(r) \/ Resume(r)
  BY <1>6, <1>b DEF InsertApproval, Resume, tables
<1>8. ASSUME NEW label \in {"session", "end"}, NEW row \in IncidentRow, Goto(r, label), Live(r),
             inc' = [inc EXCEPT ![task[r].inc] = row],
             row.status = "resolved" \/ row.deadline # "unset",
             UNCHANGED <<linked, run>>
      PROVE  EndIsArmed' /\ SettledIsArmed'
  <2>1. task[r].inc \in Incident
    BY <1>8 DEF IInv, RowsExist
  <2>2. \A i \in Incident : IF i = task[r].inc THEN inc'[i] = row ELSE inc'[i] = inc[i]
    BY <1>0, <1>8, <2>1
  <2>3. ArmedKept /\ \A i \in Incident : task[r].inc = i => Armed(i)'
    BY <1>8, <2>2 DEF ArmedKept, Armed, Open
  <2>4. LiveKept
    BY <1>a, <1>8
  <2> QED
    BY <1>1, <1>8, <2>3, <2>4, ArmedSteps
<1>9. Live(r) => inc[task[r].inc] \in IncidentRow
  BY <1>0 DEF IInv, RowsExist
<1>10. CASE ArmAfterRemediation(r)
  <2>1. Live(r) /\ inc' = [inc EXCEPT ![task[r].inc] =
                             [inc[task[r].inc] EXCEPT !.deadline = "ahead"]]
    BY <1>10 DEF ArmAfterRemediation, Live
  <2>2. /\ [inc[task[r].inc] EXCEPT !.deadline = "ahead"] \in IncidentRow
        /\ [inc[task[r].inc] EXCEPT !.deadline = "ahead"].deadline = "ahead"
    BY <1>9, <2>1 DEF IncidentRow
  <2> QED
    BY <1>8, <1>10, <2>1, <2>2 DEF ArmAfterRemediation
<1>11. CASE CloseArms(r)
  <2>1. Live(r) /\ inc' = [inc EXCEPT ![task[r].inc] = Ensured(inc[task[r].inc])]
    BY <1>11 DEF CloseArms, Live
  <2>2. \A row \in IncidentRow : Ensured(row) \in IncidentRow /\ Ensured(row).deadline # "unset"
    BY DEF Ensured, IncidentRow
  <2> QED
    BY <1>8, <1>9, <1>11, <2>1, <2>2 DEF CloseArms
<1>12. CASE CloseResolves(r)
  <2>1. PICK by \in {"verified", "cleared"} :
          inc' = [inc EXCEPT ![task[r].inc] = Resolved(inc[task[r].inc], by)]
    BY <1>12 DEF CloseResolves
  <2>2. \A row \in IncidentRow : Resolved(row, by) \in IncidentRow
                                 /\ Resolved(row, by).status = "resolved"
    BY DEF Resolved, IncidentRow
  <2>3. Live(r)
    BY <1>12 DEF CloseResolves, Live
  <2> QED
    BY <1>8, <1>9, <1>12, <2>1, <2>2, <2>3 DEF CloseResolves
<1>13. CASE End(r)
  <2>1. /\ task[r].pc = "end" /\ Live(r) /\ UNCHANGED <<inc, linked>>
        /\ task'[r].pc = "none" /\ \A q \in Run : q # r => task'[q] = task[q]
        /\ \A q \in Run : q # r => run'[q] = run[q]
    BY <1>0, <1>13 DEF End, Live, NoTask
  <2>2. ASSUME NEW i \in Incident, Settled(i)'
        PROVE  Settled(i) \/ Armed(i)' \/ faults # 0
    <3>1. HasRun(i) /\ Newest(i) \in Run
      BY <2>1, <2>2, NoneAssumption
      DEF Settled, NewestIsOver, LatestLinkedStatus, HasRun, Newest, RunStatus, IInv, TypeOK
    <3>2. CASE Newest(i) # r
      BY <2>1, <2>2, <3>1, <3>2
      DEF Settled, NewestIsOver, LatestLinkedStatus, HasRun, Newest, Live
    <3>3. CASE Newest(i) = r
      <4>1. task[r].inc = i
        BY <2>1, <3>1, <3>3 DEF Identity, LiveIsNewest
      <4>2. faults = 0 => Armed(i)
        BY <2>1, <4>1 DEF EndIsArmed, Armed
      <4> QED
        BY <2>1, <4>2 DEF Armed, Open
    <3> QED
      BY <3>2, <3>3
  <2>3. CASE faults # 0
    BY <2>3 DEF EndIsArmed, SettledIsArmed
  <2>4. CASE faults = 0
    <3>1. \A i \in Incident : Settled(i)' => Settled(i) \/ Armed(i)'
      BY <2>2, <2>4
    <3>2. \A q \in Run : task'[q].pc = "end" =>
            task[q].pc = "end" /\ task'[q].inc = task[q].inc
      BY <2>1
    <3> QED
      BY <2>1, <3>1, <3>2, ArmedFrame, ArmedSteps
  <2> QED
    BY <2>3, <2>4
<1> QED
  BY <1>3, <1>4, <1>5, <1>7, <1>b, <1>10, <1>11, <1>12, <1>13 DEF TaskStep

LEMMA PostArmed ==
  ASSUME IInv, Identity, Begun, EndIsArmed, SettledIsArmed, NEW o \in Operator, PostSettle(o)
  PROVE  EndIsArmed' /\ SettledIsArmed'
<1>1. CASE faults # 0
  BY <1>1 DEF PostSettle, EndIsArmed, SettledIsArmed
<1>2. CASE faults = 0
  <2>1. PICK r \in Run : r = approval[post[o].approval].run /\ (Live(r) \/ run[r] \in Over)
    BY <1>2 DEF PostSettle, Begun, PostsAsked, AskersBegun
  <2>2. /\ \A q \in Run : q # r => run'[q] = run[q]
        /\ UNCHANGED <<inc, linked, task, faults>>
    BY <2>1 DEF PostSettle, IInv, TypeOK
  <2>3. ASSUME NEW i \in Incident, Settled(i)'
        PROVE  Settled(i)
    <3>1. HasRun(i) /\ Newest(i) \in Run
      BY <2>2, <2>3, NoneAssumption
      DEF Settled, NewestIsOver, LatestLinkedStatus, HasRun, Newest, RunStatus, IInv, TypeOK
    <3> QED
      BY <2>1, <2>2, <2>3, <3>1
      DEF Settled, NewestIsOver, LatestLinkedStatus, HasRun, Newest, Live, Over
  <2> QED
    BY <2>2, <2>3, ArmedFrame, ArmedSteps
<1> QED
  BY <1>1, <1>2

LEMMA ArmedStep ==
  ASSUME IInv, Identity, Begun, EndIsArmed, SettledIsArmed, [Next]_vars
  PROVE  EndIsArmed' /\ SettledIsArmed'
<1>0. /\ task \in [Run -> TaskState] /\ inc \in [Incident -> IncidentRow]
      /\ linked \in [Incident -> Seq(Run)] /\ run \in [Run -> RunStatus] /\ faults \in Nat
  BY ConstantsAssumption DEF IInv, TypeOK
<1>1. ASSUME faults' = faults + 1
      PROVE  EndIsArmed' /\ SettledIsArmed'
  <2>1. faults' # 0
    BY <1>0, <1>1
  <2> QED
    BY <2>1 DEF EndIsArmed, SettledIsArmed
<1>2. ASSUME UNCHANGED <<linked, run, task, faults>>, ArmedKept
      PROVE  EndIsArmed' /\ SettledIsArmed'
  <2>1. LiveKept
    BY <1>2 DEF LiveKept, Live
  <2> QED
    BY <1>2, <2>1, ArmedFrame, ArmedSteps
<1>3. ASSUME NEW k \in Key, AlertFires(k) \/ AlertClears(k) \/ AlertRepeats(k)
      PROVE  EndIsArmed' /\ SettledIsArmed'
  BY <1>2, <1>3, ArmedSteps DEF AlertFires, AlertClears, AlertRepeats, tables
<1>4. ASSUME NEW i \in Incident, DeadlinePasses(i)
      PROVE  EndIsArmed' /\ SettledIsArmed'
  <2>1. \A j \in Incident : inc'[j] = inc[j] \/ inc'[j].deadline # "unset"
    BY <1>0, <1>4 DEF DeadlinePasses, IncidentRow
  <2> QED
    BY <1>2, <1>4, <2>1, ArmedSteps DEF DeadlinePasses
<1>5. ASSUME NEW h \in Handler, NEW k \in Key, NEW s \in {"firing", "resolved"},
             Receive(h, k, s)
      PROVE  EndIsArmed' /\ SettledIsArmed'
  BY <1>2, <1>5, ArmedSteps DEF Receive, tables
<1>6. ASSUME \E r \in Run : run[r] = "absent", run' = [run EXCEPT ![NewRun] = "queued"],
             UNCHANGED <<inc, linked, task, faults>>
      PROVE  EndIsArmed' /\ SettledIsArmed'
  <2>1. /\ NewRun \in Run /\ "queued" \in RunStatus \ {"completed", "failed", "denied"}
        /\ LiveKept
    BY <1>6 DEF NewRun, RunStatus, LiveKept, Live
  <2> QED
    BY <1>6, <2>1, RunMovesUnsettled, ArmedFrame, ArmedSteps
<1>7. ASSUME NEW r \in Run, NEW i \in Incident, StartTask(r, i), run[r] = "queued",
             UNCHANGED <<inc, run, faults>>
      PROVE  EndIsArmed' /\ SettledIsArmed'
  <2>1. /\ HasRun(i)' /\ Newest(i)' = r
        /\ \A j \in Incident : j # i => HasRun(j)' = HasRun(j) /\ Newest(j)' = Newest(j)
        /\ task'[r].pc = "begin"
        /\ \A q \in Run : q # r => task'[q] = task[q]
    BY <1>7, StartTaskNewest, Zenon
  <2>a. LiveKept
    BY <2>1 DEF LiveKept, Live
  <2>b. \A j \in Incident : HasRun(j) => Newest(j) \in Run
    BY DEF IInv, TypeOK, HasRun, Newest
  <2>c. \A j \in Incident : Settled(j)' => HasRun(j)'
    BY NoneAssumption DEF Settled, NewestIsOver, LatestLinkedStatus, HasRun, RunStatus
  <2>2. \A j \in Incident : Settled(j)' => Settled(j)
    BY <1>7, <2>1, <2>a, <2>b, <2>c
    DEF Settled, NewestIsOver, LatestLinkedStatus, HasRun, Newest, LiveKept
  <2>3. \A q \in Run : task'[q].pc = "end" =>
          task[q].pc = "end" /\ task'[q].inc = task[q].inc
    BY <2>1
  <2> QED
    BY <1>7, <2>2, <2>3, ArmedFrame, ArmedSteps
<1>8. ASSUME NEW h \in Handler, HandlerStep(h) \/ HandlerFails(h)
      PROVE  EndIsArmed' /\ SettledIsArmed'
  <2>1. CASE HandlerFails(h)
    BY <1>1, <2>1 DEF HandlerFails
  <2>2. CASE CreateIncident(h)
    <3>1. \A i \in Incident : inc'[i] = inc[i] \/ inc[i].status = "absent"
      BY <1>0, <2>2 DEF CreateIncident, NewIncident
    <3> QED
      BY <1>2, <2>2, <3>1, ArmedSteps DEF CreateIncident
  <2>3. CASE CloseByWebhook(h)
    <3>1. \A i \in Incident : inc'[i] = inc[i] \/ inc'[i].status = "resolved"
      BY <1>0, <2>3 DEF CloseByWebhook, Resolved, IncidentRow
    <3> QED
      BY <1>2, <2>3, <3>1, ArmedSteps DEF CloseByWebhook
  <2>4. CASE CreateRun(h)
    BY <1>6, <2>4 DEF CreateRun
  <2>5. CASE LinkRun(h)
    <3>1. /\ handler[h].run \in Run /\ handler[h].inc \in Incident
          /\ run[handler[h].run] = "queued"
      BY <2>5 DEF LinkRun, IInv, RowsExist, Identity, ToLinkIsFresh
    <3> QED
      BY <1>7, <2>5, <3>1 DEF LinkRun
  <2> QED
    BY <1>2, <1>8, <2>1, <2>2, <2>3, <2>4, <2>5, ArmedSteps
    DEF HandlerStep, LookupSpawn, LookupIgnore, LookupFound, CreateConflict, RefetchFound,
        RefetchIgnore, AttachNew, AttachFiring, AttachResolved, tables
<1>9. ASSUME NEW r \in Run, TaskStep(r) \/ TaskFails(r)
      PROVE  EndIsArmed' /\ SettledIsArmed'
  <2>1. CASE TaskFails(r)
    BY <1>1, <2>1 DEF TaskFails
  <2>2. CASE TaskStep(r)
    <3>1. faults' = faults
      BY <2>2 DEF TaskStep, Begin, InsertApproval, SetAwaiting, Park, Resume, SetRunning,
         RecordRemediation, ArmAfterRemediation, SessionEnds, CloseGuard, CloseEvidence,
         CloseQuery, CloseResolves, CloseArms, End
    <3> QED
      BY <2>2, <3>1, TaskArmed
  <2> QED
    BY <1>9, <2>1, <2>2
<1>10. CASE WatcherStep \/ WatcherFails
  <2>1. CASE WatcherFails
    BY <1>1, <2>1 DEF WatcherFails
  <2>2. CASE CreateEscalationRun
    BY <1>6, <2>2 DEF CreateEscalationRun
  <2>3. CASE LinkEscalationRun
    <3>1. /\ watcher.run \in Run /\ watcher.inc \in Incident /\ run[watcher.run] = "queued"
      BY <2>3 DEF LinkEscalationRun, IInv, RowsExist, Identity, ToLinkIsFresh
    <3> QED
      BY <1>7, <2>3, <3>1 DEF LinkEscalationRun
  <2>4. CASE BumpEscalations \/ SetVerifyDeadline
    <3>1. CASE BumpEscalations
      <4>1. \A i \in Incident : /\ inc'[i].status = inc[i].status
                                /\ inc'[i].deadline = inc[i].deadline
        BY <1>0, <3>1 DEF BumpEscalations, IncidentRow
      <4>2. ArmedKept
        BY <4>1 DEF ArmedKept, Armed, Open
      <4> QED
        BY <1>2, <3>1, <4>2 DEF BumpEscalations
    <3>2. CASE SetVerifyDeadline
      <4>1. \A i \in Incident : inc'[i] = inc[i] \/ inc'[i].deadline # "unset"
        BY <1>0, <3>2 DEF SetVerifyDeadline, IncidentRow
      <4> QED
        BY <1>2, <3>2, <4>1, ArmedSteps DEF SetVerifyDeadline
    <3> QED
      BY <2>4, <3>1, <3>2
  <2> QED
    BY <1>2, <1>10, <2>1, <2>2, <2>3, <2>4, ArmedSteps
    DEF WatcherStep, Poll, Sleep, NextDue, ReadAlertState, Decide, tables
<1>11. ASSUME NEW o \in Operator,
              \/ \E p \in Approval, d \in {"approved", "denied"} : PostDecide(o, p, d)
              \/ PostStep(o) \/ PostFails(o)
       PROVE  EndIsArmed' /\ SettledIsArmed'
  <2>1. CASE PostFails(o)
    BY <1>1, <2>1 DEF PostFails
  <2>2. CASE PostSettle(o)
    BY <2>2, PostArmed
  <2> QED
    BY <1>2, <1>11, <2>1, <2>2, ArmedSteps DEF PostDecide, PostStep, PostResolve
<1>12. CASE Restart
  BY <1>1, <1>12 DEF Restart
<1>13. CASE UNCHANGED vars
  BY <1>2, <1>13, ArmedSteps DEF vars
<1> QED
  BY <1>3, <1>4, <1>5, <1>8, <1>9, <1>10, <1>11, <1>12, <1>13 DEF Next

-----------------------------------------------------------------------------
(* The theorems.                                                           *)

LEMMA InitRuns == Init => RunsInv
<1> SUFFICES ASSUME Init PROVE RunsInv
  OBVIOUS
<1>1. /\ \A h \in Handler : handler[h].pc = "idle"
      /\ \A r \in Run : task[r].pc = "none"
      /\ watcher.pc = "sleep" /\ \A i \in Incident : linked[i] = <<>>
      /\ \A p \in Approval : approval[p].decision = "absent"
      /\ \A o \in Operator : post[o].pc = "idle"
      /\ \A i \in Incident : inc[i].status = "absent" /\ inc[i].by = "nobody"
  BY DEF Init, IdleHandler, NoTask, SleepingWatcher, NoIncident, NoApproval, NoPost
<1>2. ToLinkIsFresh /\ ToLinkIsOwn /\ NewestIsOwn /\ Unstarted /\ EscalatedIsIdle
  BY <1>1
  DEF ToLinkIsFresh, ToLinkIsOwn, NewestIsOwn, Unstarted, EscalatedIsIdle, HasRun, Investigating
<1>3. LiveInFlight /\ LiveIsNewest /\ EvidenceStands
  BY <1>1 DEF LiveInFlight, LiveIsNewest, EvidenceStands, Live
<1>a. Begun
  BY <1>1 DEF Begun, SessionsBegun, AskersBegun, PostsAsked
<1>4. VerifiedWasRemediated /\ EndIsArmed /\ SettledIsArmed
  BY <1>1 DEF VerifiedWasRemediated, EndIsArmed, SettledIsArmed, Open
<1> QED
  BY <1>2, <1>3, <1>a, <1>4 DEF RunsInv

LEMMA RunsStep == IInv /\ RunsInv /\ [Next]_vars => RunsInv'
<1> SUFFICES ASSUME IInv, RunsInv, [Next]_vars PROVE RunsInv'
  OBVIOUS
<1>1. Identity /\ Identity'
  BY IdentityStep DEF RunsInv, Identity
<1>2. Begun'
  BY <1>1, BegunStep DEF RunsInv
<1>3. EvidenceStands' /\ VerifiedWasRemediated'
  BY EvidenceStep DEF RunsInv
<1>4. EndIsArmed' /\ SettledIsArmed'
  BY <1>1, ArmedStep DEF RunsInv
<1> QED
  BY <1>1, <1>2, <1>3, <1>4 DEF RunsInv, Identity

\* The invariant above holds of every state the loop reaches.
THEOREM RunsInvariance == Spec => []RunsInv
<1>1. Spec => []IInv
  BY Invariance
<1>2. IInv /\ RunsInv /\ [Next]_vars => RunsInv'
  BY RunsStep
<1> QED
  BY <1>1, <1>2, InitRuns, PTL DEF Spec

\* The watcher, reading the status of an incident's newest run several awaits
\* before it starts another, never piles one on top of one that executes, unless
\* an operator's decision, finding no future, wrote over the status of that one.
THEOREM OneLiveHolds == Spec => []OneLiveRunPerIncident
<1>1. RunsInv => OneLiveRunPerIncident
  BY DEF RunsInv, LiveIsNewest, OneLiveRunPerIncident
<1> QED
  BY <1>1, RunsInvariance, PTL

\* "Recovery verified" is recorded only of an incident whose timeline shows
\* that a remediation executed, however the closing step, the webhook and the
\* watcher interleave.
THEOREM VerifiedHolds == Spec => []VerifiedWasRemediated
<1>1. RunsInv => VerifiedWasRemediated
  BY DEF RunsInv
<1> QED
  BY <1>1, RunsInvariance, PTL

\* Without a restart or a database error, an open incident whose newest run is
\* over has a deadline the watcher can find: its own session, or an operator,
\* wrote the final status, but no session that still goes on.
THEOREM ArmedHolds == Spec => []SettledIsArmed
<1>1. RunsInv => SettledIsArmed
  BY DEF RunsInv
<1> QED
  BY <1>1, RunsInvariance, PTL

=============================================================================

--------------------------- MODULE RemediationGate ---------------------------
(***************************************************************************)
(* The approval gate of one run's remediations in agent-service: the       *)
(* dry-run stash and the execution gate (tools/remediate.py), the approval *)
(* rendezvous between a parked tool call and POST /runs/{id}/approve       *)
(* (context.py, hub.py, app.py), and what kubectl may do in between.       *)
(*                                                                         *)
(* The model may call the tools in any order and several at once, naming   *)
(* any action and any approval.  A nonce is fresh (32 random bits in the   *)
(* code).  The hard-deny check is outside: an Action has passed it.        *)
(***************************************************************************)
EXTENDS Naturals, FiniteSets, Sequences

CONSTANTS
  Action,       \* the action ids the run may propose
  TwoPatch,     \* those that take two kubectl calls (rollout_promote)
  Approval,     \* the approval rows it may insert
  Call,         \* tool calls the model runs at once
  Operator,     \* POST /runs/{id}/approve requests in progress at once
  Cap,          \* _STASH_CAP_PER_RUN
  MaxNonces,    \* bound: dry-runs
  MaxUses,      \* bound: patches that reach the cluster
  MaxTimeouts,  \* bound: kubectl calls that time out after their patch was applied
  MaxFaults,    \* bound: database errors and restarts
  None

ASSUME GateAssumption ==
  /\ TwoPatch \subseteq Action /\ None \notin Action \cup Approval
  /\ Cap \in Nat \ {0}
  /\ {MaxNonces, MaxUses, MaxTimeouts, MaxFaults} \subseteq Nat

VARIABLES
  run,       \* the session: live, closing, over or dead
  status,    \* agent_runs.status
  stash,     \* _DRYRUN_STASH[run_id]
  minted,    \* the action id of each nonce minted so far
  row,       \* agent_approvals
  future,    \* RunState.approvals
  call,
  post,
  early,     \* history: approvals whose decision looked for a waiter too soon
  crossed,   \* history: approvals with two requests in progress at once
  effects,   \* the patches that reached the cluster
  timeline,  \* how many remediations the incident's timeline names
  timeouts,
  faults

history == <<early, crossed>>

vars == <<run, status, stash, minted, row, future, call, post, history, effects,
          timeline, timeouts, faults>>

-----------------------------------------------------------------------------
Decision == {"approved", "denied"}

Nonce == 0 .. MaxNonces

\* since: when the action id entered the dict, which a refresh leaves in place
StashEntry == [action : Action, nonce : Nonce, since : Nonce]

\* marker: the server-verified block of the summary
ApprovalRow == [decision : Decision \cup {"absent", "null"},
                action : Action \cup {None}, nonce : Nonce]

NoRow == [decision |-> "absent", action |-> None, nonce |-> 0]

CallState ==
  [pc : {"idle", "inserted", "announce", "parked", "resumed", "gate", "kubectl",
         "applied", "record"},
   action : Action \cup {None}, approval : Approval \cup {None}, nonce : Nonce,
   seen : Decision \cup {"absent", "null"}, patch : {1, 2}]

Idle == [pc |-> "idle", action |-> None, approval |-> None, nonce |-> 0,
         seen |-> "absent", patch |-> 1]

PostState ==
  [pc : {"idle", "resolve", "settle"}, approval : Approval \cup {None},
   decision : Decision, recorded : BOOLEAN]

NoPost == [pc |-> "idle", approval |-> None, decision |-> "denied", recorded |-> FALSE]

Patches(a) == IF a \in TwoPatch THEN 2 ELSE 1

Stashed(a) == {e \in stash : e.action = a}

Init ==
  /\ run = "live"
  /\ status = "running"
  /\ stash = {}
  /\ minted = <<>>
  /\ row = [p \in Approval |-> NoRow]
  /\ future = [p \in Approval |-> "none"]
  /\ call = [c \in Call |-> Idle]
  /\ post = [o \in Operator |-> NoPost]
  /\ early = {} /\ crossed = {}
  /\ effects = {}
  /\ timeline = 0
  /\ timeouts = 0
  /\ faults = 0

-----------------------------------------------------------------------------
(* Dry runs.                                                               *)

\* _stash_dryrun: a fresh nonce, in place or as the newest entry
Refreshed(a) ==
  LET since == IF Stashed(a) = {} THEN Len(minted) + 1 ELSE (CHOOSE e \in Stashed(a) : TRUE).since
  IN (stash \ Stashed(a)) \cup {[action |-> a, nonce |-> Len(minted) + 1, since |-> since]}

Evicted(entries) ==
  IF Cardinality(entries) > Cap
  THEN {e \in entries : \E f \in entries : f.since < e.since}
  ELSE entries

DryRun(c, a) ==
  /\ run = "live" /\ call[c].pc = "idle"
  /\ Len(minted) < MaxNonces
  /\ minted' = Append(minted, a)
  /\ stash' = Evicted(Refreshed(a))
  /\ UNCHANGED <<run, status, row, future, call, post, history, effects, timeline,
                 timeouts, faults>>

-----------------------------------------------------------------------------
(* request_approval.                                                       *)

Goto(c, label) == call' = [call EXCEPT ![c].pc = label]

\* add_approval: the row, with the block of the dry-run the action id names
Propose(c, p) ==
  /\ run = "live" /\ call[c].pc = "idle"
  /\ row[p].decision = "absent"
  /\ \/ \E e \in stash :
          row' = [row EXCEPT ![p] =
                    [decision |-> "null", action |-> e.action, nonce |-> e.nonce]]
     \/ row' = [row EXCEPT ![p] = [decision |-> "null", action |-> None, nonce |-> 0]]
  /\ call' = [call EXCEPT ![c] = [Idle EXCEPT !.pc = "inserted", !.approval = p]]
  /\ UNCHANGED <<run, status, stash, minted, future, post, history, effects, timeline,
                 timeouts, faults>>

SetAwaiting(c) ==
  /\ call[c].pc = "inserted"
  /\ status' = "awaiting_approval"
  /\ Goto(c, "announce")
  /\ UNCHANGED <<run, stash, minted, row, future, post, history, effects, timeline,
                 timeouts, faults>>

\* ev_approval and make_approval, without an await
Park(c) ==
  /\ call[c].pc = "announce"
  /\ future' = [future EXCEPT ![call[c].approval] = "parked"]
  /\ Goto(c, "parked")
  /\ UNCHANGED <<run, status, stash, minted, row, post, history, effects, timeline,
                 timeouts, faults>>

\* the decision arrives; only an approval writes the status
Resume(c) ==
  /\ call[c].pc = "parked"
  /\ future[call[c].approval] \in Decision
  /\ IF future[call[c].approval] = "approved" THEN Goto(c, "resumed")
     ELSE call' = [call EXCEPT ![c] = Idle]
  /\ UNCHANGED <<run, status, stash, minted, row, future, post, history, effects,
                 timeline, timeouts, faults>>

SetRunning(c) ==
  /\ call[c].pc = "resumed"
  /\ status' = "running"
  /\ call' = [call EXCEPT ![c] = Idle]
  /\ UNCHANGED <<run, stash, minted, row, future, post, history, effects, timeline,
                 timeouts, faults>>

-----------------------------------------------------------------------------
(* dry_run=False.                                                          *)

\* _execute_gate: get_approval,
ReadApproval(c, a, p) ==
  /\ run = "live" /\ call[c].pc = "idle"
  /\ call' = [call EXCEPT ![c] =
       [Idle EXCEPT !.pc = "gate", !.action = a, !.approval = p, !.seen = row[p].decision]]
  /\ UNCHANGED <<run, status, stash, minted, row, future, post, history, effects,
                 timeline, timeouts, faults>>

\* Mutant: the bare action id is enough.
VerifiedById(c, e) ==
  /\ call[c].seen = "approved"
  /\ e.action = call[c].action
  /\ row[call[c].approval].action = e.action

\* then the decision, the stash entry and its marker, and kubectl is started
Verified(c, e) ==
  /\ call[c].seen = "approved"
  /\ e.action = call[c].action
  /\ row[call[c].approval].action = e.action
  /\ row[call[c].approval].nonce = e.nonce

Admit(c) ==
  /\ call[c].pc = "gate"
  /\ \E e \in stash :
       /\ Verified(c, e)
       /\ call' = [call EXCEPT ![c] = [call[c] EXCEPT !.pc = "kubectl", !.nonce = e.nonce]]
  /\ UNCHANGED <<run, status, stash, minted, row, future, post, history, effects,
                 timeline, timeouts, faults>>

Refuse(c) ==
  /\ call[c].pc = "gate"
  /\ \A e \in stash : ~Verified(c, e)
  /\ call' = [call EXCEPT ![c] = Idle]
  /\ UNCHANGED <<run, status, stash, minted, row, future, post, history, effects,
                 timeline, timeouts, faults>>

KubectlFails(c) ==
  /\ call[c].pc = "kubectl"
  /\ call' = [call EXCEPT ![c] = Idle]
  /\ UNCHANGED <<run, status, stash, minted, row, future, post, history, effects,
                 timeline, timeouts, faults>>

KubectlApplies(c) ==
  /\ call[c].pc = "kubectl"
  /\ Cardinality(effects) < MaxUses
  /\ effects' = effects \cup
       {[approval |-> call[c].approval, action |-> call[c].action, nonce |-> call[c].nonce,
         patch |-> call[c].patch, use |-> Cardinality(effects)]}
  /\ Goto(c, "applied")
  /\ UNCHANGED <<run, status, stash, minted, row, future, post, history, timeline,
                 timeouts, faults>>

\* an error result keeps the stash entry
KubectlTimesOut(c) ==
  /\ call[c].pc = "applied"
  /\ timeouts < MaxTimeouts
  /\ timeouts' = timeouts + 1
  /\ call' = [call EXCEPT ![c] = Idle]
  /\ UNCHANGED <<run, status, stash, minted, row, future, post, history, effects,
                 timeline, faults>>

NextPatch(c) ==
  /\ call[c].pc = "applied"
  /\ call[c].patch < Patches(call[c].action)
  /\ call' = [call EXCEPT ![c] = [call[c] EXCEPT !.pc = "kubectl", !.patch = 2]]
  /\ UNCHANGED <<run, status, stash, minted, row, future, post, history, effects,
                 timeline, timeouts, faults>>

\* Mutants: the entry is not popped; a popped entry is not recorded.
ConsumeKeeps(c) ==
  /\ call[c].pc = "applied"
  /\ call[c].patch = Patches(call[c].action)
  /\ call' = [call EXCEPT ![c] =
       IF Stashed(call[c].action) = {} THEN Idle ELSE [call[c] EXCEPT !.pc = "record"]]
  /\ UNCHANGED <<run, status, stash, minted, row, future, post, history, effects,
                 timeline, timeouts, faults>>

ConsumeForgets(c) ==
  /\ call[c].pc = "applied"
  /\ call[c].patch = Patches(call[c].action)
  /\ stash' = stash \ Stashed(call[c].action)
  /\ call' = [call EXCEPT ![c] =
       IF call[c].patch = 2 \/ Stashed(call[c].action) = {} THEN Idle
       ELSE [call[c] EXCEPT !.pc = "record"]]
  /\ UNCHANGED <<run, status, minted, row, future, post, history, effects, timeline,
                 timeouts, faults>>

\* _consume_dryrun: pop, and record what was popped
Consume(c) ==
  /\ call[c].pc = "applied"
  /\ call[c].patch = Patches(call[c].action)
  /\ stash' = stash \ Stashed(call[c].action)
  /\ call' = [call EXCEPT ![c] =
       IF Stashed(call[c].action) = {} THEN Idle ELSE [call[c] EXCEPT !.pc = "record"]]
  /\ UNCHANGED <<run, status, minted, row, future, post, history, effects, timeline,
                 timeouts, faults>>

\* _record_remediation: the timeline and the deadline; an error is logged
Record(c) ==
  /\ call[c].pc = "record"
  /\ timeline' = timeline + 1
  /\ call' = [call EXCEPT ![c] = Idle]
  /\ UNCHANGED <<run, status, stash, minted, row, future, post, history, effects,
                 timeouts, faults>>

RecordFails(c) ==
  /\ call[c].pc = "record"
  /\ faults < MaxFaults
  /\ faults' = faults + 1
  /\ call' = [call EXCEPT ![c] = Idle]
  /\ UNCHANGED <<run, status, stash, minted, row, future, post, history, effects,
                 timeline, timeouts>>

\* a write of request_approval raises: the tool call returns an error
CallFails(c) ==
  /\ call[c].pc \in {"inserted", "resumed"}
  /\ faults < MaxFaults
  /\ faults' = faults + 1
  /\ call' = [call EXCEPT ![c] = Idle]
  /\ UNCHANGED <<run, status, stash, minted, row, future, post, history, effects,
                 timeline, timeouts>>

CallStep(c) ==
  \/ SetAwaiting(c) \/ Park(c) \/ Resume(c) \/ SetRunning(c)
  \/ Admit(c) \/ Refuse(c) \/ KubectlFails(c) \/ KubectlApplies(c) \/ NextPatch(c)
  \/ Consume(c) \/ Record(c)

-----------------------------------------------------------------------------
(* POST /runs/{id}/approve.                                                *)

\* a second request for an approval whose first one has not told the waiter yet
Crossing(p) ==
  IF \E o \in Operator : post[o].pc = "resolve" /\ post[o].approval = p
  THEN crossed \cup {p} ELSE crossed

\* Mutant: a decided row is decided again.
DecideAgain(o, p, d) ==
  /\ post[o].pc = "idle"
  /\ row[p].decision # "absent"
  /\ row' = [row EXCEPT ![p].decision = d]
  /\ post' = [post EXCEPT ![o] =
       [pc |-> "resolve", approval |-> p, decision |-> d, recorded |-> TRUE]]
  /\ crossed' = Crossing(p)
  /\ UNCHANGED <<run, status, stash, minted, future, call, early, effects, timeline,
                 timeouts, faults>>

\* decide_approval: UPDATE ... WHERE decision IS NULL
Decide(o, p, d) ==
  /\ post[o].pc = "idle"
  /\ row[p].decision # "absent"
  /\ row' = [row EXCEPT ![p].decision = IF @ = "null" THEN d ELSE @]
  /\ post' = [post EXCEPT ![o] =
       [pc |-> "resolve", approval |-> p, decision |-> d,
        recorded |-> row[p].decision = "null"]]
  /\ crossed' = Crossing(p)
  /\ UNCHANGED <<run, status, stash, minted, future, call, early, effects, timeline,
                 timeouts, faults>>

\* Mutant: the waiter is only told of an approval.
ResolveApproved(o) ==
  /\ post[o].pc = "resolve"
  /\ IF future[post[o].approval] = "parked" /\ post[o].decision = "approved"
     THEN /\ future' = [future EXCEPT ![post[o].approval] = post[o].decision]
          /\ post' = [post EXCEPT ![o] = NoPost]
     ELSE /\ post' = [post EXCEPT ![o] =
                 IF post[o].recorded THEN [post[o] EXCEPT !.pc = "settle"] ELSE NoPost]
          /\ UNCHANGED future
  /\ early' = early \cup {p \in Approval : p = post[o].approval /\ future[p] = "none"}
  /\ UNCHANGED <<run, status, stash, minted, row, call, crossed, effects, timeline,
                 timeouts, faults>>

\* resolve_approval; neither recorded nor resolved changes nothing,
Resolve(o) ==
  /\ post[o].pc = "resolve"
  /\ IF future[post[o].approval] = "parked"
     THEN /\ future' = [future EXCEPT ![post[o].approval] = post[o].decision]
          /\ post' = [post EXCEPT ![o] = NoPost]
     ELSE /\ post' = [post EXCEPT ![o] =
                 IF post[o].recorded THEN [post[o] EXCEPT !.pc = "settle"] ELSE NoPost]
          /\ UNCHANGED future
  /\ early' = early \cup {p \in Approval : p = post[o].approval /\ future[p] = "none"}
  /\ UNCHANGED <<run, status, stash, minted, row, call, crossed, effects, timeline,
                 timeouts, faults>>

\* and without a waiter the decision settles the run
Settle(o) ==
  /\ post[o].pc = "settle"
  /\ status' = IF post[o].decision = "approved" THEN "completed" ELSE "denied"
  /\ post' = [post EXCEPT ![o] = NoPost]
  /\ UNCHANGED <<run, stash, minted, row, future, call, history, effects, timeline,
                 timeouts, faults>>

SettleFails(o) ==
  /\ post[o].pc = "settle"
  /\ faults < MaxFaults
  /\ faults' = faults + 1
  /\ post' = [post EXCEPT ![o] = NoPost]
  /\ UNCHANGED <<run, status, stash, minted, row, future, call, history, effects,
                 timeline, timeouts>>

PostStep(o) == Resolve(o) \/ Settle(o)

-----------------------------------------------------------------------------
(* The session and the process.                                            *)

\* run_oncall's finally: clear_run_stash, and then ctx.end
CloseSession ==
  /\ run = "live" /\ \A c \in Call : call[c].pc = "idle"
  /\ run' = "closing"
  /\ stash' = {}
  /\ UNCHANGED <<status, minted, row, future, call, post, history, effects, timeline,
                 timeouts, faults>>

EndRun ==
  /\ run = "closing"
  /\ run' = "over"
  /\ status' = "completed"
  /\ UNCHANGED <<stash, minted, row, future, call, post, history, effects, timeline,
                 timeouts, faults>>

\* The process dies: stash, futures, calls and requests are gone, and
\* fail_orphaned_runs settles the row.  (What an orphaned kubectl still applies is
\* the case where it applied it just before.)
Restart ==
  /\ faults < MaxFaults
  /\ faults' = faults + 1
  /\ run' = IF run = "over" THEN "over" ELSE "dead"
  /\ status' = IF status = "running" THEN "failed" ELSE status
  /\ stash' = {}
  /\ future' = [p \in Approval |-> IF future[p] = "none" THEN "none" ELSE "lost"]
  /\ call' = [c \in Call |-> Idle]
  /\ post' = [o \in Operator |-> NoPost]
  /\ UNCHANGED <<minted, row, history, effects, timeline, timeouts>>

Next ==
  \/ \E c \in Call : CallStep(c) \/ KubectlTimesOut(c) \/ RecordFails(c) \/ CallFails(c)
  \/ \E c \in Call, a \in Action :
       DryRun(c, a) \/ \E p \in Approval : ReadApproval(c, a, p)
  \/ \E c \in Call, p \in Approval : Propose(c, p)
  \/ \E o \in Operator : PostStep(o) \/ SettleFails(o)
  \/ \E o \in Operator, p \in Approval, d \in Decision : Decide(o, p, d)
  \/ CloseSession \/ EndRun \/ Restart

Spec == Init /\ [][Next]_vars

-----------------------------------------------------------------------------
(* Safety.                                                                 *)

Effect ==
  [approval : Approval, action : Action, nonce : Nonce, patch : {1, 2}, use : 0 .. MaxUses]

TypeOK ==
  /\ run \in {"live", "closing", "over", "dead"}
  /\ status \in {"running", "awaiting_approval", "completed", "denied", "failed"}
  /\ stash \subseteq StashEntry
  /\ minted \in Seq(Action) /\ Len(minted) \in Nonce
  /\ row \in [Approval -> ApprovalRow]
  /\ future \in [Approval -> Decision \cup {"none", "parked", "lost"}]
  /\ call \in [Call -> CallState]
  /\ post \in [Operator -> PostState]
  /\ early \subseteq Approval /\ crossed \subseteq Approval
  /\ effects \subseteq Effect /\ IsFiniteSet(effects)
  /\ timeline \in Nat
  /\ timeouts \in 0 .. MaxTimeouts
  /\ faults \in 0 .. MaxFaults

\* No patch reaches the cluster unless an operator approved the very dry-run it
\* was started from: same action, same nonce, however the calls interleave.
ApprovedFor(p, a, n) ==
  row[p].decision = "approved" /\ row[p].action = a /\ row[p].nonce = n

OnlyApproved == \A e \in effects : ApprovedFor(e.approval, e.action, e.nonce)

\* What makes it inductive: a call past the gate is authorised, and what the gate
\* read of a decided row stays true of the row.
Past(c) == call[c].pc \in {"kubectl", "applied", "record"}

GateSound ==
  \A c \in Call :
    /\ Past(c) => /\ call[c].action \in Action /\ call[c].approval \in Approval
                  /\ ApprovedFor(call[c].approval, call[c].action, call[c].nonce)
    /\ call[c].pc = "gate" =>
         /\ call[c].action \in Action /\ call[c].approval \in Approval
         /\ call[c].seen \in Decision => row[call[c].approval].decision = call[c].seen
    /\ call[c].pc \in {"inserted", "announce", "parked", "resumed"} =>
         call[c].approval \in Approval

GateInv == TypeOK /\ OnlyApproved /\ GateSound

Whole(e) == e.patch = Patches(e.action)

\* An approval is good for one execution; only a kubectl call whose answer was
\* lost can be repeated with it (remediate.py _consume_dryrun).
SingleUse ==
  \A p \in Approval :
    Cardinality({e \in effects : Whole(e) /\ e.approval = p}) <= 1 + timeouts

\* Whenever no execution is under way, the timeline names every remediation that
\* reached the cluster, but for those whose answer or record was lost: the closing
\* step of the run decides from it (remediate.py _record_remediation).
RemediationsRecorded ==
  (\A c \in Call : ~Past(c)) =>
    LET whole == Cardinality({e \in effects : Whole(e)})
    IN  timeline <= whole /\ whole <= timeline + timeouts + faults

Astray(p) == p \in early \cup crossed

\* The agent is told what the row records, "'approved'/'denied' plus the id of the
\* Postgres approval row just decided" (context.py request_approval), whoever reads
\* the table and decides when: only a decision that looked for the waiter before
\* make_approval, or a second request in progress beside the first, tells it
\* anything else.
WaiterTold ==
  \A p \in Approval : future[p] \in Decision /\ ~Astray(p) => row[p].decision = future[p]

\* "blocking gates (real agents) advance their own status" (app.py approve): but for
\* those two races, which the code lets settle the row of a session that goes on, no
\* decision does, failed calls, late answers and restarts included.
SessionOwnsStatus ==
  run = "live" /\ (\A p \in Approval : ~Astray(p)) => status \in {"running", "awaiting_approval"}

-----------------------------------------------------------------------------
(* Liveness.  The event loop runs the calls and requests that are ready; the *)
(* model need not call anything and no operator need decide.                *)

FairSpec ==
  /\ Spec
  /\ \A c \in Call : WF_vars(CallStep(c))
  /\ \A o \in Operator : WF_vars(PostStep(o))

Waits(c, p) == call[c].pc \in {"inserted", "announce", "parked"} /\ call[c].approval = p

\* A decided approval reaches the tool call that blocks the run on it, also one that
\* was recorded before the call had parked and those that cross; only a request that
\* looked for the future before make_approval leaves the call waiting (app.py:599,
\* which nothing retries).
DecisionArrives ==
  \A c \in Call, p \in Approval :
    Waits(c, p) /\ row[p].decision \in Decision ~> ~Waits(c, p) \/ p \in early

=============================================================================

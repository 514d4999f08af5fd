------------------------------- MODULE CiShim -------------------------------
(***************************************************************************)
(* Gitea's pipelines and the webhooks of their jobs and runs, on the way   *)
(* to ci-shim; what the shim remembers of them, and the traces and DORA    *)
(* metrics it makes of it.  A handler of a completed run waits for the     *)
(* trace to be posted and for the commit's time; all else happens at once. *)
(* Gitea sends in order; a delivery that overtakes another, is lost or     *)
(* comes again, a failed post and a restart of the shim count as faults.   *)
(***************************************************************************)
EXTENDS Naturals, Sequences, SequencesExt, FiniteSets

CONSTANTS
  Run,
  Job,
  RunOf,      \* job -> run
  DeployJob,  \* the jobs named "deploy"
  MaxNet,     \* bound: webhooks on their way
  MaxFaults   \* bound: things that go wrong

ASSUME CiAssumption ==
  /\ RunOf \in [Job -> Run]
  /\ DeployJob \subseteq Job
  /\ MaxNet \in Nat
  /\ MaxFaults \in Nat

VARIABLES
  stage,      \* of each job at Gitea
  closed,     \* the runs Gitea has completed
  net,        \* webhooks sent
  pending,    \* pendingJobs
  runJobs,    \* run -> the completed jobs it remembers
  handlers,   \* handlers of completed runs that wait
  traced,     \* jobs in a trace that was posted
  untraced,   \* jobs in a trace that could not be posted
  runs,       \* cicd_pipeline_runs_total of each run
  deployed,   \* cicd_deployments_total of each run
  lead,       \* observations of cicd_lead_time_seconds of each run
  observed,   \* observations of cicd_pipeline_queue_seconds of each job
  errors,     \* cicd_shim_errors_total
  heard,      \* jobs whose completion was delivered since the last start
  copies,     \* deliveries of each deploy job's completion
  disturbed,  \* runs whose webhooks met a fault
  faults

gitea == <<stage, closed>>
metrics == <<traced, untraced, runs, deployed, lead, observed>>
ghosts == <<heard, copies, disturbed>>
vars == <<gitea, net, pending, runJobs, handlers, metrics, errors, ghosts, faults>>

-----------------------------------------------------------------------------
Ended == {"success", "failure", "skipped"}

JobMessage(j, action) == [event |-> "workflow_job", job |-> j, run |-> RunOf[j], action |-> action]

RunMessage(r) == [event |-> "workflow_run", run |-> r, action |-> "completed"]

JobsOf(r) == {j \in Job : RunOf[j] = r}

NoJobs == [r \in Run |-> {}]

Zero(S) == [x \in S |-> 0]

Init ==
  /\ stage = [j \in Job |-> "none"]
  /\ closed = {}
  /\ net = <<>>
  /\ pending = {}
  /\ runJobs = NoJobs
  /\ handlers = {}
  /\ traced = {} /\ untraced = {}
  /\ runs = Zero(Run) /\ deployed = Zero(Run) /\ lead = Zero(Run)
  /\ observed = Zero(Job)
  /\ errors = 0
  /\ heard = {}
  /\ copies = Zero(Job)
  /\ disturbed = {}
  /\ faults = 0

Wrong(R) ==
  /\ faults < MaxFaults
  /\ faults' = faults + 1
  /\ disturbed' = disturbed \cup R

Fine == UNCHANGED <<faults, disturbed>>

-----------------------------------------------------------------------------
(* Gitea and its runner.                                                   *)

Emit(m) == Len(net) < MaxNet /\ net' = Append(net, m)

Move(j, from, to, action) ==
  /\ stage[j] \in from
  /\ stage' = [stage EXCEPT ![j] = to]
  /\ Emit(JobMessage(j, action))
  /\ UNCHANGED <<closed, pending, runJobs, handlers, metrics, errors, ghosts, faults>>

Queue(j) == Move(j, {"none"}, "queued", "queued")

PickUp(j) == Move(j, {"queued"}, "running", "in_progress")

Conclude(j) ==
  \/ Move(j, {"running"}, "success", "completed")
  \/ Move(j, {"running"}, "failure", "completed")
  \/ Move(j, {"queued"}, "skipped", "completed")

CloseRun(r) ==
  /\ r \notin closed
  /\ \A j \in JobsOf(r) : stage[j] \in Ended
  /\ closed' = closed \cup {r}
  /\ Emit(RunMessage(r))
  /\ UNCHANGED <<stage, pending, runJobs, handlers, metrics, errors, ghosts, faults>>

-----------------------------------------------------------------------------
(* The shim.                                                               *)

\* metrics.ts: one series per label set, which the shim's restart drops
Inc(counter, label) == [counter EXCEPT ![label] = @ + 1]

Observe(histogram, label) == [histogram EXCEPT ![label] = @ + 1]

Remember(j) == runJobs[RunOf[j]] \cup {j}

\* Mutant: only a job that is picked up stops pending.
DropPendingAt(action) == action = "in_progress"

DropsPending(action) == action # "queued"

\* handleWorkflowJob
HandleJob(m) ==
  /\ pending' = IF DropsPending(m.action) THEN pending \ {m.job}
                ELSE IF m.action = "queued" THEN pending \cup {m.job} ELSE pending
  /\ IF m.action = "completed"
     THEN /\ runJobs' = [runJobs EXCEPT ![m.run] = Remember(m.job)]
          /\ observed' = IF stage[m.job] # "skipped" THEN Observe(observed, m.job) ELSE observed
          /\ heard' = heard \cup {m.job}
          /\ copies' = [copies EXCEPT ![m.job] = @ + 1]
     ELSE UNCHANGED <<runJobs, observed, heard, copies>>
  /\ UNCHANGED <<handlers, traced, untraced, runs, deployed, lead>>

\* Mutant: the jobs of a completed run stay.
ForgetNever(r) == runJobs

Forget(r) == [runJobs EXCEPT ![r] = {}]

\* handleWorkflowRun up to its first await
HandleRun(m) ==
  /\ runJobs' = Forget(m.run)
  /\ runs' = Inc(runs, m.run)
  /\ handlers' = handlers \cup
       {[run |-> m.run, nth |-> runs'[m.run], jobs |-> runJobs[m.run], at |-> "trace"]}
  /\ UNCHANGED <<pending, traced, untraced, deployed, lead, observed, heard, copies>>

Handle(m) == IF m.event = "workflow_job" THEN HandleJob(m) ELSE HandleRun(m)

\* POST /webhook
Deliver ==
  /\ net # <<>>
  /\ net' = Tail(net)
  /\ Handle(Head(net))
  /\ Fine
  /\ UNCHANGED <<gitea, errors>>

\* The delivery overtakes the ones before it, or will come again.
DeliverBadly ==
  \E i \in DOMAIN net :
    /\ \/ i > 1 /\ net' = RemoveAt(net, i)
       \/ UNCHANGED net
    /\ Handle(net[i])
    /\ Wrong({net[i].run})
    /\ UNCHANGED <<gitea, errors>>

Lose ==
  \E i \in DOMAIN net :
    /\ net' = RemoveAt(net, i)
    /\ Wrong({net[i].run})
    /\ UNCHANGED <<gitea, pending, runJobs, handlers, metrics, errors, heard, copies>>

\* A delivery that is not signed with the secret or is not JSON.
Reject ==
  /\ errors' = errors + 1
  /\ Wrong({})
  /\ UNCHANGED <<gitea, net, pending, runJobs, handlers, metrics, heard, copies>>

Deploys(h) == \E j \in h.jobs \cap DeployJob : stage[j] = "success"

Count(h) ==
  IF Deploys(h)
  THEN /\ deployed' = Inc(deployed, h.run)
       /\ handlers' = (handlers \ {h}) \cup {[h EXCEPT !.at = "commit"]}
  ELSE /\ handlers' = handlers \ {h}
       /\ UNCHANGED deployed

\* Mutant: a trace that cannot be posted ends the handler.
CountNothing(h) == handlers' = handlers \ {h} /\ UNCHANGED deployed

\* the catch around postTrace
AfterFailure(h) == Count(h)

\* buildTrace: a span for the run and one for each job; those of its steps
\* are left out
Spans(h) == h.jobs

\* The collector answers.
TraceAnswered(h) ==
  /\ h.at = "trace"
  /\ \/ /\ traced' = traced \cup Spans(h)
        /\ Count(h)
        /\ Fine
        /\ UNCHANGED <<untraced, errors>>
     \/ /\ untraced' = untraced \cup Spans(h)
        /\ errors' = errors + 1
        /\ AfterFailure(h)
        /\ Wrong({})
        /\ UNCHANGED traced
  /\ UNCHANGED <<gitea, net, pending, runJobs, runs, lead, observed, heard, copies>>

\* A time that is null is not observed.
Leads(h) == {lead, Observe(lead, h.run)}

\* fetchCommitTimestamp returns a time or null.
CommitAnswered(h) ==
  /\ h.at = "commit"
  /\ handlers' = handlers \ {h}
  /\ lead' \in Leads(h)
  /\ UNCHANGED <<gitea, net, pending, runJobs, traced, untraced, runs, deployed, observed,
                 errors, ghosts, faults>>

\* Everything is in memory.
Restart ==
  /\ Wrong(Run)
  /\ pending' = {}
  /\ runJobs' = NoJobs
  /\ handlers' = {}
  /\ runs' = Zero(Run) /\ deployed' = Zero(Run) /\ lead' = Zero(Run)
  /\ observed' = Zero(Job)
  /\ errors' = 0
  /\ heard' = {}
  /\ copies' = Zero(Job)
  /\ UNCHANGED <<gitea, net, traced, untraced>>

Shim ==
  \/ Deliver
  \/ \E h \in handlers : TraceAnswered(h) \/ CommitAnswered(h)

Next ==
  \/ \E j \in Job : Queue(j) \/ PickUp(j) \/ Conclude(j)
  \/ \E r \in Run : CloseRun(r)
  \/ Shim \/ DeliverBadly \/ Lose \/ Reject \/ Restart

Spec == Init /\ [][Next]_vars

\* Gitea delivers, the collector and Gitea answer.
FairSpec == Spec /\ WF_vars(Shim)

-----------------------------------------------------------------------------
\* the completions of successful deploy jobs that were delivered
Told(r) ==
  UNION {{j} \X (1 .. copies[j]) : j \in {k \in JobsOf(r) \cap DeployJob : stage[k] = "success"}}

(* A deployment is counted for a deploy job that succeeded, once for each  *)
(* time Gitea told of it, however often and however late the run's own     *)
(* completion comes: the jobs are taken before the first await.            *)
DeployedOnce == \A r \in Run : deployed[r] <= Cardinality(Told(r))

(* The rates of the DORA panels stay below one: no more lead times than    *)
(* deployments, no more deployments than runs.                             *)
DoraConsistent == \A r \in Run : lead[r] <= deployed[r] /\ deployed[r] <= runs[r]

(* A completed job Gitea told of is remembered, in a handler at work, in a *)
(* trace, or in one whose failure was counted.                             *)
JobsAccounted ==
  \A j \in heard :
    \/ j \in runJobs[RunOf[j]]
    \/ \E h \in handlers : j \in h.jobs
    \/ j \in traced \cup untraced

(* Without a fault the gauge of pending jobs is true as soon as the        *)
(* webhooks on their way have arrived.                                     *)
GaugeIsTrue ==
  \A j \in Job :
    RunOf[j] \notin disturbed /\ (\A i \in DOMAIN net : net[i].run # RunOf[j]) =>
      (j \in pending <=> stage[j] = "queued")

(* Without a fault in its webhooks a completed run is counted once, is     *)
(* traced whole, and counts as deployed if its deploy job succeeded, even  *)
(* if its trace could not be posted.                                       *)
RunsTold ==
  [](\A r \in Run : r \in closed =>
       <>(\/ r \in disturbed
          \/ /\ runs[r] = 1
             /\ JobsOf(r) \subseteq traced \cup untraced
             /\ deployed[r] = IF \E j \in JobsOf(r) \cap DeployJob : stage[j] = "success"
                              THEN 1 ELSE 0))
=============================================================================

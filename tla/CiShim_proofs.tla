--------------------------- MODULE CiShim_proofs ----------------------------
(***************************************************************************)
(* Proofs about ci-shim, for all runs and jobs and any number of faults:   *)
(* no job it was told of is dropped (JobsInvariance); its metrics never    *)
(* count more lead times than deployments or more deployments than runs    *)
(* (DoraInvariance), since a handler at work stands for one of each that   *)
(* is still to come; the gauge of pending jobs is true of the runs whose   *)
(* webhooks arrived in order (GaugeInvariance); and a run counts no more   *)
(* deployments than it was told of (DeploymentInvariance).                 *)
(***************************************************************************)
EXTENDS CiShim, FiniteSetTheorems, SequenceTheorems, TLAPS

Message ==
  {JobMessage(j, a) : j \in Job, a \in {"queued", "in_progress", "completed"}}
    \cup {RunMessage(r) : r \in Run}

Handler == [run : Run, nth : Nat, jobs : SUBSET Job, at : {"trace", "commit"}]

CiTypes ==
  /\ net \in Seq(Message)
  /\ runJobs \in [Run -> SUBSET Job]
  /\ handlers \subseteq Handler
  /\ IsFiniteSet(handlers)
  /\ runs \in [Run -> Nat]
  /\ deployed \in [Run -> Nat]
  /\ lead \in [Run -> Nat]

\* the handlers of a run that wait at one of the two points
Waiting(r, point) == {h \in handlers : h.run = r /\ h.at = point}

\* A handler that waits for its trace is a run with no deployment yet, one
\* that waits for the commit's time is a deployment with no lead time yet.
Open ==
  \A r \in Run :
    /\ lead[r] + Cardinality(Waiting(r, "commit")) <= deployed[r]
    /\ deployed[r] + Cardinality(Waiting(r, "trace")) <= runs[r]

\* the trace of a handler that waits for the commit's time is settled
Settled == \A h \in handlers : h.at = "commit" => h.jobs \subseteq traced \cup untraced

-----------------------------------------------------------------------------
LEMMA MessageRun == \A m \in Message : m.run \in Run
  BY CiAssumption DEF Message, JobMessage, RunMessage

LEMMA JobMessageRun ==
  \A m \in Message : m.event = "workflow_job" => m.job \in Job /\ m.run = RunOf[m.job]
  BY DEF Message, JobMessage, RunMessage

LEMMA RemoveAtType ==
  ASSUME NEW s \in Seq(Message), NEW i \in DOMAIN s
  PROVE  RemoveAt(s, i) \in Seq(Message)
  BY DEF RemoveAt

(* The effect of a delivery on the types.                                  *)
LEMMA HandleType ==
  ASSUME CiTypes, NEW m \in Message, Handle(m)
  PROVE  /\ runJobs' \in [Run -> SUBSET Job]
         /\ handlers' \subseteq Handler
         /\ IsFiniteSet(handlers')
         /\ runs' \in [Run -> Nat]
         /\ deployed' = deployed /\ lead' = lead
<1>1. m.run \in Run
  BY MessageRun
<1>2. CASE m.event = "workflow_job"
  <2>1. HandleJob(m) /\ m.job \in Job /\ m.run = RunOf[m.job]
    BY <1>2, JobMessageRun DEF Handle
  <2>2. Remember(m.job) \in SUBSET Job
    BY <1>1, <2>1 DEF Remember, CiTypes
  <2>3. runJobs' \in [Run -> SUBSET Job]
    <3>1. CASE m.action = "completed"
      <4>1. runJobs' = [runJobs EXCEPT ![m.run] = Remember(m.job)]
        BY <2>1, <3>1 DEF HandleJob, Observe
      <4> QED
        BY <2>2, <4>1 DEF CiTypes
    <3>2. CASE m.action # "completed"
      BY <2>1, <3>2 DEF HandleJob, CiTypes, Observe
    <3> QED
      BY <3>1, <3>2
  <2> QED
    BY <2>1, <2>3 DEF HandleJob, CiTypes, Observe
<1>3. CASE m.event # "workflow_job"
  <2>1. HandleRun(m)
    BY <1>3 DEF Handle
  <2>2. runs' \in [Run -> Nat] /\ runs'[m.run] \in Nat
    BY <1>1, <2>1 DEF HandleRun, CiTypes, Inc
  <2>3. [run |-> m.run, nth |-> runs'[m.run], jobs |-> runJobs[m.run], at |-> "trace"] \in Handler
    BY <1>1, <2>2 DEF Handler, CiTypes
  <2>4. IsFiniteSet(handlers')
    BY <2>1, FS_AddElement DEF HandleRun, CiTypes, Inc
  <2> QED
    BY <1>1, <2>1, <2>2, <2>3, <2>4 DEF HandleRun, Forget, CiTypes, Inc
<1> QED
  BY <1>2, <1>3

(* The effect of a collector's answer on the handlers.                     *)
LEMMA CountType ==
  ASSUME CiTypes, NEW h \in handlers, Count(h)
  PROVE  /\ handlers' \subseteq Handler
         /\ IsFiniteSet(handlers')
         /\ deployed' \in [Run -> Nat]
<1>1. h \in Handler
  BY DEF CiTypes
<1>2. IsFiniteSet(handlers \ {h}) /\ IsFiniteSet((handlers \ {h}) \cup {[h EXCEPT !.at = "commit"]})
  BY FS_RemoveElement, FS_AddElement DEF CiTypes
<1>3. [h EXCEPT !.at = "commit"] \in Handler
  BY <1>1 DEF Handler
<1>4. h.run \in Run /\ deployed[h.run] + 1 \in Nat
  BY <1>1 DEF Handler, CiTypes
<1>5. CASE Deploys(h)
  <2>1. /\ deployed' = [deployed EXCEPT ![h.run] = deployed[h.run] + 1]
        /\ handlers' = (handlers \ {h}) \cup {[h EXCEPT !.at = "commit"]}
    BY <1>5 DEF Count, Inc
  <2>2. handlers' \subseteq Handler
    BY <1>3, <2>1 DEF CiTypes
  <2>3. deployed' \in [Run -> Nat]
    BY <1>4, <2>1 DEF CiTypes
  <2> QED
    BY <1>2, <2>1, <2>2, <2>3
<1>6. CASE ~Deploys(h)
  BY <1>2, <1>6 DEF Count, CiTypes, Inc
<1> QED
  BY <1>5, <1>6

(* Every step of the shim and of Gitea, as far as the types are concerned. *)
LEMMA CiTypesInvariance == Spec => []CiTypes
<1>1. Init => CiTypes
  BY FS_EmptySet DEF Init, CiTypes, NoJobs, Zero
<1>2. CiTypes /\ [Next]_vars => CiTypes'
  <2> SUFFICES ASSUME CiTypes, [Next]_vars PROVE CiTypes'
    OBVIOUS
  <2>1. ASSUME NEW j \in Job, Queue(j) \/ PickUp(j) \/ Conclude(j) PROVE CiTypes'
    <3>1. PICK a \in {"queued", "in_progress", "completed"} : Emit(JobMessage(j, a))
      BY <2>1 DEF Queue, PickUp, Conclude, Move
    <3>2. net' \in Seq(Message)
      BY <3>1 DEF Emit, CiTypes, Message
    <3> QED
      BY <2>1, <3>2 DEF Queue, PickUp, Conclude, Move, metrics, CiTypes
  <2>2. ASSUME NEW r \in Run, CloseRun(r) PROVE CiTypes'
    <3>1. net' \in Seq(Message)
      BY <2>2 DEF CloseRun, Emit, CiTypes, Message
    <3> QED
      BY <2>2, <3>1 DEF CloseRun, metrics, CiTypes
  <2>3. CASE Deliver
    <3>1. Head(net) \in Message /\ net' \in Seq(Message) /\ Handle(Head(net))
      BY <2>3 DEF Deliver, CiTypes
    <3> QED
      BY <3>1, HandleType DEF CiTypes
  <2>4. CASE DeliverBadly
    <3>1. PICK i \in DOMAIN net : /\ net' = RemoveAt(net, i) \/ net' = net
                                  /\ Handle(net[i])
      BY <2>4 DEF DeliverBadly
    <3>2. net[i] \in Message /\ net' \in Seq(Message)
      BY <3>1, RemoveAtType DEF CiTypes
    <3> QED
      BY <3>1, <3>2, HandleType DEF CiTypes
  <2>5. CASE Lose
    <3>1. net' \in Seq(Message)
      BY <2>5, RemoveAtType DEF Lose, CiTypes
    <3> QED
      BY <2>5, <3>1 DEF Lose, metrics, CiTypes
  <2>6. CASE Reject
    BY <2>6 DEF Reject, metrics, CiTypes
  <2>7. CASE Restart
    BY <2>7, FS_EmptySet DEF Restart, NoJobs, Zero, CiTypes
  <2>8. ASSUME NEW h \in handlers, TraceAnswered(h) PROVE CiTypes'
    <3>1. Count(h)
      BY <2>8 DEF TraceAnswered, AfterFailure, Spans
    <3> QED
      BY <2>8, <3>1, CountType DEF TraceAnswered, CiTypes, Spans
  <2>9. ASSUME NEW h \in handlers, CommitAnswered(h) PROVE CiTypes'
    <3>1. IsFiniteSet(handlers') /\ handlers' \subseteq Handler
      BY <2>9, FS_RemoveElement DEF CommitAnswered, CiTypes
    <3>2. lead' \in [Run -> Nat]
      <4>1. lead' = lead \/ lead' = [lead EXCEPT ![h.run] = lead[h.run] + 1]
        BY <2>9 DEF CommitAnswered, Leads, Observe
      <4>2. h.run \in Run /\ lead[h.run] + 1 \in Nat
        BY <2>9 DEF CiTypes, Handler
      <4> QED
        BY <4>1, <4>2 DEF CiTypes
    <3> QED
      BY <2>9, <3>1, <3>2 DEF CommitAnswered, CiTypes
  <2>10. CASE UNCHANGED vars
    BY <2>10 DEF vars, metrics, CiTypes
  <2> QED
    BY <2>1, <2>2, <2>3, <2>4, <2>5, <2>6, <2>7, <2>8, <2>9, <2>10 DEF Next, Shim
<1> QED
  BY <1>1, <1>2, PTL DEF Spec

-----------------------------------------------------------------------------
(* A job that was told of stays remembered, at work or traced.             *)
JobsInv == CiTypes /\ Settled /\ JobsAccounted

LEMMA HandleJobs ==
  ASSUME JobsInv, NEW m \in Message, Handle(m)
  PROVE  Settled' /\ JobsAccounted'
<1>1. m.run \in Run /\ traced' = traced /\ untraced' = untraced
  BY MessageRun DEF Handle, HandleJob, HandleRun, Observe, Inc
<1>2. CASE m.event = "workflow_job"
  <2>1. /\ HandleJob(m) /\ m.job \in Job /\ m.run = RunOf[m.job]
        /\ handlers' = handlers
    BY <1>2, JobMessageRun DEF Handle, HandleJob, Observe
  <2>2. Settled'
    BY <1>1, <2>1 DEF JobsInv, Settled
  <2>3. CASE m.action = "completed"
    <3>1. /\ runJobs' = [runJobs EXCEPT ![m.run] = runJobs[m.run] \cup {m.job}]
          /\ heard' = heard \cup {m.job}
      BY <2>1, <2>3 DEF HandleJob, Remember, Observe
    <3>2. \A r \in Run : runJobs[r] \subseteq runJobs'[r]
      BY <1>1, <3>1 DEF JobsInv, CiTypes
    <3>3. m.job \in runJobs'[RunOf[m.job]]
      BY <1>1, <2>1, <3>1 DEF JobsInv, CiTypes
    <3>4. ASSUME NEW j \in heard, j \in runJobs[RunOf[j]] PROVE j \in runJobs'[RunOf[j]]
      <4>1. CASE RunOf[j] = m.run
        BY <1>1, <3>1, <3>4, <4>1 DEF JobsInv, CiTypes
      <4>2. CASE RunOf[j] # m.run
        BY <3>1, <3>4, <4>2 DEF JobsInv, CiTypes
      <4> QED
        BY <4>1, <4>2
    <3> QED
      BY <1>1, <2>1, <2>2, <3>1, <3>3, <3>4 DEF JobsInv, JobsAccounted
  <2>4. CASE m.action # "completed"
    BY <1>1, <2>1, <2>2, <2>4 DEF HandleJob, JobsInv, JobsAccounted, Observe
  <2> QED
    BY <2>3, <2>4
<1>3. CASE m.event # "workflow_job"
  <2> DEFINE new == [run |-> m.run, nth |-> runs'[m.run], jobs |-> runJobs[m.run], at |-> "trace"]
  <2>1. /\ runJobs' = [runJobs EXCEPT ![m.run] = {}]
        /\ handlers' = handlers \cup {new}
        /\ heard' = heard
    BY <1>3 DEF Handle, HandleRun, Forget, Inc
  <2>2. new.jobs = runJobs[m.run] /\ new.at = "trace"
    OBVIOUS
  <2> HIDE DEF new
  <2>3. Settled'
    BY <1>1, <2>1, <2>2 DEF JobsInv, Settled
  <2>4. ASSUME NEW j \in heard, j \in runJobs[RunOf[j]]
        PROVE  j \in runJobs'[RunOf[j]] \/ \E h \in handlers' : j \in h.jobs
    <3>1. CASE RunOf[j] = m.run
      BY <2>1, <2>2, <2>4, <3>1
    <3>2. CASE RunOf[j] # m.run
      BY <2>1, <2>4, <3>2 DEF JobsInv, CiTypes
    <3> QED
      BY <3>1, <3>2
  <2> QED
    BY <1>1, <2>1, <2>3, <2>4 DEF JobsInv, JobsAccounted
<1> QED
  BY <1>2, <1>3

(* No completed job that the shim heard of is dropped without a trace or   *)
(* an error that was counted.                                              *)
THEOREM JobsInvariance == Spec => []JobsAccounted
<1>1. Init => Settled /\ JobsAccounted
  BY DEF Init, Settled, JobsAccounted
<1>2. JobsInv /\ [Next]_vars => (Settled /\ JobsAccounted)'
  <2> SUFFICES ASSUME JobsInv, [Next]_vars PROVE Settled' /\ JobsAccounted'
    OBVIOUS
  <2>1. ASSUME UNCHANGED <<runJobs, handlers, traced, untraced, heard>>
        PROVE  Settled' /\ JobsAccounted'
    BY <2>1 DEF JobsInv, Settled, JobsAccounted
  <2>2. ASSUME NEW j \in Job, Queue(j) \/ PickUp(j) \/ Conclude(j)
        PROVE  Settled' /\ JobsAccounted'
    BY <2>1, <2>2 DEF Queue, PickUp, Conclude, Move, metrics, ghosts
  <2>3. ASSUME NEW r \in Run, CloseRun(r) PROVE Settled' /\ JobsAccounted'
    BY <2>1, <2>3 DEF CloseRun, metrics, ghosts
  <2>4. CASE Deliver
    <3>1. Head(net) \in Message /\ Handle(Head(net))
      BY <2>4 DEF Deliver, JobsInv, CiTypes
    <3> QED
      BY <3>1, HandleJobs
  <2>5. CASE DeliverBadly
    <3>1. PICK i \in DOMAIN net : Handle(net[i])
      BY <2>5 DEF DeliverBadly
    <3>2. net[i] \in Message
      BY <3>1 DEF JobsInv, CiTypes
    <3> QED
      BY <3>1, <3>2, HandleJobs
  <2>6. CASE Lose \/ Reject
    BY <2>1, <2>6 DEF Lose, Reject, metrics
  <2>7. CASE Restart
    BY <2>7 DEF Restart, Settled, JobsAccounted
  <2>8. ASSUME NEW h \in handlers, TraceAnswered(h) PROVE Settled' /\ JobsAccounted'
    <3>1. /\ h.jobs \subseteq traced' \cup untraced'
          /\ traced \subseteq traced' /\ untraced \subseteq untraced'
          /\ Count(h)
          /\ runJobs' = runJobs /\ heard' = heard
      BY <2>8 DEF TraceAnswered, AfterFailure, Spans
    <3>2. handlers \ {h} \subseteq handlers'
      BY <3>1 DEF Count, Inc
    <3>3. \A g \in handlers' : g \in handlers \ {h} \/ g.jobs = h.jobs
      <4>1. [h EXCEPT !.at = "commit"].jobs = h.jobs
        <5>1. h \in Handler
          BY <2>8 DEF JobsInv, CiTypes
        <5> QED
          BY <5>1 DEF Handler
      <4> QED
        BY <3>1, <4>1 DEF Count, Inc
    <3>4. Settled'
      BY <3>1, <3>3 DEF JobsInv, Settled
    <3>5. JobsAccounted'
      BY <3>1, <3>2 DEF JobsInv, JobsAccounted
    <3> QED
      BY <3>4, <3>5
  <2>9. ASSUME NEW h \in handlers, CommitAnswered(h) PROVE Settled' /\ JobsAccounted'
    BY <2>9 DEF CommitAnswered, ghosts, JobsInv, Settled, JobsAccounted
  <2>10. CASE UNCHANGED vars
    BY <2>1, <2>10 DEF vars, metrics, ghosts
  <2> QED
    BY <2>2, <2>3, <2>4, <2>5, <2>6, <2>7, <2>8, <2>9, <2>10 DEF Next, Shim
<1>3. CiTypes /\ Settled /\ JobsAccounted <=> JobsInv
  BY DEF JobsInv
<1> QED
  BY <1>1, <1>2, <1>3, CiTypesInvariance, PTL DEF Spec

-----------------------------------------------------------------------------
(* The handlers of one run and point, as one of them comes or goes.        *)
LEMMA WaitingFinite ==
  ASSUME CiTypes, NEW r, NEW p
  PROVE  IsFiniteSet(Waiting(r, p)) /\ Cardinality(Waiting(r, p)) \in Nat
<1>1. Waiting(r, p) \in SUBSET handlers
  BY DEF Waiting
<1> QED
  BY <1>1, FS_Subset, FS_CardinalityType DEF CiTypes

LEMMA WaitingGrows ==
  ASSUME CiTypes, NEW r, NEW p, NEW h
  PROVE  /\ Cardinality(Waiting(r, p) \cup {h}) \in Nat
         /\ Cardinality(Waiting(r, p) \cup {h}) <= Cardinality(Waiting(r, p)) + 1
<1>1. IsFiniteSet(Waiting(r, p)) /\ Cardinality(Waiting(r, p)) \in Nat
  BY WaitingFinite
<1> QED
  BY <1>1, FS_AddElement

LEMMA WaitingShrinks ==
  ASSUME CiTypes, NEW h \in handlers, NEW r, NEW p
  PROVE  /\ h.run = r /\ h.at = p =>
              Cardinality(Waiting(r, p) \ {h}) = Cardinality(Waiting(r, p)) - 1
         /\ h.run # r \/ h.at # p => Waiting(r, p) \ {h} = Waiting(r, p)
<1>1. IsFiniteSet(Waiting(r, p)) /\ Cardinality(Waiting(r, p)) \in Nat
  BY WaitingFinite
<1> QED
  BY <1>1, FS_RemoveElement DEF Waiting

LEMMA OpenBounds == CiTypes /\ Open => DoraConsistent
<1> SUFFICES ASSUME CiTypes, Open, NEW r \in Run
             PROVE  lead[r] <= deployed[r] /\ deployed[r] <= runs[r]
  BY DEF DoraConsistent
<1>1. Cardinality(Waiting(r, "commit")) \in Nat /\ Cardinality(Waiting(r, "trace")) \in Nat
  BY WaitingFinite
<1>2. lead[r] \in Nat /\ deployed[r] \in Nat /\ runs[r] \in Nat
  BY DEF CiTypes
<1> QED
  BY <1>1, <1>2 DEF Open

LEMMA HandleOpen ==
  ASSUME CiTypes, Open, NEW m \in Message, Handle(m)
  PROVE  Open'
<1>1. m.run \in Run /\ deployed' = deployed /\ lead' = lead
  BY MessageRun, HandleType
<1>2. CASE m.event = "workflow_job"
  BY <1>1, <1>2 DEF Handle, HandleJob, Open, Waiting, Observe
<1>3. CASE m.event # "workflow_job"
  <2> DEFINE new == [run |-> m.run, nth |-> runs'[m.run], jobs |-> runJobs[m.run], at |-> "trace"]
  <2>1. /\ runs' = [runs EXCEPT ![m.run] = runs[m.run] + 1]
        /\ handlers' = handlers \cup {new}
    BY <1>3 DEF Handle, HandleRun, Inc
  <2>2. new.run = m.run /\ new.at = "trace"
    OBVIOUS
  <2> HIDE DEF new
  <2> SUFFICES ASSUME NEW r \in Run
               PROVE  /\ lead'[r] + Cardinality(Waiting(r, "commit")') <= deployed'[r]
                      /\ deployed'[r] + Cardinality(Waiting(r, "trace")') <= runs'[r]
    BY DEF Open
  <2>3. Waiting(r, "commit")' = Waiting(r, "commit")
    BY <2>1, <2>2 DEF Waiting
  <2>4. /\ Cardinality(Waiting(r, "trace")) \in Nat
        /\ lead[r] \in Nat /\ deployed[r] \in Nat /\ runs[r] \in Nat
    BY WaitingFinite DEF CiTypes
  <2>5. CASE r = m.run
    <3>1. Waiting(r, "trace")' = Waiting(r, "trace") \cup {new}
      BY <2>1, <2>2, <2>5 DEF Waiting
    <3>2. /\ Cardinality(Waiting(r, "trace")') \in Nat
          /\ Cardinality(Waiting(r, "trace")') <= Cardinality(Waiting(r, "trace")) + 1
      BY <3>1, WaitingGrows
    <3>3. runs'[r] = runs[r] + 1
      BY <2>1, <2>5 DEF CiTypes
    <3> QED
      BY <1>1, <2>3, <2>4, <3>2, <3>3 DEF Open
  <2>6. CASE r # m.run
    <3>1. Waiting(r, "trace")' = Waiting(r, "trace")
      BY <2>1, <2>2, <2>6 DEF Waiting
    <3>2. runs'[r] = runs[r]
      BY <2>1, <2>6 DEF CiTypes
    <3> QED
      BY <1>1, <2>3, <3>1, <3>2 DEF Open
  <2> QED
    BY <2>5, <2>6
<1> QED
  BY <1>2, <1>3

LEMMA CountOpen ==
  ASSUME CiTypes, Open, NEW h \in handlers, TraceAnswered(h)
  PROVE  Open'
<1>1. h \in Handler /\ h.run \in Run /\ h.at = "trace" /\ Count(h) /\ lead' = lead /\ runs' = runs
  BY DEF TraceAnswered, AfterFailure, CiTypes, Handler, Spans
<1> SUFFICES ASSUME NEW r \in Run
             PROVE  /\ lead'[r] + Cardinality(Waiting(r, "commit")') <= deployed'[r]
                    /\ deployed'[r] + Cardinality(Waiting(r, "trace")') <= runs'[r]
  BY DEF Open
<1>2. /\ Cardinality(Waiting(r, "trace")) \in Nat
      /\ Cardinality(Waiting(r, "commit")) \in Nat
      /\ lead[r] \in Nat /\ deployed[r] \in Nat /\ runs[r] \in Nat
  BY WaitingFinite DEF CiTypes
<1>3. Cardinality(Waiting(r, "trace") \ {h}) =
        IF r = h.run THEN Cardinality(Waiting(r, "trace")) - 1 ELSE Cardinality(Waiting(r, "trace"))
  <2>1. CASE h.run = r
    BY <1>1, <2>1, WaitingShrinks
  <2>2. CASE h.run # r
    <3>1. Waiting(r, "trace") \ {h} = Waiting(r, "trace")
      BY <2>2 DEF Waiting
    <3> QED
      BY <2>2, <3>1
  <2> QED
    BY <2>1, <2>2
<1>9. /\ lead[r] + Cardinality(Waiting(r, "commit")) <= deployed[r]
      /\ deployed[r] + Cardinality(Waiting(r, "trace")) <= runs[r]
      /\ lead'[r] = lead[r] /\ runs'[r] = runs[r]
  BY <1>1 DEF Open
<1>4. CASE Deploys(h)
  <2> DEFINE after == [h EXCEPT !.at = "commit"]
  <2>1. /\ deployed' = [deployed EXCEPT ![h.run] = deployed[h.run] + 1]
        /\ handlers' = (handlers \ {h}) \cup {after}
    BY <1>1, <1>4 DEF Count, Inc
  <2>2. after.run = h.run /\ after.at = "commit"
    BY <1>1 DEF Handler
  <2> HIDE DEF after
  <2>3. Waiting(r, "trace")' = Waiting(r, "trace") \ {h}
    BY <2>1, <2>2 DEF Waiting
  <2>4. CASE r = h.run
    <3>1. Waiting(r, "commit")' = Waiting(r, "commit") \cup {after}
      BY <1>1, <2>1, <2>2, <2>4 DEF Waiting
    <3>2. /\ Cardinality(Waiting(r, "commit")') \in Nat
          /\ Cardinality(Waiting(r, "commit")') <= Cardinality(Waiting(r, "commit")) + 1
      BY <3>1, WaitingGrows
    <3>3. deployed'[r] = deployed[r] + 1
      BY <2>1, <2>4 DEF CiTypes
    <3> QED
      <4>1. Cardinality(Waiting(r, "trace")') = Cardinality(Waiting(r, "trace")) - 1
        BY <1>3, <2>3, <2>4
      <4> QED
        BY <1>2, <1>9, <3>2, <3>3, <4>1
  <2>5. CASE r # h.run
    <3>1. Waiting(r, "commit")' = Waiting(r, "commit")
      BY <1>1, <2>1, <2>2, <2>5 DEF Waiting
    <3>2. deployed'[r] = deployed[r]
      BY <2>1, <2>5 DEF CiTypes
    <3> QED
      <4>1. /\ Cardinality(Waiting(r, "trace")') = Cardinality(Waiting(r, "trace"))
            /\ Cardinality(Waiting(r, "commit")') = Cardinality(Waiting(r, "commit"))
        BY <1>3, <2>3, <2>5, <3>1
      <4> QED
        BY <1>2, <1>9, <3>2, <4>1
  <2> QED
    BY <2>4, <2>5
<1>5. CASE ~Deploys(h)
  <2>1. deployed' = deployed /\ handlers' = handlers \ {h}
    BY <1>1, <1>5 DEF Count, Inc
  <2>2. /\ Waiting(r, "trace")' = Waiting(r, "trace") \ {h}
        /\ Waiting(r, "commit")' = Waiting(r, "commit")
    BY <1>1, <2>1 DEF Waiting
  <2> QED
    <3>1. /\ Cardinality(Waiting(r, "trace")') <= Cardinality(Waiting(r, "trace"))
          /\ Cardinality(Waiting(r, "trace")') \in Int
          /\ Cardinality(Waiting(r, "commit")') = Cardinality(Waiting(r, "commit"))
      BY <1>2, <1>3, <2>2
    <3>2. deployed'[r] = deployed[r]
      BY <2>1
    <3> QED
      BY <1>2, <1>9, <3>1, <3>2
<1> QED
  BY <1>4, <1>5

LEMMA CommitOpen ==
  ASSUME CiTypes, Open, NEW h \in handlers, CommitAnswered(h)
  PROVE  Open'
<1>1. /\ h.run \in Run /\ h.at = "commit" /\ handlers' = handlers \ {h}
      /\ deployed' = deployed /\ runs' = runs
      /\ lead' = lead \/ lead' = [lead EXCEPT ![h.run] = lead[h.run] + 1]
  BY DEF CommitAnswered, Leads, CiTypes, Handler, Observe
<1> SUFFICES ASSUME NEW r \in Run
             PROVE  /\ lead'[r] + Cardinality(Waiting(r, "commit")') <= deployed'[r]
                    /\ deployed'[r] + Cardinality(Waiting(r, "trace")') <= runs'[r]
  BY DEF Open
<1>2. /\ Cardinality(Waiting(r, "commit")) \in Nat
      /\ lead[r] \in Nat /\ deployed[r] \in Nat
  BY WaitingFinite DEF CiTypes
<1>3. Cardinality(Waiting(r, "commit") \ {h}) =
        IF r = h.run THEN Cardinality(Waiting(r, "commit")) - 1 ELSE Cardinality(Waiting(r, "commit"))
  <2>1. /\ h.run = r => Cardinality(Waiting(r, "commit") \ {h})
                          = Cardinality(Waiting(r, "commit")) - 1
        /\ h.run # r => Waiting(r, "commit") \ {h} = Waiting(r, "commit")
    BY <1>1, WaitingShrinks
  <2> QED
    BY <2>1
<1>4. /\ Waiting(r, "commit")' = Waiting(r, "commit") \ {h}
      /\ Waiting(r, "trace")' = Waiting(r, "trace")
  BY <1>1 DEF Waiting
<1>5. lead'[r] <= (IF r = h.run THEN lead[r] + 1 ELSE lead[r]) /\ lead'[r] \in Nat
  BY <1>1, <1>2 DEF CiTypes
<1>6. /\ lead[r] + Cardinality(Waiting(r, "commit")) <= deployed[r]
      /\ deployed[r] + Cardinality(Waiting(r, "trace")) <= runs[r]
  BY DEF Open
<1>7. Cardinality(Waiting(r, "commit")') =
        IF r = h.run THEN Cardinality(Waiting(r, "commit")) - 1 ELSE Cardinality(Waiting(r, "commit"))
  BY <1>3, <1>4
<1>8. /\ Cardinality(Waiting(r, "trace")') = Cardinality(Waiting(r, "trace"))
      /\ deployed'[r] = deployed[r] /\ runs'[r] = runs[r]
  BY <1>1, <1>4
<1> QED
  BY <1>2, <1>5, <1>6, <1>7, <1>8

(* The counters of ci-shim never show more lead times than deployments or  *)
(* more deployments than runs, whatever is lost, repeated or overtaken.    *)
THEOREM DoraInvariance == Spec => []DoraConsistent
<1>1. Init => Open
  <2> SUFFICES ASSUME Init, NEW r \in Run
               PROVE  /\ lead[r] + Cardinality(Waiting(r, "commit")) <= deployed[r]
                      /\ deployed[r] + Cardinality(Waiting(r, "trace")) <= runs[r]
    BY DEF Open
  <2>1. Waiting(r, "commit") = {} /\ Waiting(r, "trace") = {}
    BY DEF Init, Waiting
  <2>2. lead[r] = 0 /\ deployed[r] = 0 /\ runs[r] = 0
    BY DEF Init, Zero
  <2>3. Cardinality(Waiting(r, "commit")) = 0 /\ Cardinality(Waiting(r, "trace")) = 0
    BY <2>1, FS_EmptySet
  <2> QED
    BY <2>2, <2>3
<1>2. CiTypes /\ Open /\ [Next]_vars => Open'
  <2> SUFFICES ASSUME CiTypes, Open, [Next]_vars PROVE Open'
    OBVIOUS
  <2>1. ASSUME UNCHANGED <<handlers, runs, deployed, lead>> PROVE Open'
    BY <2>1 DEF Open, Waiting
  <2>2. ASSUME NEW j \in Job, Queue(j) \/ PickUp(j) \/ Conclude(j) PROVE Open'
    BY <2>1, <2>2 DEF Queue, PickUp, Conclude, Move, metrics
  <2>3. ASSUME NEW r \in Run, CloseRun(r) PROVE Open'
    BY <2>1, <2>3 DEF CloseRun, metrics
  <2>4. CASE Deliver
    <3>1. Head(net) \in Message /\ Handle(Head(net))
      BY <2>4 DEF Deliver, CiTypes
    <3> QED
      BY <3>1, HandleOpen
  <2>5. CASE DeliverBadly
    <3>1. PICK i \in DOMAIN net : Handle(net[i])
      BY <2>5 DEF DeliverBadly
    <3>2. net[i] \in Message
      BY <3>1 DEF CiTypes
    <3> QED
      BY <3>1, <3>2, HandleOpen
  <2>6. CASE Lose \/ Reject
    BY <2>1, <2>6 DEF Lose, Reject, metrics
  <2>7. CASE Restart
    <3> SUFFICES ASSUME NEW r \in Run
                 PROVE  /\ lead'[r] + Cardinality(Waiting(r, "commit")') <= deployed'[r]
                        /\ deployed'[r] + Cardinality(Waiting(r, "trace")') <= runs'[r]
      BY DEF Open
    <3>1. Waiting(r, "commit")' = {} /\ Waiting(r, "trace")' = {}
      BY <2>7 DEF Restart, Waiting
    <3>2. lead'[r] = 0 /\ deployed'[r] = 0 /\ runs'[r] = 0
      BY <2>7 DEF Restart, Zero
    <3>3. Cardinality(Waiting(r, "commit")') = 0 /\ Cardinality(Waiting(r, "trace")') = 0
      BY <3>1, FS_EmptySet
    <3> QED
      BY <3>2, <3>3
  <2>8. ASSUME NEW h \in handlers, TraceAnswered(h) \/ CommitAnswered(h) PROVE Open'
    BY <2>8, CountOpen, CommitOpen
  <2>9. CASE UNCHANGED vars
    BY <2>1, <2>9 DEF vars, metrics
  <2> QED
    BY <2>2, <2>3, <2>4, <2>5, <2>6, <2>7, <2>8, <2>9 DEF Next, Shim
<1> QED
  BY <1>1, <1>2, CiTypesInvariance, OpenBounds, PTL DEF Spec

-----------------------------------------------------------------------------
(* The gauge of pending jobs: the last message of a job on its way tells   *)
(* what became of the job, and once there is none the shim knows it, as    *)
(* long as the webhooks of its run arrive in order.                        *)
About(s, j) == {i \in DOMAIN s : s[i].event = "workflow_job" /\ s[i].job = j}

LastOf(s, j, i) == i \in About(s, j) /\ \A k \in About(s, j) : k <= i

InStep(j) ==
  /\ \A i \in DOMAIN net : LastOf(net, j, i) => (net[i].action = "queued" <=> stage[j] = "queued")
  /\ About(net, j) = {} => (j \in pending <=> stage[j] = "queued")

LastTells == \A j \in Job : RunOf[j] \notin disturbed => InStep(j)

StageType == DOMAIN stage = Job

LEMMA RemoveAtElements ==
  ASSUME NEW s \in Seq(Message), NEW i \in DOMAIN s
  PROVE  /\ DOMAIN RemoveAt(s, i) = 1 .. (Len(s) - 1)
         /\ \A k \in 1 .. (Len(s) - 1) : RemoveAt(s, i)[k] = IF k < i THEN s[k] ELSE s[k + 1]
<1> DEFINE a == SubSeq(s, 1, i - 1)
           b == SubSeq(s, i + 1, Len(s))
<1>1. Len(s) \in Nat /\ i \in 1 .. Len(s)
  OBVIOUS
<1>2. a \in Seq(Message) /\ Len(a) = i - 1 /\ \A k \in 1 .. (i - 1) : a[k] = s[k]
  BY <1>1
<1>3. b \in Seq(Message) /\ Len(b) = Len(s) - i /\ \A k \in 1 .. (Len(s) - i) : b[k] = s[k + i]
  BY <1>1
<1>4. RemoveAt(s, i) = a \o b
  BY DEF RemoveAt
<1> HIDE DEF a, b
<1>5. DOMAIN (a \o b) = 1 .. (Len(s) - 1)
  BY <1>1, <1>2, <1>3
<1>6. ASSUME NEW k \in 1 .. (Len(s) - 1) PROVE (a \o b)[k] = IF k < i THEN s[k] ELSE s[k + 1]
  <2>1. CASE k < i
    BY <1>1, <1>2, <1>3, <2>1
  <2>2. CASE ~(k < i)
    <3>1. (a \o b)[k] = b[k - (i - 1)]
      <4>1. k \in 1 .. (Len(a) + Len(b)) /\ ~(k <= Len(a)) /\ Len(a) = i - 1
        BY <1>1, <1>2, <1>3, <2>2
      <4>2. (a \o b)[k] = IF k <= Len(a) THEN a[k] ELSE b[k - Len(a)]
        BY <1>2, <1>3, <4>1, ConcatProperties
      <4> QED
        BY <4>1, <4>2
    <3>2. k - (i - 1) \in 1 .. (Len(s) - i) /\ (k - (i - 1)) + i = k + 1
      BY <1>1, <2>2
    <3> QED
      BY <1>3, <2>2, <3>1, <3>2
  <2> QED
    BY <2>1, <2>2
<1> QED
  BY <1>4, <1>5, <1>6

(* A job keeps in step when a message that is not about it leaves, from    *)
(* wherever it was.                                                        *)
LEMMA InStepWithoutOther ==
  ASSUME CiTypes, NEW j \in Job, InStep(j),
         NEW i \in DOMAIN net, i \notin About(net, j), net' = RemoveAt(net, i),
         stage' = stage, j \in pending' <=> j \in pending
  PROVE  InStep(j)'
<1>1. /\ net \in Seq(Message) /\ Len(net) \in Nat /\ i \in 1 .. Len(net)
      /\ DOMAIN net = 1 .. Len(net)
  BY DEF CiTypes
<1>2. /\ DOMAIN net' = 1 .. (Len(net) - 1)
      /\ \A k \in 1 .. (Len(net) - 1) : net'[k] = IF k < i THEN net[k] ELSE net[k + 1]
  BY <1>1, RemoveAtElements
<1>3. ASSUME NEW k \in About(net, j)
      PROVE  /\ k < i => k \in About(net', j)
             /\ ~(k < i) => k - 1 \in About(net', j) /\ k - 1 >= i
  <2>1. k \in 1 .. Len(net) /\ k # i
    BY <1>1, <1>3 DEF About
  <2>2. CASE k < i
    <3>1. k \in DOMAIN net' /\ net'[k] = net[k]
      BY <1>1, <1>2, <2>1, <2>2
    <3> QED
      BY <1>3, <2>2, <3>1 DEF About
  <2>3. CASE ~(k < i)
    <3>1. k - 1 \in DOMAIN net' /\ k - 1 >= i /\ ~(k - 1 < i) /\ (k - 1) + 1 = k
      BY <1>1, <1>2, <2>1, <2>3
    <3>2. net'[k - 1] = net[k]
      BY <1>2, <3>1
    <3> QED
      BY <1>3, <2>3, <3>1, <3>2 DEF About
  <2> QED
    BY <2>2, <2>3
<1>4. ASSUME NEW k \in DOMAIN net', LastOf(net', j, k)
      PROVE  net'[k].action = "queued" <=> stage'[j] = "queued"
  <2>1. PICK n \in DOMAIN net : n = (IF k < i THEN k ELSE k + 1) /\ net'[k] = net[n]
    BY <1>1, <1>2
  <2>2. n \in About(net, j)
    BY <1>4, <2>1 DEF LastOf, About
  <2>3. ASSUME NEW l \in About(net, j) PROVE l <= n
    <3>1. l \in 1 .. Len(net) /\ k \in 1 .. (Len(net) - 1)
      BY <1>1, <1>2 DEF About
    <3>2. \A x \in About(net', j) : x <= k
      BY <1>4 DEF LastOf
    <3>3. CASE l < i
      <4>1. l <= k
        BY <1>3, <3>2, <3>3
      <4> QED
        BY <1>1, <2>1, <3>1, <4>1
    <3>4. CASE ~(l < i)
      <4>1. l - 1 <= k /\ l - 1 >= i
        BY <1>3, <3>2, <3>4
      <4> QED
        BY <1>1, <2>1, <3>1, <4>1
    <3> QED
      BY <3>3, <3>4
  <2> QED
    BY <2>1, <2>2, <2>3 DEF InStep, LastOf
<1>5. About(net', j) = {} => (j \in pending' <=> stage'[j] = "queued")
  BY <1>3 DEF InStep
<1> QED
  BY <1>4, <1>5 DEF InStep

(* What a delivery makes of the pending jobs.                              *)
LEMMA HandlePending ==
  ASSUME NEW m \in Message, Handle(m), NEW j \in Job
  PROVE  IF m.event = "workflow_job" /\ m.job = j
         THEN j \in pending' <=> m.action = "queued"
         ELSE j \in pending' <=> j \in pending
<1>1. CASE m.event = "workflow_job"
  BY <1>1 DEF Handle, HandleJob, DropsPending
<1>2. CASE m.event # "workflow_job"
  BY <1>2 DEF Handle, HandleRun
<1> QED
  BY <1>1, <1>2

(* ... also when the next message, which may be about the job, is          *)
(* delivered.                                                              *)
LEMMA InStepDelivered ==
  ASSUME CiTypes, NEW j \in Job, InStep(j), net # <<>>, net' = Tail(net), Handle(Head(net)),
         stage' = stage
  PROVE  InStep(j)'
<1>1. /\ net \in Seq(Message) /\ Len(net) \in Nat \ {0} /\ 1 \in DOMAIN net /\ Head(net) = net[1]
      /\ DOMAIN net = 1 .. Len(net) /\ net[1] \in Message
  BY DEF CiTypes
<1>2. /\ DOMAIN net' = 1 .. (Len(net) - 1)
      /\ \A k \in 1 .. (Len(net) - 1) : net'[k] = net[k + 1]
  BY <1>1
<1>3. ASSUME NEW k \in About(net, j), k # 1 PROVE k - 1 \in About(net', j)
  <2>1. k - 1 \in DOMAIN net' /\ (k - 1) + 1 = k
    BY <1>1, <1>2, <1>3 DEF About
  <2>2. net'[k - 1] = net[k]
    BY <1>2, <2>1
  <2> QED
    BY <1>3, <2>1, <2>2 DEF About
<1>4. ASSUME NEW k \in DOMAIN net', LastOf(net', j, k)
      PROVE  net'[k].action = "queued" <=> stage'[j] = "queued"
  <2>1. k + 1 \in DOMAIN net /\ net'[k] = net[k + 1] /\ k \in Nat
    BY <1>1, <1>2
  <2>2. k + 1 \in About(net, j)
    BY <1>4, <2>1 DEF LastOf, About
  <2>3. ASSUME NEW l \in About(net, j) PROVE l <= k + 1
    <3>1. l \in Nat
      BY <1>1 DEF About
    <3>2. CASE l # 1
      <4>1. l - 1 <= k
        BY <1>3, <1>4, <3>2 DEF LastOf
      <4> QED
        BY <2>1, <3>1, <4>1
    <3> QED
      BY <2>1, <3>2
  <2> QED
    BY <2>1, <2>2, <2>3 DEF InStep, LastOf
<1>5. ASSUME About(net', j) = {} PROVE j \in pending' <=> stage'[j] = "queued"
  <2>1. \A k \in About(net, j) : k = 1
    BY <1>3, <1>5
  <2>2. CASE 1 \in About(net, j)
    <3>1. LastOf(net, j, 1)
      BY <2>1, <2>2 DEF LastOf
    <3>2. net[1].action = "queued" <=> stage[j] = "queued"
      BY <1>1, <3>1 DEF InStep
    <3>3. j \in pending' <=> net[1].action = "queued"
      BY <1>1, <2>2, HandlePending DEF About
    <3> QED
      BY <3>2, <3>3
  <2>3. CASE 1 \notin About(net, j)
    <3>1. About(net, j) = {}
      BY <2>1, <2>3
    <3>2. j \in pending' <=> j \in pending
      BY <1>1, <2>3, HandlePending DEF About
    <3> QED
      BY <3>1, <3>2 DEF InStep
  <2> QED
    BY <2>2, <2>3
<1> QED
  BY <1>4, <1>5 DEF InStep

(* A message that is sent: the job it is about is in step with it.         *)
LEMMA InStepSent ==
  ASSUME CiTypes, NEW j \in Job, InStep(j), NEW m \in Message, net' = Append(net, m),
         IF m.event = "workflow_job" /\ m.job = j
           THEN m.action = "queued" <=> stage'[j] = "queued"
           ELSE stage'[j] = stage[j],
         pending' = pending
  PROVE  InStep(j)'
<1>1. /\ net \in Seq(Message) /\ Len(net) \in Nat /\ DOMAIN net = 1 .. Len(net)
      /\ DOMAIN net' = 1 .. (Len(net) + 1) /\ net'[Len(net) + 1] = m
      /\ \A k \in DOMAIN net : net'[k] = net[k]
  BY DEF CiTypes
<1>2. About(net, j) \subseteq About(net', j)
  BY <1>1 DEF About
<1>3. CASE m.event = "workflow_job" /\ m.job = j
  <2>1. Len(net) + 1 \in About(net', j)
    BY <1>1, <1>3 DEF About
  <2>2. \A k \in DOMAIN net' : LastOf(net', j, k) => k = Len(net) + 1
    BY <1>1, <2>1 DEF LastOf
  <2> QED
    BY <1>1, <1>3, <2>1, <2>2 DEF InStep
<1>4. CASE ~(m.event = "workflow_job" /\ m.job = j)
  <2>1. About(net', j) = About(net, j)
    <3>1. Len(net) + 1 \notin About(net', j)
      BY <1>1, <1>4 DEF About
    <3>2. ASSUME NEW k \in About(net', j) PROVE k \in About(net, j)
      <4>1. k \in DOMAIN net
        BY <1>1, <3>1, <3>2 DEF About
      <4> QED
        BY <1>1, <3>2, <4>1 DEF About
    <3> QED
      BY <1>2, <3>2
  <2>2. \A k \in DOMAIN net' : LastOf(net', j, k) => k \in DOMAIN net /\ LastOf(net, j, k)
    BY <2>1 DEF LastOf, About
  <2>3. stage'[j] = stage[j]
    BY <1>4
  <2>4. ASSUME NEW k \in DOMAIN net', LastOf(net', j, k)
        PROVE  net'[k].action = "queued" <=> stage'[j] = "queued"
    BY <1>1, <2>2, <2>3, <2>4 DEF InStep
  <2> QED
    BY <2>1, <2>3, <2>4 DEF InStep
<1> QED
  BY <1>3, <1>4

(* What Gitea sends is true of the job as it sends it.                     *)
LEMMA MoveInStep ==
  ASSUME CiTypes, StageType, LastTells, NEW c \in Job, Queue(c) \/ PickUp(c) \/ Conclude(c)
  PROVE  StageType' /\ LastTells'
<1>1. PICK a \in {"queued", "in_progress", "completed"}, to \in {"queued", "running"} \cup Ended :
        /\ a = "queued" <=> to = "queued"
        /\ stage' = [stage EXCEPT ![c] = to]
        /\ net' = Append(net, JobMessage(c, a))
        /\ pending' = pending /\ disturbed' = disturbed
  BY DEF Queue, PickUp, Conclude, Move, Emit, ghosts, Ended
<1>2. PICK m \in Message : m = JobMessage(c, a)
  BY DEF Message
<1>3. m.event = "workflow_job" /\ m.job = c /\ m.action = a
  BY <1>2 DEF JobMessage
<1>4. ASSUME NEW j \in Job, RunOf[j] \notin disturbed' PROVE InStep(j)'
  <2>1. InStep(j)
    BY <1>1, <1>4 DEF LastTells
  <2>2. j # c => stage'[j] = stage[j]
    BY <1>1 DEF StageType
  <2>3. j = c => stage'[j] = to
    BY <1>1 DEF StageType
  <2>4. IF m.event = "workflow_job" /\ m.job = j
        THEN m.action = "queued" <=> stage'[j] = "queued"
        ELSE stage'[j] = stage[j]
    BY <1>1, <1>3, <2>2, <2>3
  <2>5. net' = Append(net, m) /\ pending' = pending
    BY <1>1, <1>2
  <2> QED
    BY <2>1, <2>4, <2>5, InStepSent
<1>5. StageType'
  BY <1>1 DEF StageType
<1> QED
  BY <1>4, <1>5 DEF LastTells

LEMMA LastTellsStep ==
  ASSUME CiTypes, StageType, LastTells, [Next]_vars
  PROVE  StageType' /\ LastTells'
<1>0. ASSUME UNCHANGED <<stage, net, pending>>, disturbed \subseteq disturbed'
      PROVE  StageType' /\ LastTells'
  <2>1. ASSUME NEW j \in Job, RunOf[j] \notin disturbed' PROVE InStep(j)'
    <3>1. InStep(j)
      BY <1>0, <2>1 DEF LastTells
    <3> QED
      BY <1>0, <3>1 DEF InStep
  <2> QED
    BY <1>0, <2>1 DEF LastTells, StageType
<1>1. ASSUME NEW j \in Job, Queue(j) \/ PickUp(j) \/ Conclude(j) PROVE StageType' /\ LastTells'
  BY <1>1, MoveInStep
<1>2. ASSUME NEW r \in Run, CloseRun(r) PROVE StageType' /\ LastTells'
  <2>1. /\ stage' = stage /\ net' = Append(net, RunMessage(r)) /\ pending' = pending
        /\ disturbed' = disturbed
    BY <1>2 DEF CloseRun, Emit, ghosts
  <2>2. RunMessage(r) \in Message /\ RunMessage(r).event = "workflow_run"
    BY DEF Message, RunMessage
  <2>3. ASSUME NEW j \in Job, RunOf[j] \notin disturbed' PROVE InStep(j)'
    <3>1. InStep(j)
      BY <2>1, <2>3 DEF LastTells
    <3> QED
      BY <2>1, <2>2, <3>1, InStepSent
  <2> QED
    BY <2>1, <2>3 DEF LastTells, StageType
<1>3. CASE Deliver
  <2>1. /\ stage' = stage /\ net # <<>> /\ net' = Tail(net) /\ Handle(Head(net))
        /\ disturbed' = disturbed
    BY <1>3 DEF Deliver, gitea, Fine
  <2>2. ASSUME NEW j \in Job, RunOf[j] \notin disturbed' PROVE InStep(j)'
    <3>1. InStep(j)
      BY <2>1, <2>2 DEF LastTells
    <3> QED
      BY <2>1, <3>1, InStepDelivered
  <2> QED
    BY <2>1, <2>2 DEF LastTells, StageType
<1>4. CASE DeliverBadly \/ Lose
  <2>1. PICK i \in DOMAIN net :
          /\ net' = RemoveAt(net, i) \/ net' = net
          /\ Handle(net[i]) \/ pending' = pending
          /\ disturbed' = disturbed \cup {net[i].run}
          /\ stage' = stage
    <3>1. CASE DeliverBadly
      BY <3>1 DEF DeliverBadly, Wrong, gitea
    <3>2. CASE Lose
      BY <3>2 DEF Lose, Wrong, gitea
    <3> QED
      BY <1>4, <3>1, <3>2
  <2>2. net[i] \in Message
    BY DEF CiTypes
  <2>3. ASSUME NEW j \in Job, RunOf[j] \notin disturbed' PROVE InStep(j)'
    <3>1. InStep(j) /\ RunOf[j] # net[i].run
      BY <2>1, <2>3 DEF LastTells
    <3>2. ~(net[i].event = "workflow_job" /\ net[i].job = j)
      BY <2>2, <3>1, JobMessageRun
    <3>3. j \in pending' <=> j \in pending
      BY <2>1, <2>2, <3>2, HandlePending
    <3>4. CASE net' = net
      BY <2>1, <3>1, <3>3, <3>4 DEF InStep
    <3>5. CASE net' = RemoveAt(net, i)
      <4>1. i \notin About(net, j)
        BY <3>2 DEF About
      <4> QED
        BY <2>1, <3>1, <3>3, <3>5, <4>1, InStepWithoutOther
    <3> QED
      BY <2>1, <3>4, <3>5
  <2> QED
    BY <2>1, <2>3 DEF LastTells, StageType
<1>5. CASE Reject
  BY <1>0, <1>5 DEF Reject, Wrong, gitea
<1>6. CASE Restart
  <2>1. Run \subseteq disturbed' /\ stage' = stage
    BY <1>6 DEF Restart, Wrong, gitea
  <2>2. \A j \in Job : RunOf[j] \in disturbed'
    BY <2>1, CiAssumption
  <2> QED
    BY <2>1, <2>2 DEF LastTells, StageType
<1>7. ASSUME NEW h \in handlers, TraceAnswered(h) PROVE StageType' /\ LastTells'
  <2>1. UNCHANGED <<stage, net, pending>> /\ disturbed \subseteq disturbed'
    BY <1>7 DEF TraceAnswered, Fine, Wrong, gitea
  <2> QED
    BY <1>0, <2>1
<1>8. ASSUME NEW h \in handlers, CommitAnswered(h) PROVE StageType' /\ LastTells'
  BY <1>0, <1>8 DEF CommitAnswered, ghosts, gitea
<1>9. CASE UNCHANGED vars
  BY <1>0, <1>9 DEF vars, ghosts, gitea
<1> QED
  BY <1>1, <1>2, <1>3, <1>4, <1>5, <1>6, <1>7, <1>8, <1>9 DEF Next, Shim

LEMMA LastTellsInvariance == Spec => [](StageType /\ LastTells)
<1>1. Init => StageType /\ LastTells
  BY DEF Init, StageType, LastTells, InStep, About
<1>2. CiTypes /\ StageType /\ LastTells /\ [Next]_vars => (StageType /\ LastTells)'
  BY LastTellsStep
<1> QED
  BY <1>1, <1>2, CiTypesInvariance, PTL DEF Spec

(* The gauge of pending jobs is true of every run whose webhooks met no    *)
(* fault, as soon as those on their way have arrived.                      *)
THEOREM GaugeInvariance == Spec => []GaugeIsTrue
<1>1. CiTypes /\ LastTells => GaugeIsTrue
  <2> SUFFICES ASSUME CiTypes, LastTells, NEW j \in Job, RunOf[j] \notin disturbed,
                      \A i \in DOMAIN net : net[i].run # RunOf[j]
               PROVE  j \in pending <=> stage[j] = "queued"
    BY DEF GaugeIsTrue
  <2>1. \A i \in DOMAIN net : net[i] \in Message
    BY DEF CiTypes
  <2>2. About(net, j) = {}
    BY <2>1, JobMessageRun DEF About
  <2> QED
    BY <2>2 DEF LastTells, InStep
<1> QED
  BY <1>1, CiTypesInvariance, LastTellsInvariance, PTL

-----------------------------------------------------------------------------
(* Deployments.  What the shim holds of a job, and what is on its way of   *)
(* its completion, is of a job that has ended and so stays as it is.       *)
EndedOnly ==
  /\ copies \in [Job -> Nat]
  /\ \A i \in DOMAIN net :
       net[i].event = "workflow_job" /\ net[i].action = "completed" => stage[net[i].job] \in Ended
  /\ \A j \in Job : copies[j] > 0 => stage[j] \in Ended
  /\ \A r \in Run : \A j \in runJobs[r] : RunOf[j] = r /\ stage[j] \in Ended
  /\ \A h \in handlers : \A j \in h.jobs : RunOf[j] = h.run /\ stage[j] \in Ended

Succeeded(J) == \E j \in J \cap DeployJob : stage[j] = "success"

\* the handlers that will count a deployment
Deploying(r) == {h \in Waiting(r, "trace") : Deploys(h)}

\* The deployments of a run that were counted, those its handlers will
\* count, and the one that its completion would start.
Booked(r) ==
  deployed[r] + Cardinality(Deploying(r)) + (IF Succeeded(runJobs[r]) THEN 1 ELSE 0)

Books == \A r \in Run : IsFiniteSet(Told(r)) /\ Booked(r) <= Cardinality(Told(r))

BooksInv == CiTypes /\ StageType /\ EndedOnly /\ Books

LEMMA ToldMember ==
  ASSUME NEW r, NEW x
  PROVE  x \in Told(r) <=>
           \E k \in JobsOf(r) \cap DeployJob :
             stage[k] = "success" /\ \E n \in 1 .. copies[k] : x = <<k, n>>
  BY DEF Told

LEMMA DeployingFinite ==
  ASSUME CiTypes, NEW r
  PROVE  IsFiniteSet(Deploying(r)) /\ Cardinality(Deploying(r)) \in Nat
<1>1. Deploying(r) \in SUBSET Waiting(r, "trace")
  BY DEF Deploying
<1> QED
  BY <1>1, WaitingFinite, FS_Subset, FS_CardinalityType

(* The books of a run stay in order as long as nothing of it changes.      *)
LEMMA BooksFrame ==
  ASSUME NEW r \in Run, Books, Told(r)' = Told(r), deployed'[r] = deployed[r],
         Deploying(r)' = Deploying(r), Succeeded(runJobs[r])' => Succeeded(runJobs[r]), CiTypes
  PROVE  IsFiniteSet(Told(r)') /\ Booked(r)' <= Cardinality(Told(r)')
<1>1. IsFiniteSet(Told(r)) /\ Booked(r) <= Cardinality(Told(r))
  BY DEF Books
<1>2. deployed[r] \in Nat /\ Cardinality(Deploying(r)) \in Nat /\ Cardinality(Told(r)) \in Nat
  BY <1>1, DeployingFinite, FS_CardinalityType DEF CiTypes
<1> QED
  BY <1>1, <1>2 DEF Booked

(* A job moves only before it has ended.                                   *)
LEMMA MoveBooks ==
  ASSUME BooksInv, NEW c \in Job, Queue(c) \/ PickUp(c) \/ Conclude(c)
  PROVE  EndedOnly' /\ Books'
<1>1. PICK a \in {"queued", "in_progress", "completed"}, to \in {"queued", "running"} \cup Ended :
        /\ stage[c] \notin Ended
        /\ a = "completed" => to \in Ended
        /\ stage' = [stage EXCEPT ![c] = to]
        /\ net' = Append(net, JobMessage(c, a))
        /\ UNCHANGED <<runJobs, handlers, copies, deployed>>
  BY DEF Queue, PickUp, Conclude, Move, Emit, ghosts, metrics, Ended
<1>2. /\ \A j \in Job : j # c => stage'[j] = stage[j]
      /\ stage'[c] = to
  BY <1>1 DEF BooksInv, StageType
<1>3. \A j \in Job : stage[j] \in Ended => stage'[j] = stage[j]
  BY <1>1, <1>2
<1>4. copies[c] = 0
  BY <1>1 DEF BooksInv, EndedOnly
<1>5. EndedOnly'
  <2>1. \A j \in Job : copies'[j] > 0 => stage'[j] \in Ended
    BY <1>1, <1>3 DEF BooksInv, EndedOnly
  <2>2. \A r \in Run : \A j \in runJobs'[r] : RunOf[j] = r /\ stage'[j] \in Ended
    BY <1>1, <1>3 DEF BooksInv, EndedOnly, CiTypes
  <2>3. \A h \in handlers' : \A j \in h.jobs : RunOf[j] = h.run /\ stage'[j] \in Ended
    <3>1. \A h \in handlers : \A j \in h.jobs : j \in Job
      BY DEF BooksInv, CiTypes, Handler
    <3> QED
      BY <1>1, <1>3, <3>1 DEF BooksInv, EndedOnly
  <2>4. ASSUME NEW i \in DOMAIN net', net'[i].event = "workflow_job", net'[i].action = "completed"
        PROVE  stage'[net'[i].job] \in Ended
    <3>1. CASE i \in DOMAIN net
      <4>1. net'[i] = net[i] /\ net[i] \in Message
        BY <1>1, <3>1 DEF BooksInv, CiTypes
      <4> QED
        BY <1>3, <2>4, <3>1, <4>1, JobMessageRun DEF BooksInv, EndedOnly
    <3>2. CASE i \notin DOMAIN net
      <4>1. net'[i] = JobMessage(c, a)
        BY <1>1, <3>2 DEF BooksInv, CiTypes
      <4> QED
        BY <1>1, <1>2, <2>4, <4>1 DEF JobMessage
    <3> QED
      BY <3>1, <3>2
  <2> QED
    BY <1>1, <2>1, <2>2, <2>3, <2>4 DEF BooksInv, EndedOnly
<1>6. ASSUME NEW r \in Run PROVE IsFiniteSet(Told(r)') /\ Booked(r)' <= Cardinality(Told(r)')
  <2>1. Told(r)' = Told(r)
    <3>1. ASSUME NEW x PROVE x \in Told(r)' <=> x \in Told(r)
      <4>1. ASSUME NEW k \in JobsOf(r) \cap DeployJob
            PROVE  /\ (stage'[k] = "success" /\ \E n \in 1 .. copies'[k] : x = <<k, n>>)
                   <=> (stage[k] = "success" /\ \E n \in 1 .. copies[k] : x = <<k, n>>)
        <5>1. CASE k = c
          BY <1>1, <1>4, <5>1
        <5>2. CASE k # c
          <6>1. stage'[k] = stage[k] /\ copies' = copies
            BY <1>1, <1>2, <5>2 DEF JobsOf
          <6> QED
            BY <6>1
        <5> QED
          BY <5>1, <5>2
      <4>2. x \in Told(r)' <=>
              \E k \in JobsOf(r) \cap DeployJob :
                stage'[k] = "success" /\ \E n \in 1 .. copies'[k] : x = <<k, n>>
        BY DEF Told, JobsOf
      <4> QED
        BY <4>1, <4>2, ToldMember
    <3> QED
      BY <3>1
  <2>2. \A h \in handlers : Deploys(h)' <=> Deploys(h)
    <3>1. \A h \in handlers : \A j \in h.jobs : j \in Job /\ stage[j] \in Ended
      BY DEF BooksInv, CiTypes, Handler, EndedOnly
    <3>2. \A h \in handlers : \A j \in h.jobs : stage'[j] = stage[j]
      BY <1>3, <3>1
    <3> QED
      BY <3>2 DEF Deploys
  <2>3. Deploying(r)' = Deploying(r)
    BY <1>1, <2>2 DEF Deploying, Waiting
  <2>4. Succeeded(runJobs[r])' => Succeeded(runJobs[r])
    <3>1. \A j \in runJobs[r] : stage'[j] = stage[j]
      BY <1>3 DEF BooksInv, EndedOnly, CiTypes
    <3> QED
      BY <1>1, <3>1 DEF Succeeded
  <2>5. deployed'[r] = deployed[r]
    BY <1>1
  <2> QED
    BY <2>1, <2>3, <2>4, <2>5, BooksFrame DEF BooksInv
<1> QED
  BY <1>5, <1>6 DEF Books

(* A completion that arrives makes one more deployment that may be counted *)
(* if it is a successful deployment's.                                     *)
LEMMA HandleBooks ==
  ASSUME BooksInv, NEW i \in DOMAIN net, Handle(net[i]), stage' = stage
  PROVE  /\ copies' \in [Job -> Nat]
         /\ \A j \in Job : copies'[j] > 0 => stage[j] \in Ended
         /\ \A r \in Run : \A j \in runJobs'[r] : RunOf[j] = r /\ stage[j] \in Ended
         /\ \A h \in handlers' : \A j \in h.jobs : RunOf[j] = h.run /\ stage[j] \in Ended
         /\ Books'
<1> DEFINE m == net[i]
<1>1. m \in Message /\ m.run \in Run /\ deployed' = deployed
  BY MessageRun, HandleType DEF BooksInv, CiTypes
<1>2. CASE m.event = "workflow_job" /\ m.action = "completed"
  <2>1. PICK j \in Job : m.job = j /\ m.run = RunOf[j] /\ stage[j] \in Ended
    BY <1>1, <1>2, JobMessageRun DEF BooksInv, EndedOnly
  <2>2. /\ runJobs' = [runJobs EXCEPT ![RunOf[j]] = runJobs[RunOf[j]] \cup {j}]
        /\ copies' = [copies EXCEPT ![j] = copies[j] + 1]
        /\ handlers' = handlers
    BY <1>2, <2>1 DEF Handle, HandleJob, Remember
  <2>3. RunOf[j] \in Run /\ copies[j] \in Nat
    BY <1>1, <2>1 DEF BooksInv, EndedOnly
  <2>4. /\ copies' \in [Job -> Nat]
        /\ copies'[j] = copies[j] + 1
        /\ \A k \in Job : k # j => copies'[k] = copies[k]
    BY <2>2, <2>3 DEF BooksInv, EndedOnly
  <2>5. /\ runJobs'[RunOf[j]] = runJobs[RunOf[j]] \cup {j}
        /\ \A r \in Run : r # RunOf[j] => runJobs'[r] = runJobs[r]
    BY <2>2, <2>3 DEF BooksInv, CiTypes
  <2>6. \A k \in Job : copies'[k] > 0 => stage[k] \in Ended
    BY <2>1, <2>4 DEF BooksInv, EndedOnly
  <2>7. \A r \in Run : \A k \in runJobs'[r] : RunOf[k] = r /\ stage[k] \in Ended
    BY <2>1, <2>3, <2>5 DEF BooksInv, EndedOnly
  <2>8. \A h \in handlers' : \A k \in h.jobs : RunOf[k] = h.run /\ stage[k] \in Ended
    BY <2>2 DEF BooksInv, EndedOnly
  <2>9. ASSUME NEW r \in Run PROVE Deploying(r)' = Deploying(r)
    BY <2>2 DEF Deploying, Waiting, Deploys
  <2>10. ASSUME NEW r \in Run PROVE IsFiniteSet(Told(r)') /\ Booked(r)' <= Cardinality(Told(r)')
    <3>0. ASSUME NEW x
          PROVE  x \in Told(r)' <=>
              \E k \in JobsOf(r) \cap DeployJob :
                stage[k] = "success" /\ \E n \in 1 .. copies'[k] : x = <<k, n>>
      BY DEF Told, JobsOf
    <3>1. CASE r = RunOf[j] /\ j \in DeployJob /\ stage[j] = "success"
      <4> DEFINE pair == <<j, copies[j] + 1>>
      <4>1. j \in JobsOf(r) \cap DeployJob
        BY <3>1 DEF JobsOf
      <4>2. pair \notin Told(r)
        BY <2>3, ToldMember
      <4>3. pair \in Told(r)'
        BY <2>3, <2>4, <3>0, <3>1, <4>1
      <4>4. \A x : x \in Told(r) => x \in Told(r)'
        <5>1. ASSUME NEW x \in Told(r) PROVE x \in Told(r)'
          <6>1. PICK k \in JobsOf(r) \cap DeployJob :
                  stage[k] = "success" /\ \E n \in 1 .. copies[k] : x = <<k, n>>
            BY <5>1, ToldMember
          <6>2. PICK n \in 1 .. copies[k] : x = <<k, n>>
            BY <6>1
          <6>3. k \in Job /\ copies[k] \in Nat
            BY DEF JobsOf, BooksInv, EndedOnly
          <6>4. n \in 1 .. copies'[k]
            BY <2>4, <6>3
          <6> QED
            BY <3>0, <6>1, <6>2, <6>4
        <5> QED
          BY <5>1
      <4>5. ASSUME NEW x \in Told(r)', x # pair PROVE x \in Told(r)
        <5>1. PICK k \in JobsOf(r) \cap DeployJob :
                stage[k] = "success" /\ \E n \in 1 .. copies'[k] : x = <<k, n>>
          BY <3>0, <4>5
        <5>2. PICK n \in 1 .. copies'[k] : x = <<k, n>>
          BY <5>1
        <5>3. k \in Job /\ copies[k] \in Nat
          BY DEF JobsOf, BooksInv, EndedOnly
        <5>4. n \in 1 .. copies[k]
          <6>1. CASE k = j
            BY <2>4, <4>5, <5>2, <5>3, <6>1
          <6>2. CASE k # j
            BY <2>4, <5>3, <6>2
          <6> QED
            BY <6>1, <6>2
        <5> QED
          BY <5>1, <5>2, <5>4, ToldMember
      <4>6. Told(r)' = Told(r) \cup {pair}
        BY <4>3, <4>4, <4>5
      <4>7. IsFiniteSet(Told(r)) /\ Booked(r) <= Cardinality(Told(r))
        BY DEF BooksInv, Books
      <4>8. /\ IsFiniteSet(Told(r)') /\ Cardinality(Told(r)') = Cardinality(Told(r)) + 1
            /\ Cardinality(Told(r)) \in Nat
        BY <4>2, <4>6, <4>7, FS_AddElement, FS_CardinalityType
      <4>9. /\ deployed[r] \in Nat /\ Cardinality(Deploying(r)) \in Nat
            /\ deployed'[r] = deployed[r]
            /\ Cardinality(Deploying(r)') = Cardinality(Deploying(r))
        BY <1>1, <2>9, DeployingFinite DEF BooksInv, CiTypes
      <4>10. Booked(r)' <= Booked(r) + 1 /\ Booked(r) \in Nat /\ Booked(r)' \in Nat
        BY <4>9 DEF Booked
      <4> QED
        BY <4>7, <4>8, <4>10
    <3>2. CASE ~(r = RunOf[j] /\ j \in DeployJob /\ stage[j] = "success")
      <4>1. Told(r)' = Told(r)
        <5>1. ASSUME NEW x PROVE x \in Told(r)' <=> x \in Told(r)
          <6>1. \A k \in JobsOf(r) \cap DeployJob : stage[k] = "success" => copies'[k] = copies[k]
            BY <2>4, <3>2 DEF JobsOf
          <6> QED
            BY <3>0, <6>1, ToldMember
        <5> QED
          BY <5>1
      <4>2. Succeeded(runJobs[r])' => Succeeded(runJobs[r])
        <5>1. \A k \in runJobs'[r] \cap DeployJob : stage[k] = "success" => k \in runJobs[r]
          BY <2>5, <3>2
        <5> QED
          BY <5>1 DEF Succeeded
      <4>3. deployed'[r] = deployed[r]
        BY <1>1
      <4> QED
        BY <2>9, <4>1, <4>2, <4>3, BooksFrame DEF BooksInv
    <3> QED
      BY <3>1, <3>2
  <2> QED
    BY <2>4, <2>6, <2>7, <2>8, <2>10 DEF Books
<1>3. CASE m.event = "workflow_job" /\ m.action # "completed"
  <2>1. UNCHANGED <<runJobs, copies, handlers>>
    BY <1>3 DEF Handle, HandleJob
  <2>2. ASSUME NEW r \in Run
        PROVE  Told(r)' = Told(r) /\ Deploying(r)' = Deploying(r)
               /\ (Succeeded(runJobs[r])' => Succeeded(runJobs[r]))
    BY <2>1 DEF Told, JobsOf, Deploying, Waiting, Deploys, Succeeded
  <2>3. ASSUME NEW r \in Run PROVE IsFiniteSet(Told(r)') /\ Booked(r)' <= Cardinality(Told(r)')
    <3>1. deployed'[r] = deployed[r]
      BY <1>1
    <3> QED
      BY <2>2, <3>1, BooksFrame DEF BooksInv
  <2> QED
    BY <2>1, <2>3 DEF BooksInv, EndedOnly, Books
<1>4. CASE m.event # "workflow_job"
  <2> DEFINE new == [run |-> m.run, nth |-> runs'[m.run], jobs |-> runJobs[m.run], at |-> "trace"]
  <2>1. /\ runJobs' = [runJobs EXCEPT ![m.run] = {}]
        /\ handlers' = handlers \cup {new}
        /\ copies' = copies
    BY <1>4 DEF Handle, HandleRun, Forget, Inc
  <2>2. new.run = m.run /\ new.at = "trace" /\ new.jobs = runJobs[m.run]
    OBVIOUS
  <2> HIDE DEF new
  <2>3. /\ runJobs'[m.run] = {}
        /\ \A r \in Run : r # m.run => runJobs'[r] = runJobs[r]
    BY <1>1, <2>1 DEF BooksInv, CiTypes
  <2>4. \A r \in Run : \A j \in runJobs'[r] : RunOf[j] = r /\ stage[j] \in Ended
    BY <2>3 DEF BooksInv, EndedOnly
  <2>5. \A h \in handlers' : \A j \in h.jobs : RunOf[j] = h.run /\ stage[j] \in Ended
    <3>1. \A j \in new.jobs : RunOf[j] = new.run /\ stage[j] \in Ended
      BY <1>1, <2>2 DEF BooksInv, EndedOnly
    <3> QED
      BY <2>1, <3>1 DEF BooksInv, EndedOnly
  <2>6. ASSUME NEW r \in Run PROVE IsFiniteSet(Told(r)') /\ Booked(r)' <= Cardinality(Told(r)')
    <3>1. Told(r)' = Told(r) /\ deployed'[r] = deployed[r]
      BY <1>1, <2>1 DEF Told, JobsOf
    <3>2. CASE r = m.run /\ Succeeded(runJobs[r])
      <4>1. Deploying(r)' \subseteq Deploying(r) \cup {new}
        BY <2>1, <2>2 DEF Deploying, Waiting, Deploys
      <4>2. /\ IsFiniteSet(Deploying(r) \cup {new})
            /\ Cardinality(Deploying(r) \cup {new}) <= Cardinality(Deploying(r)) + 1
            /\ Cardinality(Deploying(r)) \in Nat
        BY DeployingFinite, FS_AddElement DEF BooksInv
      <4>3. /\ Cardinality(Deploying(r)') <= Cardinality(Deploying(r) \cup {new})
            /\ Cardinality(Deploying(r)') \in Nat
            /\ Cardinality(Deploying(r) \cup {new}) \in Nat
        <5>1. /\ IsFiniteSet(Deploying(r)')
              /\ Cardinality(Deploying(r)') <= Cardinality(Deploying(r) \cup {new})
          BY <4>1, <4>2, FS_Subset
        <5> QED
          BY <4>2, <5>1, FS_CardinalityType
      <4>4. ~Succeeded(runJobs[r])'
        BY <2>3, <3>2 DEF Succeeded
      <4>5. deployed[r] \in Nat /\ Booked(r) <= Cardinality(Told(r)) /\ IsFiniteSet(Told(r))
        BY DEF BooksInv, CiTypes, Books
      <4>6. Booked(r) = deployed[r] + Cardinality(Deploying(r)) + 1
        BY <3>2 DEF Booked
      <4>7. Booked(r)' = deployed[r] + Cardinality(Deploying(r)')
        BY <3>1, <4>3, <4>4, <4>5 DEF Booked
      <4>8. Cardinality(Told(r)) \in Nat
        BY <4>5, FS_CardinalityType
      <4>9. Booked(r)' <= Cardinality(Told(r))
        BY <4>2, <4>3, <4>5, <4>6, <4>7, <4>8
      <4> QED
        BY <3>1, <4>5, <4>9
    <3>3. CASE ~(r = m.run /\ Succeeded(runJobs[r]))
      <4>1. Deploying(r)' = Deploying(r)
        <5>1. \A h \in handlers' : h \notin handlers =>
                ~(h.run = r /\ \E j \in h.jobs \cap DeployJob : stage[j] = "success")
          BY <2>1, <2>2, <3>3 DEF Succeeded
        <5> QED
          BY <2>1, <5>1 DEF Deploying, Waiting, Deploys
      <4>2. Succeeded(runJobs[r])' => Succeeded(runJobs[r])
        BY <2>3 DEF Succeeded
      <4> QED
        BY <3>1, <4>1, <4>2, BooksFrame DEF BooksInv
    <3> QED
      BY <3>2, <3>3
  <2> QED
    BY <2>1, <2>4, <2>5, <2>6 DEF BooksInv, EndedOnly, Books
<1> QED
  BY <1>2, <1>3, <1>4

(* The handler's own step: a deployment that it was to count is counted.   *)
LEMMA CountBooks ==
  ASSUME BooksInv, NEW h \in handlers, TraceAnswered(h)
  PROVE  EndedOnly' /\ Books'
<1>1. /\ h \in Handler /\ h.run \in Run /\ h.at = "trace" /\ Count(h)
      /\ UNCHANGED <<stage, net, runJobs, copies>>
  BY DEF TraceAnswered, AfterFailure, BooksInv, CiTypes, Handler, Spans, gitea
<1>2. \A g \in handlers' : g \in handlers \ {h} \/ (g.run = h.run /\ g.jobs = h.jobs /\ g.at = "commit")
  <2>1. /\ [h EXCEPT !.at = "commit"].run = h.run /\ [h EXCEPT !.at = "commit"].jobs = h.jobs
        /\ [h EXCEPT !.at = "commit"].at = "commit"
    BY <1>1 DEF Handler
  <2> QED
    BY <1>1, <2>1 DEF Count, Inc
<1>3. handlers \ {h} \subseteq handlers'
  BY <1>1 DEF Count, Inc
<1>4. EndedOnly'
  BY <1>1, <1>2 DEF BooksInv, EndedOnly
<1>5. ASSUME NEW r \in Run PROVE IsFiniteSet(Told(r)') /\ Booked(r)' <= Cardinality(Told(r)')
  <2>1. Told(r)' = Told(r) /\ (Succeeded(runJobs[r])' <=> Succeeded(runJobs[r]))
    BY <1>1 DEF Told, JobsOf, Succeeded
  <2>2. Deploying(r)' = Deploying(r) \ {h}
    BY <1>1, <1>2, <1>3 DEF Deploying, Waiting, Deploys
  <2>3. CASE Deploys(h) /\ r = h.run
    <3>1. h \in Deploying(r)
      BY <1>1, <2>3 DEF Deploying, Waiting
    <3>2. deployed' = [deployed EXCEPT ![h.run] = deployed[h.run] + 1]
      BY <1>1, <2>3 DEF Count, Inc
    <3>3. deployed'[r] = deployed[r] + 1 /\ deployed[r] \in Nat
      BY <1>1, <2>3, <3>2 DEF BooksInv, CiTypes
    <3>4. IsFiniteSet(Deploying(r)) /\ Cardinality(Deploying(r)) \in Nat
      BY DeployingFinite DEF BooksInv
    <3>5. Cardinality(Deploying(r)') = Cardinality(Deploying(r)) - 1
      BY <2>2, <3>1, <3>4, FS_RemoveElement
    <3>6. Booked(r)' = Booked(r)
      BY <2>1, <3>3, <3>4, <3>5 DEF Booked
    <3> QED
      BY <2>1, <3>6 DEF BooksInv, Books
  <2>4. CASE ~(Deploys(h) /\ r = h.run)
    <3>1. Deploying(r)' = Deploying(r)
      BY <2>2, <2>4 DEF Deploying, Waiting
    <3>2. deployed'[r] = deployed[r]
      BY <1>1, <2>4 DEF Count, BooksInv, CiTypes, Inc
    <3> QED
      BY <2>1, <3>1, <3>2, BooksFrame DEF BooksInv
  <2> QED
    BY <2>3, <2>4
<1> QED
  BY <1>4, <1>5 DEF Books

LEMMA BooksStep ==
  ASSUME BooksInv, [Next]_vars
  PROVE  EndedOnly' /\ Books'
<1>0. ASSUME UNCHANGED <<stage, runJobs, copies, deployed>>,
             \A i \in DOMAIN net' : net'[i].event = "workflow_job" =>
               \E k \in DOMAIN net : net'[i] = net[k],
             handlers' = handlers
      PROVE  EndedOnly' /\ Books'
  <2>1. EndedOnly'
    BY <1>0 DEF BooksInv, EndedOnly
  <2>2. ASSUME NEW r \in Run PROVE IsFiniteSet(Told(r)') /\ Booked(r)' <= Cardinality(Told(r)')
    <3>1. Told(r)' = Told(r) /\ deployed'[r] = deployed[r]
      BY <1>0 DEF Told, JobsOf
    <3>2. Deploying(r)' = Deploying(r) /\ (Succeeded(runJobs[r])' => Succeeded(runJobs[r]))
      BY <1>0 DEF Deploying, Waiting, Deploys, Succeeded
    <3> QED
      BY <3>1, <3>2, BooksFrame DEF BooksInv
  <2> QED
    BY <2>1, <2>2 DEF Books
<1>1. ASSUME NEW j \in Job, Queue(j) \/ PickUp(j) \/ Conclude(j) PROVE EndedOnly' /\ Books'
  BY <1>1, MoveBooks
<1>2. ASSUME NEW r \in Run, CloseRun(r) PROVE EndedOnly' /\ Books'
  <2>1. /\ UNCHANGED <<stage, runJobs, copies, deployed, handlers>>
        /\ net' = Append(net, RunMessage(r))
    BY <1>2 DEF CloseRun, Emit, ghosts, metrics
  <2>2. ASSUME NEW i \in DOMAIN net', net'[i].event = "workflow_job"
        PROVE  \E k \in DOMAIN net : net'[i] = net[k]
    <3>1. RunMessage(r).event # "workflow_job"
      BY DEF RunMessage
    <3>2. i \in DOMAIN net
      BY <2>1, <2>2, <3>1 DEF BooksInv, CiTypes
    <3>3. net'[i] = net[i]
      BY <2>1, <3>2 DEF BooksInv, CiTypes
    <3> QED
      BY <3>2, <3>3
  <2> QED
    BY <1>0, <2>1, <2>2
<1>3. ASSUME NEW i \in DOMAIN net, Handle(net[i]), stage' = stage,
             \A n \in DOMAIN net' : \E k \in DOMAIN net : net'[n] = net[k]
      PROVE  EndedOnly' /\ Books'
  <2>1. /\ copies' \in [Job -> Nat]
        /\ \A j \in Job : copies'[j] > 0 => stage[j] \in Ended
        /\ \A r \in Run : \A j \in runJobs'[r] : RunOf[j] = r /\ stage[j] \in Ended
        /\ \A h \in handlers' : \A j \in h.jobs : RunOf[j] = h.run /\ stage[j] \in Ended
        /\ Books'
    BY <1>3, HandleBooks
  <2> QED
    BY <1>3, <2>1 DEF BooksInv, EndedOnly
<1>4. ASSUME NEW i \in DOMAIN net, net' = RemoveAt(net, i)
      PROVE  \A n \in DOMAIN net' : \E k \in DOMAIN net : net'[n] = net[k]
  <2>1. /\ net \in Seq(Message) /\ Len(net) \in Nat /\ i \in 1 .. Len(net)
        /\ DOMAIN net = 1 .. Len(net)
    BY DEF BooksInv, CiTypes
  <2>2. /\ DOMAIN net' = 1 .. (Len(net) - 1)
        /\ \A n \in 1 .. (Len(net) - 1) : net'[n] = IF n < i THEN net[n] ELSE net[n + 1]
    BY <1>4, <2>1, RemoveAtElements
  <2>3. \A n \in 1 .. (Len(net) - 1) : n \in DOMAIN net /\ n + 1 \in DOMAIN net
    BY <2>1
  <2> QED
    BY <2>2, <2>3
<1>5. CASE Deliver
  <2>1. /\ net # <<>> /\ net' = Tail(net) /\ Handle(Head(net)) /\ stage' = stage
    BY <1>5 DEF Deliver, gitea
  <2>2. /\ net \in Seq(Message) /\ Len(net) \in Nat /\ 1 \in DOMAIN net /\ Head(net) = net[1]
        /\ DOMAIN net = 1 .. Len(net)
    BY <2>1 DEF BooksInv, CiTypes
  <2>3. ASSUME NEW n \in DOMAIN net' PROVE n + 1 \in DOMAIN net /\ net'[n] = net[n + 1]
    BY <2>1, <2>2
  <2> QED
    BY <1>3, <2>1, <2>2, <2>3
<1>6. CASE DeliverBadly
  <2>1. PICK i \in DOMAIN net : /\ net' = RemoveAt(net, i) \/ net' = net
                                /\ Handle(net[i]) /\ stage' = stage
    BY <1>6 DEF DeliverBadly, gitea
  <2>2. \A n \in DOMAIN net' : \E k \in DOMAIN net : net'[n] = net[k]
    BY <1>4, <2>1
  <2> QED
    BY <1>3, <2>1, <2>2
<1>7. CASE Lose
  <2>1. PICK i \in DOMAIN net : net' = RemoveAt(net, i)
    BY <1>7 DEF Lose
  <2>2. \A n \in DOMAIN net' : \E k \in DOMAIN net : net'[n] = net[k]
    BY <1>4, <2>1
  <2>3. UNCHANGED <<stage, runJobs, copies, deployed, handlers>>
    BY <1>7 DEF Lose, gitea, metrics
  <2> QED
    BY <1>0, <2>2, <2>3
<1>8. CASE Reject
  BY <1>0, <1>8 DEF Reject, gitea, metrics
<1>9. CASE Restart
  <2>1. /\ copies' = [j \in Job |-> 0] /\ runJobs' = [r \in Run |-> {}] /\ handlers' = {}
        /\ deployed' = [r \in Run |-> 0] /\ stage' = stage /\ net' = net
    BY <1>9 DEF Restart, Zero, NoJobs, gitea
  <2>2. EndedOnly'
    BY <2>1 DEF BooksInv, EndedOnly
  <2>3. ASSUME NEW r \in Run PROVE IsFiniteSet(Told(r)') /\ Booked(r)' <= Cardinality(Told(r)')
    <3>1. Told(r)' = {}
      BY <2>1 DEF Told, JobsOf
    <3>2. Deploying(r)' = {} /\ deployed'[r] = 0
      BY <2>1 DEF Deploying, Waiting
    <3>3. ~Succeeded(runJobs[r])'
      BY <2>1 DEF Succeeded
    <3> QED
      BY <3>1, <3>2, <3>3, FS_EmptySet DEF Booked
  <2> QED
    BY <2>2, <2>3 DEF Books
<1>10. ASSUME NEW h \in handlers, TraceAnswered(h) PROVE EndedOnly' /\ Books'
  BY <1>10, CountBooks
<1>11. ASSUME NEW h \in handlers, CommitAnswered(h) PROVE EndedOnly' /\ Books'
  <2>1. /\ h.at = "commit" /\ handlers' = handlers \ {h}
        /\ UNCHANGED <<stage, net, runJobs, copies, deployed>>
    BY <1>11 DEF CommitAnswered, ghosts, gitea
  <2>2. EndedOnly'
    BY <2>1 DEF BooksInv, EndedOnly
  <2>3. ASSUME NEW r \in Run PROVE IsFiniteSet(Told(r)') /\ Booked(r)' <= Cardinality(Told(r)')
    <3>1. Told(r)' = Told(r) /\ deployed'[r] = deployed[r]
      BY <2>1 DEF Told, JobsOf
    <3>2. Deploying(r)' = Deploying(r) /\ (Succeeded(runJobs[r])' => Succeeded(runJobs[r]))
      BY <2>1 DEF Deploying, Waiting, Deploys, Succeeded
    <3> QED
      BY <3>1, <3>2, BooksFrame DEF BooksInv
  <2> QED
    BY <2>2, <2>3 DEF Books
<1>12. CASE UNCHANGED vars
  BY <1>0, <1>12 DEF vars, ghosts, gitea, metrics
<1> QED
  BY <1>1, <1>2, <1>5, <1>6, <1>7, <1>8, <1>9, <1>10, <1>11, <1>12 DEF Next, Shim

LEMMA BooksInit == Init => EndedOnly /\ Books
<1> SUFFICES ASSUME Init PROVE EndedOnly /\ Books
  OBVIOUS
<1>1. EndedOnly
  BY DEF Init, EndedOnly, Zero, NoJobs
<1>2. ASSUME NEW r \in Run PROVE IsFiniteSet(Told(r)) /\ Booked(r) <= Cardinality(Told(r))
  <2>1. Told(r) = {}
    BY DEF Init, Told, JobsOf, Zero
  <2>2. Deploying(r) = {} /\ deployed[r] = 0 /\ ~Succeeded(runJobs[r])
    BY DEF Init, Deploying, Waiting, Zero, NoJobs, Succeeded
  <2> QED
    BY <2>1, <2>2, FS_EmptySet DEF Booked
<1> QED
  BY <1>1, <1>2 DEF Books

(* A run never counts more deployments than it was told of successful      *)
(* deploy jobs, whatever is lost, repeated or overtaken.                   *)
THEOREM DeploymentInvariance == Spec => []DeployedOnce
<1>1. Init => EndedOnly /\ Books
  BY BooksInit
<1>2. CiTypes /\ StageType /\ EndedOnly /\ Books /\ [Next]_vars => (EndedOnly /\ Books)'
  BY BooksStep DEF BooksInv
<1>3. CiTypes /\ Books => DeployedOnce
  <2> SUFFICES ASSUME CiTypes, Books, NEW r \in Run PROVE deployed[r] <= Cardinality(Told(r))
    BY DEF DeployedOnce
  <2>1. IsFiniteSet(Told(r)) /\ Booked(r) <= Cardinality(Told(r))
    BY DEF Books
  <2>2. deployed[r] \in Nat /\ Cardinality(Deploying(r)) \in Nat /\ Cardinality(Told(r)) \in Nat
    BY <2>1, DeployingFinite, FS_CardinalityType DEF CiTypes
  <2> QED
    BY <2>1, <2>2 DEF Booked
<1> QED
  BY <1>1, <1>2, <1>3, CiTypesInvariance, LastTellsInvariance, PTL DEF Spec
=============================================================================

# Agent-Driven Observability: a TLA+ verification project

This directory holds TLA+ models of the parts of the repository whose correctness depends on
the order in which things happen, the TLC configurations that check small instances of them,
and TLAPS proofs of what holds for every instance. `PROJECT.json` lists components, runs,
mutants, hazards and theorems and maps every definition to the lines it translates.

## 1. The system

`agent-service` (Python, one process, one asyncio event loop, Postgres) receives alert
notifications, keeps incidents and starts LLM investigations; operators follow the runs and
approve remediations in the `web` console. The investigated subject is a small RAG stack
(`gateway` → `embedder`, `retriever`, `model-proxy`), with `load-generator`, `dq-runner` and
`ci-shim` around it.

| Component | State it keeps | Operations | Talks to |
|---|---|---|---|
| Alert loop (`app.py` webhook, `agents/oncall.py`, `escalation.py`, boot in `db.py`) | tables `incidents`, `incident_alerts`, `incident_runs`, `agent_runs`, `incident_timeline`, `agent_approvals`; tasks of the event loop | webhook event, on-call run, closing step, watcher poll, `fail_orphaned_runs` | Alertmanager (webhooks), Grafana (query), Postgres |
| Run hub (`hub.py`, `context.py`, chat and stream routes) | `RunState` per run: buffer, subscribers; the run's row | publish, subscribe, cleanup, begin, end, fail, POST `/chat`, GET `/stream` | browsers (SSE), Postgres |
| Approval gate (`tools/remediate.py`, `request_approval`, POST `/approve`) | dry-run stash, approval rows, futures | dry-run, request, decide, execute, record, clear | operators, `kubectl`, the alert loop's timeline |
| Settings (`settings.py`) | one settings row | read, merge, write | Postgres, the console |
| Exam (`scripts/exam.ps1`, exam routes, judge) | a lock file; `exam_runs`, `exam_results`; the judge's queue | lock, question, judge, finish | agent-service |
| GitOps webhook (`app.py` 279–352), postmortems (`postmortem.py`) | `_recent_gitops_runs`; files on a branch | dedupe, drift watcher; publish | Argo CD, Gitea |
| Sessions and tools (`agents/base.py`, `tools/*`) | none that outlives a call, except what the gate keeps | tool calls in any order, several at once | the agent SDK, clusters |
| Gateway limiter (`slices/rate-limit`) | a token bucket per tenant, in Redis (a script, a key that expires) or in memory | take a token | Redis |
| Gateway inference (`slices/inference`, `platform/*`) | usage and inference rows, lineage runs | authenticate, limit, embed, retrieve, complete, meter, record | Redis, the subject services, Marquez |
| Embedder, retriever, model proxy | a cache that expires; chunks; chaos override, bad-minute window | embed; search and rank; decide a fault, complete; `/admin/chaos` | gateway, retriever → embedder |
| Load generator | one chaos cycle: timers, requests in flight; one load run: counters | apply, clear, reset; dispatch, count, deadline | the control planes, the gateway |
| ci-shim | `pendingJobs`, `runJobs`, metrics, all in memory | `workflow_job`, `workflow_run` webhooks | Gitea, the trace collector |
| Console: chat, toasts, run page, settings page | the pane's transcript, toasts, optimistic settings | send, stream, poll, remount, decide, save | agent-service, Postgres (its own reads) |
| Console: overview, on-call, incidents, runbooks, scorecard | what the last load brought | load in several reads, decide, start a run, grade | Postgres, agent-service, Mimir |
| dq-runner, dashboards, artifacts, packages | a snapshot; rendering | – | – |

What is hard in it:

* *Interleaving.* Webhooks, run tasks and the watcher are coroutines over shared tables; every
  `await` is a point where a row that was read may change. Tool calls of one session run
  concurrently, and so do operators' answers, a browser's polls and the reads of one page.
* *Failure.* A database error in any await, a restart at any moment (hub, futures, stash and job
  maps are in memory, rows are not), a `kubectl` call whose answer is lost, an upstream the
  caller gave up on, a plane that is down while a page loads.
* *Ordering.* Notifications and webhooks are repeated, lost and reordered; a decision may arrive
  before the tool call waits for it; a chaos request or the answer of a poll may come after the
  one sent later; replicas send clocks that disagree.
* *Timeouts and caps.* Verify deadlines, the escalation cap, the stash's capacity, the expiry of
  a cached embedding and of a bucket, the concurrency bound of a load run.

Correctness, per component: one open incident per alert and one investigation per incident or
counted escalation; nothing that keeps firing is forgotten; a stream delivers its run's events in
order and ends; nothing mutates the cluster without the approval of exactly the dry-run that was
shown; a chaos cycle leaves no service degraded; a chat is served whole, from its own prompt, and
its lineage run ends the way the answer says; a tenant's grants stay within its capacity and
refill; a deployment is counted once; the live and the stored transcript read alike, a composer
is not locked for ever and a gate is neither forgotten nor shown after it was decided; a board
claims quiet only when it is, and a question nobody answered changes no grade.

## 2. Modules

| Module | What it is |
|---|---|
| `IncidentLoop` | the alert loop, one action per `await` |
| `IncidentLifecycle` | abstract specification: what the loop promises about incidents |
| `RunStream` | hub, turns and streaming requests of one run |
| `RemediationGate` | stash, approvals, execution gate and kubectl of one run |
| `ChaosCycle` | a cycle of the chaos scheduler and the control planes it drives |
| `RagRequest` | requests through gateway, embedder, retriever and model proxy, and the load run |
| `TokenBucket` | the in-process limiter, abstract specification of the next |
| `RedisLimiter` | the script of the shared bucket and its expiring key |
| `CiShim` | Gitea's pipelines, their webhooks and what the shim makes of them |
| `RunFeed` | the transcript of a run: sort, grouping, pure operators |
| `AgentChat`, `ApprovalDesk`, `AgentSettings` | the chat pane with its run; gates as toasts and on the run page; the settings page with PUT `/settings` |
| `Console` | composes the three in one tab |
| `LabRecords` | what the boards read: incidents, runs, gates, planes that are down, and the reads |
| `Overview`, `OncallBoard`, `Handoffs`, `ExamBoard` | the pages: what they ask for, display and post; the exam runners |
| `Boards` | composes the pages in one tab with the loader |
| `MC*` | instances for TLC, with their `.cfg` files |
| `*_proofs` | theorems and proofs about the module they extend |

### IncidentLoop

`inc`, `feed`, `linked`, `run`, `remediated` and `approval` are the tables (`incidents`, the newest
row of `incident_alerts`, `incident_runs`, `agent_runs.status`, 'remediation' rows of the
timeline, `agent_approvals`); `future` the hub's rendezvous; `handler`, `task`, `watcher` and `post`
(POST `/approve`) are the coroutines with their program counters and locals; `active` and `sent`
are Alertmanager. An action is the commit of one await together with the code after it, as long as
that code touches nothing another coroutine reads; where it does, it is an action of its own. So an
approval is asked in three steps, the row (`InsertApproval`), the status (`SetAwaiting`) and the
future (`Park`); an operator decides it in three, the row (`PostDecide`), the future
(`PostResolve`) and, where no future waited, the status (`PostSettle`); and the session wakes in
two (`Resume`, `SetRunning`). `overruled` is a history variable: the runs whose status such a
decision wrote while their session was alive. The unique partial index on open incidents is the guard of
`CreateIncident` and `CreateConflict`. `watcher.due` is the snapshot `due_incidents` returned:
the watcher decides from it while the rows move on. `TaskFails`, `HandlerFails`, `WatcherFails`
and `Restart` are the failures.

Time is the state of a `verify_deadline`: unset, ahead, passed. The session is reduced to what
touches the tables: it may request approvals, one after the other, record a remediation for each that was granted and
end well or badly; calls that run at once and the gate's inside are `RemediationGate`'s subject. The Grafana query answers by alertname, as the
code's filter does, and may answer with an error, which counts as firing.

`IncidentLifecycle` is the promise: an incident is raised when no open one has its key, is never
reopened, is escalated at most `MaxEscalations` times and gets at most one run and one per
escalation. `ImplementsLifecycle` instantiates it over the tables.

### RunStream

`buffer[s]` is `RunState.buffer`, `current` the hub's entry of the run, `turn` the tasks under
`_guard_run`, `reader` the SSE responses with their snapshot, queue and what they delivered. The
commit of a status and the code after it are separate steps. An undecided approval counts as
running: neither can be resumed. `EmitToken` stands for every event of the work. One run stands
for all: the hub keeps runs apart by id.

### RemediationGate

`stash` is `_DRYRUN_STASH[run_id]`, `row` the approvals, `future` the hub's rendezvous, `call` the
tool calls in progress, `post` the approve requests, `effects` the patches that reached the
cluster, `timeline` the remediations recorded. The model calls any tool with any action id and
any approval id. An `Action` has passed the hard-deny check; a nonce is fresh (32 random bits in
the code). What an orphaned `kubectl` still applies after a restart is the case where it applied
it just before. Operators decide at any moment after the row was inserted, as the console's toaster
and run page, which read the table, let them. Two history variables name the two races of the
rendezvous: `early` has the approvals for which a decision looked for the future before
`make_approval`, `crossed` those for which a second request began before the first had looked.

### ChaosCycle

`fired` are the timers, `net` the requests nobody awaits, `override` the control planes' state
(per knob the phase whose value is in effect). A request is handled at most `MaxDelay` after it
was sent, in any order, or it is lost and only logged. A lost answer and a rejected body are the
cases "handled" and "lost". Node fires due timers before time goes on.

### RagRequest

`call[r]` is what a request asks (a prompt by token, a malformed or unauthorised one); `gw[r]` is
the gateway's handler with its await, `child[r]` the handlers of the upstreams it called and
`reply[r]` their answers. `UpstreamFailed` is an upstream that answers with an error,
`UpstreamGone` one that does not answer in time, cannot be reached, or whose answer is lost: the
gateway gives up and the child goes on to its end.
`log[r][j]` holds the lineage events of the inference job and of the two sub-runs, which the real
services emit to Marquez best-effort; `meter` counts the rows of `usage_events` and `inferences`.
`cache` is the embedder's cache: any entry may expire between two steps and a read or a write of
it may fail. A vector is the prompt it was computed from, and the similarities are the constant
`ScoreOf`; the ranking, a stable sort, is computed from them. The verdict of the limiter, the model's faults and the
retriever's outages are free choices. `outcome`, `counts`, `inFlight` and `phase` are the load
generator's: it dispatches under `Concurrency`, gives up after its own timeout and settles at the
deadline. `OtherClient` is a request from elsewhere, also POST `/embed`.

### TokenBucket and RedisLimiter

A token is `Unit` parts and `Refill` parts come in a second, so that rates below one token per
second are integers. `Times` are the moments a request that is handled now may have read: the
in-process limiter computes with the `Date.now()` it read before the turn, a replica sends its
own. Both set `ts` to the time they were given, backwards too; `back` counts these seconds up to
`MaxBack`. `RedisLimiter` adds `expires`, by the clock of Redis: a script that finds no key starts
from a full bucket. `ImplementsBucket` is the specification of `TokenBucket`, whose variables the
script's are: a bucket that expires gives the same verdicts as one that never does.

### CiShim

`stage` and `closed` are Gitea's jobs and runs, `net` the webhooks sent; `pending` is
`pendingJobs`, `runJobs` the map from a run to its completed jobs, `handlers` the handlers of
completed runs that wait for the trace to be posted or for the commit's time. `traced`, `untraced`
and the counters are what the shim exports. `DeliverBadly` (out of order, or again), `Lose`,
`Reject` and `Restart` are faults; `heard`, `copies` and `disturbed` are history variables that
say which jobs were delivered, how often, and which runs met a fault.

### Console

`AgentChat` has the persisted run (`run`), the turn that writes it (`session`, external: the
behaviour of `agents/base.py` and `context.py`), the response the pane reads (`wire`), the search
parameter with the loader's last answer (`resume`) and the pane's state (`pane`). A run's id that
appears in a load remounts the pane from the stored run. `RunFeed` sorts the entries of a run's four
lists (stamps have milliseconds, ties are broken by kind, then by place: the sort is stable) and
folds parts into blocks; `Grouped` takes the kinds to show, so that `FeedsAgree` can leave
approvals out. A session that stopped early (`StopEarly`, `EndStopped`) publishes a notice as a
token and stores it as a message of its own. `ApprovalDesk` has the polls of the toaster,
which overlap, with the rows each read; a toast or a run page posts a decision. A poll reads the
undecided gates of the runs that await approval (`Awaiting`): the tab's own run has its status, and
other runs leave it and come back to it when further calls of theirs are approved or ask
(`SiblingGoesOn`, `SiblingAsks`). `AgentSettings`
has PUT `/settings` with an await before and after the merge, and a page that shows an answer
before the row. `Console` lets one tab go from one page to another; `acts` bounds what operators,
the model and failures do, and everything that follows by itself is free.

### Boards

A page is what its last load brought (`shown`). `BeginLoad`, `ReadOne` and `ApplyLoad` are the
loader: `Asked` says which reads a page makes next (some in parallel, some after others), each
read happens at a moment of its own and a plane that is down answers an empty list or null, as
`db.ts` does. A tick of an interval does nothing during a load (TanStack Router, external).
`AgentsGoOn`, `PlaneStep` and `ExamStep` move what the page shows; the gate row is written before
the run's status. `Handoffs` follows presses of a start button to the service and back, where
the answer may get lost, or come to a page or a panel that was left. `ExamBoard` has `exam.ps1` with its lock, tested and taken in two steps,
its questions and rows, and a kill at any moment, and the arithmetic of `scorecard.ts`. `dark`,
`lit` and `steady` are history variables of one load: the planes that were down or up all through
it, the incidents and runs that were open or live all through it.

## 3. Runs

| Run | Instance | What it shows |
|---|---|---|
| `race` | 1 alert, 2 incidents, 3 runs, 2 handlers, cap 0, no approvals, 1 fault | two deliveries race for an incident, a failed one is delivered again: one open incident, one investigation, the life cycle |
| `watch` | 1 incident, 3 runs, cap 1, 1 firing, 1 approval, 1 operator, 1 fault | the watcher against runs, remediations, decisions at any moment, failure and restart: cap, one live run unless a decision overruled one, honest verification; without a fault an incident whose run is over is armed and one that keeps firing is escalated to the cap |
| `reopen` | 2 incidents, 2 firings, 1 fault | whatever is still under way, a firing alert has an incident sooner or later |
| `stream` | 2 turns, 2 streams, 3 states, 1 event, 1 fault | delivery between snapshot and queue, `done` only on a settled row; without a fault every stream of the run's current state ends |
| `gate_sequential` | 2 actions, one of two patches, 2 approvals, 1 call, capacity 1, 3 dry-runs, 1 timeout, 1 fault | an approval is used once, every remediation is recorded |
| `gate_calls` | 2 calls at once, 1 approval, 2 operators, 1 action of two patches, 2 dry-runs, 1 fault | no patch without the approval of its dry-run, and the rendezvous: but for a decision that came before the waiter, or two that cross, the waiter is told what the row says, woken, and its run not settled |
| `chaos_cycle` | up to 2 phases on 2 targets, overlapping, touching or apart, delay 1, 1 loss | phases take hold, targets recover, the reset at the end covers every target |
| `rag` | 2 requests, 2 prompts with rankings of their own, 3 chunks of which 2 are taken, concurrency 1, 2 faults | lineage runs are paired, a chat is whole, its own and metered once, everything ends |
| `bucket` | 2 parts a token, 5 in the bucket, 1 a second, lag 1, 10 seconds, 2 seconds set back | the script implements the in-process bucket, and what it grants is bounded |
| `ci` | a run of a test and a deploy job and a run of one deploy job, 2 webhooks on their way, 2 faults | a run counts no more deployments than it was told of; of an undisturbed run the gauge is true and everything is told |
| `console` | 2 tool calls, 1 artifact, 1 gate, 2 polls at once, 1 grant, 2 models, 2 updates, 4 acts | live and stored transcript agree, the composer unlocks, toasts come and go, the settings page shows what is stored |
| `boards` | 2 incidents (one without an alert key, one open from the start with its run), 2 runs, 1 row on the overview, 2 presses, 2 exams of 2 questions, 4 acts (2 on the overview) | quiet is true, the gate reaches the panel, a start button answers for its own start, interrupted exams are over, ungraded questions cost nothing |

Why the bounds are enough. The races are between two parties (two deliveries, run and watcher,
two calls, two streams, decision and rendezvous, two polls, a load and a writer), so two of each
and one fault reach every pairwise order; a third party repeats one of the two. In `watch` the
escalation cap 1 has a state before and at it, and three runs are one more than the cap allows; one
operator decides the one approval before, while or after its session waits. `race` keeps the cap at
0 and has no approvals: the escalations of the life cycle are covered by `Refinement` alone.
In `stream` turns and requests are named in the order they come, which loses no behaviour: their
names are interchangeable. Capacity 1 evicts at the second dry-run. Two chaos phases meet in every
way two intervals can. `rag` needs two requests to share the cache and the concurrency bound and
two faults for one failure on top of another. In `bucket` the capacity is no multiple of a token
or of the refill, and ten seconds pass the expiry of the key. One row on the overview makes the
second incident the one that is not asked for. `OneOpenPerKey` is run with one alert, where every
two open incidents would be a violation; the theorems cover any number. Each property has a mutant
in `PROJECT.json`: a plausible mistake in a mapped definition with which TLC finds the property
violated.

`CHECK_DEADLOCK FALSE` is set for all but the alert loop: a run, a session, a cycle, a request, a
pipeline and the acts of a tab end, and the clock of a bucket is bounded. The alert loop never
stops (the watcher polls), so its runs check it.

Fairness. The event loop runs every ready coroutine (`WF` of the handlers, tasks, watcher, calls,
requests and streams). In the alert loop a run's task is fair in `Progress`: it need not ask for
anything, but what it began goes on and its session ends (`max_turns`). The receipt of a notification
is `SF`, since it waits for a free handler and is retried by its sender; a firing alert is repeated
and deadlines pass.
In `RagRequest` handlers run on, a client gets its answer or gives up, and the deadline of a load
run comes. In `CiShim` Gitea delivers and the collector answers (`WF` of `Shim`). In `Console`
the page refreshes, polls are fired and some poll comes back, though each one may hang; in
`Boards` an interval begins a load, its reads return and it is applied. Nothing makes an operator
answer, an alert fire or clear, the model call a tool, a runner pick up a job, or a request
arrive. `StillFiringIsEscalated` therefore excludes incidents one of whose sessions waits for an
operator, or was overruled by a decision that did not find it waiting; `DecisionArrives` excludes
the approvals in `early`;
`SettledIsArmed`, `StillFiringIsEscalated` and `StreamsEnd` say what holds until the first fault,
`RunsTold` and `GaugeIsTrue` leave out the runs whose webhooks met one.

## 4. Known limits of the code

What the models show of the code as it is. No configuration checks these: the properties above
are stated beside them, and where a property excludes a case the case is named here.

Against a comment of the code:

* `ctx.begin` runs outside the `try` whose `finally` arms the deadline, and a restart skips it.
  `oncall.py:283-286` says "Verify-then-close (Task 10) must run even when the session above
  raised"; an incident whose run was cut off has no deadline and only a person finds it.
* `subscribe` returns after the replay if the state is done, whatever its queue holds;
  `hub.py:44-45` says "every event is delivered exactly once per subscriber". The terminal event
  is dropped when it arrives during the replay of a slow client.
* The dry-run is popped after `kubectl` answers, so a second execution in the same session passes
  the gate meanwhile; `remediate.py:33-35` says "popped single-use on a successful execute so an
  approval can't be replayed". `SingleUse` is checked and proved for one call at a
  time; for any number `UsesAreBounded` bounds the replay.
* A body that is not JSON raises `HTTPException(400)`, which is no `AppError` and becomes a 500,
  while `scenarios.ts:111-113` counts on a 422. A body of an upstream that stalls after its headers
  is read outside the `try` (`upstream.ts`) and becomes a 500 instead of a 504.
* A failed poll answers an empty list, which the toaster takes for "no gates": a gate the operator
  dismissed is toasted again by the next poll, against `approval-toaster.tsx:28-30`.
* Two overlapping updates of the settings keep only the later merge, although `apply_update`
  promises that "Absent keys keep their current value".
* A session that stopped early while it was speaking appends its notice to the live message and
  stores it as a second one (`base.py:301-321`, `agents/index.tsx:345-351`), and the stream ends
  with `done`; `run-feed.ts:4-6` says of the two transcripts that "both render identically".
  `FeedsAgree` excepts such a turn.
* `scorecard.ts:17` and `db.py:855-857` speak of oldest-first rows inside a run; the query orders
  every row newest first.

Alert loop, runs and gate:

* The closing step resolves an incident a webhook closed while Grafana was queried
  (`oncall.py:194-196` against `mark_verified`), and the watcher escalates one that was closed
  since its poll (`escalation.py:45`, `57`).
* A restart fails `running` rows only (`db.py:270`): queued and awaiting rows stay in flight, and
  the watcher takes them for live runs.
* Two follow-ups that read the same settled row are both accepted (`app.py:124-125`, `146`).
* `end` commits the status before `done` is published: a follow-up in between drops the buffer,
  receives the old `done` as the first event of its own stream, and the old streams never end
  (`context.py:166`, `hub.py:95`, `app.py:155-158`). A database error in the handler of a stopped
  session ends the task without a terminal event (`app.py:112-119`).
* A decision between the insert of the approval and `make_approval` finds no waiter and settles
  the row, and the call then waits for ever (`context.py:127`, `141`). The watcher takes the run for
  over: it starts a second one beside it, or, where the incident never got a deadline, nobody
  does. Two decisions at once may tell the waiter the opposite of the row, or settle a run that was
  just woken (`app.py:599`, `610`). `OneLiveRunPerIncident`, `StillFiringIsEscalated`, `WaiterTold`,
  `SessionOwnsStatus` and `DecisionArrives` except the runs and approvals this happened to, and
  say that nothing else brings it about; `SettledIsArmed` is about runs whose session is over.

Subject services:

* A chaos phase shorter than a request's delay, with no cooldown, may be applied after the reset
  (`runner.ts:14-15`); when two phases touch, the clear of the first may be handled after the
  apply of the second and wipe it (`schedule.ts:62-63`). A clear cuts an overlapping phase of its
  target short (`admin.ts:37`).
* A script that runs with an older time sets the bucket's time back, and the next one refills the
  interval again (`redis-limiter.ts:30`): `GrantsBounded` counts these seconds twice.
* A `queued` webhook that arrives after the job was picked up leaves it in `pendingJobs` until a
  restart (`ci-shim/src/main.ts:147`).

Console:

* The toaster reports success for a decision whose answer is null (`approval-toaster.tsx:85`); the
  gate stays open and reachable on its run page. On the run page one transient null read stops the
  poll for good (`runs/$runId.tsx:52`).
* The toaster asks for gates of runs in status `awaiting_approval` (`db.ts:144`). When a run has asked
  for two and one is approved, its status becomes `running` (`context.py:146`) and the toast of the
  other goes, although its call waits; it stays on the run page. `PendingIsShown` is about gates
  whose run keeps its status.
* `QuietIsTrue` is about a record store that was up or down all through the load and about the
  newest rows: the probe is a read beside the lists (`index.tsx:118-119`), and "queued" does not
  count as live. The on-call page says "All quiet" and the inbox shows a sample incident
  (`functions.ts:80-81`) when Postgres is down.
* The panel of an incident shows the newest gate only, and a detail that is null for one poll
  unmounts it.
* The newest exam of a killed runner is "in flight" until the next one (`scorecard.tsx:172`). The
  lock is tested and taken in two steps (`exam.ps1:741`, `749`); two runners that both saw it free
  are the case `InterruptedIsOver` excludes. Rows of runs beyond the fifty listed count in the
  totals (`scorecard.tsx:106`); a read that failed is shown as "No exams yet" (89) or as an exam
  "interrupted before it recorded a scenario" (271-275).
* A lost answer of a triggered run is told as a failure and invites a second press
  (`agent-client.ts:128`); a page that was left still navigates when its answer comes
  (`incidents.tsx:160`, `runbooks.tsx:62`).

## 5. Proofs

Checked by TLAPS for all values of the constants, under the assumptions named in each module
(types of the bounds; `None` is no id and no status, and an incident and a run never share an id;
`TwoPatch` and `Cap`; schedules are well formed; a refill above zero and a lag of at most a second;
a corpus of finitely many chunks, their scores naturals).

* `IncidentLoop_proofs`: `Invariance`, `TypeCorrect`, `DedupeHolds`, `CapHolds`, `BudgetHolds`,
  `Refinement`. The safety properties are not inductive: a handler past its insert and a watcher
  past its decision owe a run that is not linked yet, and the watcher compares an old count. `IInv`
  adds that coroutines refer to rows that exist (`RowsExist`), that ids are fresh
  (`FreshIsBlank`), that one handler at most investigates an incident (`OneInvestigator`), that
  runs linked plus runs owed are within the budget (`RunsBudgeted`), and that the count the
  watcher read is still the count, because it alone increments it (`CountsFresh`). `Refinement`
  shows initial states and steps of the loop to be initial states and steps, or stutters, of
  `IncidentLifecycle`, and uses the invariant to show the abstract guards.

  Its second half is about runs: `RunsInvariance`, `OneLiveHolds`, `VerifiedHolds`, `ArmedHolds`.
  The watcher tests the status of an incident's newest run, so the proof is about which run that
  is: `Identity` says that a live run is in flight and the newest of its incident, that a run
  waiting to be linked is queued and nobody else's, and that an incident whose investigation is on
  its way, or that is being escalated, has no live run. Most steps leave that alone
  (`CalmIdentity`); creating and linking rows and the watcher's decision are proved one by one.
  A run in `overruled` is excepted from "in flight". `Begun` says that who asks for an approval, and
  hence every run a decision may settle, has begun and, before the first fault, is executing or
  over: a decision settles neither a run that waits to be linked nor one that was never armed.
  `EvidenceStands` carries what the closing step read of the timeline to its write, and
  `EndIsArmed` the deadline from the closing step to the run's last status and the end of its session.
* `RunStream_proofs`: `StreamInvariance`, `StreamTypes`, `DeliveryHolds`, `PrefixHolds`,
  `DoneHolds`. `StreamInv` adds what a stream holds in each state (`StreamsSound`), that a turn's
  `done` comes last and on a settled row (`FarewellsLast`), and that nothing but one first turn
  exists before the row does (`FirstTurnAlone`: otherwise `set_status` of a second turn would find
  no row to settle).
* `RemediationGate_proofs`. For any number of calls and operators: `GateInvariance`, `GateTypes`,
  `ApprovalHolds` and `UsesAreBounded`. `GateSound` says that a call past the gate is authorised by
  its row, and that what the gate read of a decided row stays true, because decisions are written
  once. `UsesBounded` says how bad a replay can get: an approval changes the cluster at most once
  per concurrent call, plus once per answer that was lost, since the call that ends pops the
  dry-run (`InUse`: while the dry-run is stashed, every use is answered for by a lost answer or by
  a call about to pop it; once it is gone, only the calls that passed the gate before can use it).
  For one call at a time (`OneAtATime(Call)`): `SingleUseHolds`, `RecordsHold`. The hypothesis is
  needed: two calls do replay an approval (section 4).
  For any number of operators, who decide at any moment: `WaiterIsTold`, `SessionKeepsStatus`, both
  of the approvals that are not in `early` or `crossed`; of those the code promises neither (section
  4). `Rendezvous` says of them that a future with a decision agrees with its row and that a decided
  row whose future is still parked, or not there yet, has a request about to look for it
  (`FuturesSound`), that a call about to park has a row and a future of its own (`ParksAlone`), and
  that a request in progress is the only one for its approval, so that the one that wrote the row
  finds the waiter unless the session is over (`PostsSound`).
* `ChaosCycle_proofs`: `CycleInvariance`, `NeverLeftDegraded`, `EffectInvariance`, `PhaseHolds`,
  `Recovery`. `Punctual` dates every request; `ResetCovers` says that after the load each target
  has its reset on the way, failed, or is healthy. An apply of a phase that outlasts a request
  cannot still be on its way then (`NoLateApply`). A timer that has fired was due, a clear on its
  way carries the end of its phase, and no reset is sent during the load (`SentOnTime`). While no
  request was lost, a phase that has begun and is alone on its target is in force, or its request
  is on its way, until it ends (`BegunHolds`); and what is in force has begun and, if it outlasts a
  request, is owed a clear that is still to be sent or on its way (`InForceIsOwed`).
* `Gateway_proofs`, about `RagRequest` and, in a second part, the two limiters. For any number of
  requests, prompts, chunks and faults: `RequestInvariance`, `RunsArePaired`, `ServedHolds`,
  `AnswersAreOwn`, `BooksInvariance`, `TypeCorrect`, `BooksBalance`. `IInv` goes by the place a handler has reached: which events of the inference run were
  emitted (`Course`), which rows are written (`Metered`), how far the upstream handlers are
  (`Callees`) and what they have reported of their own runs (`SubRuns`), that every answer is the
  one for the request's own prompt (`Own`), and that a cache entry is the embedding its key stands
  for (`CacheOwn`), whoever stored it and however often it expired. `RankingIsBest` is about the
  ranking alone: for every finite corpus, ties included, it returns the `TopK` best chunks, each
  once. The ranking is written as a stable sort by the place of each row (`Place`), so that the
  proof is a bijection between rows and places. `Books` counts requests by outcome; `DriverBooks`
  (nothing is counted twice or lost, and an ok was served) follows from it and is stated by no run.
  The limiters: `BucketBooks`, `RedisImplements`, `RedisBounded`. `Budget` adds what is left in
  the bucket to what was granted and dates it by `ts`, which makes the bound inductive.
  `RedisImplements` needs `ExpiryInv`: a key that is there outlives the time its bucket takes to
  fill, by the second a request may lag (`TtlFills`), so an absent key and a full bucket answer
  alike (`HeldIsRefilled`); the bound of the abstract bucket then holds of the script.
* `CiShim_proofs`: `JobsInvariance`, `DoraInvariance`, `GaugeInvariance`, `DeploymentInvariance`. A
  delivered completion is always held by someone (`JobsAccounted`), because a handler takes the
  jobs of its run before it waits; and counting the handlers that still owe a lead time (`Open`)
  gives lead times ≤ deployments ≤ runs. For the gauge, the last webhook of a job that is on its
  way, or else the last delivered, tells the stage the job is in (`InStep`, `LastTells`). For the
  deployments, the counter, the handlers about to count and the map of remembered jobs are
  together at most the completions Gitea told of (`Books`), and only jobs that ended are
  remembered (`EndedOnly`).
* `Boards_proofs`: `InterruptedHolds`, `ButtonHolds`, `QuietHolds`, `UngradedHolds`. `OneRunner` says that until
  two runners test the lock at once its holder is the one that lives, hence every exam but the
  newest is over (`ListedInTurn`); over is for good, so it stays true of a list that was read any
  time ago (`ScoreInv`). `OverviewInv` relates the reads a load has made to the planes and rows
  that stayed as they were since it began: each read happened while they were so. `QuietHolds` is
  an action property; it is proved of every step from that invariant. `ButtonHolds` goes by what
  an answer finds: the panel that asked (`here`), or another one, whose button it leaves alone. So is `UngradedHolds`, about
  every figure of the scorecard before and after a load that brings no new verdict. The figures of
  a run are cardinalities of sets of places in the answer, so the bijection between the graded
  rows of the two answers maps the points, the graded rows and the rows that met a criterion of
  one answer one to one to those of the other (`MatchedPairs`, `MatchedParts`); both pages then
  list equal tallies, in the same order because a list of exams only ever grows at its head
  (`ListsGrow`, `SameOrder`), and equal tallies have one pooled accuracy, whatever sums them up.
* `Console_proofs`: `DisplayHolds`, `ToastsAreTracked`, `ClearedIsGone`, `FeedsAgreeHolds`. `OneAtATime` says of an
  open settings page that at most one update is on its way, that an update that was merged and
  written is what is stored, and that a page at rest shows it (`AtRest`). Of the toasts, the set of ids the
  polls keep and the screen agree whatever order the answers come in: a toast whose id was lost
  could never be dismissed by a poll again. `ClearedIsGone` is the safety half of the liveness
  property `DecidedLeaves`: once a gate is decided, its id has left the set and no read on its way
  has seen it, no poll shows it again; that this comes about is left to the run.
  `FeedsAgreeHolds`: what the events of a turn, applied one by one, make of the pane has the same
  blocks as the sorted lists of the run. The argument has three parts. (1) The blocks of a page
  are reached part by part (`Stages`), so a part at the end of a page adds to the blocks of the
  rest (`AppendedFeed`), and the answer of a call may be put in before or after the calls around
  it are folded (`RenewedGroup`, `ReplacedRow`). (2) The turn appends a part to one of four lists;
  `BuildRunFeed` puts it before the parts of a later kind that have the same stamp. Those are
  approvals, which the blocks leave out, and artifacts, which are held back to the end of the
  turn, so the part adds what it would add at the end (`AddsCommute`, `GrownFeed`). A message does
  not commute with them: no part may be stamped in its millisecond before it. `TurnInv` says so,
  from what the model takes of the turn: the clock has moved on when the model speaks, which takes
  a model call, and when a turn begins. (3) `PaneInv`: the
  events the pane has not read take it from what it shows to the row, ahead of it by the narration
  that is not flushed (`Arrives`, `Live`), or by the user's message while the turn has not begun
  (`Sent`). `GatesInv` is needed because a decision nobody waits for settles the run: no turn may
  be under way then. A turn that stopped early while it spoke gives the comparison up (`whole`), so
  nothing is claimed of it. `InductiveSet` stands in for the library's induction theorem, whose
  predicate is an operator: it is induction on a set, from the well-foundedness of the naturals.

Only model-checked: the liveness properties (TLAPS has no fairness and no `ENABLED` here).

## 6. Not modelled, and the plan

Prompts, the narration of sessions, parsing and formatting, spans and metrics, read-only routes,
colours and wording, dashboards and artifacts, and configuration have no protocol. The highlighter's
cache in the vendored `code-block.tsx` is left out (its key is made of a prefix, a suffix and the length of
the code, 138–142, and a rejected promise stays in it, 148–158). What is left, in order:

1. `GitopsDedupe`: suppression window and drift watcher (`app.py` 279–352); at most one
   investigation per target and window.
2. `DqRunner`: the guarded sections of a pass and the shared snapshot (`dq-runner/app.py:81`).
3. `PostmortemPublish` and the queue of the exam's judge: retry and slug collision
   (`postmortem.py:489`), late verdicts.
4. `FaultWindow` of model-proxy (`faults.ts:120`): the bad minute over many requests.
5. Composition: `RemediationGate` as the remediation part of `IncidentLoop`, so that
   `VerifiedWasRemediated` is stated about effects.

----------------------------- MODULE RagRequest -----------------------------
(***************************************************************************)
(* One RAG request through the platform: the load generator or another     *)
(* client, the gateway (authentication, rate limit, validation, chat and   *)
(* the embed passthrough), the embedder with its cache, the retriever, the *)
(* model-proxy with its faults, usage metering, and the OpenLineage run    *)
(* each of them reports.                                                   *)
(*                                                                         *)
(* One action per await.  The callee of a request goes on when its caller  *)
(* has given up: the gateway on an upstream, the client on the gateway.    *)
(* The verdict of the limiter (see RedisLimiter), the faults of the model  *)
(* and the outages of the retriever are free choices.                      *)
(***************************************************************************)
EXTENDS Naturals, Sequences, FiniteSets, SequencesExt, FiniteSetsExt

CONSTANTS
  Req,          \* requests
  Prompt,       \* prompts
  HashOf,       \* prompt -> fnv1a of the normalized text
  ScoreOf,      \* hash -> chunk of the corpus -> cosine similarity
  TopK,
  Concurrency,  \* the load generator's bound on requests in flight
  MaxFaults,    \* bound: things that go wrong
  None

ASSUME RagAssumption ==
  /\ TopK \in Nat \ {0}
  /\ Concurrency \in Nat \ {0}
  /\ MaxFaults \in Nat
  /\ None \notin Req \cup Prompt

VARIABLES
  call,      \* what a request asks
  gw,        \* the gateway's handler of the request
  child,     \* the upstream handlers it called
  reply,     \* what they answered: the embedding, the ranked chunks
  log,       \* lineage events of each request and job, in the order emitted
  meter,     \* rows of usage_events and inferences
  cache,     \* the embedder's cache: key -> embedding
  outcome,   \* the load generator's view of each of its requests
  counts,    \* its counters
  inFlight,
  phase,     \* of the load run
  faults     \* how many things went wrong

driver == <<outcome, counts, inFlight, phase>>
vars == <<call, gw, child, reply, log, meter, cache, driver, faults>>

-----------------------------------------------------------------------------
\* scenarios.ts builds chat requests; "broken" is either of the next two
Scenario == {"chat", "notJson", "noPrompt"}

\* what other clients send
Other == {"embed", "badToken"}

Call == [op : Scenario \cup Other, prompt : Prompt]

Job == {"inference", "embed", "retrieve"}

Upstream == {"embed", "retrieve", "model"}

Bucket == {"ok", "rateLimited", "clientError", "serverError", "timeout"}

Hashes == {HashOf[p] : p \in Prompt}

ASSUME CorpusAssumption ==
  /\ None \notin Call \cup Hashes
  /\ \A h \in Hashes : /\ IsFiniteSet(DOMAIN ScoreOf[h])
                        /\ \A c \in DOMAIN ScoreOf[h] : ScoreOf[h][c] \in Nat

\* an embedding is the hash that seeded it
HashEmbedding(p) == HashOf[p]

\* Mutant: the key is taken of a prefix that two prompts share.
PrefixKey(p) == CHOOSE h \in Hashes : TRUE

CacheKey(p) == HashOf[p]

\* rank.ts: a stable sort by descending score, then a cut
Precedes(rows, i, j) ==
  rows[i].score > rows[j].score \/ (rows[i].score = rows[j].score /\ i <= j)

Place(rows, j) == Cardinality({i \in DOMAIN rows : Precedes(rows, i, j)})

RankChunks(rows, k) ==
  [n \in 1 .. Min({k, Len(rows)}) |-> rows[CHOOSE j \in DOMAIN rows : Place(rows, j) = n]]

\* The rows of the corpus for an embedding, in whatever order the store keeps them.
RowsFor ==
  [h \in Hashes |-> SetToSeq({[chunk |-> c, score |-> ScoreOf[h][c]] : c \in DOMAIN ScoreOf[h]})]

\* errors.ts: what an error that reaches onError answers
Status == [unauthorized |-> 401, validation |-> 422, rateLimited |-> 429,
           modelOverloaded |-> 429, internal |-> 500, upstream |-> 502,
           upstreamTimeout |-> 504]

\* classify.ts
Classify(status) ==
  CASE status = 429 -> "rateLimited"
    [] status = 504 -> "timeout"
    [] status \in 200 .. 299 -> "ok"
    [] status \in 400 .. 499 \ {429} -> "clientError"
    [] OTHER -> "serverError"

\* Whether the promise of an emission rejects: client.ts catches everything.
\* Mutant: a failed POST is thrown.
EmitThrows(delivered) == ~delivered

EmitRejects(delivered) == FALSE

\* The adapters of usage-metering catch, and the service catches again.
\* Mutant: a failed insert is thrown.
WriteThrows(stored) == ~stored

WriteRejects(stored) == FALSE

Init ==
  /\ call = [r \in Req |-> None]
  /\ gw = [r \in Req |-> [stage |-> "idle", status |-> 0]]
  /\ child = [r \in Req |-> [u \in Upstream |-> "none"]]
  /\ reply = [r \in Req |-> [vec |-> None, refs |-> <<>>]]
  /\ log = [r \in Req |-> [j \in Job |-> <<>>]]
  /\ meter = [r \in Req |-> [usage |-> 0, record |-> 0]]
  /\ cache = [h \in Hashes |-> None]
  /\ outcome = [r \in Req |-> "unsent"]
  /\ counts = [b \in Bucket |-> 0]
  /\ inFlight = 0
  /\ phase = "driving"
  /\ faults = 0

\* A step on which something goes wrong, and one on which nothing does.
Wrong == faults < MaxFaults /\ faults' = faults + 1

Fine == UNCHANGED faults

-----------------------------------------------------------------------------
(* The load generator.                                                     *)

\* A request reaches the gateway: authMiddleware, then the limiter is asked.
Send(r, op) ==
  /\ call[r] = None
  /\ \E p \in Prompt : call' = [call EXCEPT ![r] = [op |-> op, prompt |-> p]]
  /\ gw' = IF op = "badToken" THEN [gw EXCEPT ![r].stage = "end",
                                            ![r].status = Status.unauthorized]
           ELSE [gw EXCEPT ![r].stage = "limit"]
  /\ UNCHANGED <<child, reply, log, meter, cache, faults>>

\* dispatch and sendRequest of runLoad
Dispatch(r) ==
  /\ phase = "driving"
  /\ inFlight < Concurrency
  /\ \E op \in Scenario : Send(r, op)
  /\ inFlight' = inFlight + 1
  /\ outcome' = [outcome EXCEPT ![r] = "waiting"]
  /\ UNCHANGED <<counts, phase>>

OtherClient(r) ==
  /\ \E op \in Other : Send(r, op)
  /\ UNCHANGED driver

\* the then and the finally of dispatch
Settle(r, bucket) ==
  /\ counts' = [counts EXCEPT ![bucket] = @ + 1]
  /\ inFlight' = inFlight - 1
  /\ outcome' = [outcome EXCEPT ![r] = bucket]

\* The response arrives.
Response(r) ==
  /\ outcome[r] = "waiting"
  /\ gw[r].stage = "end"
  /\ Settle(r, Classify(gw[r].status))
  /\ UNCHANGED <<call, gw, child, reply, log, meter, cache, phase, faults>>

\* The fetch rejects: AbortSignal.timeout, the network, a gateway that is gone.
ClientError(r) ==
  /\ outcome[r] = "waiting"
  /\ IF gw[r].stage = "lost" THEN Fine ELSE Wrong
  /\ Settle(r, "timeout")
  /\ UNCHANGED <<call, gw, child, reply, log, meter, cache, phase>>

Deadline ==
  /\ phase = "driving"
  /\ phase' = "draining"
  /\ UNCHANGED <<call, gw, child, reply, log, meter, cache, outcome, counts, inFlight, faults>>

-----------------------------------------------------------------------------
(* The gateway.                                                            *)

Chat(r) == call[r].op = "chat"

At(r, stage) == call[r] # None /\ gw[r].stage = stage

Go(r, stage) == gw' = [gw EXCEPT ![r].stage = stage]

Finish(r, status) == gw' = [gw EXCEPT ![r].stage = "end", ![r].status = status]

\* An error in a chat reports the run as failed before it is rethrown.
Throw(r, status) ==
  gw' = [gw EXCEPT ![r].stage = IF Chat(r) THEN "fail" ELSE "end", ![r].status = status]

Emit(r, job, event) == log' = [log EXCEPT ![r][job] = Append(@, event)]

\* The call of the next upstream starts as the handler arrives at the stage.
Ask(r, u) ==
  /\ gw' = [gw EXCEPT ![r].stage = u]
  /\ child' = [child EXCEPT ![r][u] = "called"]

\* what no step of an upstream call or of the gateway's handler changes
rest == <<call, cache, driver>>

\* The limiter answers or fails, then the body is parsed and validated.
Limit(r) ==
  /\ At(r, "limit")
  /\ \/ Finish(r, Status.rateLimited) /\ UNCHANGED child /\ Wrong
     \/ Finish(r, Status.internal) /\ UNCHANGED child /\ Wrong
     \/ call[r].op = "notJson" /\ Finish(r, Status.internal) /\ UNCHANGED child /\ Fine
     \/ call[r].op = "noPrompt" /\ Finish(r, Status.validation) /\ UNCHANGED child /\ Fine
     \/ call[r].op = "chat" /\ Go(r, "start") /\ UNCHANGED child /\ Fine
     \/ call[r].op = "embed" /\ Ask(r, "embed") /\ Fine
  /\ UNCHANGED <<reply, log, meter, rest>>

\* lineage.start, outside the try
LineageStart(r) ==
  /\ At(r, "start")
  /\ Emit(r, "inference", "START")
  /\ \E delivered \in BOOLEAN :
       IF EmitRejects(delivered) THEN Finish(r, Status.internal) /\ UNCHANGED child
       ELSE Ask(r, "embed")
  /\ Fine
  /\ UNCHANGED <<reply, meter, rest>>

\* Both calls of rag.retrieve and the one of rag.generate return.
Embedded(r) ==
  /\ At(r, "embed")
  /\ child[r].embed = "ok"
  /\ IF Chat(r) THEN Ask(r, "retrieve") ELSE Finish(r, 200) /\ UNCHANGED child
  /\ Fine
  /\ UNCHANGED <<reply, log, meter, rest>>

Retrieved(r) ==
  /\ At(r, "retrieve")
  /\ child[r].retrieve = "ok"
  /\ Ask(r, "model")
  /\ Fine
  /\ UNCHANGED <<reply, log, meter, rest>>

Completed(r) ==
  /\ At(r, "model")
  /\ child[r].model = "ok"
  /\ Go(r, "usage")
  /\ Fine
  /\ UNCHANGED <<child, reply, log, meter, rest>>

\* The adapters: the model's 429 is passed on, any other error is a 502.
UpstreamFailed(r) ==
  \E u \in Upstream :
    /\ At(r, u)
    /\ \/ child[r][u] = "error" /\ Throw(r, Status.upstream)
       \/ child[r][u] = "overloaded" /\ Throw(r, Status.modelOverloaded)
    /\ Fine
    /\ UNCHANGED <<child, reply, log, meter, rest>>

\* upstream.ts: no answer in time, or no connection: the call may not have
\* arrived at all, or its answer may be lost.  A body that stalls after the
\* headers rejects outside the try and is no AppError.
UpstreamGone(r) ==
  \E u \in Upstream :
    /\ At(r, u)
    /\ \/ Throw(r, Status.upstreamTimeout) /\ UNCHANGED child
       \/ Throw(r, Status.upstream) /\ UNCHANGED child
       \/ /\ child[r][u] = "called"
          /\ Throw(r, Status.upstream)
          /\ child' = [child EXCEPT ![r][u] = "none"]
       \/ /\ child[r][u] \in {"ok", "error", "overloaded"}
          /\ Throw(r, Status.internal)
          /\ UNCHANGED child
    /\ Wrong
    /\ UNCHANGED <<reply, log, meter, rest>>

\* usage.write and recorder.record
Write(r, stage, row, next) ==
  /\ At(r, stage)
  /\ \E stored \in BOOLEAN :
       /\ meter' = IF stored THEN [meter EXCEPT ![r][row] = @ + 1] ELSE meter
       /\ IF stored THEN Fine ELSE Wrong
       /\ IF WriteRejects(stored) THEN Throw(r, Status.internal) ELSE Go(r, next)
  /\ UNCHANGED <<child, reply, log, rest>>

WriteUsage(r) == Write(r, "usage", "usage", "record")

Record(r) == Write(r, "record", "record", "complete")

LineageComplete(r) ==
  /\ At(r, "complete")
  /\ Emit(r, "inference", "COMPLETE")
  /\ \E delivered \in BOOLEAN :
       IF EmitRejects(delivered) THEN Throw(r, Status.internal) ELSE Finish(r, 200)
  /\ Fine
  /\ UNCHANGED <<child, reply, meter, rest>>

LineageFail(r) ==
  /\ At(r, "fail")
  /\ Emit(r, "inference", "FAIL")
  /\ Finish(r, gw[r].status)
  /\ Fine
  /\ UNCHANGED <<child, reply, meter, rest>>

\* A restart drops every request the gateway has in hand.
GatewayRestart ==
  /\ Wrong
  /\ gw' = [r \in Req |-> IF gw[r].stage \in {"idle", "end"} THEN gw[r]
                          ELSE [gw[r] EXCEPT !.stage = "lost"]]
  /\ UNCHANGED <<call, child, reply, log, meter, cache, driver>>

-----------------------------------------------------------------------------
(* The embedder and the retriever: withChildRun around their work.  A      *)
(* passthrough embed carries no parent headers and reports nothing.        *)

Become(r, u, state) == child' = [child EXCEPT ![r][u] = state]

\* x-ol-parent-* headers are sent while runWithParent is on the stack
HasParent(r) == Chat(r)

Report(r, job, event) == IF HasParent(r) THEN Emit(r, job, event) ELSE UNCHANGED log

\* The sub-run is reported as ended, then the answer is sent.
Answer(r, u) ==
  /\ Report(r, u, "COMPLETE")
  /\ \E delivered \in BOOLEAN :
       Become(r, u, IF HasParent(r) /\ EmitRejects(delivered) THEN "error" ELSE "ok")

Break(r, u) == Wrong /\ Report(r, u, "FAIL") /\ Become(r, u, "error")

\* Mutant: the sub-run is opened before the outage is tested.
RetrieveRefusedLate(r) ==
  /\ Emit(r, "retrieve", "START")
  /\ Become(r, "retrieve", "error")

\* The chaos test of the retriever comes before the sub-run.
RetrieveRefused(r) ==
  /\ Become(r, "retrieve", "error")
  /\ UNCHANGED log

ChildBegin(r) ==
  \E u \in {"embed", "retrieve"} :
    /\ child[r][u] = "called"
    /\ \/ Report(r, u, "START") /\ Become(r, u, "work") /\ Fine
       \/ u = "retrieve" /\ RetrieveRefused(r) /\ Wrong
    /\ UNCHANGED <<gw, reply, meter, rest>>

\* embed/service.ts up to the cache.set
CacheGet(r) ==
  /\ child[r].embed = "work"
  /\ LET p == call[r].prompt
         hit == cache[CacheKey(p)]
     IN \/ /\ hit # None
           /\ reply' = [reply EXCEPT ![r].vec = hit]
           /\ Answer(r, "embed")
           /\ Fine
        \/ /\ hit = None
           /\ reply' = [reply EXCEPT ![r].vec = HashEmbedding(p)]
           /\ Become(r, "embed", "store")
           /\ Fine
           /\ UNCHANGED log
        \/ Break(r, "embed") /\ UNCHANGED reply
  /\ UNCHANGED <<gw, meter, rest>>

CacheSet(r) ==
  /\ child[r].embed = "store"
  /\ \/ /\ cache' = [cache EXCEPT ![CacheKey(call[r].prompt)] = reply[r].vec]
        /\ Answer(r, "embed")
        /\ Fine
     \/ Break(r, "embed") /\ UNCHANGED cache
  /\ UNCHANGED <<call, gw, reply, meter, driver>>

\* An entry's time to live runs out.
CacheExpire ==
  /\ \E h \in Hashes : cache[h] # None /\ cache' = [cache EXCEPT ![h] = None]
  /\ Wrong
  /\ UNCHANGED <<call, gw, child, reply, log, meter, driver>>

\* query/service.ts: search, then rank
Search(r) ==
  /\ child[r].retrieve = "work"
  /\ \/ /\ reply' = [reply EXCEPT ![r].refs = RankChunks(RowsFor[reply[r].vec], TopK)]
        /\ Answer(r, "retrieve")
        /\ Fine
     \/ Break(r, "retrieve") /\ UNCHANGED reply
  /\ UNCHANGED <<gw, meter, rest>>

-----------------------------------------------------------------------------
(* The model-proxy.                                                        *)

\* decideFault: a stall and a latency are both a sleep
FaultOutcome == {"asleep", "overloaded", "error"}

\* complete/service.ts
ModelBegin(r) ==
  /\ child[r].model = "called"
  /\ \E o \in FaultOutcome :
       Become(r, "model", o) /\ IF o = "asleep" THEN Fine ELSE Wrong
  /\ UNCHANGED <<gw, reply, log, meter, rest>>

ModelWake(r) ==
  /\ child[r].model = "asleep"
  /\ Become(r, "model", "ok")
  /\ Fine
  /\ UNCHANGED <<gw, reply, log, meter, rest>>

-----------------------------------------------------------------------------
GatewayStep(r) ==
  \/ Limit(r) \/ LineageStart(r) \/ Embedded(r) \/ Retrieved(r) \/ Completed(r)
  \/ UpstreamFailed(r) \/ WriteUsage(r) \/ Record(r)
  \/ LineageComplete(r) \/ LineageFail(r)

ChildStep(r) ==
  \/ ChildBegin(r) \/ CacheGet(r) \/ CacheSet(r) \/ Search(r)
  \/ ModelBegin(r) \/ ModelWake(r)

Next ==
  \/ \E r \in Req :
       \/ Dispatch(r) \/ OtherClient(r) \/ Response(r) \/ ClientError(r)
       \/ GatewayStep(r) \/ UpstreamGone(r) \/ ChildStep(r)
  \/ Deadline
  \/ GatewayRestart \/ CacheExpire

Spec == Init /\ [][Next]_vars

\* Handlers run to their next await, timeouts fire, the deadline comes.
FairSpec ==
  /\ Spec
  /\ \A r \in Req : WF_vars(GatewayStep(r)) /\ WF_vars(ChildStep(r))
  /\ \A r \in Req : WF_vars(Response(r) \/ ClientError(r))
  /\ WF_vars(Deadline)

-----------------------------------------------------------------------------
S == <<"START">>
SC == <<"START", "COMPLETE">>
SF == <<"START", "FAIL">>

(* Every lineage run starts once and ends at most once, and the run of an  *)
(* answered chat has ended the way the answer says.                        *)
RunsPaired ==
  \A r \in Req :
    /\ \A j \in Job : log[r][j] \in {<<>>, S, SC, SF}
    /\ gw[r].stage = "end" =>
         log[r].inference = IF gw[r].status = 200 /\ Chat(r) THEN SC
                            ELSE IF log[r].inference = <<>> THEN <<>> ELSE SF

(* A chat is served only from sub-runs that completed, and it is metered   *)
(* and recorded at most once, and only if it is served.                    *)
ServedIsWhole ==
  \A r \in Req :
    /\ log[r].inference = SC => log[r].embed = SC /\ log[r].retrieve = SC
    /\ meter[r].usage <= 1 /\ meter[r].record <= 1
    /\ meter[r].usage + meter[r].record > 0 =>
         gw[r].stage \in {"record", "complete", "lost"} \/ gw[r].status = 200

\* The chunks of refs are the TopK with the highest scores.
BestOf(refs, score) ==
  LET taken == {refs[i].chunk : i \in DOMAIN refs}
  IN /\ Cardinality(taken) = Min({TopK, Cardinality(DOMAIN score)})
     /\ \A c \in taken, d \in DOMAIN score \ taken : score[c] >= score[d]

(* The embedding a request gets is the one of its own prompt, whoever put  *)
(* it in the cache, and the chunks are the TopK best for it.               *)
AnsweredFromOwn ==
  \A r \in Req :
    /\ reply[r].vec # None => reply[r].vec = HashEmbedding(call[r].prompt)
    /\ reply[r].refs # <<>> => BestOf(reply[r].refs, ScoreOf[HashOf[call[r].prompt]])

(* The counters of the load run: nothing is counted twice or lost, the     *)
(* bound on concurrency holds, and an ok is a request the gateway served.  *)
DriverBooks ==
  /\ inFlight = Cardinality({r \in Req : outcome[r] = "waiting"})
  /\ inFlight <= Concurrency
  /\ \A b \in Bucket : counts[b] = Cardinality({r \in Req : outcome[r] = b})
  /\ \A r \in Req : outcome[r] = "ok" => log[r].inference = SC

(* Every request is answered or dropped by a restart, every sub-run that   *)
(* starts ends even when its caller has given up, and a load run whose     *)
(* deadline has passed is settled.                                         *)
EverythingEnds ==
  <>[](/\ \A r \in Req : /\ gw[r].stage \in {"idle", "end", "lost"}
                         /\ \A j \in {"embed", "retrieve"} : log[r][j] # S
       /\ inFlight = 0)
=============================================================================

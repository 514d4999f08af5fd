--------------------------- MODULE Gateway_proofs ----------------------------
(***************************************************************************)
(* Proofs about the gateway and what stands behind it, in two parts.       *)
(*                                                                         *)
(* RagRequest: the lineage runs of a request are paired, a chat is served  *)
(* whole and metered once, the answers are for the request's own prompt    *)
(* and the best there are, and the books of the load run balance.  The     *)
(* inductive invariant IInv says of every request, by the place its        *)
(* gateway handler has reached, which runs are open, which rows are        *)
(* written and how far the upstream handlers are; of an upstream handler,  *)
(* which part of its own run it has reported; and of the cache, that an    *)
(* entry is the embedding its key stands for.  Books adds what the load    *)
(* generator has counted.                                                  *)
(*                                                                         *)
(* The two limiters: the in-process bucket keeps its ledger (BucketBooks). *)
(* The bucket in Redis implements it (RedisImplements): its key expires    *)
(* only when the bucket would be full for every request that may still     *)
(* come.  So it keeps the same ledger (RedisBounded).                      *)
(***************************************************************************)
EXTENDS RagRequest, RedisLimiter, SequenceTheorems, FiniteSetTheorems, TLAPS

-----------------------------------------------------------------------------
(* What a request holds.                                                   *)

Stage == {"idle", "limit", "start", "embed", "retrieve", "model", "usage", "record",
          "complete", "fail", "end", "lost"}

Answered == {0, 200, 401, 422, 429, 500, 502, 504}

ChildState == {"none", "called", "work", "store", "ok", "error", "asleep", "overloaded"}

Run == {<<>>, S, SC, SF}

\* The chunks for the embedding of a prompt.
Ranking(h) == RankChunks(RowsFor[h], TopK)

\* The requests and what is kept of them.
RequestTypeOK ==
  /\ call \in [Req -> Call \cup {None}]
  /\ gw \in [Req -> [stage : Stage, status : Answered]]
  /\ child \in [Req -> [Upstream -> ChildState]]
  /\ reply \in [Req -> [vec : Hashes \cup {None}, refs : {<<>>} \cup {Ranking(h) : h \in Hashes}]]
  /\ log \in [Req -> [Job -> Run]]
  /\ meter \in [Req -> [usage : Nat, record : Nat]]
  /\ cache \in [Hashes -> Hashes \cup {None}]
  /\ faults \in Nat

\* The load run.
LoadTypeOK ==
  /\ outcome \in [Req -> Bucket \cup {"unsent", "waiting"}]
  /\ counts \in [Bucket -> Nat]
  /\ inFlight \in Nat
  /\ phase \in {"driving", "draining"}

TypeOK == RequestTypeOK /\ LoadTypeOK

\* The run of a chat is open while its handler works, and of nothing else.
Opened(r) == IF Chat(r) THEN S ELSE <<>>

\* What the handler has done, by the place it has reached.
Course(r) ==
  /\ call[r] = None => gw[r].stage = "idle"
  /\ gw[r].stage \in {"idle", "limit", "start"} => log[r].inference = <<>>
  /\ gw[r].stage \in {"embed", "retrieve", "model", "usage", "record", "complete", "fail"} =>
       log[r].inference = Opened(r)
  /\ gw[r].stage = "lost" => log[r].inference \in {<<>>, S}
  /\ gw[r].stage = "end" /\ gw[r].status = 200 =>
       IF Chat(r) THEN log[r].inference = SC
       ELSE log[r].inference = <<>> /\ call[r].op = "embed"
  /\ gw[r].stage = "end" /\ gw[r].status # 200 => log[r].inference \in {<<>>, SF}
  /\ gw[r].stage = "fail" => gw[r].status # 200
  /\ gw[r].stage = "embed" => Chat(r) \/ call[r].op = "embed"
  /\ gw[r].stage \in {"start", "retrieve", "model", "usage", "record", "complete", "fail"} =>
       Chat(r)

\* Each row is written at its place, once, and the way from there ends well.
Metered(r) ==
  /\ meter[r].usage <= 1 /\ meter[r].record <= 1
  /\ meter[r].usage > 0 => \/ gw[r].stage \in {"record", "complete", "lost"}
                           \/ gw[r].stage = "end" /\ gw[r].status = 200
  /\ meter[r].record > 0 => \/ gw[r].stage \in {"complete", "lost"}
                            \/ gw[r].stage = "end" /\ gw[r].status = 200

\* How far the upstream handlers are, by the place of the gateway's handler.
Callees(r) ==
  /\ child[r].embed \in {"none", "called", "work", "store", "ok", "error"}
  /\ child[r].retrieve \in {"none", "called", "work", "ok", "error"}
  /\ gw[r].stage \in {"idle", "limit", "start"} => \A u \in Upstream : child[r][u] = "none"
  /\ gw[r].stage = "embed" => child[r].retrieve = "none"
  /\ gw[r].stage \in {"retrieve", "model", "usage", "record", "complete"} =>
       child[r].embed = "ok"
  /\ gw[r].stage \in {"model", "usage", "record", "complete"} => child[r].retrieve = "ok"
  /\ log[r].inference = SC => Chat(r) /\ child[r].embed = "ok" /\ child[r].retrieve = "ok"
  /\ child[r].retrieve # "none" => Chat(r) /\ child[r].embed = "ok"

\* The sub-run of an upstream handler, by its state.
SubRun(r, u) ==
  /\ child[r][u] \in {"none", "called"} => log[r][u] = <<>>
  /\ child[r][u] \in {"work", "store"} => log[r][u] = Opened(r)
  /\ child[r][u] = "ok" => log[r][u] = IF Chat(r) THEN SC ELSE <<>>

SubRuns(r) == SubRun(r, "embed") /\ SubRun(r, "retrieve")

\* The answers are for the request's own prompt.
Own(r) ==
  /\ call[r] = None => reply[r].vec = None /\ reply[r].refs = <<>>
  /\ reply[r].vec # None => reply[r].vec = HashOf[call[r].prompt]
  /\ child[r].embed \in {"store", "ok"} => reply[r].vec = HashOf[call[r].prompt]
  /\ reply[r].refs # <<>> => reply[r].refs = Ranking(HashOf[call[r].prompt])

\* What is cached under a key is the embedding the key stands for.
CacheOwn == \A h \in Hashes : cache[h] \in {None, h}

Sound(r) == Course(r) /\ Metered(r) /\ Callees(r) /\ SubRuns(r) /\ Own(r)

\* What the load generator knows of a request is what became of it.
Seen(r) ==
  /\ outcome[r] # "unsent" => call[r] # None /\ call[r].op \in Scenario
  /\ outcome[r] = "ok" => gw[r].stage = "end" /\ gw[r].status = 200

\* Nothing of the request changes.
Same(r) ==
  /\ call'[r] = call[r] /\ gw'[r] = gw[r] /\ child'[r] = child[r]
  /\ reply'[r] = reply[r] /\ log'[r] = log[r] /\ meter'[r] = meter[r]

IInv == RequestTypeOK /\ CacheOwn /\ \A r \in Req : Sound(r)

-----------------------------------------------------------------------------
(* How the helpers of the actions move the state.                          *)

Event == {"START", "COMPLETE", "FAIL"}

\* What Append adds to a sequence.
LEMMA OneMore ==
  ASSUME NEW s \in Seq(Event), NEW e \in Event
  PROVE  /\ Append(s, e) \in Seq(Event) /\ Len(Append(s, e)) = Len(s) + 1
         /\ \A i \in 1 .. Len(s) : Append(s, e)[i] = s[i]
         /\ Append(s, e)[Len(s) + 1] = e
  OBVIOUS

LEMMA Appended ==
  ASSUME NEW s \in Seq(Event), NEW t \in Seq(Event), NEW e \in Event,
         Len(s) = 1, Len(t) = 2, t[1] = s[1], t[2] = e
  PROVE  Append(s, e) = t
<1>1. /\ Append(s, e) \in Seq(Event) /\ Len(Append(s, e)) = 2
      /\ Append(s, e)[1] = s[1] /\ Append(s, e)[2] = e
  <2>1. /\ Append(s, e) \in Seq(Event) /\ Len(Append(s, e)) = Len(s) + 1
        /\ \A i \in 1 .. Len(s) : Append(s, e)[i] = s[i]
        /\ Append(s, e)[Len(s) + 1] = e
    BY OneMore, Zenon
  <2>2. Len(s) + 1 = 2 /\ 1 \in 1 .. Len(s)
    OBVIOUS
  <2> QED
    BY <2>1, <2>2
<1>2. \A i \in 1 .. Len(t) : Append(s, e)[i] = t[i]
  BY <1>1
<1> QED
  BY <1>1, <1>2, SeqEqual

LEMMA LogSteps ==
  /\ Append(<<>>, "START") = S
  /\ Append(S, "COMPLETE") = SC
  /\ Append(S, "FAIL") = SF
  /\ S # <<>> /\ SC # <<>> /\ SF # <<>> /\ S # SC /\ S # SF /\ SC # SF
<1>1. Append(<<>>, "START") = S
  BY DEF S
<1>2. Append(S, "COMPLETE") = SC
  <2>1. S \in Seq(Event) /\ Len(S) = 1 /\ S[1] = "START"
    BY DEF S, Event
  <2>2. SC \in Seq(Event) /\ Len(SC) = 2 /\ SC[1] = "START" /\ SC[2] = "COMPLETE"
    BY DEF SC, Event
  <2> QED
    BY <2>1, <2>2, Appended DEF Event
<1>3. Append(S, "FAIL") = SF
  <2>1. S \in Seq(Event) /\ Len(S) = 1 /\ S[1] = "START"
    BY DEF S, Event
  <2>2. SF \in Seq(Event) /\ Len(SF) = 2 /\ SF[1] = "START" /\ SF[2] = "FAIL"
    BY DEF SF, Event
  <2> QED
    BY <2>1, <2>2, Appended DEF Event
<1>4. S # <<>> /\ SC # <<>> /\ SF # <<>>
  BY DEF S, SC, SF
<1>5. S # SC /\ S # SF
  <2>1. Len(S) = 1 /\ Len(SC) = 2 /\ Len(SF) = 2
    BY DEF S, SC, SF
  <2> QED
    BY <2>1
<1>6. SC # SF
  <2>1. SC[2] = "COMPLETE" /\ SF[2] = "FAIL"
    BY DEF SC, SF
  <2> QED
    BY <2>1
<1> QED
  BY <1>1, <1>2, <1>3, <1>4, <1>5, <1>6

LEMMA SoundKept ==
  ASSUME NEW r \in Req, Sound(r), Same(r)
  PROVE  Sound(r)'
<1>1. Course(r)'
  BY DEF Sound, Same, Course, Opened, Chat
<1>2. Metered(r)'
  BY DEF Sound, Same, Metered
<1>3. Callees(r)'
  BY DEF Sound, Same, Callees, Chat
<1>4. SubRuns(r)'
  BY DEF Sound, Same, SubRuns, SubRun, Opened, Chat
<1>5. Own(r)'
  BY DEF Sound, Same, Own
<1> QED
  BY <1>1, <1>2, <1>3, <1>4, <1>5 DEF Sound

LEMMA Moves ==
  ASSUME RequestTypeOK, NEW r \in Req, NEW stage \in Stage, NEW status \in Answered,
         gw' = [gw EXCEPT ![r].stage = stage, ![r].status = status]
  PROVE  /\ gw' \in [Req -> [stage : Stage, status : Answered]]
         /\ gw'[r].stage = stage /\ gw'[r].status = status
         /\ \A q \in Req \ {r} : gw'[q] = gw[q]
<1>1. gw \in [Req -> [stage : Stage, status : Answered]]
  BY DEF RequestTypeOK
<1>2. gw'[r] = [[gw[r] EXCEPT !.stage = stage] EXCEPT !.status = status]
  BY <1>1
<1>3. gw'[r] = [stage |-> stage, status |-> status]
  <2> DEFINE entered == [gw[r] EXCEPT !.stage = stage]
  <2>1. gw[r] \in [stage : Stage, status : Answered]
    BY <1>1
  <2>2. entered = [stage |-> stage, status |-> gw[r].status]
    BY <2>1
  <2>3. gw'[r] = [entered EXCEPT !.status = status]
    BY <1>2
  <2> HIDE DEF entered
  <2> QED
    BY <2>2, <2>3
<1> QED
  BY <1>1, <1>3

LEMMA Goes ==
  ASSUME RequestTypeOK, NEW r \in Req, NEW stage \in Stage,
         gw' = [gw EXCEPT ![r].stage = stage]
  PROVE  /\ gw' \in [Req -> [stage : Stage, status : Answered]]
         /\ gw'[r].stage = stage /\ gw'[r].status = gw[r].status
         /\ \A q \in Req \ {r} : gw'[q] = gw[q]
<1>1. gw \in [Req -> [stage : Stage, status : Answered]]
  BY DEF RequestTypeOK
<1>2. gw'[r] = [gw[r] EXCEPT !.stage = stage]
  BY <1>1
<1>3. gw'[r] = [stage |-> stage, status |-> gw[r].status]
  BY <1>1, <1>2
<1> QED
  BY <1>1, <1>3

LEMMA Becomes ==
  ASSUME RequestTypeOK, NEW r \in Req, NEW u \in Upstream, NEW state \in ChildState,
         child' = [child EXCEPT ![r][u] = state]
  PROVE  /\ child' \in [Req -> [Upstream -> ChildState]]
         /\ child'[r][u] = state
         /\ \A w \in Upstream \ {u} : child'[r][w] = child[r][w]
         /\ \A q \in Req \ {r} : child'[q] = child[q]
BY DEF RequestTypeOK

LEMMA Emits ==
  ASSUME RequestTypeOK, NEW r \in Req, NEW job \in Job, NEW event, NEW run \in Run,
         Emit(r, job, event), Append(log[r][job], event) = run
  PROVE  /\ log' \in [Req -> [Job -> Run]]
         /\ log'[r][job] = run
         /\ \A j \in Job \ {job} : log'[r][j] = log[r][j]
         /\ \A q \in Req \ {r} : log'[q] = log[q]
BY DEF RequestTypeOK, Emit

LEMMA Sets ==
  /\ Upstream = {"embed", "retrieve", "model"}
  /\ Job = {"inference", "embed", "retrieve"}
  /\ Status.unauthorized = 401 /\ Status.validation = 422 /\ Status.rateLimited = 429
  /\ Status.modelOverloaded = 429 /\ Status.internal = 500 /\ Status.upstream = 502
  /\ Status.upstreamTimeout = 504
BY DEF Upstream, Job, Status

-----------------------------------------------------------------------------
(* The first step of a request, and the load generator's own.              *)

LEMMA InitInv == Init => IInv
<1> SUFFICES ASSUME Init
             PROVE  IInv
  OBVIOUS
<1>1. RequestTypeOK
  <2>1. gw \in [Req -> [stage : Stage, status : Answered]]
    BY DEF Init, Stage, Answered
  <2>2. child \in [Req -> [Upstream -> ChildState]]
    BY DEF Init, ChildState
  <2>3. log \in [Req -> [Job -> Run]]
    BY DEF Init, Run
  <2>4. reply \in [Req -> [vec : Hashes \cup {None},
                           refs : {<<>>} \cup {Ranking(h) : h \in Hashes}]]
    BY DEF Init
  <2>5. meter \in [Req -> [usage : Nat, record : Nat]]
    BY DEF Init
  <2> QED
    BY <2>1, <2>2, <2>3, <2>4, <2>5 DEF Init, RequestTypeOK
<1>2. CacheOwn
  BY DEF Init, CacheOwn
<1>3. ASSUME NEW r \in Req
      PROVE  Sound(r)
  <2>1. /\ call[r] = None /\ gw[r] = [stage |-> "idle", status |-> 0]
        /\ child[r] = [u \in Upstream |-> "none"]
        /\ reply[r] = [vec |-> None, refs |-> <<>>]
        /\ log[r] = [j \in Job |-> <<>>]
        /\ meter[r] = [usage |-> 0, record |-> 0]
    BY DEF Init
  <2>2. gw[r].stage = "idle" /\ child[r].embed = "none" /\ child[r].retrieve = "none"
    BY <2>1 DEF Upstream
  <2>3. log[r].inference = <<>> /\ log[r].embed = <<>> /\ log[r].retrieve = <<>>
    BY <2>1 DEF Job
  <2>4. Course(r)
    BY <2>1, <2>2, <2>3 DEF Course
  <2>5. Metered(r)
    BY <2>1 DEF Metered
  <2>6. Callees(r)
    BY <2>1, <2>2, <2>3, LogSteps DEF Callees
  <2>7. SubRuns(r)
    BY <2>1, <2>2, <2>3 DEF SubRuns, SubRun
  <2>8. Own(r)
    BY <2>1, <2>2 DEF Own
  <2> QED
    BY <2>4, <2>5, <2>6, <2>7, <2>8 DEF Sound
<1> QED
  BY <1>1, <1>2, <1>3 DEF IInv

LEMMA SendKeeps ==
  ASSUME IInv, NEW r \in Req, NEW op \in Scenario \cup Other, Send(r, op)
  PROVE  /\ call' \in [Req -> Call \cup {None}]
         /\ gw' \in [Req -> [stage : Stage, status : Answered]]
         /\ \A q \in Req : Sound(q)'
<1> USE DEF IInv
<1>0. RequestTypeOK
  OBVIOUS
<1>1. PICK p \in Prompt : call' = [call EXCEPT ![r] = [op |-> op, prompt |-> p]]
  BY DEF Send
<1>2. [op |-> op, prompt |-> p] \in Call
  BY DEF Call
<1>3. call' \in [Req -> Call \cup {None}] /\ call'[r] # None /\ call'[r].op = op
      /\ \A q \in Req \ {r} : call'[q] = call[q]
  BY <1>1, <1>2, CorpusAssumption DEF RequestTypeOK
<1>4. /\ gw' \in [Req -> [stage : Stage, status : Answered]]
      /\ \/ gw'[r].stage = "end" /\ gw'[r].status = 401
         \/ gw'[r].stage = "limit"
      /\ \A q \in Req \ {r} : gw'[q] = gw[q]
  <2>1. CASE op = "badToken"
    <3>1. gw' = [gw EXCEPT ![r].stage = "end", ![r].status = 401]
      BY <2>1, Sets DEF Send
    <3>2. "end" \in Stage /\ 401 \in Answered
      BY DEF Stage, Answered
    <3>3. /\ gw' \in [Req -> [stage : Stage, status : Answered]]
          /\ gw'[r].stage = "end" /\ gw'[r].status = 401
          /\ \A q \in Req \ {r} : gw'[q] = gw[q]
      BY <1>0, <3>1, <3>2, Moves
    <3> QED
      BY <3>3
  <2>2. CASE op # "badToken"
    <3>1. gw' = [gw EXCEPT ![r].stage = "limit"]
      BY <2>2 DEF Send
    <3>2. "limit" \in Stage
      BY DEF Stage
    <3>3. /\ gw' \in [Req -> [stage : Stage, status : Answered]]
          /\ gw'[r].stage = "limit"
          /\ \A q \in Req \ {r} : gw'[q] = gw[q]
      BY <1>0, <3>1, <3>2, Goes
    <3> QED
      BY <3>3
  <2> QED
    BY <2>1, <2>2
<1>5. gw[r].stage = "idle" /\ call[r] = None
  BY DEF Send, Sound, Course
<1>6. /\ log[r].inference = <<>> /\ child[r].embed = "none" /\ child[r].retrieve = "none"
      /\ \A u \in Upstream : child[r][u] = "none"
  BY <1>5, Sets DEF Sound, Course, Callees
<1>7. log[r].embed = <<>> /\ log[r].retrieve = <<>>
  BY <1>6 DEF Sound, SubRuns, SubRun
<1>8. meter[r].usage = 0 /\ meter[r].record = 0
  <2>1. meter[r].usage \in Nat /\ meter[r].record \in Nat
    BY DEF RequestTypeOK
  <2> QED
    BY <1>5, <2>1 DEF Sound, Metered
<1>9. reply[r].vec = None /\ reply[r].refs = <<>>
  BY <1>5 DEF Sound, Own
<1>10. UNCHANGED <<child, reply, log, meter>>
  BY DEF Send
<1>11. Sound(r)'
  <2>1. Course(r)'
    BY <1>3, <1>4, <1>6, <1>10 DEF Course
  <2>2. Metered(r)'
    BY <1>8, <1>10 DEF Metered
  <2>3. Callees(r)'
    BY <1>4, <1>6, <1>10, LogSteps DEF Callees
  <2>4. SubRuns(r)'
    BY <1>6, <1>7, <1>10 DEF SubRuns, SubRun
  <2>5. Own(r)'
    BY <1>6, <1>9, <1>10 DEF Own
  <2> QED
    BY <2>1, <2>2, <2>3, <2>4, <2>5 DEF Sound
<1>12. ASSUME NEW q \in Req \ {r}
       PROVE  Sound(q)'
  BY <1>3, <1>4, <1>10, SoundKept DEF Same
<1> QED
  BY <1>3, <1>4, <1>11, <1>12

LEMMA KeepsAll ==
  ASSUME IInv, NEW r \in Req,
         call' \in [Req -> Call \cup {None}],
         gw' \in [Req -> [stage : Stage, status : Answered]],
         child' \in [Req -> [Upstream -> ChildState]],
         reply' \in [Req -> [vec : Hashes \cup {None},
                             refs : {<<>>} \cup {Ranking(h) : h \in Hashes}]],
         log' \in [Req -> [Job -> Run]],
         meter' \in [Req -> [usage : Nat, record : Nat]],
         cache' \in [Hashes -> Hashes \cup {None}], CacheOwn', Wrong \/ Fine,
         Sound(r)', \A q \in Req \ {r} : Same(q)
  PROVE  IInv'
<1>1. ASSUME NEW q \in Req \ {r}
      PROVE  Sound(q)'
  BY SoundKept DEF IInv
<1>2. faults' \in Nat
  BY DEF IInv, RequestTypeOK, Wrong, Fine
<1>3. RequestTypeOK'
  BY <1>2 DEF RequestTypeOK
<1> QED
  BY <1>1, <1>3 DEF IInv

LEMMA Keeps ==
  ASSUME IInv, NEW r \in Req,
         call' \in [Req -> Call \cup {None}],
         gw' \in [Req -> [stage : Stage, status : Answered]],
         child' \in [Req -> [Upstream -> ChildState]],
         reply' \in [Req -> [vec : Hashes \cup {None},
                             refs : {<<>>} \cup {Ranking(h) : h \in Hashes}]],
         log' \in [Req -> [Job -> Run]],
         meter' \in [Req -> [usage : Nat, record : Nat]],
         cache' = cache, Wrong \/ Fine,
         Sound(r)', \A q \in Req \ {r} : Same(q)
  PROVE  IInv'
<1>1. CacheOwn' /\ cache' \in [Hashes -> Hashes \cup {None}]
  BY DEF IInv, CacheOwn, RequestTypeOK
<1> QED
  BY <1>1, KeepsAll

\* The facts about one request that every step starts from.
LEMMA Holds ==
  ASSUME IInv, NEW r \in Req
  PROVE  /\ RequestTypeOK
         /\ Course(r) /\ Metered(r) /\ Callees(r) /\ SubRuns(r) /\ Own(r)
         /\ gw[r].stage \in Stage /\ gw[r].status \in Answered
         /\ meter[r].usage \in Nat /\ meter[r].record \in Nat
         /\ \A j \in Job : log[r][j] \in Run
         /\ \A u \in Upstream : child[r][u] \in ChildState
BY DEF IInv, Sound, RequestTypeOK

-----------------------------------------------------------------------------
(* The gateway's handler.                                                  *)

LEMMA ThrowGoes ==
  ASSUME RequestTypeOK, NEW r \in Req, NEW status \in Answered, Throw(r, status)
  PROVE  /\ gw' \in [Req -> [stage : Stage, status : Answered]]
         /\ gw'[r].stage = (IF Chat(r) THEN "fail" ELSE "end") /\ gw'[r].status = status
         /\ \A q \in Req \ {r} : gw'[q] = gw[q]
<1> DEFINE stage == IF Chat(r) THEN "fail" ELSE "end"
<1>1. gw' = [gw EXCEPT ![r].stage = stage, ![r].status = status]
  BY DEF Throw
<1>2. stage \in Stage
  BY DEF Stage
<1> HIDE DEF stage
<1>3. /\ gw' \in [Req -> [stage : Stage, status : Answered]]
      /\ gw'[r].stage = stage /\ gw'[r].status = status
      /\ \A q \in Req \ {r} : gw'[q] = gw[q]
  BY <1>1, <1>2, Moves
<1> QED
  BY <1>3 DEF stage

LEMMA FinishGoes ==
  ASSUME RequestTypeOK, NEW r \in Req, NEW status \in Answered, Finish(r, status)
  PROVE  /\ gw' \in [Req -> [stage : Stage, status : Answered]]
         /\ gw'[r].stage = "end" /\ gw'[r].status = status
         /\ \A q \in Req \ {r} : gw'[q] = gw[q]
<1>1. gw' = [gw EXCEPT ![r].stage = "end", ![r].status = status]
  BY DEF Finish
<1>2. "end" \in Stage
  BY DEF Stage
<1> QED
  BY <1>1, <1>2, Moves

LEMMA AskGoes ==
  ASSUME RequestTypeOK, NEW r \in Req, NEW u \in Upstream, Ask(r, u)
  PROVE  /\ gw' \in [Req -> [stage : Stage, status : Answered]]
         /\ gw'[r].stage = u /\ gw'[r].status = gw[r].status
         /\ child' \in [Req -> [Upstream -> ChildState]]
         /\ child'[r][u] = "called"
         /\ \A w \in Upstream \ {u} : child'[r][w] = child[r][w]
         /\ \A q \in Req \ {r} : gw'[q] = gw[q] /\ child'[q] = child[q]
<1>1. u \in Stage /\ "called" \in ChildState
  BY DEF Upstream, Stage, ChildState
<1>2. gw' = [gw EXCEPT ![r].stage = u] /\ child' = [child EXCEPT ![r][u] = "called"]
  BY DEF Ask
<1>3. /\ gw' \in [Req -> [stage : Stage, status : Answered]]
      /\ gw'[r].stage = u /\ gw'[r].status = gw[r].status
      /\ \A q \in Req \ {r} : gw'[q] = gw[q]
  BY <1>1, <1>2, Goes
<1>4. /\ child' \in [Req -> [Upstream -> ChildState]]
      /\ child'[r][u] = "called"
      /\ \A w \in Upstream \ {u} : child'[r][w] = child[r][w]
      /\ \A q \in Req \ {r} : child'[q] = child[q]
  BY <1>1, <1>2, Becomes
<1> QED
  BY <1>3, <1>4

\* The handler ends before it has opened its run.
LEMMA RefusedKeeps ==
  ASSUME IInv, NEW r \in Req, At(r, "limit"), NEW status \in Answered \ {200},
         Finish(r, status), UNCHANGED <<child, reply, log, meter, rest>>, Wrong \/ Fine
  PROVE  IInv'
<1>1. /\ gw' \in [Req -> [stage : Stage, status : Answered]]
      /\ gw'[r].stage = "end" /\ gw'[r].status = status
      /\ \A q \in Req \ {r} : gw'[q] = gw[q]
  BY FinishGoes, Holds
<1>2. /\ UNCHANGED <<call, child, reply, log, meter, cache>>
      /\ call[r] # None /\ gw[r].stage = "limit"
  BY DEF rest, At
<1>3. Course(r)'
  BY <1>1, <1>2, Holds DEF Course
<1>4. Metered(r)'
  BY <1>1, <1>2, Holds DEF Metered
<1>5. Callees(r)'
  BY <1>1, <1>2, Holds DEF Callees, Chat
<1>6. SubRuns(r)'
  BY <1>2, Holds DEF SubRuns, SubRun, Opened, Chat
<1>7. Own(r)'
  BY <1>2, Holds DEF Own
<1>8. Sound(r)'
  BY <1>3, <1>4, <1>5, <1>6, <1>7 DEF Sound
<1>9. \A q \in Req \ {r} : Same(q)
  BY <1>1, <1>2 DEF Same
<1>10. /\ call' \in [Req -> Call \cup {None}]
       /\ child' \in [Req -> [Upstream -> ChildState]]
       /\ reply' \in [Req -> [vec : Hashes \cup {None},
                               refs : {<<>>} \cup {Ranking(h) : h \in Hashes}]]
       /\ log' \in [Req -> [Job -> Run]]
       /\ meter' \in [Req -> [usage : Nat, record : Nat]]
  BY <1>2, Holds DEF RequestTypeOK
<1> QED
  BY <1>1, <1>2, <1>8, <1>9, <1>10, Keeps

LEMMA LimitKeeps ==
  ASSUME IInv, NEW r \in Req, Limit(r)
  PROVE  IInv'
<1>1. At(r, "limit") /\ UNCHANGED <<reply, log, meter, rest>>
  BY DEF Limit
<1>2. 422 \in Answered \ {200} /\ 429 \in Answered \ {200} /\ 500 \in Answered \ {200}
  BY DEF Answered
<1>3. CASE Finish(r, Status.rateLimited) /\ UNCHANGED child /\ Wrong
  BY <1>1, <1>2, <1>3, Sets, RefusedKeeps
<1>4. CASE Finish(r, Status.internal) /\ UNCHANGED child /\ (Wrong \/ Fine)
  BY <1>1, <1>2, <1>4, Sets, RefusedKeeps
<1>5. CASE Finish(r, Status.validation) /\ UNCHANGED child /\ Fine
  BY <1>1, <1>2, <1>5, Sets, RefusedKeeps
<1>6. CASE call[r].op = "chat" /\ Go(r, "start") /\ UNCHANGED child /\ Fine
  <2>1. "start" \in Stage
    BY DEF Stage
  <2>2. /\ gw' \in [Req -> [stage : Stage, status : Answered]]
        /\ gw'[r].stage = "start" /\ gw'[r].status = gw[r].status
        /\ \A q \in Req \ {r} : gw'[q] = gw[q]
    BY <1>6, <2>1, Holds, Goes DEF Go
  <2>3. /\ UNCHANGED <<call, child, reply, log, meter, cache>>
        /\ call[r] # None /\ gw[r].stage = "limit" /\ Chat(r)
    BY <1>1, <1>6 DEF rest, At, Chat
  <2>4. Course(r)'
    BY <2>2, <2>3, Holds DEF Course, Chat
  <2>5. Metered(r)'
    BY <2>2, <2>3, Holds DEF Metered
  <2>6. Callees(r)'
    BY <2>2, <2>3, Holds DEF Callees, Chat
  <2>7. SubRuns(r)' /\ Own(r)'
    BY <2>3, Holds DEF SubRuns, SubRun, Opened, Chat, Own
  <2>8. Sound(r)'
    BY <2>4, <2>5, <2>6, <2>7 DEF Sound
  <2>9. \A q \in Req \ {r} : Same(q)
    BY <2>2, <2>3 DEF Same
  <2>10. /\ call' \in [Req -> Call \cup {None}]
         /\ child' \in [Req -> [Upstream -> ChildState]]
         /\ reply' \in [Req -> [vec : Hashes \cup {None},
                                refs : {<<>>} \cup {Ranking(h) : h \in Hashes}]]
         /\ log' \in [Req -> [Job -> Run]]
         /\ meter' \in [Req -> [usage : Nat, record : Nat]]
    BY <2>3, Holds DEF RequestTypeOK
  <2> QED
    BY <1>6, <2>2, <2>3, <2>8, <2>9, <2>10, Keeps
<1>7. CASE call[r].op = "embed" /\ Ask(r, "embed") /\ Fine
  <2>1. /\ UNCHANGED <<call, reply, log, meter, cache>>
        /\ call[r] # None /\ gw[r].stage = "limit" /\ ~Chat(r)
    BY <1>1, <1>7 DEF rest, At, Chat
  <2>2. /\ gw' \in [Req -> [stage : Stage, status : Answered]]
        /\ gw'[r].stage = "embed" /\ gw'[r].status = gw[r].status
        /\ child' \in [Req -> [Upstream -> ChildState]]
        /\ child'[r].embed = "called"
        /\ child'[r].retrieve = child[r].retrieve
        /\ \A q \in Req \ {r} : gw'[q] = gw[q] /\ child'[q] = child[q]
    BY <1>7, Sets, Holds, AskGoes
  <2>3. child[r].embed = "none" /\ child[r].retrieve = "none"
    BY <2>1, Holds, Sets DEF Callees
  <2>4. Course(r)'
    BY <1>7, <2>1, <2>2, Holds DEF Course, Chat, Opened
  <2>5. Metered(r)'
    BY <2>1, <2>2, Holds DEF Metered
  <2>6. Callees(r)'
    BY <2>1, <2>2, <2>3, Holds DEF Callees, Chat
  <2>7. SubRuns(r)'
    BY <2>1, <2>2, <2>3, Holds DEF SubRuns, SubRun, Opened, Chat
  <2>8. Own(r)'
    BY <2>1, <2>2, Holds DEF Own
  <2>9. Sound(r)'
    BY <2>4, <2>5, <2>6, <2>7, <2>8 DEF Sound
  <2>10. \A q \in Req \ {r} : Same(q)
    BY <2>1, <2>2 DEF Same
  <2>11. /\ call' \in [Req -> Call \cup {None}]
         /\ reply' \in [Req -> [vec : Hashes \cup {None},
                                refs : {<<>>} \cup {Ranking(h) : h \in Hashes}]]
         /\ log' \in [Req -> [Job -> Run]]
         /\ meter' \in [Req -> [usage : Nat, record : Nat]]
    BY <2>1, Holds DEF RequestTypeOK
  <2> QED
    BY <1>7, <2>1, <2>2, <2>9, <2>10, <2>11, Keeps
<1> QED
  BY <1>3, <1>4, <1>5, <1>6, <1>7 DEF Limit

LEMMA LineageStartKeeps ==
  ASSUME IInv, NEW r \in Req, LineageStart(r)
  PROVE  IInv'
<1>1. /\ UNCHANGED <<call, reply, meter, cache>>
      /\ call[r] # None /\ gw[r].stage = "start" /\ Chat(r) /\ Fine
  BY Holds DEF LineageStart, rest, At, Course
<1>2. Ask(r, "embed")
  BY DEF LineageStart, EmitRejects
<1>3. /\ gw' \in [Req -> [stage : Stage, status : Answered]]
      /\ gw'[r].stage = "embed" /\ gw'[r].status = gw[r].status
      /\ child' \in [Req -> [Upstream -> ChildState]]
      /\ child'[r].embed = "called"
      /\ child'[r].retrieve = child[r].retrieve
      /\ \A q \in Req \ {r} : gw'[q] = gw[q] /\ child'[q] = child[q]
  BY <1>2, Sets, Holds, AskGoes
<1>4. log[r].inference = <<>> /\ child[r].embed = "none" /\ child[r].retrieve = "none"
  BY <1>1, Holds, Sets DEF Course, Callees
<1>5. /\ log' \in [Req -> [Job -> Run]]
      /\ log'[r].inference = S
      /\ log'[r].embed = log[r].embed /\ log'[r].retrieve = log[r].retrieve
      /\ \A q \in Req \ {r} : log'[q] = log[q]
  <2>1. Emit(r, "inference", "START") /\ "inference" \in Job
    BY Sets DEF LineageStart
  <2>2. Append(log[r]["inference"], "START") = S /\ S \in Run /\ RequestTypeOK
    BY <1>4, LogSteps, Holds DEF Run
  <2>3. /\ log' \in [Req -> [Job -> Run]]
        /\ log'[r]["inference"] = S
        /\ \A j \in Job \ {"inference"} : log'[r][j] = log[r][j]
        /\ \A q \in Req \ {r} : log'[q] = log[q]
    BY <2>1, <2>2, Emits
  <2> QED
    BY <2>3, Sets
<1>6. Course(r)'
  BY <1>1, <1>3, <1>5, Holds DEF Course, Chat, Opened
<1>7. Metered(r)'
  BY <1>1, <1>3, Holds DEF Metered
<1>8. Callees(r)'
  BY <1>1, <1>3, <1>4, <1>5, LogSteps, Holds DEF Callees, Chat
<1>9. SubRuns(r)'
  BY <1>1, <1>3, <1>4, <1>5, Holds DEF SubRuns, SubRun, Opened, Chat
<1>10. Own(r)'
  BY <1>1, <1>3, Holds DEF Own
<1>11. Sound(r)'
  BY <1>6, <1>7, <1>8, <1>9, <1>10 DEF Sound
<1>12. \A q \in Req \ {r} : Same(q)
  BY <1>1, <1>3, <1>5 DEF Same
<1>13. /\ call' \in [Req -> Call \cup {None}]
       /\ reply' \in [Req -> [vec : Hashes \cup {None},
                              refs : {<<>>} \cup {Ranking(h) : h \in Hashes}]]
       /\ meter' \in [Req -> [usage : Nat, record : Nat]]
  BY <1>1, Holds DEF RequestTypeOK
<1> QED
  BY <1>1, <1>3, <1>5, <1>11, <1>12, <1>13, Keeps

\* The handler goes on to its next upstream.
LEMMA AskedNextKeeps ==
  ASSUME IInv, NEW r \in Req, NEW u \in {"embed", "retrieve"}, NEW w \in {"retrieve", "model"},
         (u = "embed" /\ w = "retrieve") \/ (u = "retrieve" /\ w = "model"),
         At(r, u), child[r][u] = "ok", Chat(r), Ask(r, w), Fine,
         UNCHANGED <<reply, log, meter, rest>>
  PROVE  IInv'
<1>1. /\ UNCHANGED <<call, reply, log, meter, cache>>
      /\ call[r] # None /\ gw[r].stage = u
  BY DEF rest, At
<1>2. /\ gw' \in [Req -> [stage : Stage, status : Answered]]
      /\ gw'[r].stage = w /\ gw'[r].status = gw[r].status
      /\ child' \in [Req -> [Upstream -> ChildState]]
      /\ child'[r][w] = "called"
      /\ \A v \in Upstream \ {w} : child'[r][v] = child[r][v]
      /\ \A q \in Req \ {r} : gw'[q] = gw[q] /\ child'[q] = child[q]
  BY Sets, Holds, AskGoes
<1>3. child'[r].embed = child[r].embed /\ child[r].embed = "ok"
  BY <1>1, <1>2, Sets, Holds DEF Callees
<1>4. \/ /\ w = "retrieve" /\ u = "embed" /\ child[r].retrieve = "none"
         /\ child'[r].retrieve = "called"
      \/ /\ w = "model" /\ u = "retrieve" /\ child[r].retrieve = "ok"
         /\ child'[r].retrieve = "ok"
  BY <1>1, <1>2, Sets, Holds DEF Callees
<1>5. Course(r)'
  BY <1>1, <1>2, Holds DEF Course, Chat, Opened
<1>6. Metered(r)'
  BY <1>1, <1>2, Holds DEF Metered
<1>7. Callees(r)'
  <2>1. log[r].inference # SC
    BY <1>1, Holds, LogSteps DEF Course, Opened
  <2> QED
    BY <1>1, <1>2, <1>3, <1>4, <2>1, Holds DEF Callees, Chat
<1>8. SubRuns(r)'
  BY <1>1, <1>2, <1>3, <1>4, Holds DEF SubRuns, SubRun, Opened, Chat
<1>9. Own(r)'
  BY <1>1, <1>3, Holds DEF Own
<1>10. Sound(r)'
  BY <1>5, <1>6, <1>7, <1>8, <1>9 DEF Sound
<1>11. \A q \in Req \ {r} : Same(q)
  BY <1>1, <1>2 DEF Same
<1>12. /\ call' \in [Req -> Call \cup {None}]
       /\ reply' \in [Req -> [vec : Hashes \cup {None},
                              refs : {<<>>} \cup {Ranking(h) : h \in Hashes}]]
       /\ log' \in [Req -> [Job -> Run]]
       /\ meter' \in [Req -> [usage : Nat, record : Nat]]
  BY <1>1, Holds DEF RequestTypeOK
<1> QED
  BY <1>1, <1>2, <1>10, <1>11, <1>12, Keeps

LEMMA EmbeddedKeeps ==
  ASSUME IInv, NEW r \in Req, Embedded(r)
  PROVE  IInv'
<1>1. /\ At(r, "embed") /\ child[r]["embed"] = "ok" /\ Fine
      /\ UNCHANGED <<reply, log, meter, rest>>
  BY DEF Embedded
<1>2. CASE Chat(r)
  BY <1>1, <1>2, AskedNextKeeps DEF Embedded
<1>3. CASE ~Chat(r)
  <2>1. /\ UNCHANGED <<call, child, reply, log, meter, cache>>
        /\ call[r] # None /\ gw[r].stage = "embed"
    BY <1>1, <1>3 DEF Embedded, rest, At
  <2>2. Finish(r, 200) /\ 200 \in Answered
    BY <1>3 DEF Embedded, Answered
  <2>3. /\ gw' \in [Req -> [stage : Stage, status : Answered]]
        /\ gw'[r].stage = "end" /\ gw'[r].status = 200
        /\ \A q \in Req \ {r} : gw'[q] = gw[q]
    BY <2>2, FinishGoes, Holds
  <2>4. Course(r)'
    BY <1>3, <2>1, <2>3, Holds DEF Course, Chat, Opened
  <2>5. Metered(r)'
    BY <2>1, <2>3, Holds DEF Metered
  <2>6. Callees(r)'
    BY <2>1, <2>3, Holds DEF Callees, Chat
  <2>7. SubRuns(r)' /\ Own(r)'
    BY <2>1, Holds DEF SubRuns, SubRun, Opened, Chat, Own
  <2>8. Sound(r)'
    BY <2>4, <2>5, <2>6, <2>7 DEF Sound
  <2>9. \A q \in Req \ {r} : Same(q)
    BY <2>1, <2>3 DEF Same
  <2>10. /\ call' \in [Req -> Call \cup {None}]
         /\ child' \in [Req -> [Upstream -> ChildState]]
         /\ reply' \in [Req -> [vec : Hashes \cup {None},
                                refs : {<<>>} \cup {Ranking(h) : h \in Hashes}]]
         /\ log' \in [Req -> [Job -> Run]]
         /\ meter' \in [Req -> [usage : Nat, record : Nat]]
    BY <2>1, Holds DEF RequestTypeOK
  <2> QED
    BY <1>1, <2>1, <2>3, <2>8, <2>9, <2>10, Keeps
<1> QED
  BY <1>2, <1>3

LEMMA RetrievedKeeps ==
  ASSUME IInv, NEW r \in Req, Retrieved(r)
  PROVE  IInv'
<1>1. /\ At(r, "retrieve") /\ child[r]["retrieve"] = "ok" /\ Fine
      /\ UNCHANGED <<reply, log, meter, rest>> /\ Ask(r, "model")
  BY DEF Retrieved
<1>2. Chat(r)
  BY <1>1, Holds DEF At, Course
<1> QED
  BY <1>1, <1>2, AskedNextKeeps

LEMMA CompletedKeeps ==
  ASSUME IInv, NEW r \in Req, Completed(r)
  PROVE  IInv'
<1>1. /\ UNCHANGED <<call, child, reply, log, meter, cache>> /\ Fine
      /\ call[r] # None /\ gw[r].stage = "model"
  BY DEF Completed, rest, At
<1>2. gw' = [gw EXCEPT ![r].stage = "usage"] /\ "usage" \in Stage
  BY DEF Completed, Go, Stage
<1>3. /\ gw' \in [Req -> [stage : Stage, status : Answered]]
      /\ gw'[r].stage = "usage" /\ gw'[r].status = gw[r].status
      /\ \A q \in Req \ {r} : gw'[q] = gw[q]
  BY <1>2, Holds, Goes
<1>4. Course(r)'
  BY <1>1, <1>3, Holds DEF Course, Chat, Opened
<1>5. Metered(r)'
  BY <1>1, <1>3, Holds DEF Metered
<1>6. Callees(r)'
  BY <1>1, <1>3, Holds DEF Callees, Chat
<1>7. SubRuns(r)' /\ Own(r)'
  BY <1>1, Holds DEF SubRuns, SubRun, Opened, Chat, Own
<1>8. Sound(r)'
  BY <1>4, <1>5, <1>6, <1>7 DEF Sound
<1>9. \A q \in Req \ {r} : Same(q)
  BY <1>1, <1>3 DEF Same
<1>10. /\ call' \in [Req -> Call \cup {None}]
       /\ child' \in [Req -> [Upstream -> ChildState]]
       /\ reply' \in [Req -> [vec : Hashes \cup {None},
                              refs : {<<>>} \cup {Ranking(h) : h \in Hashes}]]
       /\ log' \in [Req -> [Job -> Run]]
       /\ meter' \in [Req -> [usage : Nat, record : Nat]]
  BY <1>1, Holds DEF RequestTypeOK
<1> QED
  BY <1>1, <1>3, <1>8, <1>9, <1>10, Keeps

\* The call of an upstream fails, whatever became of the callee.
LEMMA ThrownKeeps ==
  ASSUME IInv, NEW r \in Req, NEW u \in Upstream, At(r, u),
         NEW status \in Answered \ {200}, Throw(r, status),
         \/ UNCHANGED child
         \/ child[r][u] = "called" /\ child' = [child EXCEPT ![r][u] = "none"],
         UNCHANGED <<reply, log, meter, rest>>, Wrong \/ Fine
  PROVE  IInv'
<1>1. /\ UNCHANGED <<call, reply, log, meter, cache>>
      /\ call[r] # None /\ gw[r].stage = u
  BY DEF rest, At
<1>2. /\ gw' \in [Req -> [stage : Stage, status : Answered]]
      /\ gw'[r].stage = (IF Chat(r) THEN "fail" ELSE "end") /\ gw'[r].status = status
      /\ \A q \in Req \ {r} : gw'[q] = gw[q]
  BY ThrowGoes, Holds
<1>3. /\ child' \in [Req -> [Upstream -> ChildState]]
      /\ \A w \in Upstream : \/ child'[r][w] = child[r][w]
                             \/ child[r][w] = "called" /\ child'[r][w] = "none"
      /\ \A q \in Req \ {r} : child'[q] = child[q]
  <2>1. CASE UNCHANGED child
    BY <2>1, Holds DEF RequestTypeOK
  <2>2. CASE child[r][u] = "called" /\ child' = [child EXCEPT ![r][u] = "none"]
    <3>1. "none" \in ChildState
      BY DEF ChildState
    <3>2. RequestTypeOK
      BY Holds
    <3>3. /\ child' \in [Req -> [Upstream -> ChildState]]
          /\ child'[r][u] = "none"
          /\ \A w \in Upstream \ {u} : child'[r][w] = child[r][w]
          /\ \A q \in Req \ {r} : child'[q] = child[q]
      BY <2>2, <3>1, <3>2, Becomes
    <3> QED
      BY <2>2, <3>3
  <2> QED
    BY <2>1, <2>2
<1>4. log[r].inference = Opened(r)
  BY <1>1, Sets, Holds DEF Course
<1>5. Course(r)'
  BY <1>1, <1>2, <1>4, Sets, Holds DEF Course, Chat, Opened
<1>6. Metered(r)'
  BY <1>1, <1>2, Sets, Holds DEF Metered
<1>7. /\ \/ child'[r].embed = child[r].embed
         \/ child[r].embed = "called" /\ child'[r].embed = "none"
      /\ \/ child'[r].retrieve = child[r].retrieve
         \/ child[r].retrieve = "called" /\ child'[r].retrieve = "none"
  BY <1>3, Sets
<1>8. Callees(r)'
  <2>1. log[r].inference # SC
    BY <1>4, LogSteps DEF Opened
  <2> QED
    BY <1>1, <1>2, <1>7, <2>1, Holds DEF Callees, Chat
<1>9. SubRuns(r)'
  BY <1>1, <1>7, Holds DEF SubRuns, SubRun, Opened, Chat
<1>10. Own(r)'
  BY <1>1, <1>7, Holds DEF Own
<1>11. Sound(r)'
  BY <1>5, <1>6, <1>8, <1>9, <1>10 DEF Sound
<1>12. \A q \in Req \ {r} : Same(q)
  BY <1>1, <1>2, <1>3 DEF Same
<1>13. /\ call' \in [Req -> Call \cup {None}]
       /\ reply' \in [Req -> [vec : Hashes \cup {None},
                              refs : {<<>>} \cup {Ranking(h) : h \in Hashes}]]
       /\ log' \in [Req -> [Job -> Run]]
       /\ meter' \in [Req -> [usage : Nat, record : Nat]]
  BY <1>1, Holds DEF RequestTypeOK
<1> QED
  BY <1>1, <1>2, <1>3, <1>11, <1>12, <1>13, Keeps

LEMMA FailedKeeps ==
  ASSUME IInv, NEW r \in Req, UpstreamFailed(r) \/ UpstreamGone(r)
  PROVE  IInv'
<1>1. PICK u \in Upstream :
        /\ At(r, u)
        /\ \E status \in {429, 500, 502, 504} : Throw(r, status)
        /\ \/ UNCHANGED child
           \/ child[r][u] = "called" /\ child' = [child EXCEPT ![r][u] = "none"]
        /\ UNCHANGED <<reply, log, meter, rest>>
        /\ Wrong \/ Fine
  <2>1. CASE UpstreamFailed(r)
    BY <2>1, Sets DEF UpstreamFailed
  <2>2. CASE UpstreamGone(r)
    BY <2>2, Sets DEF UpstreamGone
  <2> QED
    BY <2>1, <2>2
<1>2. PICK status \in {429, 500, 502, 504} : Throw(r, status)
  BY <1>1
<1>3. status \in Answered \ {200}
  BY DEF Answered
<1> QED
  BY <1>1, <1>2, <1>3, ThrownKeeps

LEMMA WriteKeeps ==
  ASSUME IInv, NEW r \in Req, WriteUsage(r) \/ Record(r)
  PROVE  IInv'
<1>1. /\ UNCHANGED <<call, child, reply, log, cache>>
      /\ call[r] # None /\ (Wrong \/ Fine)
      /\ \/ gw[r].stage = "usage" /\ gw' = [gw EXCEPT ![r].stage = "record"]
         \/ gw[r].stage = "record" /\ gw' = [gw EXCEPT ![r].stage = "complete"]
  BY DEF WriteUsage, Record, Write, WriteRejects, Go, rest, At
<1>2. PICK next \in {"record", "complete"} :
        /\ gw' \in [Req -> [stage : Stage, status : Answered]]
        /\ gw'[r].stage = next /\ gw'[r].status = gw[r].status
        /\ \/ gw[r].stage = "usage" /\ next = "record"
           \/ gw[r].stage = "record" /\ next = "complete"
        /\ \A q \in Req \ {r} : gw'[q] = gw[q]
  <2>1. "record" \in Stage /\ "complete" \in Stage
    BY DEF Stage
  <2>2. CASE gw[r].stage = "usage" /\ gw' = [gw EXCEPT ![r].stage = "record"]
    BY <2>1, <2>2, Holds, Goes
  <2>3. CASE gw[r].stage = "record" /\ gw' = [gw EXCEPT ![r].stage = "complete"]
    BY <2>1, <2>3, Holds, Goes
  <2> QED
    BY <1>1, <2>2, <2>3
<1>3. /\ meter' \in [Req -> [usage : Nat, record : Nat]]
      /\ \/ meter'[r] = meter[r]
         \/ /\ gw[r].stage = "usage" /\ meter'[r].record = meter[r].record
            /\ meter'[r].usage = meter[r].usage + 1
         \/ /\ gw[r].stage = "record" /\ meter'[r].usage = meter[r].usage
            /\ meter'[r].record = meter[r].record + 1
      /\ \A q \in Req \ {r} : meter'[q] = meter[q]
  <2>1. meter \in [Req -> [usage : Nat, record : Nat]]
    BY Holds DEF RequestTypeOK
  <2>2. \/ meter' = meter
        \/ gw[r].stage = "usage" /\ meter' = [meter EXCEPT ![r].usage = @ + 1]
        \/ gw[r].stage = "record" /\ meter' = [meter EXCEPT ![r].record = @ + 1]
    BY DEF WriteUsage, Record, Write, At
  <2>3. CASE meter' = meter
    BY <2>1, <2>3
  <2>4. CASE gw[r].stage = "usage" /\ meter' = [meter EXCEPT ![r].usage = @ + 1]
    <3>1. meter'[r] = [usage |-> meter[r].usage + 1, record |-> meter[r].record]
      BY <2>1, <2>4
    <3> QED
      BY <2>1, <2>4, <3>1
  <2>5. CASE gw[r].stage = "record" /\ meter' = [meter EXCEPT ![r].record = @ + 1]
    <3>1. meter'[r] = [usage |-> meter[r].usage, record |-> meter[r].record + 1]
      BY <2>1, <2>5
    <3> QED
      BY <2>1, <2>5, <3>1
  <2> QED
    BY <2>2, <2>3, <2>4, <2>5
<1>4. Course(r)'
  BY <1>1, <1>2, Holds DEF Course, Chat, Opened
<1>5. Metered(r)'
  BY <1>1, <1>2, <1>3, Holds DEF Metered
<1>6. Callees(r)'
  BY <1>1, <1>2, Holds DEF Callees, Chat
<1>7. SubRuns(r)' /\ Own(r)'
  BY <1>1, Holds DEF SubRuns, SubRun, Opened, Chat, Own
<1>8. Sound(r)'
  BY <1>4, <1>5, <1>6, <1>7 DEF Sound
<1>9. \A q \in Req \ {r} : Same(q)
  BY <1>1, <1>2, <1>3 DEF Same
<1>10. /\ call' \in [Req -> Call \cup {None}]
       /\ child' \in [Req -> [Upstream -> ChildState]]
       /\ reply' \in [Req -> [vec : Hashes \cup {None},
                              refs : {<<>>} \cup {Ranking(h) : h \in Hashes}]]
       /\ log' \in [Req -> [Job -> Run]]
  BY <1>1, Holds DEF RequestTypeOK
<1> QED
  BY <1>1, <1>2, <1>3, <1>8, <1>9, <1>10, Keeps

\* The run of a chat is closed and the answer sent.
LEMMA ClosedKeeps ==
  ASSUME IInv, NEW r \in Req, NEW status \in Answered, NEW event, NEW run \in {SC, SF},
         \/ gw[r].stage = "complete" /\ status = 200 /\ event = "COMPLETE" /\ run = SC
         \/ gw[r].stage = "fail" /\ status # 200 /\ event = "FAIL" /\ run = SF,
         call[r] # None, Finish(r, status), Emit(r, "inference", event), Fine,
         UNCHANGED <<child, reply, meter, rest>>
  PROVE  IInv'
<1>1. UNCHANGED <<call, child, reply, meter, cache>>
  BY DEF rest
<1>2. /\ gw' \in [Req -> [stage : Stage, status : Answered]]
      /\ gw'[r].stage = "end" /\ gw'[r].status = status
      /\ \A q \in Req \ {r} : gw'[q] = gw[q]
  BY FinishGoes, Holds
<1>3. Chat(r) /\ log[r].inference = S
  BY Holds DEF Course, Opened
<1>4. /\ log' \in [Req -> [Job -> Run]]
      /\ log'[r].inference = run
      /\ log'[r].embed = log[r].embed /\ log'[r].retrieve = log[r].retrieve
      /\ \A q \in Req \ {r} : log'[q] = log[q]
  <2>1. "inference" \in Job
    BY Sets
  <2>2. Append(log[r]["inference"], event) = run /\ run \in Run /\ RequestTypeOK
    BY <1>3, LogSteps, Holds DEF Run
  <2>3. /\ log' \in [Req -> [Job -> Run]]
        /\ log'[r]["inference"] = run
        /\ \A j \in Job \ {"inference"} : log'[r][j] = log[r][j]
        /\ \A q \in Req \ {r} : log'[q] = log[q]
    BY <2>1, <2>2, Emits
  <2> QED
    BY <2>3, Sets
<1>5. Course(r)'
  BY <1>1, <1>2, <1>3, <1>4, Holds DEF Course, Chat
<1>6. Metered(r)'
  BY <1>1, <1>2, Holds DEF Metered
<1>7. Callees(r)'
  BY <1>1, <1>2, <1>3, <1>4, LogSteps, Holds DEF Callees, Chat
<1>8. SubRuns(r)' /\ Own(r)'
  BY <1>1, <1>4, Holds DEF SubRuns, SubRun, Opened, Chat, Own
<1>9. Sound(r)'
  BY <1>5, <1>6, <1>7, <1>8 DEF Sound
<1>10. \A q \in Req \ {r} : Same(q)
  BY <1>1, <1>2, <1>4 DEF Same
<1>11. /\ call' \in [Req -> Call \cup {None}]
       /\ child' \in [Req -> [Upstream -> ChildState]]
       /\ reply' \in [Req -> [vec : Hashes \cup {None},
                              refs : {<<>>} \cup {Ranking(h) : h \in Hashes}]]
       /\ meter' \in [Req -> [usage : Nat, record : Nat]]
  BY <1>1, Holds DEF RequestTypeOK
<1> QED
  BY <1>1, <1>2, <1>4, <1>9, <1>10, <1>11, Keeps

LEMMA LineageEndKeeps ==
  ASSUME IInv, NEW r \in Req, LineageComplete(r) \/ LineageFail(r)
  PROVE  IInv'
<1>1. CASE LineageComplete(r)
  <2>1. /\ gw[r].stage = "complete" /\ call[r] # None /\ Finish(r, 200)
        /\ Emit(r, "inference", "COMPLETE") /\ Fine
        /\ UNCHANGED <<child, reply, meter, rest>>
    BY <1>1 DEF LineageComplete, EmitRejects, At
  <2>2. 200 \in Answered
    BY DEF Answered
  <2> QED
    BY <2>1, <2>2, ClosedKeeps
<1>2. CASE LineageFail(r)
  <2>1. /\ gw[r].stage = "fail" /\ call[r] # None /\ Finish(r, gw[r].status)
        /\ Emit(r, "inference", "FAIL") /\ Fine
        /\ UNCHANGED <<child, reply, meter, rest>>
    BY <1>2 DEF LineageFail, At
  <2>2. gw[r].status \in Answered /\ gw[r].status # 200
    BY <2>1, Holds DEF Course
  <2> QED
    BY <2>1, <2>2, ClosedKeeps
<1> QED
  BY <1>1, <1>2

LEMMA RestartKeeps ==
  ASSUME IInv, GatewayRestart
  PROVE  IInv'
<1>1. UNCHANGED <<call, child, reply, log, meter, cache>> /\ Wrong
  BY DEF GatewayRestart
<1>2. RequestTypeOK
  BY DEF IInv
<1>3. ASSUME NEW r \in Req
      PROVE  /\ gw'[r] \in [stage : Stage, status : Answered]
             /\ \/ gw'[r] = gw[r]
                \/ /\ gw[r].stage \notin {"idle", "end"}
                   /\ gw'[r].stage = "lost" /\ gw'[r].status = gw[r].status
  <2>1. gw[r] \in [stage : Stage, status : Answered]
    BY <1>2 DEF RequestTypeOK
  <2>2. gw'[r] = IF gw[r].stage \in {"idle", "end"} THEN gw[r]
                 ELSE [gw[r] EXCEPT !.stage = "lost"]
    BY DEF GatewayRestart
  <2>3. "lost" \in Stage
    BY DEF Stage
  <2>4. [gw[r] EXCEPT !.stage = "lost"] = [stage |-> "lost", status |-> gw[r].status]
    BY <2>1
  <2> QED
    BY <2>1, <2>2, <2>3, <2>4
<1>4. ASSUME NEW r \in Req
      PROVE  Sound(r)'
  <2>1. CASE gw'[r] = gw[r]
    BY <1>1, <2>1, SoundKept DEF IInv, Same
  <2>2. CASE /\ gw[r].stage \notin {"idle", "end"}
             /\ gw'[r].stage = "lost" /\ gw'[r].status = gw[r].status
    <3>1. Course(r)'
      BY <1>1, <2>2, Holds DEF Course, Opened, Stage
    <3>2. Metered(r)'
      BY <1>1, <2>2, Holds DEF Metered
    <3>3. Callees(r)'
      BY <1>1, <2>2, Holds DEF Callees, Chat
    <3>4. SubRuns(r)' /\ Own(r)'
      BY <1>1, Holds DEF SubRuns, SubRun, Opened, Chat, Own
    <3> QED
      BY <3>1, <3>2, <3>3, <3>4 DEF Sound
  <2> QED
    BY <1>3, <2>1, <2>2
<1>5. gw' \in [Req -> [stage : Stage, status : Answered]]
  <2>1. gw' = [r \in Req |-> gw'[r]]
    BY DEF GatewayRestart
  <2> QED
    BY <1>3, <2>1
<1>6. RequestTypeOK'
  <2>1. faults' \in Nat
    BY <1>1, <1>2 DEF RequestTypeOK, Wrong
  <2> QED
    BY <1>1, <1>2, <1>5, <2>1 DEF RequestTypeOK
<1>7. CacheOwn'
  BY <1>1 DEF IInv, CacheOwn
<1> QED
  BY <1>4, <1>6, <1>7 DEF IInv

-----------------------------------------------------------------------------
(* The upstream handlers.                                                  *)

LEMMA Reports ==
  ASSUME RequestTypeOK, NEW r \in Req, NEW j \in {"embed", "retrieve"}, NEW event, NEW run \in Run,
         Report(r, j, event), Chat(r) => Append(log[r][j], event) = run
  PROVE  /\ log' \in [Req -> [Job -> Run]]
         /\ log'[r][j] = IF Chat(r) THEN run ELSE log[r][j]
         /\ log'[r].inference = log[r].inference
         /\ \A i \in {"embed", "retrieve"} \ {j} : log'[r][i] = log[r][i]
         /\ \A q \in Req \ {r} : log'[q] = log[q]
<1>1. CASE Chat(r)
  <2>1. Emit(r, j, event) /\ j \in Job
    BY <1>1, Sets DEF Report, HasParent
  <2>2. /\ log' \in [Req -> [Job -> Run]]
        /\ log'[r][j] = run
        /\ \A i \in Job \ {j} : log'[r][i] = log[r][i]
        /\ \A q \in Req \ {r} : log'[q] = log[q]
    BY <1>1, <2>1, Emits
  <2> QED
    BY <1>1, <2>2, Sets
<1>2. CASE ~Chat(r)
  <2>1. log' = log
    BY <1>2 DEF Report, HasParent
  <2> QED
    BY <1>2, <2>1 DEF RequestTypeOK
<1> QED
  BY <1>1, <1>2

\* A handler of the embedder or the retriever goes on.
LEMMA CalleeKeeps ==
  ASSUME IInv, NEW r \in Req, NEW u \in {"embed", "retrieve"},
         child[r][u] \in {"called", "work", "store"},
         NEW state \in {"work", "store", "ok", "error"}, u = "retrieve" => state # "store",
         Become(r, u, state), UNCHANGED <<call, gw, meter>>,
         log' \in [Req -> [Job -> Run]],
         log'[r].inference = log[r].inference,
         \A i \in {"embed", "retrieve"} \ {u} : log'[r][i] = log[r][i],
         \A q \in Req \ {r} : log'[q] = log[q] /\ reply'[q] = reply[q],
         state = "work" => log'[r][u] = Opened(r),
         state = "store" => log'[r][u] = Opened(r),
         state = "ok" => log'[r][u] = IF Chat(r) THEN SC ELSE <<>>,
         reply' \in [Req -> [vec : Hashes \cup {None},
                             refs : {<<>>} \cup {Ranking(h) : h \in Hashes}]],
         reply'[r].vec # None => reply'[r].vec = HashOf[call[r].prompt],
         u = "retrieve" \/ state \in {"store", "ok"} => reply'[r].vec = HashOf[call[r].prompt],
         reply'[r].refs # <<>> => reply'[r].refs = Ranking(HashOf[call[r].prompt]),
         cache' \in [Hashes -> Hashes \cup {None}], CacheOwn', Wrong \/ Fine
  PROVE  IInv'
<1>1. state \in ChildState /\ u \in Upstream
  BY Sets DEF ChildState
<1>2. /\ child' \in [Req -> [Upstream -> ChildState]]
      /\ child'[r][u] = state
      /\ \A w \in Upstream \ {u} : child'[r][w] = child[r][w]
      /\ \A q \in Req \ {r} : child'[q] = child[q]
  <2>1. child' = [child EXCEPT ![r][u] = state]
    BY DEF Become
  <2> QED
    BY <1>1, <2>1, Holds, Becomes
<1>3. \/ /\ u = "embed" /\ child'[r].embed = state /\ child'[r].retrieve = child[r].retrieve
         /\ log'[r].retrieve = log[r].retrieve
      \/ /\ u = "retrieve" /\ child'[r].retrieve = state /\ child'[r].embed = child[r].embed
         /\ log'[r].embed = log[r].embed
  BY <1>2, Sets
<1>4. gw[r].stage \notin {"idle", "limit", "start"} /\ call[r] # None
  BY <1>1, Holds DEF Callees, Course
<1>5. Course(r)'
  BY Holds DEF Course, Chat, Opened
<1>6. Metered(r)'
  BY Holds DEF Metered
<1>7. Callees(r)'
  BY <1>3, <1>4, Holds DEF Callees, Chat
<1>8. SubRuns(r)'
  BY <1>3, Holds DEF SubRuns, SubRun, Opened, Chat
<1>9. Own(r)'
  <2>1. child'[r].embed \in {"store", "ok"} => reply'[r].vec = HashOf[call[r].prompt]
    BY <1>3, Holds DEF Own
  <2> QED
    BY <1>4, <2>1 DEF Own
<1>10. Sound(r)'
  BY <1>5, <1>6, <1>7, <1>8, <1>9 DEF Sound
<1>11. \A q \in Req \ {r} : Same(q)
  BY <1>2 DEF Same
<1>12. /\ call' \in [Req -> Call \cup {None}]
       /\ gw' \in [Req -> [stage : Stage, status : Answered]]
       /\ meter' \in [Req -> [usage : Nat, record : Nat]]
  BY Holds DEF RequestTypeOK
<1> QED
  BY <1>2, <1>10, <1>11, <1>12, KeepsAll

\* What a working handler of the embedder or the retriever starts from.
LEMMA Working ==
  ASSUME IInv, NEW r \in Req, NEW u \in {"embed", "retrieve"},
         child[r][u] \in {"called", "work", "store"}
  PROVE  /\ call[r] \in Call /\ call[r] # None
         /\ HashOf[call[r].prompt] \in Hashes
         /\ child[r][u] = "called" => log[r][u] = <<>>
         /\ child[r][u] # "called" => log[r][u] = Opened(r)
         /\ u = "retrieve" \/ child[r][u] = "store" => reply[r].vec = HashOf[call[r].prompt]
         /\ reply[r].vec # None => reply[r].vec = HashOf[call[r].prompt]
         /\ reply[r].refs # <<>> => reply[r].refs = Ranking(HashOf[call[r].prompt])
<1>1. u \in Upstream
  BY Sets
<1>2. call[r] # None
  BY <1>1, Holds DEF Callees, Course
<1>3. call[r] \in Call
  BY <1>2, Holds DEF RequestTypeOK
<1>4. HashOf[call[r].prompt] \in Hashes
  BY <1>3 DEF Call, Hashes
<1>5. u = "retrieve" => child[r].embed = "ok"
  BY Holds DEF Callees
<1> QED
  BY <1>2, <1>3, <1>4, <1>5, Holds DEF SubRuns, SubRun, Own

LEMMA Unread ==
  ASSUME IInv
  PROVE  /\ reply \in [Req -> [vec : Hashes \cup {None},
                              refs : {<<>>} \cup {Ranking(h) : h \in Hashes}]]
         /\ cache \in [Hashes -> Hashes \cup {None}] /\ CacheOwn
         /\ log \in [Req -> [Job -> Run]]
BY DEF IInv, RequestTypeOK

\* The sub-run that is open is closed.
LEMMA Closes ==
  ASSUME IInv, NEW r \in Req, NEW u \in {"embed", "retrieve"},
         child[r][u] \in {"work", "store"}, NEW event, NEW run \in {SC, SF},
         \/ event = "COMPLETE" /\ run = SC
         \/ event = "FAIL" /\ run = SF,
         Report(r, u, event)
  PROVE  /\ log' \in [Req -> [Job -> Run]]
         /\ log'[r][u] = IF Chat(r) THEN run ELSE <<>>
         /\ log'[r].inference = log[r].inference
         /\ \A i \in {"embed", "retrieve"} \ {u} : log'[r][i] = log[r][i]
         /\ \A q \in Req \ {r} : log'[q] = log[q]
<1>1. log[r][u] = Opened(r)
  BY Working
<1>2. Chat(r) => Append(log[r][u], event) = run
  BY <1>1, LogSteps DEF Opened
<1>3. run \in Run /\ RequestTypeOK
  BY Holds DEF Run
<1>4. /\ log' \in [Req -> [Job -> Run]]
      /\ log'[r][u] = IF Chat(r) THEN run ELSE log[r][u]
      /\ log'[r].inference = log[r].inference
      /\ \A i \in {"embed", "retrieve"} \ {u} : log'[r][i] = log[r][i]
      /\ \A q \in Req \ {r} : log'[q] = log[q]
  BY <1>2, <1>3, Reports
<1> QED
  BY <1>1, <1>4 DEF Opened

LEMMA ChildBeginKeeps ==
  ASSUME IInv, NEW r \in Req, ChildBegin(r)
  PROVE  IInv'
<1>1. PICK u \in {"embed", "retrieve"} :
        /\ child[r][u] = "called"
        /\ \/ Report(r, u, "START") /\ Become(r, u, "work") /\ Fine
           \/ u = "retrieve" /\ RetrieveRefused(r) /\ Wrong
        /\ UNCHANGED <<call, gw, meter, reply, cache>>
  BY DEF ChildBegin, rest
<1>2. /\ log[r][u] = <<>>
      /\ u = "retrieve" => reply[r].vec = HashOf[call[r].prompt]
      /\ reply[r].vec # None => reply[r].vec = HashOf[call[r].prompt]
      /\ reply[r].refs # <<>> => reply[r].refs = Ranking(HashOf[call[r].prompt])
  BY <1>1, Working
<1>3. /\ reply' \in [Req -> [vec : Hashes \cup {None},
                            refs : {<<>>} \cup {Ranking(h) : h \in Hashes}]]
      /\ cache' \in [Hashes -> Hashes \cup {None}] /\ CacheOwn'
  BY <1>1, Unread DEF CacheOwn
<1>4. CASE Report(r, u, "START") /\ Become(r, u, "work") /\ Fine
  <2>1. Chat(r) => Append(log[r][u], "START") = S
    BY <1>2, LogSteps
  <2>2. S \in Run /\ RequestTypeOK
    BY Holds DEF Run
  <2>3. /\ log' \in [Req -> [Job -> Run]]
        /\ log'[r][u] = IF Chat(r) THEN S ELSE log[r][u]
        /\ log'[r].inference = log[r].inference
        /\ \A i \in {"embed", "retrieve"} \ {u} : log'[r][i] = log[r][i]
        /\ \A q \in Req \ {r} : log'[q] = log[q]
    BY <1>4, <2>1, <2>2, Reports
  <2>4. log'[r][u] = Opened(r)
    BY <1>2, <2>3 DEF Opened
  <2> QED
    BY <1>1, <1>2, <1>3, <1>4, <2>3, <2>4, CalleeKeeps
<1>5. CASE u = "retrieve" /\ RetrieveRefused(r) /\ Wrong
  <2>1. Become(r, u, "error") /\ log' = log
    BY <1>5 DEF RetrieveRefused
  <2>2. log' \in [Req -> [Job -> Run]]
    BY <2>1, Unread
  <2> QED
    BY <1>1, <1>2, <1>3, <1>5, <2>1, <2>2, CalleeKeeps
<1> QED
  BY <1>1, <1>4, <1>5

\* The work of a sub-run fails.
LEMMA BreakKeeps ==
  ASSUME IInv, NEW r \in Req, NEW u \in {"embed", "retrieve"},
         child[r][u] \in {"work", "store"}, Break(r, u),
         UNCHANGED <<call, gw, meter, reply, cache>>
  PROVE  IInv'
<1>1. Report(r, u, "FAIL") /\ Become(r, u, "error") /\ Wrong
  BY DEF Break
<1>2. /\ log' \in [Req -> [Job -> Run]]
      /\ log'[r].inference = log[r].inference
      /\ \A i \in {"embed", "retrieve"} \ {u} : log'[r][i] = log[r][i]
      /\ \A q \in Req \ {r} : log'[q] = log[q]
  BY <1>1, Closes
<1>3. /\ u = "retrieve" => reply[r].vec = HashOf[call[r].prompt]
      /\ reply[r].vec # None => reply[r].vec = HashOf[call[r].prompt]
      /\ reply[r].refs # <<>> => reply[r].refs = Ranking(HashOf[call[r].prompt])
  BY Working
<1>4. /\ reply' \in [Req -> [vec : Hashes \cup {None},
                            refs : {<<>>} \cup {Ranking(h) : h \in Hashes}]]
      /\ cache' \in [Hashes -> Hashes \cup {None}] /\ CacheOwn'
  BY Unread DEF CacheOwn
<1> QED
  BY <1>1, <1>2, <1>3, <1>4, CalleeKeeps

LEMMA CacheGetKeeps ==
  ASSUME IInv, NEW r \in Req, CacheGet(r)
  PROVE  IInv'
<1> DEFINE own == HashOf[call[r].prompt]
<1>1. child[r]["embed"] = "work" /\ UNCHANGED <<call, gw, meter, cache>>
  BY DEF CacheGet, rest
<1>2. /\ own \in Hashes /\ log[r]["embed"] = Opened(r)
      /\ reply[r].refs # <<>> => reply[r].refs = Ranking(own)
  BY <1>1, Working
<1>3. cache[own] \in {None, own}
  BY <1>2, Unread DEF CacheOwn
<1>4. CacheOwn' /\ cache' \in [Hashes -> Hashes \cup {None}]
  BY <1>1, Unread DEF CacheOwn
<1>5. CASE Break(r, "embed") /\ UNCHANGED reply
  BY <1>1, <1>5, BreakKeeps
<1>6. CASE ~(Break(r, "embed") /\ UNCHANGED reply)
  <2>1. /\ reply' = [reply EXCEPT ![r].vec = own] /\ Fine
        /\ \/ Answer(r, "embed")
           \/ Become(r, "embed", "store") /\ UNCHANGED log
    BY <1>3, <1>6 DEF CacheGet, CacheKey, HashEmbedding
  <2>2. /\ reply' \in [Req -> [vec : Hashes \cup {None},
                              refs : {<<>>} \cup {Ranking(h) : h \in Hashes}]]
        /\ reply'[r].vec = own /\ reply'[r].refs = reply[r].refs
        /\ \A q \in Req \ {r} : reply'[q] = reply[q]
    <3> DEFINE refs == {<<>>} \cup {Ranking(h) : h \in Hashes}
    <3>1. reply \in [Req -> [vec : Hashes \cup {None}, refs : refs]]
      BY Unread
    <3> HIDE DEF own, refs
    <3>2. reply'[r] = [vec |-> own, refs |-> reply[r].refs]
      BY <2>1, <3>1
    <3>3. reply' \in [Req -> [vec : Hashes \cup {None}, refs : refs]]
      BY <1>2, <2>1, <3>1, <3>2
    <3>4. \A q \in Req \ {r} : reply'[q] = reply[q]
      BY <2>1, <3>1
    <3> QED
      BY <3>2, <3>3, <3>4 DEF refs
  <2>3. CASE Answer(r, "embed")
    <3>1. Report(r, "embed", "COMPLETE") /\ Become(r, "embed", "ok")
      BY <2>3 DEF Answer, EmitRejects
    <3>2. /\ log' \in [Req -> [Job -> Run]]
          /\ log'[r]["embed"] = IF Chat(r) THEN SC ELSE <<>>
          /\ log'[r].inference = log[r].inference
          /\ \A i \in {"embed", "retrieve"} \ {"embed"} : log'[r][i] = log[r][i]
          /\ \A q \in Req \ {r} : log'[q] = log[q]
      BY <1>1, <3>1, Closes
    <3> QED
      BY <1>1, <1>2, <1>4, <2>1, <2>2, <3>1, <3>2, CalleeKeeps
  <2>4. CASE Become(r, "embed", "store") /\ UNCHANGED log
    <3>1. log' \in [Req -> [Job -> Run]]
      BY <2>4, Unread
    <3> QED
      BY <1>1, <1>2, <1>4, <2>1, <2>2, <2>4, <3>1, CalleeKeeps
  <2> QED
    BY <2>1, <2>3, <2>4
<1> QED
  BY <1>5, <1>6

LEMMA CacheSetKeeps ==
  ASSUME IInv, NEW r \in Req, CacheSet(r)
  PROVE  IInv'
<1> DEFINE own == HashOf[call[r].prompt]
<1>1. child[r]["embed"] = "store" /\ UNCHANGED <<call, gw, meter, reply>>
  BY DEF CacheSet, driver
<1>2. /\ own \in Hashes /\ log[r]["embed"] = Opened(r)
      /\ reply[r].vec = own
      /\ reply[r].refs # <<>> => reply[r].refs = Ranking(own)
  BY <1>1, Working
<1>3. CASE Break(r, "embed") /\ UNCHANGED cache
  BY <1>1, <1>3, BreakKeeps
<1>4. CASE /\ cache' = [cache EXCEPT ![CacheKey(call[r].prompt)] = reply[r].vec]
           /\ Answer(r, "embed") /\ Fine
  <2>1. cache' = [cache EXCEPT ![own] = own]
    BY <1>2, <1>4 DEF CacheKey
  <2>2. CacheOwn' /\ cache' \in [Hashes -> Hashes \cup {None}]
    BY <1>2, <2>1, Unread DEF CacheOwn
  <2>3. Report(r, "embed", "COMPLETE") /\ Become(r, "embed", "ok")
    BY <1>4 DEF Answer, EmitRejects
  <2>4. /\ log' \in [Req -> [Job -> Run]]
        /\ log'[r]["embed"] = IF Chat(r) THEN SC ELSE <<>>
        /\ log'[r].inference = log[r].inference
        /\ \A i \in {"embed", "retrieve"} \ {"embed"} : log'[r][i] = log[r][i]
        /\ \A q \in Req \ {r} : log'[q] = log[q]
    BY <1>1, <2>3, Closes
  <2>5. reply' \in [Req -> [vec : Hashes \cup {None},
                            refs : {<<>>} \cup {Ranking(h) : h \in Hashes}]]
    BY <1>1, Unread
  <2> QED
    BY <1>1, <1>2, <1>4, <2>2, <2>3, <2>4, <2>5, CalleeKeeps
<1> QED
  BY <1>3, <1>4 DEF CacheSet

LEMMA SearchKeeps ==
  ASSUME IInv, NEW r \in Req, Search(r)
  PROVE  IInv'
<1> DEFINE own == HashOf[call[r].prompt]
<1>1. child[r]["retrieve"] = "work" /\ UNCHANGED <<call, gw, meter, cache>>
  BY DEF Search, rest
<1>2. /\ own \in Hashes /\ log[r]["retrieve"] = Opened(r)
      /\ reply[r].vec = own
  BY <1>1, Working
<1>3. CacheOwn' /\ cache' \in [Hashes -> Hashes \cup {None}]
  BY <1>1, Unread DEF CacheOwn
<1>4. CASE Break(r, "retrieve") /\ UNCHANGED reply
  BY <1>1, <1>4, BreakKeeps
<1>5. CASE /\ reply' = [reply EXCEPT ![r].refs = RankChunks(RowsFor[reply[r].vec], TopK)]
           /\ Answer(r, "retrieve") /\ Fine
  <2>1. /\ reply' \in [Req -> [vec : Hashes \cup {None},
                              refs : {<<>>} \cup {Ranking(h) : h \in Hashes}]]
        /\ reply'[r].vec = own /\ reply'[r].refs = Ranking(own)
        /\ \A q \in Req \ {r} : reply'[q] = reply[q]
    <3> DEFINE refs == {<<>>} \cup {Ranking(h) : h \in Hashes}
               new == Ranking(own)
    <3>1. reply \in [Req -> [vec : Hashes \cup {None}, refs : refs]]
      BY Unread
    <3>2. new \in refs
      BY <1>2
    <3>3. reply' = [reply EXCEPT ![r].refs = new]
      BY <1>2, <1>5 DEF Ranking
    <3> HIDE DEF own, refs, new
    <3>4. reply'[r] = [vec |-> own, refs |-> new]
      BY <1>2, <3>1, <3>3
    <3>5. reply' \in [Req -> [vec : Hashes \cup {None}, refs : refs]]
      BY <1>2, <3>1, <3>2, <3>3, <3>4
    <3>6. \A q \in Req \ {r} : reply'[q] = reply[q]
      BY <3>1, <3>3
    <3> QED
      BY <3>4, <3>5, <3>6 DEF refs, new
  <2>2. Report(r, "retrieve", "COMPLETE") /\ Become(r, "retrieve", "ok")
    BY <1>5 DEF Answer, EmitRejects
  <2>3. /\ log' \in [Req -> [Job -> Run]]
        /\ log'[r]["retrieve"] = IF Chat(r) THEN SC ELSE <<>>
        /\ log'[r].inference = log[r].inference
        /\ \A i \in {"embed", "retrieve"} \ {"retrieve"} : log'[r][i] = log[r][i]
        /\ \A q \in Req \ {r} : log'[q] = log[q]
    BY <1>1, <2>2, Closes
  <2> QED
    BY <1>1, <1>2, <1>3, <1>5, <2>1, <2>2, <2>3, CalleeKeeps
<1> QED
  BY <1>4, <1>5 DEF Search

\* The model-proxy reports nothing, and nothing rests on where it is.
LEMMA ModelKeeps ==
  ASSUME IInv, NEW r \in Req, ModelBegin(r) \/ ModelWake(r)
  PROVE  IInv'
<1>1. /\ UNCHANGED <<call, gw, reply, log, meter, cache>> /\ (Wrong \/ Fine)
      /\ child[r]["model"] \in {"called", "asleep"}
      /\ \E state \in {"asleep", "overloaded", "error", "ok"} :
           child' = [child EXCEPT ![r]["model"] = state]
  BY DEF ModelBegin, ModelWake, FaultOutcome, Become, rest
<1>2. PICK state \in {"asleep", "overloaded", "error", "ok"} :
        child' = [child EXCEPT ![r]["model"] = state]
  BY <1>1
<1>3. "model" \in Upstream /\ state \in ChildState /\ RequestTypeOK
  BY Sets, Holds DEF ChildState
<1>4. /\ child' \in [Req -> [Upstream -> ChildState]]
      /\ \A w \in Upstream \ {"model"} : child'[r][w] = child[r][w]
      /\ \A q \in Req \ {r} : child'[q] = child[q]
  BY <1>2, <1>3, Becomes
<1>5. child'[r].embed = child[r].embed /\ child'[r].retrieve = child[r].retrieve
  BY <1>4, Sets
<1>6. gw[r].stage \notin {"idle", "limit", "start"}
  BY <1>1, <1>3, Holds DEF Callees
<1>7. Course(r)' /\ Metered(r)'
  BY <1>1, Holds DEF Course, Metered, Chat, Opened
<1>8. Callees(r)'
  BY <1>1, <1>5, <1>6, Holds DEF Callees, Chat
<1>9. SubRuns(r)' /\ Own(r)'
  BY <1>1, <1>5, Holds DEF SubRuns, SubRun, Opened, Chat, Own
<1>10. Sound(r)'
  BY <1>7, <1>8, <1>9 DEF Sound
<1>11. \A q \in Req \ {r} : Same(q)
  BY <1>1, <1>4 DEF Same
<1>12. /\ call' \in [Req -> Call \cup {None}]
       /\ gw' \in [Req -> [stage : Stage, status : Answered]]
       /\ reply' \in [Req -> [vec : Hashes \cup {None},
                              refs : {<<>>} \cup {Ranking(h) : h \in Hashes}]]
       /\ log' \in [Req -> [Job -> Run]]
       /\ meter' \in [Req -> [usage : Nat, record : Nat]]
  BY <1>1, <1>3 DEF RequestTypeOK
<1> QED
  BY <1>1, <1>4, <1>10, <1>11, <1>12, Keeps

LEMMA ExpireKeeps ==
  ASSUME IInv, CacheExpire
  PROVE  IInv'
<1>1. UNCHANGED <<call, gw, child, reply, log, meter>> /\ Wrong
  BY DEF CacheExpire
<1>2. PICK h \in Hashes : cache' = [cache EXCEPT ![h] = None]
  BY DEF CacheExpire
<1>3. CacheOwn' /\ cache' \in [Hashes -> Hashes \cup {None}]
  BY <1>2, Unread DEF CacheOwn
<1>4. RequestTypeOK'
  BY <1>1, <1>3 DEF IInv, RequestTypeOK, Wrong
<1>5. \A r \in Req : Sound(r)'
  BY <1>1, SoundKept DEF IInv, Same
<1> QED
  BY <1>3, <1>4, <1>5 DEF IInv

-----------------------------------------------------------------------------
LEMMA SentKeeps ==
  ASSUME IInv, NEW r \in Req, Dispatch(r) \/ OtherClient(r)
  PROVE  IInv'
<1>1. PICK op \in Scenario \cup Other : Send(r, op)
  BY DEF Dispatch, OtherClient
<1>2. /\ call' \in [Req -> Call \cup {None}]
      /\ gw' \in [Req -> [stage : Stage, status : Answered]]
      /\ \A q \in Req : Sound(q)'
  BY <1>1, SendKeeps
<1>3. UNCHANGED <<child, reply, log, meter, cache, faults>>
  BY <1>1 DEF Send
<1>4. RequestTypeOK' /\ CacheOwn'
  BY <1>2, <1>3 DEF IInv, RequestTypeOK, CacheOwn
<1> QED
  BY <1>2, <1>4 DEF IInv

\* Steps of the load generator that the requests do not notice.
LEMMA UnseenKeeps ==
  ASSUME IInv, UNCHANGED <<call, gw, child, reply, log, meter, cache>>, Wrong \/ Fine
  PROVE  IInv'
<1>1. RequestTypeOK' /\ CacheOwn'
  BY DEF IInv, RequestTypeOK, CacheOwn, Wrong, Fine
<1>2. \A r \in Req : Sound(r)'
  BY SoundKept DEF IInv, Same
<1> QED
  BY <1>1, <1>2 DEF IInv

LEMMA NextInv == IInv /\ [Next]_vars => IInv'
<1> SUFFICES ASSUME IInv, [Next]_vars
             PROVE  IInv'
  OBVIOUS
<1>1. ASSUME NEW r \in Req, Dispatch(r) \/ OtherClient(r)
      PROVE  IInv'
  BY <1>1, SentKeeps
<1>2. ASSUME NEW r \in Req, Response(r) \/ ClientError(r)
      PROVE  IInv'
  <2>1. UNCHANGED <<call, gw, child, reply, log, meter, cache>> /\ (Wrong \/ Fine)
    BY <1>2 DEF Response, ClientError, Fine
  <2> QED
    BY <2>1, UnseenKeeps
<1>3. ASSUME NEW r \in Req, GatewayStep(r) \/ UpstreamGone(r)
      PROVE  IInv'
  BY <1>3, LimitKeeps, LineageStartKeeps, EmbeddedKeeps, RetrievedKeeps, CompletedKeeps,
     FailedKeeps, WriteKeeps, LineageEndKeeps DEF GatewayStep
<1>4. ASSUME NEW r \in Req, ChildStep(r)
      PROVE  IInv'
  BY <1>4, ChildBeginKeeps, CacheGetKeeps, CacheSetKeeps, SearchKeeps, ModelKeeps DEF ChildStep
<1>5. CASE Deadline
  <2>1. UNCHANGED <<call, gw, child, reply, log, meter, cache>> /\ Fine
    BY <1>5 DEF Deadline, Fine
  <2> QED
    BY <2>1, UnseenKeeps
<1>6. CASE GatewayRestart
  BY <1>6, RestartKeeps
<1>7. CASE CacheExpire
  BY <1>7, ExpireKeeps
<1>8. CASE UNCHANGED vars
  <2>1. UNCHANGED <<call, gw, child, reply, log, meter, cache>> /\ Fine
    BY <1>8 DEF vars, Fine
  <2> QED
    BY <2>1, UnseenKeeps
<1> QED
  BY <1>1, <1>2, <1>3, <1>4, <1>5, <1>6, <1>7, <1>8 DEF Next

\* The inductive invariant: types, the cache, and of each request the places
\* of its handlers, its runs, its rows and its answers.
THEOREM RequestInvariance == Spec => []IInv
BY InitInv, NextInv, PTL DEF Spec

(* Every OpenLineage run starts once and ends at most once, and the run of *)
(* an answered chat has ended the way the answer says: the handlers of     *)
(* gateway, embedder and retriever report around every error.              *)
THEOREM RunsArePaired == Spec => []RunsPaired
<1>1. IInv => RunsPaired
  <2> SUFFICES ASSUME IInv, NEW r \in Req
               PROVE  /\ \A j \in Job : log[r][j] \in {<<>>, S, SC, SF}
                      /\ gw[r].stage = "end" =>
                           log[r].inference = IF gw[r].status = 200 /\ Chat(r) THEN SC
                                              ELSE IF log[r].inference = <<>> THEN <<>> ELSE SF
    BY DEF RunsPaired
  <2>1. \A j \in Job : log[r][j] \in {<<>>, S, SC, SF}
    BY Holds DEF Run
  <2>2. ASSUME gw[r].stage = "end"
        PROVE  log[r].inference = IF gw[r].status = 200 /\ Chat(r) THEN SC
                                  ELSE IF log[r].inference = <<>> THEN <<>> ELSE SF
    BY <2>2, Holds DEF Course
  <2> QED
    BY <2>1, <2>2
<1> QED
  BY <1>1, RequestInvariance, PTL

(* A chat is served only from sub-runs that completed, and it is metered   *)
(* and recorded at most once, and only on the way to an answer that serves *)
(* it: the writes follow the last upstream and swallow their own errors.   *)
THEOREM ServedHolds == Spec => []ServedIsWhole
<1>1. IInv => ServedIsWhole
  <2> SUFFICES ASSUME IInv, NEW r \in Req
               PROVE  /\ log[r].inference = SC => log[r].embed = SC /\ log[r].retrieve = SC
                      /\ meter[r].usage <= 1 /\ meter[r].record <= 1
                      /\ meter[r].usage + meter[r].record > 0 =>
                           \/ gw[r].stage \in {"record", "complete", "lost"}
                           \/ gw[r].status = 200
    BY DEF ServedIsWhole
  <2>1. log[r].inference = SC => log[r].embed = SC /\ log[r].retrieve = SC
    BY Holds DEF Callees, SubRuns, SubRun
  <2>2. meter[r].usage <= 1 /\ meter[r].record <= 1
    BY Holds DEF Metered
  <2>3. ASSUME meter[r].usage + meter[r].record > 0
        PROVE  gw[r].stage \in {"record", "complete", "lost"} \/ gw[r].status = 200
    <3>1. meter[r].usage > 0 \/ meter[r].record > 0
      BY <2>3, Holds
    <3> QED
      BY <3>1, Holds DEF Metered
  <2> QED
    BY <2>1, <2>2, <2>3
<1> QED
  BY <1>1, RequestInvariance, PTL

-----------------------------------------------------------------------------
(* The ranking.                                                            *)

LEMMA MinOfTwo ==
  ASSUME NEW a \in Nat, NEW b \in Nat
  PROVE  /\ Min({a, b}) \in {a, b}
         /\ Min({a, b}) <= a /\ Min({a, b}) <= b
<1>1. \E x \in {a, b} : \A y \in {a, b} : x <= y
  <2>1. CASE a <= b
    BY <2>1
  <2>2. CASE b <= a
    BY <2>2
  <2> QED
    BY <2>1, <2>2
<1>2. Min({a, b}) \in {a, b} /\ \A y \in {a, b} : Min({a, b}) <= y
  BY <1>1 DEF Min
<1> QED
  BY <1>2

\* A set in a sequence: each element once.
LEMMA SetInSequence ==
  ASSUME NEW R, IsFiniteSet(R)
  PROVE  /\ SetToSeq(R) \in [1 .. Cardinality(R) -> R]
         /\ IsInjective(SetToSeq(R))
         /\ \A x \in R : \E i \in 1 .. Cardinality(R) : SetToSeq(R)[i] = x
<1> DEFINE n == Cardinality(R)
<1>1. n \in Nat /\ ExistsBijection(1 .. n, R)
  BY FS_CardinalityType
<1>2. \E f \in [1 .. n -> R] : IsInjective(f)
  BY <1>1 DEF ExistsBijection, Bijection, Injection
<1>3. SetToSeq(R) \in [1 .. n -> R] /\ IsInjective(SetToSeq(R))
  BY <1>2 DEF SetToSeq
<1>4. SetToSeq(R) \in Injection(1 .. n, R)
  BY <1>3 DEF Injection
<1>5. IsFiniteSet(1 .. n) /\ Cardinality(1 .. n) = n
  BY <1>1, FS_Interval
<1>6. SetToSeq(R) \in Surjection(1 .. n, R)
  BY <1>4, <1>5, FS_Injection
<1> QED
  BY <1>3, <1>6 DEF Surjection

LEMMA OntoItself ==
  ASSUME NEW n \in Nat, NEW f \in [1 .. n -> 1 .. n], IsInjective(f)
  PROVE  \A i \in 1 .. n : \E j \in 1 .. n : f[j] = i
<1>1. f \in Injection(1 .. n, 1 .. n)
  BY DEF Injection
<1>2. IsFiniteSet(1 .. n)
  BY FS_Interval
<1>3. f \in Surjection(1 .. n, 1 .. n)
  BY <1>1, <1>2, FS_Injection
<1> QED
  BY <1>3 DEF Surjection

\* The row at each place of the sorted rows.
Order(rows) == [n \in DOMAIN rows |-> CHOOSE j \in DOMAIN rows : Place(rows, j) = n]

LEMMA UpTo ==
  ASSUME NEW n \in Nat
  PROVE  IsFiniteSet(1 .. n) /\ Cardinality(1 .. n) = n
<1>1. IsFiniteSet(1 .. n) /\ Cardinality(1 .. n) = IF 1 > n THEN 0 ELSE n - 1 + 1
  BY FS_Interval
<1> QED
  BY <1>1

\* The places are those of a sorted permutation of the rows.
LEMMA Sorted ==
  ASSUME NEW n \in Nat, NEW rows, DOMAIN rows = 1 .. n,
         \A i \in 1 .. n : rows[i].score \in Nat
  PROVE  /\ Order(rows) \in [1 .. n -> 1 .. n] /\ IsInjective(Order(rows))
         /\ \A i, j \in 1 .. n :
              i < j => rows[Order(rows)[i]].score >= rows[Order(rows)[j]].score
<1> DEFINE N == 1 .. n
           sc(i) == rows[i].score
           Above(j) == {i \in N : sc(i) > sc(j) \/ (sc(i) = sc(j) /\ i <= j)}
           place == [j \in N |-> Cardinality(Above(j))]
<1>1. IsFiniteSet(N) /\ Cardinality(N) = n
  BY UpTo
<1>2. \A j \in N : IsFiniteSet(Above(j)) /\ Cardinality(Above(j)) <= n /\ j \in Above(j)
  BY <1>1, FS_Subset
<1>3. \A j \in N : Cardinality(Above(j)) \in N
  <2> TAKE j \in N
  <2>1. Cardinality(Above(j)) \in Nat
    BY <1>2, FS_CardinalityType
  <2>2. Cardinality(Above(j)) # 0
    BY <1>2, FS_EmptySet
  <2> HIDE DEF Above
  <2> QED
    BY <1>2, <2>1, <2>2
<1>4. ASSUME NEW i \in N, NEW j \in N, i # j, i \in Above(j)
      PROVE  place[i] < place[j]
  <2>1. Above(i) \in SUBSET Above(j)
    <3> SUFFICES ASSUME NEW k \in Above(i)
                 PROVE  k \in Above(j)
      OBVIOUS
    <3>1. k \in N /\ (sc(k) > sc(i) \/ (sc(k) = sc(i) /\ k <= i))
      OBVIOUS
    <3>2. sc(i) > sc(j) \/ (sc(i) = sc(j) /\ i <= j)
      BY <1>4
    <3>3. sc(i) \in Nat /\ sc(j) \in Nat /\ sc(k) \in Nat
      BY <3>1
    <3>4. \A x, y, z \in Nat : \A a, b, c \in N :
            /\ x > y \/ (x = y /\ a <= b)
            /\ y > z \/ (y = z /\ b <= c)
            => x > z \/ (x = z /\ a <= c)
      OBVIOUS
    <3>5. sc(k) > sc(j) \/ (sc(k) = sc(j) /\ k <= j)
      BY <3>1, <3>2, <3>3, <3>4
    <3> QED
      BY <3>1, <3>5
  <2>2. j \in Above(j) /\ j \notin Above(i)
    <3>1. sc(i) > sc(j) \/ (sc(i) = sc(j) /\ i <= j)
      BY <1>4
    <3>2. sc(i) \in Nat /\ sc(j) \in Nat
      OBVIOUS
    <3>3. ~(sc(j) > sc(i) \/ (sc(j) = sc(i) /\ j <= i))
      BY <1>4, <3>1, <3>2
    <3> QED
      BY <1>2, <3>3
  <2>3. Cardinality(Above(i)) <= Cardinality(Above(j))
        /\ (Cardinality(Above(j)) = Cardinality(Above(i)) => Above(j) = Above(i))
    BY <1>2, <2>1, FS_Subset
  <2>4. Cardinality(Above(i)) \in Nat /\ Cardinality(Above(j)) \in Nat
    <3>1. N \subseteq Nat
      OBVIOUS
    <3> HIDE DEF N, Above
    <3> QED
      BY <1>3, <3>1, Zenon
  <2>5. Above(i) # Above(j)
    BY <2>2
  <2>6. place[i] = Cardinality(Above(i)) /\ place[j] = Cardinality(Above(j))
    OBVIOUS
  <2> HIDE DEF Above, place
  <2> QED
    BY <2>3, <2>4, <2>5, <2>6
<1>5. \A i, j \in N : i \in Above(j) \/ j \in Above(i)
  <2> TAKE i \in N, j \in N
  <2>1. sc(i) \in Nat /\ sc(j) \in Nat
    OBVIOUS
  <2> QED
    BY <2>1
<1>6. place \in [N -> N]
  BY <1>3
<1>7. ASSUME NEW i \in N, NEW j \in N, i # j
      PROVE  place[i] # place[j]
  <2>1. place[i] < place[j] \/ place[j] < place[i]
    <3> HIDE DEF N, Above, place
    <3> QED
      BY <1>4, <1>5, <1>7, Zenon
  <2>2. place[i] \in N /\ place[j] \in N
    <3> HIDE DEF N, place
    <3> QED
      BY <1>6
  <2> HIDE DEF Above, place
  <2> QED
    BY <2>1, <2>2
<1>8. IsInjective(place)
  <2> HIDE DEF Above, place
  <2> QED
    BY <1>6, <1>7 DEF IsInjective
<1> DEFINE p == Order(rows)
<1>9. \A i \in N : \E j \in N : place[j] = i
  <2> HIDE DEF Above, place
  <2> QED
    BY <1>6, <1>8, OntoItself
<1>10. \A j \in N : Place(rows, j) = place[j]
  BY DEF Place, Precedes
<1>11. p = [i \in N |-> CHOOSE j \in N : Place(rows, j) = i]
  BY DEF Order
<1>12. p \in [N -> N] /\ \A i \in N : place[p[i]] = i
  <2> HIDE DEF Above, place, p
  <2>1. \A i \in N : \E j \in N : Place(rows, j) = i
    BY <1>9, <1>10
  <2> HIDE DEF N
  <2>2. \A i \in N : p[i] \in N /\ Place(rows, p[i]) = i
    BY <1>11, <2>1
  <2>3. p \in [N -> N]
    BY <1>11, <2>2
  <2> QED
    BY <1>10, <2>2, <2>3, Zenon
<1> HIDE DEF p, place
<1>13. IsInjective(p)
  BY <1>12 DEF IsInjective
<1>14. ASSUME NEW i \in N, NEW j \in N, i < j
       PROVE  sc(p[i]) >= sc(p[j])
  <2>1. p[i] \in N /\ p[j] \in N /\ place[p[i]] = i /\ place[p[j]] = j
    BY <1>12
  <2>2. ASSUME sc(p[j]) > sc(p[i])
        PROVE  FALSE
    <3>1. p[j] \in Above(p[i]) /\ p[j] # p[i]
      BY <1>14, <2>1, <2>2
    <3>2. place[p[j]] < place[p[i]]
      BY <1>4, <2>1, <3>1
    <3> QED
      BY <1>14, <2>1, <3>2
  <2>3. sc(p[i]) \in Nat /\ sc(p[j]) \in Nat
    BY <2>1
  <2> QED
    BY <2>2, <2>3
<1> QED
  BY <1>12, <1>13, <1>14 DEF p

(* The ranking of the retriever is the TopK best chunks of the corpus, for *)
(* every corpus and in whatever order the store returns its rows, equal    *)
(* scores included.                                                        *)
THEOREM RankingIsBest == \A h \in Hashes : BestOf(Ranking(h), ScoreOf[h])
<1> SUFFICES ASSUME NEW h \in Hashes
             PROVE  BestOf(Ranking(h), ScoreOf[h])
  OBVIOUS
<1> DEFINE score == ScoreOf[h]
           D == DOMAIN score
           row(c) == [chunk |-> c, score |-> score[c]]
           R == {row(c) : c \in D}
           n == Cardinality(R)
           rows == SetToSeq(R)
<1>1. IsFiniteSet(D) /\ \A c \in D : score[c] \in Nat
  BY CorpusAssumption
<1>2. IsFiniteSet(R) /\ n = Cardinality(D)
  <2> DEFINE f == [c \in D |-> row(c)]
  <2>1. f \in [D -> R] /\ \A x \in R : \E c \in D : f[c] = x
    OBVIOUS
  <2>2. \A a, b \in D : f[a] = f[b] => a = b
    <3> TAKE a \in D, b \in D
    <3>1. f[a].chunk = a /\ f[b].chunk = b
      OBVIOUS
    <3> QED
      BY <3>1
  <2>3. f \in Bijection(D, R)
    <3>1. DOMAIN f = D
      OBVIOUS
    <3> HIDE DEF f, R
    <3> QED
      BY <2>1, <2>2, <3>1 DEF Bijection, Injection, Surjection, IsInjective
  <2> HIDE DEF f, R
  <2> QED
    BY <1>1, <2>3, FS_Bijection DEF ExistsBijection
<1>3. n \in Nat
  BY <1>2, FS_CardinalityType
<1>4. \A x \in R : x.chunk \in D /\ x.score = score[x.chunk] /\ x = row(x.chunk)
  OBVIOUS
<1>5. \A c \in D : row(c) \in R /\ row(c).chunk = c
  OBVIOUS
<1> HIDE DEF R
<1>6. /\ rows \in [1 .. n -> R] /\ IsInjective(rows)
      /\ \A x \in R : \E i \in 1 .. n : rows[i] = x
  BY <1>2, SetInSequence
<1>7. rows \in Seq(R) /\ Len(rows) = n
  <2>1. rows \in Seq(R)
    BY <1>3, <1>6
  <2> QED
    BY <1>3, <1>6, <2>1
<1> HIDE DEF rows, n
<1>8. \A i \in 1 .. n : rows[i].score \in Nat
  BY <1>1, <1>4, <1>6
<1> DEFINE order == Order(rows)
<1>9. /\ order \in [1 .. n -> 1 .. n] /\ IsInjective(order)
      /\ \A i, j \in 1 .. n : i < j => rows[order[i]].score >= rows[order[j]].score
  <2>1. DOMAIN rows = 1 .. n
    BY <1>6
  <2> HIDE DEF rows
  <2> QED
    BY <1>3, <1>8, <2>1, Sorted
<1> DEFINE m == Min({TopK, n})
<1>10. m \in Nat /\ m <= n /\ m \in {TopK, n}
  BY <1>3, MinOfTwo, RagAssumption
<1>11. Ranking(h) = [i \in 1 .. m |-> rows[order[i]]]
  <2>1. RowsFor[h] = rows
    BY DEF RowsFor, R, rows
  <2>2. Ranking(h) = [i \in 1 .. m |-> rows[CHOOSE j \in DOMAIN rows : Place(rows, j) = i]]
    <3>1. Ranking(h) = RankChunks(rows, TopK)
      BY <2>1 DEF Ranking
    <3> QED
      BY <1>7, <3>1 DEF RankChunks
  <2>3. \A i \in 1 .. m : order[i] = CHOOSE j \in DOMAIN rows : Place(rows, j) = i
    BY <1>3, <1>6, <1>10 DEF Order
  <2> QED
    BY <2>2, <2>3
<1> HIDE DEF order, m
<1> DEFINE taken == {Ranking(h)[i].chunk : i \in DOMAIN Ranking(h)}
<1>12. taken = {rows[order[i]].chunk : i \in 1 .. m}
  BY <1>11
<1>13. Cardinality(taken) = m
  <2> DEFINE f == [i \in 1 .. m |-> rows[order[i]].chunk]
  <2>1. f \in [1 .. m -> taken] /\ \A c \in taken : \E i \in 1 .. m : f[i] = c
    BY <1>12
  <2>2. \A i, j \in 1 .. m : f[i] = f[j] => i = j
    <3> TAKE i \in 1 .. m, j \in 1 .. m
    <3> HAVE f[i] = f[j]
    <3>1. i \in 1 .. n /\ j \in 1 .. n
      BY <1>3, <1>10
    <3>2. order[i] \in 1 .. n /\ order[j] \in 1 .. n
      BY <1>9, <3>1
    <3>3. rows[order[i]] \in R /\ rows[order[j]] \in R
      BY <1>6, <3>2
    <3>4. rows[order[i]] = rows[order[j]]
      BY <1>4, <3>3
    <3>5. order[i] = order[j]
      BY <1>6, <3>2, <3>4 DEF IsInjective
    <3> QED
      BY <1>9, <3>1, <3>5 DEF IsInjective
  <2>3. f \in Bijection(1 .. m, taken)
    <3>1. DOMAIN f = 1 .. m
      OBVIOUS
    <3> HIDE DEF f, taken
    <3> QED
      BY <2>1, <2>2, <3>1 DEF Bijection, Injection, Surjection, IsInjective
  <2> HIDE DEF f, taken
  <2> QED
    BY <1>10, <2>3, FS_CountingElements DEF ExistsBijection
<1>14. ASSUME NEW c \in taken, NEW d \in D \ taken
       PROVE  score[c] >= score[d]
  <2>1. PICK i \in 1 .. m : c = rows[order[i]].chunk
    BY <1>12
  <2>2. PICK x \in 1 .. n : rows[x] = row(d)
    BY <1>5, <1>6
  <2>3. PICK j \in 1 .. n : order[j] = x
    BY <1>3, <1>9, OntoItself
  <2>4. j \notin 1 .. m
    BY <1>5, <1>12, <2>2, <2>3
  <2>5. i \in 1 .. n /\ i < j
    BY <1>3, <1>10, <2>4
  <2>6. rows[order[i]].score >= rows[order[j]].score
    BY <1>9, <2>5
  <2>7. rows[order[i]] \in R
    BY <1>6, <1>9, <2>5
  <2>8. rows[order[i]].score = score[c] /\ c \in D /\ rows[order[j]].score = score[d]
    BY <1>4, <2>1, <2>2, <2>3, <2>7
  <2> QED
    BY <2>6, <2>8
<1> QED
  <2>1. m = Min({TopK, Cardinality(D)})
    BY <1>2 DEF m
  <2> QED
    BY <1>13, <1>14, <2>1 DEF BestOf

(* The embedding a request gets is the one of its own prompt, whoever put  *)
(* it in the cache, and the chunks are the TopK best for it: a cached      *)
(* entry is the embedding its key stands for, and the retriever ranks for  *)
(* the embedding it was sent.                                              *)
THEOREM AnswersAreOwn == Spec => []AnsweredFromOwn
<1>1. IInv => AnsweredFromOwn
  <2> SUFFICES ASSUME IInv, NEW r \in Req
               PROVE  /\ reply[r].vec # None => reply[r].vec = HashEmbedding(call[r].prompt)
                      /\ reply[r].refs # <<>> =>
                           BestOf(reply[r].refs, ScoreOf[HashOf[call[r].prompt]])
    BY DEF AnsweredFromOwn
  <2>1. reply[r].vec # None => reply[r].vec = HashEmbedding(call[r].prompt)
    BY Holds DEF Own, HashEmbedding
  <2>2. ASSUME reply[r].refs # <<>>
        PROVE  BestOf(reply[r].refs, ScoreOf[HashOf[call[r].prompt]])
    <3>1. call[r] # None /\ reply[r].refs = Ranking(HashOf[call[r].prompt])
      BY <2>2, Holds DEF Own
    <3>2. call[r] \in Call
      BY <3>1, Holds DEF RequestTypeOK
    <3>3. HashOf[call[r].prompt] \in Hashes
      BY <3>2 DEF Call, Hashes
    <3> QED
      BY <3>1, <3>3, RankingIsBest
  <2> QED
    BY <2>1, <2>2
<1> QED
  BY <1>1, RequestInvariance, PTL

-----------------------------------------------------------------------------
(* The books of the load run.                                              *)

With(b) == {r \in Req : outcome[r] = b}

\* The books agree with what the load generator knows of its requests.
Booked ==
  /\ \A b \in Bucket \cup {"waiting"} : IsFiniteSet(With(b))
  /\ inFlight = Cardinality(With("waiting")) /\ inFlight <= Concurrency
  /\ \A b \in Bucket : counts[b] = Cardinality(With(b))

Books == LoadTypeOK /\ Booked /\ \A r \in Req : Seen(r)

LEMMA GrowsByOne ==
  ASSUME NEW A, IsFiniteSet(A), NEW x, x \notin A
  PROVE  /\ IsFiniteSet(A \cup {x}) /\ Cardinality(A \cup {x}) = Cardinality(A) + 1
         /\ Cardinality(A) \in Nat
BY FS_AddElement, FS_CardinalityType

LEMMA ShrinksByOne ==
  ASSUME NEW A, IsFiniteSet(A), NEW x \in A
  PROVE  /\ IsFiniteSet(A \ {x}) /\ Cardinality(A \ {x}) = Cardinality(A) - 1
         /\ Cardinality(A \ {x}) \in Nat
BY FS_RemoveElement, FS_CardinalityType

\* A request keeps what it asks, and its answer.
LEMMA AnswerStays ==
  ASSUME RequestTypeOK, [Next]_vars, NEW r \in Req, call[r] # None
  PROVE  /\ call'[r] = call[r]
         /\ gw[r].stage = "end" => gw'[r] = gw[r]
<1>0. gw \in [Req -> [stage : Stage, status : Answered]] /\ call \in [Req -> Call \cup {None}]
  BY DEF RequestTypeOK
<1>1. ASSUME NEW q \in Req, Dispatch(q) \/ OtherClient(q)
      PROVE  call'[r] = call[r] /\ gw'[r] = gw[r]
  <2>1. PICK op \in Scenario \cup Other : Send(q, op)
    BY <1>1 DEF Dispatch, OtherClient
  <2>2. q # r
    BY <2>1 DEF Send
  <2>3. PICK p \in Prompt : call' = [call EXCEPT ![q] = [op |-> op, prompt |-> p]]
    BY <2>1 DEF Send
  <2>4. gw'[r] = gw[r]
    BY <1>0, <2>1, <2>2 DEF Send
  <2> QED
    BY <1>0, <2>2, <2>3, <2>4
<1>2. ASSUME NEW q \in Req, Response(q) \/ ClientError(q)
      PROVE  call'[r] = call[r] /\ gw'[r] = gw[r]
  BY <1>2 DEF Response, ClientError
<1>3. ASSUME NEW q \in Req, GatewayStep(q) \/ UpstreamGone(q)
      PROVE  /\ call' = call /\ gw[q].stage # "end"
             /\ q # r => gw'[r] = gw[r]
  <2>1. CASE Limit(q) \/ LineageStart(q)
    BY <1>0, <2>1 DEF Limit, LineageStart, At, Finish, Go, Ask, EmitRejects, rest
  <2>2. CASE Embedded(q) \/ Retrieved(q) \/ Completed(q)
    BY <1>0, <2>2 DEF Embedded, Retrieved, Completed, At, Ask, Finish, Go, rest
  <2>3. CASE UpstreamFailed(q) \/ UpstreamGone(q)
    BY <1>0, <2>3, Sets DEF UpstreamFailed, UpstreamGone, At, Throw, rest
  <2>4. CASE WriteUsage(q) \/ Record(q)
    BY <1>0, <2>4 DEF WriteUsage, Record, Write, WriteRejects, At, Go, rest
  <2>5. CASE LineageComplete(q) \/ LineageFail(q)
    BY <1>0, <2>5 DEF LineageComplete, LineageFail, EmitRejects, At, Finish, rest
  <2> QED
    BY <1>3, <2>1, <2>2, <2>3, <2>4, <2>5 DEF GatewayStep
<1>4. ASSUME NEW q \in Req, ChildStep(q)
      PROVE  call'[r] = call[r] /\ gw'[r] = gw[r]
  BY <1>4 DEF ChildStep, ChildBegin, CacheGet, CacheSet, Search, ModelBegin, ModelWake, rest
<1>5. CASE Deadline \/ CacheExpire \/ UNCHANGED vars
  BY <1>5 DEF Deadline, CacheExpire, vars
<1>6. CASE GatewayRestart
  BY <1>6 DEF GatewayRestart
<1> QED
  BY <1>1, <1>2, <1>3, <1>4, <1>5, <1>6 DEF Next

LEMMA Classified ==
  ASSUME NEW status \in Answered
  PROVE  Classify(status) \in Bucket /\ (Classify(status) = "ok" => status = 200)
BY DEF Answered, Classify, Bucket

\* The books of a request move from one page to another.
LEMMA SettleKeeps ==
  ASSUME LoadTypeOK, Booked, NEW r \in Req, outcome[r] = "waiting", NEW b \in Bucket, Settle(r, b),
         phase' = phase
  PROVE  /\ LoadTypeOK' /\ Booked'
         /\ outcome'[r] = b /\ \A q \in Req \ {r} : outcome'[q] = outcome[q]
<1>1. /\ outcome \in [Req -> Bucket \cup {"unsent", "waiting"}]
      /\ counts \in [Bucket -> Nat] /\ inFlight \in Nat
      /\ counts' = [counts EXCEPT ![b] = @ + 1]
      /\ inFlight' = inFlight - 1
      /\ outcome' = [outcome EXCEPT ![r] = b]
  BY DEF LoadTypeOK, Settle
<1>2. outcome'[r] = b /\ \A q \in Req \ {r} : outcome'[q] = outcome[q]
  BY <1>1
<1>3. b # "waiting" /\ b # "unsent"
  BY DEF Bucket
<1>4. With("waiting")' = With("waiting") \ {r} /\ r \in With("waiting")
  BY <1>2, <1>3 DEF With
<1>5. With(b)' = With(b) \cup {r} /\ r \notin With(b)
  BY <1>2, <1>3 DEF With
<1>6. \A a \in Bucket \ {b} : With(a)' = With(a)
  <2> TAKE a \in Bucket \ {b}
  <2>1. a # "waiting"
    BY DEF Bucket
  <2> QED
    BY <1>2, <2>1 DEF With
<1>7. /\ IsFiniteSet(With("waiting")') /\ Cardinality(With("waiting")') = inFlight - 1
      /\ Cardinality(With("waiting")') \in Nat
  BY <1>4, ShrinksByOne DEF Booked
<1>8. /\ IsFiniteSet(With(b)') /\ Cardinality(With(b)') = counts[b] + 1
  BY <1>5, GrowsByOne DEF Booked
<1>9. inFlight' \in Nat /\ inFlight' = Cardinality(With("waiting")') /\ inFlight' <= Concurrency
  BY <1>1, <1>7, RagAssumption DEF Booked
<1>10. counts' \in [Bucket -> Nat]
  BY <1>1
<1>11. \A a \in Bucket : counts'[a] = Cardinality(With(a)') /\ IsFiniteSet(With(a)')
  <2> TAKE a \in Bucket
  <2>1. CASE a = b
    BY <1>1, <1>8, <2>1
  <2>2. CASE a # b
    BY <1>1, <1>6, <2>2 DEF Booked
  <2> QED
    BY <2>1, <2>2
<1>12. LoadTypeOK'
  BY <1>1, <1>9, <1>10 DEF LoadTypeOK
<1>13. Booked'
  BY <1>7, <1>9, <1>11 DEF Booked
<1> QED
  BY <1>2, <1>12, <1>13

LEMMA DispatchKeeps ==
  ASSUME LoadTypeOK, Booked, NEW r \in Req, outcome[r] = "unsent", Dispatch(r)
  PROVE  /\ LoadTypeOK' /\ Booked'
         /\ outcome'[r] = "waiting" /\ \A q \in Req \ {r} : outcome'[q] = outcome[q]
<1>1. /\ outcome \in [Req -> Bucket \cup {"unsent", "waiting"}]
      /\ counts \in [Bucket -> Nat] /\ inFlight \in Nat /\ inFlight < Concurrency
      /\ UNCHANGED <<counts, phase>>
      /\ inFlight' = inFlight + 1
      /\ outcome' = [outcome EXCEPT ![r] = "waiting"]
  BY DEF LoadTypeOK, Dispatch
<1>2. outcome'[r] = "waiting" /\ \A q \in Req \ {r} : outcome'[q] = outcome[q]
  BY <1>1
<1>3. With("waiting")' = With("waiting") \cup {r} /\ r \notin With("waiting")
  BY <1>2 DEF With
<1>4. \A a \in Bucket : With(a)' = With(a)
  <2> TAKE a \in Bucket
  <2>1. a # "waiting" /\ a # "unsent"
    BY DEF Bucket
  <2> QED
    BY <1>2, <2>1 DEF With
<1>5. IsFiniteSet(With("waiting")') /\ Cardinality(With("waiting")') = inFlight + 1
  BY <1>3, GrowsByOne DEF Booked
<1>6. LoadTypeOK'
  BY <1>1 DEF LoadTypeOK
<1>7. Booked'
  BY <1>1, <1>4, <1>5, RagAssumption DEF Booked
<1> QED
  BY <1>2, <1>6, <1>7

LEMMA BooksInit == Init => Books
<1> SUFFICES ASSUME Init
             PROVE  Books
  OBVIOUS
<1>1. LoadTypeOK
  BY DEF Init, LoadTypeOK
<1>2. \A b \in Bucket \cup {"waiting"} : With(b) = {}
  BY DEF Init, With, Bucket
<1>3. \A b \in Bucket \cup {"waiting"} : IsFiniteSet(With(b)) /\ Cardinality(With(b)) = 0
  BY <1>2, FS_EmptySet
<1>5. Booked
  BY <1>3, RagAssumption DEF Booked, Init
<1>4. \A r \in Req : Seen(r)
  BY DEF Init, Seen
<1> QED
  BY <1>1, <1>4, <1>5 DEF Books

LEMMA BooksNext == IInv /\ Books /\ [Next]_vars => Books'
<1> SUFFICES ASSUME IInv, Books, [Next]_vars
             PROVE  Books'
  OBVIOUS
<1>1. LoadTypeOK /\ Booked /\ \A r \in Req : Seen(r)
  BY DEF Books
<1>2. ASSUME NEW r \in Req, outcome'[r] = outcome[r]
      PROVE  Seen(r)'
  <2>1. CASE outcome[r] = "unsent"
    BY <1>2, <2>1 DEF Seen
  <2>2. CASE outcome[r] # "unsent"
    <3>1. call[r] # None /\ call[r].op \in Scenario
      BY <1>1, <2>2 DEF Seen
    <3>2. call'[r] = call[r] /\ (gw[r].stage = "end" => gw'[r] = gw[r])
      BY <3>1, AnswerStays DEF IInv
    <3> QED
      BY <1>1, <1>2, <3>1, <3>2 DEF Seen
  <2> QED
    BY <2>1, <2>2
<1>3. ASSUME UNCHANGED <<outcome, counts, inFlight>>, phase' \in {"driving", "draining"}
      PROVE  Books'
  <2>1. LoadTypeOK'
    BY <1>1, <1>3 DEF LoadTypeOK
  <2>2. Booked'
    BY <1>1, <1>3 DEF Booked, With
  <2>3. \A r \in Req : Seen(r)'
    BY <1>2, <1>3
  <2> QED
    BY <2>1, <2>2, <2>3 DEF Books
<1>4. phase \in {"driving", "draining"}
  BY <1>1 DEF LoadTypeOK
<1>5. ASSUME NEW r \in Req, Dispatch(r)
      PROVE  Books'
  <2>1. PICK op \in Scenario : Send(r, op)
    BY <1>5 DEF Dispatch
  <2>2. call[r] = None /\ outcome[r] = "unsent"
    BY <1>1, <2>1 DEF Send, Seen
  <2>3. /\ LoadTypeOK' /\ Booked'
        /\ outcome'[r] = "waiting" /\ \A q \in Req \ {r} : outcome'[q] = outcome[q]
    BY <1>1, <1>5, <2>2, DispatchKeeps
  <2>4. PICK p \in Prompt : call' = [call EXCEPT ![r] = [op |-> op, prompt |-> p]]
    BY <2>1 DEF Send
  <2>5. call'[r] = [op |-> op, prompt |-> p] /\ [op |-> op, prompt |-> p] \in Call
    BY <2>4 DEF IInv, RequestTypeOK, Call
  <2>6. Seen(r)'
    BY <2>3, <2>5, CorpusAssumption DEF Seen
  <2> QED
    BY <1>2, <2>3, <2>6 DEF Books
<1>6. ASSUME NEW r \in Req, Response(r) \/ ClientError(r)
      PROVE  Books'
  <2>1. /\ outcome[r] = "waiting" /\ UNCHANGED <<call, gw, phase>>
        /\ gw[r].status \in Answered
    BY <1>6, Holds DEF Response, ClientError
  <2>2. PICK b \in Bucket : /\ Settle(r, b)
                            /\ b = "ok" => gw[r].stage = "end" /\ gw[r].status = 200
    <3>1. CASE Response(r)
      BY <2>1, <3>1, Classified DEF Response
    <3>2. CASE ClientError(r)
      BY <3>2 DEF ClientError, Bucket
    <3> QED
      BY <1>6, <3>1, <3>2
  <2>3. /\ LoadTypeOK' /\ Booked'
        /\ outcome'[r] = b /\ \A q \in Req \ {r} : outcome'[q] = outcome[q]
    BY <1>1, <2>1, <2>2, SettleKeeps
  <2>4. Seen(r)'
    BY <1>1, <2>1, <2>2, <2>3 DEF Seen
  <2> QED
    BY <1>2, <2>3, <2>4 DEF Books
<1>7. ASSUME NEW r \in Req, OtherClient(r) \/ GatewayStep(r) \/ UpstreamGone(r)
      PROVE  Books'
  <2>1. UNCHANGED driver
    BY <1>7 DEF OtherClient, GatewayStep, UpstreamGone, Limit, LineageStart, Embedded, Retrieved,
       Completed, UpstreamFailed, WriteUsage, Record, Write, LineageComplete, LineageFail, rest
  <2> QED
    BY <1>3, <1>4, <2>1 DEF driver
<1>8. ASSUME NEW r \in Req, ChildStep(r)
      PROVE  Books'
  <2>1. UNCHANGED driver
    BY <1>8 DEF ChildStep, ChildBegin, CacheGet, CacheSet, Search, ModelBegin, ModelWake, rest
  <2> QED
    BY <1>3, <1>4, <2>1 DEF driver
<1>9. CASE Deadline
  BY <1>3, <1>9 DEF Deadline
<1>10. CASE GatewayRestart \/ CacheExpire \/ UNCHANGED vars
  BY <1>3, <1>4, <1>10 DEF GatewayRestart, CacheExpire, vars, driver
<1> QED
  BY <1>5, <1>6, <1>7, <1>8, <1>9, <1>10 DEF Next

THEOREM BooksInvariance == Spec => [](IInv /\ Books)
<1>1. Init => IInv /\ Books
  BY InitInv, BooksInit
<1>2. IInv /\ Books /\ [Next]_vars => (IInv /\ Books)'
  BY NextInv, BooksNext
<1> QED
  BY <1>1, <1>2, PTL DEF Spec

(* Every state has the declared shape.                                     *)
THEOREM TypeCorrect == Spec => []TypeOK
<1>1. IInv /\ Books => TypeOK
  BY DEF IInv, Books, TypeOK
<1> QED
  BY <1>1, BooksInvariance, PTL

(* The counters of the load run: nothing is counted twice or lost when a   *)
(* response races a timeout, the bound on concurrency holds, and an ok is  *)
(* a request whose run completed.                                          *)
THEOREM BooksBalance == Spec => []DriverBooks
<1>1. IInv /\ Books => DriverBooks
  <2> SUFFICES ASSUME IInv, Books
               PROVE  DriverBooks
    OBVIOUS
  <2>1. /\ inFlight = Cardinality({r \in Req : outcome[r] = "waiting"})
        /\ inFlight <= Concurrency
        /\ \A b \in Bucket : counts[b] = Cardinality({r \in Req : outcome[r] = b})
    BY DEF Books, Booked, With
  <2>2. ASSUME NEW r \in Req, outcome[r] = "ok"
        PROVE  log[r].inference = SC
    <3>1. gw[r].stage = "end" /\ gw[r].status = 200 /\ call[r].op \in Scenario
      BY <2>2 DEF Books, Seen
    <3>2. call[r].op # "embed"
      BY <3>1 DEF Scenario
    <3> QED
      BY <3>1, <3>2, Holds DEF Course
  <2> QED
    BY <2>1, <2>2 DEF DriverBooks
<1> QED
  BY <1>1, BooksInvariance, PTL

-----------------------------------------------------------------------------
(* The two limiters: what the bucket holds and what was taken from it.     *)

Ledger == BucketTypeOK /\ Budget

-----------------------------------------------------------------------------
(* Products of naturals, which the prover does not find alone.             *)
LEMMA ProductMonotone ==
  ASSUME NEW a \in Nat, NEW b \in Nat, NEW c \in Nat, a <= b
  PROVE  a * c <= b * c
OBVIOUS

LEMMA ProductSum ==
  ASSUME NEW a \in Nat, NEW b \in Nat, NEW c \in Nat
  PROVE  /\ a * c \in Nat
         /\ (a + b) * c = a * c + b * c
         /\ c * a = a * c
OBVIOUS

(* Rounding up loses nothing.                                              *)
LEMMA CeilingBounds ==
  ASSUME NEW a \in Nat, NEW b \in Nat \ {0}
  PROVE  /\ Ceiling(a, b) \in Nat
         /\ a <= Ceiling(a, b) * b
BY DEF Ceiling

(* What a request finds in the bucket is paid for by the time that passed, *)
(* and the time it sets the bucket back is on record.                      *)
LEMMA RefillIsPaid ==
  ASSUME Ledger, NEW now \in Times
  PROVE  /\ now \in Nat
         /\ now <= clock
         /\ Elapsed(now, ts) \in Nat
         /\ Refilled(now) \in Nat
         /\ Refilled(now) <= Capacity
         /\ Len(grants) * Unit + Refilled(now)
              <= Capacity + Refill * (now + (back + Elapsed(now, ts)))
<1> DEFINE e == Elapsed(ts, now)
           b == Elapsed(now, ts)
<1>1. now \in Nat /\ now <= clock
  BY DEF Times, Ledger, BucketTypeOK
<1>2. /\ e \in Nat
      /\ b \in Nat
      /\ now + (back + b) = (ts + back) + e
  BY <1>1 DEF Elapsed, Ledger, BucketTypeOK
<1> HIDE DEF e, b
<1>3. e * Refill \in Nat
  BY <1>2, ProductSum, BucketAssumption
<1>4. /\ Refilled(now) \in Nat
      /\ Refilled(now) <= Capacity
      /\ Refilled(now) <= tokens + e * Refill
  BY <1>3, BucketAssumption DEF Refilled, AtMost, e, Ledger, BucketTypeOK
<1>5. /\ Len(grants) * Unit \in Nat
      /\ Len(grants) * Unit + tokens <= Capacity + Refill * (ts + back)
  BY ProductSum, BucketAssumption DEF Ledger, BucketTypeOK, Budget
<1>6. /\ Refill * (now + (back + b)) = Refill * (ts + back) + e * Refill
      /\ Refill * (ts + back) \in Nat
  <2>1. (ts + back) \in Nat
    BY DEF Ledger, BucketTypeOK
  <2>2. /\ ((ts + back) + e) * Refill = (ts + back) * Refill + e * Refill
        /\ Refill * (ts + back) = (ts + back) * Refill
        /\ (ts + back) * Refill \in Nat
    BY <2>1, <1>2, ProductSum, BucketAssumption
  <2>3. Refill * ((ts + back) + e) = ((ts + back) + e) * Refill
    <3>1. ((ts + back) + e) \in Nat
      BY <2>1, <1>2
    <3> QED
      BY <3>1, ProductSum, BucketAssumption
  <2> QED
    BY <2>2, <2>3, <1>2
<1>7. Len(grants) * Unit + Refilled(now) <= Capacity + Refill * (now + (back + b))
  <2>1. tokens \in Nat
    BY DEF Ledger, BucketTypeOK
  <2>2. \A granted, found, held, gained, owed \in Nat :
          found <= held + gained /\ granted + held <= Capacity + owed
            => granted + found <= Capacity + (owed + gained)
    BY BucketAssumption
  <2> QED
    BY <1>3, <1>4, <1>5, <1>6, <2>1, <2>2
<1> QED
  BY <1>1, <1>2, <1>4, <1>7 DEF b

-----------------------------------------------------------------------------
(* The books of the bucket of memory-limiter.ts: the tokens taken and the  *)
(* ones left never exceed those it held at first and those that came in.   *)
THEOREM BucketBooks == BucketSpec => []Ledger
<1>1. BucketInit => Ledger
  <2> SUFFICES ASSUME BucketInit PROVE Ledger
    OBVIOUS
  <2>1. BucketTypeOK
    BY BucketAssumption DEF BucketInit, BucketTypeOK
  <2>2. Len(grants) * Unit = 0 /\ Refill * (ts + back) = 0
    BY BucketAssumption DEF BucketInit
  <2> QED
    BY <2>1, <2>2, BucketAssumption DEF BucketInit, Ledger, Budget, BucketTypeOK
<1>2. Ledger /\ [BucketNext]_bucketVars => Ledger'
  <2> SUFFICES ASSUME Ledger, [BucketNext]_bucketVars PROVE Ledger'
    OBVIOUS
  <2>1. CASE Tick
    BY <2>1 DEF Tick, Ledger, BucketTypeOK, Budget
  <2>2. ASSUME NEW now \in Times, TryConsume(now) PROVE Ledger'
    <3>1. /\ now \in Nat
          /\ now <= clock
          /\ Elapsed(now, ts) \in Nat
          /\ Refilled(now) \in Nat
          /\ Refilled(now) <= Capacity
          /\ Len(grants) * Unit + Refilled(now)
               <= Capacity + Refill * (now + (back + Elapsed(now, ts)))
      BY <2>2, RefillIsPaid
    <3>2. ts' = now /\ back' = back + Elapsed(now, ts) /\ clock' = clock
      BY <2>2 DEF TryConsume, Stamp
    <3>3. CASE Take(now)
      <4>1. /\ tokens' = Refilled(now) - Unit
            /\ Refilled(now) >= Unit
            /\ grants' = Append(grants, clock)
        BY <3>3 DEF Take
      <4>2. BucketTypeOK'
        <5>1. tokens' \in Nat
          BY <3>1, <4>1, BucketAssumption
        <5>2. grants' \in Seq(Nat)
          BY <4>1 DEF Ledger, BucketTypeOK
        <5>3. back' \in Nat
          BY <3>1, <3>2 DEF Ledger, BucketTypeOK
        <5> QED
          BY <3>1, <3>2, <5>1, <5>2, <5>3 DEF Ledger, BucketTypeOK
      <4>3. Len(grants') = Len(grants) + 1
        BY <4>1 DEF Ledger, BucketTypeOK
      <4>4. /\ Len(grants') * Unit = Len(grants) * Unit + Unit
            /\ Len(grants) * Unit \in Nat
        BY <4>3, BucketAssumption DEF Ledger, BucketTypeOK
      <4>5. Len(grants') * Unit + tokens' = Len(grants) * Unit + Refilled(now)
        BY <3>1, <4>1, <4>4, BucketAssumption
      <4>6. tokens' <= Capacity
        BY <3>1, <4>1, BucketAssumption
      <4> QED
        BY <3>1, <3>2, <4>2, <4>5, <4>6 DEF Ledger, Budget
    <3>4. CASE Refuse(now)
      <4>1. tokens' = Refilled(now) /\ grants' = grants
        BY <3>4 DEF Refuse
      <4>2. BucketTypeOK'
        BY <3>1, <3>2, <4>1 DEF Ledger, BucketTypeOK
      <4> QED
        BY <3>1, <3>2, <4>1, <4>2 DEF Ledger, Budget
    <3> QED
      BY <2>2, <3>3, <3>4 DEF TryConsume
  <2>3. CASE UNCHANGED bucketVars
    BY <2>3 DEF bucketVars, Ledger, BucketTypeOK, Budget
  <2> QED
    BY <2>1, <2>2, <2>3 DEF BucketNext
<1> QED
  BY <1>1, <1>2, PTL DEF BucketSpec

(* The bound of GrantsBounded follows from the books.                      *)
LEMMA BooksBound == Ledger => GrantsBounded
<1> SUFFICES ASSUME Ledger PROVE GrantsBounded
  OBVIOUS
<1>1. (ts + back) \in Nat /\ (clock + back) \in Nat /\ ts + back <= clock + back
  BY DEF Ledger, BucketTypeOK, Budget
<1>2. /\ (ts + back) * Refill <= (clock + back) * Refill
      /\ Refill * (ts + back) = (ts + back) * Refill
      /\ Refill * (clock + back) = (clock + back) * Refill
      /\ (ts + back) * Refill \in Nat /\ (clock + back) * Refill \in Nat
  BY <1>1, ProductMonotone, ProductSum, BucketAssumption
<1>3. Len(grants) * Unit \in Nat
  BY BucketAssumption DEF Ledger, BucketTypeOK
<1> QED
  BY <1>2, <1>3, BucketAssumption DEF Ledger, BucketTypeOK, Budget, GrantsBounded

-----------------------------------------------------------------------------
(* A time to live is a natural number of seconds, and a bucket that has    *)
(* waited for all of it but one is full.                                   *)
LEMMA TtlFills ==
  /\ Ttl \in Nat
  /\ \A e \in Nat : e + 1 >= Ttl => e * Refill >= Capacity
<1>1. Refill \in Nat \ {0}
  BY BucketAssumption, RedisAssumption
<1> DEFINE q == Ceiling(Capacity, Refill)
<1>2. q \in Nat /\ Capacity <= q * Refill /\ Ttl = q + 1
  BY <1>1, CeilingBounds, BucketAssumption, RedisAssumption DEF Ttl
<1> HIDE DEF q
<1>3. ASSUME NEW e \in Nat, e + 1 >= Ttl PROVE e * Refill >= Capacity
  <2>1. q <= e
    BY <1>2, <1>3
  <2>2. q * Refill <= e * Refill /\ q * Refill \in Nat /\ e * Refill \in Nat
    BY <2>1, <1>1, <1>2, ProductMonotone, ProductSum
  <2> QED
    BY <2>2, <1>2, BucketAssumption
<1> QED
  BY <1>2, <1>3

(* The script finds in the hash, present or expired, what the in-process   *)
(* bucket would hold.                                                      *)
LEMMA HeldIsRefilled ==
  ASSUME ExpiryInv, NEW now \in Times
  PROVE  Held(now) = Refilled(now)
<1>1. now \in Nat /\ now <= clock /\ now + 1 >= clock
  BY BucketAssumption, RedisAssumption DEF Times, ExpiryInv, BucketTypeOK
<1>2. CASE Present
  BY <1>2 DEF Held, Refilled, Stored, StoredAt
<1>3. CASE ~Present
  <2>1. Held(now) = Capacity
    <3>1. Elapsed(now, now) * Refill = 0
      BY <1>1, BucketAssumption DEF Elapsed
    <3> QED
      BY <1>3, <3>1, BucketAssumption DEF Held, Stored, StoredAt, AtMost
  <2>2. Elapsed(ts, now) \in Nat
    BY <1>1 DEF Elapsed, ExpiryInv, BucketTypeOK
  <2>3. Elapsed(ts, now) * Refill \in Nat
    BY <2>2, BucketAssumption
  <2>4. CASE expires = 0
    BY <2>1, <2>3, <2>4, BucketAssumption DEF Refilled, AtMost, ExpiryInv
  <2>5. CASE expires # 0
    <3>1. clock >= ts + Ttl
      BY <1>3, <2>5, TtlFills DEF Present, ExpiryInv, BucketTypeOK
    <3>2. Elapsed(ts, now) + 1 >= Ttl
      BY <1>1, <3>1, TtlFills DEF Elapsed, ExpiryInv, BucketTypeOK
    <3>3. Elapsed(ts, now) * Refill >= Capacity
      BY <2>2, <3>2, TtlFills
    <3> QED
      BY <2>1, <2>3, <3>3, BucketAssumption DEF Refilled, AtMost, ExpiryInv, BucketTypeOK
  <2> QED
    BY <2>4, <2>5
<1> QED
  BY <1>2, <1>3

LEMMA ExpiryInvariance == RedisSpec => []ExpiryInv
<1>1. RedisInit => ExpiryInv
  BY TtlFills, BucketAssumption DEF RedisInit, BucketInit, ExpiryInv, BucketTypeOK
<1>2. ExpiryInv /\ [RedisNext]_redisVars => ExpiryInv'
  <2> SUFFICES ASSUME ExpiryInv, [RedisNext]_redisVars PROVE ExpiryInv'
    OBVIOUS
  <2>1. CASE RedisTick
    BY <2>1 DEF RedisTick, Tick, ExpiryInv, BucketTypeOK, Ttl
  <2>2. ASSUME NEW now \in Times, Script(now) PROVE ExpiryInv'
    <3>1. now \in Nat /\ now <= clock
      BY DEF Times, ExpiryInv, BucketTypeOK
    <3>2. Elapsed(now, ts) \in Nat /\ Elapsed(ts, now) * Refill \in Nat
      BY <3>1, BucketAssumption DEF Elapsed, ExpiryInv, BucketTypeOK
    <3>3. /\ Held(now) \in Nat
          /\ Held(now) <= Capacity
      <4>1. Held(now) = Refilled(now)
        BY <2>2, HeldIsRefilled
      <4> QED
        BY <4>1, <3>2, BucketAssumption DEF Refilled, AtMost, ExpiryInv, BucketTypeOK
    <3>4. /\ ts' = now /\ back' = back + Elapsed(now, ts) /\ clock' = clock
          /\ expires' = clock + Ttl
      BY <2>2 DEF Script, Stamp
    <3>5. /\ tokens' \in Nat /\ tokens' <= Capacity
          /\ grants' \in Seq(Nat)
      <4>1. CASE Allow(now)
        BY <4>1, <3>3, BucketAssumption DEF Allow, ExpiryInv, BucketTypeOK
      <4>2. CASE Deny(now)
        BY <4>2, <3>3 DEF Deny, ExpiryInv, BucketTypeOK
      <4> QED
        BY <2>2, <4>1, <4>2 DEF Script
    <3>6. Ttl \in Nat \ {0}
      <4>1. Ceiling(Capacity, Refill) \in Nat
        BY CeilingBounds, BucketAssumption, RedisAssumption
      <4> QED
        BY <4>1, RedisAssumption DEF Ttl
    <3>7. Ttl' = Ttl
      BY DEF Ttl
    <3>8. BucketTypeOK'
      BY <3>1, <3>2, <3>4, <3>5 DEF ExpiryInv, BucketTypeOK
    <3> HIDE DEF Ttl
    <3> QED
      BY <3>1, <3>4, <3>5, <3>6, <3>7, <3>8 DEF ExpiryInv, BucketTypeOK
  <2>3. CASE UNCHANGED redisVars
    BY <2>3 DEF redisVars, bucketVars, ExpiryInv, BucketTypeOK, Ttl
  <2> QED
    BY <2>1, <2>2, <2>3 DEF RedisNext
<1> QED
  BY <1>1, <1>2, PTL DEF RedisSpec

(* The limiter in Redis gives the verdicts of the in-process one: "same    *)
(* semantics as the Redis Lua adapter" in memory-limiter.ts.               *)
THEOREM RedisImplements == RedisSpec => ImplementsBucket
<1>1. RedisInit => BucketInit
  BY DEF RedisInit
<1>2. ExpiryInv /\ [RedisNext]_redisVars => [BucketNext]_bucketVars
  <2> SUFFICES ASSUME ExpiryInv, [RedisNext]_redisVars PROVE [BucketNext]_bucketVars
    OBVIOUS
  <2>1. CASE RedisTick
    BY <2>1 DEF RedisTick, BucketNext
  <2>2. ASSUME NEW now \in Times, Script(now) PROVE BucketNext
    <3>1. Held(now) = Refilled(now)
      BY <2>2, HeldIsRefilled
    <3>2. TryConsume(now)
      BY <2>2, <3>1 DEF Script, Allow, Deny, TryConsume, Take, Refuse
    <3> QED
      BY <2>2, <3>2 DEF BucketNext
  <2>3. CASE UNCHANGED redisVars
    BY <2>3 DEF redisVars
  <2> QED
    BY <2>1, <2>2, <2>3 DEF RedisNext
<1> QED
  BY <1>1, <1>2, ExpiryInvariance, PTL DEF RedisSpec, ImplementsBucket, BucketSpec

(* No more tokens are taken from the bucket in Redis than it held and than *)
(* came in, whatever replicas ask in which order.                          *)
THEOREM RedisBounded == RedisSpec => []GrantsBounded
<1>1. RedisSpec => []Ledger
  BY RedisImplements, BucketBooks, PTL DEF ImplementsBucket
<1> QED
  BY <1>1, BooksBound, PTL

=============================================================================

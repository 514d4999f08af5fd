------------------------------ MODULE RunStream ------------------------------
(***************************************************************************)
(* The live stream of one agent run in agent-service: RunHub.publish and   *)
(* subscribe (hub.py), the life cycle of a turn (context.py begin, end and *)
(* fail under app.py _guard_run), and the requests that start or follow a  *)
(* turn (POST /chat, GET /runs/{id}/stream).  The hub keeps the runs apart *)
(* by id, so one run stands for all.                                       *)
(*                                                                         *)
(* One action per await, and the commit of a status is a step of its own:  *)
(* another coroutine can read the row before the one that wrote it goes    *)
(* on.  An undecided approval counts as running: neither is resumable.     *)
(***************************************************************************)
EXTENDS Naturals, Sequences, SequencesExt

CONSTANTS
  Turn,       \* the agent tasks of this run, one per accepted POST /chat
  Reader,     \* HTTP requests that stream the run
  State,      \* RunState objects the hub may create for the run
  MaxTokens,  \* bound: tokens of a turn
  MaxFaults,  \* bound: database errors and restarts
  None

ASSUME BoundsAssumption ==
  /\ MaxTokens \in Nat
  /\ MaxFaults \in Nat
  /\ None \notin Turn \cup State

VARIABLES
  status,   \* agent_runs.status of the run
  current,  \* hub._runs[run_id]
  made,     \* the RunState objects that exist
  buffer,   \* RunState.buffer
  turn,     \* the tasks
  reader,   \* the streaming responses
  faults

vars == <<status, current, made, buffer, turn, reader, faults>>

-----------------------------------------------------------------------------
Event == [type : {"run", "token", "error", "done"}, turn : Turn, n : 0 .. MaxTokens]

Terminal(e) == e.type \in {"done", "error"}

RunRow == {"absent", "queued", "running", "completed", "failed"}

\* app.RESUMABLE_STATUSES
Resumable == {"completed", "failed"}

TurnState ==
  [pc : {"none", "begin", "starting", "announce", "work", "ending", "farewell", "over"},
   tokens : 0 .. MaxTokens, outcome : {"completed", "failed"},
   handler : {"agent", "stopped", "crashed"}]

NotStarted == [pc |-> "none", tokens |-> 0, outcome |-> "completed", handler |-> "agent"]

Over == [NotStarted EXCEPT !.pc = "over"]

ReaderState ==
  [pc : {"idle", "reading", "opening", "replay", "live", "closed", "gone"},
   seen : RunRow, state : State \cup {None},
   snapshot : Seq(Event), queue : Seq(Event), got : Seq(Event)]

Waiting == [pc |-> "idle", seen |-> "absent", state |-> None,
            snapshot |-> <<>>, queue |-> <<>>, got |-> <<>>]

\* a request that has no subscription
Unsubscribed(label, seen) == [Waiting EXCEPT !.pc = label, !.seen = seen]

Gone == Unsubscribed("gone", "absent")

Subscribed(c, s) == reader[c].pc \in {"replay", "live"} /\ reader[c].state = s

\* RunState.done
Done(s) == \E n \in DOMAIN buffer[s] : Terminal(buffer[s][n])

\* hub.ensure: the run's state object, a new one if there is none
Ensured == IF current = None THEN CHOOSE s \in State : s \notin made ELSE current

CanEnsure == current # None \/ made # State

Ensure ==
  /\ CanEnsure
  /\ current' = Ensured
  /\ made' = made \cup {Ensured}

Init ==
  /\ status = "absent"
  /\ current = None
  /\ made = {}
  /\ buffer = [s \in State |-> <<>>]
  /\ turn = [t \in Turn |-> NotStarted]
  /\ reader = [c \in Reader |-> Waiting]
  /\ faults = 0

-----------------------------------------------------------------------------
(* hub.publish: the buffer and every subscriber's queue, without an await. *)

\* Mutant: a subscriber is registered only once its replay is over.
PublishToLive(e) ==
  /\ Ensure
  /\ buffer' = [buffer EXCEPT ![Ensured] = Append(@, e)]
  /\ reader' = [c \in Reader |->
                  IF reader[c].pc = "live" /\ reader[c].state = Ensured
                  THEN [reader[c] EXCEPT !.queue = Append(@, e)] ELSE reader[c]]

Publish(e) ==
  /\ Ensure
  /\ buffer' = [buffer EXCEPT ![Ensured] = Append(@, e)]
  /\ reader' = [c \in Reader |->
                  IF Subscribed(c, Ensured)
                  THEN [reader[c] EXCEPT !.queue = Append(@, e)] ELSE reader[c]]

Ev(type, t, n) == [type |-> type, turn |-> t, n |-> n]

-----------------------------------------------------------------------------
(* The task of a turn.                                                     *)

Become(t, label) == turn' = [turn EXCEPT ![t].pc = label]

\* ctx.begin: create_run ... ON CONFLICT DO NOTHING
CreateRow(t) ==
  /\ turn[t].pc = "begin"
  /\ status' = IF status = "absent" THEN "queued" ELSE status
  /\ Become(t, "starting")
  /\ UNCHANGED <<current, made, buffer, reader, faults>>

SetRunning(t) ==
  /\ turn[t].pc = "starting"
  /\ status' = "running"
  /\ Become(t, "announce")
  /\ UNCHANGED <<current, made, buffer, reader, faults>>

Announce(t) ==
  /\ turn[t].pc = "announce"
  /\ Publish(Ev("run", t, 0))
  /\ Become(t, "work")
  /\ UNCHANGED <<status, faults>>

\* any event of the work: a token, a tool call, an artifact
EmitToken(t) ==
  /\ turn[t].pc = "work"
  /\ turn[t].tokens < MaxTokens
  /\ Publish(Ev("token", t, turn[t].tokens + 1))
  /\ turn' = [turn EXCEPT ![t].tokens = @ + 1]
  /\ UNCHANGED <<status, faults>>

\* the agent calls ctx.end("completed"), or AgentSessionError reaches _guard_run
Finish(t) ==
  /\ turn[t].pc = "work"
  /\ \E how \in {<<"completed", "agent">>, <<"failed", "stopped">>} :
       turn' = [turn EXCEPT ![t] =
         [turn[t] EXCEPT !.pc = "ending", !.outcome = how[1], !.handler = how[2]]]
  /\ UNCHANGED <<status, current, made, buffer, reader, faults>>

\* ctx.fail: ev_error, then ctx.end("failed")
Fail(t) ==
  /\ Publish(Ev("error", t, 0))
  /\ turn' = [turn EXCEPT ![t] =
       [turn[t] EXCEPT !.pc = "ending", !.outcome = "failed", !.handler = "crashed"]]

Crash(t) ==
  /\ turn[t].pc = "work"
  /\ Fail(t)
  /\ UNCHANGED <<status, faults>>

\* Mutant: ctx.end does not write the row.
SetEndedSkipped(t) ==
  /\ turn[t].pc = "ending"
  /\ Become(t, "farewell")
  /\ UNCHANGED <<status, current, made, buffer, reader, faults>>

\* ctx.end: set_status, which updates nothing when create_run failed,
SetEnded(t) ==
  /\ turn[t].pc = "ending"
  /\ status' = IF status = "absent" THEN "absent" ELSE turn[t].outcome
  /\ Become(t, "farewell")
  /\ UNCHANGED <<current, made, buffer, reader, faults>>

\* Mutant: only a completed turn says so.
FarewellIfCompleted(t) ==
  /\ turn[t].pc = "farewell"
  /\ IF turn[t].outcome = "completed" THEN Publish(Ev("done", t, 0))
     ELSE UNCHANGED <<current, made, buffer, reader>>
  /\ turn' = [turn EXCEPT ![t] = Over]
  /\ UNCHANGED <<status, faults>>

\* then ev_done
Farewell(t) ==
  /\ turn[t].pc = "farewell"
  /\ Publish(Ev("done", t, 0))
  /\ turn' = [turn EXCEPT ![t] = Over]
  /\ UNCHANGED <<status, faults>>

\* A database error in the agent reaches _guard_run's last handler; one in a
\* handler of _guard_run ends the task.
DatabaseFails(t) ==
  /\ faults < MaxFaults
  /\ faults' = faults + 1
  /\ \/ /\ \/ turn[t].pc \in {"begin", "starting"}
           \/ turn[t].pc = "ending" /\ turn[t].handler = "agent"
        /\ Fail(t)
     \/ /\ turn[t].pc = "ending" /\ turn[t].handler # "agent"
        /\ turn' = [turn EXCEPT ![t] = Over]
        /\ UNCHANGED <<current, made, buffer, reader>>
  /\ UNCHANGED status

TurnStep(t) ==
  \/ CreateRow(t) \/ SetRunning(t) \/ Announce(t) \/ Finish(t) \/ SetEnded(t)
  \/ Farewell(t)

-----------------------------------------------------------------------------
(* The requests.                                                           *)

\* requests and turns are named in the order they come
NextReader == CHOOSE c \in Reader : reader[c].pc = "idle"

NextTurn == CHOOSE t \in Turn : turn[t].pc = "none"

\* POST /chat without a run id: new_run, the task, the streaming response
ChatNew(c, t) ==
  /\ reader[c].pc = "idle" /\ c = NextReader /\ t = NextTurn
  /\ \A u \in Turn : turn[u].pc = "none"
  /\ turn' = [turn EXCEPT ![t] = [NotStarted EXCEPT !.pc = "begin"]]
  /\ reader' = [reader EXCEPT ![c] = Unsubscribed("opening", "absent")]
  /\ UNCHANGED <<status, current, made, buffer, faults>>

\* POST /chat with the run's id: get_run reads the row, and then the messages,
ChatRead(c) ==
  /\ reader[c].pc = "idle" /\ c = NextReader
  /\ status # "absent"
  /\ reader' = [reader EXCEPT ![c] = Unsubscribed("reading", status)]
  /\ UNCHANGED <<status, current, made, buffer, turn, faults>>

\* 409 unless the row was settled,
ChatRefused(c) ==
  /\ reader[c].pc = "reading"
  /\ reader[c].seen \notin Resumable
  /\ reader' = [reader EXCEPT ![c] = Gone]
  /\ UNCHANGED <<status, current, made, buffer, turn, faults>>

\* else hub.cleanup and the next turn
ChatFollowUp(c, t) ==
  /\ reader[c].pc = "reading"
  /\ reader[c].seen \in Resumable
  /\ turn[t].pc = "none" /\ t = NextTurn
  /\ current' = None
  /\ turn' = [turn EXCEPT ![t] = [NotStarted EXCEPT !.pc = "begin"]]
  /\ reader' = [reader EXCEPT ![c] = Unsubscribed("opening", "absent")]
  /\ UNCHANGED <<status, made, buffer, faults>>

\* GET /runs/{id}/stream, of an id some task has announced
Follow(c) ==
  /\ reader[c].pc = "idle" /\ c = NextReader
  /\ \E t \in Turn : turn[t].pc # "none"
  /\ reader' = [reader EXCEPT ![c] = Unsubscribed("opening", "absent")]
  /\ UNCHANGED <<status, current, made, buffer, turn, faults>>

\* subscribe up to its first yield
Subscribe(c) ==
  /\ reader[c].pc = "opening"
  /\ Ensure
  /\ reader' = [reader EXCEPT ![c] =
       [reader[c] EXCEPT !.pc = "replay", !.state = Ensured, !.snapshot = buffer[Ensured]]]
  /\ UNCHANGED <<status, buffer, turn, faults>>

Yielded(c, e, label) ==
  [reader[c] EXCEPT !.got = Append(@, e), !.pc = IF Terminal(e) THEN "closed" ELSE label]

Replay(c) ==
  /\ reader[c].pc = "replay"
  /\ reader[c].snapshot # <<>>
  /\ reader' = [reader EXCEPT ![c] =
       [Yielded(c, Head(reader[c].snapshot), "replay") EXCEPT !.snapshot = Tail(@)]]
  /\ UNCHANGED <<status, current, made, buffer, turn, faults>>

\* `if state.done: return`, whatever is in the queue
ReplayOver(c) ==
  /\ reader[c].pc = "replay"
  /\ reader[c].snapshot = <<>>
  /\ reader' = [reader EXCEPT ![c].pc = IF Done(reader[c].state) THEN "closed" ELSE "live"]
  /\ UNCHANGED <<status, current, made, buffer, turn, faults>>

Receive(c) ==
  /\ reader[c].pc = "live"
  /\ reader[c].queue # <<>>
  /\ reader' = [reader EXCEPT ![c] =
       [Yielded(c, Head(reader[c].queue), "live") EXCEPT !.queue = Tail(@)]]
  /\ UNCHANGED <<status, current, made, buffer, turn, faults>>

Disconnect(c) ==
  /\ reader[c].pc \in {"replay", "live"}
  /\ reader' = [reader EXCEPT ![c] = Gone]
  /\ UNCHANGED <<status, current, made, buffer, turn, faults>>

ReaderStep(c) == Subscribe(c) \/ Replay(c) \/ ReplayOver(c) \/ Receive(c)

\* The process dies: the hub, the tasks and the connections are gone, and
\* fail_orphaned_runs settles the row.
Restart ==
  /\ faults < MaxFaults
  /\ faults' = faults + 1
  /\ status' = IF status = "running" THEN "failed" ELSE status
  /\ current' = None
  /\ turn' = [t \in Turn |-> IF turn[t].pc = "none" THEN turn[t]
                             ELSE Over]
  /\ reader' = [c \in Reader |-> IF reader[c].pc \in {"idle", "closed"} THEN reader[c]
                                 ELSE Gone]
  /\ UNCHANGED <<made, buffer>>

Next ==
  \/ \E t \in Turn : TurnStep(t) \/ EmitToken(t) \/ Crash(t) \/ DatabaseFails(t)
  \/ \E c \in Reader, t \in Turn : ChatNew(c, t) \/ ChatFollowUp(c, t)
  \/ \E c \in Reader : ChatRead(c) \/ ChatRefused(c) \/ Follow(c)
                       \/ ReaderStep(c) \/ Disconnect(c)
  \/ Restart

Spec == Init /\ [][Next]_vars

-----------------------------------------------------------------------------
(* Safety.                                                                 *)

TypeOK ==
  /\ status \in RunRow
  /\ current \in made \cup {None}
  /\ made \subseteq State
  /\ buffer \in [State -> Seq(Event)]
  /\ turn \in [Turn -> TurnState]
  /\ reader \in [Reader -> ReaderState]
  /\ faults \in 0 .. MaxFaults

\* What a stream has delivered, has still to replay and has queued is, in this
\* order, the whole buffer: nothing is lost, repeated or reordered between the
\* snapshot and the live queue (hub.py publish and subscribe).
DeliveryAccounted ==
  \A c \in Reader :
    reader[c].pc \in {"replay", "live"} =>
      reader[c].got \o reader[c].snapshot \o reader[c].queue = buffer[reader[c].state]

\* A stream never delivers anything but a beginning of one state's buffer,
\* whatever was published and dropped before and after it ended.
DeliversPrefix ==
  \A c \in Reader : reader[c].state # None =>
    IsPrefix(reader[c].got, buffer[reader[c].state])

\* A client told `done` never finds the run queued or running, unless another
\* turn has begun: ctx.end writes the row before it publishes.
SettledFor(t) ==
  \/ status \notin {"queued", "running"}
  \/ \E u \in Turn : u # t /\ turn[u].pc \notin {"none", "begin", "starting"}

Told ==
  {t \in Turn : \E s \in State : \E n \in DOMAIN buffer[s] :
     buffer[s][n].type = "done" /\ buffer[s][n].turn = t}

DoneIsRecorded == \A t \in Told : SettledFor(t)

\* What makes these invariants inductive: what every stream holds,
StreamsSound ==
  \A c \in Reader :
    /\ reader[c].pc \in {"replay", "live"} => reader[c].state # None
    /\ reader[c].pc = "live" => reader[c].snapshot = <<>>
    /\ reader[c].pc \notin {"replay", "live", "closed"} =>
         reader[c].state = None /\ reader[c].got = <<>> /\ reader[c].queue = <<>>

\* that a turn says goodbye last and on a settled row,
FarewellsLast ==
  /\ \A t \in Told : turn[t].pc = "over"
  /\ \A t \in Turn : turn[t].pc = "farewell" => SettledFor(t)

\* and that there is one turn at most, and no follow-up, before there is a row.
FirstTurnAlone ==
  status = "absent" =>
    /\ \A t \in Turn : turn[t].pc \notin {"starting", "announce", "work"}
    /\ \A t, u \in Turn : turn[t].pc # "none" /\ turn[u].pc # "none" => t = u
    /\ \A c \in Reader : reader[c].pc # "reading"

StreamInv ==
  /\ TypeOK /\ StreamsSound /\ FarewellsLast /\ FirstTurnAlone
  /\ DeliveryAccounted /\ DeliversPrefix /\ DoneIsRecorded

\* Every stream that ends by itself has delivered the terminal event and all
\* before it: "every event is delivered exactly once per subscriber" (hub.py:45).
DeliveredExactlyOnce ==
  \A c \in Reader : reader[c].pc = "closed" =>
    reader[c].got # <<>> /\ Terminal(Last(reader[c].got))

-----------------------------------------------------------------------------
(* Liveness.  The event loop runs the tasks and the responses that are     *)
(* ready, and a session ends (max_turns); no request need ever come.       *)

Fairness ==
  /\ \A t \in Turn : WF_vars(TurnStep(t))
  /\ \A c \in Reader : WF_vars(ReaderStep(c))

FairSpec == Spec /\ Fairness

Streaming(c) == reader[c].pc \in {"opening", "replay", "live"}

\* A crashed or stopped agent leaves no stream hanging: every stream of a run
\* ends (app.py _guard_run).
StreamsEnd ==
  \A c \in Reader :
    Streaming(c) ~> (~Streaming(c) \/ faults > 0 \/ reader[c].state # current)

=============================================================================

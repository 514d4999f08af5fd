------------------------------- MODULE AgentChat -------------------------------
(***************************************************************************)
(* The chat surface of the console, routes/agents/index.tsx: one tab, one  *)
(* multi-turn run.  The pane builds its transcript from the events of      *)
(* POST /api/agents/chat (lib/sse.ts, routes/api/agents/chat.ts); the page *)
(* reads the runs again every 2.5 s, and a selected run that appears or    *)
(* disappears in that read remounts the pane from what is persisted.       *)
(*                                                                         *)
(* The turn is agent-service's (agents/base.py, context.py), external:     *)
(* narration is streamed as it comes and persisted at the next tool call   *)
(* or at the end.  Stamps are milliseconds, and the clock moves on when    *)
(* the model speaks, or a turn begins or stops early.  The reader of a     *)
(* pane that is gone is left out, and with it the artifact panel it can    *)
(* still open.                                                             *)
(***************************************************************************)
EXTENDS RunFeed

CONSTANTS
  Tool,        \* tool calls
  Artifact,    \* artifacts
  None

VARIABLES
  run,      \* the persisted run
  session,  \* the task of the turn
  wire,     \* the response the pane reads
  resume,   \* what ?run= selects, and the status the loader last returned
  pane      \* AgentChat's state

chatVars == <<run, session, wire, resume, pane>>

-----------------------------------------------------------------------------
(* The persisted run and the turn that writes it.                          *)

IN_FLIGHT_STATUSES == {"queued", "running", "awaiting_approval"}

RESUMABLE_STATUSES == {"completed", "failed", "denied"}

NoRun == [status |-> "absent", messages |-> <<>>, toolCalls |-> <<>>,
          approvals |-> <<>>, artifacts |-> <<>>]

NoSession == [pc |-> "off", clock |-> 0, segment |-> <<>>, pending |-> {}]

Says(role, content) == [role |-> role, content |-> content]

Message(role, content, at) == Part("message", "msg", Says(role, content), at)

Event(type, part) == [type |-> type, part |-> part]

Publish(event) ==
  wire' = IF wire.phase = "open" THEN [wire EXCEPT !.events = Append(@, event)] ELSE wire

Working == session.pc = "on"

Ids(parts) == {parts[n].id : n \in DOMAIN parts}

\* ctx.begin and the user's message
BeginTurn ==
  /\ session.pc = "begin"
  /\ session' = [session EXCEPT !.pc = "on", !.clock = @ + 1]
  /\ run' = [run EXCEPT !.status = "running",
               !.messages = Append(@, Message("user", <<>>, session.clock + 1))]
  /\ Publish(Event("run", None))
  /\ UNCHANGED <<resume, pane>>

\* a TextBlock; the model speaks once the results of its tools are in
Speak ==
  /\ Working
  /\ session.pending = {}
  /\ LET word == session.clock + 1
     IN /\ session' = [session EXCEPT !.clock = word, !.segment = Append(@, word)]
        /\ Publish(Event("token", word))
  /\ UNCHANGED <<run, resume, pane>>

\* flush_text: what was said since the last tool call becomes a message
Flushed ==
  IF session.segment = <<>> THEN run.messages
  ELSE Append(run.messages, Message("assistant", session.segment, session.clock))

ToolCall(t, status, at) == Part("tool", t, status, at)

\* upsert_tool_call
Resolved(calls, ended, status) ==
  [n \in DOMAIN calls |->
     IF calls[n].id \in ended THEN [calls[n] EXCEPT !.body = status] ELSE calls[n]]

\* a ToolUseBlock
StartTool(t) ==
  /\ Working
  /\ t \notin Ids(run.toolCalls)
  /\ run' = [run EXCEPT !.messages = Flushed,
                        !.toolCalls = Append(@, ToolCall(t, "pending", session.clock))]
  /\ session' = [session EXCEPT !.segment = <<>>, !.pending = @ \cup {t}]
  /\ Publish(Event("tool_call", ToolCall(t, "pending", 0)))
  /\ UNCHANGED <<resume, pane>>

\* a ToolResultBlock
FinishTool(t) ==
  /\ Working
  /\ t \in session.pending
  /\ run' = [run EXCEPT !.toolCalls = Resolved(@, {t}, "ok")]
  /\ session' = [session EXCEPT !.pending = @ \ {t}]
  /\ Publish(Event("tool_call", ToolCall(t, "ok", 0)))
  /\ UNCHANGED <<resume, pane>>

\* ctx.add_artifact, from inside a tool
SaveArtifact(a) ==
  /\ Working
  /\ session.pending # {}
  /\ a \notin Ids(run.artifacts)
  /\ run' = [run EXCEPT !.artifacts = Append(@, Part("artifact", a, None, session.clock))]
  /\ Publish(Event("artifact", Part("artifact", a, None, 0)))
  /\ UNCHANGED <<session, resume, pane>>

\* ctx.request_approval, from inside a tool
Ask(g) ==
  /\ Working
  /\ session.pending # {}
  /\ run' = [run EXCEPT !.status = "awaiting_approval",
                        !.approvals = Append(@, Part("approval", g, None, session.clock))]
  /\ session' = [session EXCEPT !.pc = "parked"]
  /\ Publish(Event("approval_required", Part("approval", g, None, 0)))
  /\ UNCHANGED <<resume, pane>>

\* the future of a parked request_approval is resolved
Unpark(decision) ==
  /\ session.pc = "parked"
  /\ session' = [session EXCEPT !.pc = "on"]
  /\ run' = IF decision = "approved" THEN [run EXCEPT !.status = "running"] ELSE run
  /\ UNCHANGED <<wire, resume, pane>>

\* the session is over, no tool is pending and the rest is flushed
FinishTurn ==
  /\ Working
  /\ session.pending = {}
  /\ run' = [run EXCEPT !.status = "completed", !.messages = Flushed]
  /\ session' = [session EXCEPT !.pc = "off", !.segment = <<>>]
  /\ Publish(Event("done", None))
  /\ UNCHANGED <<resume, pane>>

\* the session ended for another reason than an answer: the rest is flushed,
\* and the notice is one more token and one more message
StopEarly ==
  /\ Working
  /\ session.pending = {}
  /\ run' = [run EXCEPT !.messages =
               Append(Flushed, Message("assistant", <<0>>, session.clock + 1))]
  /\ session' = [session EXCEPT !.pc = "stopped", !.clock = @ + 1, !.segment = <<>>]
  /\ Publish(Event("token", 0))
  /\ pane' = IF session.segment = <<>> THEN pane ELSE [pane EXCEPT !.whole = FALSE]
  /\ UNCHANGED resume

\* _guard_run: AgentSessionError
EndStopped ==
  /\ session.pc = "stopped"
  /\ run' = [run EXCEPT !.status = "failed"]
  /\ session' = [session EXCEPT !.pc = "off"]
  /\ Publish(Event("done", None))
  /\ UNCHANGED <<resume, pane>>

\* ctx.fail: the segment is lost, pending tool calls stay pending
CrashTurn ==
  /\ Working
  /\ run' = [run EXCEPT !.status = "failed"]
  /\ session' = [session EXCEPT !.pc = "off", !.segment = <<>>, !.pending = {}]
  /\ Publish(Event("error", None))
  /\ UNCHANGED <<resume, pane>>

\* agent-service restarts: fail_orphaned_runs settles what was running
RestartService ==
  /\ session.pc # "off"
  /\ run' = IF run.status = "running"
            THEN [run EXCEPT !.status = "failed",
                    !.messages = Append(@, Message("assistant", <<0>>, session.clock + 1))]
            ELSE run
  /\ session' = [session EXCEPT !.pc = "off", !.clock = @ + 1,
                                !.segment = <<>>, !.pending = {}]
  /\ wire' = IF wire.phase = "open" THEN [wire EXCEPT !.phase = "broken"] ELSE wire
  /\ UNCHANGED <<resume, pane>>

-----------------------------------------------------------------------------
(* The POST and its response.                                              *)

NoWire == [phase |-> "idle", events |-> <<>>]

\* the response reaches the pane that asked, if it is still there
Opened(events) ==
  wire' = IF wire.phase = "posting" THEN [phase |-> "open", events |-> events] ELSE NoWire

\* the pane goes: nobody reads the response, a POST on its way still arrives
Dropped ==
  IF wire.phase \in {"posting", "unread"} THEN [NoWire EXCEPT !.phase = "unread"] ELSE NoWire

\* POST /chat: a new run, or a turn of one that has settled
AcceptChat ==
  /\ wire.phase \in {"posting", "unread"}
  /\ run.status \in RESUMABLE_STATUSES \cup {"absent"}
  /\ session' = [session EXCEPT !.pc = "begin"]
  /\ Opened(<<>>)
  /\ UNCHANGED <<run, resume, pane>>

\* 409, or no answer: the BFF makes one error frame of either
RefuseChat ==
  /\ wire.phase \in {"posting", "unread"}
  /\ Opened(<<Event("error", None)>>)
  /\ UNCHANGED <<run, session, resume, pane>>

BreakStream ==
  /\ wire.phase = "open"
  /\ wire' = [wire EXCEPT !.phase = "broken"]
  /\ UNCHANGED <<run, session, resume, pane>>

-----------------------------------------------------------------------------
(* The pane.                                                               *)

\* a mount: the transcript of the resumed run, or an empty one
Mounted(status) ==
  [mounted |-> TRUE, resumed |-> status # None, runId |-> status # None,
   parts |-> IF status = None THEN <<>> ELSE BuildRunFeed(run),
   busy |-> FALSE, sentHere |-> FALSE, approval |-> FALSE,
   whole |-> session.pc = "off" /\ wire.phase \notin {"posting", "unread"}]

Unmounted == [Mounted(None) EXCEPT !.mounted = FALSE]

Locked ==
  pane.mounted /\ ~pane.sentHere /\ resume.status \in IN_FLIGHT_STATUSES

LastIsAssistant(parts) == parts # <<>> /\ AssistantMessage(Last(parts))

AppendToken(parts, word) ==
  IF LastIsAssistant(parts)
  THEN [parts EXCEPT ![Len(parts)].body.content = Append(@, word)]
  ELSE Append(parts, Message("assistant", <<word>>, 0))

\* a tool call or an artifact replaces the part that has its id
Upsert(parts, part) ==
  IF \E n \in DOMAIN parts : parts[n].kind = part.kind /\ parts[n].id = part.id
  THEN [n \in DOMAIN parts |->
          IF parts[n].kind = part.kind /\ parts[n].id = part.id THEN part ELSE parts[n]]
  ELSE Append(parts, part)

Shown(parts, event) ==
  CASE event.type = "token" -> AppendToken(parts, event.part)
    [] event.type \in {"tool_call", "artifact"} -> Upsert(parts, event.part)
    [] event.type = "error" -> AppendToken(parts, 0)
    [] OTHER -> parts

\* send(), with a draft; a second run, and a second POST on its way, are
\* beyond the bounds
Send ==
  /\ pane.mounted /\ ~pane.busy /\ ~Locked
  /\ wire.phase = "idle"
  /\ pane.runId \/ run.status = "absent"
  /\ pane' = [pane EXCEPT !.busy = TRUE, !.sentHere = TRUE, !.approval = FALSE,
                !.parts = Append(@, Message("user", <<>>, 0))]
  /\ wire' = [phase |-> "posting", events |-> <<>>]
  /\ UNCHANGED <<run, session, resume>>

\* one event of readAgentStream; the response ends with done or error
Receive ==
  /\ wire.phase = "open" /\ wire.events # <<>>
  /\ LET event == Head(wire.events)
         over == event.type \in {"done", "error"}
     IN /\ pane' = [pane EXCEPT
                       !.parts = Shown(@, event),
                       !.runId = @ \/ event.type = "run",
                       !.approval = @ \/ event.type = "approval_required",
                       !.busy = ~over,
                       !.whole = @ /\ event.type # "error"]
        /\ wire' = IF over THEN NoWire ELSE [wire EXCEPT !.events = Tail(@)]
  /\ UNCHANGED <<run, session, resume>>

\* read() rejects: the finally block of send()
ReadFails ==
  /\ wire.phase = "broken"
  /\ wire' = NoWire
  /\ pane' = [pane EXCEPT !.busy = FALSE, !.whole = FALSE]
  /\ UNCHANGED <<run, session, resume>>

-----------------------------------------------------------------------------
(* The page.                                                               *)

Nothing == [selected |-> FALSE, status |-> None]

\* the pane is remounted when its key changes: it had a run, and has none
Render(status) ==
  IF pane.resumed = (status # None) THEN UNCHANGED <<pane, wire>>
  ELSE pane' = Mounted(status) /\ wire' = Dropped

\* Mutant: the poll refreshes the list of runs only.
LoadList(found) == pane.mounted /\ resume.selected /\ UNCHANGED chatVars

\* the loader, for the page's poll and for every other invalidation
Load(found) ==
  /\ pane.mounted /\ resume.selected
  /\ LET status == IF found /\ run.status # "absent" THEN run.status ELSE None
     IN resume' = [resume EXCEPT !.status = status] /\ Render(status)
  /\ UNCHANGED <<run, session>>

\* a session of the sidebar is opened
SelectRun ==
  /\ pane.mounted /\ ~resume.selected
  /\ run.status # "absent"
  /\ resume' = [selected |-> TRUE, status |-> run.status]
  /\ Render(run.status)
  /\ UNCHANGED <<run, session>>

\* "New chat", or a tab of the toolbar: an empty pane
NewChat ==
  /\ pane.mounted
  /\ resume' = Nothing
  /\ pane' = Mounted(None)
  /\ wire' = Dropped
  /\ UNCHANGED <<run, session>>

\* another route is opened, and the chat again
LeaveChat ==
  /\ pane.mounted
  /\ pane' = Unmounted
  /\ wire' = Dropped
  /\ resume' = Nothing
  /\ UNCHANGED <<run, session>>

EnterChat ==
  /\ ~pane.mounted
  /\ pane' = Mounted(None)
  /\ UNCHANGED <<run, session, wire, resume>>

ChatInit ==
  /\ run = NoRun
  /\ session = NoSession
  /\ wire = NoWire
  /\ resume = Nothing
  /\ pane = Mounted(None)

===============================================================================

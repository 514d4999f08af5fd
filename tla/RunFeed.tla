-------------------------------- MODULE RunFeed --------------------------------
(***************************************************************************)
(* The transcript of an agent run as the console renders it:               *)
(* apps/web/src/lib/run-feed.ts.  A part is a record with a kind, an id    *)
(* and the body the page shows; a persisted part also has the millisecond  *)
(* at which the agent service stamped it.                                  *)
(***************************************************************************)
EXTENDS Naturals, Sequences, FiniteSets, SequencesExt

Kind == {"message", "tool", "approval", "artifact"}

Part(kind, id, body, at) == [kind |-> kind, id |-> id, body |-> body, at |-> at]

UserMessage(part) == part.kind = "message" /\ part.body.role = "user"

AssistantMessage(part) == part.kind = "message" /\ part.body.role = "assistant"

\* Mutant: a tool call is taken to precede the narration that led to it.
KindRankSwapped == [message |-> 1, tool |-> 0, approval |-> 2, artifact |-> 3]

\* what was asked for first, within the same millisecond
KindRank == [message |-> 0, tool |-> 1, approval |-> 2, artifact |-> 3]

\* a part of the run is named by its list and its place there
Lists(run) == [message |-> run.messages, tool |-> run.toolCalls,
               approval |-> run.approvals, artifact |-> run.artifacts]

Entries(run) == UNION {{kind} \X DOMAIN Lists(run)[kind] : kind \in Kind}

Entry(run, e) == Lists(run)[e[1]][e[2]]

Before(run, d, e) ==
  LET a == Entry(run, d).at
      b == Entry(run, e).at
  IN \/ a < b
     \/ a = b /\ KindRank[d[1]] < KindRank[e[1]]
     \/ a = b /\ d[1] = e[1] /\ d[2] < e[2]

Position(run, e) == 1 + Cardinality({d \in Entries(run) : Before(run, d, e)})

\* the stable sort of the run's lists by timestamp, then by kind
BuildRunFeed(run) ==
  [n \in 1 .. Cardinality(Entries(run)) |->
     Entry(run, CHOOSE e \in Entries(run) : Position(run, e) = n)]

-----------------------------------------------------------------------------
(* The blocks of a feed: consecutive tool calls are folded into one, and   *)
(* the artifacts of a turn are held back until it ends.                    *)

ToolsBlock(calls) == [kind |-> "tools", calls |-> calls]

EndTurn(feed) == [blocks |-> feed.blocks \o feed.held, held |-> <<>>]

FoldTool(feed, part) ==
  LET last == Len(feed.blocks)
  IN IF last > 0 /\ feed.blocks[last].kind = "tools"
     THEN [feed EXCEPT !.blocks[last].calls = Append(@, part)]
     ELSE [feed EXCEPT !.blocks = Append(@, ToolsBlock(<<part>>))]

GroupPart(feed, part) ==
  IF part.kind = "artifact" THEN [feed EXCEPT !.held = Append(@, part)]
  ELSE IF part.kind = "tool" THEN FoldTool(feed, part)
  ELSE LET ended == IF UserMessage(part) THEN EndTurn(feed) ELSE feed
       IN [ended EXCEPT !.blocks = Append(@, part)]

\* what is there after the last of the parts, those of other kinds left out
Grouped(parts, kinds) ==
  LET feed[n \in 0 .. Len(parts)] ==
        IF n = 0 THEN [blocks |-> <<>>, held |-> <<>>]
        ELSE IF parts[n].kind \in kinds THEN GroupPart(feed[n - 1], parts[n])
        ELSE feed[n - 1]
  IN feed[Len(parts)]

GroupRunFeed(parts, kinds) == EndTurn(Grouped(parts, kinds)).blocks

===============================================================================

------------------------------ MODULE ChaosCycle ------------------------------
(***************************************************************************)
(* One cycle of load-generator's chaos scheduler (chaos/runner.ts,         *)
(* schedule.ts, admin.ts) and the control planes it drives over HTTP       *)
(* (/admin/chaos of model-proxy and retriever).                            *)
(*                                                                         *)
(* The scheduler fires a timer for every phase's beginning and end, sends  *)
(* the request and does not wait for it; when the load is over it clears   *)
(* the timers, resets every target and exits.  A request is handled within *)
(* MaxDelay of the clock, in any order with the others, or it is lost: the *)
(* scheduler only logs that.  A due timer fires before the clock goes on.  *)
(***************************************************************************)
EXTENDS Naturals, FiniteSets, Sequences

CONSTANTS
  Target,     \* CHAOS_TARGETS
  Knob,       \* the parameters a control plane can override
  Schedules,  \* the schedules that may be loaded
  MaxDelay,   \* the longest a request takes
  MaxLosses,  \* bound: requests that fail
  MaxClock,   \* bound: seconds of the cycle
  None

ASSUME CycleAssumption ==
  /\ {MaxDelay, MaxLosses, MaxClock} \subseteq Nat /\ None \notin Nat
  /\ \A s \in Schedules :
       /\ s.cooldown \in Nat
       /\ s.phases \in Seq([target : Target, start : Nat, duration : Nat \ {0},
                            params : SUBSET Knob])

VARIABLES
  schedule,
  pc,        \* runChaos: driving the load, resetting, gone
  clock,
  fired,     \* the timers that have fired
  net,       \* requests on their way
  unreset,   \* targets whose reset failed
  losses,
  override   \* per target and knob, the phase whose value is in effect, or None

vars == <<schedule, pc, clock, fired, net, unreset, losses, override>>

-----------------------------------------------------------------------------
(* schedule.ts                                                             *)

Phases == DOMAIN schedule.phases

On(p) == schedule.phases[p].target
Starts(p) == schedule.phases[p].start
Ends(p) == schedule.phases[p].start + schedule.phases[p].duration

\* totalDurationSeconds: the last end and the cooldown, at least a second
Elapsed ==
  /\ clock >= 1 /\ clock >= schedule.cooldown
  /\ \A p \in Phases : clock >= Ends(p) + schedule.cooldown

\* buildTimeline: by time, a clear before an apply, else as listed
Timer == [kind : {"apply", "clear"}, phase : Phases]

\* Mutant: a phase ends its duration after the cycle began.
AtFromStart(e) ==
  IF e.kind = "apply" THEN Starts(e.phase) ELSE schedule.phases[e.phase].duration

At(e) == IF e.kind = "apply" THEN Starts(e.phase) ELSE Ends(e.phase)

Precedes(e, f) ==
  \/ At(e) < At(f)
  \/ At(e) = At(f) /\ e.kind = "clear" /\ f.kind = "apply"
  \/ At(e) = At(f) /\ e.kind = f.kind /\ e.phase < f.phase

Due(e) == e \notin fired /\ At(e) <= clock

Healthy(t) == override[t] = [k \in Knob |-> None]

Init ==
  /\ schedule \in Schedules
  /\ pc = "load"
  /\ clock = 0
  /\ fired = {}
  /\ net = {}
  /\ unreset = {}
  /\ losses = 0
  /\ override = [t \in Target |-> [k \in Knob |-> None]]

-----------------------------------------------------------------------------
(* The scheduler.                                                          *)

Request(kind, t, p) == [kind |-> kind, target |-> t, phase |-> p, at |-> clock]

Fire(e) ==
  /\ pc = "load"
  /\ Due(e) /\ \A f \in Timer : Precedes(f, e) => f \in fired
  /\ fired' = fired \cup {e}
  /\ net' = net \cup {Request(e.kind, On(e.phase), e.phase)}
  /\ UNCHANGED <<schedule, pc, clock, unreset, losses, override>>

\* Mutant: only the targets of the phases that began are reset.
ResetBegun ==
  /\ pc = "load" /\ Elapsed
  /\ pc' = "reset"
  /\ net' = net \cup {Request("reset", On(e.phase), None) : e \in {f \in fired : f.kind = "clear"}}
  /\ UNCHANGED <<schedule, clock, fired, unreset, losses, override>>

\* the load has driven its time: finally { clearTimeout ...; await resetAll }
LoadEnds ==
  /\ pc = "load" /\ Elapsed
  /\ pc' = "reset"
  /\ net' = net \cup {Request("reset", t, None) : t \in Target}
  /\ UNCHANGED <<schedule, clock, fired, unreset, losses, override>>

\* the DELETEs are answered or failed: process.exit(0)
Exit ==
  /\ pc = "reset"
  /\ \A m \in net : m.kind # "reset"
  /\ pc' = "exit"
  /\ UNCHANGED <<schedule, clock, fired, net, unreset, losses, override>>

-----------------------------------------------------------------------------
(* The control planes, and the network.                                    *)

\* setFaultOverride, setChaos: { ...override, ...patch }
Merged(t, p) ==
  [k \in Knob |-> IF k \in schedule.phases[p].params THEN p ELSE override[t][k]]

\* Mutant: a clear removes the phase's own knobs only.
HandleOwn(m) ==
  /\ net' = net \ {m}
  /\ override' = [override EXCEPT ![m.target] =
       IF m.kind = "apply" THEN Merged(m.target, m.phase)
       ELSE [k \in Knob |-> IF override[m.target][k] = m.phase THEN None ELSE @[k]]]
  /\ UNCHANGED <<schedule, pc, clock, fired, unreset, losses>>

Handle(m) ==
  /\ net' = net \ {m}
  /\ override' = [override EXCEPT ![m.target] =
       IF m.kind = "apply" THEN Merged(m.target, m.phase) ELSE [k \in Knob |-> None]]
  /\ UNCHANGED <<schedule, pc, clock, fired, unreset, losses>>

Lose(m) ==
  /\ losses < MaxLosses
  /\ losses' = losses + 1
  /\ net' = net \ {m}
  /\ unreset' = IF m.kind = "reset" THEN unreset \cup {m.target} ELSE unreset
  /\ UNCHANGED <<schedule, pc, clock, fired, override>>

Tick ==
  /\ clock < MaxClock
  /\ pc = "load" => \A e \in Timer : ~Due(e)
  /\ \A m \in net : clock < m.at + MaxDelay
  /\ clock' = clock + 1
  /\ UNCHANGED <<schedule, pc, fired, net, unreset, losses, override>>

Next ==
  \/ \E e \in Timer : Fire(e)
  \/ LoadEnds \/ Exit \/ Tick
  \/ \E m \in net : Handle(m) \/ Lose(m)

Spec == Init /\ [][Next]_vars

-----------------------------------------------------------------------------
(* Safety.                                                                 *)

Message ==
  [kind : {"apply", "clear", "reset"}, target : Target, phase : Phases \cup {None},
   at : Nat]

TypeOK ==
  /\ schedule \in Schedules
  /\ pc \in {"load", "reset", "exit"}
  /\ clock \in Nat
  /\ fired \subseteq Timer
  /\ net \subseteq Message
  /\ unreset \subseteq Target
  /\ losses \in 0 .. MaxLosses
  /\ override \in [Target -> [Knob -> Phases \cup {None}]]

\* A request on its way is not older than MaxDelay, and an apply was sent when its
\* phase began; no timer is late.
Punctual ==
  /\ \A m \in net : m.at <= clock /\ clock <= m.at + MaxDelay
  /\ \A m \in net : m.kind = "apply" =>
       m.phase \in Phases /\ m.target = On(m.phase) /\ m.at = Starts(m.phase)
  /\ pc = "load" => \A e \in Timer : e \in fired \/ clock <= At(e)

\* Phases that last, with the cooldown, longer than a request takes.
Lasting(t) == \A p \in Phases : On(p) = t =>
  schedule.phases[p].duration + schedule.cooldown > MaxDelay

\* Once the load is over, a target has its reset on the way, or it failed, or the
\* target is healthy and stays so.
ResetCovers ==
  /\ pc = "exit" => \A m \in net : m.kind # "reset"
  /\ pc # "load" =>
       /\ Elapsed
       /\ \A t \in Target :
            \/ \E m \in net : m.kind = "reset" /\ m.target = t
            \/ t \in unreset
            \/ Lasting(t) => Healthy(t)

CycleInv == TypeOK /\ Punctual /\ ResetCovers

\* "Chaos reset in a `finally` so a service is never left degraded" (runner.ts:14-15):
\* when the cycle exits, every target whose reset arrived is healthy and no apply
\* still on its way will change that, if its phases outlast a request.
NothingLeft(t) ==
  Healthy(t) /\ ~\E m \in net : m.target = t /\ m.kind = "apply"

ResetLeavesHealthy ==
  pc = "exit" =>
    \A t \in Target \ unreset : Lasting(t) => NothingLeft(t)

\* A phase is in effect from its beginning to its end, but for the delay of its
\* request, unless another phase of its target is under way or a request was lost
\* (schedule.ts buildTimeline, admin.ts, state.ts).
Alone(p) ==
  \A q \in Phases \ {p} : On(q) = On(p) =>
    Ends(q) + MaxDelay < Starts(p) \/ Ends(p) <= Starts(q)

PhaseTakesHold ==
  losses = 0 =>
    \A p \in Phases :
      Alone(p) /\ Starts(p) + MaxDelay < clock /\ clock < Ends(p) =>
        \A k \in schedule.phases[p].params : override[On(p)][k] = p

\* Between its phases a target is healthy, whatever it went through, for the traffic
\* the SLIs recover with (schedule.ts cooldownSeconds).
Resting(t) ==
  \A p \in Phases : On(p) = t =>
    \/ clock < Starts(p)
    \/ Ends(p) + MaxDelay < clock /\ schedule.phases[p].duration > MaxDelay

RecoversAfterPhases ==
  losses = 0 => \A t \in Target : Resting(t) => Healthy(t)

=============================================================================

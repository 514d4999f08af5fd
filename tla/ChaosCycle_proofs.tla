--------------------------- MODULE ChaosCycle_proofs ---------------------------
(***************************************************************************)
(* Proofs about a chaos cycle, for every set of targets and knobs, every   *)
(* schedule, delay and number of lost requests: it resets what it degraded *)
(* (NeverLeftDegraded); a phase that nothing disturbs takes hold when it   *)
(* begins (PhaseHolds), and a target is healthy again once its phases are  *)
(* over (Recovery), since every request is sent on time and what is in     *)
(* force is either owed to a phase or about to be reset.                   *)
(***************************************************************************)
EXTENDS ChaosCycle, TLAPS

-----------------------------------------------------------------------------
(* Facts about the schedule that is loaded.                                *)

LEMMA ScheduleParts ==
  ASSUME TypeOK
  PROVE  /\ Phases \subseteq Nat
         /\ schedule.cooldown \in Nat
         /\ \A p \in Phases :
              /\ On(p) \in Target /\ Starts(p) \in Nat
              /\ schedule.phases[p].duration \in Nat
              /\ Ends(p) = Starts(p) + schedule.phases[p].duration
<1> DEFINE Phase == [target : Target, start : Nat, duration : Nat \ {0}, params : SUBSET Knob]
<1>1. schedule.cooldown \in Nat /\ schedule.phases \in Seq(Phase)
  BY CycleAssumption DEF TypeOK
<1> HIDE DEF Phase
<1>2. Phases \subseteq Nat /\ \A p \in Phases : schedule.phases[p] \in Phase
  BY <1>1 DEF Phases
<1> QED
  BY <1>1, <1>2 DEF Phase, On, Starts, Ends

LEMMA DelayIsNat == MaxDelay \in Nat /\ MaxLosses \in Nat /\ None \notin Nat
BY CycleAssumption

\* An apply still on its way belongs to a phase that does not outlast a request,
\* once the load is over.
LEMMA NoLateApply ==
  ASSUME TypeOK, Punctual, Elapsed, NEW t \in Target, Lasting(t),
         NEW m \in net, m.target = t
  PROVE  m.kind # "apply"
<1> SUFFICES ASSUME m.kind = "apply" PROVE FALSE
  OBVIOUS
<1>1. /\ m.phase \in Phases /\ On(m.phase) = t /\ m.at = Starts(m.phase)
      /\ clock <= m.at + MaxDelay
  BY DEF Punctual
<1>2. clock >= Ends(m.phase) + schedule.cooldown
  BY <1>1 DEF Elapsed
<1>3. schedule.phases[m.phase].duration + schedule.cooldown > MaxDelay
  BY <1>1 DEF Lasting
<1> QED
  BY <1>1, <1>2, <1>3, ScheduleParts, DelayIsNat DEF TypeOK

-----------------------------------------------------------------------------
(* The invariant.                                                          *)

\* What a step that leaves the schedule alone leaves alone.
LEMMA SameSchedule ==
  ASSUME schedule' = schedule
  PROVE  /\ Phases' = Phases /\ Timer' = Timer /\ Message' = Message
         /\ \A p : On(p)' = On(p) /\ Starts(p)' = Starts(p) /\ Ends(p)' = Ends(p)
         /\ \A e : At(e)' = At(e)
         /\ \A t : Lasting(t)' <=> Lasting(t)
BY DEF Phases, Timer, Message, On, Starts, Ends, At, Lasting

LEMMA InitCycle == Init => CycleInv
<1> SUFFICES ASSUME Init PROVE CycleInv
  OBVIOUS
<1>1. TypeOK
  BY DelayIsNat DEF Init, TypeOK
<1>2. \A e \in Timer : At(e) \in Nat
  <2> SUFFICES ASSUME NEW e \in Timer PROVE At(e) \in Nat
    OBVIOUS
  <2>1. e.phase \in Phases
    BY DEF Timer
  <2>2. Starts(e.phase) \in Nat /\ Ends(e.phase) \in Nat
    BY <1>1, <2>1, ScheduleParts
  <2> QED
    BY <2>2 DEF At
<1>3. Punctual
  BY <1>2 DEF Init, Punctual
<1> QED
  BY <1>1, <1>3 DEF Init, CycleInv, ResetCovers

LEMMA FireKeeps ==
  ASSUME CycleInv, NEW e \in Timer, Fire(e)
  PROVE  CycleInv'
<1> DEFINE m == Request(e.kind, On(e.phase), e.phase)
<1>1. TypeOK /\ Punctual /\ pc = "load" /\ schedule' = schedule /\ pc' = pc /\ clock' = clock
  BY DEF CycleInv, Fire
<1>2. e.phase \in Phases /\ e.kind \in {"apply", "clear"} /\ clock \in Nat
  BY <1>1 DEF Timer, TypeOK
<1>3. At(e) = clock
  <2>1. At(e) \in Nat
    BY <1>1, <1>2, ScheduleParts DEF At
  <2> QED
    BY <1>1, <1>2, <2>1 DEF Fire, Due, Punctual
<1>4. m \in Message /\ m.at = clock /\ m.kind = e.kind /\ m.phase = e.phase
      /\ m.target = On(e.phase)
  BY <1>1, <1>2, ScheduleParts DEF Request, Message
<1>5. net' = net \cup {m} /\ fired' = fired \cup {e}
  BY DEF Fire
<1> HIDE DEF m
<1>6. TypeOK'
  BY <1>1, <1>4, <1>5, SameSchedule DEF TypeOK, Fire
<1>7. Punctual'
  BY <1>1, <1>2, <1>3, <1>4, <1>5, SameSchedule, DelayIsNat DEF Punctual, At
<1> QED
  BY <1>1, <1>6, <1>7 DEF CycleInv, ResetCovers

LEMMA LoadEndsKeeps ==
  ASSUME CycleInv, LoadEnds
  PROVE  CycleInv'
<1>1. TypeOK /\ Punctual /\ schedule' = schedule /\ clock' = clock /\ clock \in Nat
  BY DEF CycleInv, LoadEnds, TypeOK
<1>2. \A t \in Target :
        LET m == Request("reset", t, None)
        IN  m \in Message /\ m.at = clock /\ m.kind = "reset" /\ m.target = t
  BY <1>1 DEF Request, Message
<1>3. net' = net \cup {Request("reset", t, None) : t \in Target} /\ pc' = "reset"
  BY DEF LoadEnds
<1>4. TypeOK'
  BY <1>1, <1>2, <1>3, SameSchedule DEF TypeOK, LoadEnds
<1>5. Punctual'
  BY <1>1, <1>2, <1>3, SameSchedule, DelayIsNat DEF Punctual
<1>6. Elapsed'
  BY <1>1, SameSchedule DEF LoadEnds, Elapsed
<1>7. ResetCovers'
  BY <1>2, <1>3, <1>6 DEF ResetCovers
<1> QED
  BY <1>4, <1>5, <1>7 DEF CycleInv

LEMMA ExitKeeps ==
  ASSUME CycleInv, Exit
  PROVE  CycleInv'
<1>1. /\ TypeOK /\ Punctual /\ ResetCovers /\ schedule' = schedule /\ clock' = clock
      /\ net' = net /\ unreset' = unreset /\ override' = override
  BY DEF CycleInv, Exit
<1>2. TypeOK'
  BY <1>1, SameSchedule DEF TypeOK, Exit
<1>3. Punctual'
  BY <1>1, SameSchedule DEF Punctual, Exit
<1>4. ResetCovers'
  BY <1>1, SameSchedule DEF ResetCovers, Exit, Elapsed, Healthy
<1> QED
  BY <1>2, <1>3, <1>4 DEF CycleInv

\* Fewer requests on their way, and the same clock, keep the times in order.
LEMMA FewerKeepsPunctual ==
  ASSUME TypeOK, Punctual, net' \subseteq net,
         UNCHANGED <<schedule, pc, clock, fired>>
  PROVE  Punctual'
BY SameSchedule DEF Punctual

LEMMA HandleKeeps ==
  ASSUME CycleInv, NEW m \in net, Handle(m)
  PROVE  CycleInv'
<1>1. /\ TypeOK /\ Punctual /\ ResetCovers /\ net' = net \ {m}
      /\ UNCHANGED <<schedule, pc, clock, fired, unreset, losses>>
  BY DEF CycleInv, Handle
<1> DEFINE new == IF m.kind = "apply" THEN Merged(m.target, m.phase) ELSE [k \in Knob |-> None]
<1>2. m \in Message /\ m.target \in Target /\ override' = [override EXCEPT ![m.target] = new]
  BY <1>1 DEF TypeOK, Message, Handle
<1>3. new \in [Knob -> Phases \cup {None}]
  <2>1. m.kind = "apply" => m.phase \in Phases
    BY <1>1 DEF Punctual
  <2> QED
    BY <1>1, <1>2, <2>1 DEF Merged, TypeOK
<1>4. m.kind # "apply" => new = [k \in Knob |-> None]
  OBVIOUS
<1> HIDE DEF new
<1>5. TypeOK'
  BY <1>1, <1>2, <1>3, SameSchedule DEF TypeOK
<1>6. Punctual'
  BY <1>1, FewerKeepsPunctual
<1>7. ASSUME pc # "load", NEW t \in Target
      PROVE  \/ \E n \in net' : n.kind = "reset" /\ n.target = t
             \/ t \in unreset'
             \/ Lasting(t)' => Healthy(t)'
  <2>1. Elapsed
    BY <1>1, <1>7 DEF ResetCovers
  <2>2. CASE m.target # t
    <3>1. Healthy(t)' <=> Healthy(t)
      BY <1>1, <1>2, <2>2 DEF Healthy, TypeOK
    <3>2. \/ \E n \in net : n.kind = "reset" /\ n.target = t
          \/ t \in unreset
          \/ Lasting(t) => Healthy(t)
      BY <1>1, <1>7 DEF ResetCovers
    <3> QED
      BY <1>1, <2>2, <3>1, <3>2, SameSchedule
  <2>3. CASE m.target = t
    <3>1. Lasting(t) => m.kind # "apply"
      BY <1>1, <2>1, <2>3, NoLateApply
    <3>2. m.kind # "apply" => Healthy(t)'
      BY <1>1, <1>2, <1>4, <2>3 DEF Healthy, TypeOK
    <3> QED
      BY <1>1, <3>1, <3>2, SameSchedule
  <2> QED
    BY <2>2, <2>3
<1>8. ResetCovers'
  <2>1. Elapsed' <=> Elapsed
    BY <1>1, SameSchedule DEF Elapsed
  <2> QED
    BY <1>1, <1>7, <2>1 DEF ResetCovers
<1> QED
  BY <1>5, <1>6, <1>8 DEF CycleInv

LEMMA LoseKeeps ==
  ASSUME CycleInv, NEW m \in net, Lose(m)
  PROVE  CycleInv'
<1>1. /\ TypeOK /\ Punctual /\ ResetCovers /\ net' = net \ {m}
      /\ UNCHANGED <<schedule, pc, clock, fired, override>>
      /\ unreset' = IF m.kind = "reset" THEN unreset \cup {m.target} ELSE unreset
  BY DEF CycleInv, Lose
<1>2. m.target \in Target
  BY <1>1 DEF TypeOK, Message
<1>3. TypeOK'
  BY <1>1, <1>2, SameSchedule, DelayIsNat DEF TypeOK, Lose
<1>4. Punctual'
  BY <1>1, FewerKeepsPunctual
<1>5. ResetCovers'
  BY <1>1, SameSchedule DEF ResetCovers, Elapsed, Healthy
<1> QED
  BY <1>3, <1>4, <1>5 DEF CycleInv

LEMMA TickKeeps ==
  ASSUME CycleInv, Tick
  PROVE  CycleInv'
<1>1. /\ TypeOK /\ Punctual /\ ResetCovers /\ clock' = clock + 1 /\ clock \in Nat
      /\ UNCHANGED <<schedule, pc, fired, net, unreset, losses, override>>
  BY DEF CycleInv, Tick, TypeOK
<1>2. TypeOK'
  BY <1>1, SameSchedule DEF TypeOK
<1>3. Punctual'
  <2>1. \A n \in net : n.at \in Nat
    BY <1>1 DEF TypeOK, Message
  <2>2. \A n \in net : n.at <= clock + 1 /\ clock + 1 <= n.at + MaxDelay
    BY <1>1, <2>1, DelayIsNat DEF Punctual, Tick
  <2>3. pc = "load" => \A e \in Timer : e \in fired \/ clock + 1 <= At(e)
    <3>1. \A e \in Timer : At(e) \in Nat
      BY <1>1, ScheduleParts DEF Timer, At
    <3> QED
      BY <1>1, <3>1 DEF Tick, Due
  <2> QED
    BY <1>1, <2>2, <2>3, SameSchedule DEF Punctual
<1>4. Elapsed => Elapsed'
  <2>1. schedule.cooldown \in Nat /\ \A p \in Phases : Ends(p) + schedule.cooldown \in Nat
    BY <1>1, ScheduleParts
  <2> QED
    BY <1>1, <2>1, SameSchedule DEF Elapsed
<1>5. ResetCovers'
  BY <1>1, <1>4, SameSchedule DEF ResetCovers, Healthy
<1> QED
  BY <1>2, <1>3, <1>5 DEF CycleInv

LEMMA StutterKeeps ==
  ASSUME CycleInv, UNCHANGED vars
  PROVE  CycleInv'
<1>1. schedule' = schedule
  BY DEF vars
<1> QED
  BY <1>1, SameSchedule
     DEF CycleInv, TypeOK, Punctual, ResetCovers, Elapsed, Healthy, vars

\* A cycle never loses track of a target it has still to reset: requests are no
\* older than MaxDelay, timers are on time (runner.ts runChaos).
THEOREM CycleInvariance == Spec => []CycleInv
<1>1. CycleInv /\ [Next]_vars => CycleInv'
  <2> SUFFICES ASSUME CycleInv, [Next]_vars PROVE CycleInv'
    OBVIOUS
  <2>1. CASE \E e \in Timer : Fire(e)
    BY <2>1, FireKeeps
  <2>2. CASE LoadEnds
    BY <2>2, LoadEndsKeeps
  <2>3. CASE Exit
    BY <2>3, ExitKeeps
  <2>4. CASE Tick
    BY <2>4, TickKeeps
  <2>5. CASE \E m \in net : Handle(m) \/ Lose(m)
    BY <2>5, HandleKeeps, LoseKeeps
  <2>6. CASE UNCHANGED vars
    BY <2>6, StutterKeeps
  <2> QED
    BY <2>1, <2>2, <2>3, <2>4, <2>5, <2>6 DEF Next
<1> QED
  BY <1>1, InitCycle, PTL DEF Spec

\* When the cycle exits, every target whose reset arrived and whose phases outlast a
\* request is healthy for good (runner.ts:26-30).
THEOREM NeverLeftDegraded == Spec => []ResetLeavesHealthy
<1>1. CycleInv => ResetLeavesHealthy
  <2> SUFFICES ASSUME CycleInv, pc = "exit", NEW t \in Target \ unreset, Lasting(t)
               PROVE  NothingLeft(t)
    BY DEF ResetLeavesHealthy
  <2>1. TypeOK /\ Punctual /\ Elapsed /\ Healthy(t)
    BY DEF CycleInv, ResetCovers
  <2> QED
    BY <2>1, NoLateApply DEF NothingLeft
<1> QED
  BY <1>1, CycleInvariance, PTL

-----------------------------------------------------------------------------
(* What a phase does to its target.                                        *)

ApplyOf(p) == [kind |-> "apply", phase |-> p]

ClearOf(p) == [kind |-> "clear", phase |-> p]

\* A timer that has fired was due, the request of a phase's end was sent when it
\* ended, and nothing is reset under load.
SentOnTime ==
  /\ \A e \in fired : At(e) <= clock
  /\ \A m \in net : m.kind = "clear" =>
       m.phase \in Phases /\ m.target = On(m.phase) /\ m.at = Ends(m.phase)
  /\ pc = "load" => \A m \in net : m.kind # "reset"

InForce(p) == \A k \in schedule.phases[p].params : override[On(p)][k] = p

Applying(p) == \E m \in net : m.kind = "apply" /\ m.phase = p

\* From its beginning on a phase is in force or its request is on its way.
BegunHolds ==
  losses = 0 =>
    \A p \in Phases : Alone(p) /\ ApplyOf(p) \in fired /\ clock < Ends(p) =>
      InForce(p) \/ Applying(p)

\* the end of the phase, or of the load, has still to be handled
ClearOwed(p) ==
  \/ pc = "load" /\ ClearOf(p) \notin fired
  \/ \E m \in net : m.kind # "apply" /\ m.target = On(p) /\ m.at <= Ends(p)

\* What is in force has begun, and if it outlasts a request its clear is owed.
InForceIsOwed ==
  losses = 0 =>
    \A t \in Target, k \in Knob, p \in Phases : override[t][k] = p =>
      /\ On(p) = t /\ Starts(p) <= clock
      /\ schedule.phases[p].duration > MaxDelay => ClearOwed(p)

EffectInv == SentOnTime /\ BegunHolds /\ InForceIsOwed

-----------------------------------------------------------------------------
LEMMA SameEffects ==
  ASSUME schedule' = schedule
  PROVE  /\ \A p : Alone(p)' = Alone(p) /\ ApplyOf(p)' = ApplyOf(p) /\ ClearOf(p)' = ClearOf(p)
         /\ \A p : schedule'.phases[p] = schedule.phases[p]
BY SameSchedule DEF Alone, ApplyOf, ClearOf

LEMMA TimersOf ==
  ASSUME TypeOK, NEW p \in Phases
  PROVE  /\ ApplyOf(p) \in Timer /\ ClearOf(p) \in Timer
         /\ At(ApplyOf(p)) = Starts(p) /\ At(ClearOf(p)) = Ends(p)
         /\ Starts(p) \in Nat /\ Ends(p) \in Nat /\ Starts(p) <= Ends(p)
BY ScheduleParts DEF ApplyOf, ClearOf, Timer, At

LEMMA PhaseParams ==
  ASSUME TypeOK, NEW p \in Phases
  PROVE  schedule.phases[p].params \subseteq Knob
<1> DEFINE Phase == [target : Target, start : Nat, duration : Nat \ {0}, params : SUBSET Knob]
<1>1. schedule.phases \in Seq(Phase)
  BY CycleAssumption DEF TypeOK
<1> HIDE DEF Phase
<1>2. schedule.phases[p] \in Phase
  BY <1>1 DEF Phases
<1> QED
  BY <1>2 DEF Phase

LEMMA InitEffect == Init => EffectInv
<1> SUFFICES ASSUME Init PROVE EffectInv
  OBVIOUS
<1>1. SentOnTime /\ BegunHolds
  BY DEF Init, SentOnTime, BegunHolds
<1>2. TypeOK
  BY InitCycle DEF CycleInv
<1>3. InForceIsOwed
  BY <1>2, ScheduleParts, DelayIsNat DEF Init, InForceIsOwed
<1> QED
  BY <1>1, <1>3 DEF EffectInv

LEMMA FireEffect ==
  ASSUME CycleInv, EffectInv, NEW e \in Timer, Fire(e)
  PROVE  EffectInv'
<1> DEFINE m == Request(e.kind, On(e.phase), e.phase)
<1>1. /\ TypeOK /\ Punctual /\ pc = "load" /\ clock \in Nat
      /\ UNCHANGED <<schedule, pc, clock, losses, override>>
  BY DEF CycleInv, Fire, TypeOK
<1>2. e.phase \in Phases /\ e.kind \in {"apply", "clear"}
  BY DEF Timer
<1>3. At(e) = clock /\ At(e) \in Nat
  <2>1. At(e) \in Nat
    BY <1>1, <1>2, ScheduleParts DEF At
  <2> QED
    BY <1>1, <1>2, <2>1 DEF Fire, Due, Punctual
<1>4. /\ m.at = clock /\ m.kind = e.kind /\ m.phase = e.phase /\ m.target = On(e.phase)
  BY DEF Request
<1>5. net' = net \cup {m} /\ fired' = fired \cup {e}
  BY DEF Fire
<1> HIDE DEF m
<1>6. SentOnTime'
  BY <1>1, <1>2, <1>3, <1>4, <1>5, SameSchedule DEF EffectInv, SentOnTime, At
<1>7. BegunHolds'
  <2> SUFFICES ASSUME losses = 0, NEW p \in Phases, Alone(p), ApplyOf(p) \in fired',
                      clock < Ends(p)
               PROVE  InForce(p)' \/ Applying(p)'
    BY <1>1, SameSchedule, SameEffects DEF BegunHolds
  <2>1. CASE ApplyOf(p) \in fired
    BY <1>1, <1>5, <2>1, SameSchedule, SameEffects
    DEF EffectInv, BegunHolds, InForce, Applying
  <2>2. CASE e = ApplyOf(p)
    BY <1>4, <1>5, <2>2 DEF ApplyOf, Applying
  <2> QED
    BY <1>5, <2>1, <2>2
<1>8. ASSUME NEW p \in Phases, ClearOwed(p) PROVE ClearOwed(p)'
  <2>1. CASE ClearOf(p) \notin fired /\ e # ClearOf(p)
    BY <1>1, <1>5, <2>1, SameEffects DEF ClearOwed
  <2>2. CASE e = ClearOf(p)
    <3>1. m.kind = "clear" /\ m.target = On(p) /\ m.at = Ends(p) /\ Ends(p) \in Nat
      BY <1>1, <1>3, <1>4, <2>2, TimersOf DEF ClearOf
    <3> QED
      BY <1>1, <1>5, <3>1, SameSchedule DEF ClearOwed
  <2>3. CASE \E n \in net : n.kind # "apply" /\ n.target = On(p) /\ n.at <= Ends(p)
    BY <1>1, <1>5, <2>3, SameSchedule DEF ClearOwed
  <2> QED
    BY <1>8, <2>1, <2>2, <2>3 DEF ClearOwed
<1>9. InForceIsOwed'
  BY <1>1, <1>8, SameSchedule, SameEffects DEF EffectInv, InForceIsOwed
<1> QED
  BY <1>6, <1>7, <1>9 DEF EffectInv

LEMMA LoadEndsEffect ==
  ASSUME CycleInv, EffectInv, LoadEnds
  PROVE  EffectInv'
<1>1. /\ TypeOK /\ Punctual /\ pc = "load" /\ pc' = "reset" /\ clock \in Nat
      /\ UNCHANGED <<schedule, fired, clock, losses, override>>
      /\ net' = net \cup {Request("reset", t, None) : t \in Target}
  BY DEF CycleInv, LoadEnds, TypeOK
<1>2. \A t \in Target :
        LET m == Request("reset", t, None)
        IN  m \in net' /\ m.at = clock /\ m.kind = "reset" /\ m.target = t
  BY <1>1 DEF Request
<1>3. \A m \in net' : m \in net \/ m.kind = "reset"
  BY <1>1 DEF Request
<1>4. SentOnTime'
  BY <1>1, <1>3, SameSchedule DEF EffectInv, SentOnTime
<1>5. BegunHolds'
  BY <1>1, SameSchedule, SameEffects DEF EffectInv, BegunHolds, InForce, Applying
<1>6. ASSUME NEW p \in Phases, ClearOwed(p) PROVE ClearOwed(p)'
  <2>1. CASE ClearOf(p) \notin fired
    <3>1. clock <= Ends(p)
      BY <1>1, <2>1, TimersOf DEF Punctual
    <3>2. On(p) \in Target
      BY <1>1, ScheduleParts
    <3> QED
      BY <1>1, <1>2, <3>1, <3>2, SameSchedule DEF ClearOwed
  <2>2. CASE \E n \in net : n.kind # "apply" /\ n.target = On(p) /\ n.at <= Ends(p)
    BY <1>1, <2>2, SameSchedule DEF ClearOwed
  <2> QED
    BY <1>6, <2>1, <2>2 DEF ClearOwed
<1>7. InForceIsOwed'
  BY <1>1, <1>6, SameSchedule, SameEffects DEF EffectInv, InForceIsOwed
<1> QED
  BY <1>4, <1>5, <1>7 DEF EffectInv

\* While a phase that is alone lasts, no other request to its target is handled.
LEMMA AloneIsUndisturbed ==
  ASSUME CycleInv, SentOnTime, NEW p \in Phases, Alone(p), ApplyOf(p) \in fired,
         clock < Ends(p), NEW m \in net, m.target = On(p)
  PROVE  m.kind = "apply" /\ m.phase = p
<1>1. /\ TypeOK /\ Punctual /\ clock \in Nat /\ m \in Message
      /\ m.at <= clock /\ clock <= m.at + MaxDelay
  BY DEF CycleInv, TypeOK, Punctual
<1>2. Starts(p) <= clock /\ Starts(p) \in Nat /\ Ends(p) \in Nat
  BY <1>1, TimersOf DEF SentOnTime
<1>3. pc = "load"
  BY <1>1, <1>2, ScheduleParts DEF CycleInv, ResetCovers, Elapsed, TypeOK
<1>4. m.kind # "reset" /\ m.kind \in {"apply", "clear", "reset"}
  BY <1>1, <1>3 DEF SentOnTime, Message
<1>5. PICK q \in Phases : q = m.phase /\ On(q) = On(p)
                          /\ m.at = (IF m.kind = "apply" THEN Starts(q) ELSE Ends(q))
  BY <1>1, <1>4 DEF SentOnTime, Punctual
<1>6. Starts(q) \in Nat /\ Ends(q) \in Nat /\ Starts(q) <= Ends(q)
  BY <1>1, TimersOf
<1>7. q = p
  <2> SUFFICES ASSUME q # p PROVE FALSE
    OBVIOUS
  <2>1. Ends(q) + MaxDelay < Starts(p) \/ Ends(p) <= Starts(q)
    BY <1>5 DEF Alone
  <2> QED
    BY <1>1, <1>2, <1>5, <1>6, <2>1, DelayIsNat
<1>8. m.kind = "apply"
  BY <1>1, <1>2, <1>4, <1>5, <1>6, <1>7
<1> QED
  BY <1>5, <1>7, <1>8

LEMMA HandleEffect ==
  ASSUME CycleInv, EffectInv, NEW m \in net, Handle(m)
  PROVE  EffectInv'
<1>1. /\ TypeOK /\ Punctual /\ clock \in Nat /\ net' = net \ {m}
      /\ UNCHANGED <<schedule, pc, clock, fired, losses>>
      /\ m \in Message /\ m.target \in Target /\ m.at \in Nat
      /\ m.at <= clock /\ clock <= m.at + MaxDelay
  BY DEF CycleInv, Handle, TypeOK, Message, Punctual
<1> DEFINE new == IF m.kind = "apply" THEN Merged(m.target, m.phase) ELSE [k \in Knob |-> None]
<1>2. /\ override'[m.target] = new
      /\ \A t \in Target : t # m.target => override'[t] = override[t]
  BY <1>1 DEF TypeOK, Handle
<1>3. m.kind = "apply" => \A k \in Knob :
        new[k] = IF k \in schedule.phases[m.phase].params THEN m.phase ELSE override[m.target][k]
  BY DEF Merged
<1>4. m.kind # "apply" => \A k \in Knob : new[k] = None
  OBVIOUS
<1> HIDE DEF new
<1>5. SentOnTime'
  BY <1>1, SameSchedule DEF EffectInv, SentOnTime
<1>6. BegunHolds'
  <2> SUFFICES ASSUME losses = 0, NEW p \in Phases, Alone(p), ApplyOf(p) \in fired,
                      clock < Ends(p)
               PROVE  InForce(p)' \/ Applying(p)'
    BY <1>1, SameSchedule, SameEffects DEF BegunHolds
  <2>1. On(p) \in Target /\ schedule.phases[p].params \subseteq Knob
    BY <1>1, PhaseParams, ScheduleParts
  <2>2. InForce(p) \/ Applying(p)
    BY DEF EffectInv, BegunHolds
  <2>3. CASE m.target = On(p)
    <3>1. m.kind = "apply" /\ m.phase = p
      BY <2>3, AloneIsUndisturbed DEF EffectInv
    <3> QED
      BY <1>1, <1>2, <1>3, <2>1, <2>3, <3>1, SameSchedule DEF InForce
  <2>4. CASE m.target # On(p)
    <3>1. InForce(p) => InForce(p)'
      BY <1>1, <1>2, <2>1, <2>4, SameSchedule DEF InForce
    <3>2. Applying(p) => Applying(p)'
      BY <1>1, <2>4 DEF Applying, Punctual
    <3> QED
      BY <2>2, <3>1, <3>2
  <2> QED
    BY <2>3, <2>4
<1>7. InForceIsOwed'
  <2> SUFFICES ASSUME losses = 0, NEW t \in Target, NEW k \in Knob, NEW p \in Phases,
                      override'[t][k] = p
               PROVE  /\ On(p) = t /\ Starts(p) <= clock
                      /\ schedule.phases[p].duration > MaxDelay => ClearOwed(p)'
    BY <1>1, SameSchedule, SameEffects DEF InForceIsOwed
  <2>1. p # None
    BY <1>1, ScheduleParts, DelayIsNat
  <2>2. ASSUME override[t][k] = p, m.target # t \/ m.kind = "apply"
        PROVE  /\ On(p) = t /\ Starts(p) <= clock
               /\ schedule.phases[p].duration > MaxDelay => ClearOwed(p)'
    <3>1. /\ On(p) = t /\ Starts(p) <= clock
          /\ schedule.phases[p].duration > MaxDelay => ClearOwed(p)
      BY <2>2 DEF EffectInv, InForceIsOwed
    <3>2. ClearOwed(p) => ClearOwed(p)'
      BY <1>1, <2>2, <3>1, SameSchedule, SameEffects DEF ClearOwed
    <3> QED
      BY <3>1, <3>2
  <2>3. CASE m.target # t
    BY <1>2, <2>2, <2>3
  <2>4. CASE m.target = t
    <3>1. m.kind = "apply"
      BY <1>2, <1>4, <2>1, <2>4
    <3>2. CASE p = m.phase
      <4>1. On(p) = t /\ m.at = Starts(p) /\ Starts(p) <= clock
        BY <1>1, <2>4, <3>1, <3>2 DEF Punctual
      <4>2. ASSUME schedule.phases[p].duration > MaxDelay
            PROVE  ClearOwed(p)'
        <5>1. clock < Ends(p) /\ Ends(p) \in Nat
          BY <1>1, <4>1, <4>2, ScheduleParts, TimersOf, DelayIsNat
        <5>2. pc = "load"
          BY <1>1, <5>1, ScheduleParts DEF CycleInv, ResetCovers, Elapsed, TypeOK
        <5>3. ClearOf(p) \notin fired
          BY <1>1, <5>1, TimersOf DEF EffectInv, SentOnTime
        <5> QED
          BY <1>1, <5>2, <5>3, SameEffects DEF ClearOwed
      <4> QED
        BY <4>1, <4>2
    <3>3. CASE p # m.phase
      BY <1>2, <1>3, <2>2, <2>4, <3>1, <3>3
    <3> QED
      BY <3>2, <3>3
  <2> QED
    BY <2>3, <2>4
<1> QED
  BY <1>5, <1>6, <1>7 DEF EffectInv

LEMMA LoseEffect ==
  ASSUME CycleInv, EffectInv, NEW m \in net, Lose(m)
  PROVE  EffectInv'
<1>1. losses' # 0 /\ net' \subseteq net /\ UNCHANGED <<schedule, pc, clock, fired>>
  BY DEF CycleInv, TypeOK, Lose
<1> QED
  BY <1>1, SameSchedule DEF EffectInv, SentOnTime, BegunHolds, InForceIsOwed

LEMMA TickEffect ==
  ASSUME CycleInv, EffectInv, Tick
  PROVE  EffectInv'
<1>1. /\ TypeOK /\ clock' = clock + 1 /\ clock \in Nat
      /\ UNCHANGED <<schedule, pc, fired, net, losses, override>>
  BY DEF CycleInv, Tick, TypeOK
<1>2. \A e \in fired : At(e) \in Nat
  BY <1>1, ScheduleParts DEF TypeOK, Timer, At
<1>3. SentOnTime'
  BY <1>1, <1>2, SameSchedule DEF EffectInv, SentOnTime
<1>4. \A p \in Phases : Starts(p) \in Nat /\ Ends(p) \in Nat
  BY <1>1, TimersOf
<1>5. BegunHolds'
  BY <1>1, <1>4, SameSchedule, SameEffects DEF EffectInv, BegunHolds, InForce, Applying
<1>6. \A p \in Phases : ClearOwed(p)' <=> ClearOwed(p)
  BY <1>1, SameSchedule, SameEffects DEF ClearOwed
<1>7. InForceIsOwed'
  BY <1>1, <1>4, <1>6, SameSchedule, SameEffects DEF EffectInv, InForceIsOwed
<1> QED
  BY <1>3, <1>5, <1>7 DEF EffectInv

LEMMA ExitEffect ==
  ASSUME CycleInv, EffectInv, Exit \/ UNCHANGED vars
  PROVE  EffectInv'
<1>1. /\ UNCHANGED <<schedule, clock, fired, net, losses, override>>
      /\ pc' = "load" => pc = "load"
      /\ pc = "load" => pc' = "load"
  BY DEF Exit, vars
<1>2. SentOnTime' /\ BegunHolds'
  BY <1>1, SameSchedule, SameEffects DEF EffectInv, SentOnTime, BegunHolds, InForce, Applying
<1>3. \A p \in Phases : ClearOwed(p)' <=> ClearOwed(p)
  BY <1>1, SameSchedule, SameEffects DEF ClearOwed
<1>4. InForceIsOwed'
  BY <1>1, <1>3, SameSchedule, SameEffects DEF EffectInv, InForceIsOwed
<1> QED
  BY <1>2, <1>4 DEF EffectInv

\* Timers and requests that are on time keep track of every phase in force.
THEOREM EffectInvariance == Spec => []EffectInv
<1>1. CycleInv /\ EffectInv /\ [Next]_vars => EffectInv'
  BY FireEffect, LoadEndsEffect, HandleEffect, LoseEffect, TickEffect, ExitEffect DEF Next
<1> QED
  BY <1>1, CycleInvariance, InitEffect, PTL DEF Spec

\* A phase alone on its target is in effect from its beginning to its end, but for
\* the delay of its request, if none is lost.
THEOREM PhaseHolds == Spec => []PhaseTakesHold
<1>1. CycleInv /\ EffectInv => PhaseTakesHold
  <2> SUFFICES ASSUME CycleInv, EffectInv, losses = 0, NEW p \in Phases, Alone(p),
                      Starts(p) + MaxDelay < clock, clock < Ends(p)
               PROVE  InForce(p)
    BY DEF PhaseTakesHold, InForce
  <2>1. /\ TypeOK /\ Punctual /\ clock \in Nat
        /\ Starts(p) \in Nat /\ Ends(p) \in Nat /\ ApplyOf(p) \in Timer
        /\ At(ApplyOf(p)) = Starts(p)
    BY TimersOf DEF CycleInv, TypeOK
  <2>2. pc = "load"
    BY <2>1, ScheduleParts DEF CycleInv, ResetCovers, Elapsed, TypeOK
  <2>3. ApplyOf(p) \in fired
    BY <2>1, <2>2, DelayIsNat DEF Punctual
  <2>4. ~Applying(p)
    BY <2>1, DelayIsNat DEF Applying, Punctual
  <2> QED
    BY <2>3, <2>4 DEF EffectInv, BegunHolds
<1> QED
  BY <1>1, CycleInvariance, EffectInvariance, PTL

\* Between phases that outlast a request a target is healthy, if none is lost.
THEOREM Recovery == Spec => []RecoversAfterPhases
<1>1. CycleInv /\ EffectInv => RecoversAfterPhases
  <2> SUFFICES ASSUME CycleInv, EffectInv, losses = 0, NEW t \in Target, Resting(t),
                      NEW k \in Knob, override[t][k] # None
               PROVE  FALSE
    BY DEF RecoversAfterPhases, Healthy, CycleInv, TypeOK
  <2>1. TypeOK /\ Punctual /\ clock \in Nat /\ override[t][k] \in Phases
    BY DEF CycleInv, TypeOK
  <2>2. PICK p \in Phases : p = override[t][k]
    BY <2>1
  <2>3. /\ On(p) = t /\ Starts(p) <= clock
        /\ schedule.phases[p].duration > MaxDelay => ClearOwed(p)
    BY <2>2 DEF EffectInv, InForceIsOwed
  <2>4. Starts(p) \in Nat /\ Ends(p) \in Nat /\ ClearOf(p) \in Timer /\ At(ClearOf(p)) = Ends(p)
    BY <2>1, TimersOf
  <2>5. Ends(p) + MaxDelay < clock /\ schedule.phases[p].duration > MaxDelay
    BY <2>1, <2>3, <2>4 DEF Resting
  <2>6. CASE pc = "load" /\ ClearOf(p) \notin fired
    BY <2>1, <2>4, <2>5, <2>6, DelayIsNat DEF Punctual
  <2>7. CASE \E m \in net : m.kind # "apply" /\ m.target = On(p) /\ m.at <= Ends(p)
    <3>1. PICK m \in net : m.at <= Ends(p) /\ m.at \in Nat /\ clock <= m.at + MaxDelay
      BY <2>1, <2>7 DEF Punctual, TypeOK, Message
    <3> QED
      BY <2>1, <2>4, <2>5, <3>1, DelayIsNat
  <2> QED
    BY <2>3, <2>5, <2>6, <2>7 DEF ClearOwed
<1> QED
  BY <1>1, CycleInvariance, EffectInvariance, PTL

=============================================================================

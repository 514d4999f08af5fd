------------------------ MODULE RemediationGate_proofs ------------------------
(***************************************************************************)
(* Proofs about the approval gate, for any number of actions and           *)
(* approvals.  For any number of concurrent tool calls and operators: no   *)
(* remediation without the approval of its own dry-run (ApprovalHolds), as *)
(* a call past the gate holds an approval whose row never changes again;   *)
(* and an approval is used no more often than there are calls              *)
(* (UsesAreBounded).  For one call at a time: single use and a true        *)
(* timeline.  For one operator at a time, who answers what the stream      *)
(* announced: the waiter is told what the row records, and the session     *)
(* keeps its status.                                                       *)
(***************************************************************************)
EXTENDS RemediationGate, FiniteSetTheorems, TLAPS

-----------------------------------------------------------------------------
(* The records.                                                            *)

LEMMA ZeroIsNonce == 0 \in Nonce
  BY GateAssumption DEF Nonce

LEMMA IdleIsCall == Idle \in CallState /\ Idle.pc = "idle"
  BY ZeroIsNonce DEF Idle, CallState

-----------------------------------------------------------------------------
(* The steps, by the part of the state they touch.                         *)

\* The calls' part of the invariant.
CallsInv == call \in [Call -> CallState] /\ GateSound

\* The rest of it.
RowsInv ==
  /\ run \in {"live", "closing", "over", "dead"}
  /\ status \in {"running", "awaiting_approval", "completed", "denied", "failed"}
  /\ stash \subseteq StashEntry
  /\ minted \in Seq(Action) /\ Len(minted) \in Nonce
  /\ row \in [Approval -> ApprovalRow]
  /\ future \in [Approval -> Decision \cup {"none", "parked", "lost"}]
  /\ post \in [Operator -> PostState]
  /\ early \subseteq Approval /\ crossed \subseteq Approval
  /\ effects \subseteq Effect /\ IsFiniteSet(effects)
  /\ timeline \in Nat
  /\ timeouts \in 0 .. MaxTimeouts
  /\ faults \in 0 .. MaxFaults
  /\ OnlyApproved

\* The two parts are the invariant.
LEMMA PartsAreInvariant == GateInv <=> CallsInv /\ RowsInv
  BY DEF GateInv, CallsInv, RowsInv, TypeOK

\* What a call may know when it is somewhere.
Sound(r) ==
  /\ r.pc \in {"kubectl", "applied", "record"} =>
       /\ r.action \in Action /\ r.approval \in Approval
       /\ ApprovedFor(r.approval, r.action, r.nonce)
  /\ r.pc = "gate" =>
       /\ r.action \in Action /\ r.approval \in Approval
       /\ r.seen \in Decision => row[r.approval].decision = r.seen
  /\ r.pc \in {"inserted", "announce", "parked", "resumed"} => r.approval \in Approval

LEMMA GateSoundIsSound == GateSound <=> \A c \in Call : Sound(call[c])
  BY DEF GateSound, Sound, Past

\* A step of one call that leaves the rows alone.
LEMMA CallMoves ==
  ASSUME CallsInv, NEW c \in Call, NEW new \in CallState, Sound(new),
         call' = [call EXCEPT ![c] = new], UNCHANGED row
  PROVE  CallsInv'
<1>1. call' \in [Call -> CallState]
  BY DEF CallsInv
<1>2. \A d \in Call : call'[d] = IF d = c THEN new ELSE call[d]
  BY DEF CallsInv
<1>3. \A d \in Call : Sound(call[d])
  BY GateSoundIsSound DEF CallsInv
<1>4. GateSound'
  BY <1>2, <1>3 DEF Sound, GateSound, Past, ApprovedFor
<1> QED
  BY <1>1, <1>4 DEF CallsInv

\* The rows change only where nothing is decided yet.
LEMMA DecidedStays ==
  ASSUME CallsInv, UNCHANGED call,
         \A p \in Approval : row[p].decision \in Decision => row'[p] = row[p]
  PROVE  CallsInv'
<1>1. \A p \in Approval : \A a, n : ApprovedFor(p, a, n) => ApprovedFor(p, a, n)'
  BY DEF ApprovedFor, Decision
<1>2. GateSound'
  BY <1>1 DEF CallsInv, GateSound, Past
<1> QED
  BY <1>2 DEF CallsInv

\* The tool calls' own steps.
LEMMA CallsKeepCalls ==
  ASSUME GateInv, NEW c \in Call,
         \/ CallStep(c) \/ KubectlTimesOut(c) \/ RecordFails(c) \/ CallFails(c)
         \/ \E a \in Action, p \in Approval : ReadApproval(c, a, p)
  PROVE  CallsInv'
<1> DEFINE r == call[c]
<1>1. /\ CallsInv /\ RowsInv /\ r \in CallState /\ Sound(r)
  BY PartsAreInvariant, GateSoundIsSound DEF CallsInv
<1>2. UNCHANGED row
  BY DEF CallStep, SetAwaiting, Park, Resume, SetRunning, Admit, Refuse, KubectlFails,
         KubectlApplies, NextPatch, Consume, Record, KubectlTimesOut, RecordFails, CallFails,
         ReadApproval
<1>3. Idle \in CallState /\ Sound(Idle)
  BY IdleIsCall DEF Sound
<1>4. CASE call' = [call EXCEPT ![c] = Idle]
  BY <1>1, <1>2, <1>3, <1>4, CallMoves
<1>5. ASSUME NEW label \in {"announce", "parked", "resumed", "applied", "record"},
             call' = [call EXCEPT ![c] = [r EXCEPT !.pc = label]],
             label \in {"applied", "record"} => Past(c),
             label \notin {"applied", "record"} => r.pc \in {"inserted", "announce", "parked"}
      PROVE  CallsInv'
  <2> DEFINE new == [r EXCEPT !.pc = label]
  <2>1. /\ new \in CallState /\ new.pc = label /\ new.action = r.action
        /\ new.approval = r.approval /\ new.nonce = r.nonce
    BY <1>1, <1>5 DEF CallState
  <2> HIDE DEF new
  <2>2. Sound(new)
    BY <1>1, <1>5, <2>1 DEF Sound, Past
  <2> QED
    BY <1>1, <1>2, <1>5, <2>1, <2>2, CallMoves DEF new
<1>6. CASE SetAwaiting(c) \/ Park(c) \/ Resume(c) \/ KubectlApplies(c) \/ Consume(c)
  <2>1. \A label : [call EXCEPT ![c].pc = label] = [call EXCEPT ![c] = [r EXCEPT !.pc = label]]
    OBVIOUS
  <2> QED
    BY <1>4, <1>5, <1>6, <2>1
       DEF SetAwaiting, Park, Resume, KubectlApplies, Consume, Goto, Past
<1>7. CASE \/ SetRunning(c) \/ Refuse(c) \/ KubectlFails(c) \/ Record(c)
           \/ KubectlTimesOut(c) \/ RecordFails(c) \/ CallFails(c)
  BY <1>4, <1>7
     DEF SetRunning, Refuse, KubectlFails, Record, KubectlTimesOut, RecordFails, CallFails
<1>8. CASE Admit(c)
  <2>1. PICK e \in stash :
          /\ Verified(c, e)
          /\ call' = [call EXCEPT ![c] = [r EXCEPT !.pc = "kubectl", !.nonce = e.nonce]]
    BY <1>8 DEF Admit
  <2> DEFINE new == [r EXCEPT !.pc = "kubectl", !.nonce = e.nonce]
  <2>2. e.action \in Action /\ e.nonce \in Nonce
    BY <1>1 DEF RowsInv, StashEntry
  <2>3. /\ new \in CallState /\ new.pc = "kubectl" /\ new.action = r.action
        /\ new.approval = r.approval /\ new.nonce = e.nonce
    BY <1>1, <2>2 DEF CallState
  <2> HIDE DEF new
  <2>4. Sound(new)
    BY <1>1, <1>8, <2>1, <2>3 DEF Admit, Sound, Verified, ApprovedFor, Decision
  <2> QED
    BY <1>1, <1>2, <2>1, <2>3, <2>4, CallMoves DEF new
<1>9. CASE NextPatch(c)
  <2> DEFINE new == [r EXCEPT !.pc = "kubectl", !.patch = 2]
  <2>1. /\ new \in CallState /\ new.pc = "kubectl" /\ new.action = r.action
        /\ new.approval = r.approval /\ new.nonce = r.nonce
    BY <1>1 DEF CallState
  <2>2. r.pc = "applied" /\ call' = [call EXCEPT ![c] = new]
    BY <1>9 DEF NextPatch
  <2> HIDE DEF new
  <2>3. Sound(new)
    BY <1>1, <2>1, <2>2 DEF Sound
  <2> QED
    BY <1>1, <1>2, <2>1, <2>2, <2>3, CallMoves
<1>10. CASE \E a \in Action, p \in Approval : ReadApproval(c, a, p)
  <2>1. PICK a \in Action, p \in Approval : ReadApproval(c, a, p)
    BY <1>10
  <2> DEFINE new == [Idle EXCEPT !.pc = "gate", !.action = a, !.approval = p,
                                 !.seen = row[p].decision]
  <2>2. row[p].decision \in Decision \cup {"absent", "null"}
    BY <1>1 DEF RowsInv, ApprovalRow
  <2>3. /\ new \in CallState /\ new.pc = "gate" /\ new.action = a /\ new.approval = p
        /\ new.seen = row[p].decision
    BY <2>2, ZeroIsNonce DEF Idle, CallState
  <2>4. call' = [call EXCEPT ![c] = new]
    BY <2>1 DEF ReadApproval
  <2> HIDE DEF new
  <2>5. Sound(new)
    BY <2>3 DEF Sound
  <2> QED
    BY <1>1, <1>2, <2>3, <2>4, <2>5, CallMoves
<1> QED
  BY <1>6, <1>7, <1>8, <1>9, <1>10 DEF CallStep

\* request_approval inserts a row, and no call past the gate names it.
LEMMA ProposeKeepsCalls ==
  ASSUME GateInv, NEW c \in Call, NEW p \in Approval, Propose(c, p)
  PROVE  CallsInv'
<1> DEFINE new == [Idle EXCEPT !.pc = "inserted", !.approval = p]
<1>1. CallsInv /\ RowsInv
  BY PartsAreInvariant
<1>2. new \in CallState /\ new.pc = "inserted" /\ new.approval = p
  BY ZeroIsNonce DEF Idle, CallState
<1>3. call' = [call EXCEPT ![c] = new] /\ row[p].decision = "absent"
  BY DEF Propose
<1>4. \A q \in Approval : q # p => row'[q] = row[q]
  BY <1>1 DEF Propose, RowsInv
<1> HIDE DEF new
<1>5. call' \in [Call -> CallState] /\ \A d \in Call : call'[d] = IF d = c THEN new ELSE call[d]
  BY <1>1, <1>2, <1>3 DEF CallsInv
<1>8. ASSUME NEW d \in Call PROVE Sound(call[d])'
  <2>1. CASE d = c
    BY <1>2, <1>5, <2>1 DEF Sound
  <2>2. CASE d # c
    <3>1. Sound(call[d]) /\ call'[d] = call[d]
      BY <1>1, <1>5, <2>2, GateSoundIsSound DEF CallsInv
    <3> QED
      BY <1>3, <1>4, <3>1 DEF Sound, ApprovedFor, Decision
  <2> QED
    BY <2>1, <2>2
<1>9. GateSound'
  BY <1>8 DEF GateSound, Sound, Past
<1> QED
  BY <1>5, <1>9 DEF CallsInv

\* The rows, the requests, the session and the process.
LEMMA OthersKeepCalls ==
  ASSUME GateInv,
         \/ \E c \in Call, a \in Action : DryRun(c, a)
         \/ \E o \in Operator : PostStep(o) \/ SettleFails(o)
         \/ \E o \in Operator, p \in Approval, d \in Decision : Decide(o, p, d)
         \/ CloseSession \/ EndRun \/ Restart
  PROVE  CallsInv'
<1>1. CallsInv /\ RowsInv
  BY PartsAreInvariant
<1>2. CASE Restart
  <2>1. \A c \in Call : call'[c] = Idle
    BY <1>2 DEF Restart
  <2>2. call' \in [Call -> CallState]
    BY <1>2, IdleIsCall DEF Restart
  <2>3. GateSound'
    BY <2>1, IdleIsCall DEF GateSound, Past
  <2> QED
    BY <2>2, <2>3 DEF CallsInv
<1>3. CASE \E o \in Operator, p \in Approval, d \in Decision : Decide(o, p, d)
  <2>1. PICK o \in Operator, p \in Approval, d \in Decision : Decide(o, p, d)
    BY <1>3
  <2>2. \A q \in Approval : row[q].decision \in Decision => row'[q] = row[q]
    <3> TAKE q \in Approval
    <3> HAVE row[q].decision \in Decision
    <3>1. row' = [row EXCEPT ![p] = [row[p] EXCEPT !.decision =
                                        IF row[p].decision = "null" THEN d ELSE row[p].decision]]
      BY <2>1 DEF Decide
    <3>2. \A r \in ApprovalRow : [r EXCEPT !.decision = r.decision] = r
      BY DEF ApprovalRow
    <3>3. row[q] \in ApprovalRow /\ row \in [Approval -> ApprovalRow]
      BY <1>1 DEF RowsInv
    <3>4. row[q].decision # "null"
      BY DEF Decision
    <3> QED
      BY <3>1, <3>2, <3>3, <3>4
  <2> QED
    BY <1>1, <2>1, <2>2, DecidedStays DEF Decide
<1>4. CASE ~Restart /\ ~(\E o \in Operator, p \in Approval, d \in Decision : Decide(o, p, d))
  <2>1. UNCHANGED <<row, call>>
    BY <1>4 DEF DryRun, PostStep, Resolve, Settle, SettleFails, CloseSession, EndRun
  <2> QED
    BY <1>1, <2>1, DecidedStays
<1> QED
  BY <1>2, <1>3, <1>4

-----------------------------------------------------------------------------
(* The other tables.                                                       *)

\* A dry-run's stash has entries only.
LEMMA StashTypes ==
  ASSUME RowsInv, NEW a \in Action, Len(minted) < MaxNonces
  PROVE  Evicted(Refreshed(a)) \subseteq StashEntry /\ Len(minted) + 1 \in Nonce
<1>1. Len(minted) + 1 \in Nonce /\ Len(minted) \in Nat
  BY GateAssumption DEF RowsInv, Nonce
<1>2. Stashed(a) \subseteq StashEntry
  BY DEF Stashed, RowsInv
<1>3. Stashed(a) # {} => (CHOOSE e \in Stashed(a) : TRUE).since \in Nonce
  BY <1>2 DEF StashEntry
<1>4. Refreshed(a) \subseteq StashEntry
  <2> DEFINE since == IF Stashed(a) = {} THEN Len(minted) + 1
                      ELSE (CHOOSE e \in Stashed(a) : TRUE).since
             new == [action |-> a, nonce |-> Len(minted) + 1, since |-> since]
  <2>1. since \in Nonce
    BY <1>1, <1>3
  <2>2. Refreshed(a) = (stash \ Stashed(a)) \cup {new}
    BY DEF Refreshed
  <2> HIDE DEF since
  <2>3. new \in StashEntry
    BY <1>1, <2>1 DEF StashEntry
  <2> QED
    BY <2>2, <2>3 DEF RowsInv
<1> QED
  BY <1>1, <1>4 DEF Evicted

\* A step that leaves rows, stash, nonces and effects alone.
LEMMA QuietKeepsRows ==
  ASSUME RowsInv, UNCHANGED <<stash, minted, row, effects>>,
         run' \in {"live", "closing", "over", "dead"},
         status' \in {"running", "awaiting_approval", "completed", "denied", "failed"},
         future' \in [Approval -> Decision \cup {"none", "parked", "lost"}],
         post' \in [Operator -> PostState], early' \subseteq Approval,
         crossed' \subseteq Approval, timeline' \in Nat,
         timeouts' \in 0 .. MaxTimeouts, faults' \in 0 .. MaxFaults
  PROVE  RowsInv'
  BY DEF RowsInv, OnlyApproved, ApprovedFor

LEMMA CallsKeepRows ==
  ASSUME GateInv, NEW c \in Call,
         \/ CallStep(c) \/ KubectlTimesOut(c) \/ RecordFails(c) \/ CallFails(c)
         \/ \E a \in Action, p \in Approval : ReadApproval(c, a, p)
         \/ \E a \in Action : DryRun(c, a)
  PROVE  RowsInv'
<1>1. CallsInv /\ RowsInv /\ call[c] \in CallState /\ Sound(call[c])
  BY PartsAreInvariant, GateSoundIsSound DEF CallsInv
<1>2. CASE KubectlApplies(c)
  <2> DEFINE e == [approval |-> call[c].approval, action |-> call[c].action,
                   nonce |-> call[c].nonce, patch |-> call[c].patch,
                   use |-> Cardinality(effects)]
  <2>1. effects' = effects \cup {e} /\ UNCHANGED <<stash, minted, row>>
    BY <1>2 DEF KubectlApplies
  <2>2. Cardinality(effects) \in 0 .. MaxUses
    BY <1>1, <1>2, FS_CardinalityType, GateAssumption DEF RowsInv, KubectlApplies
  <2>3. /\ call[c].action \in Action /\ call[c].approval \in Approval
        /\ ApprovedFor(call[c].approval, call[c].action, call[c].nonce)
    BY <1>1, <1>2 DEF KubectlApplies, Sound
  <2>4. e \in Effect /\ ApprovedFor(e.approval, e.action, e.nonce)
    BY <1>1, <2>2, <2>3 DEF Effect, CallState
  <2>5. IsFiniteSet(effects')
    BY <1>1, <2>1, FS_AddElement DEF RowsInv
  <2>6. OnlyApproved'
    BY <1>1, <2>1, <2>4 DEF RowsInv, OnlyApproved, ApprovedFor
  <2> HIDE DEF e
  <2> QED
    BY <1>1, <1>2, <2>1, <2>4, <2>5, <2>6 DEF RowsInv, KubectlApplies, history
<1>3. CASE Consume(c)
  <2>1. stash' \subseteq stash
    BY <1>3 DEF Consume
  <2> QED
    BY <1>1, <1>3, <2>1 DEF RowsInv, OnlyApproved, ApprovedFor, Consume, history
<1>4. CASE \E a \in Action : DryRun(c, a)
  <2>1. PICK a \in Action : DryRun(c, a)
    BY <1>4
  <2>2. stash' \subseteq StashEntry /\ Len(minted) + 1 \in Nonce
    BY <1>1, <2>1, StashTypes DEF DryRun
  <2>3. minted' \in Seq(Action) /\ Len(minted') = Len(minted) + 1
    BY <1>1, <2>1 DEF DryRun, RowsInv
  <2> QED
    BY <1>1, <2>1, <2>2, <2>3 DEF RowsInv, OnlyApproved, ApprovedFor, DryRun, history
<1>5. CASE Park(c)
  <2>1. future' \in [Approval -> Decision \cup {"none", "parked", "lost"}]
    BY <1>1, <1>5 DEF Park, RowsInv
  <2> QED
    BY <1>1, <1>5, <2>1, QuietKeepsRows DEF Park, RowsInv, history
<1>6. CASE \/ SetAwaiting(c) \/ Resume(c) \/ SetRunning(c) \/ Admit(c) \/ Refuse(c)
           \/ KubectlFails(c) \/ NextPatch(c) \/ \E a \in Action, p \in Approval : ReadApproval(c, a, p)
  <2>1. /\ UNCHANGED <<run, stash, minted, row, effects, future, post, early, crossed,
                       timeline, timeouts, faults>>
        /\ status' \in {status, "awaiting_approval", "running"}
    BY <1>6 DEF history, SetAwaiting, Resume, SetRunning, Admit, Refuse, KubectlFails, NextPatch, ReadApproval
  <2> QED
    BY <1>1, <2>1, QuietKeepsRows DEF RowsInv
<1>7. CASE Record(c)
  <2>1. timeline' \in Nat
    BY <1>1, <1>7 DEF Record, RowsInv
  <2> QED
    BY <1>1, <1>7, <2>1, QuietKeepsRows DEF Record, RowsInv, history
<1>8. CASE KubectlTimesOut(c) \/ RecordFails(c) \/ CallFails(c)
  <2>1. timeouts' \in 0 .. MaxTimeouts /\ faults' \in 0 .. MaxFaults
    BY <1>1, <1>8, GateAssumption DEF KubectlTimesOut, RecordFails, CallFails, RowsInv
  <2> QED
    BY <1>1, <1>8, <2>1, QuietKeepsRows DEF KubectlTimesOut, RecordFails, CallFails, RowsInv, history
<1> QED
  BY <1>2, <1>3, <1>4, <1>5, <1>6, <1>7, <1>8 DEF CallStep

\* A row that is inserted or decided was not approved before.
LEMMA RowChangesKeepRows ==
  ASSUME GateInv, NEW p \in Approval, NEW new \in ApprovalRow, row[p].decision # "approved",
         row' = [row EXCEPT ![p] = new],
         UNCHANGED <<run, status, stash, minted, future, effects, timeline, timeouts, faults>>,
         post' \in [Operator -> PostState], early' \subseteq Approval, crossed' \subseteq Approval
  PROVE  RowsInv'
<1>1. RowsInv
  BY PartsAreInvariant
<1>2. row' \in [Approval -> ApprovalRow]
  BY <1>1 DEF RowsInv
<1>3. ASSUME NEW e \in effects
      PROVE  ApprovedFor(e.approval, e.action, e.nonce)'
  <2>1. e.approval \in Approval /\ ApprovedFor(e.approval, e.action, e.nonce)
    BY <1>1 DEF RowsInv, OnlyApproved, Effect
  <2>2. row'[e.approval] = row[e.approval]
    BY <1>1, <2>1 DEF RowsInv, ApprovedFor
  <2> QED
    BY <2>1, <2>2 DEF ApprovedFor
<1>4. OnlyApproved'
  BY <1>3 DEF OnlyApproved
<1> QED
  BY <1>1, <1>2, <1>4 DEF RowsInv

LEMMA OthersKeepRows ==
  ASSUME GateInv,
         \/ \E c \in Call, p \in Approval : Propose(c, p)
         \/ \E o \in Operator : PostStep(o) \/ SettleFails(o)
         \/ \E o \in Operator, p \in Approval, d \in Decision : Decide(o, p, d)
         \/ CloseSession \/ EndRun \/ Restart
  PROVE  RowsInv'
<1>1. RowsInv /\ NoPost \in PostState
  BY PartsAreInvariant DEF NoPost, PostState, Decision
<1>2. CASE \E c \in Call, p \in Approval : Propose(c, p)
  <2>1. PICK c \in Call, p \in Approval : Propose(c, p)
    BY <1>2
  <2>2. PICK new \in ApprovalRow : row' = [row EXCEPT ![p] = new]
    <3>1. CASE row' = [row EXCEPT ![p] = [decision |-> "null", action |-> None, nonce |-> 0]]
      <4>1. [decision |-> "null", action |-> None, nonce |-> 0] \in ApprovalRow
        BY ZeroIsNonce DEF ApprovalRow
      <4> QED
        BY <3>1, <4>1
    <3>2. CASE \E e \in stash :
                 row' = [row EXCEPT ![p] =
                           [decision |-> "null", action |-> e.action, nonce |-> e.nonce]]
      <4>1. PICK e \in stash :
              row' = [row EXCEPT ![p] =
                        [decision |-> "null", action |-> e.action, nonce |-> e.nonce]]
        BY <3>2
      <4>2. e.action \in Action /\ e.nonce \in Nonce
        BY <1>1 DEF RowsInv, StashEntry
      <4>3. [decision |-> "null", action |-> e.action, nonce |-> e.nonce] \in ApprovalRow
        BY <4>2 DEF ApprovalRow
      <4> QED
        BY <4>1, <4>3
    <3> QED
      BY <2>1, <3>1, <3>2 DEF Propose
  <2> QED
    BY <1>1, <2>1, <2>2, RowChangesKeepRows DEF Propose, RowsInv, history
<1>3. CASE \E o \in Operator, p \in Approval, d \in Decision : Decide(o, p, d)
  <2>1. PICK o \in Operator, p \in Approval, d \in Decision : Decide(o, p, d)
    BY <1>3
  <2> DEFINE new == [row[p] EXCEPT !.decision = IF row[p].decision = "null" THEN d
                                                ELSE row[p].decision]
             next == [pc |-> "resolve", approval |-> p, decision |-> d,
                      recorded |-> row[p].decision = "null"]
  <2>2. row' = [row EXCEPT ![p] = new] /\ post' = [post EXCEPT ![o] = next]
    BY <2>1 DEF Decide
  <2>3. new \in ApprovalRow
    BY <1>1 DEF RowsInv, ApprovalRow
  <2>4. next \in PostState
    BY DEF PostState
  <2>5. post' \in [Operator -> PostState]
    BY <1>1, <2>2, <2>4 DEF RowsInv
  <2>8. crossed' \subseteq Approval
    BY <1>1, <2>1 DEF Decide, Crossing, RowsInv
  <2>6. CASE row[p].decision # "approved"
    BY <1>1, <2>1, <2>2, <2>3, <2>5, <2>6, <2>8, RowChangesKeepRows DEF Decide, RowsInv
  <2>7. CASE row[p].decision = "approved"
    <3>1. \A r \in ApprovalRow : [r EXCEPT !.decision = r.decision] = r
      BY DEF ApprovalRow
    <3>2. row' = row
      BY <1>1, <2>2, <2>7, <3>1 DEF RowsInv
    <3> QED
      BY <1>1, <2>1, <2>5, <2>8, <3>2, QuietKeepsRows DEF Decide, RowsInv
  <2> QED
    BY <2>6, <2>7
<1>4. ASSUME NEW o \in Operator, PostStep(o) \/ SettleFails(o)
      PROVE  RowsInv'
  <2>1. post[o] \in PostState
    BY <1>1 DEF RowsInv
  <2>2. /\ [post[o] EXCEPT !.pc = "settle"] \in PostState
        /\ post[o].decision \in Decision
    BY <2>1 DEF PostState
  <2>3. post' \in [Operator -> PostState]
    BY <1>1, <1>4, <2>2 DEF PostStep, Resolve, Settle, SettleFails, RowsInv
  <2>4. future' \in [Approval -> Decision \cup {"none", "parked", "lost"}]
    BY <1>1, <1>4, <2>2 DEF PostStep, Resolve, Settle, SettleFails, RowsInv
  <2>5. faults' \in 0 .. MaxFaults
    BY <1>1, <1>4, GateAssumption DEF PostStep, Resolve, Settle, SettleFails, RowsInv
  <2> QED
    BY <1>1, <1>4, <2>3, <2>4, <2>5, QuietKeepsRows
       DEF PostStep, Resolve, Settle, SettleFails, RowsInv, history
<1>5. CASE CloseSession \/ EndRun
  BY <1>1, <1>5 DEF CloseSession, EndRun, RowsInv, OnlyApproved, ApprovedFor, history
<1>6. CASE Restart
  <2>1. faults' \in 0 .. MaxFaults
    BY <1>1, <1>6, GateAssumption DEF Restart, RowsInv
  <2>2. /\ future' \in [Approval -> Decision \cup {"none", "parked", "lost"}]
        /\ post' \in [Operator -> PostState]
    BY <1>1, <1>6 DEF Restart
  <2> QED
    BY <1>1, <1>6, <2>1, <2>2 DEF Restart, RowsInv, OnlyApproved, ApprovedFor, history
<1> QED
  BY <1>2, <1>3, <1>4, <1>5, <1>6

-----------------------------------------------------------------------------
(* The invariant.                                                          *)

LEMMA InitHolds == Init => GateInv
<1> SUFFICES ASSUME Init PROVE GateInv
  OBVIOUS
<1>1. CallsInv
  BY IdleIsCall DEF Init, CallsInv, GateSound, Past
<1>2. NoPost \in PostState /\ NoRow \in ApprovalRow
  BY ZeroIsNonce DEF NoPost, PostState, Decision, NoRow, ApprovalRow
<1>3. <<>> \in Seq(Action) /\ Len(<<>>) = 0
  OBVIOUS
<1>4. RowsInv
  BY <1>2, <1>3, ZeroIsNonce, GateAssumption, FS_EmptySet DEF Init, RowsInv, OnlyApproved
<1> QED
  BY <1>1, <1>4, PartsAreInvariant

LEMMA NextKeepsInvariant == GateInv /\ [Next]_vars => GateInv'
<1> SUFFICES ASSUME GateInv, [Next]_vars PROVE GateInv'
  OBVIOUS
<1> USE PartsAreInvariant
<1>1. CallsInv' /\ RowsInv' => GateInv'
  BY PTL
<1>2. ASSUME NEW c \in Call,
             \/ CallStep(c) \/ KubectlTimesOut(c) \/ RecordFails(c) \/ CallFails(c)
             \/ \E a \in Action, p \in Approval : ReadApproval(c, a, p)
      PROVE  GateInv'
  BY <1>1, <1>2, CallsKeepCalls, CallsKeepRows
<1>3. ASSUME NEW c \in Call, \E a \in Action : DryRun(c, a)
      PROVE  GateInv'
  BY <1>1, <1>3, OthersKeepCalls, CallsKeepRows
<1>4. ASSUME NEW c \in Call, NEW p \in Approval, Propose(c, p)
      PROVE  GateInv'
  BY <1>1, <1>4, ProposeKeepsCalls, OthersKeepRows
<1>5. CASE \/ \E o \in Operator : PostStep(o) \/ SettleFails(o)
           \/ \E o \in Operator, p \in Approval, d \in Decision : Decide(o, p, d)
           \/ CloseSession \/ EndRun \/ Restart
  BY <1>1, <1>5, OthersKeepCalls, OthersKeepRows
<1>6. CASE UNCHANGED vars
  <2>1. CallsInv'
    BY <1>6, DecidedStays DEF vars
  <2>2. RowsInv'
    BY <1>6, QuietKeepsRows DEF vars, RowsInv, history
  <2> QED
    BY <1>1, <2>1, <2>2
<1> QED
  BY <1>2, <1>3, <1>4, <1>5, <1>6 DEF Next

\* The inductive invariant of the gate.
THEOREM GateInvariance == Spec => []GateInv
  BY InitHolds, NextKeepsInvariant, PTL DEF Spec

\* Tables, calls, requests and effects stay in their types.
THEOREM GateTypes == Spec => []TypeOK
<1>1. GateInv => TypeOK
  BY DEF GateInv
<1> QED
  BY <1>1, GateInvariance, PTL

\* remediate.py _execute_gate: no patch without an approval of its own dry-run,
\* whatever the model calls at once and whatever the operators answer.
THEOREM ApprovalHolds == Spec => []OnlyApproved
<1>1. GateInv => OnlyApproved
  BY DEF GateInv
<1> QED
  BY <1>1, GateInvariance, PTL

-----------------------------------------------------------------------------
(* Uses of an approval.  As long as the dry-run it approves is stashed,    *)
(* every use of it is by a call that is about to pop it, or was answered   *)
(* by a timeout; once it is popped, only the calls that passed the gate    *)
(* before can still use it, and no call passes with it again.              *)
Uses(p) == {e \in effects : Whole(e) /\ e.approval = p}

Live(p) == \E e \in stash : e.action = row[p].action /\ e.nonce = row[p].nonce

Spent(c) == call[c].pc = "applied" /\ call[c].patch = Patches(call[c].action)

Working(c) == call[c].pc \in {"kubectl", "applied"} /\ ~Spent(c)

SpentOn(p) == {c \in Call : Spent(c) /\ call[c].approval = p}

WorkingOn(p) == {c \in Call : Working(c) /\ call[c].approval = p}

\* nothing holds a nonce that is still to be minted
Minted ==
  /\ \A p \in Approval : row[p].nonce <= Len(minted)
  /\ \A e \in stash : e.nonce <= Len(minted)

InUse(p) ==
  /\ Live(p) => Cardinality(Uses(p)) <= timeouts + Cardinality(SpentOn(p))
  /\ ~Live(p) => Cardinality(Uses(p)) + Cardinality(WorkingOn(p)) <= timeouts + Cardinality(Call)

UsesInv == GateInv /\ IsFiniteSet(Call) /\ Minted /\ \A p \in Approval : InUse(p)

UsesBounded == \A p \in Approval : Cardinality(Uses(p)) <= Cardinality(Call) + timeouts

LEMMA GrowsByOne ==
  ASSUME NEW S, IsFiniteSet(S), NEW x
  PROVE  /\ IsFiniteSet(S \cup {x}) /\ Cardinality(S \cup {x}) \in Nat
         /\ Cardinality(S \cup {x}) <= Cardinality(S) + 1
<1>1. Cardinality(S) \in Nat
  BY FS_CardinalityType
<1>2. CASE x \in S
  <2>1. S \cup {x} = S
    BY <1>2
  <2>2. Cardinality(S) <= Cardinality(S) + 1
    BY <1>1
  <2> QED
    BY <1>1, <2>1, <2>2, Zenon
<1>3. CASE x \notin S
  <2>1. IsFiniteSet(S \cup {x}) /\ Cardinality(S \cup {x}) = Cardinality(S) + 1
    BY <1>3, FS_AddElement
  <2> QED
    BY <1>1, <2>1
<1> QED
  BY <1>2, <1>3

LEMMA CallSetsFinite ==
  ASSUME IsFiniteSet(Call), NEW S \in SUBSET Call
  PROVE  IsFiniteSet(S) /\ Cardinality(S) \in Nat /\ Cardinality(S) <= Cardinality(Call)
  BY FS_Subset, FS_CardinalityType

LEMMA UsesFinite ==
  ASSUME GateInv, NEW p
  PROVE  IsFiniteSet(Uses(p)) /\ Cardinality(Uses(p)) \in Nat
<1>1. Uses(p) \in SUBSET effects /\ IsFiniteSet(effects)
  BY DEF Uses, GateInv, TypeOK
<1> QED
  BY <1>1, FS_Subset, FS_CardinalityType

(* The calls that used an approval and those that may still use it are     *)
(* different calls.                                                        *)
LEMMA SpentOrWorking ==
  ASSUME IsFiniteSet(Call), NEW p
  PROVE  /\ Cardinality(SpentOn(p)) \in Nat /\ Cardinality(WorkingOn(p)) \in Nat
         /\ Cardinality(Call) \in Nat
         /\ Cardinality(SpentOn(p)) + Cardinality(WorkingOn(p)) <= Cardinality(Call)
<1>1. SpentOn(p) \in SUBSET Call /\ WorkingOn(p) \in SUBSET Call
  BY DEF SpentOn, WorkingOn
<1>2. SpentOn(p) \cap WorkingOn(p) = {}
  BY DEF SpentOn, WorkingOn, Working
<1>3. /\ IsFiniteSet(SpentOn(p)) /\ Cardinality(SpentOn(p)) \in Nat
      /\ IsFiniteSet(WorkingOn(p)) /\ Cardinality(WorkingOn(p)) \in Nat
  BY <1>1, CallSetsFinite
<1>4. Cardinality(SpentOn(p) \cup WorkingOn(p)) = Cardinality(SpentOn(p)) + Cardinality(WorkingOn(p))
  <2>1. Cardinality(SpentOn(p) \cup WorkingOn(p)) =
          Cardinality(SpentOn(p)) + Cardinality(WorkingOn(p)) - Cardinality(SpentOn(p) \cap WorkingOn(p))
    BY <1>3, FS_Union
  <2>2. Cardinality(SpentOn(p) \cap WorkingOn(p)) = 0
    BY <1>2, FS_EmptySet
  <2> QED
    BY <1>3, <2>1, <2>2
<1>5. SpentOn(p) \cup WorkingOn(p) \in SUBSET Call
  BY <1>1
<1>6. Cardinality(SpentOn(p) \cup WorkingOn(p)) <= Cardinality(Call)
  BY <1>5, CallSetsFinite
<1>7. Cardinality(Call) \in Nat
  BY FS_CardinalityType
<1> QED
  BY <1>3, <1>4, <1>6, <1>7

LEMMA InUseBounds ==
  ASSUME GateInv, IsFiniteSet(Call), NEW p, InUse(p)
  PROVE  Cardinality(Uses(p)) <= Cardinality(Call) + timeouts
<1>1. timeouts \in Nat
  BY GateAssumption DEF GateInv, TypeOK
<1> QED
  BY <1>1, UsesFinite, SpentOrWorking DEF InUse

(* A step that does not use the approval and lets nobody else use it.      *)
LEMMA NoNewUse ==
  ASSUME GateInv, GateInv', IsFiniteSet(Call), NEW p, InUse(p),
         Uses(p)' = Uses(p), timeouts <= timeouts', WorkingOn(p)' \subseteq WorkingOn(p),
         Live(p)' => Live(p) /\ SpentOn(p)' = SpentOn(p)
  PROVE  InUse(p)'
<1>1. timeouts \in Nat /\ timeouts' \in Nat
  BY GateAssumption DEF GateInv, TypeOK
<1>2. Cardinality(Uses(p)) \in Nat
  BY UsesFinite
<1>3. /\ Cardinality(SpentOn(p)) \in Nat /\ Cardinality(WorkingOn(p)) \in Nat
      /\ Cardinality(Call) \in Nat
      /\ Cardinality(SpentOn(p)) + Cardinality(WorkingOn(p)) <= Cardinality(Call)
  BY SpentOrWorking
<1>4. WorkingOn(p) \in SUBSET Call
  BY DEF WorkingOn
<1>5. IsFiniteSet(WorkingOn(p))
  BY <1>4, CallSetsFinite
<1>6. Cardinality(WorkingOn(p)') <= Cardinality(WorkingOn(p)) /\ Cardinality(WorkingOn(p)') \in Nat
  BY <1>5, FS_Subset, FS_CardinalityType
<1>7. CASE Live(p)'
  <2>1. Cardinality(Uses(p)') <= timeouts' + Cardinality(SpentOn(p)')
    BY <1>1, <1>2, <1>3, <1>7 DEF InUse
  <2> QED
    BY <1>7, <2>1 DEF InUse
<1>8. CASE ~Live(p)'
  <2>1. Cardinality(Uses(p)) + Cardinality(WorkingOn(p)) <= timeouts + Cardinality(Call)
    BY <1>1, <1>2, <1>3 DEF InUse
  <2>2. Cardinality(Uses(p)') + Cardinality(WorkingOn(p)') <= timeouts' + Cardinality(Call)
    BY <1>1, <1>2, <1>3, <1>6, <2>1
  <2> QED
    BY <1>8, <2>2 DEF InUse
<1> QED
  BY <1>7, <1>8

(* A step of one call changes nothing of the others.                       *)
LEMMA OtherCalls ==
  ASSUME GateInv, NEW c \in Call, NEW new, call' = [call EXCEPT ![c] = new], NEW p
  PROVE  /\ call'[c] = new
         /\ \A d \in Call : d # c => call'[d] = call[d]
         /\ SpentOn(p)' \ {c} = SpentOn(p) \ {c}
         /\ WorkingOn(p)' \ {c} = WorkingOn(p) \ {c}
<1>1. call'[c] = new /\ \A d \in Call : d # c => call'[d] = call[d]
  BY DEF GateInv, TypeOK
<1> QED
  BY <1>1 DEF SpentOn, WorkingOn, Spent, Working

(* ... nor of an approval, unless the call uses it or was about to pop it. *)
LEMMA MoveUses ==
  ASSUME UsesInv, GateInv', NEW c \in Call, NEW new, call' = [call EXCEPT ![c] = new],
         UNCHANGED <<effects, row, stash>>, timeouts <= timeouts', ~Spent(c), ~Spent(c)',
         Working(c)' => Working(c) /\ new.approval = call[c].approval,
         NEW p \in Approval
  PROVE  InUse(p)'
<1>1. /\ call'[c] = new /\ \A d \in Call : d # c => call'[d] = call[d]
      /\ SpentOn(p)' \ {c} = SpentOn(p) \ {c}
      /\ WorkingOn(p)' \ {c} = WorkingOn(p) \ {c}
  BY OtherCalls DEF UsesInv
<1>2. c \notin SpentOn(p) /\ c \notin SpentOn(p)'
  BY DEF SpentOn
<1>3. SpentOn(p)' = SpentOn(p)
  BY <1>1, <1>2
<1>4. c \in WorkingOn(p)' => c \in WorkingOn(p)
  BY <1>1 DEF WorkingOn
<1>5. WorkingOn(p)' \subseteq WorkingOn(p)
  BY <1>1, <1>4
<1>6. Uses(p)' = Uses(p) /\ Live(p)' = Live(p)
  BY DEF Uses, Live
<1> QED
  BY <1>3, <1>5, <1>6, NoNewUse DEF UsesInv

LEMMA PlainCallUses ==
  ASSUME UsesInv, GateInv', NEW c \in Call,
         \/ SetAwaiting(c) \/ Park(c) \/ Resume(c) \/ SetRunning(c) \/ Refuse(c)
         \/ KubectlFails(c) \/ NextPatch(c) \/ Record(c) \/ RecordFails(c) \/ CallFails(c)
         \/ \E a \in Action, p \in Approval : ReadApproval(c, a, p),
         NEW p \in Approval
  PROVE  InUse(p)'
<1>1. call[c] \in CallState /\ call \in [Call -> CallState] /\ timeouts \in Nat
  BY GateAssumption DEF UsesInv, GateInv, TypeOK
<1>2. UNCHANGED <<effects, row, stash, timeouts>>
  BY DEF SetAwaiting, Park, Resume, SetRunning, Refuse, KubectlFails, NextPatch, Record,
         RecordFails, CallFails, ReadApproval
<1>3. CASE NextPatch(c)
  <2>1. call' = [call EXCEPT ![c] = [call[c] EXCEPT !.pc = "kubectl", !.patch = 2]]
    BY <1>3 DEF NextPatch
  <2>2. /\ call'[c].pc = "kubectl" /\ call'[c].approval = call[c].approval
        /\ [call[c] EXCEPT !.pc = "kubectl", !.patch = 2].approval = call[c].approval
    BY <1>1, <2>1 DEF CallState
  <2>3. call[c].pc = "applied" /\ call[c].patch < Patches(call[c].action)
    BY <1>3 DEF NextPatch
  <2>4. call[c].patch \in {1, 2} /\ Patches(call[c].action) \in {1, 2}
    BY <1>1 DEF CallState, Patches
  <2>5. ~Spent(c) /\ ~Spent(c)' /\ Working(c)
    BY <2>2, <2>3, <2>4 DEF Spent, Working
  <2>6. timeouts <= timeouts' /\ UNCHANGED <<effects, row, stash>>
    BY <1>1, <1>2
  <2>7. Working(c)' => Working(c) /\ [call[c] EXCEPT !.pc = "kubectl", !.patch = 2].approval = call[c].approval
    BY <2>2, <2>5
  <2> QED
    BY <2>1, <2>5, <2>6, <2>7, MoveUses
<1>4. CASE ~NextPatch(c)
  <2>1. /\ call[c].pc \in {"idle", "inserted", "announce", "parked", "resumed", "gate",
                           "kubectl", "record"}
        /\ \E new : call' = [call EXCEPT ![c] = new]
    BY <1>4 DEF SetAwaiting, Park, Resume, SetRunning, Refuse, KubectlFails, Record,
                RecordFails, CallFails, ReadApproval, Goto
  <2>2. PICK new : call' = [call EXCEPT ![c] = new]
    BY <2>1
  <2>3. call'[c].pc \notin {"kubectl", "applied"}
    <3>1. Idle.pc = "idle"
      BY IdleIsCall
    <3>2. CASE SetAwaiting(c) \/ Park(c) \/ Resume(c)
      BY <1>1, <3>1, <3>2 DEF SetAwaiting, Park, Resume, Goto, CallState
    <3>3. CASE \/ SetRunning(c) \/ Refuse(c) \/ KubectlFails(c) \/ Record(c) \/ RecordFails(c)
               \/ CallFails(c)
      BY <1>1, <3>1, <3>3 DEF SetRunning, Refuse, KubectlFails, Record, RecordFails, CallFails
    <3>4. CASE \E a \in Action, q \in Approval : ReadApproval(c, a, q)
      BY <1>1, <3>4 DEF ReadApproval, Idle
    <3> QED
      BY <1>4, <3>2, <3>3, <3>4
  <2>4. ~Spent(c) /\ ~Spent(c)' /\ ~Working(c)'
    BY <2>1, <2>3 DEF Spent, Working
  <2>5. timeouts <= timeouts' /\ UNCHANGED <<effects, row, stash>>
    BY <1>1, <1>2
  <2> QED
    BY <2>2, <2>4, <2>5, MoveUses
<1> QED
  BY <1>3, <1>4

(* A patch that reached the cluster: the call had passed the gate.         *)
LEMMA ApplyUses ==
  ASSUME UsesInv, GateInv', NEW c \in Call, KubectlApplies(c), NEW p \in Approval
  PROVE  InUse(p)'
<1> DEFINE new == [call[c] EXCEPT !.pc = "applied"]
           e == [approval |-> call[c].approval, action |-> call[c].action,
                 nonce |-> call[c].nonce, patch |-> call[c].patch, use |-> Cardinality(effects)]
<1>1. /\ call[c] \in CallState /\ call[c].pc = "kubectl"
      /\ call' = [call EXCEPT ![c] = new] /\ effects' = effects \cup {e}
      /\ UNCHANGED <<row, stash, timeouts>>
  BY DEF UsesInv, GateInv, TypeOK, KubectlApplies, Goto
<1>2. /\ new.pc = "applied" /\ new.approval = call[c].approval /\ new.patch = call[c].patch
      /\ new.action = call[c].action
      /\ e.approval = call[c].approval /\ e.patch = call[c].patch /\ e.action = call[c].action
  BY <1>1 DEF CallState
<1> HIDE DEF new, e
<1>3. /\ call'[c] = new /\ \A d \in Call : d # c => call'[d] = call[d]
      /\ SpentOn(p)' \ {c} = SpentOn(p) \ {c}
      /\ WorkingOn(p)' \ {c} = WorkingOn(p) \ {c}
  BY <1>1, OtherCalls DEF UsesInv
<1>4. timeouts \in Nat /\ IsFiniteSet(Call) /\ InUse(p) /\ GateInv
  BY GateAssumption DEF UsesInv, GateInv, TypeOK
<1>5. Live(p)' = Live(p)
  BY <1>1 DEF Live
<1>6. CASE call[c].patch = Patches(call[c].action) /\ call[c].approval = p
  <2>1. c \notin SpentOn(p) /\ c \in WorkingOn(p)
    BY <1>1, <1>6 DEF SpentOn, WorkingOn, Spent, Working
  <2>2. c \in SpentOn(p)' /\ c \notin WorkingOn(p)'
    BY <1>2, <1>3, <1>6 DEF SpentOn, WorkingOn, Spent, Working
  <2>3. SpentOn(p)' = SpentOn(p) \cup {c} /\ WorkingOn(p)' = WorkingOn(p) \ {c}
    BY <1>3, <2>1, <2>2
  <2>4. SpentOn(p) \in SUBSET Call /\ WorkingOn(p) \in SUBSET Call
    BY DEF SpentOn, WorkingOn
  <2>5. /\ IsFiniteSet(SpentOn(p)) /\ Cardinality(SpentOn(p)) \in Nat
        /\ IsFiniteSet(WorkingOn(p)) /\ Cardinality(WorkingOn(p)) \in Nat
        /\ Cardinality(Call) \in Nat
    BY <1>4, <2>4, CallSetsFinite, FS_CardinalityType
  <2>6. /\ Cardinality(SpentOn(p)') = Cardinality(SpentOn(p)) + 1
        /\ Cardinality(WorkingOn(p)') = Cardinality(WorkingOn(p)) - 1
    <3>1. Cardinality(SpentOn(p) \cup {c}) = Cardinality(SpentOn(p)) + 1
      BY <2>1, <2>5, FS_AddElement
    <3>2. Cardinality(WorkingOn(p) \ {c}) = Cardinality(WorkingOn(p)) - 1
      BY <2>1, <2>5, FS_RemoveElement
    <3> QED
      BY <2>3, <3>1, <3>2
  <2>7. Uses(p)' \subseteq Uses(p) \cup {e}
    BY <1>1 DEF Uses
  <2>8. IsFiniteSet(Uses(p)) /\ Cardinality(Uses(p)) \in Nat
    BY <1>4, UsesFinite
  <2>9. /\ IsFiniteSet(Uses(p) \cup {e}) /\ Cardinality(Uses(p) \cup {e}) \in Nat
        /\ Cardinality(Uses(p) \cup {e}) <= Cardinality(Uses(p)) + 1
    BY <2>8, GrowsByOne
  <2>10. Cardinality(Uses(p)') <= Cardinality(Uses(p)) + 1 /\ Cardinality(Uses(p)') \in Nat
    BY <2>7, <2>8, <2>9, FS_Subset, FS_CardinalityType
  <2>11. Live(p)' => Cardinality(Uses(p)') <= timeouts' + Cardinality(SpentOn(p)')
    BY <1>1, <1>4, <1>5, <2>5, <2>6, <2>8, <2>10 DEF InUse
  <2>12. ~Live(p)' => Cardinality(Uses(p)') + Cardinality(WorkingOn(p)')
                        <= timeouts' + Cardinality(Call)
    BY <1>1, <1>4, <1>5, <2>5, <2>6, <2>8, <2>10 DEF InUse
  <2> QED
    BY <2>11, <2>12 DEF InUse
<1>7. CASE ~(call[c].patch = Patches(call[c].action) /\ call[c].approval = p)
  <2>1. ~(Whole(e) /\ e.approval = p)
    BY <1>2, <1>7 DEF Whole
  <2>2. Uses(p)' = Uses(p)
    BY <1>1, <2>1 DEF Uses
  <2>3. c \notin SpentOn(p) /\ c \notin SpentOn(p)'
    BY <1>1, <1>2, <1>3, <1>7 DEF SpentOn, Spent
  <2>4. c \in WorkingOn(p)' => c \in WorkingOn(p)
    BY <1>1, <1>2, <1>3 DEF WorkingOn, Working, Spent
  <2>5. SpentOn(p)' = SpentOn(p) /\ WorkingOn(p)' \subseteq WorkingOn(p)
    BY <1>3, <2>3, <2>4
  <2> QED
    BY <1>1, <1>4, <1>5, <2>2, <2>5, NoNewUse
<1> QED
  BY <1>6, <1>7

(* A call that is let through holds a dry-run that is still stashed.       *)
LEMMA AdmitUses ==
  ASSUME UsesInv, GateInv', NEW c \in Call, Admit(c), NEW p \in Approval
  PROVE  InUse(p)'
<1>1. PICK e \in stash : /\ Verified(c, e)
                         /\ call' = [call EXCEPT ![c] = [call[c] EXCEPT !.pc = "kubectl", !.nonce = e.nonce]]
  BY DEF Admit
<1> DEFINE new == [call[c] EXCEPT !.pc = "kubectl", !.nonce = e.nonce]
<1>2. call[c] \in CallState /\ call[c].pc = "gate" /\ UNCHANGED <<effects, row, stash, timeouts>>
  BY DEF UsesInv, GateInv, TypeOK, Admit
<1>3. new.pc = "kubectl" /\ new.approval = call[c].approval
  BY <1>2 DEF CallState
<1> HIDE DEF new
<1>4. /\ call'[c] = new /\ \A d \in Call : d # c => call'[d] = call[d]
      /\ SpentOn(p)' \ {c} = SpentOn(p) \ {c}
      /\ WorkingOn(p)' \ {c} = WorkingOn(p) \ {c}
  BY <1>1, OtherCalls DEF UsesInv, new
<1>5. c \notin SpentOn(p) /\ c \notin SpentOn(p)'
  BY <1>2, <1>3, <1>4 DEF SpentOn, Spent
<1>6. SpentOn(p)' = SpentOn(p) /\ Live(p)' = Live(p) /\ Uses(p)' = Uses(p)
  BY <1>2, <1>4, <1>5 DEF Live, Uses
<1>7. CASE p = call[c].approval
  <2>1. Live(p)
    BY <1>1, <1>7 DEF Verified, Live
  <2> QED
    BY <1>2, <1>6, <2>1 DEF UsesInv, InUse
<1>8. CASE p # call[c].approval
  <2>1. c \notin WorkingOn(p) /\ c \notin WorkingOn(p)'
    BY <1>3, <1>4, <1>8 DEF WorkingOn
  <2>2. WorkingOn(p)' = WorkingOn(p)
    BY <1>4, <2>1
  <2> QED
    BY <1>2, <1>6, <2>2 DEF UsesInv, InUse
<1> QED
  BY <1>7, <1>8

(* An answer that is lost, and one that pops the dry-run.                  *)
LEMMA AnswerUses ==
  ASSUME UsesInv, GateInv', NEW c \in Call, KubectlTimesOut(c) \/ Consume(c), NEW p \in Approval
  PROVE  InUse(p)'
<1>1. PICK new : call' = [call EXCEPT ![c] = new]
  BY DEF KubectlTimesOut, Consume
<1>2. /\ call[c] \in CallState /\ call[c].pc = "applied" /\ UNCHANGED <<effects, row>>
      /\ stash' \subseteq stash /\ IsFiniteSet(Call) /\ InUse(p) /\ GateInv
      /\ timeouts \in Nat /\ timeouts' \in Nat /\ timeouts <= timeouts'
      /\ call'[c].pc \in {"idle", "record"}
  <2>1. Idle.pc = "idle"
    BY IdleIsCall
  <2>2. call'[c].pc \in {"idle", "record"}
    <3>1. call[c] \in CallState /\ call \in [Call -> CallState]
      BY DEF UsesInv, GateInv, TypeOK
    <3>2. [call[c] EXCEPT !.pc = "record"].pc = "record"
      BY <3>1 DEF CallState
    <3> QED
      BY <2>1, <3>1, <3>2 DEF KubectlTimesOut, Consume
  <2> QED
    BY <2>2, GateAssumption DEF UsesInv, GateInv, TypeOK, KubectlTimesOut, Consume
<1>3. /\ \A d \in Call : d # c => call'[d] = call[d]
      /\ SpentOn(p)' \ {c} = SpentOn(p) \ {c}
      /\ WorkingOn(p)' \ {c} = WorkingOn(p) \ {c}
  BY <1>1, OtherCalls DEF UsesInv
<1>4. c \notin SpentOn(p)' /\ c \notin WorkingOn(p)'
  BY <1>2 DEF SpentOn, WorkingOn, Spent, Working
<1>5. WorkingOn(p)' \subseteq WorkingOn(p) /\ Uses(p)' = Uses(p) /\ (Live(p)' => Live(p))
  BY <1>2, <1>3, <1>4 DEF Uses, Live
<1>6. CASE c \notin SpentOn(p)
  <2>1. SpentOn(p)' = SpentOn(p)
    BY <1>3, <1>4, <1>6
  <2> QED
    BY <1>2, <1>5, <2>1, NoNewUse
<1>7. CASE c \in SpentOn(p) /\ KubectlTimesOut(c)
  <2>1. SpentOn(p)' = SpentOn(p) \ {c} /\ SpentOn(p) \in SUBSET Call
    BY <1>3, <1>4, <1>7 DEF SpentOn
  <2>2. IsFiniteSet(SpentOn(p)) /\ Cardinality(SpentOn(p)) \in Nat
    BY <1>2, <2>1, CallSetsFinite
  <2>3. Cardinality(SpentOn(p)') = Cardinality(SpentOn(p)) - 1
    BY <1>7, <2>1, <2>2, FS_RemoveElement
  <2>4. timeouts' = timeouts + 1 /\ Live(p)' = Live(p)
    BY <1>7, <1>2 DEF KubectlTimesOut, Live
  <2>5. c \notin WorkingOn(p)
    BY <1>7 DEF SpentOn, WorkingOn, Working
  <2>6. WorkingOn(p)' = WorkingOn(p)
    BY <1>3, <1>4, <2>5
  <2>7. /\ Cardinality(Uses(p)) \in Nat /\ Cardinality(WorkingOn(p)) \in Nat
        /\ Cardinality(Call) \in Nat
    BY <1>2, UsesFinite, SpentOrWorking
  <2>8. Live(p) => Cardinality(Uses(p)') <= timeouts' + Cardinality(SpentOn(p)')
    BY <1>2, <1>5, <2>2, <2>3, <2>4, <2>7 DEF InUse
  <2>9. ~Live(p) => Cardinality(Uses(p)') + Cardinality(WorkingOn(p)') <= timeouts' + Cardinality(Call)
    BY <1>2, <1>5, <2>4, <2>6, <2>7 DEF InUse
  <2> QED
    BY <2>4, <2>8, <2>9 DEF InUse
<1>8. CASE c \in SpentOn(p) /\ Consume(c)
  <2>1. row[p].action = call[c].action
    BY <1>2, <1>8 DEF SpentOn, GateInv, GateSound, Past, ApprovedFor
  <2>2. ~Live(p)'
    BY <1>2, <1>8, <2>1 DEF Live, Consume, Stashed
  <2> QED
    BY <1>2, <1>5, <2>2, NoNewUse
<1> QED
  BY <1>6, <1>7, <1>8

(* A dry-run: its nonce is no approval's yet.                              *)
LEMMA DryRunUses ==
  ASSUME UsesInv, GateInv', NEW c \in Call, NEW a \in Action, DryRun(c, a)
  PROVE  Minted' /\ \A p \in Approval : InUse(p)'
<1>1. /\ minted \in Seq(Action) /\ Len(minted) \in Nat /\ Minted /\ IsFiniteSet(Call) /\ GateInv
      /\ timeouts \in Nat /\ stash \subseteq StashEntry /\ row \in [Approval -> ApprovalRow]
  BY GateAssumption DEF UsesInv, GateInv, TypeOK
<1>2. Len(minted') = Len(minted) + 1 /\ UNCHANGED <<row, call, effects, timeouts>>
  BY <1>1 DEF DryRun
<1>3. ASSUME NEW e \in stash' PROVE e \in stash \/ e.nonce = Len(minted) + 1
  <2>1. e \in Refreshed(a)
    BY <1>3 DEF DryRun, Evicted
  <2> QED
    BY <2>1 DEF Refreshed
<1>4. Minted'
  <2>1. \A p \in Approval : row'[p].nonce <= Len(minted')
    <3>1. \A p \in Approval : row[p].nonce \in Nat /\ row[p].nonce <= Len(minted)
      BY <1>1 DEF Minted, ApprovalRow, Nonce
    <3> QED
      BY <1>1, <1>2, <3>1
  <2>2. \A e \in stash' : e.nonce <= Len(minted')
    <3>1. \A e \in stash : e.nonce \in Nat /\ e.nonce <= Len(minted)
      BY <1>1 DEF Minted, StashEntry, Nonce
    <3> QED
      BY <1>1, <1>2, <1>3, <3>1
  <2> QED
    BY <2>1, <2>2 DEF Minted
<1>5. ASSUME NEW p \in Approval PROVE InUse(p)'
  <2>1. row[p].nonce \in Nat /\ row[p].nonce <= Len(minted)
    BY <1>1 DEF Minted, ApprovalRow, Nonce
  <2>2. Live(p)' => Live(p)
    BY <1>1, <1>2, <1>3, <2>1 DEF Live
  <2>3. /\ Uses(p)' = Uses(p) /\ SpentOn(p)' = SpentOn(p) /\ WorkingOn(p)' = WorkingOn(p)
    BY <1>2 DEF Uses, SpentOn, WorkingOn, Spent, Working
  <2> QED
    BY <1>1, <1>2, <2>2, <2>3, NoNewUse DEF UsesInv
<1> QED
  BY <1>4, <1>5

(* A row that is inserted was used by nobody.                              *)
LEMMA ProposeUses ==
  ASSUME UsesInv, GateInv', NEW c \in Call, NEW q \in Approval, Propose(c, q)
  PROVE  Minted' /\ \A p \in Approval : InUse(p)'
<1> DEFINE new == [Idle EXCEPT !.pc = "inserted", !.approval = q]
<1>1. /\ minted \in Seq(Action) /\ Len(minted) \in Nat /\ Minted /\ IsFiniteSet(Call) /\ GateInv
      /\ timeouts \in Nat /\ stash \subseteq StashEntry /\ row \in [Approval -> ApprovalRow]
  BY GateAssumption DEF UsesInv, GateInv, TypeOK
<1>2. /\ UNCHANGED <<stash, minted, effects, timeouts>> /\ call[c].pc = "idle"
      /\ call' = [call EXCEPT ![c] = new] /\ row[q].decision = "absent"
  BY DEF Propose
<1>3. new.pc = "inserted" /\ new.approval = q
  BY DEF Idle
<1> HIDE DEF new
<1>4. /\ row'[q].nonce = 0 \/ \E e \in stash : row'[q].nonce = e.nonce
      /\ \A p \in Approval : p # q => row'[p] = row[p]
  <2>1. CASE row' = [row EXCEPT ![q] = [decision |-> "null", action |-> None, nonce |-> 0]]
    BY <1>1, <2>1
  <2>2. CASE \E e \in stash :
               row' = [row EXCEPT ![q] = [decision |-> "null", action |-> e.action, nonce |-> e.nonce]]
    BY <1>1, <2>2
  <2> QED
    BY <2>1, <2>2 DEF Propose
<1>5. Minted'
  BY <1>1, <1>2, <1>4 DEF Minted
<1>6. ASSUME NEW p \in Approval PROVE InUse(p)'
  <2>1. /\ call'[c] = new /\ \A d \in Call : d # c => call'[d] = call[d]
        /\ SpentOn(p)' \ {c} = SpentOn(p) \ {c}
        /\ WorkingOn(p)' \ {c} = WorkingOn(p) \ {c}
    BY <1>1, <1>2, OtherCalls
  <2>2. /\ c \notin SpentOn(p) /\ c \notin SpentOn(p)' /\ c \notin WorkingOn(p)
        /\ c \notin WorkingOn(p)'
    BY <1>2, <1>3, <2>1 DEF SpentOn, WorkingOn, Spent, Working
  <2>3. SpentOn(p)' = SpentOn(p) /\ WorkingOn(p)' = WorkingOn(p) /\ Uses(p)' = Uses(p)
    BY <1>2, <2>1, <2>2 DEF Uses
  <2>4. CASE p = q
    <3>1. Uses(p) = {}
      BY <1>1, <1>2, <2>4 DEF Uses, GateInv, OnlyApproved, ApprovedFor
    <3>2. WorkingOn(p) = {}
      BY <1>1, <1>2, <2>4 DEF WorkingOn, Working, GateInv, GateSound, Past, ApprovedFor
    <3>3. /\ Cardinality(Uses(p)') = 0 /\ Cardinality(WorkingOn(p)') = 0
          /\ Cardinality(SpentOn(p)') \in Nat /\ Cardinality(Call) \in Nat
      BY <1>1, <2>3, <3>1, <3>2, FS_EmptySet, SpentOrWorking
    <3> QED
      BY <1>1, <1>2, <3>3 DEF InUse
  <2>5. CASE p # q
    <3>1. Live(p)' = Live(p)
      BY <1>2, <1>4, <2>5 DEF Live
    <3> QED
      BY <1>1, <1>2, <2>3, <3>1, NoNewUse DEF UsesInv
  <2> QED
    BY <2>4, <2>5
<1> QED
  BY <1>5, <1>6

(* Requests, the session and the process.                                  *)
LEMMA OthersUses ==
  ASSUME UsesInv, GateInv',
         \/ \E o \in Operator : PostStep(o) \/ SettleFails(o)
         \/ \E o \in Operator, p \in Approval, d \in Decision : Decide(o, p, d)
         \/ CloseSession \/ EndRun \/ Restart \/ UNCHANGED vars
  PROVE  Minted' /\ \A p \in Approval : InUse(p)'
<1>1. /\ Minted /\ IsFiniteSet(Call) /\ GateInv /\ timeouts \in Nat
      /\ row \in [Approval -> ApprovalRow]
  BY GateAssumption DEF UsesInv, GateInv, TypeOK
<1>2. /\ UNCHANGED <<minted, effects, timeouts>> /\ stash' \subseteq stash
      /\ \A p \in Approval : row'[p].action = row[p].action /\ row'[p].nonce = row[p].nonce
  <2>1. CASE \E o \in Operator, p \in Approval, d \in Decision : Decide(o, p, d)
    <3>1. PICK o \in Operator, p \in Approval, d \in Decision : Decide(o, p, d)
      BY <2>1
    <3>2. PICK new : row' = [row EXCEPT ![p] = [row[p] EXCEPT !.decision = new]]
      BY <3>1 DEF Decide
    <3>3. \A q \in Approval : row'[q].action = row[q].action /\ row'[q].nonce = row[q].nonce
      <4> TAKE q \in Approval
      <4>1. row[q] \in ApprovalRow
        BY <1>1
      <4>2. row'[q] = IF q = p THEN [row[q] EXCEPT !.decision = new] ELSE row[q]
        BY <1>1, <3>2
      <4> QED
        BY <4>1, <4>2 DEF ApprovalRow
    <3> QED
      BY <3>1, <3>3 DEF Decide
  <2>2. CASE ~(\E o \in Operator, p \in Approval, d \in Decision : Decide(o, p, d))
    BY <2>2 DEF PostStep, Resolve, Settle, SettleFails, CloseSession, EndRun, Restart, vars
  <2> QED
    BY <2>1, <2>2
<1>3. Minted'
  BY <1>1, <1>2 DEF Minted
<1>4. ASSUME NEW p \in Approval PROVE InUse(p)'
  <2>1. Uses(p)' = Uses(p)
    BY <1>2 DEF Uses
  <2>2. Live(p)' => Live(p)
    BY <1>2 DEF Live
  <2>3. CASE Restart
    <3>1. ~Live(p)'
      BY <2>3 DEF Live, Restart
    <3>2. WorkingOn(p)' = {}
      BY <2>3, IdleIsCall DEF WorkingOn, Working, Restart
    <3> QED
      BY <1>1, <1>2, <2>1, <3>1, <3>2, NoNewUse DEF UsesInv
  <2>4. CASE ~Restart
    <3>1. call' = call
      BY <2>4 DEF PostStep, Resolve, Settle, SettleFails, Decide, CloseSession, EndRun, vars
    <3>2. SpentOn(p)' = SpentOn(p) /\ WorkingOn(p)' = WorkingOn(p)
      BY <3>1 DEF SpentOn, WorkingOn, Spent, Working
    <3> QED
      BY <1>1, <1>2, <2>1, <2>2, <3>2, NoNewUse DEF UsesInv
  <2> QED
    BY <2>3, <2>4
<1> QED
  BY <1>3, <1>4

LEMMA UsesStep == UsesInv /\ [Next]_vars => UsesInv'
<1> SUFFICES ASSUME UsesInv, [Next]_vars PROVE UsesInv'
  OBVIOUS
<1>1. GateInv' /\ GateInv
  BY NextKeepsInvariant DEF UsesInv
<1>2. ASSUME Minted', \A p \in Approval : InUse(p)' PROVE UsesInv'
  BY <1>1, <1>2 DEF UsesInv
<1>3. ASSUME NEW c \in Call,
             \/ CallStep(c) \/ KubectlTimesOut(c) \/ RecordFails(c) \/ CallFails(c)
             \/ \E a \in Action, p \in Approval : ReadApproval(c, a, p)
      PROVE  UsesInv'
  <2>1. UNCHANGED <<row, minted>> /\ stash' \subseteq stash
    BY <1>3 DEF CallStep, SetAwaiting, Park, Resume, SetRunning, Admit, Refuse, KubectlFails,
         KubectlApplies, NextPatch, Consume, Record, KubectlTimesOut, RecordFails, CallFails,
         ReadApproval
  <2>2. Minted'
    BY <2>1 DEF UsesInv, Minted
  <2>3. ASSUME NEW p \in Approval PROVE InUse(p)'
    BY <1>1, <1>3, PlainCallUses, ApplyUses, AdmitUses, AnswerUses DEF CallStep
  <2> QED
    BY <1>2, <2>2, <2>3
<1>4. ASSUME NEW c \in Call, NEW a \in Action, DryRun(c, a) PROVE UsesInv'
  BY <1>1, <1>2, <1>4, DryRunUses
<1>5. ASSUME NEW c \in Call, NEW p \in Approval, Propose(c, p) PROVE UsesInv'
  BY <1>1, <1>2, <1>5, ProposeUses
<1>6. CASE \/ \E o \in Operator : PostStep(o) \/ SettleFails(o)
           \/ \E o \in Operator, p \in Approval, d \in Decision : Decide(o, p, d)
           \/ CloseSession \/ EndRun \/ Restart \/ UNCHANGED vars
  BY <1>1, <1>2, <1>6, OthersUses
<1> QED
  BY <1>3, <1>4, <1>5, <1>6 DEF Next

LEMMA UsesInit == Init /\ IsFiniteSet(Call) => UsesInv
<1> SUFFICES ASSUME Init, IsFiniteSet(Call) PROVE UsesInv
  OBVIOUS
<1>1. Minted
  BY DEF Init, Minted, NoRow
<1>2. ASSUME NEW p \in Approval PROVE InUse(p)
  <2>1. Uses(p) = {} /\ ~Live(p) /\ WorkingOn(p) = {} /\ timeouts = 0
    BY IdleIsCall DEF Init, Uses, Live, WorkingOn, Working
  <2>2. Cardinality(Uses(p)) = 0 /\ Cardinality(WorkingOn(p)) = 0 /\ Cardinality(Call) \in Nat
    BY <2>1, FS_EmptySet, FS_CardinalityType
  <2> QED
    BY <2>1, <2>2 DEF InUse
<1> QED
  BY <1>1, <1>2, InitHolds DEF UsesInv

(* However many tool calls the model runs at once, an approval is used no  *)
(* more often than there are calls, but for answers that were lost.        *)
THEOREM UsesAreBounded == IsFiniteSet(Call) /\ Spec => []UsesBounded
<1>1. UsesInv => UsesBounded
  BY InUseBounds DEF UsesInv, UsesBounded
<1> QED
  BY <1>1, UsesInit, UsesStep, PTL DEF Spec

\* at most one at a time
OneAtATime(S) == \A x, y \in S : x = y

LEMMA OneIsFinite ==
  ASSUME NEW S, OneAtATime(S)
  PROVE  IsFiniteSet(S) /\ Cardinality(S) \in {0, 1}
<1>1. CASE S = {}
  BY <1>1, FS_EmptySet
<1>2. CASE S # {}
  <2>1. PICK x : S = {x}
    BY <1>2 DEF OneAtATime
  <2> QED
    BY <2>1, FS_Singleton
<1> QED
  BY <1>1, <1>2

(* remediate.py _consume_dryrun: when the model runs one tool call at a    *)
(* time, an approval is used once, but for answers that were lost.         *)
THEOREM SingleUseHolds == OneAtATime(Call) /\ Spec => []SingleUse
<1>1. OneAtATime(Call) => IsFiniteSet(Call)
  BY OneIsFinite
<1>2. OneAtATime(Call) /\ UsesInv => SingleUse
  <2> SUFFICES ASSUME OneAtATime(Call), UsesInv, NEW p \in Approval
               PROVE  Cardinality({e \in effects : Whole(e) /\ e.approval = p}) <= 1 + timeouts
    BY DEF SingleUse
  <2>1. Cardinality(Uses(p)) <= Cardinality(Call) + timeouts /\ Cardinality(Uses(p)) \in Nat
    BY InUseBounds, UsesFinite DEF UsesInv
  <2>2. Cardinality(Call) \in {0, 1} /\ timeouts \in Nat
    BY OneIsFinite, GateAssumption DEF UsesInv, GateInv, TypeOK
  <2> QED
    BY <2>1, <2>2 DEF Uses
<1>3. OneAtATime(Call) /\ UsesInv /\ [Next]_vars => (OneAtATime(Call) /\ UsesInv)'
  BY UsesStep DEF OneAtATime
<1> QED
  BY <1>1, <1>2, <1>3, UsesInit, PTL DEF Spec

-----------------------------------------------------------------------------
(* The timeline.  A call that applied the last patch, or popped the        *)
(* dry-run, owes the timeline one remediation.                             *)
WholeEffects == {e \in effects : Whole(e)}

Owing == {c \in Call : call[c].pc = "record" \/ Spent(c)}

\* every patch has a number of its own
Numbered == \A e \in effects : e.use < Cardinality(effects)

\* what a call past the gate holds is still stashed
Holding ==
  \A c \in Call : call[c].pc \in {"kubectl", "applied"} =>
    \E e \in stash : e.action = call[c].action /\ e.nonce = call[c].nonce

Recorded ==
  /\ timeline + Cardinality(Owing) <= Cardinality(WholeEffects)
  /\ Cardinality(WholeEffects) <= timeline + Cardinality(Owing) + timeouts + faults

RecordInv == GateInv /\ OneAtATime(Call) /\ Numbered /\ Holding /\ Recorded

LEMMA RecordTypes ==
  ASSUME GateInv, OneAtATime(Call)
  PROVE  /\ timeline \in Nat /\ timeouts \in Nat /\ faults \in Nat
         /\ IsFiniteSet(effects) /\ Cardinality(effects) \in Nat
         /\ IsFiniteSet(WholeEffects) /\ Cardinality(WholeEffects) \in Nat
         /\ Cardinality(Owing) \in {0, 1}
         /\ \A c \in Owing : Owing = {c}
         /\ \A c \in Owing : Cardinality(Owing) = 1
         /\ Owing = {} => Cardinality(Owing) = 0
<1>1. timeline \in Nat /\ timeouts \in Nat /\ faults \in Nat /\ IsFiniteSet(effects)
  BY GateAssumption DEF GateInv, TypeOK
<1>2. WholeEffects \in SUBSET effects
  BY DEF WholeEffects
<1>3. /\ Cardinality(effects) \in Nat
      /\ IsFiniteSet(WholeEffects) /\ Cardinality(WholeEffects) \in Nat
  BY <1>1, <1>2, FS_Subset, FS_CardinalityType
<1>4. OneAtATime(Owing)
  BY DEF OneAtATime, Owing
<1>5. Cardinality(Owing) \in {0, 1}
  BY <1>4, OneIsFinite
<1>6. \A c \in Owing : Owing = {c}
  BY <1>4 DEF OneAtATime
<1>7. \A c \in Owing : Cardinality(Owing) = 1
  <2>1. \A c : Cardinality({c}) = 1
    BY FS_Singleton
  <2> QED
    BY <1>6, <2>1
<1>8. Owing = {} => Cardinality(Owing) = 0
  BY FS_EmptySet
<1> QED
  BY <1>1, <1>3, <1>5, <1>6, <1>7, <1>8

(* A step that neither applies a patch nor pays what is owed.              *)
LEMMA NothingToRecord ==
  ASSUME RecordInv, UNCHANGED <<effects, timeline>>, Owing' = Owing,
         timeouts <= timeouts', faults <= faults', timeouts' \in Nat, faults' \in Nat
  PROVE  Numbered' /\ Recorded'
<1>1. Numbered'
  BY DEF RecordInv, Numbered
<1>2. /\ timeline \in Nat /\ timeouts \in Nat /\ faults \in Nat
      /\ Cardinality(WholeEffects) \in Nat /\ Cardinality(Owing) \in {0, 1}
  BY RecordTypes DEF RecordInv
<1>3. WholeEffects' = WholeEffects
  BY DEF WholeEffects
<1>4. /\ timeline + Cardinality(Owing) <= Cardinality(WholeEffects)
      /\ Cardinality(WholeEffects) <= timeline + Cardinality(Owing) + timeouts + faults
  BY DEF RecordInv, Recorded
<1>5. /\ timeline' + Cardinality(Owing') <= Cardinality(WholeEffects')
      /\ Cardinality(WholeEffects') <= timeline' + Cardinality(Owing') + timeouts' + faults'
  BY <1>2, <1>3, <1>4
<1> QED
  BY <1>1, <1>5 DEF Recorded

(* With one call at a time, all others are this one.                       *)
LEMMA OnlyCall ==
  ASSUME GateInv, OneAtATime(Call), NEW c \in Call, NEW new, call' = [call EXCEPT ![c] = new]
  PROVE  /\ call'[c] = new
         /\ \A d \in Call : d = c
         /\ Owing = {} \/ Owing = {c}
         /\ Owing' = IF c \in Owing' THEN {c} ELSE {}
<1>1. call'[c] = new /\ \A d \in Call : d = c
  BY DEF GateInv, TypeOK, OneAtATime
<1>2. Owing \subseteq Call /\ Owing' \subseteq Call
  BY DEF Owing
<1> QED
  BY <1>1, <1>2

LEMMA PlainCallRecords ==
  ASSUME RecordInv, GateInv', NEW c \in Call,
         \/ SetAwaiting(c) \/ Park(c) \/ Resume(c) \/ SetRunning(c) \/ Refuse(c)
         \/ KubectlFails(c) \/ NextPatch(c) \/ CallFails(c) \/ Admit(c)
         \/ \E a \in Action, p \in Approval : ReadApproval(c, a, p)
         \/ \E a \in Action : DryRun(c, a)
         \/ \E p \in Approval : Propose(c, p)
  PROVE  Numbered' /\ Recorded' /\ Holding'
<1>1. /\ call[c] \in CallState /\ call \in [Call -> CallState] /\ GateInv /\ OneAtATime(Call)
      /\ timeouts \in Nat /\ faults \in Nat /\ timeouts' \in Nat /\ faults' \in Nat
      /\ \A d \in Call : d = c
  BY GateAssumption DEF RecordInv, GateInv, TypeOK, OneAtATime
<1>2. /\ UNCHANGED <<effects, timeline>> /\ timeouts <= timeouts' /\ faults <= faults'
  <2>1. UNCHANGED <<effects, timeline, timeouts>> /\ (faults' = faults \/ faults' = faults + 1)
    BY DEF SetAwaiting, Park, Resume, SetRunning, Refuse, KubectlFails, NextPatch, CallFails,
           Admit, ReadApproval, DryRun, Propose
  <2> QED
    BY <1>1, <2>1
<1>3. Idle.pc = "idle"
  BY IdleIsCall
<1>4. /\ call[c].pc # "record" /\ ~Spent(c)
      /\ call'[c].pc \notin {"record", "applied"}
      /\ call'[c].pc = "kubectl" => NextPatch(c) \/ Admit(c)
  <2>1. CASE SetAwaiting(c) \/ Park(c) \/ Resume(c)
    BY <1>1, <1>3, <2>1 DEF SetAwaiting, Park, Resume, Goto, CallState, Spent
  <2>2. CASE SetRunning(c) \/ Refuse(c) \/ KubectlFails(c) \/ CallFails(c)
    BY <1>1, <1>3, <2>2 DEF SetRunning, Refuse, KubectlFails, CallFails, Spent
  <2>3. CASE NextPatch(c)
    <3>1. call[c].patch \in {1, 2} /\ Patches(call[c].action) \in {1, 2}
      BY <1>1 DEF CallState, Patches
    <3>2. call'[c].pc = "kubectl"
      BY <1>1, <2>3 DEF NextPatch, CallState
    <3> QED
      BY <2>3, <3>1, <3>2 DEF NextPatch, Spent
  <2>4. CASE Admit(c)
    <3>1. PICK n : call'[c] = [call[c] EXCEPT !.pc = "kubectl", !.nonce = n]
      BY <1>1, <2>4 DEF Admit
    <3>2. call'[c].pc = "kubectl"
      BY <1>1, <3>1 DEF CallState
    <3> QED
      BY <2>4, <3>2 DEF Admit, Spent
  <2>5. CASE \E a \in Action, p \in Approval : ReadApproval(c, a, p)
    <3>1. PICK a \in Action, p \in Approval : ReadApproval(c, a, p)
      BY <2>5
    <3>2. call'[c].pc = "gate"
      BY <1>1, <3>1 DEF ReadApproval, Idle
    <3> QED
      BY <3>1, <3>2 DEF ReadApproval, Spent
  <2>6. CASE \E a \in Action : DryRun(c, a)
    BY <1>1, <2>6 DEF DryRun, Spent
  <2>7. CASE \E p \in Approval : Propose(c, p)
    <3>1. PICK p \in Approval :
            /\ call[c].pc = "idle"
            /\ call' = [call EXCEPT ![c] = [Idle EXCEPT !.pc = "inserted", !.approval = p]]
      BY <2>7 DEF Propose
    <3>2. call'[c].pc = "inserted"
      BY <1>1, <3>1 DEF Idle
    <3> QED
      BY <3>1, <3>2 DEF Spent
  <2> QED
    BY <2>1, <2>2, <2>3, <2>4, <2>5, <2>6, <2>7
<1>5. Owing' = Owing
  BY <1>1, <1>4 DEF Owing, Spent
<1>6. Holding'
  <2>1. CASE NextPatch(c)
    <3>1. /\ call'[c].action = call[c].action /\ call'[c].nonce = call[c].nonce
          /\ call[c].pc = "applied" /\ stash' = stash
      BY <1>1, <2>1 DEF NextPatch, CallState
    <3> QED
      BY <1>1, <3>1 DEF RecordInv, Holding
  <2>2. CASE Admit(c)
    <3>1. PICK e \in stash :
            /\ Verified(c, e)
            /\ call' = [call EXCEPT ![c] = [call[c] EXCEPT !.pc = "kubectl", !.nonce = e.nonce]]
      BY <2>2 DEF Admit
    <3>2. call'[c].action = call[c].action /\ call'[c].nonce = e.nonce /\ stash' = stash
      BY <1>1, <2>2, <3>1 DEF Admit, CallState
    <3> QED
      BY <1>1, <3>1, <3>2 DEF Holding, Verified
  <2>3. CASE ~(NextPatch(c) \/ Admit(c))
    BY <1>1, <1>4, <2>3 DEF Holding
  <2> QED
    BY <2>1, <2>2, <2>3
<1> QED
  BY <1>1, <1>2, <1>5, <1>6, NothingToRecord

LEMMA ApplyRecords ==
  ASSUME RecordInv, GateInv', NEW c \in Call, KubectlApplies(c)
  PROVE  Numbered' /\ Recorded' /\ Holding'
<1> DEFINE new == [call[c] EXCEPT !.pc = "applied"]
           e == [approval |-> call[c].approval, action |-> call[c].action,
                 nonce |-> call[c].nonce, patch |-> call[c].patch, use |-> Cardinality(effects)]
<1>1. /\ call[c] \in CallState /\ call[c].pc = "kubectl" /\ GateInv /\ OneAtATime(Call)
      /\ call' = [call EXCEPT ![c] = new] /\ effects' = effects \cup {e}
      /\ UNCHANGED <<row, stash, timeouts, faults, timeline>>
  BY DEF RecordInv, GateInv, TypeOK, KubectlApplies, Goto
<1>2. /\ new.pc = "applied" /\ new.patch = call[c].patch
      /\ new.action = call[c].action /\ new.nonce = call[c].nonce
      /\ e.patch = call[c].patch /\ e.action = call[c].action /\ e.use = Cardinality(effects)
  BY <1>1 DEF CallState
<1> HIDE DEF new, e
<1>3. /\ call'[c] = new /\ \A d \in Call : d = c
      /\ Owing = {} \/ Owing = {c}
      /\ Owing' = IF c \in Owing' THEN {c} ELSE {}
  BY <1>1, OnlyCall
<1>4. Holding'
  BY <1>1, <1>2, <1>3 DEF RecordInv, Holding
<1>5. /\ timeline \in Nat /\ timeouts \in Nat /\ faults \in Nat
      /\ IsFiniteSet(effects) /\ Cardinality(effects) \in Nat
      /\ IsFiniteSet(WholeEffects) /\ Cardinality(WholeEffects) \in Nat
  BY <1>1, RecordTypes
<1>6. e \notin effects
  <2>1. ~(e.use < Cardinality(effects))
    BY <1>2, <1>5
  <2> QED
    BY <2>1 DEF RecordInv, Numbered
<1>7. Cardinality(effects') = Cardinality(effects) + 1
  <2>1. Cardinality(effects \cup {e}) = Cardinality(effects) + 1
    BY <1>5, <1>6, FS_AddElement
  <2> QED
    BY <1>1, <2>1
<1>8. Numbered'
  <2>1. \A f \in effects : f.use < Cardinality(effects) /\ f.use \in Nat
    BY <1>1, GateAssumption DEF RecordInv, Numbered, GateInv, TypeOK, Effect
  <2>2. \A f \in effects' : f \in effects \/ f = e
    BY <1>1
  <2> QED
    BY <1>2, <1>5, <1>7, <2>1, <2>2 DEF Numbered
<1>9. c \notin Owing
  BY <1>1 DEF Owing, Spent
<1>10. Cardinality(Owing) = 0
  <2>1. Owing = {}
    BY <1>3, <1>9
  <2> QED
    BY <2>1, FS_EmptySet
<1>11. CASE Whole(e)
  <2>1. WholeEffects' = WholeEffects \cup {e} /\ e \notin WholeEffects
    BY <1>1, <1>6, <1>11 DEF WholeEffects
  <2>2. Cardinality(WholeEffects \cup {e}) = Cardinality(WholeEffects) + 1
    BY <1>5, <2>1, FS_AddElement
  <2>3. c \in Owing'
    BY <1>2, <1>3, <1>11 DEF Owing, Spent, Whole
  <2>4. Owing' = {c}
    BY <1>3, <2>3
  <2>5. Cardinality({c}) = 1
    BY FS_Singleton
  <2>6. Cardinality(Owing') = 1 /\ Cardinality(WholeEffects') = Cardinality(WholeEffects) + 1
    BY <2>1, <2>2, <2>4, <2>5
  <2>7. Recorded'
    BY <1>1, <1>5, <1>10, <2>6 DEF RecordInv, Recorded
  <2> QED
    BY <1>4, <1>8, <2>7
<1>12. CASE ~Whole(e)
  <2>1. WholeEffects' = WholeEffects
    BY <1>1, <1>12 DEF WholeEffects
  <2>2. c \notin Owing'
    BY <1>2, <1>3, <1>12 DEF Owing, Spent, Whole
  <2>3. Owing' = {}
    BY <1>3, <2>2
  <2>4. Cardinality(Owing') = 0
    BY <2>3, FS_EmptySet
  <2>5. Recorded'
    BY <1>1, <1>5, <1>10, <2>1, <2>4 DEF RecordInv, Recorded
  <2> QED
    BY <1>4, <1>8, <2>5
<1> QED
  BY <1>11, <1>12

(* The answers, the record and the process: what is owed is paid, or one   *)
(* of the faults explains what is missing.                                 *)
LEMMA PaidRecords ==
  ASSUME RecordInv, GateInv', OneAtATime(Call)',
         UNCHANGED effects, timeouts <= timeouts', faults <= faults',
         \/ timeline' = timeline + 1 /\ Owing # {} /\ Owing' = {}
         \/ timeline' = timeline /\ Owing' = {}
              /\ (Owing # {} => timeouts + faults + 1 <= timeouts' + faults')
         \/ timeline' = timeline /\ Owing # {} /\ Owing' # {}
  PROVE  Numbered' /\ Recorded'
<1>1. /\ timeline \in Nat /\ timeouts \in Nat /\ faults \in Nat
      /\ Cardinality(WholeEffects) \in Nat
      /\ Owing # {} => Cardinality(Owing) = 1
      /\ Owing = {} => Cardinality(Owing) = 0
  BY RecordTypes DEF RecordInv
<1>2. /\ timeouts' \in Nat /\ faults' \in Nat
      /\ Owing' # {} => Cardinality(Owing') = 1
      /\ Owing' = {} => Cardinality(Owing') = 0
  <2>1. timeouts' \in Nat /\ faults' \in Nat
    BY GateAssumption DEF GateInv, TypeOK
  <2>2. OneAtATime(Owing')
    BY DEF OneAtATime, Owing
  <2>3. ASSUME Owing' # {} PROVE Cardinality(Owing') = 1
    <3>1. PICK c : Owing' = {c}
      BY <2>2, <2>3 DEF OneAtATime
    <3> QED
      BY <3>1, FS_Singleton
  <2> QED
    BY <2>1, <2>3, FS_EmptySet
<1>3. WholeEffects' = WholeEffects /\ Numbered'
  BY DEF WholeEffects, RecordInv, Numbered
<1>4. /\ timeline + Cardinality(Owing) <= Cardinality(WholeEffects)
      /\ Cardinality(WholeEffects) <= timeline + Cardinality(Owing) + timeouts + faults
  BY DEF RecordInv, Recorded
<1>5. /\ timeline' + Cardinality(Owing') <= Cardinality(WholeEffects)
      /\ Cardinality(WholeEffects) <= timeline' + Cardinality(Owing') + timeouts' + faults'
  <2>1. CASE timeline' = timeline + 1 /\ Owing # {} /\ Owing' = {}
    BY <1>1, <1>2, <1>4, <2>1
  <2>2. CASE /\ timeline' = timeline /\ Owing' = {}
             /\ Owing # {} => timeouts + faults + 1 <= timeouts' + faults'
    <3>1. CASE Owing = {}
      BY <1>1, <1>2, <1>4, <2>2, <3>1
    <3>2. CASE Owing # {}
      <4>1. Cardinality(Owing) = 1 /\ Cardinality(Owing') = 0 /\ timeline' = timeline
        BY <1>1, <1>2, <2>2, <3>2
      <4>2. timeouts + faults + 1 <= timeouts' + faults'
        BY <2>2, <3>2
      <4>3. /\ timeline + 1 <= Cardinality(WholeEffects)
            /\ Cardinality(WholeEffects) <= timeline + 1 + timeouts + faults
        BY <1>4, <4>1
      <4>4. /\ timeline + 0 <= Cardinality(WholeEffects)
            /\ Cardinality(WholeEffects) <= timeline + 0 + timeouts' + faults'
        <5>1. \A t, w, m, f, mm, ff \in Nat :
                t + 1 <= w /\ w <= t + 1 + m + f /\ m + f + 1 <= mm + ff
                  => t + 0 <= w /\ w <= t + 0 + mm + ff
          OBVIOUS
        <5> QED
          BY <1>1, <1>2, <4>2, <4>3, <5>1
      <4> QED
        BY <4>1, <4>4
    <3> QED
      BY <3>1, <3>2
  <2>3. CASE timeline' = timeline /\ Owing # {} /\ Owing' # {}
    BY <1>1, <1>2, <1>4, <2>3
  <2> QED
    BY <2>1, <2>2, <2>3
<1> QED
  BY <1>3, <1>5 DEF Recorded

LEMMA AnswerRecords ==
  ASSUME RecordInv, GateInv', NEW c \in Call,
         KubectlTimesOut(c) \/ Consume(c) \/ Record(c) \/ RecordFails(c)
  PROVE  Numbered' /\ Recorded' /\ Holding'
<1>1. /\ call[c] \in CallState /\ call \in [Call -> CallState] /\ GateInv /\ OneAtATime(Call)
      /\ timeouts \in Nat /\ faults \in Nat /\ Idle.pc = "idle" /\ OneAtATime(Call)'
      /\ \A d \in Call : d = c
  BY GateAssumption, IdleIsCall DEF RecordInv, GateInv, TypeOK, OneAtATime
<1>2. PICK new : call' = [call EXCEPT ![c] = new]
  BY DEF KubectlTimesOut, Consume, Record, RecordFails
<1>3. /\ call'[c] = new
      /\ Owing = {} \/ Owing = {c}
      /\ Owing' = IF c \in Owing' THEN {c} ELSE {}
  BY <1>1, <1>2, OnlyCall
<1>4. UNCHANGED effects
  BY DEF KubectlTimesOut, Consume, Record, RecordFails
<1>5. CASE Consume(c)
  <2>1. \E e \in stash : e.action = call[c].action
    BY <1>5 DEF Consume, RecordInv, Holding
  <2>2. Stashed(call[c].action) # {}
    BY <2>1 DEF Stashed
  <2>3. call' = [call EXCEPT ![c] = [call[c] EXCEPT !.pc = "record"]]
    BY <1>5, <2>2 DEF Consume
  <2>4. call'[c].pc = "record"
    BY <1>1, <2>3 DEF CallState
  <2>5. c \in Owing /\ c \in Owing'
    BY <1>5, <2>4 DEF Consume, Owing, Spent
  <2>6. timeline' = timeline /\ Owing # {} /\ Owing' # {}
    BY <1>5, <2>5 DEF Consume
  <2>7. timeouts <= timeouts' /\ faults <= faults'
    BY <1>1, <1>5 DEF Consume
  <2>8. Holding'
    BY <1>1, <2>4 DEF Holding
  <2> QED
    BY <1>1, <1>4, <2>6, <2>7, <2>8, PaidRecords
<1>6. CASE ~Consume(c)
  <2>1. call'[c].pc = "idle"
    BY <1>1, <1>6 DEF KubectlTimesOut, Record, RecordFails
  <2>2. Holding'
    BY <1>1, <2>1 DEF Holding
  <2>3. c \notin Owing'
    BY <2>1 DEF Owing, Spent
  <2>4. Owing' = {}
    BY <1>3, <2>3
  <2>5. CASE Record(c)
    <3>1. Owing # {} /\ timeline' = timeline + 1
      BY <2>5 DEF Record, Owing
    <3>2. timeouts <= timeouts' /\ faults <= faults'
      BY <1>1, <2>5 DEF Record
    <3> QED
      BY <1>1, <1>4, <2>2, <2>4, <3>1, <3>2, PaidRecords
  <2>6. CASE KubectlTimesOut(c) \/ RecordFails(c)
    <3>1. /\ timeline' = timeline /\ timeouts <= timeouts' /\ faults <= faults'
          /\ timeouts + faults + 1 <= timeouts' + faults'
      BY <1>1, <2>6 DEF KubectlTimesOut, RecordFails
    <3> QED
      BY <1>1, <1>4, <2>2, <2>4, <3>1, PaidRecords
  <2> QED
    BY <1>6, <2>5, <2>6
<1> QED
  BY <1>5, <1>6

LEMMA OthersRecords ==
  ASSUME RecordInv, GateInv',
         \/ \E o \in Operator : PostStep(o) \/ SettleFails(o)
         \/ \E o \in Operator, p \in Approval, d \in Decision : Decide(o, p, d)
         \/ CloseSession \/ EndRun \/ Restart \/ UNCHANGED vars
  PROVE  Numbered' /\ Recorded' /\ Holding'
<1>1. /\ GateInv /\ OneAtATime(Call) /\ timeouts \in Nat /\ faults \in Nat
      /\ timeouts' \in Nat /\ faults' \in Nat /\ OneAtATime(Call)'
  BY GateAssumption DEF RecordInv, GateInv, TypeOK, OneAtATime
<1>2. CASE Restart
  <2>1. /\ UNCHANGED <<effects, timeline, timeouts>> /\ faults' = faults + 1
        /\ \A c \in Call : call'[c].pc = "idle"
    BY <1>2, IdleIsCall DEF Restart
  <2>2. Owing' = {} /\ Holding'
    BY <2>1 DEF Owing, Spent, Holding
  <2>3. /\ timeouts <= timeouts' /\ faults <= faults'
        /\ timeouts + faults + 1 <= timeouts' + faults'
    BY <1>1, <2>1
  <2> QED
    BY <1>1, <2>1, <2>2, <2>3, PaidRecords
<1>3. CASE ~Restart
  <2>1. UNCHANGED <<effects, timeline, timeouts, call>> /\ faults <= faults'
    BY <1>1, <1>3 DEF PostStep, Resolve, Settle, SettleFails, Decide, CloseSession, EndRun, vars
  <2>2. Owing' = Owing /\ timeouts <= timeouts'
    BY <1>1, <2>1 DEF Owing, Spent
  <2>3. Holding'
    <3>1. CASE CloseSession
      BY <2>1, <3>1 DEF Holding, CloseSession
    <3>2. CASE ~CloseSession
      <4>1. stash' = stash
        BY <1>3, <3>2 DEF PostStep, Resolve, Settle, SettleFails, Decide, EndRun, vars
      <4> QED
        BY <2>1, <4>1 DEF RecordInv, Holding
    <3> QED
      BY <3>1, <3>2
  <2> QED
    BY <1>1, <2>1, <2>2, <2>3, NothingToRecord
<1> QED
  BY <1>2, <1>3

LEMMA RecordStep == RecordInv /\ [Next]_vars => RecordInv'
<1> SUFFICES ASSUME RecordInv, [Next]_vars PROVE RecordInv'
  OBVIOUS
<1>1. GateInv'
  BY NextKeepsInvariant DEF RecordInv
<1>2. ASSUME Numbered', Recorded', Holding' PROVE RecordInv'
  BY <1>1, <1>2 DEF RecordInv, OneAtATime
<1>3. ASSUME NEW c \in Call,
             \/ CallStep(c) \/ KubectlTimesOut(c) \/ RecordFails(c) \/ CallFails(c)
             \/ \E a \in Action, p \in Approval : ReadApproval(c, a, p)
             \/ \E a \in Action : DryRun(c, a)
             \/ \E p \in Approval : Propose(c, p)
      PROVE  RecordInv'
  <2>1. Numbered' /\ Recorded' /\ Holding'
    BY <1>1, <1>3, PlainCallRecords, ApplyRecords, AnswerRecords DEF CallStep
  <2> QED
    BY <1>2, <2>1
<1>4. CASE \/ \E o \in Operator : PostStep(o) \/ SettleFails(o)
           \/ \E o \in Operator, p \in Approval, d \in Decision : Decide(o, p, d)
           \/ CloseSession \/ EndRun \/ Restart \/ UNCHANGED vars
  BY <1>1, <1>2, <1>4, OthersRecords
<1> QED
  BY <1>3, <1>4 DEF Next

(* remediate.py _record_remediation: when the model runs one tool call at  *)
(* a time, the timeline names every remediation that reached the cluster,  *)
(* but for those whose answer or record was lost.                          *)
THEOREM RecordsHold == OneAtATime(Call) /\ Spec => []RemediationsRecorded
<1>1. Init /\ OneAtATime(Call) => RecordInv
  <2> SUFFICES ASSUME Init, OneAtATime(Call) PROVE RecordInv
    OBVIOUS
  <2>1. GateInv
    BY InitHolds
  <2>2. WholeEffects = {} /\ Owing = {} /\ timeline = 0 /\ timeouts = 0 /\ faults = 0
    BY IdleIsCall DEF Init, WholeEffects, Owing, Spent
  <2>3. Cardinality(WholeEffects) = 0 /\ Cardinality(Owing) = 0
    BY <2>2, FS_EmptySet
  <2>4. Recorded
    BY <2>2, <2>3 DEF Recorded
  <2>5. Numbered /\ Holding
    BY IdleIsCall DEF Init, Numbered, Holding
  <2> QED
    BY <2>1, <2>4, <2>5 DEF RecordInv
<1>2. RecordInv => RemediationsRecorded
  <2> SUFFICES ASSUME RecordInv, \A c \in Call : ~Past(c)
               PROVE  /\ timeline <= Cardinality(WholeEffects)
                      /\ Cardinality(WholeEffects) <= timeline + timeouts + faults
    BY DEF RemediationsRecorded, WholeEffects
  <2>1. Owing = {}
    BY DEF Owing, Spent, Past
  <2>2. /\ timeline \in Nat /\ timeouts \in Nat /\ faults \in Nat
        /\ Cardinality(WholeEffects) \in Nat /\ Cardinality(Owing) = 0
    BY <2>1, RecordTypes DEF RecordInv
  <2> QED
    BY <2>2 DEF RecordInv, Recorded
<1> QED
  BY <1>1, <1>2, RecordStep, PTL DEF Spec

-----------------------------------------------------------------------------
(* The rendezvous, for any number of operators who read the table.         *)

Gone == run \in {"over", "dead"}

\* a request for p has still to look for the waiter, and it wrote the row
Asking(o, p) == post[o].pc = "resolve" /\ post[o].approval = p

Answering(o, p) == Asking(o, p) /\ post[o].recorded

\* what a future says of its row
FuturesSound ==
  \A p \in Approval :
    /\ row[p].decision = "absent" => future[p] = "none"
    /\ future[p] = "lost" => Gone
    /\ ~Astray(p) =>
         /\ future[p] \in Decision => row[p].decision = future[p]
         /\ future[p] = "parked" =>
              row[p].decision = "null" \/ \E o \in Operator : Answering(o, p)
         /\ future[p] = "none" =>
              row[p].decision \notin Decision \/ Gone \/ \E o \in Operator : Answering(o, p)

Announcing(c) == call[c].pc \in {"inserted", "announce"}

\* a call that is about to park has a row and a future of its own
ParksAlone ==
  \A c \in Call : Announcing(c) =>
    /\ run = "live"
    /\ row[call[c].approval].decision # "absent"
    /\ future[call[c].approval] = "none"
    /\ \A d \in Call : Announcing(d) /\ d # c => call[d].approval # call[c].approval

\* one request at a time asks for an approval that is not astray: the one that wrote
\* the row finds the waiter, unless the session is over, and a later one does not
Asked(o, p) ==
  /\ p \in Approval /\ row[p].decision \in Decision
  /\ ~Astray(p) =>
       /\ \A k \in Operator : k # o => ~Asking(k, p)
       /\ post[o].recorded => /\ row[p].decision = post[o].decision
                              /\ future[p] \in {"none", "parked", "lost"}
       /\ ~post[o].recorded => future[p] # "parked" /\ (future[p] = "none" => Gone)

PostsSound ==
  \A o \in Operator :
    /\ post[o].pc = "resolve" => Asked(o, post[o].approval)
    /\ post[o].pc = "settle" =>
         Gone \/ (post[o].approval \in Approval /\ Astray(post[o].approval))

Rendezvous == GateInv /\ FuturesSound /\ ParksAlone /\ PostsSound /\ SessionOwnsStatus

LEMMA RendezvousTypes ==
  ASSUME GateInv
  PROVE  /\ row \in [Approval -> ApprovalRow]
         /\ future \in [Approval -> Decision \cup {"none", "parked", "lost"}]
         /\ call \in [Call -> CallState] /\ post \in [Operator -> PostState]
         /\ \A p \in Approval : row[p].decision \in Decision \cup {"absent", "null"}
         /\ \A c \in Call : Announcing(c) => call[c].approval \in Approval
         /\ "none" \notin Decision /\ "parked" \notin Decision /\ "lost" \notin Decision
         /\ "absent" \notin Decision /\ "null" \notin Decision
  BY DEF GateInv, TypeOK, ApprovalRow, GateSound, Announcing, Decision

(* A call that neither inserts a row nor parks.                            *)
LEMMA CallWaits ==
  ASSUME Rendezvous, NEW c \in Call,
         \/ SetAwaiting(c) \/ Resume(c) \/ SetRunning(c) \/ Admit(c) \/ Refuse(c)
         \/ KubectlFails(c) \/ KubectlApplies(c) \/ KubectlTimesOut(c) \/ NextPatch(c)
         \/ Consume(c) \/ Record(c) \/ RecordFails(c) \/ CallFails(c)
         \/ \E a \in Action : DryRun(c, a)
         \/ \E a \in Action, p \in Approval : ReadApproval(c, a, p)
  PROVE  FuturesSound' /\ ParksAlone' /\ PostsSound' /\ SessionOwnsStatus'
<1>1. /\ GateInv /\ call[c] \in CallState /\ call \in [Call -> CallState] /\ Idle.pc = "idle"
  BY IdleIsCall DEF Rendezvous, GateInv, TypeOK
<1>2. /\ UNCHANGED <<run, row, future, post, early, crossed>>
      /\ status' \in {status, "awaiting_approval", "running"}
  BY DEF history, SetAwaiting, Resume, SetRunning, Admit, Refuse, KubectlFails, KubectlApplies,
         KubectlTimesOut, NextPatch, Consume, Record, RecordFails, CallFails, DryRun, ReadApproval
<1>3. \A d \in Call : d # c => call'[d] = call[d]
  BY <1>1 DEF SetAwaiting, Resume, SetRunning, Admit, Refuse, KubectlFails, KubectlApplies,
         KubectlTimesOut, NextPatch, Consume, Record, RecordFails, CallFails, DryRun,
         ReadApproval, Goto
<1>4. Announcing(c)' => Announcing(c) /\ call'[c].approval = call[c].approval
  <2>1. CASE SetAwaiting(c)
    BY <1>1, <2>1 DEF SetAwaiting, Goto, Announcing, CallState
  <2>2. CASE Resume(c) \/ KubectlApplies(c)
    BY <1>1, <2>2 DEF Resume, KubectlApplies, Goto, Announcing, CallState
  <2>3. CASE \/ SetRunning(c) \/ Refuse(c) \/ KubectlFails(c) \/ KubectlTimesOut(c) \/ Record(c)
             \/ RecordFails(c) \/ CallFails(c)
    BY <1>1, <2>3 DEF SetRunning, Refuse, KubectlFails, KubectlTimesOut, Record, RecordFails,
                      CallFails, Announcing
  <2>4. CASE Consume(c) \/ NextPatch(c)
    <3>1. \E new \in {Idle, [call[c] EXCEPT !.pc = "record"],
                      [call[c] EXCEPT !.pc = "kubectl", !.patch = 2]} :
            call' = [call EXCEPT ![c] = new]
      BY <2>4 DEF Consume, NextPatch
    <3>2. /\ [call[c] EXCEPT !.pc = "record"].pc = "record"
          /\ [call[c] EXCEPT !.pc = "kubectl", !.patch = 2].pc = "kubectl"
      BY <1>1 DEF CallState
    <3>3. PICK new : /\ new \in {Idle, [call[c] EXCEPT !.pc = "record"],
                                 [call[c] EXCEPT !.pc = "kubectl", !.patch = 2]}
                     /\ call' = [call EXCEPT ![c] = new]
      BY <3>1
    <3>4. call'[c] = new /\ new.pc \in {"idle", "record", "kubectl"}
      BY <1>1, <3>2, <3>3
    <3> QED
      BY <3>4 DEF Announcing
  <2>5. CASE Admit(c)
    <3>1. PICK n : call'[c] = [call[c] EXCEPT !.pc = "kubectl", !.nonce = n]
      BY <1>1, <2>5 DEF Admit
    <3>2. call'[c].pc = "kubectl"
      BY <1>1, <3>1 DEF CallState
    <3> QED
      BY <3>2 DEF Announcing
  <2>6. CASE \E a \in Action : DryRun(c, a)
    BY <2>6 DEF DryRun, Announcing
  <2>7. CASE \E a \in Action, p \in Approval : ReadApproval(c, a, p)
    <3>1. call'[c].pc = "gate"
      BY <1>1, <2>7 DEF ReadApproval, Idle
    <3> QED
      BY <3>1 DEF Announcing
  <2> QED
    BY <2>1, <2>2, <2>3, <2>4, <2>5, <2>6, <2>7
<1>5. \A d \in Call : Announcing(d)' => Announcing(d) /\ call'[d].approval = call[d].approval
  BY <1>3, <1>4 DEF Announcing
<1>6. ParksAlone'
  BY <1>2, <1>5 DEF Rendezvous, ParksAlone
<1>7. FuturesSound' /\ PostsSound'
  BY <1>2 DEF Rendezvous, FuturesSound, PostsSound, Asked, Answering, Asking, Gone, Astray
<1>8. SessionOwnsStatus'
  BY <1>2 DEF Rendezvous, SessionOwnsStatus, Astray
<1> QED
  BY <1>6, <1>7, <1>8

LEMMA ProposeWaits ==
  ASSUME Rendezvous, NEW c \in Call, NEW p \in Approval, Propose(c, p)
  PROVE  FuturesSound' /\ ParksAlone' /\ PostsSound' /\ SessionOwnsStatus'
<1>1. /\ row \in [Approval -> ApprovalRow]
      /\ future \in [Approval -> Decision \cup {"none", "parked", "lost"}]
      /\ call \in [Call -> CallState] /\ post \in [Operator -> PostState]
      /\ \A q \in Approval : row[q].decision \in Decision \cup {"absent", "null"}
      /\ \A d \in Call : Announcing(d) => call[d].approval \in Approval
      /\ "none" \notin Decision /\ "parked" \notin Decision /\ "lost" \notin Decision
      /\ "absent" \notin Decision /\ "null" \notin Decision
  BY RendezvousTypes DEF Rendezvous
<1>2. /\ UNCHANGED <<run, status, future, post, early, crossed>> /\ run = "live"
      /\ row[p].decision = "absent" /\ call[c].pc = "idle"
      /\ call' = [call EXCEPT ![c] = [Idle EXCEPT !.pc = "inserted", !.approval = p]]
  BY DEF Propose, history
<1>3. row'[p].decision = "null" /\ \A q \in Approval : q # p => row'[q] = row[q]
  <2>1. PICK new : row' = [row EXCEPT ![p] = new] /\ new.decision = "null"
    <3>1. CASE row' = [row EXCEPT ![p] = [decision |-> "null", action |-> None, nonce |-> 0]]
      <4>1. [decision |-> "null", action |-> None, nonce |-> 0].decision = "null"
        OBVIOUS
      <4> QED
        BY <3>1, <4>1
    <3>2. CASE \E e \in stash :
                 row' = [row EXCEPT ![p] =
                           [decision |-> "null", action |-> e.action, nonce |-> e.nonce]]
      <4>1. PICK e \in stash :
              row' = [row EXCEPT ![p] =
                        [decision |-> "null", action |-> e.action, nonce |-> e.nonce]]
        BY <3>2
      <4>2. [decision |-> "null", action |-> e.action, nonce |-> e.nonce].decision = "null"
        OBVIOUS
      <4> QED
        BY <4>1, <4>2
    <3> QED
      BY <3>1, <3>2 DEF Propose
  <2> QED
    BY <1>1, <2>1
<1>4. /\ call'[c].pc = "inserted" /\ call'[c].approval = p
      /\ \A d \in Call : d # c => call'[d] = call[d]
  BY <1>1, <1>2 DEF Idle
<1>5. future[p] = "none"
  BY <1>2 DEF Rendezvous, FuturesSound
<1>6. FuturesSound'
  <2>1. ASSUME NEW q \in Approval, q # p
        PROVE  row'[q] = row[q] /\ future'[q] = future[q]
    BY <1>2, <1>3, <2>1
  <2> QED
    BY <1>1, <1>2, <1>3, <1>5, <2>1
       DEF Rendezvous, FuturesSound, Answering, Asking, Gone, Astray
<1>7. ParksAlone'
  <2>1. ASSUME NEW d \in Call, d # c, Announcing(d)'
        PROVE  /\ Announcing(d) /\ call'[d] = call[d] /\ call[d].approval \in Approval
               /\ call[d].approval # p
    BY <1>1, <1>2, <1>4, <2>1 DEF Announcing, Rendezvous, ParksAlone
  <2>2. ASSUME NEW d \in Call, Announcing(d)'
        PROVE  /\ run' = "live"
               /\ row'[call'[d].approval].decision # "absent"
               /\ future'[call'[d].approval] = "none"
               /\ \A k \in Call : Announcing(k)' /\ k # d => call'[k].approval # call'[d].approval
    <3>1. CASE d = c
      BY <1>2, <1>3, <1>4, <1>5, <2>1, <3>1
    <3>2. CASE d # c
      <4>1. /\ Announcing(d) /\ call'[d] = call[d] /\ call[d].approval \in Approval
            /\ call[d].approval # p
        BY <2>1, <2>2, <3>2
      <4>2. \A k \in Call : Announcing(k)' /\ k # d => call'[k].approval # call'[d].approval
        <5>1. ASSUME NEW k \in Call, Announcing(k)', k # d
              PROVE  call'[k].approval # call'[d].approval
          <6>1. CASE k = c
            BY <1>4, <4>1, <6>1
          <6>2. CASE k # c
            BY <2>1, <4>1, <5>1, <6>2 DEF Rendezvous, ParksAlone
          <6> QED
            BY <6>1, <6>2
        <5> QED
          BY <5>1
      <4>3. /\ row[call[d].approval].decision # "absent"
            /\ future[call[d].approval] = "none"
        BY <4>1 DEF Rendezvous, ParksAlone
      <4> QED
        BY <1>2, <1>3, <4>1, <4>2, <4>3
    <3> QED
      BY <3>1, <3>2
  <2> QED
    BY <2>2 DEF ParksAlone
<1>8. PostsSound'
  <2>1. ASSUME NEW o \in Operator, post[o].pc = "resolve"
        PROVE  Asked(o, post[o].approval)'
    <3>1. Asked(o, post[o].approval) /\ post[o].approval # p
      BY <1>1, <1>2, <2>1 DEF Rendezvous, PostsSound, Asked
    <3>2. row'[post[o].approval] = row[post[o].approval]
      BY <1>3, <3>1 DEF Asked
    <3> QED
      BY <1>2, <3>1, <3>2 DEF Asked, Asking, Gone, Astray
  <2> QED
    BY <1>2, <2>1 DEF Rendezvous, PostsSound, Gone, Astray
<1>9. SessionOwnsStatus'
  BY <1>2 DEF Rendezvous, SessionOwnsStatus, Astray
<1> QED
  BY <1>6, <1>7, <1>8, <1>9

LEMMA ParkWaits ==
  ASSUME Rendezvous, NEW c \in Call, Park(c)
  PROVE  FuturesSound' /\ ParksAlone' /\ PostsSound' /\ SessionOwnsStatus'
<1>1. /\ row \in [Approval -> ApprovalRow]
      /\ future \in [Approval -> Decision \cup {"none", "parked", "lost"}]
      /\ call \in [Call -> CallState] /\ post \in [Operator -> PostState]
      /\ \A q \in Approval : row[q].decision \in Decision \cup {"absent", "null"}
      /\ \A d \in Call : Announcing(d) => call[d].approval \in Approval
      /\ "none" \notin Decision /\ "parked" \notin Decision /\ "lost" \notin Decision
      /\ "absent" \notin Decision /\ "null" \notin Decision
  BY RendezvousTypes DEF Rendezvous
<1>2. PICK p \in Approval : p = call[c].approval
  BY <1>1 DEF Park, Announcing
<1>3. /\ UNCHANGED <<run, status, row, post, early, crossed>> /\ call[c].pc = "announce"
      /\ future' = [future EXCEPT ![p] = "parked"]
      /\ call' = [call EXCEPT ![c].pc = "parked"]
  BY <1>2 DEF Park, Goto, history
<1>4. /\ future'[p] = "parked" /\ \A q \in Approval : q # p => future'[q] = future[q]
      /\ call'[c].pc = "parked" /\ \A d \in Call : d # c => call'[d] = call[d]
  BY <1>1, <1>3 DEF CallState
<1>5. future[p] = "none" /\ row[p].decision # "absent" /\ run = "live" /\ ~Gone
  BY <1>2, <1>3 DEF Rendezvous, ParksAlone, Announcing, Gone
<1>6. FuturesSound'
  <2>1. ~Astray(p) => row[p].decision = "null" \/ \E o \in Operator : Answering(o, p)
    BY <1>1, <1>5 DEF Rendezvous, FuturesSound
  <2>2. ASSUME NEW q \in Approval, q # p
        PROVE  future'[q] = future[q] /\ row'[q] = row[q]
    BY <1>3, <1>4, <2>2
  <2> QED
    BY <1>1, <1>3, <1>4, <1>5, <2>1, <2>2
       DEF Rendezvous, FuturesSound, Answering, Asking, Gone, Astray
<1>7. ParksAlone'
  <2>1. ASSUME NEW d \in Call, Announcing(d)'
        PROVE  d # c /\ Announcing(d) /\ call'[d] = call[d] /\ call[d].approval # p
    BY <1>2, <1>3, <1>4, <2>1 DEF Announcing, Rendezvous, ParksAlone
  <2>2. ASSUME NEW d \in Call, Announcing(d)'
        PROVE  /\ run' = "live"
               /\ row'[call'[d].approval].decision # "absent"
               /\ future'[call'[d].approval] = "none"
               /\ \A k \in Call : Announcing(k)' /\ k # d => call'[k].approval # call'[d].approval
    BY <1>1, <1>3, <1>4, <2>1, <2>2 DEF Rendezvous, ParksAlone
  <2> QED
    BY <2>2 DEF ParksAlone
<1>8. PostsSound'
  <2>1. ASSUME NEW o \in Operator, post[o].pc = "resolve"
        PROVE  Asked(o, post[o].approval)'
    <3>1. Asked(o, post[o].approval)
      BY <2>1 DEF Rendezvous, PostsSound
    <3>2. CASE post[o].approval = p
      BY <1>3, <1>4, <1>5, <3>1, <3>2 DEF Asked, Asking, Gone, Astray
    <3>3. CASE post[o].approval # p
      BY <1>3, <1>4, <3>1, <3>3 DEF Asked, Asking, Gone, Astray
    <3> QED
      BY <3>2, <3>3
  <2> QED
    BY <1>3, <2>1 DEF Rendezvous, PostsSound, Gone, Astray
<1>9. SessionOwnsStatus'
  BY <1>3 DEF Rendezvous, SessionOwnsStatus, Astray
<1> QED
  BY <1>6, <1>7, <1>8, <1>9

(* An answer that is recorded, or comes second.                            *)
LEMMA DecideWaits ==
  ASSUME Rendezvous, NEW o \in Operator, NEW p \in Approval, NEW d \in Decision, Decide(o, p, d)
  PROVE  FuturesSound' /\ ParksAlone' /\ PostsSound' /\ SessionOwnsStatus'
<1>1. /\ row \in [Approval -> ApprovalRow]
      /\ future \in [Approval -> Decision \cup {"none", "parked", "lost"}]
      /\ call \in [Call -> CallState] /\ post \in [Operator -> PostState]
      /\ \A q \in Approval : row[q].decision \in Decision \cup {"absent", "null"}
      /\ \A c \in Call : Announcing(c) => call[c].approval \in Approval
      /\ "none" \notin Decision /\ "parked" \notin Decision /\ "lost" \notin Decision
      /\ "absent" \notin Decision /\ "null" \notin Decision
  BY RendezvousTypes DEF Rendezvous
<1>2. /\ UNCHANGED <<run, status, future, call, early>> /\ post[o].pc = "idle"
      /\ row[p].decision # "absent" /\ crossed' = Crossing(p)
      /\ post' = [post EXCEPT ![o] = [pc |-> "resolve", approval |-> p, decision |-> d,
                                      recorded |-> row[p].decision = "null"]]
  BY DEF Decide
<1>3. /\ post'[o].pc = "resolve" /\ post'[o].approval = p /\ post'[o].decision = d
      /\ post'[o].recorded <=> row[p].decision = "null"
      /\ \A k \in Operator : k # o => post'[k] = post[k]
  BY <1>1, <1>2
<1>4. /\ row'[p].decision = IF row[p].decision = "null" THEN d ELSE row[p].decision
      /\ \A q \in Approval : q # p => row'[q] = row[q]
  <2>1. row' = [row EXCEPT ![p] = [row[p] EXCEPT !.decision =
                  IF row[p].decision = "null" THEN d ELSE row[p].decision]]
    BY DEF Decide
  <2>2. row[p] \in ApprovalRow
    BY <1>1
  <2> QED
    BY <1>1, <2>1, <2>2 DEF ApprovalRow
<1>5. /\ \A q \in Approval : Astray(q) => Astray(q)'
      /\ ~Astray(p)' => \A k \in Operator : ~Asking(k, p)
  BY <1>2 DEF Crossing, Astray, Asking
<1>6. row'[p].decision \in Decision
  BY <1>1, <1>2, <1>4
<1>7. \A k \in Operator, q \in Approval : Answering(k, q) => Answering(k, q)'
  BY <1>2, <1>3 DEF Answering, Asking
<1>8. Gone' <=> Gone
  BY <1>2 DEF Gone
<1>9. ~Astray(p)' =>
        /\ future[p] \in Decision => row[p].decision = future[p]
        /\ future[p] = "parked" => row[p].decision = "null"
        /\ future[p] = "none" => row[p].decision = "null" \/ Gone
  BY <1>1, <1>2, <1>5 DEF Rendezvous, FuturesSound, Answering
<1>10. FuturesSound'
  <2>1. ASSUME NEW q \in Approval
        PROVE  /\ row'[q].decision = "absent" => future'[q] = "none"
               /\ future'[q] = "lost" => Gone'
               /\ ~Astray(q)' =>
                    /\ future'[q] \in Decision => row'[q].decision = future'[q]
                    /\ future'[q] = "parked" =>
                         row'[q].decision = "null" \/ \E k \in Operator : Answering(k, q)'
                    /\ future'[q] = "none" =>
                         \/ row'[q].decision \notin Decision \/ Gone'
                         \/ \E k \in Operator : Answering(k, q)'
    <3>1. CASE q = p
      <4>1. row[p].decision = "null" => Answering(o, p)'
        BY <1>3 DEF Answering, Asking
      <4>2. future[p] = "lost" => Gone
        BY DEF Rendezvous, FuturesSound
      <4> QED
        BY <1>1, <1>2, <1>4, <1>6, <1>8, <1>9, <3>1, <4>1, <4>2
    <3>2. CASE q # p
      BY <1>2, <1>4, <1>5, <1>7, <1>8, <3>2 DEF Rendezvous, FuturesSound
    <3> QED
      BY <3>1, <3>2
  <2> QED
    BY <2>1 DEF FuturesSound
<1>11. ParksAlone'
  <2>1. ASSUME NEW c \in Call, Announcing(c)
        PROVE  row'[call[c].approval].decision # "absent"
    <3>1. call[c].approval \in Approval /\ row[call[c].approval].decision # "absent"
      BY <1>1, <2>1 DEF Rendezvous, ParksAlone
    <3> QED
      BY <1>1, <1>4, <1>6, <3>1
  <2> QED
    BY <1>2, <2>1 DEF Announcing, Rendezvous, ParksAlone
<1>12. PostsSound'
  <2>1. Asked(o, p)'
    <3>1. ~Astray(p)' => \A k \in Operator : k # o => ~Asking(k, p)'
      BY <1>3, <1>5 DEF Asking
    <3>2. ~Astray(p)' /\ row[p].decision = "null" =>
            row'[p].decision = d /\ future[p] \in {"none", "parked", "lost"}
      BY <1>1, <1>4, <1>9
    <3>3. ~Astray(p)' /\ row[p].decision # "null" =>
            future[p] # "parked" /\ (future[p] = "none" => Gone)
      BY <1>9
    <3> QED
      BY <1>2, <1>3, <1>6, <1>8, <3>1, <3>2, <3>3 DEF Asked
  <2>2. ASSUME NEW k \in Operator, k # o, post[k].pc = "resolve"
        PROVE  Asked(k, post[k].approval)'
    <3>1. Asked(k, post[k].approval) /\ post'[k] = post[k]
      BY <1>3, <2>2 DEF Rendezvous, PostsSound
    <3>2. CASE post[k].approval = p
      <4>1. Astray(p)'
        BY <1>5, <2>2, <3>2 DEF Asking
      <4>2. Asked(k, p)'
        BY <1>6, <4>1 DEF Asked
      <4> QED
        BY <3>1, <3>2, <4>2
    <3>3. CASE post[k].approval # p
      <4>1. PICK q \in Approval : q = post[k].approval /\ q # p
        BY <3>1, <3>3 DEF Asked
      <4>2. row'[q] = row[q] /\ future'[q] = future[q] /\ (Astray(q) => Astray(q)')
        BY <1>2, <1>4, <1>5, <4>1
      <4>3. \A j \in Operator : Asking(j, q)' => Asking(j, q)
        BY <1>3, <4>1 DEF Asking
      <4>4. Asked(k, q)'
        BY <1>8, <3>1, <4>1, <4>2, <4>3 DEF Asked
      <4> QED
        BY <3>1, <4>1, <4>4
    <3> QED
      BY <3>2, <3>3
  <2>3. ASSUME NEW k \in Operator, post'[k].pc = "settle"
        PROVE  (Gone \/ (post[k].approval \in Approval /\ Astray(post[k].approval)))'
    BY <1>3, <1>5, <1>8, <2>3 DEF Rendezvous, PostsSound
  <2>4. ASSUME NEW k \in Operator, post'[k].pc = "resolve"
        PROVE  Asked(k, post[k].approval)'
    <3>1. CASE k = o
      BY <1>3, <2>1, <3>1
    <3>2. CASE k # o
      BY <1>3, <2>2, <2>4, <3>2
    <3> QED
      BY <3>1, <3>2
  <2> QED
    BY <1>3, <2>3, <2>4 DEF PostsSound
<1>13. SessionOwnsStatus'
  BY <1>2, <1>5 DEF Rendezvous, SessionOwnsStatus
<1> QED
  BY <1>10, <1>11, <1>12, <1>13

LEMMA ResolveWaits ==
  ASSUME Rendezvous, NEW o \in Operator, Resolve(o)
  PROVE  FuturesSound' /\ ParksAlone' /\ PostsSound' /\ SessionOwnsStatus'
<1>1. /\ future \in [Approval -> Decision \cup {"none", "parked", "lost"}]
      /\ post \in [Operator -> PostState] /\ post[o] \in PostState
      /\ \A c \in Call : Announcing(c) => call[c].approval \in Approval
      /\ "none" \notin Decision /\ "parked" \notin Decision /\ "lost" \notin Decision
      /\ "absent" \notin Decision /\ "null" \notin Decision
  BY RendezvousTypes DEF Rendezvous
<1>2. UNCHANGED <<run, status, row, call, crossed>> /\ post[o].pc = "resolve"
  BY DEF Resolve
<1>3. PICK p \in Approval : p = post[o].approval /\ Asked(o, p)
  BY <1>2 DEF Rendezvous, PostsSound, Asked
<1>4. /\ \A q \in Approval : Astray(q) => Astray(q)'
      /\ future[p] = "none" => Astray(p)'
  BY <1>3 DEF Resolve, Astray
<1>5. (Gone' <=> Gone) /\ Asking(o, p)
  BY <1>2, <1>3 DEF Gone, Asking
<1>6. SessionOwnsStatus'
  BY <1>2, <1>4 DEF Rendezvous, SessionOwnsStatus
<1>7. /\ post'[o].pc \in {"idle", "settle"} /\ post'[o].approval \in {p, None}
      /\ post'[o].pc = "settle" => /\ post[o].recorded /\ future[p] # "parked"
                                   /\ post'[o].approval = p
      /\ \A k \in Operator : k # o => post'[k] = post[k]
  <2>1. NoPost.pc = "idle" /\ NoPost.approval = None
    BY DEF NoPost
  <2>2. /\ [post[o] EXCEPT !.pc = "settle"].pc = "settle"
        /\ [post[o] EXCEPT !.pc = "settle"].approval = post[o].approval
    BY <1>1 DEF PostState
  <2> QED
    BY <1>1, <1>3, <2>1, <2>2 DEF Resolve
<1>8. /\ \A q \in Approval : q # p => future'[q] = future[q]
      /\ future[p] = "parked" => future'[p] = post[o].decision
      /\ future[p] # "parked" => future'[p] = future[p]
  BY <1>1, <1>3 DEF Resolve
<1>9. post[o].decision \in Decision
  BY <1>1 DEF PostState
<1>10. \A k \in Operator, q \in Approval : q # p /\ Answering(k, q) => Answering(k, q)'
  BY <1>3, <1>7 DEF Answering, Asking
<1>11. \A k \in Operator, q \in Approval : Asking(k, q)' => Asking(k, q) /\ k # o
  BY <1>7 DEF Asking
<1>12. FuturesSound'
  <2>1. ASSUME NEW q \in Approval
        PROVE  /\ row'[q].decision = "absent" => future'[q] = "none"
               /\ future'[q] = "lost" => Gone'
               /\ ~Astray(q)' =>
                    /\ future'[q] \in Decision => row'[q].decision = future'[q]
                    /\ future'[q] = "parked" =>
                         row'[q].decision = "null" \/ \E k \in Operator : Answering(k, q)'
                    /\ future'[q] = "none" =>
                         \/ row'[q].decision \notin Decision \/ Gone'
                         \/ \E k \in Operator : Answering(k, q)'
    <3>1. CASE q # p
      BY <1>2, <1>4, <1>5, <1>8, <1>10, <3>1 DEF Rendezvous, FuturesSound
    <3>2. CASE q = p /\ future[p] = "parked"
      <4>1. ~Astray(p) => row[p].decision = post[o].decision
        BY <1>3, <3>2 DEF Asked
      <4> QED
        BY <1>1, <1>2, <1>3, <1>4, <1>8, <1>9, <3>2, <4>1 DEF Asked
    <3>3. CASE q = p /\ future[p] # "parked"
      <4>1. /\ future[p] = "lost" => Gone
            /\ ~Astray(p) /\ future[p] \in Decision => row[p].decision = future[p]
        BY DEF Rendezvous, FuturesSound
      <4> QED
        BY <1>1, <1>2, <1>3, <1>4, <1>5, <1>8, <3>3, <4>1 DEF Asked
    <3> QED
      BY <3>1, <3>2, <3>3
  <2> QED
    BY <2>1 DEF FuturesSound
<1>13. ParksAlone'
  <2>1. ASSUME NEW c \in Call, Announcing(c)
        PROVE  future'[call[c].approval] = "none"
    <3>1. call[c].approval \in Approval /\ future[call[c].approval] = "none"
      BY <1>1, <2>1 DEF Rendezvous, ParksAlone
    <3> QED
      BY <1>8, <3>1
  <2> QED
    BY <1>2, <2>1 DEF Announcing, Rendezvous, ParksAlone
<1>14. PostsSound'
  <2>1. ASSUME NEW k \in Operator, post'[k].pc = "resolve"
        PROVE  Asked(k, post[k].approval)'
    <3>1. k # o /\ post'[k] = post[k] /\ Asked(k, post[k].approval)
      BY <1>7, <2>1 DEF Rendezvous, PostsSound
    <3>2. CASE post[k].approval = p
      <4>1. Astray(p)'
        BY <1>3, <1>4, <2>1, <3>1, <3>2 DEF Asked, Asking
      <4>2. Asked(k, p)'
        BY <1>2, <1>3, <4>1 DEF Asked
      <4> QED
        BY <3>1, <3>2, <4>2
    <3>3. CASE post[k].approval # p
      <4>1. PICK q \in Approval : q = post[k].approval /\ q # p
        BY <3>1, <3>3 DEF Asked
      <4>2. row'[q] = row[q] /\ future'[q] = future[q] /\ (Astray(q) => Astray(q)')
        BY <1>2, <1>4, <1>8, <4>1
      <4>3. Asked(k, q)'
        BY <1>5, <1>11, <3>1, <4>1, <4>2 DEF Asked
      <4> QED
        BY <3>1, <4>1, <4>3
    <3> QED
      BY <3>2, <3>3
  <2>2. ASSUME post'[o].pc = "settle"
        PROVE  (Gone \/ (post[o].approval \in Approval /\ Astray(post[o].approval)))'
    <3>1. post[o].recorded /\ future[p] # "parked" /\ post'[o].approval = p
      BY <1>7, <2>2
    <3>2. ~Astray(p)' => future[p] = "lost"
      BY <1>3, <1>4, <3>1 DEF Asked
    <3>3. future[p] = "lost" => Gone
      BY DEF Rendezvous, FuturesSound
    <3> QED
      BY <1>5, <3>1, <3>2, <3>3 DEF Astray
  <2>3. ASSUME NEW k \in Operator, k # o, post'[k].pc = "settle"
        PROVE  (Gone \/ (post[k].approval \in Approval /\ Astray(post[k].approval)))'
    <3>1. /\ post'[k] = post[k]
          /\ Gone \/ (post[k].approval \in Approval /\ Astray(post[k].approval))
      BY <1>7, <2>3 DEF Rendezvous, PostsSound
    <3>2. post[k].approval \in Approval /\ Astray(post[k].approval) => Astray(post[k].approval)'
      BY <1>4, <3>1 DEF Astray
    <3> QED
      BY <1>5, <3>1, <3>2
  <2> QED
    BY <2>1, <2>2, <2>3 DEF PostsSound
<1> QED
  BY <1>6, <1>12, <1>13, <1>14

(* A decision that found no waiter, the session and the process.           *)
LEMMA OthersWait ==
  ASSUME Rendezvous,
         \/ \E o \in Operator : Settle(o) \/ SettleFails(o)
         \/ CloseSession \/ EndRun \/ Restart \/ UNCHANGED vars
  PROVE  FuturesSound' /\ ParksAlone' /\ PostsSound' /\ SessionOwnsStatus'
<1>0. post \in [Operator -> PostState] /\ NoPost.pc = "idle" /\ "none" \notin Decision
      /\ "lost" \notin Decision
  BY DEF Rendezvous, GateInv, TypeOK, NoPost, Decision
<1>1. CASE \E o \in Operator : Settle(o) \/ SettleFails(o)
  <2>1. PICK o \in Operator : Settle(o) \/ SettleFails(o)
    BY <1>1
  <2>2. /\ post[o].pc = "settle" /\ post' = [post EXCEPT ![o] = NoPost]
        /\ UNCHANGED <<run, row, future, call, early, crossed>>
    BY <2>1 DEF Settle, SettleFails, history
  <2>3. post'[o].pc = "idle" /\ \A k \in Operator : k # o => post'[k] = post[k]
    BY <1>0, <2>2
  <2>4. Gone \/ \E p \in Approval : Astray(p)
    BY <2>2 DEF Rendezvous, PostsSound
  <2>5. SessionOwnsStatus'
    BY <2>2, <2>4 DEF SessionOwnsStatus, Astray, Gone
  <2>6. \A k \in Operator, p \in Approval :
          (Asking(k, p) <=> Asking(k, p)') /\ (Answering(k, p) <=> Answering(k, p)')
    BY <2>2, <2>3 DEF Answering, Asking
  <2>7. (Gone' <=> Gone) /\ \A p \in Approval : Astray(p)' <=> Astray(p)
    BY <2>2 DEF Gone, Astray
  <2>8. FuturesSound'
    BY <2>2, <2>6, <2>7 DEF Rendezvous, FuturesSound
  <2>9. ParksAlone'
    BY <2>2 DEF Rendezvous, ParksAlone, Announcing
  <2>10. PostsSound'
    <3>1. ASSUME NEW k \in Operator, post'[k].pc = "resolve"
          PROVE  Asked(k, post[k].approval)'
      <4>1. post'[k] = post[k] /\ Asked(k, post[k].approval)
        BY <2>3, <3>1 DEF Rendezvous, PostsSound
      <4> QED
        BY <2>2, <2>6, <2>7, <4>1 DEF Asked
    <3>2. ASSUME NEW k \in Operator, post'[k].pc = "settle"
          PROVE  (Gone \/ (post[k].approval \in Approval /\ Astray(post[k].approval)))'
      <4>1. /\ post'[k] = post[k]
            /\ Gone \/ (post[k].approval \in Approval /\ Astray(post[k].approval))
        BY <2>3, <3>2 DEF Rendezvous, PostsSound
      <4> QED
        BY <2>2, <2>7, <4>1 DEF Astray
    <3> QED
      BY <3>1, <3>2 DEF PostsSound
  <2> QED
    BY <2>5, <2>8, <2>9, <2>10
<1>2. CASE CloseSession \/ EndRun
  <2>1. /\ UNCHANGED <<row, future, call, post, early, crossed>> /\ run' \in {"closing", "over"}
        /\ run \in {"live", "closing"} /\ ~Gone
    BY <1>2 DEF CloseSession, EndRun, history, Gone
  <2>2. FuturesSound' /\ PostsSound'
    BY <2>1 DEF Rendezvous, FuturesSound, PostsSound, Asked, Answering, Asking, Gone, Astray
  <2>3. \A c \in Call : ~Announcing(c)
    BY <1>2 DEF CloseSession, EndRun, Rendezvous, ParksAlone, Announcing
  <2>4. ParksAlone' /\ SessionOwnsStatus'
    BY <2>1, <2>3 DEF ParksAlone, Announcing, SessionOwnsStatus
  <2> QED
    BY <2>2, <2>4
<1>3. CASE Restart
  <2>1. /\ UNCHANGED <<row, early, crossed>> /\ run' \in {"over", "dead"}
        /\ \A p \in Approval : future'[p] = IF future[p] = "none" THEN "none" ELSE "lost"
        /\ \A c \in Call : call'[c].pc = "idle"
        /\ \A o \in Operator : post'[o].pc = "idle"
    BY <1>0, <1>3, IdleIsCall DEF Restart, history
  <2>2. FuturesSound'
    BY <1>0, <2>1 DEF Rendezvous, FuturesSound, Gone, Astray
  <2>3. ParksAlone' /\ PostsSound' /\ SessionOwnsStatus'
    BY <2>1 DEF ParksAlone, Announcing, PostsSound, SessionOwnsStatus
  <2> QED
    BY <2>2, <2>3
<1>4. CASE UNCHANGED vars
  BY <1>4 DEF vars, history, Rendezvous, FuturesSound, ParksAlone, Announcing, PostsSound, Asked,
              Answering, Asking, Gone, Astray, SessionOwnsStatus
<1> QED
  BY <1>1, <1>2, <1>3, <1>4

LEMMA RendezvousStep == Rendezvous /\ [Next]_vars => Rendezvous'
<1> SUFFICES ASSUME Rendezvous, [Next]_vars PROVE Rendezvous'
  OBVIOUS
<1>1. GateInv'
  BY NextKeepsInvariant DEF Rendezvous
<1>2. ASSUME FuturesSound', ParksAlone', PostsSound', SessionOwnsStatus' PROVE Rendezvous'
  BY <1>1, <1>2 DEF Rendezvous
<1>3. ASSUME NEW c \in Call,
             \/ CallStep(c) \/ KubectlTimesOut(c) \/ RecordFails(c) \/ CallFails(c)
             \/ \E a \in Action, p \in Approval : ReadApproval(c, a, p)
             \/ \E a \in Action : DryRun(c, a)
      PROVE  Rendezvous'
  BY <1>2, <1>3, CallWaits, ParkWaits DEF CallStep
<1>4. ASSUME NEW c \in Call, NEW p \in Approval, Propose(c, p) PROVE Rendezvous'
  BY <1>2, <1>4, ProposeWaits
<1>5. ASSUME NEW o \in Operator, PostStep(o) \/ SettleFails(o) PROVE Rendezvous'
  BY <1>2, <1>5, ResolveWaits, OthersWait DEF PostStep
<1>6. ASSUME NEW o \in Operator, NEW p \in Approval, NEW d \in Decision, Decide(o, p, d)
      PROVE  Rendezvous'
  BY <1>2, <1>6, DecideWaits
<1>7. CASE CloseSession \/ EndRun \/ Restart \/ UNCHANGED vars
  BY <1>2, <1>7, OthersWait
<1> QED
  BY <1>3, <1>4, <1>5, <1>6, <1>7 DEF Next

LEMMA RendezvousInit == Init => Rendezvous
<1> SUFFICES ASSUME Init PROVE Rendezvous
  OBVIOUS
<1>1. GateInv
  BY InitHolds
<1>2. FuturesSound
  BY DEF Init, FuturesSound, NoRow, Decision
<1>3. ParksAlone /\ PostsSound /\ SessionOwnsStatus
  BY IdleIsCall DEF Init, ParksAlone, Announcing, PostsSound, NoPost, SessionOwnsStatus
<1> QED
  BY <1>1, <1>2, <1>3 DEF Rendezvous

(* context.py request_approval: whoever reads the table and decides, and    *)
(* however many of them, the agent is told what the row records, but for a  *)
(* decision that looked for the waiter too early or two requests at once.   *)
THEOREM WaiterIsTold == Spec => []WaiterTold
<1>1. Rendezvous => WaiterTold
  BY DEF Rendezvous, FuturesSound, WaiterTold
<1> QED
  BY <1>1, RendezvousInit, RendezvousStep, PTL DEF Spec

(* app.py approve: ... and but for those two no decision settles a run whose *)
(* session goes on.                                                         *)
THEOREM SessionKeepsStatus == Spec => []SessionOwnsStatus
<1>1. Rendezvous => SessionOwnsStatus
  BY DEF Rendezvous
<1> QED
  BY <1>1, RendezvousInit, RendezvousStep, PTL DEF Spec

=============================================================================

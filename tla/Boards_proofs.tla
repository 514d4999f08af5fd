----------------------------- MODULE Boards_proofs -----------------------------
(***************************************************************************)
(* Proofs about the boards of the console, for any number of incidents,    *)
(* runs, presses and exams: an exam that the scorecard calls interrupted   *)
(* is over (InterruptedHolds), as a list of exams stays true of all but    *)
(* its first row; a load of the scorecard without a new verdict changes no *)
(* grade (UngradedHolds); the overview is never quiet about what called    *)
(* for attention all through the load (QuietHolds); and the button of a    *)
(* start is disabled for the starts of its own panel (ButtonHolds).        *)
(***************************************************************************)
EXTENDS Boards, FiniteSetTheorems, SequenceTheorems, TLAPS

-----------------------------------------------------------------------------
(* The inductive invariants.                                               *)

RecordTypes ==
  /\ up \subseteq Plane
  /\ opened \in Seq(Incident)
  /\ incident \in [Incident -> {"none", "open", "resolved"}]
  /\ begun \in Seq(Run)
  /\ run \in [Run -> [status : {"none", "running", "awaiting_approval", "ended"},
                      of : Incident \cup {None}]]

ExamTypes ==
  /\ runner \in [Exam -> [pc : {"idle", "tested", "holding", "sitting", "leaving", "over"},
                          next : Nat, halted : BOOLEAN]]
  /\ exams \in Seq(Exam)
  /\ raced \in BOOLEAN

Holding(e) == runner[e].pc \in {"holding", "sitting", "leaving"}

\* unless two tested at once, the holder of the lock is the one that lives
OneRunner ==
  ~raced => /\ \A d, e \in Exam : Alive(d) /\ Alive(e) => d = e
            /\ \A e \in Exam : Holding(e) => lock = e

\* an exam is listed once it holds, and the next one only when it is over
ListedInTurn ==
  /\ \A k \in DOMAIN exams : runner[exams[k]].pc \in {"sitting", "leaving", "over"}
  /\ ~raced => \A k \in DOMAIN exams : k < Len(exams) => runner[exams[k]].pc = "over"

ExamInv == ExamTypes /\ OneRunner /\ ListedInTurn

LaterAreOver(list) ==
  ~raced => \A k \in DOMAIN list :
    k # 1 => list[k].id \in Exam /\ runner[list[k].id].pc = "over"

Holds(data) == "examRuns" \in DOMAIN data => LaterAreOver(data["examRuns"])

\* what the scorecard holds of the exams, however old it is
ScoreInv ==
  tab.page = "scorecard" =>
    /\ Holds(got) /\ Holds(shown)
    /\ shown # NoData => "examRuns" \in DOMAIN shown

\* An exam is listed once.
ListedOnce == \A j, k \in DOMAIN exams : exams[j] = exams[k] => j = k

\* An answer about the exams lists the first so many of them, newest first.
NewestOf(list, of) ==
  \E m \in 0..Len(of) :
    /\ DOMAIN list = 1..m
    /\ \A k \in 1..m : list[k].id = of[m + 1 - k]

Copied(data, of) ==
  /\ "examRuns" \in DOMAIN data => NewestOf(data["examRuns"], of)
  /\ "examResults" \in DOMAIN data => \E n \in Nat : DOMAIN data["examResults"] = 1..n

\* what the scorecard holds of the exams and their rows
CopyInv ==
  /\ \E S : rows \in Seq(S)
  /\ tab.page = "scorecard" =>
       /\ Copied(got, exams) /\ Copied(shown, exams)
       /\ shown # NoData => {"examRuns", "examResults"} \subseteq DOMAIN shown

PressTypes ==
  /\ DOMAIN press = Press
  /\ \A p \in Press : DOMAIN press[p] = {"state", "what", "here"} /\ press[p].here \in BOOLEAN
  /\ starting \in BOOLEAN /\ failed \in BOOLEAN

\* an answer about a plane is right about one that stayed as it was
Right(answer, plane) ==
  /\ plane \in lit => answer = TRUE
  /\ plane \in dark => answer = FALSE

\* what the overview has been told while a load is on its way
OverviewInv ==
  Watching =>
    /\ dark \subseteq Plane \ up
    /\ lit \subseteq up
    /\ steady \subseteq Urgent
    /\ "records" \in DOMAIN got => Right(got["records"], "records")
    /\ "agents" \in DOMAIN got => Right(got["agents"], "agents")
    /\ "signals" \in DOMAIN got => Right(got["signals"].reachable, "telemetry")
    /\ "incidents" \in DOMAIN got =>
         /\ IsFiniteSet(DOMAIN got["incidents"])
         /\ "records" \in lit /\ steady \cap Incident # {} => OpenIncidents(got) # {}
    /\ "runs" \in DOMAIN got =>
         /\ IsFiniteSet(DOMAIN got["runs"])
         /\ "records" \in lit /\ steady \cap Run # {} => LiveRuns(got) # {}

-----------------------------------------------------------------------------
(* The exams and their lock.                                               *)

LEMMA ListedExams ==
  ASSUME exams \in Seq(Exam)
  PROVE  /\ DOMAIN exams = 1..Len(exams) /\ Len(exams) \in Nat
         /\ \A k \in DOMAIN exams : exams[k] \in Exam
  OBVIOUS

\* What a runner that only changes its place leaves alone.
LEMMA RunnerMoves ==
  ASSUME ExamTypes, NEW e \in Exam, exams' = exams, raced' \in BOOLEAN,
         NEW pc \in {"idle", "tested", "holding", "sitting", "leaving", "over"},
         runner' = [runner EXCEPT ![e] = [@ EXCEPT !.pc = pc]]
  PROVE  /\ ExamTypes' /\ runner'[e].pc = pc
         /\ \A d \in Exam : d # e => runner'[d] = runner[d]
<1>1. runner[e] \in [pc : {"idle", "tested", "holding", "sitting", "leaving", "over"},
                    next : Nat, halted : BOOLEAN]
  BY DEF ExamTypes
<1>2. /\ runner' = [runner EXCEPT ![e] = runner'[e]]
      /\ runner'[e] = [runner[e] EXCEPT !.pc = pc]
  BY DEF ExamTypes
<1>3. /\ runner'[e] \in [pc : {"idle", "tested", "holding", "sitting", "leaving", "over"},
                         next : Nat, halted : BOOLEAN]
      /\ runner'[e].pc = pc
  BY <1>1, <1>2
<1>4. runner' \in [Exam -> [pc : {"idle", "tested", "holding", "sitting", "leaving", "over"},
                           next : Nat, halted : BOOLEAN]]
  BY <1>2, <1>3 DEF ExamTypes
<1> QED
  BY <1>2, <1>3, <1>4 DEF ExamTypes

LEMMA ExamStepInv == ExamInv /\ ExamStep => ExamInv'
<1> SUFFICES ASSUME ExamInv, ExamStep PROVE ExamInv'
  OBVIOUS
<1> USE DEF ExamInv
<1> PICK e \in Exam :
      \/ SetLabLock(e) \/ TestLabLock(e) \/ KillRunner(e)
      \/ \E answered \in BOOLEAN : FinishExam(e, answered)
      \/ \E created, answered \in BOOLEAN : NewExamRun(e, created, answered)
      \/ \E row, written : Ask(e, row, written)
  BY DEF ExamStep, AskGraded, AskUngraded
<1>1. CASE TestLabLock(e)
  <2>1. runner' = [runner EXCEPT ![e] = [@ EXCEPT !.pc = "tested"]] /\ UNCHANGED <<lock, exams>>
    BY <1>1 DEF TestLabLock
  <2>2. /\ ExamTypes' /\ runner'[e].pc = "tested"
        /\ \A d \in Exam : d # e => runner'[d] = runner[d]
    <3>1. raced' \in BOOLEAN
      BY <1>1 DEF TestLabLock, ExamTypes
    <3> QED
      BY <2>1, <3>1, RunnerMoves
  <2>3. runner'[e].pc = "tested" /\ runner[e].pc = "idle"
    BY <1>1, <2>2 DEF TestLabLock
  <2>4. ~raced' => ~raced /\ \A d \in Exam : ~Alive(d)
    <3>1. ~raced' => ~raced /\ \A d \in Exam : runner[d].pc # "tested"
      BY <1>1 DEF TestLabLock, ExamTypes
    <3>2. \A d \in Exam : lock = d => ~Alive(d)
      BY <1>1, ExamAssumption DEF TestLabLock
    <3>3. \A d \in Exam : Alive(d) => runner[d].pc = "tested" \/ Holding(d)
      BY DEF Alive, Holding
    <3> QED
      BY <3>1, <3>2, <3>3 DEF OneRunner
  <2>5. OneRunner'
    BY <2>1, <2>2, <2>3, <2>4 DEF OneRunner, Alive, Holding
  <2>6. ListedInTurn'
    <3>1. \A k \in DOMAIN exams : exams[k] \in Exam
      BY ListedExams DEF ExamTypes
    <3>2. \A k \in DOMAIN exams : exams[k] # e
      BY <2>3 DEF ListedInTurn
    <3> QED
      BY <2>1, <2>2, <2>4, <3>1, <3>2 DEF ListedInTurn
  <2> QED
    BY <2>2, <2>5, <2>6
<1>2. CASE SetLabLock(e)
  <2>1. runner' = [runner EXCEPT ![e] = [@ EXCEPT !.pc = "holding"]]
        /\ lock' = e /\ UNCHANGED <<exams, raced>>
    BY <1>2 DEF SetLabLock
  <2>2. /\ ExamTypes' /\ runner'[e].pc = "holding"
        /\ \A d \in Exam : d # e => runner'[d] = runner[d]
    BY <2>1, RunnerMoves DEF ExamTypes
  <2>3. runner'[e].pc = "holding" /\ runner[e].pc = "tested"
    BY <1>2, <2>2 DEF SetLabLock
  <2>4. OneRunner'
    BY <2>1, <2>2, <2>3 DEF OneRunner, Alive, Holding
  <2>5. ListedInTurn'
    <3>1. \A k \in DOMAIN exams : exams[k] \in Exam
      BY ListedExams DEF ExamTypes
    <3>2. \A k \in DOMAIN exams : exams[k] # e
      BY <2>3 DEF ListedInTurn
    <3> QED
      BY <2>1, <2>2, <3>1, <3>2 DEF ListedInTurn
  <2> QED
    BY <2>2, <2>4, <2>5
<1>3. CASE KillRunner(e) \/ \E answered \in BOOLEAN : FinishExam(e, answered)
  <2>1. runner' = [runner EXCEPT ![e] = [@ EXCEPT !.pc = "over"]] /\ UNCHANGED <<exams, raced>>
    BY <1>3 DEF KillRunner, FinishExam
  <2>2. /\ ExamTypes' /\ runner'[e].pc = "over"
        /\ \A d \in Exam : d # e => runner'[d] = runner[d]
    BY <2>1, RunnerMoves DEF ExamTypes
  <2>3. runner'[e].pc = "over" /\ Alive(e)
    BY <1>3, <2>2 DEF KillRunner, FinishExam, Alive
  <2>4. lock' = lock \/ (lock = e /\ lock' = NoExam)
    BY <1>3 DEF KillRunner, FinishExam
  <2>5. OneRunner'
    BY <2>1, <2>2, <2>3, <2>4 DEF OneRunner, Alive, Holding
  <2>6. ListedInTurn'
    <3>1. \A k \in DOMAIN exams : exams[k] \in Exam
      BY DEF ExamTypes
    <3> QED
      BY <2>1, <2>2, <2>3, <3>1 DEF ListedInTurn
  <2> QED
    BY <2>2, <2>5, <2>6
<1>4. CASE \E created, answered \in BOOLEAN : NewExamRun(e, created, answered)
  <2> PICK created, answered \in BOOLEAN : NewExamRun(e, created, answered)
    BY <1>4
  <2>1. /\ runner[e].pc = "holding"
        /\ runner' = [runner EXCEPT ![e] =
                        [@ EXCEPT !.pc = IF answered THEN "sitting" ELSE "leaving"]]
        /\ exams' = IF created THEN Append(exams, e) ELSE exams
        /\ UNCHANGED <<lock, raced>>
    BY DEF NewExamRun
  <2> DEFINE next == [runner[e] EXCEPT !.pc = IF answered THEN "sitting" ELSE "leaving"]
  <2>a. /\ next \in [pc : {"idle", "tested", "holding", "sitting", "leaving", "over"},
                      next : Nat, halted : BOOLEAN]
        /\ next.pc \in {"sitting", "leaving"}
    BY DEF ExamTypes
  <2>b. runner' = [runner EXCEPT ![e] = next]
    BY <2>1
  <2> HIDE DEF next
  <2>2. ExamTypes' /\ \A d \in Exam : d # e => runner'[d] = runner[d]
    BY <2>1, <2>a, <2>b DEF ExamTypes
  <2>3. runner'[e].pc \in {"sitting", "leaving"}
    BY <2>a, <2>b DEF ExamTypes
  <2>4. OneRunner'
    BY <2>1, <2>2, <2>3 DEF OneRunner, Alive, Holding
  <2>5. /\ DOMAIN exams = 1..Len(exams) /\ Len(exams) \in Nat
        /\ \A k \in DOMAIN exams : exams[k] \in Exam /\ exams[k] # e
    <3>1. /\ DOMAIN exams = 1..Len(exams) /\ Len(exams) \in Nat
          /\ \A k \in DOMAIN exams : exams[k] \in Exam
      BY ListedExams DEF ExamTypes
    <3>2. \A k \in DOMAIN exams : exams[k] # e
      BY <2>1 DEF ListedInTurn
    <3> QED
      BY <3>1, <3>2
  <2>6. ~raced => \A k \in DOMAIN exams : runner[exams[k]].pc = "over"
    BY <2>1, <2>5 DEF ListedInTurn, OneRunner, Alive
  <2>7. ListedInTurn'
    <3>1. CASE ~created
      BY <2>1, <2>2, <2>5, <3>1 DEF ListedInTurn
    <3>2. CASE created
      <4>1. exams' = Append(exams, e)
        BY <2>1, <3>2
      <4>2. /\ Len(exams') = Len(exams) + 1
            /\ DOMAIN exams' = 1..Len(exams') /\ exams'[Len(exams) + 1] = e
            /\ \A k \in 1..Len(exams) : exams'[k] = exams[k]
        BY <4>1, AppendProperties DEF ExamTypes
      <4>3. \A k \in DOMAIN exams' : k # Len(exams') => k \in DOMAIN exams
        BY <2>5, <4>2
      <4> QED
        BY <2>1, <2>2, <2>3, <2>5, <2>6, <4>2, <4>3 DEF ListedInTurn
    <3> QED
      BY <3>1, <3>2
  <2> QED
    BY <2>2, <2>4, <2>7
<1>5. CASE \E row, written : Ask(e, row, written)
  <2> PICK row, written : Ask(e, row, written)
    BY <1>5
  <2> DEFINE next == [runner[e] EXCEPT !.next = @ + 1,
                                      !.halted = @ \/ row.status = "not_run"]
  <2>1. runner' = [runner EXCEPT ![e] = next] /\ UNCHANGED <<lock, exams, raced>>
    BY DEF Ask, ExamTypes
  <2>a. /\ next \in [pc : {"idle", "tested", "holding", "sitting", "leaving", "over"},
                      next : Nat, halted : BOOLEAN]
        /\ next.pc = runner[e].pc
    <3>1. runner[e].next + 1 \in Nat
      BY DEF ExamTypes
    <3>2. (runner[e].halted \/ row.status = "not_run") \in BOOLEAN
      OBVIOUS
    <3>3. \A q \in [pc : {"idle", "tested", "holding", "sitting", "leaving", "over"},
                    next : Nat, halted : BOOLEAN], n \in Nat, h \in BOOLEAN :
            LET r == [q EXCEPT !.next = n, !.halted = h]
            IN  /\ r \in [pc : {"idle", "tested", "holding", "sitting", "leaving", "over"},
                          next : Nat, halted : BOOLEAN]
                /\ r.pc = q.pc
      OBVIOUS
    <3>4. runner[e] \in [pc : {"idle", "tested", "holding", "sitting", "leaving", "over"},
                         next : Nat, halted : BOOLEAN]
      BY DEF ExamTypes
    <3>5. next = [runner[e] EXCEPT !.next = runner[e].next + 1,
                                   !.halted = runner[e].halted \/ row.status = "not_run"]
      OBVIOUS
    <3> QED
      BY <3>1, <3>2, <3>3, <3>4, <3>5, Zenon
  <2> HIDE DEF next
  <2>2. ExamTypes' /\ \A d \in Exam : runner'[d].pc = runner[d].pc
    BY <2>1, <2>a DEF ExamTypes
  <2>3. OneRunner'
    BY <2>1, <2>2 DEF OneRunner, Alive, Holding
  <2>4. ListedInTurn'
    <3>1. \A k \in DOMAIN exams : exams[k] \in Exam
      BY DEF ExamTypes
    <3> QED
      BY <2>1, <2>2, <3>1 DEF ListedInTurn
  <2> QED
    BY <2>2, <2>3, <2>4
<1> QED
  BY <1>1, <1>2, <1>3, <1>4, <1>5

\* Over is over, and a race is never taken back.
LEMMA OverStays ==
  ASSUME ExamTypes, ExamStep, NEW list, LaterAreOver(list)
  PROVE  LaterAreOver(list)'
<1>1. /\ raced => raced'
      /\ \A e \in Exam : runner[e].pc = "over" => runner'[e].pc = "over"
  <2> PICK e \in Exam :
        \/ SetLabLock(e) \/ TestLabLock(e) \/ KillRunner(e)
        \/ \E answered \in BOOLEAN : FinishExam(e, answered)
        \/ \E created, answered \in BOOLEAN : NewExamRun(e, created, answered)
        \/ \E row, written : Ask(e, row, written)
    BY DEF ExamStep, AskGraded, AskUngraded
  <2>1. /\ \A d \in Exam \ {e} : runner'[d] = runner[d]
        /\ runner[e].pc # "over" \/ runner'[e].pc = "over"
    BY DEF ExamTypes, SetLabLock, TestLabLock, KillRunner, FinishExam, NewExamRun, Ask, Alive
  <2>2. raced => raced'
    BY DEF SetLabLock, TestLabLock, KillRunner, FinishExam, NewExamRun, Ask
  <2> QED
    BY <2>1, <2>2
<1> QED
  BY <1>1 DEF LaterAreOver

LEMMA ExamInitInv == Init => ExamInv
<1> SUFFICES ASSUME Init PROVE ExamInv
  OBVIOUS
<1>1. exams = <<>> /\ exams \in Seq(Exam) /\ DOMAIN exams = {}
  BY DEF Init, ExamInit
<1> QED
  BY <1>1 DEF Init, ExamInit, ExamInv, ExamTypes, OneRunner, ListedInTurn, Alive, Holding

LEMMA ExamNextInv == ExamInv /\ [Next]_vars => ExamInv'
<1> SUFFICES ASSUME ExamInv, [Next]_vars PROVE ExamInv'
  OBVIOUS
<1>1. ExamStep \/ UNCHANGED examVars
  BY DEF Next, vars, BeginLoad, ReadOne, ApplyLoad, Visit, Decide, Hand, Served, DecisionBack,
         Trigger, Told, Gone, AgentsGoOn, PlaneStep
<1>2. CASE UNCHANGED examVars
  BY <1>2 DEF examVars, ExamInv, ExamTypes, OneRunner, ListedInTurn, Alive, Holding
<1> QED
  BY <1>1, <1>2, ExamStepInv

-----------------------------------------------------------------------------
(* What the scorecard holds.                                               *)

LEMMA ListIsOver ==
  ASSUME ExamInv
  PROVE  LaterAreOver(ListExamRuns) /\ LaterAreOver(<<>>)
<1> DEFINE list == [k \in DOMAIN exams |-> [id |-> exams[k], finished |-> exams[k] \in done]]
<1>1. /\ DOMAIN exams = 1..Len(exams) /\ Len(exams) \in Nat
      /\ \A k \in DOMAIN exams : exams[k] \in Exam
  BY DEF ExamInv, ExamTypes
<1>2. Len(list) = Len(exams)
  BY <1>1
<1>3. ListExamRuns = [k \in 1..Len(exams) |-> list[Len(exams) - k + 1]]
  BY <1>2 DEF ListExamRuns, Reverse
<1>4. ASSUME ~raced, NEW k \in 1..Len(exams), k # 1
      PROVE  LET n == Len(exams) - k + 1
             IN  n \in DOMAIN exams /\ n < Len(exams) /\ runner[exams[n]].pc = "over"
  BY <1>1, <1>4 DEF ExamInv, ListedInTurn
<1>5. LaterAreOver(ListExamRuns)
  BY <1>1, <1>3, <1>4 DEF LaterAreOver
<1> QED
  BY <1>5 DEF LaterAreOver

LEMMA ScoreNextInv == ExamInv /\ ScoreInv /\ [Next]_vars => ScoreInv'
<1> SUFFICES ASSUME ExamInv, ScoreInv, [Next]_vars, tab'.page = "scorecard"
             PROVE  /\ Holds(got)' /\ Holds(shown)'
                    /\ shown' # NoData => "examRuns" \in DOMAIN shown'
  BY DEF ScoreInv
<1>0. "examRuns" \notin DOMAIN NoData
  BY DEF NoData
<1>2. CASE BeginLoad
  <2>1. UNCHANGED <<runner, raced, tab, shown>> /\ got' = NoData
    BY <1>2 DEF BeginLoad, examVars
  <2> QED
    BY <1>0, <2>1 DEF ScoreInv, Holds, LaterAreOver
<1>3. CASE ReadOne
  <2>1. UNCHANGED <<runner, raced, tab, shown>>
    BY <1>3 DEF ReadOne, examVars
  <2> PICK q \in Asks :
        got' = [x \in DOMAIN got \cup {q} |-> IF x = q THEN Answer(q) ELSE got[x]]
    BY <1>3 DEF ReadOne
  <2>2. tab.page = "scorecard" /\ q \in {"examRuns", "examResults"}
    BY <2>1 DEF Asks
  <2>3. Holds(got)'
    <3>1. CASE q = "examRuns"
      <4>1. got'["examRuns"] \in {ListExamRuns, <<>>}
        BY <2>2, <3>1 DEF Answer
      <4> QED
        BY <2>1, <4>1, ListIsOver DEF Holds, LaterAreOver
    <3>2. CASE q = "examResults"
      <4>1. "examRuns" \in DOMAIN got' =>
              "examRuns" \in DOMAIN got /\ got'["examRuns"] = got["examRuns"]
        BY <3>2
      <4> QED
        BY <2>1, <2>2, <4>1 DEF ScoreInv, Holds, LaterAreOver
    <3> QED
      BY <2>2, <3>1, <3>2
  <2> QED
    BY <2>1, <2>2, <2>3 DEF ScoreInv, Holds, LaterAreOver
<1>4. CASE ApplyLoad
  <2>1. UNCHANGED <<runner, raced, tab>> /\ got' = NoData /\ shown' = got /\ Asks = {}
    BY <1>4 DEF ApplyLoad, examVars
  <2>2. "examRuns" \in DOMAIN got
    BY <2>1 DEF Asks
  <2> QED
    BY <1>0, <2>1, <2>2 DEF ScoreInv, Holds, LaterAreOver
<1>5. CASE Visit \/ Gone
  <2>1. got' = NoData /\ shown' = NoData
    BY <1>5 DEF Visit, Gone, Leave
  <2> QED
    BY <1>0, <2>1 DEF Holds
<1>6. CASE ExamStep
  <2>1. tab' = tab /\ got' = got /\ shown' = shown
    BY <1>6 DEF ExamStep, loadVars
  <2>2. \A list : LaterAreOver(list) => (~raced' => \A k \in DOMAIN list :
          k # 1 => list[k].id \in Exam /\ runner'[list[k].id].pc = "over")
    BY <1>6, OverStays DEF ExamInv, LaterAreOver
  <2> QED
    BY <2>1, <2>2 DEF ScoreInv, Holds, LaterAreOver
<1>7. CASE UNCHANGED <<runner, raced, tab, got, shown>>
  BY <1>7 DEF ScoreInv, Holds, LaterAreOver
<1> QED
  BY <1>2, <1>3, <1>4, <1>5, <1>6, <1>7
  DEF Next, vars, loadVars, examVars, Decide, Hand, Served, DecisionBack, Trigger, Told,
      AgentsGoOn, PlaneStep

LEMMA ScoreInitInv == Init => ScoreInv
BY DEF Init, ScoreInv, Holds, NoData

\* Without two runners that tested the lock at once, an exam that the
\* scorecard calls interrupted is not running, however old what it shows is.
THEOREM InterruptedHolds == Spec => []InterruptedIsOver
<1>1. ExamInv /\ ScoreInv => InterruptedIsOver
  <2> SUFFICES ASSUME ExamInv, ScoreInv, OnScorecard, ~raced,
                      NEW k \in DOMAIN Cards(shown),
                      RunLabel(Cards(shown), k) = "interrupted"
               PROVE  ~Alive(Cards(shown)[k].run.id)
    BY DEF InterruptedIsOver
  <2>1. k \in DOMAIN shown["examRuns"] /\ Cards(shown)[k].run = shown["examRuns"][k]
    BY DEF Cards, BuildScorecard, ScoreRun
  <2>2. k # 1
    BY DEF RunLabel
  <2>3. runner[shown["examRuns"][k].id].pc = "over"
    BY <2>1, <2>2 DEF ScoreInv, Holds, OnScorecard, LaterAreOver
  <2> QED
    BY <2>1, <2>3 DEF Alive
<1> QED
  BY <1>1, ExamInitInv, ExamNextInv, ScoreInitInv, ScoreNextInv, PTL DEF Spec

-----------------------------------------------------------------------------
(* What the scorecard adds up.                                             *)

\* Parts that a bijection matches are as large as one another.
LEMMA MatchedParts ==
  ASSUME NEW A, NEW B, NEW f \in Bijection(A, B), IsFiniteSet(A),
         NEW P \in SUBSET A, NEW Q \in SUBSET B,
         \A a \in A : a \in P <=> f[a] \in Q
  PROVE  Cardinality(P) = Cardinality(Q)
<1>1. /\ f \in [A -> B]
      /\ \A a, b \in A : f[a] = f[b] => a = b
      /\ \A q \in B : \E a \in A : f[a] = q
  BY DEF Bijection, Injection, Surjection, IsInjective
<1> DEFINE g == [a \in P |-> f[a]]
<1>2. g \in Bijection(P, Q)
  <2>1. g \in [P -> Q]
    BY <1>1
  <2>2. \A a, b \in P : g[a] = g[b] => a = b
    BY <1>1
  <2>3. \A q \in Q : \E a \in P : g[a] = q
    BY <1>1
  <2> HIDE DEF g
  <2> QED
    BY <2>1, <2>2, <2>3 DEF Bijection, Injection, Surjection, IsInjective
<1>3. IsFiniteSet(P)
  BY FS_Subset
<1>4. ExistsBijection(P, Q)
  BY <1>2 DEF ExistsBijection
<1> QED
  BY <1>3, <1>4, FS_Bijection

\* The same for pairs.
LEMMA MatchedPairs ==
  ASSUME NEW A, NEW B, NEW C, NEW f \in Bijection(A, B), IsFiniteSet(A), IsFiniteSet(C),
         NEW P \in SUBSET (A \X C), NEW Q \in SUBSET (B \X C),
         \A a \in A, c \in C : <<a, c>> \in P <=> <<f[a], c>> \in Q
  PROVE  Cardinality(P) = Cardinality(Q)
<1>1. /\ f \in [A -> B]
      /\ \A a, b \in A : f[a] = f[b] => a = b
      /\ \A q \in B : \E a \in A : f[a] = q
  BY DEF Bijection, Injection, Surjection, IsInjective
<1> DEFINE g == [p \in A \X C |-> <<f[p[1]], p[2]>>]
<1>2. g \in Bijection(A \X C, B \X C)
  <2>1. g \in [A \X C -> B \X C]
    BY <1>1
  <2>2. \A p, q \in A \X C : g[p] = g[q] => p = q
    <3> SUFFICES ASSUME NEW a \in A, NEW c \in C, NEW b \in A, NEW d \in C,
                        <<f[a], c>> = <<f[b], d>>
                 PROVE  a = b /\ c = d
      OBVIOUS
    <3>1. f[a] = f[b] /\ c = d
      OBVIOUS
    <3> QED
      BY <1>1, <3>1
  <2>3. \A q \in B \X C : \E p \in A \X C : g[p] = q
    <3> TAKE q \in B \X C
    <3>1. q[1] \in B /\ q[2] \in C /\ q = <<q[1], q[2]>>
      OBVIOUS
    <3>2. PICK a \in A : f[a] = q[1]
      BY <1>1, <3>1
    <3>3. <<a, q[2]>> \in A \X C /\ g[<<a, q[2]>>] = <<q[1], q[2]>>
      BY <3>1, <3>2
    <3> QED
      BY <3>1, <3>3
  <2> HIDE DEF g
  <2> QED
    BY <2>1, <2>2, <2>3 DEF Bijection, Injection, Surjection, IsInjective
<1>3. IsFiniteSet(A \X C)
  BY FS_Product
<1>4. \A p \in A \X C : p \in P <=> g[p] \in Q
  OBVIOUS
<1> HIDE DEF g
<1> QED
  BY <1>2, <1>3, <1>4, MatchedParts

LEMMA CriterionFinite == IsFiniteSet(Criterion)
<1>1. \A a, b : IsFiniteSet({a, b})
  <2> TAKE a, b
  <2>1. IsFiniteSet({a}) /\ IsFiniteSet({b})
    BY FS_Singleton
  <2>2. {a, b} = {a} \cup {b}
    OBVIOUS
  <2> QED
    BY <2>1, <2>2, FS_Union
<1>2. Criterion = {"componentCorrect", "causeCategoryCorrect"}
                    \cup {"evidenceCited", "remediationAppropriate"}
  BY DEF Criterion
<1>3. /\ IsFiniteSet({"componentCorrect", "causeCategoryCorrect"})
      /\ IsFiniteSet({"evidenceCited", "remediationAppropriate"})
  BY <1>1
<1> QED
  BY <1>2, <1>3, FS_Union

\* The same graded rows in whatever order make the same grade of a run.
LEMMA SameGrade ==
  ASSUME NEW old, NEW new, NEW n \in Nat, DOMAIN new = 1..n,
         NEW f \in Bijection(OnlyGraded(new), OnlyGraded(old)),
         \A k \in OnlyGraded(new) : new[k] = old[f[k]],
         NEW card, NEW card2, card.id = card2.id
  PROVE  Tally(ScoreRun(card, new)) = Tally(ScoreRun(card2, old))
<1> DEFINE G == RowsOf(card, new) \cap OnlyGraded(new)
           H == RowsOf(card2, old) \cap OnlyGraded(old)
           PG == {p \in G \X Criterion : ~new[p[1]].cheated /\ p[2] \in new[p[1]].met}
           PH == {p \in H \X Criterion : ~old[p[1]].cheated /\ p[2] \in old[p[1]].met}
<1>1. IsFiniteSet(OnlyGraded(new))
  <2>1. IsFiniteSet(1..n)
    BY FS_Interval
  <2> QED
    BY <2>1, FS_Subset DEF OnlyGraded
<1>2. f \in [OnlyGraded(new) -> OnlyGraded(old)]
  BY DEF Bijection, Injection
<1>3. \A k \in OnlyGraded(new) : k \in G <=> f[k] \in H
  BY <1>2 DEF RowsOf, OnlyGraded
<1>4. Cardinality(G) = Cardinality(H)
  BY <1>1, <1>3, MatchedParts
<1>5. Cardinality(PG) = Cardinality(PH)
  <2>1. PG \subseteq OnlyGraded(new) \X Criterion /\ PH \subseteq OnlyGraded(old) \X Criterion
    OBVIOUS
  <2>2. \A k \in OnlyGraded(new), c \in Criterion : <<k, c>> \in PG <=> <<f[k], c>> \in PH
    <3> TAKE k \in OnlyGraded(new), c \in Criterion
    <3>1. f[k] \in OnlyGraded(old) /\ new[k] = old[f[k]] /\ (k \in G <=> f[k] \in H)
      BY <1>2, <1>3
    <3>2. /\ <<k, c>> \in PG <=> k \in G /\ ~new[k].cheated /\ c \in new[k].met
          /\ <<f[k], c>> \in PH <=> f[k] \in H /\ ~old[f[k]].cheated /\ c \in old[f[k]].met
      <4> HIDE DEF G, H
      <4> QED
        OBVIOUS
    <3> QED
      BY <3>1, <3>2
  <2> HIDE DEF PG, PH
  <2> QED
    BY <1>1, <2>1, <2>2, CriterionFinite, MatchedPairs
<1>6. /\ Points(new, G) = Cardinality(PG)
      /\ Points(old, H) = Cardinality(PH)
  BY DEF Points
<1>7. /\ ScoreRun(card, new).scored = Points(new, G)
      /\ ScoreRun(card, new).possible = Cardinality(G) * Cardinality(Criterion)
      /\ ScoreRun(card2, old).scored = Points(old, H)
      /\ ScoreRun(card2, old).possible = Cardinality(H) * Cardinality(Criterion)
  BY DEF ScoreRun
<1> HIDE DEF G, H, PG, PH
<1> QED
  BY <1>4, <1>5, <1>6, <1>7 DEF Tally

LEMMA SameTotals ==
  ASSUME NEW old, NEW new, NEW n \in Nat, DOMAIN new = 1..n,
         NEW f \in Bijection(OnlyGraded(new), OnlyGraded(old)),
         \A k \in OnlyGraded(new) : new[k] = old[f[k]]
  PROVE  CriterionTotals(new) = CriterionTotals(old)
<1>1. IsFiniteSet(OnlyGraded(new))
  <2>1. IsFiniteSet(1..n)
    BY FS_Interval
  <2> QED
    BY <2>1, FS_Subset DEF OnlyGraded
<1>2. f \in [OnlyGraded(new) -> OnlyGraded(old)]
  BY DEF Bijection, Injection
<1>3. ASSUME NEW c \in Criterion
      PROVE  Cardinality({k \in OnlyGraded(new) : c \in new[k].met})
               = Cardinality({k \in OnlyGraded(old) : c \in old[k].met})
  BY <1>1, <1>2, MatchedParts
<1> QED
  BY <1>3 DEF CriterionTotals

\* Two answers that list the same exams list them in the same order.
LEMMA SameOrder ==
  ASSUME ExamTypes, ListedOnce, NEW old, NEW new, NewestOf(old, exams), NewestOf(new, exams),
         {new[k].id : k \in DOMAIN new} = {old[k].id : k \in DOMAIN old}
  PROVE  DOMAIN new = DOMAIN old /\ \A k \in DOMAIN new : new[k].id = old[k].id
<1> DEFINE N == Len(exams)
<1>1. N \in Nat /\ DOMAIN exams = 1..N
  BY DEF ExamTypes
<1> HIDE DEF N
<1>2. PICK m \in 0..N : DOMAIN old = 1..m /\ \A k \in 1..m : old[k].id = exams[m + 1 - k]
  BY DEF NewestOf, N
<1>3. PICK n \in 0..N : DOMAIN new = 1..n /\ \A k \in 1..n : new[k].id = exams[n + 1 - k]
  BY DEF NewestOf, N
<1> DEFINE First(i) == {exams[i + 1 - k] : k \in 1..i}
<1>4. ASSUME NEW a \in 0..N, NEW b \in 0..N, a < b PROVE First(a) # First(b)
  <2>1. 1 \in 1..b /\ b + 1 - 1 = b /\ b \in 1..N
    BY <1>1, <1>4
  <2>2. exams[b] \in First(b)
    BY <2>1
  <2>3. ASSUME NEW k \in 1..a PROVE exams[a + 1 - k] # exams[b]
    <3>1. a + 1 - k \in 1..N /\ a + 1 - k # b
      BY <1>1, <1>4
    <3> QED
      BY <1>1, <2>1, <3>1 DEF ListedOnce
  <2>4. exams[b] \notin First(a)
    BY <2>3
  <2> QED
    BY <2>2, <2>4
<1>5. First(m) = First(n)
  <2>1. {old[k].id : k \in DOMAIN old} = First(m)
    BY <1>2
  <2>2. {new[k].id : k \in DOMAIN new} = First(n)
    BY <1>3
  <2> QED
    BY <2>1, <2>2
<1> HIDE DEF First
<1>6. m = n
  <2>1. ~(m < n) /\ ~(n < m)
    BY <1>4, <1>5
  <2> QED
    BY <1>1, <2>1
<1> QED
  BY <1>2, <1>3, <1>6

\* What a load brings that lists the same exams and the same graded rows.
LEMMA SameGrades ==
  ASSUME ExamTypes, ListedOnce, NEW data, NEW next, Copied(data, exams), Copied(next, exams),
         {"examRuns", "examResults"} \subseteq DOMAIN data,
         {"examRuns", "examResults"} \subseteq DOMAIN next,
         GradesAs(data, next)
  PROVE  /\ PooledAccuracy(Cards(next)) = PooledAccuracy(Cards(data))
         /\ TrendStrip(Cards(next)) = TrendStrip(Cards(data))
         /\ CriterionTotals(next["examResults"]) = CriterionTotals(data["examResults"])
<1> DEFINE old == data["examResults"]
           new == next["examResults"]
           runsOld == data["examRuns"]
           runsNew == next["examRuns"]
<1>1. /\ NewestOf(runsOld, exams) /\ NewestOf(runsNew, exams)
      /\ \E n \in Nat : DOMAIN new = 1..n
  BY DEF Copied
<1>2. PICK f \in Bijection(OnlyGraded(new), OnlyGraded(old)) :
        \A k \in OnlyGraded(new) : new[k] = old[f[k]]
  BY DEF GradesAs
<1>3. {runsNew[k].id : k \in DOMAIN runsNew} = {runsOld[k].id : k \in DOMAIN runsOld}
  BY DEF GradesAs, Listed
<1>4. /\ Cards(next) = [k \in DOMAIN runsNew |-> ScoreRun(runsNew[k], new)]
      /\ Cards(data) = [k \in DOMAIN runsOld |-> ScoreRun(runsOld[k], old)]
  BY DEF Cards, BuildScorecard
<1> HIDE DEF old, new, runsOld, runsNew
<1>5. DOMAIN runsNew = DOMAIN runsOld /\ \A k \in DOMAIN runsNew : runsNew[k].id = runsOld[k].id
  BY <1>1, <1>3, SameOrder
<1>6. /\ DOMAIN Cards(next) = DOMAIN Cards(data)
      /\ \A k \in DOMAIN Cards(next) : Tally(Cards(next)[k]) = Tally(Cards(data)[k])
  BY <1>1, <1>2, <1>4, <1>5, SameGrade
<1>7. PooledAccuracy(Cards(next)) = PooledAccuracy(Cards(data))
  <2>1. [k \in DOMAIN Cards(next) |-> Tally(Cards(next)[k])]
          = [k \in DOMAIN Cards(data) |-> Tally(Cards(data)[k])]
    BY <1>6
  <2> QED
    BY <2>1 DEF PooledAccuracy
<1>8. TrendStrip(Cards(next)) = TrendStrip(Cards(data))
  <2>1. \A k \in DOMAIN Cards(next) : Grade(Cards(next)[k]) = Grade(Cards(data)[k])
    <3> TAKE k \in DOMAIN Cards(next)
    <3>1. /\ Cards(next)[k].scored = Cards(data)[k].scored
          /\ Cards(next)[k].possible = Cards(data)[k].possible
      BY <1>6 DEF Tally
    <3> QED
      BY <3>1 DEF Grade
  <2>2. [k \in DOMAIN Cards(next) |-> Grade(Cards(next)[k])]
          = [k \in DOMAIN Cards(data) |-> Grade(Cards(data)[k])]
    BY <1>6, <2>1
  <2> QED
    BY <2>2 DEF TrendStrip
<1>9. CriterionTotals(new) = CriterionTotals(old)
  BY <1>1, <1>2, SameTotals
<1> QED
  BY <1>7, <1>8, <1>9 DEF old, new

-----------------------------------------------------------------------------
(* The loads of the scorecard bring what was listed at the time.           *)

\* What a step does to the lists of the exams and their rows.
ListsGrow ==
  /\ exams' = exams \/ \E e \in Exam : exams' = Append(exams, e) /\ runner[e].pc = "holding"
  /\ rows' = rows \/ \E row : rows' = Append(rows, row)

LEMMA ListSteps == [Next]_vars => ListsGrow
<1> SUFFICES ASSUME [Next]_vars PROVE ListsGrow
  OBVIOUS
<1>1. ExamStep \/ UNCHANGED examVars
  BY DEF Next, vars, BeginLoad, ReadOne, ApplyLoad, Visit, Decide, Hand, Served, DecisionBack,
         Trigger, Told, Gone, AgentsGoOn, PlaneStep
<1>2. CASE UNCHANGED examVars
  BY <1>2 DEF examVars, ListsGrow
<1>3. CASE ExamStep
  <2> PICK e \in Exam :
        \/ SetLabLock(e) \/ TestLabLock(e) \/ KillRunner(e)
        \/ \E answered \in BOOLEAN : FinishExam(e, answered)
        \/ \E created, answered \in BOOLEAN : NewExamRun(e, created, answered)
        \/ \E row, written : Ask(e, row, written)
    BY <1>3 DEF ExamStep, AskGraded, AskUngraded
  <2> QED
    BY DEF SetLabLock, TestLabLock, KillRunner, FinishExam, NewExamRun, Ask, Write, ListsGrow
<1> QED
  BY <1>1, <1>2, <1>3

\* The list of the exams grows at its end.
LEMMA ExamsGrow ==
  ASSUME ExamInv, ListsGrow
  PROVE  /\ Len(exams) \in Nat /\ Len(exams') \in Nat /\ Len(exams) <= Len(exams')
         /\ DOMAIN exams = 1..Len(exams)
         /\ \A k \in 1..Len(exams) : exams'[k] = exams[k]
         /\ ListedOnce => ListedOnce'
<1>1. Len(exams) \in Nat /\ DOMAIN exams = 1..Len(exams)
  BY DEF ExamInv, ExamTypes
<1>2. CASE exams' = exams
  BY <1>1, <1>2 DEF ListedOnce
<1>3. ASSUME NEW e \in Exam, exams' = Append(exams, e), runner[e].pc = "holding"
      PROVE  /\ Len(exams') = Len(exams) + 1
             /\ \A k \in 1..Len(exams) : exams'[k] = exams[k]
             /\ ListedOnce => ListedOnce'
  <2>1. /\ Len(exams') = Len(exams) + 1
        /\ DOMAIN exams' = 1..Len(exams') /\ exams'[Len(exams) + 1] = e
        /\ \A k \in 1..Len(exams) : exams'[k] = exams[k]
    BY <1>3, AppendProperties DEF ExamInv, ExamTypes
  <2>2. \A k \in DOMAIN exams : exams[k] # e
    BY <1>3 DEF ExamInv, ListedInTurn
  <2>3. \A k \in DOMAIN exams' : k \in DOMAIN exams \/ k = Len(exams) + 1
    BY <1>1, <2>1
  <2> QED
    BY <1>1, <2>1, <2>2, <2>3 DEF ListedOnce
<1> QED
  BY <1>1, <1>2, <1>3 DEF ListsGrow

LEMMA RowsGrow ==
  ASSUME NEW S, rows \in Seq(S), ListsGrow
  PROVE  \E T : rows' \in Seq(T)
<1>1. CASE rows' = rows
  BY <1>1
<1>2. ASSUME NEW row, rows' = Append(rows, row) PROVE \E T : rows' \in Seq(T)
  <2>1. rows \in Seq(S \cup {row})
    OBVIOUS
  <2>2. rows' \in Seq(S \cup {row})
    BY <1>2, <2>1
  <2> QED
    BY <2>2
<1> QED
  BY <1>1, <1>2 DEF ListsGrow

\* What was copied stays a copy.
LEMMA CopyStays ==
  ASSUME ExamInv, ListsGrow, NEW data, Copied(data, exams)
  PROVE  Copied(data, exams')
<1>1. /\ Len(exams) \in Nat /\ Len(exams') \in Nat /\ Len(exams) <= Len(exams')
      /\ \A k \in 1..Len(exams) : exams'[k] = exams[k]
  BY ExamsGrow
<1>2. ASSUME NEW list, NewestOf(list, exams) PROVE NewestOf(list, exams')
  <2> PICK m \in 0..Len(exams) :
        /\ DOMAIN list = 1..m
        /\ \A k \in 1..m : list[k].id = exams[m + 1 - k]
    BY <1>2 DEF NewestOf
  <2>1. m \in 0..Len(exams')
    BY <1>1
  <2>2. ASSUME NEW k \in 1..m PROVE exams'[m + 1 - k] = exams[m + 1 - k]
    <3>1. m + 1 - k \in 1..Len(exams)
      BY <1>1
    <3> QED
      BY <1>1, <3>1
  <2> QED
    BY <2>1, <2>2 DEF NewestOf
<1> QED
  BY <1>2 DEF Copied

LEMMA ListIsCopy ==
  ASSUME ExamInv
  PROVE  NewestOf(ListExamRuns, exams) /\ NewestOf(<<>>, exams)
<1> DEFINE list == [k \in DOMAIN exams |-> [id |-> exams[k], finished |-> exams[k] \in done]]
<1>1. /\ DOMAIN exams = 1..Len(exams) /\ Len(exams) \in Nat
  BY DEF ExamInv, ExamTypes
<1>2. Len(list) = Len(exams)
  BY <1>1
<1>3. ListExamRuns = [k \in 1..Len(exams) |-> list[Len(exams) - k + 1]]
  BY <1>2 DEF ListExamRuns, Reverse
<1>4. ASSUME NEW k \in 1..Len(exams)
      PROVE  ListExamRuns[k].id = exams[Len(exams) + 1 - k]
  <2>1. /\ Len(exams) - k + 1 \in DOMAIN exams
        /\ Len(exams) - k + 1 = Len(exams) + 1 - k
    BY <1>1
  <2> QED
    BY <1>3, <2>1
<1>5. NewestOf(ListExamRuns, exams)
  <2>1. DOMAIN ListExamRuns = 1..Len(exams) /\ Len(exams) \in 0..Len(exams)
    BY <1>1, <1>3
  <2> QED
    BY <1>4, <2>1 DEF NewestOf
<1> QED
  BY <1>1, <1>5 DEF NewestOf

LEMMA RowsAreCopied ==
  ASSUME NEW S, rows \in Seq(S)
  PROVE  \E n \in Nat : DOMAIN ListExamResults = 1..n
BY DEF ListExamResults, Reverse

LEMMA CopyInitInv == Init => CopyInv /\ ListedOnce
<1> SUFFICES ASSUME Init PROVE CopyInv /\ ListedOnce
  OBVIOUS
<1>1. rows \in Seq({}) /\ DOMAIN exams = {}
  BY DEF Init, ExamInit
<1>2. got = NoData /\ shown = NoData /\ DOMAIN NoData = {}
  BY DEF Init, NoData
<1> QED
  BY <1>1, <1>2 DEF CopyInv, ListedOnce, Copied

LEMMA CopyNextInv == ExamInv /\ CopyInv /\ [Next]_vars => CopyInv'
<1> SUFFICES ASSUME ExamInv, CopyInv, [Next]_vars PROVE CopyInv'
  OBVIOUS
<1>1. ListsGrow
  BY ListSteps
<1>2. \E S : rows' \in Seq(S)
  BY <1>1, RowsGrow DEF CopyInv
<1>3. \A data : Copied(data, exams) => Copied(data, exams')
  BY <1>1, CopyStays
<1> SUFFICES ASSUME tab'.page = "scorecard"
             PROVE  /\ Copied(got', exams') /\ Copied(shown', exams')
                    /\ shown' # NoData => {"examRuns", "examResults"} \subseteq DOMAIN shown'
  BY <1>2 DEF CopyInv
<1>4. Copied(NoData, exams) /\ DOMAIN NoData = {}
  BY DEF Copied, NoData
<1>5. CASE BeginLoad
  <2>1. UNCHANGED <<exams, tab, shown>> /\ got' = NoData
    BY <1>5 DEF BeginLoad, examVars
  <2> QED
    BY <1>3, <1>4, <2>1 DEF CopyInv
<1>6. CASE ReadOne
  <2>1. UNCHANGED <<exams, tab, shown>>
    BY <1>6 DEF ReadOne, examVars
  <2>2. PICK q \in Asks :
          got' = [x \in DOMAIN got \cup {q} |-> IF x = q THEN Answer(q) ELSE got[x]]
    BY <1>6 DEF ReadOne
  <2>3. tab.page = "scorecard" /\ q \in {"examRuns", "examResults"}
    BY <2>1 DEF Asks
  <2>4. Copied(got, exams) /\ Copied(shown, exams)
    BY <2>3 DEF CopyInv
  <2>5. Copied(got', exams)
    <3>1. CASE q = "examRuns"
      <4>1. got'["examRuns"] \in {ListExamRuns, <<>>}
        BY <2>2, <2>3, <3>1 DEF Answer
      <4>2. NewestOf(got'["examRuns"], exams)
        BY <4>1, ListIsCopy
      <4>3. "examResults" \in DOMAIN got' =>
              "examResults" \in DOMAIN got /\ got'["examResults"] = got["examResults"]
        BY <2>2, <3>1
      <4> QED
        BY <2>4, <4>2, <4>3 DEF Copied
    <3>2. CASE q = "examResults"
      <4>1. got'["examResults"] \in {ListExamResults, <<>>}
        BY <2>2, <2>3, <3>2 DEF Answer
      <4>2. \E n \in Nat : DOMAIN got'["examResults"] = 1..n
        <5>1. DOMAIN <<>> = 1..0
          OBVIOUS
        <5> QED
          BY <4>1, <5>1, RowsAreCopied DEF CopyInv
      <4>3. "examRuns" \in DOMAIN got' =>
              "examRuns" \in DOMAIN got /\ got'["examRuns"] = got["examRuns"]
        BY <2>2, <3>2
      <4> QED
        BY <2>4, <4>2, <4>3 DEF Copied
    <3> QED
      BY <2>3, <3>1, <3>2
  <2> QED
    BY <2>1, <2>3, <2>4, <2>5 DEF CopyInv
<1>7. CASE ApplyLoad
  <2>1. UNCHANGED <<exams, tab>> /\ got' = NoData /\ shown' = got /\ Asks = {}
    BY <1>7 DEF ApplyLoad, examVars
  <2>2. {"examRuns", "examResults"} \subseteq DOMAIN got
    BY <2>1 DEF Asks
  <2> QED
    BY <1>4, <2>1, <2>2 DEF CopyInv
<1>8. CASE Visit \/ Gone
  <2>1. got' = NoData /\ shown' = NoData
    BY <1>8 DEF Visit, Gone, Leave
  <2> QED
    BY <1>1, <1>4, <2>1, CopyStays
<1>9. CASE UNCHANGED <<tab, got, shown>>
  BY <1>3, <1>9 DEF CopyInv
<1> QED
  BY <1>5, <1>6, <1>7, <1>8, <1>9
  DEF Next, vars, loadVars, Decide, Hand, Served, DecisionBack, Trigger, Told,
      AgentsGoOn, PlaneStep, ExamStep

\* A load of the scorecard that lists the same exams and the same graded
\* rows, whatever order they come in and whatever else was written since,
\* leaves the pooled accuracy, every bar and every total as they were.
THEOREM UngradedHolds == Spec => UngradedCostNothing
<1> DEFINE Inv == ExamInv /\ ListedOnce /\ CopyInv
           Same == (OnScorecard /\ LoadEnds /\ GradesAs(shown, shown')) =>
             /\ PooledAccuracy(Cards(shown')) = PooledAccuracy(Cards(shown))
             /\ TrendStrip(Cards(shown')) = TrendStrip(Cards(shown))
             /\ CriterionTotals(shown'["examResults"]) = CriterionTotals(shown["examResults"])
<1>1. Init => Inv
  BY ExamInitInv, CopyInitInv
<1>2. Inv /\ [Next]_vars => Inv'
  <2> SUFFICES ASSUME Inv, [Next]_vars PROVE Inv'
    OBVIOUS
  <2>1. ExamInv' /\ CopyInv'
    BY ExamNextInv, CopyNextInv
  <2>2. ListedOnce'
    BY ListSteps, ExamsGrow
  <2> QED
    BY <2>1, <2>2
<1>3. Inv /\ [Next]_vars => [Same]_vars
  <2> SUFFICES ASSUME Inv, [Next]_vars, OnScorecard, LoadEnds, GradesAs(shown, shown')
               PROVE  Same
    OBVIOUS
  <2>1. ApplyLoad
    BY DEF Next, vars, loadVars, LoadEnds, BeginLoad, ReadOne, Visit, Decide, Hand, Served,
           DecisionBack, Trigger, Told, Gone, Leave, AgentsGoOn, PlaneStep, ExamStep
  <2>2. shown' = got /\ Asks = {} /\ tab.page = "scorecard"
    BY <2>1 DEF ApplyLoad, OnScorecard
  <2>3. {"examRuns", "examResults"} \subseteq DOMAIN got
    BY <2>2 DEF Asks
  <2>4. /\ {"examRuns", "examResults"} \subseteq DOMAIN shown
        /\ Copied(shown, exams) /\ Copied(got, exams)
    BY <2>2 DEF CopyInv, OnScorecard
  <2>5. GradesAs(shown, got)
    BY <2>2
  <2>6. /\ PooledAccuracy(Cards(got)) = PooledAccuracy(Cards(shown))
        /\ TrendStrip(Cards(got)) = TrendStrip(Cards(shown))
        /\ CriterionTotals(got["examResults"]) = CriterionTotals(shown["examResults"])
    BY <2>3, <2>4, <2>5, SameGrades DEF ExamInv
  <2> QED
    BY <2>2, <2>6
<1> QED
  BY <1>1, <1>2, <1>3, PTL DEF Spec, UngradedCostNothing

-----------------------------------------------------------------------------
(* The presses.                                                            *)

\* a step of one start: what became of the others is what it was
LEMMA PressMoves ==
  ASSUME PressTypes, NEW p \in Press, NEW s,
         press' = [press EXCEPT ![p].state = s]
  PROVE  /\ DOMAIN press' = Press
         /\ \A q \in Press : /\ DOMAIN press'[q] = DOMAIN press[q]
                             /\ press'[q].here = press[q].here
                             /\ q # p => press'[q].state = press[q].state
         /\ press'[p].state = s
BY DEF PressTypes

LEMMA PressNextInv == PressTypes /\ ButtonIsOwn /\ [Next]_vars => PressTypes' /\ ButtonIsOwn'
<1> SUFFICES ASSUME PressTypes, ButtonIsOwn, [Next]_vars PROVE PressTypes' /\ ButtonIsOwn'
  OBVIOUS
<1>0. starting \in BOOLEAN /\ failed \in BOOLEAN
  BY DEF PressTypes
<1>1. CASE UNCHANGED handoffVars
  <2>1. press' = press /\ starting' = starting /\ failed' = failed
    BY <1>1 DEF handoffVars
  <2>2. PressTypes'
    BY <2>1 DEF PressTypes
  <2>3. \A p \in Press : UnderWay(p)' <=> UnderWay(p)
    BY <2>1 DEF UnderWay
  <2>4. \A p, q \in Press : UnderWay(p)' /\ UnderWay(q)' => p = q
    BY <2>3 DEF ButtonIsOwn
  <2>5. (starting <=> \E p \in Press : UnderWay(p))'
    <3>1. starting' <=> starting
      BY <2>1
    <3>2. starting <=> \E p \in Press : UnderWay(p)
      BY DEF ButtonIsOwn
    <3> QED
      BY <2>3, <3>1, <3>2, Zenon
  <2>6. (failed => \E p \in Press : press[p].here /\ press[p].state = "told")'
    <3>1. failed' <=> failed
      BY <2>1
    <3>2. failed => \E p \in Press : press[p].here /\ press[p].state = "told"
      BY DEF ButtonIsOwn
    <3> QED
      BY <2>1, <3>1, <3>2
  <2> QED
    BY <2>2, <2>4, <2>5, <2>6 DEF ButtonIsOwn
<1>a. ASSUME DOMAIN press' = Press, starting' = FALSE, failed' = FALSE,
             \A p \in Press : DOMAIN press'[p] = DOMAIN press[p] /\ press'[p].here = FALSE
      PROVE  PressTypes' /\ ButtonIsOwn'
  <2>1. PressTypes'
    BY <1>a DEF PressTypes
  <2>2. ~starting' /\ ~failed' /\ \A p \in Press : ~UnderWay(p)'
    BY <1>a DEF UnderWay
  <2> QED
    BY <2>1, <2>2, Zenon DEF ButtonIsOwn
<1>2. CASE Visit
  <2>1. press' = [p \in Press |-> [press[p] EXCEPT !.here = FALSE]]
    BY <1>2 DEF Visit, PageGone
  <2>2. \A p \in Press : DOMAIN press'[p] = DOMAIN press[p] /\ press'[p].here = FALSE
    BY <2>1 DEF PressTypes
  <2> QED
    BY <1>a, <1>2, <2>1, <2>2 DEF Visit, PageGone
<1>3. CASE Hand
  <2> PICK p \in Press : \E what : PressStart(p, what, FALSE) \/ PressStart(p, what, TRUE)
    BY <1>3 DEF Hand, StartAutoFix, RunWithExecutor
  <2> PICK what : PressStart(p, what, FALSE) \/ PressStart(p, what, TRUE)
    OBVIOUS
  <2>2. PICK state \in {"looking", "posting"} :
          press' = [press EXCEPT ![p] =
                      [NoPress EXCEPT !.state = state, !.what = what, !.here = TRUE]]
    BY DEF PressStart
  <2> DEFINE next == [NoPress EXCEPT !.state = state, !.what = what, !.here = TRUE]
  <2>3. DOMAIN next = {"state", "what", "here"} /\ next.state = state /\ next.here = TRUE
    BY DEF NoPress
  <2>4. \A q \in Press : press'[q] = IF q = p THEN next ELSE press[q]
    BY <2>2 DEF PressTypes
  <2>5. DOMAIN press' = Press
    BY <2>2 DEF PressTypes
  <2>6. ~starting /\ starting' = TRUE /\ failed' = FALSE
    BY DEF PressStart
  <2> HIDE DEF next
  <2>7. PressTypes'
    BY <2>3, <2>4, <2>5, <2>6 DEF PressTypes
  <2>8. \A q \in Press : UnderWay(q)' <=> q = p
    BY <2>3, <2>4, <2>6 DEF ButtonIsOwn, UnderWay
  <2> QED
    BY <2>6, <2>7, <2>8 DEF ButtonIsOwn
<1>b. ASSUME NEW p \in Press, NEW s \in {"refused", "posting", "accepted"},
             press' = [press EXCEPT ![p].state = s],
             press[p].state \in {"looking", "posting"}, UNCHANGED <<starting, failed>>
      PROVE  PressTypes' /\ ButtonIsOwn'
  <2>1. /\ DOMAIN press' = Press
        /\ \A q \in Press : /\ DOMAIN press'[q] = DOMAIN press[q]
                            /\ press'[q].here = press[q].here
                            /\ q # p => press'[q].state = press[q].state
        /\ press'[p].state = s
    BY <1>b, PressMoves
  <2>2. \A q \in Press : UnderWay(q)' <=> UnderWay(q)
    BY <1>b, <2>1 DEF UnderWay
  <2> QED
    BY <1>0, <1>b, <2>1, <2>2 DEF ButtonIsOwn, PressTypes
<1>4. CASE Trigger
  <2> PICK p \in Press :
        \/ LookUp(p) \/ TriggerFails(p)
        \/ \E r \in Run, lost \in BOOLEAN : TriggerRun(p, r, lost)
    BY <1>4 DEF Trigger
  <2> QED
    BY <1>b DEF LookUp, TriggerFails, TriggerRun
\* an answer arrives that nobody waits for any more, or at the panel that does
<1>c. ASSUME NEW p \in Press, NEW s \in {"told", "dropped", "leaving"},
             press' = [press EXCEPT ![p].state = s],
             press[p].state \in {"refused", "accepted"},
             starting' = (starting /\ ~press[p].here),
             failed' = (failed \/ (press[p].here /\ s = "told")),
             s = "told" => press[p].here
      PROVE  PressTypes' /\ ButtonIsOwn'
  <2>1. /\ DOMAIN press' = Press
        /\ \A q \in Press : /\ DOMAIN press'[q] = DOMAIN press[q]
                            /\ press'[q].here = press[q].here
                            /\ q # p => press'[q].state = press[q].state
        /\ press'[p].state = s
    BY <1>c, PressMoves
  <2>2. PressTypes'
    BY <1>c, <2>1 DEF PressTypes
  <2>3. \A q \in Press : UnderWay(q)' <=> UnderWay(q) /\ q # p
    BY <1>c, <2>1 DEF UnderWay
  <2>4. UnderWay(p) <=> press[p].here
    BY <1>c DEF UnderWay, PressTypes
  <2>5. failed' => \E q \in Press : press'[q].here /\ press'[q].state = "told"
    <3>1. CASE failed
      <4>1. PICK q \in Press : press[q].here /\ press[q].state = "told"
        BY <3>1 DEF ButtonIsOwn
      <4>2. q # p
        BY <1>c, <4>1
      <4> QED
        BY <2>1, <4>1, <4>2
    <3>2. CASE ~failed
      <4>1. failed' => press[p].here /\ s = "told"
        BY <1>c, <3>2
      <4>2. press'[p].here = press[p].here /\ press'[p].state = s
        BY <2>1
      <4> QED
        BY <4>1, <4>2, <1>c
    <3> QED
      BY <3>1, <3>2
  <2>6. starting' <=> \E q \in Press : UnderWay(q)'
    <3>1. CASE press[p].here
      <4>1. ~starting'
        BY <1>c, <3>1
      <4>2. \A q \in Press : UnderWay(q) => q = p
        BY <2>4, <3>1 DEF ButtonIsOwn
      <4> QED
        BY <2>3, <4>1, <4>2, Zenon
    <3>2. CASE ~press[p].here
      <4>1. starting' <=> starting
        BY <1>0, <1>c, <3>2
      <4>2. starting <=> \E q \in Press : UnderWay(q)
        BY DEF ButtonIsOwn
      <4>3. \A q \in Press : UnderWay(q)' <=> UnderWay(q)
        BY <2>3, <2>4, <3>2
      <4> QED
        BY <4>1, <4>2, <4>3, Zenon
    <3> QED
      BY <3>1, <3>2
  <2>7. \A x, y \in Press : UnderWay(x)' /\ UnderWay(y)' => x = y
    BY <2>3 DEF ButtonIsOwn
  <2>8. (starting <=> \E q \in Press : UnderWay(q))'
    BY <2>6, Zenon
  <2>9. (failed => \E q \in Press : press[q].here /\ press[q].state = "told")'
    BY <2>5
  <2> QED
    BY <2>2, <2>7, <2>8, <2>9 DEF ButtonIsOwn
<1>5. CASE Told
  <2> PICK p \in Press : TellFailure(p) \/ TakeAccepted(p)
    BY <1>5 DEF Told
  <2>1. press[p].here \in BOOLEAN
    BY DEF PressTypes
  <2>2. CASE TellFailure(p)
    BY <1>0, <1>c, <2>1, <2>2 DEF TellFailure
  <2>3. CASE TakeAccepted(p)
    <3>1. /\ press' = [press EXCEPT ![p].state = "leaving"] /\ press[p].state = "accepted"
          /\ starting' = (starting /\ ~press[p].here)
      BY <2>3 DEF TakeAccepted
    <3>2. failed' = (failed \/ (press[p].here /\ "leaving" = "told"))
      BY <1>0, <2>3 DEF TakeAccepted
    <3> QED
      BY <1>c, <3>1, <3>2
  <2> QED
    BY <2>2, <2>3
<1>6. CASE Gone
  <2> PICK p \in Press : GoToRun(p)
    BY <1>6 DEF Gone
  <2>1. press' = [q \in Press |-> [press[q] EXCEPT
                    !.state = IF q = p THEN "gone" ELSE @, !.here = FALSE]]
    BY DEF GoToRun
  <2>2. \A q \in Press : DOMAIN press'[q] = DOMAIN press[q] /\ press'[q].here = FALSE
    BY <2>1 DEF PressTypes
  <2> QED
    BY <1>a, <2>1, <2>2 DEF GoToRun
<1> QED
  BY <1>1, <1>2, <1>3, <1>4, <1>5, <1>6
  DEF Next, vars, BeginLoad, ReadOne, ApplyLoad, Decide, Served, DecisionBack,
      AgentsGoOn, PlaneStep, ExamStep

\* A panel has one start under way at most, and its button and its error are
\* about that one, whatever answers come for panels that are gone.
THEOREM ButtonHolds == Spec => []ButtonIsOwn
<1>1. Init => PressTypes /\ ButtonIsOwn
  <2> SUFFICES ASSUME Init PROVE PressTypes /\ ButtonIsOwn
    OBVIOUS
  <2>1. press = [p \in Press |-> NoPress] /\ starting = FALSE /\ failed = FALSE
    BY DEF Init, HandoffInit
  <2>2. PressTypes
    BY <2>1 DEF PressTypes, NoPress
  <2>3. \A p \in Press : ~UnderWay(p)
    BY <2>1 DEF UnderWay, NoPress
  <2> QED
    BY <2>1, <2>2, <2>3 DEF ButtonIsOwn
<1> QED
  BY <1>1, PressNextInv, PTL DEF Spec

-----------------------------------------------------------------------------
(* The records.                                                            *)

RecordsStep ==
  \/ \E i \in Incident : OpenIncident(i) \/ ResolveIncident(i)
  \/ \E r \in Run :
       \/ AwaitApproval(r) \/ ResumeApproved(r) \/ EndRun(r) \/ AddApproval(r)
       \/ \E i \in Incident \cup {None} : StartRun(r, i)
  \/ \E r, decision : DecideGate(r, decision)
  \/ \E p \in Plane : PlaneFails(p) \/ PlaneReturns(p)
  \/ UNCHANGED recordVars

LEMMA RecordsInitInv == Init => RecordTypes
<1> SUFFICES ASSUME Init PROVE RecordTypes
  OBVIOUS
<1>1. /\ opened = Earlier /\ Earlier \in Seq(Incident)
      /\ begun = Working /\ Working \in Seq(Run) /\ Len(Working) = Len(Earlier)
      /\ up = Plane
  BY RecordsAssumption DEF Init, RecordsInit
<1>2. incident \in [Incident -> {"none", "open", "resolved"}]
  BY DEF Init, RecordsInit
<1>3. ASSUME NEW r \in Run
      PROVE  run[r] \in [status : {"none", "running", "awaiting_approval", "ended"},
                         of : Incident \cup {None}]
  <2>1. CASE r \in ToSet(Working)
    <3>1. \E k \in DOMAIN Working : Working[k] = r
      BY <2>1 DEF ToSet
    <3>2. (CHOOSE k \in DOMAIN Working : Working[k] = r) \in DOMAIN Earlier
      BY <1>1, <3>1
    <3> QED
      BY <1>1, <2>1, <3>2 DEF Init, RecordsInit
  <2>2. CASE r \notin ToSet(Working)
    BY <2>2 DEF Init, RecordsInit
  <2> QED
    BY <2>1, <2>2
<1>4. run = [r \in Run |-> run[r]]
  BY DEF Init, RecordsInit
<1> QED
  BY <1>1, <1>2, <1>3, <1>4 DEF RecordTypes

LEMMA RecordsStepInv == RecordTypes /\ RecordsStep => RecordTypes'
<1> SUFFICES ASSUME RecordTypes, RecordsStep PROVE RecordTypes'
  OBVIOUS
<1>1. CASE \E i \in Incident : OpenIncident(i) \/ ResolveIncident(i)
  <2> PICK i \in Incident : OpenIncident(i) \/ ResolveIncident(i)
    BY <1>1
  <2>1. Append(opened, i) \in Seq(Incident)
    BY AppendProperties DEF RecordTypes
  <2> QED
    BY <2>1 DEF RecordTypes, OpenIncident, ResolveIncident
<1>2. CASE \E r \in Run : \/ AwaitApproval(r) \/ ResumeApproved(r) \/ EndRun(r) \/ AddApproval(r)
                          \/ \E i \in Incident \cup {None} : StartRun(r, i)
  <2> PICK r \in Run : \/ AwaitApproval(r) \/ ResumeApproved(r) \/ EndRun(r) \/ AddApproval(r)
                       \/ \E i \in Incident \cup {None} : StartRun(r, i)
    BY <1>2
  <2>1. Append(begun, r) \in Seq(Run)
    BY AppendProperties DEF RecordTypes
  <2>2. CASE AddApproval(r)
    BY <2>2 DEF RecordTypes, AddApproval
  <2>3. CASE AwaitApproval(r) \/ ResumeApproved(r) \/ EndRun(r)
    <3>1. PICK s \in {"running", "awaiting_approval", "ended"} : run' = [run EXCEPT ![r].status = s]
      BY <2>3 DEF AwaitApproval, ResumeApproved, EndRun
    <3>2. run' \in [Run -> [status : {"none", "running", "awaiting_approval", "ended"},
                           of : Incident \cup {None}]]
      BY <3>1 DEF RecordTypes
    <3> QED
      BY <2>3, <3>2 DEF RecordTypes, AwaitApproval, ResumeApproved, EndRun
  <2>4. CASE \E i \in Incident \cup {None} : StartRun(r, i)
    BY <2>1, <2>4 DEF RecordTypes, StartRun
  <2> QED
    BY <2>2, <2>3, <2>4
<1>3. CASE \E r, decision : DecideGate(r, decision)
  BY <1>3 DEF RecordTypes, DecideGate
<1>4. CASE \E p \in Plane : PlaneFails(p) \/ PlaneReturns(p)
  BY <1>4 DEF RecordTypes, PlaneFails, PlaneReturns
<1>5. CASE UNCHANGED recordVars
  BY <1>5 DEF RecordTypes, recordVars
<1> QED
  BY <1>1, <1>2, <1>3, <1>4, <1>5 DEF RecordsStep

\* Whoever touches the records.
LEMMA RecordsMove == [Next]_vars => RecordsStep
<1> SUFFICES ASSUME [Next]_vars PROVE RecordsStep
  OBVIOUS
<1>1. CASE Served
  BY <1>1 DEF Served, ServeDecision, RecordsStep, Decision
<1>2. CASE Trigger
  <2> PICK p \in Press :
        \/ LookUp(p) \/ TriggerFails(p)
        \/ \E r \in Run, lost \in BOOLEAN : TriggerRun(p, r, lost)
    BY <1>2 DEF Trigger
  <2> QED
    BY DEF LookUp, TriggerFails, TriggerRun, RecordsStep
<1>3. CASE AgentsGoOn
  BY <1>3 DEF AgentsGoOn, RecordsStep
<1>4. CASE PlaneStep
  <2>1. Asked \subseteq Plane
    BY DEF Asked, Plane
  <2> QED
    BY <1>4, <2>1 DEF PlaneStep, RecordsStep
<1>5. CASE UNCHANGED recordVars
  BY <1>5 DEF RecordsStep
<1>6. CASE Hand \/ Told \/ Gone
  BY <1>6 DEF Hand, Told, Gone, StartAutoFix, RunWithExecutor, TellFailure, TakeAccepted, GoToRun,
     RecordsStep
<1> QED
  BY <1>1, <1>2, <1>3, <1>4, <1>5, <1>6
  DEF Next, vars, BeginLoad, ReadOne, ApplyLoad, Visit, Decide, DecisionBack, ExamStep

-----------------------------------------------------------------------------
(* The overview.                                                           *)

\* The newest rows of a table.
LEMMA Newest ==
  ASSUME NEW S, NEW seq \in Seq(S), NEW n \in Nat
  PROVE  /\ IsFiniteSet(DOMAIN NewestFirst(seq, n))
         /\ \A k \in DOMAIN NewestFirst(seq, n) : NewestFirst(seq, n)[k] \in S
<1> DEFINE m == IF Len(seq) < n THEN Len(seq) ELSE n
<1>1. m \in Nat /\ m <= Len(seq) /\ Len(seq) \in Nat /\ DOMAIN seq = 1..Len(seq)
  OBVIOUS
<1>2. \A k \in 1..m : Len(seq) + 1 - k \in DOMAIN seq
  BY <1>1
<1>3. NewestFirst(seq, n) = [k \in 1..m |-> seq[Len(seq) + 1 - k]]
  BY DEF NewestFirst
<1> HIDE DEF m
<1>4. IsFiniteSet(1..m)
  BY <1>1, FS_Interval
<1> QED
  BY <1>2, <1>3, <1>4

\* What called for attention is in the lists that are read.
LEMMA UrgentIsListed ==
  ASSUME RecordTypes, steady \subseteq Urgent
  PROVE  /\ IsFiniteSet(DOMAIN RecentIncidents(Recent))
         /\ IsFiniteSet(DOMAIN RecentAgentRunsFromDb(Recent))
         /\ "records" \in up /\ steady \cap Incident # {} =>
              \E k \in DOMAIN RecentIncidents(Recent) : IsIncidentLive(RecentIncidents(Recent)[k])
         /\ "records" \in up /\ steady \cap Run # {} =>
              \E k \in DOMAIN RecentAgentRunsFromDb(Recent) :
                IsRunLive(RecentAgentRunsFromDb(Recent)[k])
<1> DEFINE iseq == NewestFirst(opened, Recent)
           rseq == NewestFirst(begun, Recent)
<1>1. /\ IsFiniteSet(DOMAIN iseq) /\ \A k \in DOMAIN iseq : iseq[k] \in Incident
      /\ IsFiniteSet(DOMAIN rseq) /\ \A k \in DOMAIN rseq : rseq[k] \in Run
  BY Newest, RecordsAssumption DEF RecordTypes
<1>2. /\ RecentIncidents(Recent) = SafeRows([k \in DOMAIN iseq |-> IncidentRow(iseq[k])])
      /\ RecentAgentRunsFromDb(Recent) = SafeRows([k \in DOMAIN rseq |-> RunRow(rseq[k])])
  BY DEF RecentIncidents, RecentAgentRunsFromDb
<1>3. Urgent = {i \in ToSet(iseq) : incident[i] = "open"} \cup
               {r \in ToSet(rseq) : run[r].status \in LIVE_RUN_STATUSES}
  BY DEF Urgent
<1> HIDE DEF iseq, rseq
<1>4. IsFiniteSet(DOMAIN << >>)
  BY FS_EmptySet
<1>5. /\ IsFiniteSet(DOMAIN RecentIncidents(Recent))
      /\ IsFiniteSet(DOMAIN RecentAgentRunsFromDb(Recent))
  BY <1>1, <1>2, <1>4 DEF SafeRows
<1>6. ASSUME "records" \in up, NEW i \in steady \cap Incident
      PROVE  \E k \in DOMAIN RecentIncidents(Recent) :
               IsIncidentLive(RecentIncidents(Recent)[k])
  <2>1. i \in ToSet(iseq) /\ incident[i] = "open"
    BY <1>1, <1>3, RecordsAssumption DEF ToSet
  <2>2. PICK k \in DOMAIN iseq : iseq[k] = i
    BY <2>1 DEF ToSet
  <2> QED
    BY <1>2, <1>6, <2>1, <2>2 DEF SafeRows, IncidentRow, IsIncidentLive
<1>7. ASSUME "records" \in up, NEW r \in steady \cap Run
      PROVE  \E k \in DOMAIN RecentAgentRunsFromDb(Recent) :
               IsRunLive(RecentAgentRunsFromDb(Recent)[k])
  <2>1. r \in ToSet(rseq) /\ run[r].status \in LIVE_RUN_STATUSES
    BY <1>1, <1>3, RecordsAssumption DEF ToSet
  <2>2. PICK k \in DOMAIN rseq : rseq[k] = r
    BY <2>1 DEF ToSet
  <2> QED
    BY <1>2, <1>7, <2>1, <2>2 DEF SafeRows, RunRow, IsRunLive
<1> QED
  BY <1>5, <1>6, <1>7

LEMMA UrgentIsKnown == RecordTypes => Urgent \subseteq Incident \cup Run
<1> SUFFICES ASSUME RecordTypes PROVE Urgent \subseteq Incident \cup Run
  OBVIOUS
<1>1. /\ \A k \in DOMAIN NewestFirst(opened, Recent) : NewestFirst(opened, Recent)[k] \in Incident
      /\ \A k \in DOMAIN NewestFirst(begun, Recent) : NewestFirst(begun, Recent)[k] \in Run
  BY Newest, RecordsAssumption DEF RecordTypes
<1> QED
  BY <1>1 DEF Urgent, ToSet

\* A step of anyone while a load of the overview is on its way.
LEMMA OverviewStays ==
  ASSUME RecordTypes, OverviewInv, StaysSo, UNCHANGED <<tab, loading, got>>
  PROVE  OverviewInv'
<1> SUFFICES ASSUME Watching' PROVE OverviewInv'
  BY DEF OverviewInv
<1>1. /\ Watching
      /\ dark' = dark \ up' /\ lit' = lit \cap up' /\ steady' = steady \cap Urgent'
  BY DEF Watching, StaysSo
<1>2. \A answer, plane : Right(answer, plane) => Right(answer, plane)'
  BY <1>1 DEF Right
<1>3. OpenIncidents(got)' = OpenIncidents(got) /\ LiveRuns(got)' = LiveRuns(got)
  BY DEF OpenIncidents, LiveRuns, IsIncidentLive, IsRunLive
<1> QED
  BY <1>1, <1>2, <1>3 DEF OverviewInv, Right

\* One read of it.
LEMMA OverviewReads ==
  ASSUME RecordTypes, OverviewInv, ReadOne
  PROVE  OverviewInv'
<1> SUFFICES ASSUME Watching' PROVE OverviewInv'
  BY DEF OverviewInv
<1>1. /\ UNCHANGED <<up, opened, incident, begun, run, tab, loading, dark, lit, steady>>
      /\ Watching /\ tab.page = "overview"
  BY DEF ReadOne, Watching, recordVars
<1>2. Urgent' = Urgent
  BY <1>1 DEF Urgent, NewestFirst, ToSet
<1> PICK q \in Asks :
      got' = [x \in DOMAIN got \cup {q} |-> IF x = q THEN Answer(q) ELSE got[x]]
  BY DEF ReadOne
<1>3. q \in OverviewQuery \ DOMAIN got /\ Answer(q) = OverviewRead(q)
  BY <1>1 DEF Asks, Answer
<1>4. /\ \A x \in DOMAIN got : got'[x] = got[x]
      /\ DOMAIN got' = DOMAIN got \cup {q} /\ got'[q] = OverviewRead(q)
  BY <1>3
<1>5. /\ dark \subseteq Plane \ up /\ lit \subseteq up /\ steady \subseteq Urgent
  BY <1>1 DEF OverviewInv
<1>6. "records" \in DOMAIN got' => Right(got'["records"], "records")
  <2>1. CASE q = "records"
    <3>1. IF "records" \in up THEN got'["records"] = TRUE ELSE got'["records"] = FALSE
      <4>1. got'["records"] = DatabaseReachable
        BY <1>4, <2>1 DEF OverviewRead
      <4>2. IF "records" \in up THEN DatabaseReachable = TRUE ELSE DatabaseReachable = FALSE
        BY DEF DatabaseReachable
      <4> QED
        BY <4>1, <4>2
    <3> QED
      BY <1>5, <3>1 DEF Right
  <2>2. CASE q # "records"
    BY <1>1, <1>4, <2>2 DEF OverviewInv
  <2> QED
    BY <2>1, <2>2
<1>7. "agents" \in DOMAIN got' => Right(got'["agents"], "agents")
  <2>1. CASE q = "agents"
    <3>1. IF "agents" \in up THEN got'["agents"] = TRUE ELSE got'["agents"] = FALSE
      <4>1. got'["agents"] = AgentServiceReachable
        BY <1>4, <2>1 DEF OverviewRead
      <4>2. IF "agents" \in up THEN AgentServiceReachable = TRUE ELSE AgentServiceReachable = FALSE
        BY DEF AgentServiceReachable
      <4> QED
        BY <4>1, <4>2
    <3> QED
      BY <1>5, <3>1 DEF Right
  <2>2. CASE q # "agents"
    BY <1>1, <1>4, <2>2 DEF OverviewInv
  <2> QED
    BY <2>1, <2>2
<1>8. "signals" \in DOMAIN got' => Right(got'["signals"].reachable, "telemetry")
  <2>1. CASE q = "signals"
    <3>1. IF "telemetry" \in up THEN got'["signals"].reachable = TRUE ELSE got'["signals"].reachable = FALSE
      <4>1. got'["signals"] = FetchGoldenSignals
        BY <1>4, <2>1 DEF OverviewRead
      <4>2. FetchGoldenSignals.reachable = ("telemetry" \in up)
        BY DEF FetchGoldenSignals, InstantQuery
      <4>3. CASE "telemetry" \in up
        <5>1. ("telemetry" \in up) = TRUE
          BY <4>3
        <5> QED
          BY <4>1, <4>2, <4>3, <5>1, Zenon
      <4>4. CASE "telemetry" \notin up
        <5>1. ("telemetry" \in up) = FALSE
          BY <4>4
        <5> QED
          BY <4>1, <4>2, <4>4, <5>1, Zenon
      <4> QED
        BY <4>3, <4>4
    <3> QED
      BY <1>5, <3>1 DEF Right
  <2>2. CASE q # "signals"
    BY <1>1, <1>4, <2>2 DEF OverviewInv
  <2> QED
    BY <2>1, <2>2
<1>9. "incidents" \in DOMAIN got' =>
        /\ IsFiniteSet(DOMAIN got'["incidents"])
        /\ "records" \in lit /\ steady \cap Incident # {} => OpenIncidents(got') # {}
  <2>1. CASE q = "incidents"
    <3>1. got'["incidents"] = RecentIncidents(Recent)
      BY <1>4, <2>1 DEF OverviewRead
    <3> QED
      BY <1>5, <3>1, UrgentIsListed DEF OpenIncidents
  <2>2. CASE q # "incidents"
    BY <1>1, <1>4, <2>2 DEF OverviewInv, OpenIncidents
  <2> QED
    BY <2>1, <2>2
<1>10. "runs" \in DOMAIN got' =>
        /\ IsFiniteSet(DOMAIN got'["runs"])
        /\ "records" \in lit /\ steady \cap Run # {} => LiveRuns(got') # {}
  <2>1. CASE q = "runs"
    <3>1. got'["runs"] = RecentAgentRunsFromDb(Recent)
      BY <1>4, <2>1 DEF OverviewRead
    <3> QED
      BY <1>5, <3>1, UrgentIsListed DEF LiveRuns
  <2>2. CASE q # "runs"
    BY <1>1, <1>4, <2>2 DEF OverviewInv, LiveRuns
  <2> QED
    BY <2>1, <2>2
<1> QED
  BY <1>1, <1>2, <1>5, <1>6, <1>7, <1>8, <1>9, <1>10
  DEF OverviewInv, Right, OpenIncidents, LiveRuns, IsIncidentLive, IsRunLive

LEMMA OverviewNextInv == RecordTypes /\ OverviewInv /\ [Next]_vars => OverviewInv'
<1> SUFFICES ASSUME RecordTypes, OverviewInv, [Next]_vars PROVE OverviewInv'
  OBVIOUS
<1>1. CASE BeginLoad
  <2>1. /\ UNCHANGED <<up, opened, incident, begun, run, tab>> /\ got' = NoData
        /\ Watching' =>
             dark' = Plane \ up /\ lit' = up /\ steady' = Urgent
    BY <1>1 DEF BeginLoad, recordVars, Watching
  <2>2. Urgent' = Urgent
    BY <2>1 DEF Urgent, NewestFirst, ToSet
  <2> QED
    BY <2>1, <2>2 DEF OverviewInv, NoData
<1>2. CASE ReadOne
  BY <1>2, OverviewReads
<1>3. CASE ApplyLoad \/ Visit \/ Gone
  BY <1>3 DEF ApplyLoad, Visit, Gone, Leave, OverviewInv, Watching
<1>4. CASE Served \/ Trigger \/ AgentsGoOn \/ PlaneStep
  BY <1>4, OverviewStays DEF Served, Trigger, AgentsGoOn, PlaneStep
<1>5. CASE UNCHANGED <<up, opened, incident, begun, run, tab, loading, got, dark, lit, steady>>
  <2>1. Urgent' = Urgent
    BY <1>5 DEF Urgent, NewestFirst, ToSet
  <2> QED
    BY <1>5, <2>1
    DEF OverviewInv, Watching, Right, OpenIncidents, LiveRuns, IsIncidentLive, IsRunLive
<1> QED
  BY <1>1, <1>2, <1>3, <1>4, <1>5
  DEF Next, vars, loadVars, recordVars, Decide, Hand, StartAutoFix, RunWithExecutor,
      DecisionBack, Told, TellFailure, TakeAccepted, ExamStep

\* "Nothing open." is never said over an incident or a run that called for
\* attention all through the load, and the strip names the planes that were
\* down all through it and none that was up.
THEOREM QuietHolds == Spec => QuietIsTrue
<1>1. Init => OverviewInv
  BY DEF Init, OverviewInv, Watching
<1>2. RecordTypes /\ OverviewInv /\ [Next]_vars =>
        [OnOverview =>
           /\ "records" \in dark \cup lit =>
                (Headline(shown') = {Nothing} => steady = {})
           /\ dark \subseteq DependencyStrip(shown')
           /\ lit \cap DependencyStrip(shown') = {}]_vars
  <2> SUFFICES ASSUME RecordTypes, OverviewInv, [Next]_vars, OnOverview
               PROVE  /\ "records" \in dark \cup lit =>
                           (Headline(shown') = {Nothing} => steady = {})
                      /\ dark \subseteq DependencyStrip(shown')
                      /\ lit \cap DependencyStrip(shown') = {}
    OBVIOUS
  <2>1. ApplyLoad
    BY DEF OnOverview, LoadEnds, Next, vars, loadVars, BeginLoad, ReadOne, Visit, Leave, Decide,
           Hand, Served, DecisionBack, Trigger, Told, Gone, AgentsGoOn, PlaneStep, ExamStep
  <2>2. shown' = got /\ Watching /\ OverviewQuery \subseteq DOMAIN got
    BY <2>1 DEF ApplyLoad, OnOverview, LoadEnds, Watching, Asks
  <2>3. /\ Right(got["records"], "records") /\ Right(got["agents"], "agents")
        /\ Right(got["signals"].reachable, "telemetry")
        /\ IsFiniteSet(DOMAIN got["incidents"]) /\ IsFiniteSet(DOMAIN got["runs"])
        /\ "records" \in lit /\ steady \cap Incident # {} => OpenIncidents(got) # {}
        /\ "records" \in lit /\ steady \cap Run # {} => LiveRuns(got) # {}
        /\ dark \subseteq Plane /\ lit \subseteq Plane /\ steady \subseteq Incident \cup Run
    <3>1. steady \subseteq Incident \cup Run
      BY <2>2, UrgentIsKnown DEF OverviewInv
    <3> QED
      BY <2>2, <3>1 DEF OverviewInv, OverviewQuery, RecordTypes
  <2>4. dark \subseteq DependencyStrip(got) /\ lit \cap DependencyStrip(got) = {}
    BY <2>3 DEF DependencyStrip, Right, Plane
  <2>5. ASSUME "records" \in dark \cup lit, Headline(got) = {Nothing}
        PROVE  steady = {}
    <3>1. "records" \in lit /\ Summarize(got) = Nothing
      BY <2>3, <2>5 DEF Headline, Right, Unknown
    <3>2. Cardinality(OpenIncidents(got)) = 0 /\ Cardinality(LiveRuns(got)) = 0
      BY <3>1 DEF Summarize, Nothing
    <3>3. IsFiniteSet(OpenIncidents(got)) /\ IsFiniteSet(LiveRuns(got))
      BY <2>3, FS_Subset DEF OpenIncidents, LiveRuns
    <3>4. OpenIncidents(got) = {} /\ LiveRuns(got) = {}
      BY <3>2, <3>3, FS_EmptySet
    <3> QED
      BY <2>3, <3>1, <3>4
  <2> QED
    BY <2>2, <2>4, <2>5
<1>3. RecordTypes /\ [Next]_vars => RecordTypes'
  BY RecordsMove, RecordsStepInv
<1> QED
  BY <1>1, <1>2, <1>3, RecordsInitInv, OverviewNextInv, PTL DEF Spec, QuietIsTrue

===============================================================================

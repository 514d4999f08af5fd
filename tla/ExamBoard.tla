------------------------------- MODULE ExamBoard -------------------------------
(***************************************************************************)
(* The chaos exam: the runners of scripts/exam.ps1, each a process that    *)
(* may be killed; the rows agent-service keeps of them; and the scorecard  *)
(* page, routes/scorecard.tsx with lib/scorecard.ts, which reads runs and  *)
(* rows in two calls.                                                      *)
(***************************************************************************)
EXTENDS Naturals, SequencesExt, FiniteSetsExt, Functions

CONSTANTS
  Exam,      \* invocations of `obs exam`
  Scenario,  \* the questions of each, as a sequence
  Verdict,   \* bound: verdicts the judge gives, each with the criteria met
  NoExam

Criterion ==
  {"componentCorrect", "causeCategoryCorrect", "evidenceCited", "remediationAppropriate"}

ASSUME ExamAssumption ==
  /\ NoExam \notin Exam
  /\ \A v \in Verdict : v.met \subseteq Criterion /\ v.cheated \in BOOLEAN

VARIABLES
  runner,  \* each exam's process
  lock,    \* .artifacts/lab.lock: its last holder
  exams,   \* exam_runs, oldest first
  done,    \* the ones with finished_at
  rows,    \* exam_results, oldest first
  raced    \* history: two runners tested the lock before either took it

examVars == <<runner, lock, exams, done, rows, raced>>

ExamInit ==
  /\ runner = [e \in Exam |-> [pc |-> "idle", next |-> 1, halted |-> FALSE]]
  /\ lock = NoExam
  /\ exams = <<>>
  /\ done = {}
  /\ rows = <<>>
  /\ raced = FALSE

-----------------------------------------------------------------------------
(* The runner.                                                             *)

Alive(e) == runner[e].pc \in {"tested", "holding", "sitting", "leaving"}

\* Mutant: the lock is not looked at.
TestLabLockMissing(e) ==
  /\ runner[e].pc = "idle"
  /\ runner' = [runner EXCEPT ![e].pc = "tested"]
  /\ raced' = (raced \/ \E o \in Exam : runner[o].pc = "tested")
  /\ UNCHANGED <<lock, exams, done, rows>>

\* Get-LabLock: a lock counts while the process that holds it lives
TestLabLock(e) ==
  /\ runner[e].pc = "idle"
  /\ lock # NoExam => ~Alive(lock)
  /\ runner' = [runner EXCEPT ![e].pc = "tested"]
  /\ raced' = (raced \/ \E o \in Exam : runner[o].pc = "tested")
  /\ UNCHANGED <<lock, exams, done, rows>>

\* Set-LabLock only records
SetLabLock(e) ==
  /\ runner[e].pc = "tested"
  /\ lock' = e
  /\ runner' = [runner EXCEPT ![e].pc = "holding"]
  /\ UNCHANGED <<exams, done, rows, raced>>

\* New-ExamRun: without its id, the run begun or not, only finally is left
NewExamRun(e, created, answered) ==
  /\ runner[e].pc = "holding"
  /\ answered => created
  /\ exams' = IF created THEN Append(exams, e) ELSE exams
  /\ runner' = [runner EXCEPT ![e].pc = IF answered THEN "sitting" ELSE "leaving"]
  /\ UNCHANGED <<lock, done, rows, raced>>

Ungraded == {"not_run", "no_alert", "error"}

Graded(e, v) ==
  [exam |-> e, scenario |-> Scenario[runner[e].next], status |-> "graded",
   met |-> v.met, cheated |-> v.cheated]

\* a question that was not graded has no verdict
Blank(e, status) ==
  [exam |-> e, scenario |-> Scenario[runner[e].next], status |-> status,
   met |-> {}, cheated |-> FALSE]

\* Write-ExamResult: a write that fails is only warned about
Write(row, written) == rows' = IF written THEN Append(rows, row) ELSE rows

\* one question; after a not_run every other question is one too
Ask(e, row, written) ==
  /\ runner[e].pc = "sitting" /\ runner[e].next \in DOMAIN Scenario
  /\ runner[e].halted => row.status = "not_run"
  /\ Write(row, written)
  /\ runner' = [runner EXCEPT ![e].next = @ + 1,
                              ![e].halted = @ \/ row.status = "not_run"]
  /\ UNCHANGED <<lock, exams, done, raced>>

AskGraded(e, written) ==
  runner[e].next \in DOMAIN Scenario /\ \E v \in Verdict : Ask(e, Graded(e, v), written)

AskUngraded(e, written) ==
  runner[e].next \in DOMAIN Scenario /\ \E s \in Ungraded : Ask(e, Blank(e, s), written)

\* the finally block: the finish call may fail, the lock goes if it is ours
FinishExam(e, answered) ==
  /\ \/ runner[e].pc = "leaving"
     \/ runner[e].pc = "sitting" /\ runner[e].next \notin DOMAIN Scenario
  /\ done' = IF answered /\ runner[e].pc = "sitting" THEN done \cup {e} ELSE done
  /\ lock' = IF lock = e THEN NoExam ELSE lock
  /\ runner' = [runner EXCEPT ![e].pc = "over"]
  /\ UNCHANGED <<exams, rows, raced>>

\* the process is killed: no finally
KillRunner(e) ==
  /\ Alive(e)
  /\ runner' = [runner EXCEPT ![e].pc = "over"]
  /\ UNCHANGED <<lock, exams, done, rows, raced>>

-----------------------------------------------------------------------------
(* The reads: GET /exam/runs and GET /exam/results.                        *)

\* order by started_at desc
ListExamRuns ==
  Reverse([k \in DOMAIN exams |-> [id |-> exams[k], finished |-> exams[k] \in done]])

\* across runs the newest row is first, inside a run too
ListExamResults == Reverse(rows)

\* ExamResult.score: null unless graded, nothing for a cheat
Score(row) == IF row.cheated THEN 0 ELSE Cardinality(row.met)

-----------------------------------------------------------------------------
(* lib/scorecard.ts.                                                       *)

\* rows are told apart by their place in the answer
OnlyGraded(results) == {k \in DOMAIN results : results[k].status = "graded"}

RowsOf(card, results) == {k \in DOMAIN results : results[k].exam = card.id}

CountOf(results, rowsOf, status) == Cardinality({k \in rowsOf : results[k].status = status})

\* the sum of their scores
Points(results, graded) ==
  Cardinality({p \in graded \X Criterion : ~results[p[1]].cheated /\ p[2] \in results[p[1]].met})

\* Mutant: a question that was never asked counts as a zero.
ScoreRunAll(card, results) ==
  LET mine == RowsOf(card, results)
      graded == mine \cap OnlyGraded(results)
  IN  [run |-> card, results |-> SelectSeq(results, LAMBDA r : r.exam = card.id),
       graded |-> Cardinality(graded),
       notRun |-> CountOf(results, mine, "not_run"),
       noAlert |-> CountOf(results, mine, "no_alert"),
       errored |-> CountOf(results, mine, "error"),
       cheated |-> Cardinality({k \in graded : results[k].cheated}),
       scored |-> Points(results, graded),
       possible |-> Cardinality(mine) * Cardinality(Criterion)]

\* accuracy is scored / possible, and null when nothing was possible
ScoreRun(card, results) ==
  LET mine == RowsOf(card, results)
      graded == mine \cap OnlyGraded(results)
  IN  [run |-> card, results |-> SelectSeq(results, LAMBDA r : r.exam = card.id),
       graded |-> Cardinality(graded),
       notRun |-> CountOf(results, mine, "not_run"),
       noAlert |-> CountOf(results, mine, "no_alert"),
       errored |-> CountOf(results, mine, "error"),
       cheated |-> Cardinality({k \in graded : results[k].cheated}),
       scored |-> Points(results, graded),
       possible |-> Cardinality(graded) * Cardinality(Criterion)]

\* rows under their runs, newest run first; a run without rows is kept
BuildScorecard(runs, results) == [k \in DOMAIN runs |-> ScoreRun(runs[k], results)]

\* points over points
Tally(card) == [scored |-> card.scored, possible |-> card.possible]

Pool(tallies) ==
  FoldLeft(LAMBDA sum, t : [scored |-> sum.scored + t.scored,
                            possible |-> sum.possible + t.possible],
           [scored |-> 0, possible |-> 0], tallies)

PooledAccuracy(cards) == Pool([k \in DOMAIN cards |-> Tally(cards[k])])

CriterionTotals(results) ==
  [c \in Criterion |-> Cardinality({k \in OnlyGraded(results) : c \in results[k].met})]

-----------------------------------------------------------------------------
(* routes/scorecard.tsx.                                                   *)

\* an exam is sequential: a later run is taken as proof that this one is over
RunLabel(cards, k) ==
  CASE cards[k].run.finished -> "finished"
    [] ~cards[k].run.finished /\ k = 1 -> "in flight"
    [] OTHER -> "interrupted"

\* a run that graded nothing has no grade, which is not a grade of zero
Grade(card) == IF card.possible = 0 THEN "no grades" ELSE <<card.scored, card.possible>>

\* a scored zero is not the label of a row that was not graded
ResultBadge(row) ==
  IF row.status # "graded" THEN row.status ELSE [score |-> Score(row), cheated |-> row.cheated]

\* "not asked" and "got it wrong" must not look alike
Mark(row, criterion) ==
  CASE row.status # "graded" -> "not graded"
    [] row.status = "graded" /\ criterion \in row.met -> "met"
    [] OTHER -> "not met"

ScenarioTable(results) ==
  [k \in DOMAIN results |->
     [scenario |-> results[k].scenario, badge |-> ResultBadge(results[k]),
      marks |-> [c \in Criterion |-> Mark(results[k], c)]]]

RunCard(cards, k) ==
  [id |-> cards[k].run.id, label |-> RunLabel(cards, k), grade |-> Grade(cards[k]),
   cheated |-> cards[k].cheated,
   aside |-> cards[k].notRun + cards[k].noAlert + cards[k].errored,
   rows |-> ScenarioTable(cards[k].results)]

\* one bar per run, oldest on the left
TrendStrip(cards) == Reverse([k \in DOMAIN cards |-> Grade(cards[k])])

\* an empty list of runs is "No exams yet", whether or not the read answered
ScorecardPage(runs, results) ==
  LET cards == BuildScorecard(runs, results)
  IN  IF runs = <<>> THEN "no exams yet"
      ELSE [pooled |-> PooledAccuracy(cards),
            across |-> Cardinality(OnlyGraded(results)),
            totals |-> CriterionTotals(results),
            trend |-> TrendStrip(cards),
            cards |-> [k \in DOMAIN cards |-> RunCard(cards, k)]]
===============================================================================

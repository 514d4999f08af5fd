------------------------------- MODULE MCBoards --------------------------------
(* Instances of Boards for TLC. *)
EXTENDS Boards, TLC

CONSTANTS FirstIncident, FirstRun

MCEarlier == <<FirstIncident>>
MCWorking == <<FirstRun>>

MCMaxActs ==
  [page \in BoardPage |-> IF page = "overview" THEN 2 ELSE 4]

MCScenario == <<"q1", "q2">>

\* a half right answer and a cheat with every criterion met
MCVerdict ==
  {[met |-> {"componentCorrect", "evidenceCited"}, cheated |-> FALSE],
   [met |-> Criterion, cheated |-> TRUE]}
===============================================================================

------------------------------ MODULE MCCiShim ------------------------------
(* A run with a test and a deploy job, and a run of one deploy job.        *)
EXTENDS CiShim, TLC

CONSTANTS r1, r2, test, deploy, deploy2

MCRunOf == [j \in Job |-> IF j = deploy2 THEN r2 ELSE r1]
=============================================================================

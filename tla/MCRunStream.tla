---------------------------- MODULE MCRunStream ----------------------------
(* The instance of RunStream for TLC: its constants are model values. *)
EXTENDS RunStream, TLC
=============================================================================

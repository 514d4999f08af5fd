---------------------------- MODULE MCRagRequest ----------------------------
(* Two prompts, each with a ranking of its own of three chunks.            *)
EXTENDS RagRequest

CONSTANTS p1, p2, h1, h2, c1, c2, c3

MCHashOf == (p1 :> h1 @@ p2 :> h2)

MCScoreOf == (h1 :> (c1 :> 1 @@ c2 :> 3 @@ c3 :> 2) @@ h2 :> (c1 :> 3 @@ c2 :> 1 @@ c3 :> 2))

=============================================================================

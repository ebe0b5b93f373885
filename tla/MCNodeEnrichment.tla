-------------------------- MODULE MCNodeEnrichment --------------------------
(***************************************************************************)
(* Node processes that share an event file of eight units: a fact takes    *)
(* one or three of them, or four, which is longer than a line may be.      *)
(***************************************************************************)
EXTENDS NodeEnrichment, TLC

Symmetry == Permutations(Nodes)
=============================================================================

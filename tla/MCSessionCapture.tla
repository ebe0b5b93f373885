-------------------------- MODULE MCSessionCapture --------------------------
(* SessionCapture on small limits, for TLC. *)
EXTENDS SessionCapture, Functions

Total(f) == FoldFunction(+, 0, f)

\* Facts are few in all, not only per category.
FewFacts == Total(owed) + Total(attempted) <= MaxFacts

MCInit == Init /\ FewFacts
MCSpec == MCInit /\ [][Next]_vars
MCFairSpec == MCSpec /\ Fairness
=============================================================================

------------------------ MODULE MCSignalForwarding --------------------------
(* SignalForwarding with few signals, for TLC. *)
EXTENDS SignalForwarding, TLC

Symmetry == Permutations(Signals)
=============================================================================

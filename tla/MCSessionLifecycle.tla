------------------------- MODULE MCSessionLifecycle -------------------------
(* SessionLifecycle on a few runs and sessions, for TLC. *)
EXTENDS SessionLifecycle, Naturals

\* Which inode a new file gets makes no difference; here it is the lowest,
\* which is what symmetry would do, were there no liveness to check.
Used == Inodes \ FreeInodes
LowestInode == \A i \in Used' \ Used, j \in FreeInodes : i <= j

MCSpec == Init /\ [][Next /\ LowestInode]_vars /\ Fairness
=============================================================================

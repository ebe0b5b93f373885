------------------------------- MODULE Tables -------------------------------
(* What the command and its collectors have in common: tables, which are   *)
(* functions with changing domains, and special arguments of system calls. *)
EXTENDS Naturals, Sequences, FiniteSets

CONSTANTS
  None,
  Cwd,      \* AT_FDCWD
  AnyPort   \* an endpoint with port 0

With(f, x, v) == [y \in DOMAIN f \cup {x} |-> IF y = x THEN v ELSE f[y]]
Without(f, S) == [y \in DOMAIN f \ S |-> f[y]]
=============================================================================

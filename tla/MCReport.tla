------------------------------- MODULE MCReport -------------------------------
(***************************************************************************)
(* A session of five events in three pages, of which the table keeps two;  *)
(* a window of two rows lies in one page or in two.                        *)
(***************************************************************************)
EXTENDS Report

MCMatching == [all |-> <<1, 2, 3, 4, 5>>, some |-> <<2, 5>>]
=============================================================================

--------------------------- MODULE MCEbpfPipeline ---------------------------
(***************************************************************************)
(* EbpfPipeline for TLC: r is the root process, a its descendant.          *)
(***************************************************************************)
EXTENDS EbpfPipeline

CONSTANTS r, a
=============================================================================

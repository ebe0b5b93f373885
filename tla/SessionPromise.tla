--------------------------- MODULE SessionPromise ---------------------------
(***************************************************************************)
(* What a session promises whoever reads it, whatever happened to the run: *)
(* nothing can be read before it is published; what is published never     *)
(* changes; and a category that claims to be whole holds every fact that   *)
(* was reported to the store.  SessionCapture implements it.               *)
(***************************************************************************)
EXTENDS Naturals

CONSTANTS Categories, Unpublished

VARIABLES
  reported,   \* facts reported to the store, per category
  view        \* what a reader sees: Unpublished, or a summary per category

Summaries == [stored : Nat, whole : BOOLEAN]

\* A summary a reader may be shown.
Honest(v) ==
  /\ v \in [Categories -> Summaries]
  /\ \A c \in Categories :
       /\ v[c].stored <= reported[c]
       /\ v[c].whole => v[c].stored = reported[c]

PromiseInit ==
  /\ reported = [c \in Categories |-> 0]
  /\ view = Unpublished

\* Facts are reported; none is taken back.
Report ==
  /\ view = Unpublished
  /\ reported' \in [Categories -> Nat]
  /\ \A c \in Categories : reported[c] <= reported'[c]
  /\ UNCHANGED view

Reveal ==
  /\ view = Unpublished
  /\ Honest(view')
  /\ UNCHANGED reported

PromiseNext == Report \/ Reveal

PromiseSpec == PromiseInit /\ [][PromiseNext]_<<reported, view>>
=============================================================================

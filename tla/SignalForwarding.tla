-------------------------- MODULE SignalForwarding --------------------------
(***************************************************************************)
(* SignalForwarder of src/src/runner.rs: a thread takes the signals sent   *)
(* to the runner and passes them on to the child.  Until the main thread   *)
(* has stored the child's pid, the last signal is parked in                *)
(* pending_signal, which set_child empties.                                *)
(***************************************************************************)
EXTENDS Naturals, FiniteSets

CONSTANTS
  Signals,    \* SIGHUP, SIGINT, SIGQUIT, SIGTERM
  NoSignal,
  MaxRaises   \* bound of the model: signals the runner accepts

ASSUME SignalsAssumption == NoSignal \notin Signals
ASSUME MaxRaisesAssumption == MaxRaises \in Nat

VARIABLES
  main,       \* where run_in_store_with_options is
  hand,       \* the signal set_child took out of pending_signal
  thread,     \* where the forwarding thread is, and the signal it holds
  childId,    \* child_id is stored
  pending,    \* pending_signal
  raised,     \* signal-hook's flags: signals accepted, not taken by the thread
  child,      \* the child process; once reaped its pid may be another's
  \* History.
  accepted,   \* times each signal was accepted
  delivered,  \* times each signal was sent to the child
  stray,      \* times each signal was sent to a pid that is no longer the child's
  early       \* a signal was accepted before set_child had returned

vars == <<main, hand, thread, childId, pending, raised, child,
          accepted, delivered, stray, early>>

Idle == [at |-> "idle", signal |-> NoSignal]
Steps == {"starting", "spawned", "published", "forwarding", "collecting",
          "collected", "closing", "stopped"}

Init ==
  /\ main = "starting"
  /\ hand = NoSignal
  /\ thread = Idle
  /\ childId = FALSE
  /\ pending = NoSignal
  /\ raised = {}
  /\ child = "unborn"
  /\ accepted = [s \in Signals |-> 0]
  /\ delivered = [s \in Signals |-> 0]
  /\ stray = [s \in Signals |-> 0]
  /\ early = FALSE

-----------------------------------------------------------------------------
\* forward_signal: kill on the pid of the child.
Kill(s) ==
  IF child = "reaped"
  THEN stray' = [stray EXCEPT ![s] = @ + 1] /\ UNCHANGED delivered
  ELSE delivered' = [delivered EXCEPT ![s] = @ + 1] /\ UNCHANGED stray

\* A signal arrives; one of the same number that is still flagged merges with
\* it.
Raise(s) ==
  /\ s \notin raised
  /\ main # "stopped"
  /\ accepted[s] < MaxRaises
  /\ raised' = raised \cup {s}
  /\ accepted' = [accepted EXCEPT ![s] = @ + 1]
  /\ early' = (early \/ main \in {"starting", "spawned", "published", "forwarding"})
  /\ UNCHANGED <<main, hand, thread, childId, pending, child, delivered, stray>>

(* The forwarding thread. *)

\* signals.forever() yields a signal.
Take(s) ==
  /\ thread = Idle
  /\ s \in raised
  /\ raised' = raised \ {s}
  /\ thread' = [at |-> "taken", signal |-> s]
  /\ UNCHANGED <<main, hand, childId, pending, child, accepted, delivered, stray, early>>

\* child_id is read once per signal.
LoadChildId ==
  /\ thread.at = "taken"
  /\ thread' = [thread EXCEPT !.at = IF childId THEN "send" ELSE "park"]
  /\ UNCHANGED <<main, hand, childId, pending, raised, child,
                 accepted, delivered, stray, early>>

\* Mutant of StorePending: child_id is looked at again, the signal stays parked.
StorePendingAndSend ==
  /\ thread.at = "park"
  /\ pending' = thread.signal
  /\ thread' = IF childId THEN [thread EXCEPT !.at = "send"] ELSE Idle
  /\ UNCHANGED <<main, hand, childId, raised, child, accepted, delivered, stray, early>>

\* The signal is parked, over one that may be parked already.
StorePending ==
  /\ thread.at = "park"
  /\ pending' = thread.signal
  /\ thread' = Idle
  /\ UNCHANGED <<main, hand, childId, raised, child, accepted, delivered, stray, early>>

ForwardSignal ==
  /\ thread.at = "send"
  /\ Kill(thread.signal)
  /\ thread' = Idle
  /\ UNCHANGED <<main, hand, childId, pending, raised, child, accepted, early>>

\* The iterator ends after Handle::close; it may yield what is flagged first.
EndThread ==
  /\ thread = Idle
  /\ main = "closing"
  /\ thread' = [Idle EXCEPT !.at = "ended"]
  /\ UNCHANGED <<main, hand, childId, pending, raised, child,
                 accepted, delivered, stray, early>>

(* The main thread. *)

\* Command::spawn succeeds, or the runner stops the forwarder and returns.
Spawn ==
  /\ main = "starting"
  /\ \/ main' = "spawned" /\ child' = "alive"
     \/ main' = "collected" /\ UNCHANGED child
  /\ UNCHANGED <<hand, thread, childId, pending, raised, accepted, delivered, stray, early>>

\* Mutant of StoreChildId: the pid is not stored.
StoreChildIdForgotten ==
  /\ main = "spawned"
  /\ main' = "published"
  /\ UNCHANGED <<hand, thread, childId, pending, raised, child,
                 accepted, delivered, stray, early>>

\* set_child: the pid is stored, ...
StoreChildId ==
  /\ main = "spawned"
  /\ childId' = TRUE
  /\ main' = "published"
  /\ UNCHANGED <<hand, thread, pending, raised, child, accepted, delivered, stray, early>>

\* ... the parked signal is swapped out ...
SwapPending ==
  /\ main = "published"
  /\ hand' = pending
  /\ pending' = NoSignal
  /\ main' = IF pending = NoSignal THEN "collecting" ELSE "forwarding"
  /\ UNCHANGED <<thread, childId, raised, child, accepted, delivered, stray, early>>

\* ... and forwarded.
ForwardPending ==
  /\ main = "forwarding"
  /\ Kill(hand)
  /\ hand' = NoSignal
  /\ main' = "collecting"
  /\ UNCHANGED <<thread, childId, pending, raised, child, accepted, early>>

\* The collector waits for the child and goes on collecting.
Reap ==
  /\ main = "collecting"
  /\ child = "dead"
  /\ child' = "reaped"
  /\ UNCHANGED <<main, hand, thread, childId, pending, raised,
                 accepted, delivered, stray, early>>

\* Collector::collect returns; after an error the child is killed and waited
\* for.
Collected ==
  /\ main = "collecting"
  /\ child' = "reaped"
  /\ main' = "collected"
  /\ UNCHANGED <<hand, thread, childId, pending, raised,
                 accepted, delivered, stray, early>>

\* stop: close the handle ...
Close ==
  /\ main = "collected"
  /\ main' = "closing"
  /\ UNCHANGED <<hand, thread, childId, pending, raised, child,
                 accepted, delivered, stray, early>>

\* Mutant of Join: the thread is not waited for.
JoinNot ==
  /\ main = "closing"
  /\ main' = "stopped"
  /\ UNCHANGED <<hand, thread, childId, pending, raised, child,
                 accepted, delivered, stray, early>>

\* ... and join the thread.
Join ==
  /\ main = "closing"
  /\ thread.at = "ended"
  /\ main' = "stopped"
  /\ UNCHANGED <<hand, thread, childId, pending, raised, child,
                 accepted, delivered, stray, early>>

\* The child exits, of itself or by a signal.
ChildExits ==
  /\ child = "alive"
  /\ child' = "dead"
  /\ UNCHANGED <<main, hand, thread, childId, pending, raised,
                 accepted, delivered, stray, early>>

Done == main = "stopped" /\ UNCHANGED vars

Forward ==
  (\E s \in Signals : Take(s)) \/ LoadChildId \/ StorePending \/ ForwardSignal \/ EndThread
SetChild == StoreChildId \/ SwapPending \/ ForwardPending
Stop == Close \/ Join

Next ==
  \/ \E s \in Signals : Raise(s)
  \/ Forward
  \/ Spawn \/ SetChild \/ Reap \/ Collected \/ Stop
  \/ ChildExits
  \/ Done

Spec == Init /\ [][Next]_vars

\* Both threads are scheduled; nothing makes signals come or the child exit.
FairSpec ==
  Spec /\ WF_vars(Forward) /\ WF_vars(Spawn) /\ WF_vars(SetChild) /\ WF_vars(Stop)

-----------------------------------------------------------------------------
TypeOK ==
  /\ main \in Steps
  /\ hand \in Signals \cup {NoSignal}
  /\ thread \in [at : {"idle", "taken", "park", "send", "ended"},
                 signal : Signals \cup {NoSignal}]
  /\ childId \in BOOLEAN
  /\ pending \in Signals \cup {NoSignal}
  /\ raised \in SUBSET Signals
  /\ child \in {"unborn", "alive", "dead", "reaped"}
  /\ accepted \in [Signals -> 0..MaxRaises]
  /\ delivered \in [Signals -> Nat]
  /\ stray \in [Signals -> Nat]
  /\ early \in BOOLEAN

\* A signal is forwarded at most once, although two threads forward: the one
\* that takes it and the one that finds it parked.
ForwardedAtMostOnce ==
  \A s \in Signals : delivered[s] + stray[s] <= accepted[s]

\* After stop has returned no signal is sent any more, and none is sent to the
\* pid, which by then may be another process's.
StoppedIsQuiet ==
  [][main = "stopped" => UNCHANGED <<delivered, stray>>]_vars

Undelivered(s) == child = "alive" /\ accepted[s] > delivered[s]

\* When no signal came early, each one reaches the child while it lives.
OnTimeSignalsArrive ==
  \A s \in Signals : Undelivered(s) /\ main = "collecting" /\ ~early ~> ~Undelivered(s)

\* README.md:114: signals are preserved.  Every accepted signal reaches the
\* child or the child exits first.
SignalsPreserved == \A s \in Signals : Undelivered(s) ~> ~Undelivered(s)
=============================================================================

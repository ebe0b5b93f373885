----------------------- MODULE SignalForwarding_proofs -----------------------
(***************************************************************************)
(* Proofs about SignalForwarding for every set of signals and any number   *)
(* of times they arrive.                                                   *)
(***************************************************************************)
EXTENDS SignalForwarding, TLAPS

\* The copies of a signal on their way: flagged, held by the thread, parked,
\* held by set_child.
Copies(s) ==
  (IF s \in raised THEN 1 ELSE 0) + (IF thread.signal = s THEN 1 ELSE 0)
    + (IF pending = s THEN 1 ELSE 0) + (IF hand = s THEN 1 ELSE 0)

\* Every copy was accepted, and a signal is held exactly while it is handled.
CopyInv ==
  /\ \A s \in Signals : delivered[s] + stray[s] + Copies(s) <= accepted[s]
  /\ thread.at \in {"idle", "ended"} <=> thread.signal = NoSignal
  /\ thread.at = "idle" <=> thread = Idle
  /\ main = "forwarding" <=> hand # NoSignal
  /\ main = "stopped" => thread.at = "ended"
  /\ thread.at = "ended" => main \in {"closing", "stopped"}

SignalInv == TypeOK /\ CopyInv

\* No signal is on its way when the forwarder starts.
LEMMA InitSignal == Init => SignalInv
<1> SUFFICES ASSUME Init PROVE SignalInv
  OBVIOUS
<1>1. TypeOK
  <2>1. 0 \in 0..MaxRaises
    BY MaxRaisesAssumption
  <2>2. [s \in Signals |-> 0] \in [Signals -> 0..MaxRaises]
    BY <2>1
  <2>3. Idle \in [at : {"idle", "taken", "park", "send", "ended"},
                  signal : Signals \cup {NoSignal}]
    BY DEF Idle
  <2> QED
    BY <2>2, <2>3 DEF Init, TypeOK, Steps
<1>2. \A s \in Signals : delivered[s] = 0 /\ stray[s] = 0 /\ accepted[s] = 0 /\ Copies(s) = 0
  BY SignalsAssumption DEF Init, Copies, Idle
<1>3. CopyInv
  BY <1>2 DEF Init, CopyInv, Idle
<1> QED
  BY <1>1, <1>3 DEF SignalInv

\* Sending a signal counts one delivery, to the child or astray.
LEMMA KillCounts ==
  ASSUME TypeOK, NEW s \in Signals, Kill(s)
  PROVE  /\ delivered' \in [Signals -> Nat]
         /\ stray' \in [Signals -> Nat]
         /\ \A t \in Signals :
              delivered'[t] + stray'[t]
                = delivered[t] + stray[t] + (IF t = s THEN 1 ELSE 0)
<1>1. CASE child = "reaped"
  BY <1>1 DEF Kill, TypeOK
<1>2. CASE child # "reaped"
  BY <1>2 DEF Kill, TypeOK
<1> QED
  BY <1>1, <1>2

\* Every step moves a copy on, drops one or accepts a new one.
LEMMA NextSignal == SignalInv /\ [Next]_vars => SignalInv'
<1> SUFFICES ASSUME SignalInv, [Next]_vars PROVE SignalInv'
  OBVIOUS
<1>1. TypeOK /\ CopyInv
  BY DEF SignalInv
<1> USE SignalsAssumption, MaxRaisesAssumption
<1>2. ASSUME NEW s \in Signals, Raise(s) PROVE SignalInv'
  <2>1. TypeOK'
    BY <1>1, <1>2 DEF Raise, TypeOK
  <2>2. CopyInv'
    BY <1>1, <1>2 DEF Raise, TypeOK, CopyInv, Copies
  <2> QED
    BY <2>1, <2>2 DEF SignalInv
<1>3. ASSUME NEW s \in Signals, Take(s) PROVE SignalInv'
  <2>1. TypeOK'
    BY <1>1, <1>3 DEF Take, TypeOK
  <2>2. CopyInv'
    BY <1>1, <1>3 DEF Take, TypeOK, CopyInv, Copies, Idle
  <2> QED
    BY <2>1, <2>2 DEF SignalInv
<1>4. CASE LoadChildId
  <2>1. TypeOK'
    BY <1>1, <1>4 DEF LoadChildId, TypeOK
  <2>2. /\ thread'.signal = thread.signal
        /\ thread'.at \in {"send", "park"}
        /\ thread.at = "taken"
    BY <1>1, <1>4 DEF LoadChildId, TypeOK
  <2>3. CopyInv'
    BY <1>1, <1>4, <2>2 DEF LoadChildId, CopyInv, Copies, Idle
  <2> QED
    BY <2>1, <2>3 DEF SignalInv
<1>5. CASE StorePending
  <2>1. TypeOK'
    BY <1>1, <1>5 DEF StorePending, TypeOK, Idle
  <2>2. CopyInv'
    BY <1>1, <1>5 DEF StorePending, TypeOK, CopyInv, Copies, Idle
  <2> QED
    BY <2>1, <2>2 DEF SignalInv
<1>6. CASE ForwardSignal
  <2>1. thread.signal \in Signals
    BY <1>1, <1>6 DEF ForwardSignal, CopyInv, TypeOK
  <2>2. /\ delivered' \in [Signals -> Nat]
        /\ stray' \in [Signals -> Nat]
        /\ \A t \in Signals :
             delivered'[t] + stray'[t]
               = delivered[t] + stray[t] + (IF t = thread.signal THEN 1 ELSE 0)
    BY <1>1, <1>6, <2>1, KillCounts DEF ForwardSignal
  <2>3. TypeOK'
    BY <1>1, <1>6, <2>2 DEF ForwardSignal, TypeOK, Idle
  <2>4. CopyInv'
    BY <1>1, <1>6, <2>1, <2>2 DEF ForwardSignal, TypeOK, CopyInv, Copies, Idle
  <2> QED
    BY <2>3, <2>4 DEF SignalInv
<1>7. CASE ForwardPending
  <2>1. hand \in Signals
    BY <1>1, <1>7 DEF ForwardPending, CopyInv, TypeOK
  <2>2. /\ delivered' \in [Signals -> Nat]
        /\ stray' \in [Signals -> Nat]
        /\ \A t \in Signals :
             delivered'[t] + stray'[t]
               = delivered[t] + stray[t] + (IF t = hand THEN 1 ELSE 0)
    BY <1>1, <1>7, <2>1, KillCounts DEF ForwardPending
  <2>3. TypeOK'
    BY <1>1, <1>7, <2>2 DEF ForwardPending, TypeOK, Steps
  <2>4. CopyInv'
    BY <1>1, <1>7, <2>1, <2>2 DEF ForwardPending, TypeOK, CopyInv, Copies
  <2> QED
    BY <2>3, <2>4 DEF SignalInv
<1>8. CASE SwapPending
  <2>1. TypeOK'
    BY <1>1, <1>8 DEF SwapPending, TypeOK, Steps
  <2>2. CopyInv'
    BY <1>1, <1>8 DEF SwapPending, TypeOK, CopyInv, Copies
  <2> QED
    BY <2>1, <2>2 DEF SignalInv
<1>9. CASE EndThread
  <2>1. TypeOK'
    BY <1>1, <1>9 DEF EndThread, TypeOK, Idle
  <2>2. CopyInv'
    BY <1>1, <1>9 DEF EndThread, TypeOK, CopyInv, Copies, Idle
  <2> QED
    BY <2>1, <2>2 DEF SignalInv
<1>10. CASE Spawn \/ StoreChildId \/ Reap \/ Collected \/ Close \/ Join \/ ChildExits
            \/ Done \/ UNCHANGED vars
  <2>1. TypeOK'
    BY <1>1, <1>10
    DEF Spawn, StoreChildId, Reap, Collected, Close, Join, ChildExits, Done, vars,
        TypeOK, Steps
  <2>2. CopyInv'
    BY <1>1, <1>10
    DEF Spawn, StoreChildId, Reap, Collected, Close, Join, ChildExits, Done, vars,
        TypeOK, CopyInv, Copies
  <2> QED
    BY <2>1, <2>2 DEF SignalInv
<1> QED
  BY <1>2, <1>3, <1>4, <1>5, <1>6, <1>7, <1>8, <1>9, <1>10
  DEF Next, Forward, SetChild, Stop

\* The signal invariant holds throughout a run.
LEMMA SignalsAccounted == Spec => []SignalInv
  BY InitSignal, NextSignal, PTL DEF Spec

\* No signal is forwarded more often than it was accepted.
THEOREM AtMostOnce == Spec => []ForwardedAtMostOnce
<1>1. SignalInv => ForwardedAtMostOnce
  <2> SUFFICES ASSUME SignalInv, NEW s \in Signals
               PROVE  delivered[s] + stray[s] <= accepted[s]
    BY DEF ForwardedAtMostOnce
  <2>1. delivered[s] + stray[s] + Copies(s) <= accepted[s] /\ Copies(s) \in Nat
    BY DEF SignalInv, CopyInv, Copies
  <2> QED
    BY <2>1 DEF SignalInv, TypeOK
<1> QED
  BY <1>1, SignalsAccounted, PTL

\* Every variable keeps the shape the code gives it: the pending slot holds one
\* signal or none, and the channels are sequences of signals.
THEOREM TypeCorrect == Spec => []TypeOK
<1>1. SignalInv => TypeOK
  BY DEF SignalInv
<1> QED
  BY <1>1, SignalsAccounted, PTL

\* Once stop has returned nothing is forwarded.
THEOREM QuietAfterStop == Spec => StoppedIsQuiet
<1>1. SignalInv /\ [Next]_vars => [main = "stopped" => UNCHANGED <<delivered, stray>>]_vars
  <2> SUFFICES ASSUME SignalInv, [Next]_vars, main = "stopped"
               PROVE  UNCHANGED <<delivered, stray>>
    OBVIOUS
  <2>1. thread.at = "ended"
    BY DEF SignalInv, CopyInv
  <2>2. ~ForwardSignal /\ ~ForwardPending
    BY <2>1 DEF ForwardSignal, ForwardPending
  <2> QED
    BY <2>2
    DEF Next, Forward, SetChild, Stop, Raise, Take, LoadChildId, StorePending,
        EndThread, Spawn, StoreChildId, SwapPending, Reap, Collected, Close, Join,
        ChildExits, Done, vars
<1> QED
  BY <1>1, SignalsAccounted, PTL DEF Spec, StoppedIsQuiet
=============================================================================

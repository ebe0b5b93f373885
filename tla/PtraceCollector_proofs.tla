---------------------- MODULE PtraceCollector_proofs -----------------------
(***************************************************************************)
(* Proofs about PtraceCollector, for any number of threads, calls and      *)
(* kills and any limits: what its tables hold; that a collection fails     *)
(* only for the two reasons FailureIsContained gives and then leaves       *)
(* nothing it knows of running; and that a collection without losses tells *)
(* what happened to threads and files (ReportTrue).                        *)
(***************************************************************************)
EXTENDS PtraceCollector, TLAPS, FiniteSetTheorems

Stopped(t, kind) == stop[t] # None /\ stop[t].kind = kind

\* t has forked and the collector has not handled it.
Forked(t) == Stopped(t, "fork") /\ (at[t] = "stopped" \/ (t = cur /\ pc = "handle"))

\* Threads that were given an identity.
Registered == {started[i].thread : i \in Identities}

\* Nothing has happened that may make a collection fail.
Quiet == "killed" \notin odd /\ "early" \notin blurred

-----------------------------------------------------------------------------
(* The inductive invariant. *)

\* What the collector remembers of a call until it returns is one it decodes.
Decoded(s) ==
  /\ s = [file |-> s.file, network |-> s.network, sockets |-> s.sockets]
  /\ \/ s.network = None
     \/ s.network.op \in {"socket", "bind", "connect", "listen", "close", "dup",
                          "send", "write", "receive", "read"}

TypesInv ==
  /\ group \in [Tids -> Tids] /\ DOMAIN parent = Tids /\ DOMAIN call = Tids
  /\ cur \in Tids /\ nextIdentity \in Nat \ {0}
  /\ \A t \in DOMAIN processes :
       /\ processes[t] = [identity |-> processes[t].identity, state |-> processes[t].state]
       /\ Decoded(processes[t].state)
  /\ Registered \subseteq Tids

\* A process is a first thread and those that were made to join it.
GroupInv ==
  /\ at[Root] # "unborn" /\ group[Root] = Root
  /\ \A t \in Tids : group[group[t]] = group[t]
  /\ \A t \in Tids : at[t] = "unborn" => group[t] = t /\ stop[t] = None
  /\ \A t \in Tids : at[t] # "unborn" => at[group[t]] # "unborn"

\* What a stop says is so, and a thread that executes a program is the last
\* one of its process, to be the first.
StopInv ==
  /\ \A t \in Tids : Stopped(t, "fork") =>
       /\ at[stop[t].child] # "unborn" /\ stop[t].child # Root
       /\ parent[stop[t].child] = t
       /\ group[stop[t].child] \in {stop[t].child, group[t]}
  /\ \A t \in Tids : Stopped(t, "exec") =>
       /\ group[stop[t].former] = group[t] /\ t \in {stop[t].former, group[t]}
       /\ t # stop[t].former => at[stop[t].former] = "dead"
  /\ \A t \in Tids : at[t] = "running" /\ stop[t] # None =>
       /\ stop[t] = [kind |-> "exec", former |-> t] /\ call[t] = None
       /\ \A o \in Tids \ {t} : group[o] = group[t] => at[o] \in {"zombie", "dead"}
  /\ pc = "detach" => /\ parent[cur] \in Tids /\ at[cur] # "unborn"
                      /\ group[cur] \in {cur, group[parent[cur]]}

\* A thread that will not run again: a first one only with all of its process,
\* for another thread might take its id.
Settled(k) ==
  /\ at[k] = "dead"
  /\ k = group[k] => \A t \in Tids : group[t] = k => at[t] = "dead"
Over(k) ==
  /\ at[k] \in {"zombie", "dead"}
  /\ k = group[k] => \A t \in Tids : group[t] = k => at[t] \in {"zombie", "dead"}

\* A registered thread is in the table until it will not run again, and is
\* never let go.
RegisteredInv ==
  /\ \A k \in Registered : at[k] \notin {"unborn", "untraced"}
  /\ \A t \in Tids : Forked(t) =>
       /\ stop[t].child \notin Registered /\ at[stop[t].child] # "untraced"
       /\ pc = "detach" => stop[t].child # cur
  /\ pc = "detach" => cur \notin Registered
  /\ pc \notin {"reap", "failed"} =>
       \A k \in Registered : k \in DOMAIN processes \/ Settled(k)
  /\ pc \in {"reap", "failed"} => \A k \in Registered : Over(k)

RootInv ==
  /\ rootEnded \/ Root \in DOMAIN processes \/ pc \in {"start", "terminate", "reap", "failed"}
  /\ pc = "start" => /\ \A t \in Tids \ {Root} : at[t] = "unborn"
                     /\ DOMAIN processes = {} /\ nextIdentity = 1
                     /\ at[Root] \in {"stopped", "zombie"}

\* A child of which the collector has not been told.
Unheard(c) ==
  /\ at[c] \notin {"dead", "untraced"}
  /\ \A u \in DOMAIN processes : u # c /\ group[u] # c

\* A registered thread has not been waited for: it is there, or its place was
\* taken by the first thread, which stops for it.
Present(u) ==
  \/ at[u] \in {"running", "stopped", "told", "zombie"}
  \/ /\ at[u] = "dead" /\ at[group[u]] \in {"stopped", "told"}
     /\ stop[group[u]] = [kind |-> "exec", former |-> u]
     /\ ~(cur = group[u] /\ pc = "resume")

\* While nothing unforeseen has happened, the collector finds the tracee it
\* deals with stopped, and every thread in its table can still be waited for.
QuietInv ==
  Quiet =>
    /\ pc \notin {"terminate", "reap", "failed"}
    /\ pc = "start" => at[Root] = "stopped"
    /\ pc \in {"handle", "resume"} => at[cur] = "told"
    /\ pc = "handle" => cur \in DOMAIN processes \/ stop[cur].kind = "initial"
    /\ pc = "detach" => /\ at[parent[cur]] = "told" /\ Stopped(parent[cur], "fork")
                        /\ Unheard(cur)
    /\ \A t \in Tids : Forked(t) => Unheard(stop[t].child)
    /\ \A u \in DOMAIN processes : Present(u)

TraceInv ==
  TypeOK /\ TypesInv /\ GroupInv /\ StopInv /\ RegisteredInv /\ RootInv /\ QuietInv

-----------------------------------------------------------------------------
(* Facts the steps need. *)

\* Stops are told apart from None, and name threads.
LEMMA StopFacts ==
  /\ \A s \in Stops : s # None
  /\ \A kind \in {"initial", "entry", "exit"} : [kind |-> kind] \in Stops
  /\ \A c \in Tids : [kind |-> "fork", child |-> c] \in Stops
  /\ \A f \in Tids : [kind |-> "exec", former |-> f] \in Stops
  /\ \A s \in Stops : s.kind = "fork" => s.child \in Tids
  /\ \A s \in Stops : s.kind = "exec" => s.former \in Tids /\ s = [kind |-> "exec", former |-> s.former]
<1>1. \A s \in Stops : s # None
  BY StopsAssumption
<1>2. \A s \in Stops : s.kind = "fork" => s.child \in Tids
  BY DEF Stops
<1>3. \A s \in Stops : s.kind = "exec" =>
                         s.former \in Tids /\ s = [kind |-> "exec", former |-> s.former]
  BY DEF Stops
<1>4. /\ \A kind \in {"initial", "entry", "exit"} : [kind |-> kind] \in Stops
      /\ \A c \in Tids : [kind |-> "fork", child |-> c] \in Stops
      /\ \A f \in Tids : [kind |-> "exec", former |-> f] \in Stops
  BY DEF Stops
<1> QED
  BY <1>1, <1>2, <1>3, <1>4

\* What a call does keeps the record of odd circumstances.
LEMMA OddGrows ==
  ASSUME NEW g, NEW c, NEW r, Do(g, c, r)
  PROVE  odd \subseteq odd'
BY DEF Do, DoOpen, DoClose, DoDuplicate, DoPipe, DoChangeDirectory, DoAccess, DoPath, DoPair,
       DoSocket, DoAddress, DoName, DoAccept, DoTransfer, Install, Update, Displace

-----------------------------------------------------------------------------
(* The command. *)

\* A thread that stops before or after a call.
LEMMA StopKeeps ==
  ASSUME TraceInv, NEW t \in Tids, NEW kind \in {"entry", "exit"},
         at[t] = "running", stop[t] = None,
         at' = [at EXCEPT ![t] = "stopped"],
         stop' = [stop EXCEPT ![t] = [kind |-> kind]],
         DOMAIN call' = Tids, \A o \in Tids \ {t} : call'[o] = call[o],
         odd \subseteq odd', blurred \subseteq blurred',
         UNCHANGED <<group, parent, pc, cur, tableVars, sinkVars>>
  PROVE  TraceInv'
<1> USE DEF TraceInv
<1>s. [kind |-> kind] \in Stops /\ [kind |-> kind] # None
  BY StopFacts
<1>1. TypeOK'
  BY <1>s DEF TypeOK, States, tableVars, sinkVars, Identities
<1>2. TypesInv'
  BY DEF TypesInv, tableVars, sinkVars, Identities, Registered
<1>3. GroupInv'
  BY DEF GroupInv, TypesInv, TypeOK
<1>4. StopInv'
  BY <1>s, StopFacts DEF StopInv, Stopped, TypesInv, TypeOK
<1>5. RegisteredInv'
  BY <1>s DEF RegisteredInv, Registered, Identities, Forked, Stopped, Settled, Over, TypesInv, TypeOK,
              tableVars, sinkVars
<1>6. RootInv'
  BY TidsAssumption DEF RootInv, tableVars, TypeOK, GroupInv
<1>7. QuietInv'
  BY <1>s DEF QuietInv, Quiet, Forked, Stopped, Unheard, Present, TypesInv, TypeOK, StopInv,
              tableVars
<1> QED
  BY <1>1, <1>2, <1>3, <1>4, <1>5, <1>6, <1>7

LEMMA EnterCallKeeps ==
  ASSUME TraceInv, NEW t \in Tids, NEW c, EnterCall(t, c),
         UNCHANGED <<pc, cur, tableVars, sinkVars>>
  PROVE  TraceInv'
BY StopKeeps DEF EnterCall, Free, TraceInv, TypesInv

LEMMA ReturnFromCallKeeps ==
  ASSUME TraceInv, NEW t \in Tids, ReturnFromCall(t),
         UNCHANGED <<pc, cur, tableVars, sinkVars>>
  PROVE  TraceInv'
<1>1. odd \subseteq odd'
  BY OddGrows DEF ReturnFromCall, DoNothing
<1>2. at[t] = "running" /\ stop[t] = None
  BY DEF ReturnFromCall, TraceInv, StopInv
<1>3. DOMAIN call' = Tids /\ \A o \in Tids \ {t} : call'[o] = call[o]
  BY DEF ReturnFromCall, TraceInv, TypesInv
<1>4. /\ at' = [at EXCEPT ![t] = "stopped"]
      /\ stop' = [stop EXCEPT ![t] = [kind |-> "exit"]]
      /\ blurred \subseteq blurred' /\ UNCHANGED <<group, parent>>
  BY DEF ReturnFromCall
<1> QED
  BY <1>1, <1>2, <1>3, <1>4, StopKeeps

LEMMA ForkKeeps ==
  ASSUME TraceInv, NEW t \in Tids, NEW c \in Tids, NEW thread \in BOOLEAN, Fork(t, c, thread),
         UNCHANGED <<pc, cur, tableVars, sinkVars>>
  PROVE  TraceInv'
<1>i. TypeOK /\ TypesInv /\ GroupInv /\ StopInv /\ RegisteredInv /\ RootInv /\ QuietInv
  BY DEF TraceInv
<1> USE <1>i
<1>y. /\ at \in [Tids -> States] /\ stop \in [Tids -> Stops \cup {None}]
      /\ group \in [Tids -> Tids] /\ DOMAIN parent = Tids /\ cur \in Tids
  BY DEF TypeOK, TypesInv
<1>s. /\ [kind |-> "fork", child |-> c] \in Stops /\ [kind |-> "fork", child |-> c] # None
      /\ [kind |-> "initial"] \in Stops /\ [kind |-> "initial"] # None
  BY StopFacts
<1>a. at[t] = "running" /\ stop[t] = None /\ at[c] = "unborn" /\ t # c
  BY DEF Fork, Free
<1>x. /\ at' = [at EXCEPT ![t] = "stopped", ![c] = "stopped"]
      /\ stop' = [stop EXCEPT ![t] = [kind |-> "fork", child |-> c], ![c] = [kind |-> "initial"]]
      /\ group' = [group EXCEPT ![c] = IF thread THEN group[t] ELSE c]
      /\ parent' = [parent EXCEPT ![c] = t]
  BY DEF Fork
<1>u. UNCHANGED <<call, blurred, odd, pc, cur>>
  BY DEF Fork
<1>b. group[t] # c /\ group[c] = c /\ group'[c] \in {c, group[t]} /\ group[t] \in Tids
  BY <1>a, <1>x, <1>y DEF GroupInv
<1>c. \A x \in Tids :
        /\ at'[x] = IF x \in {t, c} THEN "stopped" ELSE at[x]
        /\ stop'[x] = IF x = c THEN [kind |-> "initial"]
                      ELSE IF x = t THEN [kind |-> "fork", child |-> c] ELSE stop[x]
        /\ x # c => group'[x] = group[x] /\ parent'[x] = parent[x]
  BY <1>a, <1>x, <1>y
<1>d. parent'[c] = t
  BY <1>x, <1>y
<1>1. TypeOK'
  BY <1>s, <1>a, <1>x DEF TypeOK, States, tableVars, sinkVars, Identities
<1>2. TypesInv'
  BY <1>a, <1>x, <1>u DEF TypesInv, tableVars, sinkVars, Identities, Registered
<1>3. GroupInv'
  <2>1. group'[Root] = Root /\ at'[Root] # "unborn"
    BY <1>a, <1>b, <1>c, TidsAssumption DEF GroupInv
  <2>2. ASSUME NEW x \in Tids
        PROVE  /\ group'[group'[x]] = group'[x]
               /\ at'[x] = "unborn" => group'[x] = x /\ stop'[x] = None
               /\ at'[x] # "unborn" => at'[group'[x]] # "unborn"
    <3>1. group[x] = c => x = c
      BY <1>a, <1>b DEF GroupInv
    <3> QED
      BY <3>1, <1>y, <1>a, <1>b, <1>c DEF GroupInv
  <2> QED
    BY <2>1, <2>2 DEF GroupInv
<1>4. StopInv'
  <2>1. ASSUME NEW u \in Tids, Stopped(u, "fork")'
        PROVE  /\ at'[stop'[u].child] # "unborn" /\ stop'[u].child # Root
               /\ parent'[stop'[u].child] = u
               /\ group'[stop'[u].child] \in {stop'[u].child, group'[u]}
    <3>1. CASE u = t
      <4>1. Root # c
        BY <1>a DEF GroupInv
      <4> QED
        BY <4>1, <3>1, <1>a, <1>b, <1>c, <1>d
    <3>2. CASE u # t
      <4>1. u # c /\ Stopped(u, "fork") /\ stop'[u] = stop[u] /\ stop[u].child \in Tids
        BY <2>1, <3>2, <1>c, <1>y, StopFacts DEF Stopped
      <4>2. stop[u].child # c
        BY <4>1, <1>a DEF StopInv
      <4> QED
        BY <4>1, <4>2, <1>c DEF StopInv
    <3> QED
      BY <3>1, <3>2
  <2>2. ASSUME NEW u \in Tids, Stopped(u, "exec")'
        PROVE  /\ group'[stop'[u].former] = group'[u] /\ u \in {stop'[u].former, group'[u]}
               /\ u # stop'[u].former => at'[stop'[u].former] = "dead"
    <3>1. u # c /\ u # t /\ Stopped(u, "exec") /\ stop'[u] = stop[u] /\ stop[u].former \in Tids
      BY <2>2, <1>a, <1>c, <1>y, StopFacts DEF Stopped
    <3>2. stop[u].former # c
      BY <3>1, <1>a, <1>b DEF StopInv, GroupInv
    <3> QED
      BY <3>1, <3>2, <1>a, <1>c DEF StopInv
  <2>3. ASSUME NEW u \in Tids, at'[u] = "running", stop'[u] # None
        PROVE  /\ stop'[u] = [kind |-> "exec", former |-> u] /\ call'[u] = None
               /\ \A o \in Tids \ {u} : group'[o] = group'[u] => at'[o] \in {"zombie", "dead"}
    <3>1. u # c /\ u # t /\ at[u] = "running" /\ stop[u] # None /\ stop'[u] = stop[u]
      BY <2>3, <1>c
    <3>2. group[t] # group[u]
      BY <3>1, <1>a DEF StopInv
    <3>3. group'[c] # group[u]
      BY <3>1, <3>2, <1>a, <1>b DEF GroupInv
    <3> QED
      BY <3>1, <3>2, <3>3, <1>a, <1>c, <1>u DEF StopInv
  <2>4. pc' # "detach" \/ (cur # c /\ parent'[cur] = parent[cur])
    BY <1>a, <1>c, <1>y DEF StopInv
  <2>5. pc' = "detach" => /\ parent'[cur'] \in Tids /\ at'[cur'] # "unborn"
                          /\ group'[cur'] \in {cur', group'[parent'[cur']]}
    <3> HAVE pc' = "detach"
    <3>1. pc = "detach" /\ cur \in Tids \ {c} /\ cur' = cur /\ parent'[cur] = parent[cur]
      BY <2>4 DEF TypesInv
    <3>2. group[cur] \in {cur, group[parent[cur]]} /\ parent[cur] \in Tids /\ at[cur] # "unborn"
      BY <3>1 DEF StopInv
    <3>3. parent[cur] # c \/ group[cur] = cur
      BY <3>1, <3>2, <1>a, <1>b DEF GroupInv
    <3> QED
      BY <3>1, <3>2, <3>3, <1>c
  <2> QED
    BY <2>1, <2>2, <2>3, <2>5 DEF StopInv
<1>e. ASSUME NEW u \in Tids, Forked(u)'
      PROVE  (u = t /\ stop'[u].child = c) \/ (Forked(u) /\ u # c /\ stop'[u] = stop[u])
  BY <1>e, <1>a, <1>c, <1>s, <1>u DEF Forked, Stopped
<1>f. Registered' = Registered /\ UNCHANGED <<processes, pc, cur>> /\ c \notin Registered
  BY <1>a, <1>u DEF Registered, Identities, tableVars, sinkVars, RegisteredInv
<1>5. RegisteredInv'
  <2>1. \A k \in Registered : at'[k] \notin {"unborn", "untraced"} /\ k \in Tids /\ k # c
    BY <1>c, <1>f DEF RegisteredInv, TypesInv
  <2>2. ASSUME NEW u \in Tids, Forked(u)'
        PROVE  /\ stop'[u].child \notin Registered /\ at'[stop'[u].child] # "untraced"
               /\ pc = "detach" => stop'[u].child # cur
    <3>1. CASE u = t /\ stop'[u].child = c
      BY <3>1, <1>a, <1>c, <1>f DEF StopInv
    <3>2. CASE Forked(u) /\ u # c /\ stop'[u] = stop[u]
      BY <3>2, <1>c, <1>f, <1>y, StopFacts DEF RegisteredInv, Forked, Stopped
    <3> QED
      BY <2>2, <3>1, <3>2, <1>e
  <2>3. ASSUME NEW k \in Registered, Settled(k)
        PROVE  Settled(k)'
    BY <2>1, <2>3, <1>a, <1>b, <1>c DEF Settled
  <2>4. ASSUME NEW k \in Registered, Over(k)
        PROVE  Over(k)'
    BY <2>1, <2>4, <1>a, <1>b, <1>c DEF Over
  <2> QED
    BY <2>1, <2>2, <2>3, <2>4, <1>f DEF RegisteredInv
<1>6. RootInv'
  BY <1>a, <1>c, <1>f, <1>u, TidsAssumption DEF RootInv, tableVars
<1>7. QuietInv'
  <2> SUFFICES ASSUME Quiet'
               PROVE  QuietInv'
    BY DEF QuietInv
  <2>q. Quiet
    BY <1>u DEF Quiet
  <2>1. \A u \in DOMAIN processes : u \in Tids /\ u # c /\ at[u] # "unborn"
    BY <1>a DEF TypeOK
  <2>2. ASSUME NEW x \in Tids, at[x] # "unborn", Unheard(x)
        PROVE  Unheard(x)'
    BY <2>1, <2>2, <1>a, <1>c, <1>f DEF Unheard
  <2>3. Unheard(c)'
    BY <2>1, <1>a, <1>c, <1>f DEF Unheard, GroupInv
  <2>4. ASSUME NEW u \in Tids, Forked(u)'
        PROVE  Unheard(stop[u].child)'
    <3>1. CASE u = t /\ stop'[u].child = c
      BY <2>3, <3>1 DEF Unheard
    <3>2. CASE Forked(u) /\ u # c /\ stop'[u] = stop[u]
      <4>1. stop[u].child \in Tids /\ at[stop[u].child] # "unborn" /\ Unheard(stop[u].child)
        BY <2>q, <3>2, <1>y, StopFacts DEF Forked, Stopped, StopInv, QuietInv
      <4> QED
        BY <2>2, <3>2, <4>1 DEF Unheard
    <3> QED
      BY <2>4, <3>1, <3>2, <1>e
  <2>5. ASSUME NEW u \in DOMAIN processes
        PROVE  Present(u)'
    <3>1. Present(u) /\ group[u] \in Tids /\ u # c
      BY <2>q, <2>1 DEF QuietInv, TypesInv
    <3>2. at[group[u]] \in {"stopped", "told"} => group[u] \notin {t, c}
      BY <1>a
    <3> QED
      BY <2>1, <3>1, <3>2, <1>a, <1>c, <1>f DEF Present
  <2>6. pc = "detach" => at[cur] # "unborn" /\ parent[cur] \in Tids /\ cur \in Tids
    BY DEF StopInv, TypesInv
  <2>7. pc = "detach" => /\ at'[parent'[cur]] = "told" /\ stop'[parent'[cur]] = stop[parent[cur]]
                         /\ Stopped(parent[cur], "fork") /\ Unheard(cur)'
    BY <2>q, <2>2, <2>6, <1>a, <1>c, <1>f DEF QuietInv
  <2>8. pc \in {"handle", "resume"} => at'[cur] = "told" /\ stop'[cur] = stop[cur]
    BY <2>q, <1>a, <1>c, <1>f DEF QuietInv, TypesInv
  <2>9. pc # "start"
    BY <1>a, TidsAssumption DEF RootInv
  <2> QED
    BY <2>q, <2>4, <2>5, <2>7, <2>8, <2>9, <1>f DEF QuietInv, Stopped
<1> QED
  BY <1>1, <1>2, <1>3, <1>4, <1>5, <1>6, <1>7 DEF TraceInv

\* A process is killed, or its other threads are: S.
LEMMA KilledKeeps ==
  ASSUME TraceInv, NEW S \in SUBSET Tids, Killed(S),
         \A t \in S : at[t] \notin {"unborn", "dead"},
         UNCHANGED <<group, parent, stop, blurred, pc, cur, tableVars, sinkVars>>
  PROVE  TraceInv'
<1> USE DEF TraceInv
<1>a. /\ at' \in [Tids -> States]
      /\ \A t \in Tids : at'[t] = IF t \notin S THEN at[t]
                                 ELSE IF at[t] = "untraced" THEN "dead" ELSE "zombie"
      /\ DOMAIN call' = Tids /\ \A t \in Tids : call'[t] = None \/ call'[t] = call[t]
      /\ odd \subseteq odd'
      /\ Quiet' => Quiet /\ \A t \in S : at[t] \notin {"stopped", "told"}
  BY DEF Killed, TypeOK, States, Quiet
<1>1. TypeOK'
  BY <1>a DEF TypeOK, States, tableVars, sinkVars, Identities
<1>2. TypesInv'
  BY <1>a DEF TypesInv, tableVars, sinkVars, Identities, Registered
<1>3. GroupInv'
  BY <1>a, TidsAssumption DEF GroupInv, TypesInv
<1>4. StopInv'
  BY <1>a, StopFacts DEF StopInv, Stopped, TypesInv, TypeOK
<1>5. RegisteredInv'
  BY <1>a, StopFacts DEF RegisteredInv, Registered, Identities, Forked, Stopped, Settled, Over,
     TypesInv, TypeOK, GroupInv, tableVars, sinkVars
<1>6. RootInv'
  BY <1>a, TidsAssumption DEF RootInv, tableVars, TypeOK, GroupInv
<1>7. QuietInv'
  BY <1>a, StopFacts DEF QuietInv, Forked, Stopped, Unheard, Present, TypesInv, TypeOK,
     StopInv, GroupInv, RootInv, tableVars
<1> QED
  BY <1>1, <1>2, <1>3, <1>4, <1>5, <1>6, <1>7

LEMMA KillProcessKeeps ==
  ASSUME TraceInv, NEW g \in Tids, KillProcess(g),
         UNCHANGED <<pc, cur, tableVars, sinkVars>>
  PROVE  TraceInv'
<1>1. Threads(g) \in SUBSET Tids /\ \A t \in Threads(g) : at[t] \notin {"unborn", "dead"}
  BY DEF Threads, Alive, Ended
<1> QED
  BY <1>1, KilledKeeps DEF KillProcess

LEMMA ExecKeeps ==
  ASSUME TraceInv, NEW t \in Tids, Exec(t),
         UNCHANGED <<pc, cur, tableVars, sinkVars>>
  PROVE  TraceInv'
<1> DEFINE S == Threads(group[t]) \ {t}
<1>i. TypeOK /\ TypesInv /\ GroupInv /\ StopInv /\ RegisteredInv /\ RootInv /\ QuietInv
  BY DEF TraceInv
<1> USE <1>i
<1>y. /\ at \in [Tids -> States] /\ stop \in [Tids -> Stops \cup {None}]
      /\ group \in [Tids -> Tids] /\ cur \in Tids
  BY DEF TypeOK, TypesInv
<1>s. [kind |-> "exec", former |-> t] \in Stops /\ [kind |-> "exec", former |-> t] # None
  BY StopFacts
<1>a. at[t] = "running" /\ stop[t] = None /\ call[t] = None
  BY DEF Exec, Free
<1>u. UNCHANGED <<group, parent, blurred, pc, cur, processes, nextIdentity>> /\ Registered' = Registered
  BY DEF Exec, tableVars, sinkVars, Registered, Identities
<1>c. /\ at' \in [Tids -> States] /\ stop' \in [Tids -> Stops \cup {None}]
      /\ \A x \in Tids : /\ at'[x] = IF x \notin S THEN at[x]
                                    ELSE IF at[x] = "untraced" THEN "dead" ELSE "zombie"
                         /\ stop'[x] = IF x = t THEN [kind |-> "exec", former |-> t] ELSE stop[x]
                         /\ call'[x] = None \/ call'[x] = call[x]
  BY <1>y, <1>s DEF Exec, Killed, States
<1>q. odd \subseteq odd' /\ (Quiet' => Quiet /\ \A x \in S : at[x] \notin {"stopped", "told"})
  BY <1>u DEF Exec, Killed, Quiet
<1>d. \A x \in S : x \in Tids /\ group[x] = group[t] /\ at[x] \notin {"unborn", "dead", "zombie"}
  BY DEF Threads, Alive, Ended, Exec
<1>e. /\ \A x \in Tids : group[x] = group[t] /\ x # t => at'[x] \in {"zombie", "dead"}
      /\ t \notin S /\ S \subseteq Tids
  BY <1>a, <1>c, <1>d, <1>y DEF Threads, Alive, Ended, GroupInv, Exec, States
<1> HIDE DEF S
<1>1. TypeOK'
  BY <1>a, <1>c, <1>d, <1>s DEF TypeOK, tableVars, sinkVars, Identities
<1>2. TypesInv'
  BY <1>u DEF TypesInv, tableVars, sinkVars, Identities, Registered, Exec, Killed
<1>3. GroupInv'
  BY <1>a, <1>c, <1>u, <1>d, <1>y, TidsAssumption DEF GroupInv
<1>4. StopInv'
  <2>1. ASSUME NEW u \in Tids, Stopped(u, "fork")'
        PROVE  /\ at'[stop'[u].child] # "unborn" /\ stop'[u].child # Root
               /\ parent'[stop'[u].child] = u
               /\ group'[stop'[u].child] \in {stop'[u].child, group'[u]}
    <3>1. u # t /\ stop'[u] = stop[u] /\ Stopped(u, "fork") /\ stop[u].child \in Tids
      BY <2>1, <1>s, <1>c, <1>y, StopFacts DEF Stopped
    <3> QED
      BY <3>1, <1>c, <1>u DEF StopInv
  <2>2. ASSUME NEW u \in Tids, Stopped(u, "exec")'
        PROVE  /\ group'[stop'[u].former] = group'[u] /\ u \in {stop'[u].former, group'[u]}
               /\ u # stop'[u].former => at'[stop'[u].former] = "dead"
    BY <2>2, <1>c, <1>d, <1>u, <1>y, StopFacts DEF StopInv, Stopped
  <2>3. ASSUME NEW u \in Tids, at'[u] = "running", stop'[u] # None
        PROVE  /\ stop'[u] = [kind |-> "exec", former |-> u] /\ call'[u] = None
               /\ \A o \in Tids \ {u} : group'[o] = group'[u] => at'[o] \in {"zombie", "dead"}
    <3>1. CASE u = t
      BY <3>1, <1>a, <1>c, <1>e, <1>u
    <3>2. CASE u # t
      <4>1. at[u] = "running" /\ stop'[u] = stop[u] /\ stop[u] # None
        BY <3>2, <2>3, <1>c
      <4>2. /\ stop[u] = [kind |-> "exec", former |-> u] /\ call[u] = None
            /\ \A o \in Tids \ {u} : group[o] = group[u] => at[o] \in {"zombie", "dead"}
        BY <4>1 DEF StopInv
      <4> QED
        BY <4>1, <4>2, <1>c, <1>u
    <3> QED
      BY <3>1, <3>2
  <2> QED
    BY <2>1, <2>2, <2>3, <1>c, <1>u, <1>y DEF StopInv
<1>f. ASSUME NEW u \in Tids, Forked(u)'
      PROVE  Forked(u) /\ stop'[u] = stop[u]
  BY <1>f, <1>a, <1>c, <1>s, <1>u, <1>e DEF Forked, Stopped
<1>5. RegisteredInv'
  <2>1. \A k \in Registered : k \in Tids
    BY DEF TypesInv
  <2>2. ASSUME NEW k \in Registered, Settled(k)
        PROVE  Settled(k)'
    BY <2>1, <2>2, <1>c, <1>d, <1>u DEF Settled
  <2>3. ASSUME NEW k \in Registered, Over(k)
        PROVE  Over(k)'
    BY <2>1, <2>3, <1>c, <1>d, <1>u DEF Over
  <2> QED
    BY <2>1, <2>2, <2>3, <1>c, <1>f, <1>u, <1>y, StopFacts DEF RegisteredInv, Forked, Stopped
<1>6. RootInv'
  BY <1>a, <1>u, TidsAssumption DEF RootInv, GroupInv, tableVars
<1>7. QuietInv'
  <2> SUFFICES ASSUME Quiet'
               PROVE  QuietInv'
    BY DEF QuietInv
  <2>q. Quiet /\ \A x \in S : at[x] \notin {"stopped", "told"}
    BY <1>q
  <2>1. \A u \in DOMAIN processes : u \in Tids
    BY DEF TypeOK
  <2>2. ASSUME NEW x \in Tids, Unheard(x)
        PROVE  Unheard(x)'
    BY <2>1, <2>2, <1>c, <1>d, <1>u DEF Unheard
  <2>3. ASSUME NEW u \in Tids, Forked(u)'
        PROVE  Unheard(stop[u].child)'
    <3>1. stop[u].child \in Tids /\ Unheard(stop[u].child) /\ stop'[u].child = stop[u].child
      BY <2>q, <2>3, <1>f, <1>y, StopFacts DEF Forked, Stopped, QuietInv
    <3> QED
      BY <2>2, <3>1 DEF Unheard
  <2>4. ASSUME NEW u \in DOMAIN processes
        PROVE  Present(u)'
    <3>1. Present(u) /\ group[u] \in Tids /\ u \in Tids
      BY <2>q, <2>1, <1>y DEF QuietInv
    <3> QED
      BY <2>q, <3>1, <1>a, <1>c, <1>u DEF Present
  <2>5. pc = "detach" => /\ at'[parent'[cur]] = "told" /\ stop'[parent'[cur]] = stop[parent[cur]]
                         /\ Stopped(parent[cur], "fork") /\ Unheard(cur)'
    BY <2>q, <2>2, <1>a, <1>c, <1>u, <1>y DEF QuietInv, StopInv
  <2>6. pc \in {"handle", "resume"} => at'[cur] = "told" /\ stop'[cur] = stop[cur]
    BY <2>q, <1>a, <1>c, <1>u, <1>y DEF QuietInv
  <2>7. pc # "start"
    BY <1>a, TidsAssumption DEF RootInv, GroupInv
  <2> QED
    BY <2>q, <2>3, <2>4, <2>5, <2>6, <2>7, <1>u DEF QuietInv, Stopped
<1> QED
  BY <1>1, <1>2, <1>3, <1>4, <1>5, <1>6, <1>7 DEF TraceInv

\* The last thread of a process takes the place of the first.  It was not a
\* child of which the collector is still to be told: the thread that forked it
\* has been stopped for that, and has been killed.
LEMMA ExecDoneKeeps ==
  ASSUME TraceInv, NEW t \in Tids, ExecDone(t),
         UNCHANGED <<pc, cur, tableVars, sinkVars>>
  PROVE  TraceInv'
<1> DEFINE g == group[t]
<1>i. TypeOK /\ TypesInv /\ GroupInv /\ StopInv /\ RegisteredInv /\ RootInv /\ QuietInv
  BY DEF TraceInv
<1> USE <1>i
<1>y. /\ at \in [Tids -> States] /\ stop \in [Tids -> Stops \cup {None}]
      /\ group \in [Tids -> Tids] /\ cur \in Tids /\ g \in Tids
  BY DEF TypeOK, TypesInv
<1>a. /\ at[t] = "running" /\ stop[t] # None
      /\ cur = g => pc \notin {"handle", "resume"}
  BY DEF ExecDone
<1>b. /\ stop[t] = [kind |-> "exec", former |-> t] /\ group[g] = g
      /\ \A o \in Tids \ {t} : group[o] = g => at[o] \in {"zombie", "dead"}
  BY <1>a, <1>y DEF StopInv, GroupInv
<1>u. /\ UNCHANGED <<group, parent, call, blurred, odd, pc, cur, processes, nextIdentity>>
      /\ Registered' = Registered
  BY DEF ExecDone, tableVars, sinkVars, Registered, Identities
<1>c. /\ at' \in [Tids -> States] /\ stop' \in [Tids -> Stops \cup {None}]
      /\ \A x \in Tids : /\ at'[x] = IF x = g THEN "stopped" ELSE IF x = t THEN "dead" ELSE at[x]
                         /\ stop'[x] = IF x = g THEN stop[t] ELSE IF x = t THEN None ELSE stop[x]
  BY <1>y DEF ExecDone, States
<1> HIDE DEF g
<1>g. g = group[t]
  BY DEF g
<1>1. TypeOK'
  BY <1>a, <1>c, <1>y DEF TypeOK, tableVars, sinkVars, Identities
<1>2. TypesInv'
  BY <1>u DEF TypesInv, tableVars, sinkVars, Identities, Registered
<1>3. GroupInv'
  BY <1>a, <1>b, <1>c, <1>g, <1>u, <1>y, TidsAssumption DEF GroupInv
<1>4. StopInv'
  <2>1. ASSUME NEW u \in Tids, Stopped(u, "fork")'
        PROVE  /\ at'[stop'[u].child] # "unborn" /\ stop'[u].child # Root
               /\ parent'[stop'[u].child] = u
               /\ group'[stop'[u].child] \in {stop'[u].child, group'[u]}
    <3>1. u \notin {t, g} /\ stop'[u] = stop[u] /\ Stopped(u, "fork") /\ stop[u].child \in Tids
      BY <2>1, <1>b, <1>c, <1>y, StopFacts DEF Stopped
    <3> QED
      BY <3>1, <1>c, <1>u DEF StopInv
  <2>2. ASSUME NEW u \in Tids, Stopped(u, "exec")'
        PROVE  /\ group'[stop'[u].former] = group'[u] /\ u \in {stop'[u].former, group'[u]}
               /\ u # stop'[u].former => at'[stop'[u].former] = "dead"
    <3>1. CASE u = g
      BY <3>1, <1>b, <1>c, <1>g, <1>u, <1>y
    <3>2. CASE u # g
      <4>1. CASE u = t
        BY <4>1, <3>2, <2>2, <1>c DEF Stopped
      <4>2. CASE u # t
        <5>1. stop'[u] = stop[u] /\ Stopped(u, "exec") /\ stop[u].former \in Tids
          BY <4>2, <3>2, <2>2, <1>c, <1>y, StopFacts DEF Stopped
        <5>2. /\ group[stop[u].former] = group[u] /\ u \in {stop[u].former, group[u]}
              /\ u # stop[u].former => at[stop[u].former] = "dead"
          BY <5>1 DEF StopInv
        <5>3. u # stop[u].former => stop[u].former # g
          BY <3>2, <5>1, <5>2, <1>b
        <5> QED
          BY <5>1, <5>2, <5>3, <1>a, <1>c, <1>u
      <4> QED
        BY <4>1, <4>2
    <3> QED
      BY <3>1, <3>2
  <2>3. ASSUME NEW u \in Tids, at'[u] = "running", stop'[u] # None
        PROVE  /\ stop'[u] = [kind |-> "exec", former |-> u] /\ call'[u] = None
               /\ \A o \in Tids \ {u} : group'[o] = group'[u] => at'[o] \in {"zombie", "dead"}
    <3>1. u \notin {t, g} /\ at[u] = "running" /\ stop'[u] = stop[u]
      BY <2>3, <1>c
    <3>2. group[u] # g
      BY <3>1, <1>b
    <3> QED
      BY <2>3, <3>1, <3>2, <1>b, <1>c, <1>g, <1>u DEF StopInv
  <2> QED
    BY <2>1, <2>2, <2>3, <1>c, <1>u, <1>y DEF StopInv
<1>f. ASSUME NEW u \in Tids, Forked(u)'
      PROVE  Forked(u) /\ stop'[u] = stop[u] /\ u \notin {t, g}
  BY <1>f, <1>a, <1>b, <1>c, <1>u DEF Forked, Stopped
<1>5. RegisteredInv'
  <2>1. \A k \in Registered : k \in Tids
    BY DEF TypesInv
  <2>2. ASSUME NEW k \in Registered, Settled(k)
        PROVE  Settled(k)'
    BY <2>1, <2>2, <1>a, <1>b, <1>c, <1>g, <1>u DEF Settled
  <2>3. ASSUME NEW k \in Registered, Over(k)
        PROVE  Over(k)'
    BY <2>1, <2>3, <1>a, <1>b, <1>c, <1>g, <1>u DEF Over
  <2> QED
    BY <2>1, <2>2, <2>3, <1>c, <1>f, <1>u, <1>y, StopFacts DEF RegisteredInv, Forked, Stopped
<1>6. RootInv'
  BY <1>a, <1>u, TidsAssumption DEF RootInv, GroupInv, tableVars
<1>7. QuietInv'
  <2> SUFFICES ASSUME Quiet'
               PROVE  QuietInv'
    BY DEF QuietInv
  <2>q. Quiet
    BY <1>u DEF Quiet
  <2>1. \A u \in DOMAIN processes : u \in Tids
    BY DEF TypeOK
  <2>2. ASSUME NEW x \in Tids, NEW p \in Tids, Unheard(x), group[x] \in {x, group[p]},
               at[p] \in {"stopped", "told"}
        PROVE  Unheard(x)'
    <3>1. x = t => t = g
      BY <2>2, <1>a, <1>b, <1>g
    <3> QED
      BY <2>1, <2>2, <3>1, <1>c, <1>u DEF Unheard
  <2>3. ASSUME NEW u \in Tids, Forked(u)'
        PROVE  Unheard(stop[u].child)'
    <3>1. stop[u].child \in Tids /\ Unheard(stop[u].child) /\ stop'[u].child = stop[u].child
      BY <2>q, <2>3, <1>f, <1>y, StopFacts DEF Forked, Stopped, QuietInv
    <3>2. at[u] \in {"stopped", "told"} /\ group[stop[u].child] \in {stop[u].child, group[u]}
      BY <2>q, <2>3, <1>f DEF Forked, QuietInv, StopInv
    <3> QED
      BY <2>2, <3>1, <3>2 DEF Unheard
  <2>4. ASSUME NEW u \in DOMAIN processes
        PROVE  Present(u)'
    <3>1. Present(u) /\ group[u] \in Tids /\ u \in Tids
      BY <2>q, <2>1, <1>y DEF QuietInv
    <3>2. at[group[u]] \in {"stopped", "told"} => group[u] \notin {t, g}
      BY <1>a, <1>b, <1>y
    <3>3. CASE u = t
      BY <3>3, <1>a, <1>b, <1>c, <1>g, <1>u, <1>y DEF Present
    <3>4. CASE u # t
      BY <3>1, <3>2, <3>4, <1>c, <1>u DEF Present
    <3> QED
      BY <3>3, <3>4
  <2>5. pc = "detach" => /\ at'[parent'[cur]] = "told" /\ stop'[parent'[cur]] = stop[parent[cur]]
                         /\ Stopped(parent[cur], "fork") /\ Unheard(cur)'
    <3> HAVE pc = "detach"
    <3>1. /\ at[parent[cur]] = "told" /\ Unheard(cur) /\ parent[cur] \in Tids
          /\ group[cur] \in {cur, group[parent[cur]]} /\ Stopped(parent[cur], "fork")
      BY <2>q DEF QuietInv, StopInv
    <3>2. parent[cur] \notin {t, g}
      BY <3>1, <1>a, <1>b, <1>y
    <3> QED
      BY <3>1, <3>2, <2>2, <1>c, <1>u, <1>y
  <2>6. pc \in {"handle", "resume"} => at'[cur] = "told" /\ stop'[cur] = stop[cur]
    BY <2>q, <1>a, <1>c, <1>u, <1>y DEF QuietInv
  <2>7. pc # "start"
    BY <1>a, TidsAssumption DEF RootInv, GroupInv
  <2> QED
    BY <2>q, <2>3, <2>4, <2>5, <2>6, <2>7, <1>u DEF QuietInv, Stopped
<1> QED
  BY <1>1, <1>2, <1>3, <1>4, <1>5, <1>6, <1>7 DEF TraceInv

LEMMA ExitKeeps ==
  ASSUME TraceInv, NEW t \in Tids, Exit(t),
         UNCHANGED <<pc, cur, tableVars, sinkVars>>
  PROVE  TraceInv'
<1>i. TypeOK /\ TypesInv /\ GroupInv /\ StopInv /\ RegisteredInv /\ RootInv /\ QuietInv
  BY DEF TraceInv
<1> USE <1>i
<1>y. /\ at \in [Tids -> States] /\ stop \in [Tids -> Stops \cup {None}]
      /\ group \in [Tids -> Tids] /\ cur \in Tids
  BY DEF TypeOK, TypesInv
<1>a. at[t] \in {"running", "untraced"} /\ stop[t] = None
  BY DEF Exit
<1>u. /\ UNCHANGED <<stop, group, parent, call, blurred, odd, pc, cur, processes, nextIdentity>>
      /\ Registered' = Registered
  BY DEF Exit, tableVars, sinkVars, Registered, Identities
<1>c. /\ at' \in [Tids -> States]
      /\ \A x \in Tids : at'[x] = IF x # t THEN at[x]
                                  ELSE IF at[t] = "running" THEN "zombie" ELSE "dead"
  BY <1>y DEF Exit, States
<1>1. TypeOK'
  BY <1>a, <1>c, <1>u DEF TypeOK, tableVars, sinkVars, Identities
<1>2. TypesInv'
  BY <1>u DEF TypesInv, tableVars, sinkVars, Identities, Registered
<1>3. GroupInv'
  BY <1>a, <1>c, <1>u, <1>y, TidsAssumption DEF GroupInv
<1>4. StopInv'
  BY <1>a, <1>c, <1>u, <1>y, StopFacts DEF StopInv, Stopped
<1>5. RegisteredInv'
  BY <1>a, <1>c, <1>u, <1>y, StopFacts DEF RegisteredInv, TypesInv, Forked, Stopped, Settled, Over
<1>6. RootInv'
  BY <1>a, <1>u, TidsAssumption DEF RootInv, GroupInv, tableVars
<1>7. QuietInv'
  BY <1>a, <1>c, <1>u, <1>y, StopFacts, TidsAssumption
  DEF QuietInv, Quiet, Forked, Stopped, Unheard, Present, StopInv, RootInv, GroupInv, TypeOK
<1> QED
  BY <1>1, <1>2, <1>3, <1>4, <1>5, <1>6, <1>7 DEF TraceInv

LEMMA CommandKeeps ==
  ASSUME TraceInv, Command
  PROVE  TraceInv'
BY EnterCallKeeps, ReturnFromCallKeeps, ForkKeeps, KillProcessKeeps, ExecKeeps, ExecDoneKeeps,
   ExitKeeps DEF Command

-----------------------------------------------------------------------------
(* The collector: steps that leave the threads as they are. *)

Threaded == <<at, stop, group, parent, call, blurred, odd>>

\* The collection fails, for one of the two reasons.
LEMMA FailKeeps ==
  ASSUME TraceInv, pc \notin {"reap", "failed"}, pc' = "terminate", ~Quiet,
         UNCHANGED <<Threaded, cur, tableVars, started, exits, lost>>
  PROVE  TraceInv'
<1> USE DEF TraceInv, Threaded
<1>1. TypeOK'
  BY DEF TypeOK, tableVars, Identities
<1>2. TypesInv' /\ GroupInv'
  BY DEF TypesInv, GroupInv, tableVars, Identities, Registered
<1>3. StopInv'
  BY DEF StopInv, Stopped
<1>4. RegisteredInv'
  BY DEF RegisteredInv, Registered, Identities, Forked, Stopped, Settled, Over, tableVars
<1>5. RootInv'
  BY DEF RootInv
<1>6. QuietInv'
  BY DEF QuietInv, Quiet
<1> QED
  BY <1>1, <1>2, <1>3, <1>4, <1>5, <1>6

\* A stop other than that of an exec is done with.
LEMMA HandledKeeps ==
  ASSUME TraceInv, pc = "handle", pc' = "resume", stop[cur].kind # "exec",
         UNCHANGED <<at, stop, group, parent, call, odd, cur, nextIdentity, rootEnded, started, exits>>,
         blurred \subseteq blurred', DOMAIN processes' = DOMAIN processes,
         \A t \in DOMAIN processes :
           /\ processes'[t] = [identity |-> processes[t].identity, state |-> processes'[t].state]
           /\ Decoded(processes'[t].state),
         \A p \in DOMAIN snapshots' : snapshots'[p] \in BOOLEAN,
         Cardinality(DOMAIN snapshots') <= MaxSnapshots,
         lost' \subseteq AllCategories
  PROVE  TraceInv'
<1> USE DEF TraceInv
<1>0. \A t \in DOMAIN processes : processes'[t].identity = processes[t].identity
  OBVIOUS
<1>1. TypeOK'
  BY <1>0 DEF TypeOK, Identities
<1>2. TypesInv' /\ GroupInv'
  BY <1>0 DEF TypesInv, GroupInv, Identities, Registered
<1>3. StopInv'
  BY DEF StopInv, Stopped
<1>4. RegisteredInv'
  BY DEF RegisteredInv, Registered, Identities, Forked, Stopped, Settled, Over
<1>5. RootInv'
  BY DEF RootInv
<1>6. QuietInv'
  BY DEF QuietInv, Quiet, Forked, Stopped, Unheard, Present
<1> QED
  BY <1>1, <1>2, <1>3, <1>4, <1>5, <1>6

\* A thread that is waited for without end is not in the table.
LEMMA WaitFailsKeeps ==
  ASSUME TraceInv, WaitFails
  PROVE  TraceInv'
<1>1. PICK u \in DOMAIN processes : u \in Tids /\ group[u] \in Tids
  BY DEF WaitFails, Waiting, TraceInv, TypeOK, TypesInv
<1>2. ~Present(u)
  BY <1>1 DEF Present, WaitFails, Ended
<1>3. ~Quiet
  BY <1>1, <1>2 DEF TraceInv, QuietInv
<1> QED
  BY <1>3, FailKeeps DEF WaitFails, Waiting, commandVars, tableVars, sinkVars, Threaded

LEMMA RefusedKeeps ==
  ASSUME TraceInv, Refused
  PROVE  TraceInv'
<1>1. ~Quiet
  BY DEF TraceInv, QuietInv, Refused
<1> QED
  BY <1>1, FailKeeps DEF Refused, commandVars, tableVars, sinkVars, Threaded

LEMMA HandleInitialKeeps ==
  ASSUME TraceInv, HandleInitial
  PROVE  TraceInv'
BY HandledKeeps
DEF HandleInitial, Handles, commandVars, tableVars, sinkVars, Threaded, TraceInv, TypesInv, TypeOK

LEMMA HandleUnknownKeeps ==
  ASSUME TraceInv, HandleUnknown
  PROVE  TraceInv'
<1>1. lost' \subseteq AllCategories
  BY DEF HandleUnknown, Lose, TraceInv, TypeOK
<1> QED
  BY <1>1, HandledKeeps
  DEF HandleUnknown, Handles, commandVars, tableVars, Threaded, TraceInv, TypesInv, TypeOK

LEMMA HandleEntryKeeps ==
  ASSUME TraceInv, HandleEntry
  PROVE  TraceInv'
<1>p. PICK readable \in BOOLEAN :
        LET state == Entered(processes[cur].state, View(cur, readable), call[cur].about)
        IN  /\ processes' = [processes EXCEPT ![cur].state = state]
            /\ Remember(TouchedBy(state) \ Ignored)
            /\ blurred \subseteq blurred'
  BY DEF HandleEntry
<1> DEFINE state == Entered(processes[cur].state, View(cur, readable), call[cur].about)
<1>1. /\ processes' = [processes EXCEPT ![cur].state = state]
      /\ Remember(TouchedBy(state) \ Ignored) /\ cur \in DOMAIN processes
  BY <1>p DEF HandleEntry
<1>2. Decoded(state)
  <2>1. Decoded(processes[cur].state)
    BY <1>1 DEF TraceInv, TypesInv
  <2>2. \A n, c : \/ DecodeNetwork(n, c) = None
                 \/ DecodeNetwork(n, c).op \in {"socket", "bind", "connect", "listen", "close",
                                               "dup", "send", "write", "receive", "read"}
    BY DEF DecodeNetwork
  <2> QED
    BY <2>1, <2>2 DEF Entered, Decoded
<1> HIDE DEF state
<1>3. /\ lost' \subseteq AllCategories
      /\ \A p \in DOMAIN snapshots' : snapshots'[p] \in BOOLEAN
      /\ Cardinality(DOMAIN snapshots') <= MaxSnapshots
  BY <1>1 DEF Remember, Lose, AllCategories, TraceInv, TypeOK
<1>4. /\ DOMAIN processes' = DOMAIN processes
      /\ \A t \in DOMAIN processes :
           /\ processes'[t] = [identity |-> processes[t].identity, state |-> processes'[t].state]
           /\ Decoded(processes'[t].state)
  BY <1>1, <1>2 DEF TraceInv, TypesInv
<1> QED
  BY <1>p, <1>3, <1>4, HandledKeeps
  DEF HandleEntry, Answered, Handles

\* At the stop after a call nothing remains of it but sockets, and what may be
\* lost is of the network.
LEMMA AfterCall ==
  ASSUME NEW s, NEW w, NEW r, NEW visible, Decoded(s)
  PROVE  /\ Exited(s, w, r, visible).lost \subseteq {"network"}
         /\ Decoded(Exited(s, w, r, visible).state)
         /\ Exited(s, w, r, visible).state.file = None
<1> DEFINE Bare(n) == n = [file |-> None, network |-> None, sockets |-> n.sockets]
           Fine(e) == e.lost \subseteq {"network"} /\ Bare(e.state)
<1>1. ASSUME NEW n, Bare(n), NEW facts
      PROVE  Fine(Tells(n, facts)) /\ Fine(LosesCall(n))
  BY <1>1 DEF Tells, LosesCall
<1>2. ASSUME NEW n, Bare(n), NEW fd, NEW socket
      PROVE  Bare(Insert(n, fd, socket))
  BY <1>2 DEF Insert
<1>b. Bare(Child(s)) /\ \A n, sockets1 : Bare(n) => Bare([n EXCEPT !.sockets = sockets1])
  BY DEF Child, NoCalls
<1>d. \A e : Fine(e) <=> e.lost \subseteq {"network"} /\ Bare(e.state)
  OBVIOUS
<1>e. \A n : Bare(n) => Decoded(n) /\ n.file = None
  BY DEF Decoded
<1> HIDE DEF Fine, Bare
<1>3. ASSUME NEW n, Bare(n), NEW c, NEW q, NEW seen
      PROVE  /\ Fine(FinishSocket(n, c, q)) /\ Fine(FinishDuplicate(n, c, q))
             /\ Fine(Named(n, c, seen)) /\ Fine(Listening(n, c, seen))
             /\ Fine(FinishSend(n, c)) /\ Fine(FinishReceive(n, c))
  <2>1. /\ \A facts : Fine(Tells(n, facts)) /\ Fine(LosesCall(n))
        /\ \A fd, socket, facts : Fine(Tells(Insert(n, fd, socket), facts))
    BY <1>1, <1>2, <1>3
  <2>2. Fine(FinishSocket(n, c, q)) /\ Fine(FinishDuplicate(n, c, q))
    BY <2>1 DEF FinishSocket, FinishDuplicate, Keep, Known
  <2>3. Fine(Named(n, c, seen)) /\ Fine(Listening(n, c, seen))
    BY <2>1 DEF Named, Listening
  <2>4. Fine(FinishSend(n, c)) /\ Fine(FinishReceive(n, c))
    BY <2>1 DEF FinishSend, FinishReceive
  <2> QED
    BY <2>2, <2>3, <2>4
<1>4. ASSUME NEW n, Bare(n), NEW c, NEW q, NEW seen,
             c.op \in {"socket", "bind", "connect", "listen", "close", "dup",
                       "send", "write", "receive", "read"}
      PROVE  Fine(FinishNetwork(n, c, q, seen))
  <2>1. Fine(Known([n EXCEPT !.sockets = Without(@, {c.fd})])) /\ Fine(Known(n))
    BY <1>b, <1>1, <1>4 DEF Known
  <2> QED
    BY <2>1, <1>3, <1>4 DEF FinishNetwork
<1>6. /\ s.network = None \/ r = None => Fine(Known(Child(s)))
      /\ s.network # None => \A seen : Fine(FinishNetwork(Child(s), s.network, r, seen))
  <2>1. Fine(Known(Child(s)))
    BY <1>1, <1>b DEF Known
  <2>2. ASSUME s.network # None, NEW seen
        PROVE  Fine(FinishNetwork(Child(s), s.network, r, seen))
    BY <2>2, <1>4, <1>b DEF Decoded
  <2> QED
    BY <2>1, <2>2
<1>7. \E e : /\ Fine(e) /\ Exited(s, w, r, visible) = [e EXCEPT !.facts = @ \cup FileFacts(s, r)]
  BY <1>6 DEF Exited
<1> QED
  BY <1>7, <1>d, <1>e

LEMMA HandleExitKeeps ==
  ASSUME TraceInv, HandleExit
  PROVE  TraceInv'
<1>1. PICK effect : /\ \E w, visible : effect = Exited(processes[cur].state, w, call[cur].result, visible)
                    /\ processes' = [processes EXCEPT ![cur].state = effect.state]
                    /\ Lose(effect.lost) /\ cur \in DOMAIN processes
  BY DEF HandleExit
<1>2. effect.lost \subseteq {"network"} /\ Decoded(effect.state)
  BY <1>1, AfterCall DEF TraceInv, TypesInv
<1>3. lost' \subseteq AllCategories
  BY <1>1, <1>2 DEF Lose, AllCategories, TraceInv, TypeOK
<1>4. /\ DOMAIN processes' = DOMAIN processes
      /\ \A t \in DOMAIN processes :
           /\ processes'[t] = [identity |-> processes[t].identity, state |-> processes'[t].state]
           /\ Decoded(processes'[t].state)
  BY <1>1, <1>2 DEF TraceInv, TypesInv
<1> QED
  BY <1>3, <1>4, HandledKeeps
  DEF HandleExit, Answered, Handles, commandVars, Threaded, TraceInv, TypeOK

LEMMA FinishKeeps ==
  ASSUME TraceInv, Finish
  PROVE  TraceInv'
<1> USE DEF TraceInv
<1>0. /\ pc = "wait" /\ DOMAIN processes = {} /\ pc' = "done"
      /\ UNCHANGED <<Threaded, cur, tableVars, started, exits, lost>>
  BY DEF Finish, RootInv, commandVars, Threaded
<1>1. TypeOK'
  BY <1>0 DEF TypeOK, tableVars, Identities, Threaded
<1>2. TypesInv' /\ GroupInv' /\ StopInv' /\ RootInv'
  BY <1>0 DEF TypesInv, GroupInv, StopInv, RootInv, Stopped, tableVars, Identities, Registered, Threaded
<1>3. RegisteredInv'
  BY <1>0 DEF RegisteredInv, Registered, Identities, Forked, Stopped, Settled, Over, tableVars, Threaded
<1>4. QuietInv'
  BY <1>0 DEF QuietInv, Quiet, Forked, Stopped, Unheard, Present, tableVars, Threaded
<1> QED
  BY <1>1, <1>2, <1>3, <1>4

LEMMA GiveUpKeeps ==
  ASSUME TraceInv, GiveUp
  PROVE  TraceInv'
<1> USE DEF TraceInv
<1>0. /\ pc = "reap" /\ DOMAIN processes' = {} /\ pc' = "failed"
      /\ UNCHANGED <<Threaded, cur, nextIdentity, snapshots, rootEnded, started, exits, lost>>
  BY DEF GiveUp, commandVars, Threaded, sinkVars
<1>1. TypeOK'
  BY <1>0 DEF TypeOK, Identities, Threaded
<1>2. TypesInv' /\ GroupInv' /\ StopInv' /\ RootInv'
  BY <1>0 DEF TypesInv, GroupInv, StopInv, RootInv, Stopped, Identities, Registered, Threaded
<1>3. RegisteredInv'
  BY <1>0 DEF RegisteredInv, Registered, Identities, Forked, Stopped, Settled, Over, Threaded
<1>4. QuietInv'
  BY <1>0 DEF QuietInv, Quiet, Threaded
<1> QED
  BY <1>1, <1>2, <1>3, <1>4

-----------------------------------------------------------------------------
(* The collector: steps that resume, let go or kill threads. *)

LEMMA WaitStopKeeps ==
  ASSUME TraceInv, NEW t \in Tids, WaitStop(t)
  PROVE  TraceInv'
<1>i. TypeOK /\ TypesInv /\ GroupInv /\ StopInv /\ RegisteredInv /\ RootInv /\ QuietInv
  BY DEF TraceInv
<1> USE <1>i
<1>y. /\ at \in [Tids -> States] /\ stop \in [Tids -> Stops \cup {None}]
      /\ group \in [Tids -> Tids]
  BY DEF TypeOK, TypesInv
<1>a. pc = "wait" /\ at[t] = "stopped" /\ pc' = "handle" /\ cur' = t
  BY DEF WaitStop, Waiting
<1>u. /\ UNCHANGED <<stop, group, parent, call, odd, tableVars, started, exits, lost>>
      /\ Registered' = Registered
  BY DEF WaitStop, tableVars, sinkVars, Registered, Identities
<1>c. at' \in [Tids -> States] /\ \A x \in Tids : at'[x] = IF x = t THEN "told" ELSE at[x]
  BY <1>y DEF WaitStop, States
<1>q. Quiet' => Quiet /\ (t \in DOMAIN processes \/ stop[t].kind = "initial")
  BY <1>u DEF WaitStop, Early, Quiet
<1>1. TypeOK'
  BY <1>a, <1>c, <1>u DEF TypeOK, tableVars, Identities
<1>2. TypesInv'
  BY <1>a, <1>u DEF TypesInv, tableVars
<1>3. GroupInv'
  BY <1>a, <1>c, <1>u, <1>y, TidsAssumption DEF GroupInv
<1>4. StopInv'
  BY <1>a, <1>c, <1>u, <1>y, StopFacts DEF StopInv, Stopped
<1>5. RegisteredInv'
  BY <1>a, <1>c, <1>u, <1>y, StopFacts DEF RegisteredInv, TypesInv, Forked, Stopped, Settled, Over, tableVars
<1>6. RootInv'
  BY <1>a, <1>u DEF RootInv, tableVars
<1>7. QuietInv'
  BY <1>a, <1>c, <1>q, <1>u, <1>y, StopFacts
  DEF QuietInv, Forked, Stopped, Unheard, Present, StopInv, TypeOK, tableVars
<1> QED
  BY <1>1, <1>2, <1>3, <1>4, <1>5, <1>6, <1>7 DEF TraceInv

\* A thread that is taken out of the table will not run again.
LEMMA WaitExitKeeps ==
  ASSUME TraceInv, NEW t \in Tids, WaitExit(t)
  PROVE  TraceInv'
<1>i. TypeOK /\ TypesInv /\ GroupInv /\ StopInv /\ RegisteredInv /\ RootInv /\ QuietInv
  BY DEF TraceInv
<1> USE <1>i
<1>y. /\ at \in [Tids -> States] /\ stop \in [Tids -> Stops \cup {None}]
      /\ group \in [Tids -> Tids] /\ DOMAIN processes \subseteq Tids
  BY DEF TypeOK, TypesInv
<1>a. pc = "wait" /\ at[t] = "zombie" /\ Reportable(t)
  BY DEF WaitExit, Waiting
<1>u. /\ UNCHANGED <<group, parent, call, odd, pc, cur, nextIdentity, snapshots, started, lost>>
      /\ Registered' = Registered /\ rootEnded' = (rootEnded \/ t = Root)
  BY DEF WaitExit, Registered, Identities
<1>c. /\ at' \in [Tids -> States] /\ stop' \in [Tids -> Stops \cup {None}]
      /\ \A x \in Tids : /\ at'[x] = IF x = t THEN "dead" ELSE at[x]
                         /\ stop'[x] = IF x = t THEN None ELSE stop[x]
  BY <1>y DEF WaitExit, States
<1>p. /\ DOMAIN processes' = DOMAIN processes \ {t}
      /\ \A x \in DOMAIN processes' : processes'[x] = processes[x]
      /\ DOMAIN exits' = DOMAIN exits
  BY DEF WaitExit, RecordExit, Ends, Without
<1>q. Quiet' => Quiet /\ t \in DOMAIN processes
  BY <1>u DEF WaitExit, Quiet
<1>r. group[t] = t => \A o \in Tids : group[o] = t => at'[o] = "dead"
  BY <1>a, <1>c DEF Reportable, Ended, GroupInv
<1>1. TypeOK'
  <2>1. {processes'[x].identity : x \in DOMAIN processes'} \subseteq Identities
    BY <1>p DEF TypeOK
  <2>2. Identities' = Identities
    BY <1>u DEF Identities
  <2> QED
    BY <2>1, <2>2, <1>a, <1>c, <1>p, <1>u DEF TypeOK
<1>2. TypesInv'
  BY <1>a, <1>p, <1>u DEF TypesInv
<1>3. GroupInv'
  BY <1>a, <1>c, <1>u, <1>y, TidsAssumption DEF GroupInv
<1>4. StopInv'
  BY <1>a, <1>c, <1>u, <1>y, StopFacts DEF StopInv, Stopped
<1>5. RegisteredInv'
  <2>1. ASSUME NEW k \in Registered
        PROVE  k \in DOMAIN processes' \/ Settled(k)'
    <3>1. k \in Tids /\ (k \in DOMAIN processes \/ Settled(k))
      BY <1>a DEF RegisteredInv, TypesInv
    <3>2. CASE k = t
      BY <3>2, <1>c, <1>r, <1>u DEF Settled
    <3>3. CASE k # t
      BY <3>1, <3>3, <1>c, <1>p, <1>u DEF Settled
    <3> QED
      BY <3>2, <3>3
  <2> QED
    BY <2>1, <1>a, <1>c, <1>u, <1>y, StopFacts DEF RegisteredInv, Forked, Stopped, TypesInv
<1>6. RootInv'
  BY <1>a, <1>p, <1>u DEF RootInv
<1>7. QuietInv'
  BY <1>a, <1>c, <1>p, <1>q, <1>u, <1>y, StopFacts
  DEF QuietInv, Forked, Stopped, Unheard, Present, StopInv
<1> QED
  BY <1>1, <1>2, <1>3, <1>4, <1>5, <1>6, <1>7 DEF TraceInv

LEMMA ResumeKeeps ==
  ASSUME TraceInv, Resume
  PROVE  TraceInv'
<1>i. TypeOK /\ TypesInv /\ GroupInv /\ StopInv /\ RegisteredInv /\ RootInv /\ QuietInv
  BY DEF TraceInv
<1> USE <1>i
<1>y. /\ at \in [Tids -> States] /\ stop \in [Tids -> Stops \cup {None}]
      /\ group \in [Tids -> Tids] /\ DOMAIN processes \subseteq Tids /\ cur \in Tids
      /\ DOMAIN call = Tids
  BY DEF TypeOK, TypesInv
<1>1. CASE at[cur] # "told"
  <2>1. ~Quiet
    BY <1>1 DEF QuietInv, Resume
  <2> QED
    BY <1>1, <2>1, FailKeeps DEF Resume, tableVars, sinkVars, Threaded
<1>2. CASE at[cur] = "told"
  <2>a. pc = "resume" /\ pc' = "wait"
    BY <1>2 DEF Resume
  <2>u. /\ UNCHANGED <<group, parent, blurred, odd, cur, tableVars, started, exits, lost>>
        /\ Registered' = Registered
    BY DEF Resume, sinkVars, Registered, Identities
  <2>c. /\ at' \in [Tids -> States] /\ stop' \in [Tids -> Stops \cup {None}]
        /\ DOMAIN call' = Tids
        /\ \A x \in Tids : /\ at'[x] = IF x = cur THEN "running" ELSE at[x]
                           /\ stop'[x] = IF x = cur THEN None ELSE stop[x]
                           /\ x # cur => call'[x] = call[x]
    BY <1>2, <1>y DEF Resume, States
  <2>1. TypeOK'
    BY <1>2, <2>c, <2>u DEF TypeOK, tableVars, Identities
  <2>2. TypesInv'
    BY <2>c, <2>u DEF TypesInv, tableVars
  <2>3. GroupInv'
    BY <1>2, <2>c, <2>u, <1>y, TidsAssumption DEF GroupInv
  <2>4. StopInv'
    BY <1>2, <2>a, <2>c, <2>u, <1>y, StopFacts DEF StopInv, Stopped
  <2>5. RegisteredInv'
    BY <1>2, <2>a, <2>c, <2>u, <1>y, StopFacts DEF RegisteredInv, TypesInv, Forked, Stopped, Settled, tableVars
  <2>6. RootInv'
    BY <2>a, <2>u DEF RootInv, tableVars
  <2>7. QuietInv'
    BY <1>2, <2>a, <2>c, <2>u, <1>y, StopFacts
    DEF QuietInv, Quiet, Forked, Stopped, Unheard, Present, StopInv, tableVars
  <2> QED
    BY <2>1, <2>2, <2>3, <2>4, <2>5, <2>6, <2>7 DEF TraceInv
<1> QED
  BY <1>1, <1>2

-----------------------------------------------------------------------------
(* The collector: steps that change the table. *)

\* A thread is registered with an identity of its own.
LEMMA StartFacts ==
  ASSUME TraceInv, NEW t \in Tids, NEW from, NEW state, NEW facts, Decoded(state),
         t \notin DOMAIN processes, Start(t, from, state, facts)
  PROVE  /\ nextIdentity' \in Nat \ {0} /\ Identities' = 1 .. nextIdentity' - 1
         /\ DOMAIN exits' = Identities'
         /\ DOMAIN processes' = DOMAIN processes \cup {t}
         /\ \A x \in DOMAIN processes' :
              /\ processes'[x] = [identity |-> processes'[x].identity, state |-> processes'[x].state]
              /\ Decoded(processes'[x].state)
         /\ \A x, y \in DOMAIN processes' :
              processes'[x].identity = processes'[y].identity => x = y
         /\ {processes'[x].identity : x \in DOMAIN processes'} \subseteq Identities'
         /\ Registered' = Registered \cup {t}
<1> DEFINE n == nextIdentity
<1>i. TypeOK /\ TypesInv
  BY DEF TraceInv
<1>n. n \in Nat \ {0} /\ Identities = 1 .. n - 1 /\ DOMAIN exits = Identities /\ n \notin Identities
  BY <1>i DEF TypeOK, TypesInv
<1>1. nextIdentity' = n + 1 /\ Identities' = Identities \cup {n} /\ DOMAIN exits' = Identities'
  BY <1>n DEF Start, With, Identities
<1>2. Identities' = 1 .. nextIdentity' - 1
  BY <1>1, <1>n
<1>3. /\ DOMAIN processes' = DOMAIN processes \cup {t}
      /\ \A x \in DOMAIN processes : processes'[x] = processes[x]
      /\ processes'[t] = [identity |-> n, state |-> state]
  BY DEF Start, With
<1>4. \A x \in DOMAIN processes' :
        /\ processes'[x] = [identity |-> processes'[x].identity, state |-> processes'[x].state]
        /\ Decoded(processes'[x].state)
  BY <1>3, <1>i DEF TypesInv
<1>5. \A x \in DOMAIN processes : processes[x].identity \in Identities /\ processes[x].identity # n
  BY <1>i, <1>n DEF TypeOK
<1>6. \A x, y \in DOMAIN processes' :
        processes'[x].identity = processes'[y].identity => x = y
  BY <1>3, <1>5, <1>i DEF TypeOK
<1>7. {processes'[x].identity : x \in DOMAIN processes'} \subseteq Identities'
  BY <1>1, <1>3, <1>5
<1>8. /\ \A i \in Identities : started'[i].thread = started[i].thread
      /\ started'[n].thread = t
  BY <1>n DEF Start, With, Identities
<1>9. Registered' = Registered \cup {t}
  BY <1>1, <1>8 DEF Registered
<1> QED
  BY <1>1, <1>2, <1>3, <1>4, <1>6, <1>7, <1>9, <1>n

\* The child of a fork is registered.
LEMMA RegisterKeeps ==
  ASSUME TraceInv, pc = "handle", pc' = "resume", Stopped(cur, "fork"), at[cur] = "told",
         NEW c, c = stop[cur].child, c \notin DOMAIN processes,
         NEW from, NEW state, Decoded(state), Start(c, from, state, {"fork"}),
         UNCHANGED <<Threaded, cur, snapshots, rootEnded, lost>>
  PROVE  TraceInv'
<1>i. TypeOK /\ TypesInv /\ GroupInv /\ StopInv /\ RegisteredInv /\ RootInv /\ QuietInv
  BY DEF TraceInv
<1> USE <1>i
<1>y. /\ at \in [Tids -> States] /\ stop \in [Tids -> Stops \cup {None}]
      /\ group \in [Tids -> Tids] /\ cur \in Tids
  BY DEF TypeOK, TypesInv
<1>a. c \in Tids /\ stop[cur] # None /\ stop[cur].kind = "fork"
  BY <1>y, StopFacts DEF Stopped
<1>u. UNCHANGED <<at, stop, group, parent, call, blurred, odd, cur, snapshots, rootEnded, lost>>
  BY DEF Threaded
<1>s. /\ nextIdentity' \in Nat \ {0} /\ Identities' = 1 .. nextIdentity' - 1
      /\ DOMAIN exits' = Identities'
      /\ DOMAIN processes' = DOMAIN processes \cup {c}
      /\ \A x \in DOMAIN processes' :
           /\ processes'[x] = [identity |-> processes'[x].identity, state |-> processes'[x].state]
           /\ Decoded(processes'[x].state)
      /\ \A x, y \in DOMAIN processes' :
           processes'[x].identity = processes'[y].identity => x = y
      /\ {processes'[x].identity : x \in DOMAIN processes'} \subseteq Identities'
      /\ Registered' = Registered \cup {c}
  BY <1>a, StartFacts
<1>b. /\ at[c] \notin {"unborn", "untraced"} /\ c # Root /\ parent[c] = cur
      /\ group[c] \in {c, group[cur]} /\ c \notin Registered
  BY <1>a, <1>y DEF StopInv, RegisteredInv, Forked, Stopped
<1>f. ASSUME NEW u \in Tids, Forked(u)'
      PROVE  Forked(u) /\ u # cur /\ stop[u].child # c
  BY <1>f, <1>u, <1>b DEF Forked, Stopped, StopInv
<1>1. TypeOK'
  BY <1>s, <1>u, <1>a, <1>b DEF TypeOK
<1>2. TypesInv'
  BY <1>s, <1>u, <1>a DEF TypesInv
<1>3. GroupInv' /\ StopInv'
  BY <1>u DEF GroupInv, StopInv, Stopped
<1>5. RegisteredInv'
  BY <1>s, <1>u, <1>b, <1>f, <1>y DEF RegisteredInv, TypesInv, Settled
<1>6. RootInv'
  BY <1>s, <1>u DEF RootInv
<1>7. QuietInv'
  <2> SUFFICES ASSUME Quiet'
               PROVE  QuietInv'
    BY DEF QuietInv
  <2>q. Quiet
    BY <1>u DEF Quiet
  <2>1. cur \in DOMAIN processes /\ Unheard(c)
    BY <2>q, <1>a, <1>y DEF QuietInv, Forked, Stopped
  <2>2. ASSUME NEW u \in Tids, Forked(u)'
        PROVE  Unheard(stop[u].child)'
    <3>1. Unheard(stop[u].child) /\ stop[u].child # c
      BY <2>q, <2>2, <1>f DEF QuietInv
    <3> QED
      BY <3>1, <2>1, <1>b, <1>s, <1>u DEF Unheard
  <2>3. ASSUME NEW u \in DOMAIN processes
        PROVE  Present(u)'
    BY <2>q, <1>a, <1>u DEF QuietInv, Present
  <2>4. Present(c)'
    BY <2>1, <1>a, <1>b, <1>u, <1>y DEF Unheard, Present, States
  <2> QED
    BY <2>q, <2>2, <2>3, <2>4, <1>s, <1>u DEF QuietInv
<1> QED
  BY <1>1, <1>2, <1>3, <1>5, <1>6, <1>7 DEF TraceInv

LEMMA HandleForkKeeps ==
  ASSUME TraceInv, HandleFork
  PROVE  TraceInv'
<1> DEFINE c == stop[cur].child
<1>i. TypeOK /\ TypesInv /\ GroupInv /\ StopInv /\ RegisteredInv /\ RootInv /\ QuietInv
  BY DEF TraceInv
<1> USE <1>i
<1>y. /\ at \in [Tids -> States] /\ stop \in [Tids -> Stops \cup {None}]
      /\ group \in [Tids -> Tids] /\ cur \in Tids
  BY DEF TypeOK, TypesInv
<1>a. pc = "handle" /\ at[cur] = "told" /\ stop[cur].kind = "fork" /\ stop[cur] # None /\ c \in Tids
  BY <1>y, StopFacts DEF HandleFork, Answered, Handles, TypeOK
<1>u. UNCHANGED <<Threaded, snapshots, rootEnded, deltas>>
  BY DEF HandleFork, commandVars, Threaded
<1>1. CASE pc' = "resume" /\ c \in DOMAIN processes
  <2>1. UNCHANGED <<cur, processes, nextIdentity, started, exits, lost>>
    BY <1>1 DEF HandleFork, Register
  <2> QED
    BY <2>1, <1>1, <1>a, <1>u, HandledKeeps DEF TypesInv, TypeOK, Threaded
<1>2. CASE pc' = "resume" /\ c \notin DOMAIN processes
  <2>1. Register(c, cur) /\ UNCHANGED <<cur, lost>>
    BY <1>2 DEF HandleFork
  <2>2. Decoded(NoCalls) /\ \A s : Decoded(Child(s))
    BY DEF Decoded, NoCalls, Child
  <2>3. \E from, state : Decoded(state) /\ Start(c, from, state, {"fork"})
    BY <1>2, <2>1, <2>2 DEF Register
  <2> QED
    BY <1>2, <2>1, <2>3, <1>a, <1>u, RegisterKeeps DEF Stopped
<1>3. CASE pc' # "resume"
  <2>1. /\ pc' = "detach" /\ cur' = c /\ Lose(AllCategories) /\ c \notin DOMAIN processes
        /\ UNCHANGED <<processes, nextIdentity, started, exits>>
    BY <1>3 DEF HandleFork
  <2> HIDE DEF c
  <2>u. /\ UNCHANGED <<at, stop, group, parent, call, blurred, odd, snapshots, rootEnded>>
        /\ Registered' = Registered /\ lost' \subseteq AllCategories
    BY <1>u, <2>1 DEF Threaded, Registered, Identities, Lose, TypeOK
  <2>b. /\ at[c] \notin {"unborn", "untraced"} /\ parent[c] = cur
        /\ group[c] \in {c, group[cur]} /\ c \notin Registered
    BY <1>a, <1>y DEF StopInv, RegisteredInv, Forked, Stopped, c
  <2>f. ASSUME NEW u \in Tids, Forked(u)'
        PROVE  Forked(u) /\ u # cur /\ stop[u].child # c
    BY <2>f, <2>u, <2>b, <2>1, <1>a DEF Forked, Stopped, StopInv
  <2>2. TypeOK' /\ TypesInv'
    BY <2>1, <2>u, <1>a DEF TypeOK, TypesInv, Identities
  <2>3. GroupInv' /\ StopInv'
    BY <2>1, <2>u, <2>b, <1>y DEF GroupInv, StopInv, Stopped
  <2>4. RegisteredInv'
    BY <2>1, <2>u, <2>b, <2>f, <1>a, <1>y DEF RegisteredInv, TypesInv, Settled
  <2>5. RootInv'
    BY <2>1, <2>u, <1>a DEF RootInv
  <2>6. QuietInv'
    BY <2>1, <2>u, <2>b, <2>f, <1>a, <1>y
    DEF QuietInv, Quiet, Forked, Stopped, Unheard, Present, c
  <2> QED
    BY <2>2, <2>3, <2>4, <2>5, <2>6 DEF TraceInv
<1> QED
  BY <1>1, <1>2, <1>3

\* A child for which there is no room is let go.
LEMMA DetachKeeps ==
  ASSUME TraceInv, Detach
  PROVE  TraceInv'
<1>i. TypeOK /\ TypesInv /\ GroupInv /\ StopInv /\ RegisteredInv /\ RootInv /\ QuietInv
  BY DEF TraceInv
<1> USE <1>i
<1>y. /\ at \in [Tids -> States] /\ stop \in [Tids -> Stops \cup {None}]
      /\ group \in [Tids -> Tids] /\ cur \in Tids /\ DOMAIN processes \subseteq Tids
  BY DEF TypeOK, TypesInv
<1>1. CASE pc' = "terminate"
  <2>1. at[cur] = "dead" /\ UNCHANGED <<at, stop, call, cur>> /\ pc = "detach"
    BY <1>1 DEF Detach
  <2>2. ~Quiet
    BY <2>1 DEF QuietInv, Unheard
  <2> QED
    BY <1>1, <2>1, <2>2, FailKeeps DEF Detach, sinkVars, Threaded
<1>2. CASE pc' # "terminate"
  <2>a. pc = "detach" /\ pc' = "resume" /\ cur' = parent[cur] /\ Reportable(cur)
    BY <1>2 DEF Detach
  <2>u. /\ UNCHANGED <<group, parent, blurred, odd, tableVars, started, exits, lost>>
        /\ Registered' = Registered
    BY DEF Detach, sinkVars, Registered, Identities
  <2>c. /\ at' \in [Tids -> States] /\ stop' \in [Tids -> Stops \cup {None}] /\ DOMAIN call' = DOMAIN call
        /\ \A x \in Tids : /\ x # cur => at'[x] = at[x] /\ stop'[x] = stop[x] /\ call'[x] = call[x]
        /\ at'[cur] = IF at[cur] = "stopped" THEN "untraced" ELSE "dead"
        /\ stop'[cur] = None
    BY <1>2, <1>y DEF Detach, States, TypesInv
  <2>b. /\ parent[cur] \in Tids /\ at[cur] \in {"stopped", "zombie"} /\ cur \notin Registered
        /\ group[cur] \in {cur, group[parent[cur]]}
    BY <2>a DEF StopInv, RegisteredInv, Reportable
  <2>f. ASSUME NEW u \in Tids, Forked(u)'
        PROVE  Forked(u) /\ u # cur /\ stop'[u] = stop[u] /\ stop[u].child # cur
    BY <2>f, <2>a, <2>c DEF Forked, Stopped, RegisteredInv
  <2>1. TypeOK'
    BY <2>b, <2>c, <2>u, <1>y DEF TypeOK, tableVars, Identities
  <2>2. TypesInv'
    BY <2>a, <2>b, <2>c, <2>u DEF TypesInv, tableVars
  <2>3. GroupInv'
    BY <2>b, <2>c, <2>u, <1>y, TidsAssumption DEF GroupInv
  <2>4. StopInv'
    BY <2>a, <2>b, <2>c, <2>u, <1>y, StopFacts DEF StopInv, Stopped
  <2>5. RegisteredInv'
    <3>1. ASSUME NEW k \in Registered, Settled(k)
          PROVE  Settled(k)'
      BY <3>1, <2>b, <2>c, <2>u, <1>y DEF Settled, TypesInv
    <3> QED
      BY <3>1, <2>a, <2>b, <2>c, <2>f, <2>u, <1>y, StopFacts DEF RegisteredInv, TypesInv, tableVars, Forked, Stopped
  <2>6. RootInv'
    BY <2>a, <2>u DEF RootInv, tableVars
  <2>7. QuietInv'
    <3> SUFFICES ASSUME Quiet'
                 PROVE  QuietInv'
      BY DEF QuietInv
    <3>q. Quiet
      BY <2>u DEF Quiet
    <3>1. /\ at[parent[cur]] = "told" /\ Stopped(parent[cur], "fork") /\ Unheard(cur)
      BY <3>q, <2>a DEF QuietInv
    <3>2. at'[parent[cur]] = "told" /\ stop'[parent[cur]] = stop[parent[cur]]
      BY <3>1, <2>b, <2>c
    <3>3. ASSUME NEW u \in Tids, Forked(u)'
          PROVE  Unheard(stop[u].child)'
      <4>1. Unheard(stop[u].child) /\ stop[u].child # cur /\ stop[u].child \in Tids
        BY <3>q, <3>3, <2>f, <1>y, StopFacts DEF QuietInv, Forked, Stopped
      <4> QED
        BY <4>1, <3>3, <2>c, <2>f, <2>u DEF Unheard, tableVars
    <3>4. ASSUME NEW u \in DOMAIN processes
          PROVE  Present(u)'
      <4>1. Present(u) /\ u # cur /\ group[u] # cur /\ u \in Tids /\ group[u] \in Tids
        BY <3>q, <3>1, <1>y DEF QuietInv, Unheard
      <4>2. stop[parent[cur]].kind = "fork"
        BY <3>1 DEF Stopped
      <4> QED
        BY <4>1, <4>2, <2>a, <2>c, <2>u DEF Present
    <3> QED
      BY <3>q, <3>2, <3>3, <3>4, <2>a, <2>u DEF QuietInv, tableVars
  <2> QED
    BY <2>1, <2>2, <2>3, <2>4, <2>5, <2>6, <2>7 DEF TraceInv
<1> QED
  BY <1>1, <1>2

\* The first thread of a process takes over what the one whose place it takes
\* had in the table.
LEMMA HandleExecKeeps ==
  ASSUME TraceInv, HandleExec
  PROVE  TraceInv'
<1> DEFINE f == stop[cur].former
<1>i. TypeOK /\ TypesInv /\ GroupInv /\ StopInv /\ RegisteredInv /\ RootInv /\ QuietInv
  BY DEF TraceInv
<1> USE <1>i
<1>y. /\ at \in [Tids -> States] /\ stop \in [Tids -> Stops \cup {None}]
      /\ group \in [Tids -> Tids] /\ cur \in Tids /\ DOMAIN processes \subseteq Tids
  BY DEF TypeOK, TypesInv
<1>a. pc = "handle" /\ at[cur] = "told" /\ stop[cur] # None /\ stop[cur].kind = "exec" /\ f \in Tids
  BY <1>y, StopFacts DEF HandleExec, Answered, Handles, TypeOK
<1>b. group[f] = group[cur] /\ cur \in {f, group[cur]} /\ (cur # f => at[f] = "dead")
  BY <1>a, <1>y DEF StopInv, Stopped
<1>u. /\ UNCHANGED <<at, stop, group, parent, call, blurred, odd, cur, nextIdentity, snapshots,
                     rootEnded, started, lost>>
      /\ Registered' = Registered
  BY DEF HandleExec, commandVars, Registered, Identities
<1>q. Quiet => cur \in DOMAIN processes
  BY <1>a DEF QuietInv
<1>1. CASE {cur, f} \cap DOMAIN processes = {}
  <2>1. pc' = "terminate" /\ UNCHANGED <<Threaded, cur, tableVars, started, exits, lost>>
    BY <1>1 DEF HandleExec, commandVars, tableVars, Threaded
  <2> QED
    BY <1>1, <1>a, <1>q, <2>1, FailKeeps
<1>2. CASE {cur, f} \cap DOMAIN processes # {}
  <2> DEFINE known == Reconciled(cur, f)
  <2>a. pc' = "resume" /\ RecordExec(cur, f)
    BY <1>2 DEF HandleExec
  <2>r. /\ processes' = [known EXCEPT ![cur].state = Child(@)]
        /\ DOMAIN exits' = DOMAIN exits
    BY <2>a DEF RecordExec
  <2>k. \/ known = processes /\ cur \in DOMAIN processes /\ (cur # f => f \notin DOMAIN processes)
        \/ /\ known = Without(processes, {f}) /\ cur \in DOMAIN processes /\ cur # f
        \/ /\ known = With(Without(processes, {f}), cur, processes[f])
           /\ f \in DOMAIN processes /\ cur \notin DOMAIN processes /\ cur # f
    BY <1>2 DEF Reconciled
  <2> HIDE DEF known
  <2>d. /\ cur \in DOMAIN known /\ DOMAIN known = (DOMAIN processes \cup {cur}) \ ({f} \ {cur})
        /\ \A x \in DOMAIN known \ {cur} : known[x] = processes[x]
        /\ known[cur] = processes[cur] \/ (known[cur] = processes[f] /\ cur \notin DOMAIN processes)
    BY <2>k DEF With, Without
  <2>o. \E o \in DOMAIN processes : known[cur] = processes[o] /\ o \notin DOMAIN known \ {cur}
    <3>1. CASE cur \in DOMAIN processes
      BY <3>1, <2>d
    <3>2. CASE cur \notin DOMAIN processes
      <4>1. f \in DOMAIN processes /\ known[cur] = processes[f] /\ cur # f
        BY <3>2, <2>k DEF With
      <4>2. f \notin DOMAIN known \ {cur}
        BY <4>1, <2>d
      <4> QED
        BY <4>1, <4>2
    <3> QED
      BY <3>1, <3>2
  <2>p. /\ DOMAIN processes' = (DOMAIN processes \cup {cur}) \ ({f} \ {cur})
        /\ \A x \in DOMAIN processes' \ {cur} : processes'[x] = processes[x]
    BY <2>d, <2>r
  <2>c. PICK o \in DOMAIN processes : known[cur] = processes[o] /\ o \notin DOMAIN known \ {cur}
    BY <2>o
  <2>e. /\ processes[o] = [identity |-> processes[o].identity, state |-> processes[o].state]
        /\ processes'[cur] = [identity |-> processes[o].identity, state |-> Child(processes[o].state)]
    BY <2>c, <2>d, <2>r DEF TypesInv
  <2>s. \A s : Decoded(Child(s))
    BY DEF Decoded, NoCalls, Child
  <2>1. TypeOK'
    <3>1. \A x, y \in DOMAIN processes' : processes'[x].identity = processes'[y].identity => x = y
      BY <2>c, <2>d, <2>e, <2>p DEF TypeOK
    <3>2. \A x \in DOMAIN processes' : processes'[x].identity \in Identities
      BY <2>c, <2>e, <2>p DEF TypeOK
    <3>3. Identities' = Identities
      BY <1>u DEF Identities
    <3> QED
      BY <3>1, <3>2, <3>3, <2>p, <2>r, <1>a, <1>u, <1>y DEF TypeOK
  <2>2. TypesInv'
    BY <2>e, <2>p, <2>s, <1>u DEF TypesInv
  <2>3. GroupInv' /\ StopInv'
    BY <2>a, <1>u DEF GroupInv, StopInv, Stopped
  <2>4. RegisteredInv'
    <3>1. f # cur => Settled(f)
      BY <1>b DEF Settled
    <3>2. \A k : Settled(k)' <=> Settled(k)
      BY <1>u DEF Settled
    <3>3. ASSUME NEW u \in Tids, Forked(u)'
          PROVE  Forked(u)
      BY <3>3, <2>a, <1>u DEF Forked, Stopped
    <3>4. \A k \in Registered : k \in DOMAIN processes' \/ Settled(k)'
      BY <3>1, <3>2, <2>p, <1>a DEF RegisteredInv
    <3> QED
      BY <3>3, <3>4, <2>a, <1>u DEF RegisteredInv
  <2>5. RootInv'
    <3>1. f # cur => f # Root
      BY <1>b DEF GroupInv
    <3> QED
      BY <3>1, <2>a, <2>p, <1>a, <1>u DEF RootInv
  <2>6. QuietInv'
    <3> SUFFICES ASSUME Quiet'
                 PROVE  QuietInv'
      BY DEF QuietInv
    <3>q. Quiet /\ cur \in DOMAIN processes
      BY <1>q, <1>u DEF Quiet
    <3>p. DOMAIN processes' = DOMAIN processes \ ({f} \ {cur})
      BY <3>q, <2>p
    <3>1. ASSUME NEW u \in Tids, Forked(u)'
          PROVE  Unheard(stop[u].child)'
      <4>1. Forked(u)
        BY <3>1, <2>a, <1>u DEF Forked, Stopped
      <4> QED
        BY <4>1, <3>q, <3>p, <1>u DEF QuietInv, Unheard
    <3>2. ASSUME NEW u \in DOMAIN processes'
          PROVE  Present(u)'
      <4>1. u \in DOMAIN processes /\ Present(u) /\ (f # cur => u # f)
        BY <3>q, <3>p DEF QuietInv
      <4>2. at[u] = "dead" => u # f
        BY <4>1, <1>a
      <4>3. at[u] = "dead" /\ stop[group[u]] = [kind |-> "exec", former |-> u] => cur # group[u]
        BY <4>2
      <4> QED
        BY <4>1, <4>3, <1>u DEF Present
    <3> QED
      BY <3>q, <3>1, <3>2, <2>a, <1>a, <1>u DEF QuietInv
  <2> QED
    BY <2>1, <2>2, <2>3, <2>4, <2>5, <2>6 DEF TraceInv
<1> QED
  BY <1>1, <1>2

\* The root process is registered, the first of all.
LEMMA BeginKeeps ==
  ASSUME TraceInv, Begin
  PROVE  TraceInv'
<1>i. TypeOK /\ TypesInv /\ GroupInv /\ StopInv /\ RegisteredInv /\ RootInv /\ QuietInv
  BY DEF TraceInv
<1> USE <1>i
<1>y. /\ at \in [Tids -> States] /\ stop \in [Tids -> Stops \cup {None}]
      /\ group \in [Tids -> Tids] /\ cur \in Tids /\ Root \in Tids
  BY TidsAssumption DEF TypeOK, TypesInv
<1>a. /\ pc = "start" /\ DOMAIN processes = {} /\ nextIdentity = 1
      /\ \A t \in Tids \ {Root} : at[t] = "unborn" /\ stop[t] = None
  BY DEF Begin, RootInv, GroupInv
<1>r. Registered = {} /\ Identities = {}
  BY <1>a DEF Registered, TypeOK
<1>u. UNCHANGED <<group, parent, call, blurred, odd, cur, snapshots, rootEnded, lost>>
  BY DEF Begin
<1>1. CASE at[Root] = "zombie"
  <2>a. /\ pc' = "terminate"
        /\ UNCHANGED <<stop, processes, nextIdentity, started, exits>>
        /\ Registered' = {} /\ Identities' = {}
    BY <1>1, <1>r DEF Begin, Registered, Identities
  <2>c. at' \in [Tids -> States] /\ \A x \in Tids : at'[x] = IF x = Root THEN "dead" ELSE at[x]
    BY <1>1, <1>y DEF Begin, States
  <2>1. TypeOK' /\ TypesInv'
    BY <1>a, <1>r, <1>u, <1>y, <2>a, <2>c DEF TypeOK, TypesInv
  <2>2. GroupInv' /\ StopInv'
    BY <1>1, <1>a, <1>u, <1>y, <2>a, <2>c, StopFacts DEF GroupInv, StopInv, Stopped
  <2>3. RegisteredInv'
    BY <1>1, <1>a, <1>u, <1>y, <2>a, <2>c DEF RegisteredInv, Forked, Stopped
  <2>4. RootInv' /\ QuietInv'
    BY <1>1, <1>a, <1>u, <2>a DEF RootInv, QuietInv, Quiet
  <2> QED
    BY <2>1, <2>2, <2>3, <2>4 DEF TraceInv
<1>2. CASE at[Root] # "zombie"
  <2>a. pc' = "wait" /\ Start(Root, None, NoCalls, {"start", "exec"})
    BY <1>2 DEF Begin
  <2>c. /\ at' \in [Tids -> States] /\ stop' \in [Tids -> Stops \cup {None}]
        /\ \A x \in Tids : /\ at'[x] = IF x = Root THEN "running" ELSE at[x]
                           /\ stop'[x] = None
    BY <1>2, <1>a, <1>y DEF Begin, States
  <2>s. /\ nextIdentity' \in Nat \ {0} /\ Identities' = 1 .. nextIdentity' - 1
        /\ DOMAIN exits' = Identities'
        /\ DOMAIN processes' = {Root}
        /\ \A x \in DOMAIN processes' :
             /\ processes'[x] = [identity |-> processes'[x].identity, state |-> processes'[x].state]
             /\ Decoded(processes'[x].state)
        /\ \A x, y \in DOMAIN processes' :
             processes'[x].identity = processes'[y].identity => x = y
        /\ {processes'[x].identity : x \in DOMAIN processes'} \subseteq Identities'
        /\ Registered' = {Root}
    <3>1. Decoded(NoCalls)
      BY DEF Decoded, NoCalls
    <3> QED
      BY <3>1, <1>a, <1>r, <1>y, <2>a, StartFacts
  <2>1. TypeOK' /\ TypesInv'
    BY <1>a, <1>u, <1>y, <2>c, <2>s DEF TypeOK, TypesInv
  <2>2. GroupInv' /\ StopInv'
    BY <1>a, <1>u, <1>y, <2>a, <2>c DEF GroupInv, StopInv, Stopped
  <2>3. RegisteredInv'
    BY <1>a, <1>u, <1>y, <2>a, <2>c, <2>s DEF RegisteredInv, Forked, Stopped
  <2>4. RootInv'
    BY <2>a, <2>s DEF RootInv
  <2>5. QuietInv'
    BY <1>a, <1>u, <1>y, <2>a, <2>c, <2>s DEF QuietInv, Forked, Stopped, Present
  <2> QED
    BY <2>1, <2>2, <2>3, <2>4, <2>5 DEF TraceInv
<1> QED
  BY <1>1, <1>2

\* What the collector gives up it kills, and so are the processes of all that
\* are in the table.
LEMMA TerminateKeeps ==
  ASSUME TraceInv, Terminate
  PROVE  TraceInv'
<1> DEFINE Of == {Threads(group[t]) : t \in DOMAIN processes}
           S == UNION Of
<1>i. TypeOK /\ TypesInv /\ GroupInv /\ StopInv /\ RegisteredInv /\ RootInv /\ QuietInv
  BY DEF TraceInv
<1> USE <1>i
<1>y. /\ at \in [Tids -> States] /\ stop \in [Tids -> Stops \cup {None}]
      /\ group \in [Tids -> Tids] /\ cur \in Tids /\ Root \in Tids /\ DOMAIN processes \subseteq Tids
  BY TidsAssumption DEF TypeOK, TypesInv
<1>a. pc = "terminate" /\ pc' = "reap" /\ Killed(S)
  BY DEF Terminate
<1>u. /\ UNCHANGED <<group, parent, stop, blurred, cur, tableVars, started, exits, lost>>
      /\ Registered' = Registered
  BY DEF Terminate, sinkVars, Registered, Identities
<1>s. /\ S \subseteq Tids /\ \A t \in S : at[t] \notin {"unborn", "dead", "zombie"}
      /\ \A k \in DOMAIN processes : \A t \in Tids :
           group[t] = group[k] => t \in S \/ at[t] \in {"unborn", "zombie", "dead"}
  <2>1. ASSUME NEW k \in DOMAIN processes, NEW t \in Tids, group[t] = group[k],
               at[t] \notin {"unborn", "zombie", "dead"}
        PROVE  t \in S
    <3>1. t \in Threads(group[k]) /\ Threads(group[k]) \in Of
      BY <2>1 DEF Threads, Alive, Ended
    <3> HIDE DEF Of
    <3> QED
      BY <3>1
  <2>2. ASSUME NEW t \in S
        PROVE  t \in Tids /\ at[t] \notin {"unborn", "dead", "zombie"}
    <3>1. \A T \in Of : \A x \in T : x \in Tids /\ at[x] \notin {"unborn", "dead", "zombie"}
      BY DEF Threads, Alive, Ended
    <3> HIDE DEF Of
    <3> QED
      BY <3>1, <2>2
  <2> HIDE DEF S
  <2> QED
    BY <2>1, <2>2
<1> HIDE DEF S, Of
<1>c. /\ at' \in [Tids -> States]
      /\ \A t \in Tids : at'[t] = IF t \notin S THEN at[t]
                                 ELSE IF at[t] = "untraced" THEN "dead" ELSE "zombie"
      /\ DOMAIN call' = Tids /\ \A t \in Tids : call'[t] = None \/ call'[t] = call[t]
      /\ odd \subseteq odd'
  BY <1>a, <1>y DEF Killed, States
<1>1. TypeOK' /\ TypesInv'
  BY <1>c, <1>s, <1>u, <1>y DEF TypeOK, TypesInv, tableVars, Identities
<1>2. GroupInv'
  BY <1>c, <1>s, <1>u, <1>y DEF GroupInv
<1>3. StopInv'
  BY <1>a, <1>c, <1>s, <1>u, <1>y, StopFacts DEF StopInv, Stopped
<1>4. RegisteredInv'
  <2>1. ASSUME NEW u \in Tids, Forked(u)'
        PROVE  /\ Forked(u) /\ stop'[u] = stop[u] /\ stop[u].child \in Tids
    BY <2>1, <1>a, <1>c, <1>u, <1>y, StopFacts DEF Forked, Stopped
  <2>2. ASSUME NEW k \in Registered
        PROVE  Over(k)'
    <3>1. k \in Tids /\ at[k] \notin {"unborn", "untraced"} /\ (k \in DOMAIN processes \/ Settled(k))
      BY <1>a DEF RegisteredInv, TypesInv
    <3>2. CASE k \in DOMAIN processes
      <4>1. at'[k] \in {"zombie", "dead"}
        BY <3>1, <3>2, <1>c, <1>s
      <4>2. ASSUME k = group[k], NEW t \in Tids, group[t] = k
            PROVE  at'[t] \in {"zombie", "dead"}
        <5>1. at[t] # "unborn"
          BY <4>2, <3>1 DEF GroupInv
        <5> QED
          BY <5>1, <4>2, <3>2, <1>c, <1>s
      <4> QED
        BY <4>1, <4>2, <1>u DEF Over
    <3>3. CASE Settled(k)
      BY <3>1, <3>3, <1>c, <1>s, <1>u DEF Settled, Over
    <3> QED
      BY <3>1, <3>2, <3>3
  <2> QED
    BY <2>1, <2>2, <1>a, <1>c, <1>u DEF RegisteredInv, TypesInv
<1>5. RootInv'
  BY <1>a DEF RootInv
<1>6. QuietInv'
  BY <1>a, <1>c, <1>u DEF QuietInv, Quiet
<1> QED
  BY <1>1, <1>2, <1>3, <1>4, <1>5, <1>6 DEF TraceInv

LEMMA ReapKeeps ==
  ASSUME TraceInv, NEW t \in Tids, Reap(t)
  PROVE  TraceInv'
<1>i. TypeOK /\ TypesInv /\ GroupInv /\ StopInv /\ RegisteredInv /\ RootInv /\ QuietInv
  BY DEF TraceInv
<1> USE <1>i
<1>y. /\ at \in [Tids -> States] /\ stop \in [Tids -> Stops \cup {None}]
      /\ group \in [Tids -> Tids] /\ cur \in Tids /\ Root \in Tids
  BY TidsAssumption DEF TypeOK, TypesInv
<1>a. pc = "reap" /\ pc' = "reap"
  BY DEF Reap
<1>u. /\ UNCHANGED <<group, parent, stop, blurred, cur, nextIdentity, snapshots, rootEnded, started,
                     exits, lost>>
      /\ Registered' = Registered
  BY DEF Reap, sinkVars, Registered, Identities
<1>1. CASE at[t] = "zombie"
  <2>1. /\ UNCHANGED <<call, odd>> /\ processes' = Without(processes, {t})
    BY <1>1 DEF Reap
  <2>c. at' \in [Tids -> States] /\ \A x \in Tids : at'[x] = IF x = t THEN "dead" ELSE at[x]
    BY <1>1, <1>y DEF Reap, States
  <2>p. /\ DOMAIN processes' = DOMAIN processes \ {t}
        /\ \A x \in DOMAIN processes' : processes'[x] = processes[x]
    BY <2>1 DEF Without
  <2>2. TypeOK'
    <3>1. Identities' = Identities
      BY <1>u DEF Identities
    <3>2. {processes'[x].identity : x \in DOMAIN processes'} \subseteq Identities
      BY <2>p DEF TypeOK
    <3> QED
      BY <3>1, <3>2, <1>1, <1>u, <2>c, <2>p DEF TypeOK
  <2>3. TypesInv'
    BY <1>u, <2>1, <2>p DEF TypesInv
  <2>g. GroupInv'
    BY <1>1, <1>u, <1>y, <2>c DEF GroupInv
  <2>4. StopInv'
    BY <1>1, <1>a, <1>u, <1>y, <2>1, <2>c, StopFacts DEF StopInv, Stopped
  <2>5. RegisteredInv'
    BY <1>1, <1>a, <1>u, <1>y, <2>c, StopFacts DEF RegisteredInv, Forked, Stopped, Over, TypesInv
  <2>6. RootInv' /\ QuietInv'
    BY <1>a, <1>u, <2>1 DEF RootInv, QuietInv, Quiet
  <2> QED
    BY <2>2, <2>3, <2>g, <2>4, <2>5, <2>6 DEF TraceInv
<1>2. CASE at[t] # "zombie"
  <2>1. Killed(Threads(group[t])) /\ UNCHANGED <<processes, deltas, noted>>
    BY <1>2 DEF Reap, sinkVars
  <2>2. Threads(group[t]) \in SUBSET Tids /\ \A x \in Threads(group[t]) : at[x] \notin {"unborn", "dead"}
    BY DEF Threads, Alive, Ended
  <2> QED
    BY <2>1, <2>2, <1>a, <1>u, KilledKeeps DEF tableVars, sinkVars
<1> QED
  BY <1>1, <1>2

-----------------------------------------------------------------------------
(* Theorems. *)

LEMMA InitTrace == Init => TraceInv
<1> SUFFICES ASSUME Init
             PROVE  TraceInv
  OBVIOUS
<1>y. Root \in Tids /\ [kind |-> "initial"] \in Stops /\ [kind |-> "initial"] # None
  BY TidsAssumption, StopFacts
<1>a. /\ at \in [Tids -> States] /\ stop \in [Tids -> Stops \cup {None}]
      /\ \A t \in Tids : /\ at[t] = IF t = Root THEN "stopped" ELSE "unborn"
                         /\ stop[t] = IF t = Root THEN [kind |-> "initial"] ELSE None
                         /\ group[t] = t
      /\ group \in [Tids -> Tids] /\ DOMAIN parent = Tids /\ DOMAIN call = Tids
  BY <1>y DEF Init, States
<1>b. /\ pc = "start" /\ cur = Root /\ nextIdentity = 1 /\ lost = {} /\ rootEnded = FALSE
      /\ DOMAIN processes = {} /\ DOMAIN snapshots = {} /\ DOMAIN started = {} /\ DOMAIN exits = {}
  BY DEF Init
<1>c. Cardinality(DOMAIN snapshots) = 0 /\ Identities = {} /\ Registered = {}
  BY <1>b, FS_EmptySet DEF Identities, Registered
<1>1. TypeOK
  BY <1>a, <1>b, <1>c, <1>y, SnapshotsAssumption DEF TypeOK
<1>2. TypesInv /\ GroupInv /\ RootInv
  BY <1>a, <1>b, <1>c, <1>y DEF TypesInv, GroupInv, RootInv
<1>3. StopInv
  BY <1>a, <1>b DEF StopInv, Stopped
<1>4. RegisteredInv
  BY <1>a, <1>b, <1>c DEF RegisteredInv, Forked, Stopped
<1>5. QuietInv
  BY <1>a, <1>b, <1>y DEF QuietInv, Forked, Stopped
<1> QED
  BY <1>1, <1>2, <1>3, <1>4, <1>5 DEF TraceInv

LEMMA StutterKeeps ==
  ASSUME TraceInv, UNCHANGED vars
  PROVE  TraceInv'
<1> USE DEF TraceInv, vars, commandVars, tableVars, sinkVars
<1>1. TypeOK' /\ TypesInv' /\ GroupInv' /\ RootInv'
  BY DEF TypeOK, TypesInv, GroupInv, RootInv, Identities, Registered
<1>2. StopInv' /\ RegisteredInv'
  BY DEF StopInv, RegisteredInv, Registered, Identities, Forked, Stopped, Settled, Over
<1>3. QuietInv'
  BY DEF QuietInv, Quiet, Forked, Stopped, Unheard, Present
<1> QED
  BY <1>1, <1>2, <1>3

LEMMA CollectKeeps ==
  ASSUME TraceInv, Collect
  PROVE  TraceInv'
<1>1. \A t \in Tids : (WaitStop(t) \/ WaitExit(t) \/ Reap(t)) => TraceInv'
  BY WaitStopKeeps, WaitExitKeeps, ReapKeeps
<1>2. Begin \/ WaitFails \/ Resume \/ Refused \/ Detach \/ Finish \/ Terminate \/ GiveUp => TraceInv'
  BY BeginKeeps, WaitFailsKeeps, ResumeKeeps, RefusedKeeps, DetachKeeps, FinishKeeps,
     TerminateKeeps, GiveUpKeeps
<1>3. HandleInitial \/ HandleFork \/ HandleExec \/ HandleUnknown \/ HandleEntry \/ HandleExit
        => TraceInv'
  BY HandleInitialKeeps, HandleForkKeeps, HandleExecKeeps, HandleUnknownKeeps, HandleEntryKeeps,
     HandleExitKeeps
<1> QED
  BY <1>1, <1>2, <1>3 DEF Collect

LEMMA TraceHolds == Spec => []TraceInv
<1>1. TraceInv /\ [Next]_vars => TraceInv'
  BY CommandKeeps, CollectKeeps, StutterKeeps DEF Next, AtRest
<1> QED
  BY <1>1, InitTrace, PTL DEF Spec

\* The tables of the collector are well formed at every step of every command:
\* no identity is given twice or to two threads of the table, none is there of a
\* thread that was never made, no more file states are kept than the limit.
THEOREM TypeCorrect == Spec => []TypeOK
<1>1. TraceInv => TypeOK
  BY DEF TraceInv
<1> QED
  BY <1>1, TraceHolds, PTL

\* A collection fails only when a thread was killed while it was stopped or was
\* ahead of the fork that made it, and when it has failed no thread that was
\* ever given an identity can run: terminate_tracees leaves nothing behind.
THEOREM FailureContained == Spec => []FailureIsContained
<1>1. TraceInv => FailureIsContained
  <2> SUFFICES ASSUME TraceInv
               PROVE  FailureIsContained
    OBVIOUS
  <2>1. pc \in {"terminate", "reap", "failed"} => "killed" \in odd \/ "early" \in blurred
    BY DEF TraceInv, QuietInv, Quiet
  <2>2. pc = "failed" => \A i \in Identities : at[started[i].thread] \in {"zombie", "dead"}
    BY DEF TraceInv, RegisteredInv, Registered, Over
  <2> QED
    BY <2>1, <2>2 DEF FailureIsContained
<1> QED
  BY <1>1, TraceHolds, PTL

-----------------------------------------------------------------------------
(* What is made of a call. *)

\* What network calls tell is of sockets.
LEMMA NetworkFacts ==
  ASSUME NEW s, s.network # None, Decoded(s), NEW n, NEW r, NEW seen
  PROVE  LET e == FinishNetwork(n, s.network, r, seen)
         IN  /\ e = [state |-> e.state, facts |-> e.facts, lost |-> e.lost]
             /\ \A f \in e.facts : f[1] \in SocketOperations
<1> DEFINE c == s.network
           Fine(e) == /\ e = [state |-> e.state, facts |-> e.facts, lost |-> e.lost]
                      /\ \A f \in e.facts : f[1] \in SocketOperations
<1>1. c.op \in {"socket", "bind", "connect", "listen", "close", "dup",
                "send", "write", "receive", "read"}
  BY DEF Decoded
<1>2. ASSUME NEW m, NEW facts, \A f \in facts : f[1] \in SocketOperations
      PROVE  Fine(Tells(m, facts))
  BY <1>2 DEF Tells
<1>3. \A m : Fine(Known(m)) /\ Fine(LosesCall(m))
  BY <1>2 DEF Known, LosesCall, Tells
<1>4. \A m, fd, endpoint : \A op \in SocketOperations :
        \A f \in Fact(m, fd, op, endpoint) : f[1] \in SocketOperations
  BY DEF Fact
<1> HIDE DEF Fine, c
<1>5. Fine(FinishSocket(n, c, r)) /\ Fine(FinishDuplicate(n, c, r))
  BY <1>3 DEF FinishSocket, FinishDuplicate, Keep
<1>6. c.op \in {"bind", "connect"} => Fine(Named(n, c, seen))
  BY <1>2, <1>4 DEF Named, SocketOperations
<1>7. Fine(Listening(n, c, seen))
  BY <1>2, <1>4 DEF Listening, SocketOperations
<1>8. \A op \in {"send", "receive"} : \A f \in Datagram(n, c, op) : f[1] \in SocketOperations
  BY <1>4 DEF Datagram, SocketOperations
<1>9. Fine(FinishSend(n, c))
  BY <1>2, <1>3, <1>8 DEF FinishSend
<1>10. Fine(FinishReceive(n, c))
  <2>1. ASSUME NEW Q
        PROVE  \A f \in {<<"dns", <<q[2], c.dns.address>>>> : q \in Q} : f[1] \in SocketOperations
    BY DEF SocketOperations
  <2> QED
    BY <1>2, <1>8, <2>1 DEF FinishReceive
<1>11. Fine(FinishNetwork(n, c, r, seen))
  BY <1>1, <1>3, <1>5, <1>6, <1>7, <1>9, <1>10 DEF FinishNetwork
<1> QED
  BY <1>11 DEF Fine, c

\* After a call its use of files is told, and else only uses of sockets.
LEMMA ExitFacts ==
  ASSUME NEW s, NEW w, NEW r, NEW visible, Decoded(s)
  PROVE  /\ FileFacts(s, r) \subseteq Exited(s, w, r, visible).facts
         /\ \A f \in Exited(s, w, r, visible).facts :
              f \in FileFacts(s, r) \/ f[1] \in SocketOperations
<1> DEFINE Fine(e) == /\ e = [state |-> e.state, facts |-> e.facts, lost |-> e.lost]
                      /\ \A f \in e.facts : f[1] \in SocketOperations
<1>1. Fine(Known(Child(s)))
  BY DEF Known, Tells
<1>2. s.network # None => \A seen : Fine(FinishNetwork(Child(s), s.network, r, seen))
  BY NetworkFacts
<1>3. \E e : Fine(e) /\ Exited(s, w, r, visible) = [e EXCEPT !.facts = @ \cup FileFacts(s, r)]
  <2> HIDE DEF Fine
  <2> QED
    BY <1>1, <1>2 DEF Exited
<1> QED
  BY <1>3

\* What a call does is a use of a file or of a socket, by its process.
LEMMA DoTells ==
  ASSUME NEW g, NEW c, NEW r, WellFormed(c), Do(g, c, r)
  PROVE  /\ happened \subseteq happened'
         /\ \A h \in happened' \ happened :
              h = <<g, h[2], h[3]>> /\ h[2] \in FileOperations \cup SocketOperations \cup {"accept"}
<1> DEFINE Operations == FileOperations \cup SocketOperations \cup {"accept"}
           Goal == /\ happened \subseteq happened'
                   /\ \A h \in happened' \ happened : h = <<g, h[2], h[3]>> /\ h[2] \in Operations
<1>1. ASSUME NEW facts, Happen(g, facts), \A f \in facts : f[1] \in Operations
      PROVE  Goal
  BY <1>1 DEF Happen
<1>2. \A operation \in Operations : \A endpoint, fd :
        HappenAt(g, fd, operation, endpoint) => Goal
  BY <1>1 DEF HappenAt
<1>3. UNCHANGED happened => Goal
  OBVIOUS
<1>4. \A operation \in Operations : \A x : \A f \in {<<operation, x>>} : f[1] \in Operations
  OBVIOUS
<1>o. /\ {"open", "truncate", "create", "read", "write", "unlink", "rename", "link", "symlink", "bind",
          "connect", "listen", "send", "receive", "dns", "accept"} \subseteq Operations
  BY DEF FileOperations, SocketOperations
<1> HIDE DEF Goal, Operations
<1>5. DoOpen(g, c, r) => Goal
  <2>1. ASSUME DoOpen(g, c, r)
        PROVE  \A f \in OpenFacts(c.flags, Target(g, c.path)) : f[1] \in Operations
    BY <2>1, <1>o DEF DoOpen, OpenFacts, WellFormed
  <2> QED
    BY <2>1, <1>1 DEF DoOpen
<1>6. DoAccess(g, c, r) => Goal
  <2>1. ASSUME DoAccess(g, c, r), NEW x
        PROVE  \A f \in {<<operation, x>> : operation \in c.operations} : f[1] \in Operations
    BY <2>1, <1>o DEF DoAccess, WellFormed
  <2> QED
    BY <2>1, <1>1, <1>3 DEF DoAccess
<1>7. DoPath(g, c, r) => Goal
  BY <1>1, <1>4, <1>o DEF DoPath, WellFormed
<1>8. DoPair(g, c, r) => Goal
  BY <1>1, <1>4, <1>o DEF DoPair, WellFormed
<1>9. DoAddress(g, c, r) => Goal
  <2>1. ASSUME NEW transport, NEW endpoints
        PROVE  \A f \in {<<"bind", <<transport, endpoint>>>> : endpoint \in endpoints} : f[1] \in Operations
    BY <1>o
  <2> QED
    BY <2>1, <1>1, <1>2, <1>o DEF DoAddress
<1>10. DoTransfer(g, c, r) => Goal
  <2>1. ASSUME NEW operation \in {"send", "receive"}, NEW x, NEW Q, NEW y,
               NEW answers, answers \in {{}, {<<"dns", <<q[2], y>>>> : q \in Q}}
        PROVE  \A f \in {<<operation, x>>} \cup answers : f[1] \in Operations
    BY <2>1, <1>o
  <2> QED
    BY <2>1, <1>1, <1>o DEF DoTransfer
<1>11. DoAccept(g, c, r) => Goal
  BY <1>2, <1>o DEF DoAccept
<1>12. (\/ DoClose(g, c, r) \/ DoDuplicate(g, c, r) \/ DoPipe(g, c, r) \/ DoChangeDirectory(g, c, r)
        \/ DoSocket(g, c, r) \/ DoName(g, c, r)) => Goal
  BY <1>3, <1>1 DEF DoClose, DoDuplicate, DoPipe, DoChangeDirectory, DoSocket, DoName
<1>13. Goal
  BY <1>5, <1>6, <1>7, <1>8, <1>9, <1>10, <1>11, <1>12 DEF Do
<1> QED
  BY <1>13 DEF Goal, Operations

-----------------------------------------------------------------------------
(* What happened, and what is told of it. *)

\* Nothing has happened that may keep a thread from the tables.
Intact == Quiet /\ "processes" \notin lost

\* A thread has executed a program and the collector has not handled it.
Executed(t) == Stopped(t, "exec") /\ (at[t] = "stopped" \/ (t = cur /\ pc = "handle"))

ExecNotes == {n \in noted : n[2] = "exec"}
ExecsDone == {h \in happened : h[2] = "exec"}

\* An identity has an entry in the table, or has ended once.
CountedInv ==
  pc \notin {"reap", "failed"} => \A i \in Identities :
    exits[i] = IF \E t \in DOMAIN processes : processes[t].identity = i THEN 0 ELSE 1

\* Who forked whom: in any set of threads one was forked by none of them.
TreeInv ==
  /\ \A c \in Born \ {Root} : parent[c] \in Born
  /\ \A S \in SUBSET (Born \ {Root}) : S # {} => \E c \in S : parent[c] \notin S

\* An identity is one thread's, and tells its parent's.
NamesInv ==
  /\ \A i, j \in Identities : started[i].thread = started[j].thread => i = j
  /\ Quiet => \A t \in DOMAIN processes : started[processes[t].identity].thread = t
  /\ Quiet => \A i \in Identities :
       IF started[i].thread = Root THEN started[i].parent = None
       ELSE /\ started[i].parent \in Identities
            /\ started[started[i].parent].thread = parent[started[i].thread]

\* A thread was given an identity, or the one that forked it waits to tell.
HeardInv ==
  /\ pc = "detach" => "processes" \in lost
  /\ pc = "done" => DOMAIN processes = {}
  /\ Intact => \A c \in Born :
       \/ c \in Registered
       \/ c = Root /\ pc = "start"
       \/ \E t \in Tids : Forked(t) /\ stop[t].child = c

\* What is told of execs is so; an exec is told, or its stop is still to be handled.
ExecInv ==
  /\ <<Root, "exec", <<>>>> \in ExecsDone
  /\ \A t \in Tids : Stopped(t, "exec") /\ at[t] \in {"stopped", "told"} =>
       group[t] = t /\ <<t, "exec", <<>>>> \in ExecsDone
  /\ Quiet => \A n \in ExecNotes :
       n[1] \in Identities /\ n[3] = <<>> /\ <<GroupOf(n[1]), "exec", <<>>>> \in ExecsDone
  /\ Intact => \A h \in ExecsDone :
       /\ h = <<h[1], "exec", <<>>>> /\ h[1] \in Born
       /\ \/ \E n \in ExecNotes : GroupOf(n[1]) = h[1]
          \/ Executed(h[1])
          \/ pc = "start" /\ h[1] = Root

\* A thread has stopped before a call.
Entering(t) == Stopped(t, "entry") /\ at[t] \in {"stopped", "told"}

\* What is remembered of a call is a use of files.
OfFiles(s) == s.file # None => \A f \in s.file.facts : f[1] \in FileOperations
CallsInv ==
  /\ "alphabet" \in DOMAIN left /\ \A c \in left.alphabet : WellFormed(c)
  /\ \A t \in Tids : call[t] # None \/ Entering(t) =>
       /\ call[t] = [about |-> call[t].about, result |-> call[t].result]
       /\ WellFormed(call[t].about)
  /\ \A t \in DOMAIN processes : OfFiles(processes[t].state)

HistoryInv == CountedInv /\ TreeInv /\ NamesInv /\ HeardInv /\ ExecInv

-----------------------------------------------------------------------------
\* Identities and ends are as before.
LEMMA StepKeepsCounted ==
  ASSUME CountedInv, UNCHANGED <<started, exits>>,
         pc \in {"reap", "failed"} => pc' \in {"reap", "failed"},
         pc' \notin {"reap", "failed"} =>
           /\ DOMAIN processes' = DOMAIN processes
           /\ \A t \in DOMAIN processes : processes'[t].identity = processes[t].identity
  PROVE  CountedInv'
<1> SUFFICES ASSUME pc' \notin {"reap", "failed"}
             PROVE  CountedInv'
  BY DEF CountedInv
<1> QED
  BY DEF CountedInv, Identities

\* A step that gives no thread an identity and tells of no exec.
LEMMA StepKeepsHistory ==
  ASSUME TraceInv, TraceInv', HistoryInv, CountedInv',
         Born' = Born, UNCHANGED <<group, parent, started, ExecNotes, ExecsDone>>,
         pc' \notin {"reap", "failed"} =>
           \A t \in DOMAIN processes' :
             t \in DOMAIN processes /\ processes'[t].identity = processes[t].identity,
         Quiet' => Quiet, lost \subseteq lost',
         Intact' => (pc' = "start" <=> pc = "start"),
         pc' = "detach" => pc = "detach" \/ "processes" \in lost',
         pc' = "done" => DOMAIN processes = {},
         \A t \in Tids : Intact' /\ Forked(t) => Forked(t)' /\ stop'[t] = stop[t],
         \A t \in Tids : Intact' /\ Executed(t) => Executed(t)',
         \A t \in Tids : (Stopped(t, "exec") /\ at[t] \in {"stopped", "told"})' =>
                         Stopped(t, "exec") /\ at[t] \in {"stopped", "told"}
  PROVE  HistoryInv'
<1> USE DEF HistoryInv
<1>2. TreeInv'
  BY DEF TreeInv
<1>q. Quiet' => \A t \in DOMAIN processes' :
                  t \in DOMAIN processes /\ processes'[t].identity = processes[t].identity
  BY DEF TraceInv, QuietInv
<1>3. NamesInv'
  BY <1>q DEF NamesInv, Identities
<1>4. HeardInv'
  <2>1. Registered' = Registered
    BY DEF Registered, Identities
  <2>2. (pc = "detach" => "processes" \in lost) /\ (pc = "done" => DOMAIN processes = {})
    BY DEF HeardInv
  <2>3. ASSUME Intact', NEW c \in Born'
        PROVE  \/ c \in Registered'
               \/ c = Root /\ pc' = "start"
               \/ \E t \in Tids : Forked(t)' /\ stop'[t].child = c
    BY <2>1, <2>3 DEF HeardInv, Intact
  <2>4. pc' = "detach" => "processes" \in lost'
    BY <2>2
  <2>5. pc' = "done" => DOMAIN processes' = {}
    BY <2>2
  <2> QED
    BY <2>3, <2>4, <2>5 DEF HeardInv
<1>5. ExecInv'
  <2>1. Born \subseteq Tids
    BY DEF Born
  <2>2. \A i : GroupOf(i)' = GroupOf(i)
    BY DEF GroupOf
  <2> QED
    BY <2>1, <2>2 DEF ExecInv, Identities, Intact
<1> QED
  BY <1>2, <1>3, <1>4, <1>5

\* A step that takes no new call in hand, or one of the command.
LEMMA StepKeepsCalls ==
  ASSUME TraceInv, CallsInv, left'.alphabet = left.alphabet, "alphabet" \in DOMAIN left',
         \A t \in Tids : \/ call'[t] \in {None, call[t]} /\ (Entering(t)' => Entering(t) /\ call'[t] = call[t])
                         \/ \E c, r : call'[t] = [about |-> c, result |-> r] /\ WellFormed(c),
         \A t \in DOMAIN processes' :
           \/ t \in DOMAIN processes /\ processes'[t].state = processes[t].state
           \/ OfFiles(processes'[t].state)
  PROVE  CallsInv'
<1>1. ASSUME NEW t \in Tids, call'[t] # None \/ Entering(t)'
      PROVE  /\ call'[t] = [about |-> call'[t].about, result |-> call'[t].result]
             /\ WellFormed(call'[t].about)
  <2>1. CASE call'[t] = call[t] /\ (Entering(t)' => Entering(t))
    BY <1>1, <2>1 DEF CallsInv
  <2>2. CASE ~(call'[t] = call[t] /\ (Entering(t)' => Entering(t)))
    <3>1. PICK c, r : call'[t] = [about |-> c, result |-> r] /\ WellFormed(c)
      BY <1>1, <2>2
    <3> QED
      BY <3>1
  <2> QED
    BY <2>1, <2>2
<1>3. \A t \in DOMAIN processes' : OfFiles(processes'[t].state)
  BY DEF CallsInv
<1> QED
  BY <1>1, <1>3 DEF CallsInv, WellFormed, OfFiles

\* What remains of a scenario are its calls.
LEMMA LeftKeeps ==
  ASSUME NEW x, "alphabet" \in DOMAIN left,
         \E field \in {"calls", "forks", "threads", "execs", "kills"} :
           left' = [left EXCEPT ![field] = x]
  PROVE  left'.alphabet = left.alphabet /\ "alphabet" \in DOMAIN left'
OBVIOUS

ToldInv == HistoryInv /\ CallsInv

\* A step of the command that makes no thread and executes nothing.
LEMMA CommandStepTold ==
  ASSUME TraceInv, TraceInv', ToldInv, CallsInv', Born' = Born, Quiet' => Quiet,
         UNCHANGED <<group, parent, ExecsDone, pc, cur, tableVars, sinkVars>>,
         \A t \in Tids : Quiet' /\ Forked(t) => Forked(t)' /\ stop'[t] = stop[t],
         \A t \in Tids : Quiet' /\ Executed(t) => Executed(t)',
         \A t \in Tids : (Stopped(t, "exec") /\ at[t] \in {"stopped", "told"})' =>
                         Stopped(t, "exec") /\ at[t] \in {"stopped", "told"}
  PROVE  ToldInv'
<1>1. pc' = "done" => DOMAIN processes = {}
  BY DEF ToldInv, HistoryInv, HeardInv
<1>2. UNCHANGED <<processes, started, exits, noted, lost, ExecNotes>>
  BY DEF tableVars, sinkVars, ExecNotes
<1>3. CountedInv'
  BY <1>2, StepKeepsCounted DEF ToldInv, HistoryInv
<1>4. HistoryInv'
  BY <1>1, <1>2, <1>3, StepKeepsHistory DEF ToldInv, Intact
<1> QED
  BY <1>4 DEF ToldInv

LEMMA EnterCallTold ==
  ASSUME TraceInv, TraceInv', ToldInv, NEW t \in Tids, NEW c \in left.alphabet, EnterCall(t, c),
         UNCHANGED <<pc, cur, tableVars, sinkVars>>
  PROVE  ToldInv'
<1>y. at \in [Tids -> States] /\ stop \in [Tids -> Stops \cup {None}] /\ DOMAIN call = Tids
  BY DEF TraceInv, TypeOK, TypesInv
<1>a. at[t] = "running" /\ stop[t] = None
  BY DEF EnterCall, Free
<1>c. \A x \in Tids : /\ at'[x] = IF x = t THEN "stopped" ELSE at[x]
                      /\ stop'[x] = IF x = t THEN [kind |-> "entry"] ELSE stop[x]
                      /\ call'[x] = IF x = t THEN [about |-> c, result |-> None] ELSE call[x]
  BY <1>y DEF EnterCall
<1>1. CallsInv'
  <2>1. left'.alphabet = left.alphabet /\ "alphabet" \in DOMAIN left'
    BY LeftKeeps DEF ToldInv, CallsInv, EnterCall
  <2>2. WellFormed(c)
    BY DEF ToldInv, CallsInv
  <2> QED
    BY <2>1, <2>2, <1>c, StepKeepsCalls DEF ToldInv, tableVars, Entering, Stopped
<1>2. Born' = Born /\ UNCHANGED <<group, parent, ExecsDone>> /\ (Quiet' => Quiet)
  BY <1>a, <1>c DEF EnterCall, Born, ExecsDone, effects, Quiet
<1>3. /\ \A u \in Tids : Forked(u) => Forked(u)' /\ stop'[u] = stop[u]
      /\ \A u \in Tids : Executed(u) => Executed(u)'
      /\ \A u \in Tids : (Stopped(u, "exec") /\ at[u] \in {"stopped", "told"})' =>
                         Stopped(u, "exec") /\ at[u] \in {"stopped", "told"}
  BY <1>a, <1>c DEF Forked, Executed, Stopped
<1> QED
  BY <1>1, <1>2, <1>3, CommandStepTold

LEMMA ReturnFromCallTold ==
  ASSUME TraceInv, TraceInv', ToldInv, NEW t \in Tids, ReturnFromCall(t),
         UNCHANGED <<pc, cur, tableVars, sinkVars>>
  PROVE  ToldInv'
<1>y. at \in [Tids -> States] /\ stop \in [Tids -> Stops \cup {None}] /\ DOMAIN call = Tids
  BY DEF TraceInv, TypeOK, TypesInv
<1>a. /\ at[t] = "running" /\ stop[t] = None
      /\ call[t] = [about |-> call[t].about, result |-> call[t].result] /\ WellFormed(call[t].about)
  BY DEF ReturnFromCall, TraceInv, StopInv, ToldInv, CallsInv
<1>r. PICK r : /\ Do(group[t], call[t].about, r) \/ DoNothing
               /\ call' = [call EXCEPT ![t].result = r]
  BY DEF ReturnFromCall
<1>c. \A x \in Tids : /\ at'[x] = IF x = t THEN "stopped" ELSE at[x]
                      /\ stop'[x] = IF x = t THEN [kind |-> "exit"] ELSE stop[x]
                      /\ call'[x] = IF x = t THEN [about |-> call[t].about, result |-> r] ELSE call[x]
  BY <1>y, <1>a, <1>r DEF ReturnFromCall
<1>1. CallsInv'
  <2>1. left'.alphabet = left.alphabet /\ "alphabet" \in DOMAIN left'
    BY DEF ToldInv, CallsInv, ReturnFromCall
  <2> QED
    BY <2>1, <1>a, <1>c, StepKeepsCalls DEF ToldInv, tableVars, Entering, Stopped
<1>2. UNCHANGED ExecsDone
  <2>1. CASE DoNothing
    BY <2>1 DEF DoNothing, ExecsDone
  <2>2. CASE Do(group[t], call[t].about, r)
    <3>1. /\ happened \subseteq happened'
          /\ \A h \in happened' \ happened : h[2] \in FileOperations \cup SocketOperations \cup {"accept"}
      BY <2>2, <1>a, DoTells
    <3>2. "exec" \notin FileOperations \cup SocketOperations \cup {"accept"}
      BY DEF FileOperations, SocketOperations
    <3> QED
      BY <3>1, <3>2 DEF ExecsDone
  <2> QED
    BY <2>1, <2>2, <1>r
<1>3. odd \subseteq odd' /\ blurred \subseteq blurred'
  BY <1>r, OddGrows DEF DoNothing, ReturnFromCall
<1>4. Born' = Born /\ UNCHANGED <<group, parent>> /\ (Quiet' => Quiet)
  BY <1>3, <1>a, <1>c DEF ReturnFromCall, Born, Quiet
<1>5. /\ \A u \in Tids : Forked(u) => Forked(u)' /\ stop'[u] = stop[u]
      /\ \A u \in Tids : Executed(u) => Executed(u)'
      /\ \A u \in Tids : (Stopped(u, "exec") /\ at[u] \in {"stopped", "told"})' =>
                         Stopped(u, "exec") /\ at[u] \in {"stopped", "told"}
  BY <1>a, <1>c DEF Forked, Executed, Stopped
<1> QED
  BY <1>1, <1>2, <1>4, <1>5, CommandStepTold

\* What is forked or executed in a stop is lost only by a kill.
LEMMA KillProcessTold ==
  ASSUME TraceInv, TraceInv', ToldInv, NEW g \in Tids, KillProcess(g),
         UNCHANGED <<pc, cur, tableVars, sinkVars>>
  PROVE  ToldInv'
<1> DEFINE S == Threads(g)
<1>y. at \in [Tids -> States] /\ DOMAIN call = Tids
  BY DEF TraceInv, TypeOK, TypesInv
<1>s. S \subseteq Tids /\ \A x \in S : at[x] \notin {"unborn", "dead", "zombie"}
  BY DEF Threads, Alive, Ended
<1>u. /\ Killed(S) /\ UNCHANGED <<group, parent, stop, effects, blurred>>
      /\ left' = [left EXCEPT !.kills = left.kills - 1]
  BY DEF KillProcess
<1> HIDE DEF S
<1>c. /\ \A x \in Tids : /\ at'[x] = IF x \notin S THEN at[x]
                                       ELSE IF at[x] = "untraced" THEN "dead" ELSE "zombie"
                         /\ call'[x] = IF x \in S THEN None ELSE call[x]
      /\ Quiet' => Quiet /\ \A x \in S : at[x] \notin {"stopped", "told"}
  BY <1>u DEF Killed, Quiet
<1>1. CallsInv'
  <2>1. left'.alphabet = left.alphabet /\ "alphabet" \in DOMAIN left'
    BY <1>u, LeftKeeps DEF ToldInv, CallsInv
  <2> QED
    BY <2>1, <1>c, <1>u, StepKeepsCalls DEF ToldInv, tableVars, Entering, Stopped
<1>2. Born' = Born /\ UNCHANGED ExecsDone
  BY <1>s, <1>c, <1>u DEF Born, ExecsDone, effects
<1>3. Quiet' => \A u \in Tids : at[u] \in {"stopped", "told"} => at'[u] = at[u]
  BY <1>c
<1>4. pc = "handle" /\ Quiet' => at[cur] = "told"
  BY <1>c DEF TraceInv, QuietInv
<1>5. /\ \A u \in Tids : Quiet' /\ Forked(u) => Forked(u)' /\ stop'[u] = stop[u]
      /\ \A u \in Tids : Quiet' /\ Executed(u) => Executed(u)'
  BY <1>3, <1>4, <1>u DEF Forked, Executed, Stopped
<1>6. \A u \in Tids : (Stopped(u, "exec") /\ at[u] \in {"stopped", "told"})' =>
                         Stopped(u, "exec") /\ at[u] \in {"stopped", "told"}
  BY <1>c, <1>u DEF Stopped
<1> QED
  BY <1>1, <1>2, <1>5, <1>6, <1>c, <1>u, CommandStepTold

LEMMA ExecTold ==
  ASSUME TraceInv, TraceInv', ToldInv, NEW t \in Tids, Exec(t),
         UNCHANGED <<pc, cur, tableVars, sinkVars>>
  PROVE  ToldInv'
<1> DEFINE S == Threads(group[t]) \ {t}
<1>y. at \in [Tids -> States] /\ stop \in [Tids -> Stops \cup {None}] /\ DOMAIN call = Tids
  BY DEF TraceInv, TypeOK, TypesInv
<1>s. S \subseteq Tids /\ t \notin S /\ \A x \in S : at[x] \notin {"unborn", "dead", "zombie"}
  BY DEF Threads, Alive, Ended
<1>u. /\ Killed(S) /\ UNCHANGED <<group, parent, effects, blurred>>
      /\ left' = [left EXCEPT !.execs = left.execs - 1]
      /\ at[t] = "running" /\ stop[t] = None
  BY DEF Exec, Free
<1> HIDE DEF S
<1>c. /\ \A x \in Tids : /\ at'[x] = IF x \notin S THEN at[x]
                                       ELSE IF at[x] = "untraced" THEN "dead" ELSE "zombie"
                         /\ stop'[x] = IF x = t THEN [kind |-> "exec", former |-> t] ELSE stop[x]
                         /\ call'[x] = IF x \in S THEN None ELSE call[x]
      /\ Quiet' => Quiet /\ \A x \in S : at[x] \notin {"stopped", "told"}
  BY <1>u, <1>y DEF Killed, Quiet, Exec
<1>1. CallsInv'
  <2>1. left'.alphabet = left.alphabet /\ "alphabet" \in DOMAIN left'
    BY <1>u, LeftKeeps DEF ToldInv, CallsInv
  <2> QED
    BY <2>1, <1>c, <1>u, StepKeepsCalls DEF ToldInv, tableVars, Entering, Stopped
<1>2. Born' = Born /\ UNCHANGED ExecsDone
  BY <1>s, <1>c, <1>u DEF Born, ExecsDone, effects
<1>3. Quiet' => \A u \in Tids : at[u] \in {"stopped", "told"} =>
                  at'[u] = at[u] /\ stop'[u] = stop[u]
  BY <1>c, <1>u
<1>4. pc = "handle" /\ Quiet' => at[cur] = "told"
  BY <1>c DEF TraceInv, QuietInv
<1>5. /\ \A u \in Tids : Quiet' /\ Forked(u) => Forked(u)' /\ stop'[u] = stop[u]
      /\ \A u \in Tids : Quiet' /\ Executed(u) => Executed(u)'
  BY <1>3, <1>4 DEF Forked, Executed, Stopped
<1>6. \A u \in Tids : (Stopped(u, "exec") /\ at[u] \in {"stopped", "told"})' =>
                         Stopped(u, "exec") /\ at[u] \in {"stopped", "told"}
  BY <1>c, <1>s, <1>u DEF Stopped
<1> QED
  BY <1>1, <1>2, <1>5, <1>6, <1>c, <1>u, CommandStepTold

LEMMA ExitTold ==
  ASSUME TraceInv, TraceInv', ToldInv, NEW t \in Tids, Exit(t),
         UNCHANGED <<pc, cur, tableVars, sinkVars>>
  PROVE  ToldInv'
<1>y. at \in [Tids -> States]
  BY DEF TraceInv, TypeOK
<1>u. /\ UNCHANGED <<group, parent, stop, call, left, effects, blurred, odd>>
      /\ at[t] \in {"running", "untraced"} /\ stop[t] = None
      /\ \A x \in Tids : at'[x] = IF x # t THEN at[x]
                                   ELSE IF at[t] = "running" THEN "zombie" ELSE "dead"
  BY <1>y DEF Exit
<1>1. CallsInv'
  BY <1>u, StepKeepsCalls DEF ToldInv, CallsInv, tableVars, Entering, Stopped
<1>2. Born' = Born /\ UNCHANGED ExecsDone /\ (Quiet' => Quiet)
  BY <1>u DEF Born, ExecsDone, effects, Quiet
<1>3. /\ \A u \in Tids : Forked(u) => Forked(u)' /\ stop'[u] = stop[u]
      /\ \A u \in Tids : Executed(u) => Executed(u)'
      /\ \A u \in Tids : (Stopped(u, "exec") /\ at[u] \in {"stopped", "told"})' =>
                         Stopped(u, "exec") /\ at[u] \in {"stopped", "told"}
  BY <1>u DEF Forked, Executed, Stopped
<1> QED
  BY <1>1, <1>2, <1>3, <1>u, CommandStepTold

LEMMA ForkTold ==
  ASSUME TraceInv, TraceInv', ToldInv, NEW t \in Tids, NEW c \in Tids, NEW thread \in BOOLEAN,
         Fork(t, c, thread), UNCHANGED <<pc, cur, tableVars, sinkVars>>
  PROVE  ToldInv'
<1> USE DEF ToldInv, HistoryInv
<1>y. /\ at \in [Tids -> States] /\ stop \in [Tids -> Stops \cup {None}]
      /\ group \in [Tids -> Tids] /\ DOMAIN parent = Tids
  BY DEF TraceInv, TypeOK, TypesInv
<1>a. /\ at[t] = "running" /\ stop[t] = None /\ at[c] = "unborn" /\ stop[c] = None /\ t # c
      /\ c \notin Registered /\ c # Root
  BY DEF Fork, Free, TraceInv, GroupInv, RegisteredInv
<1>c. \A x \in Tids :
        /\ at'[x] = IF x \in {t, c} THEN "stopped" ELSE at[x]
        /\ stop'[x] = IF x = c THEN [kind |-> "initial"]
                      ELSE IF x = t THEN [kind |-> "fork", child |-> c] ELSE stop[x]
        /\ parent'[x] = IF x = c THEN t ELSE parent[x]
        /\ x # c => group'[x] = group[x]
  BY <1>a, <1>y DEF Fork
<1>u. /\ UNCHANGED <<call, happened, blurred, odd, pc, cur, processes, started, exits, noted, lost>>
      /\ \E field \in {"forks", "threads"} : left' = [left EXCEPT ![field] = left[field] - 1]
  BY DEF Fork, tableVars, sinkVars
<1>i. /\ Identities' = Identities /\ Registered' = Registered
      /\ \A i \in Identities : started[i].thread \in Tids \ {c}
  BY <1>a, <1>u DEF Identities, Registered, TraceInv, TypesInv
<1>b. Born' = Born \cup {c} /\ t \in Born /\ c \notin Born /\ Born \subseteq Tids
  BY <1>a, <1>c DEF Born
<1>f. [kind |-> "fork", child |-> c] # None /\ [kind |-> "initial"] # None
  BY StopFacts
<1>1. CallsInv'
  <2>1. left'.alphabet = left.alphabet /\ "alphabet" \in DOMAIN left'
    BY <1>u, LeftKeeps DEF CallsInv
  <2> QED
    BY <2>1, <1>c, <1>u, StepKeepsCalls DEF Entering, Stopped
<1>2. CountedInv'
  BY <1>i, <1>u DEF CountedInv
<1>3. TreeInv'
  <2>1. \A d \in Born \ {Root} : parent'[d] = parent[d] /\ parent[d] \in Born
    BY <1>b, <1>c DEF TreeInv
  <2>2. ASSUME NEW S \in SUBSET (Born' \ {Root}), S # {}
        PROVE  \E d \in S : parent'[d] \notin S
    <3>1. CASE S \ {c} = {}
      BY <3>1, <2>2, <1>a, <1>c
    <3>2. CASE S \ {c} # {}
      <4>1. PICK d \in S \ {c} : parent[d] \notin S \ {c}
        BY <3>2, <1>b DEF TreeInv
      <4>2. parent'[d] = parent[d] /\ parent[d] # c
        BY <4>1, <2>1, <1>b
      <4> QED
        BY <4>1, <4>2
    <3> QED
      BY <3>1, <3>2
  <2> QED
    BY <2>1, <2>2, <1>b, <1>c DEF TreeInv
<1>4. NamesInv'
  BY <1>c, <1>i, <1>u DEF NamesInv, Quiet
<1>5. HeardInv'
  <2>1. ASSUME NEW u \in Tids, Forked(u)
        PROVE  Forked(u)' /\ stop'[u] = stop[u]
    BY <2>1, <1>a, <1>c, <1>u DEF Forked, Stopped
  <2>2. Forked(t)' /\ stop'[t].child = c
    BY <1>a, <1>c, <1>f DEF Forked, Stopped
  <2>3. (pc = "detach" => "processes" \in lost) /\ (pc = "done" => DOMAIN processes = {})
    BY DEF HeardInv
  <2>4. ASSUME Intact', NEW d \in Born'
        PROVE  \/ d \in Registered'
               \/ d = Root /\ pc' = "start"
               \/ \E u \in Tids : Forked(u)' /\ stop'[u].child = d
    <3>1. CASE d = c
      BY <3>1, <2>2
    <3>2. CASE d # c
      <4>1. d \in Born /\ Intact
        BY <2>4, <3>2, <1>b, <1>u DEF Intact, Quiet
      <4> QED
        BY <4>1, <2>1, <1>i, <1>u DEF HeardInv
    <3> QED
      BY <3>1, <3>2
  <2> QED
    BY <2>3, <2>4, <1>u DEF HeardInv
<1>6. ExecInv'
  <2>1. \A i \in Identities : GroupOf(i)' = GroupOf(i)
    BY <1>c, <1>i, <1>u DEF GroupOf
  <2>2. ExecNotes' = ExecNotes /\ ExecsDone' = ExecsDone /\ (Quiet' <=> Quiet)
    BY <1>u DEF ExecNotes, ExecsDone, Quiet
  <2>3. \A u \in Tids : Executed(u) => Executed(u)'
    BY <1>a, <1>c, <1>u DEF Executed, Stopped
  <2>4. ASSUME NEW u \in Tids, (Stopped(u, "exec") /\ at[u] \in {"stopped", "told"})'
        PROVE  group'[u] = u /\ <<u, "exec", <<>>>> \in ExecsDone
    <3>1. u \notin {t, c} /\ stop'[u] = stop[u] /\ at'[u] = at[u] /\ group'[u] = group[u]
      BY <2>4, <1>a, <1>c DEF Stopped
    <3> QED
      BY <2>4, <3>1 DEF ExecInv, Stopped
  <2>5. ASSUME Quiet', NEW n \in ExecNotes
        PROVE  n[1] \in Identities' /\ n[3] = <<>> /\ <<GroupOf(n[1])', "exec", <<>>>> \in ExecsDone'
    BY <2>1, <2>2, <2>5, <1>i DEF ExecInv
  <2>6. ASSUME Intact', NEW h \in ExecsDone
        PROVE  /\ h = <<h[1], "exec", <<>>>> /\ h[1] \in Born'
               /\ \/ \E n \in ExecNotes' : GroupOf(n[1])' = h[1]
                  \/ Executed(h[1])'
                  \/ pc' = "start" /\ h[1] = Root
    <3>1. /\ h = <<h[1], "exec", <<>>>> /\ h[1] \in Born
          /\ \/ \E n \in ExecNotes : GroupOf(n[1]) = h[1] /\ n[1] \in Identities
             \/ Executed(h[1])
             \/ pc = "start" /\ h[1] = Root
      BY <2>2, <2>6, <1>u DEF ExecInv, Intact
    <3> QED
      BY <3>1, <2>1, <2>2, <2>3, <1>b, <1>u
  <2> QED
    BY <2>2, <2>4, <2>5, <2>6 DEF ExecInv
<1> QED
  BY <1>1, <1>2, <1>3, <1>4, <1>5, <1>6

\* The first thread of a process stops to tell of an exec.
LEMMA ExecDoneTold ==
  ASSUME TraceInv, TraceInv', ToldInv, NEW t \in Tids, ExecDone(t),
         UNCHANGED <<pc, cur, tableVars, sinkVars>>
  PROVE  ToldInv'
<1> USE DEF ToldInv, HistoryInv
<1>g. PICK g \in Tids : g = group[t]
  BY DEF TraceInv, TypesInv
<1>y. /\ at \in [Tids -> States] /\ stop \in [Tids -> Stops \cup {None}]
      /\ group \in [Tids -> Tids]
  BY DEF TraceInv, TypeOK, TypesInv
<1>a. /\ at[t] = "running" /\ stop[t] = [kind |-> "exec", former |-> t] /\ stop[t] # None
      /\ cur = g => pc \notin {"handle", "resume"}
      /\ group[g] = g /\ at[g] # "unborn" /\ (g # t => at[g] \in {"zombie", "dead"})
  BY <1>g, <1>y, StopFacts DEF ExecDone, TraceInv, StopInv, GroupInv
<1>c. /\ \A x \in Tids : /\ at'[x] = IF x = g THEN "stopped" ELSE IF x = t THEN "dead" ELSE at[x]
                         /\ stop'[x] = IF x = g THEN stop[t] ELSE IF x = t THEN None ELSE stop[x]
      /\ happened' = happened \cup {<<g, "exec", <<>>>>}
  BY <1>g, <1>y DEF ExecDone
<1>u. UNCHANGED <<group, parent, call, left, blurred, odd, pc, cur, processes, started, exits, noted, lost>>
  BY DEF ExecDone, tableVars, sinkVars
<1>1. CallsInv'
  BY <1>a, <1>c, <1>u, StepKeepsCalls DEF CallsInv, Entering, Stopped
<1>i. /\ Identities' = Identities /\ Registered' = Registered /\ (Quiet' <=> Quiet)
      /\ Born' = Born /\ g \in Born
      /\ \A i : GroupOf(i)' = GroupOf(i)
  BY <1>a, <1>c, <1>u, <1>y DEF Identities, Registered, Quiet, Born, GroupOf
<1>2. CountedInv' /\ TreeInv' /\ NamesInv'
  BY <1>i, <1>u DEF CountedInv, TreeInv, NamesInv
<1>f. ASSUME NEW u \in Tids, Forked(u)
      PROVE  Forked(u)' /\ stop'[u] = stop[u]
  BY <1>f, <1>a, <1>c, <1>u DEF Forked, Stopped
<1>3. HeardInv'
  BY <1>f, <1>i, <1>u DEF HeardInv, Intact
<1>4. ExecInv'
  <2>1. ExecNotes' = ExecNotes /\ ExecsDone' = ExecsDone \cup {<<g, "exec", <<>>>>}
    BY <1>c, <1>u DEF ExecNotes, ExecsDone
  <2>2. Executed(g)'
    BY <1>a, <1>c, <1>y DEF Executed, Stopped
  <2>3. ASSUME Intact, NEW u \in Tids, Executed(u)
        PROVE  Executed(u)'
    <3>1. u = t => t = g
      BY <2>3, <1>a DEF Executed, TraceInv, QuietInv, Intact
    <3> QED
      BY <3>1, <2>2, <2>3, <1>c, <1>u DEF Executed, Stopped
  <2>4. ASSUME NEW u \in Tids, (Stopped(u, "exec") /\ at[u] \in {"stopped", "told"})'
        PROVE  group'[u] = u /\ <<u, "exec", <<>>>> \in ExecsDone'
    <3>1. CASE u = g
      BY <3>1, <2>1, <1>a, <1>u
    <3>2. CASE u # g
      <4>1. Stopped(u, "exec") /\ at[u] \in {"stopped", "told"}
        BY <3>2, <2>4, <1>c DEF Stopped
      <4> QED
        BY <4>1, <2>1, <1>u DEF ExecInv
    <3> QED
      BY <3>1, <3>2
  <2>5. ASSUME Intact', NEW h \in ExecsDone'
        PROVE  /\ h = <<h[1], "exec", <<>>>> /\ h[1] \in Born'
               /\ \/ \E n \in ExecNotes' : GroupOf(n[1])' = h[1]
                  \/ Executed(h[1])'
                  \/ pc' = "start" /\ h[1] = Root
    <3>1. CASE h \in ExecsDone
      BY <3>1, <2>1, <2>3, <2>5, <1>i, <1>u DEF ExecInv, Born, Intact
    <3>2. CASE h = <<g, "exec", <<>>>>
      BY <3>2, <2>2, <1>i
    <3> QED
      BY <3>1, <3>2, <2>1, <2>5
  <2> QED
    BY <2>1, <2>4, <2>5, <1>i DEF ExecInv, Intact
<1> QED
  BY <1>1, <1>2, <1>3, <1>4

\* A step of the collector that gives no thread an identity and ends none.
LEMMA CollectorStepTold ==
  ASSUME TraceInv, TraceInv', ToldInv,
         UNCHANGED <<group, parent, left, happened, started, exits, ExecNotes>>,
         Born' = Born, odd \subseteq odd', blurred \subseteq blurred', lost \subseteq lost',
         Intact' => (pc' = "start" <=> pc = "start"), pc' = "detach" => "processes" \in lost',
         pc' = "done" => DOMAIN processes = {},
         pc \in {"reap", "failed"} => pc' \in {"reap", "failed"},
         pc' \notin {"reap", "failed"} => DOMAIN processes' = DOMAIN processes,
         \A t \in DOMAIN processes' :
           /\ t \in DOMAIN processes /\ processes'[t].identity = processes[t].identity
           /\ processes'[t].state = processes[t].state \/ OfFiles(processes'[t].state),
         \A t \in Tids : /\ call'[t] \in {None, call[t]}
                         /\ Entering(t)' => Entering(t) /\ call'[t] = call[t],
         \A t \in Tids : Intact' /\ Forked(t) => Forked(t)' /\ stop'[t] = stop[t],
         \A t \in Tids : Intact' /\ Executed(t) => Executed(t)',
         \A t \in Tids : (Stopped(t, "exec") /\ at[t] \in {"stopped", "told"})' =>
                         Stopped(t, "exec") /\ at[t] \in {"stopped", "told"}
  PROVE  ToldInv'
<1>1. ExecsDone' = ExecsDone /\ (Quiet' => Quiet)
  BY DEF ExecsDone, Quiet
<1>c. CountedInv'
  BY StepKeepsCounted DEF ToldInv, HistoryInv
<1>2. HistoryInv'
  BY <1>1, <1>c, StepKeepsHistory DEF ToldInv
<1>3. CallsInv'
  BY StepKeepsCalls DEF ToldInv, CallsInv
<1> QED
  BY <1>2, <1>3 DEF ToldInv

\* A step that only goes on to another place.
LEMMA GoesOnTold ==
  ASSUME TraceInv, TraceInv', ToldInv, UNCHANGED <<commandVars, cur, tableVars, started, exits, noted>>,
         pc # "start", pc' \in {"resume", "terminate", "done"}, pc' = "done" => DOMAIN processes = {},
         pc \notin {"reap", "failed"}, lost \subseteq lost',
         Intact' /\ pc = "handle" => stop[cur].kind \notin {"fork", "exec"}
  PROVE  ToldInv'
<1>1. UNCHANGED <<at, stop, call, group, parent, left, happened, odd, blurred, processes, started, exits, noted>>
  BY DEF commandVars, effects, tableVars
<1>2. Born' = Born /\ ExecNotes' = ExecNotes
  BY <1>1 DEF Born, ExecNotes
<1>3. \A t \in Tids : /\ Intact' /\ Forked(t) => Forked(t)' /\ stop'[t] = stop[t]
                      /\ Intact' /\ Executed(t) => Executed(t)'
                      /\ (Stopped(t, "exec") /\ at[t] \in {"stopped", "told"})' =>
                         Stopped(t, "exec") /\ at[t] \in {"stopped", "told"}
                      /\ Entering(t)' => Entering(t)
  BY <1>1 DEF Forked, Executed, Stopped, Entering
<1> QED
  BY <1>1, <1>2, <1>3, CollectorStepTold

LEMMA FailTold ==
  ASSUME TraceInv, TraceInv', ToldInv, WaitFails \/ Refused
  PROVE  ToldInv'
<1>1. /\ UNCHANGED <<commandVars, cur, tableVars, sinkVars>>
      /\ pc' = "terminate" /\ pc \in {"wait", "handle"}
  BY DEF WaitFails, Waiting, Refused
<1>2. ~Quiet'
  BY <1>1 DEF TraceInv, QuietInv
<1> QED
  BY <1>1, <1>2, GoesOnTold DEF sinkVars, Intact

LEMMA HandleInitialTold ==
  ASSUME TraceInv, TraceInv', ToldInv, HandleInitial
  PROVE  ToldInv'
BY GoesOnTold DEF HandleInitial, Handles, sinkVars

LEMMA HandleUnknownTold ==
  ASSUME TraceInv, TraceInv', ToldInv, HandleUnknown
  PROVE  ToldInv'
BY GoesOnTold DEF HandleUnknown, Handles, Lose

LEMMA FinishTold ==
  ASSUME TraceInv, TraceInv', ToldInv, Finish
  PROVE  ToldInv'
BY GoesOnTold DEF Finish

LEMMA WaitStopTold ==
  ASSUME TraceInv, TraceInv', ToldInv, NEW t \in Tids, WaitStop(t)
  PROVE  ToldInv'
<1>y. at \in [Tids -> States]
  BY DEF TraceInv, TypeOK
<1>a. /\ pc = "wait" /\ at[t] = "stopped" /\ pc' = "handle" /\ cur' = t
      /\ UNCHANGED <<group, parent, stop, call, left, effects, odd, tableVars, sinkVars>>
      /\ blurred \subseteq blurred'
  BY DEF WaitStop, Waiting, Early
<1>u. UNCHANGED <<happened, started, exits, processes, lost>> /\ ExecNotes' = ExecNotes
  BY <1>a DEF effects, tableVars, sinkVars, ExecNotes
<1>c. \A x \in Tids : at'[x] = IF x = t THEN "told" ELSE at[x]
  BY <1>y DEF WaitStop
<1>1. Born' = Born
  BY <1>a, <1>c DEF Born
<1>2. \A x \in Tids : /\ Forked(x) => Forked(x)' /\ stop'[x] = stop[x]
                      /\ Executed(x) => Executed(x)'
                      /\ (Stopped(x, "exec") /\ at[x] \in {"stopped", "told"})' =>
                         Stopped(x, "exec") /\ at[x] \in {"stopped", "told"}
                      /\ Entering(x)' => Entering(x)
  BY <1>a, <1>c DEF Forked, Executed, Stopped, Entering
<1> QED
  BY <1>1, <1>2, <1>a, <1>u, CollectorStepTold

LEMMA ResumeTold ==
  ASSUME TraceInv, TraceInv', ToldInv, Resume
  PROVE  ToldInv'
<1>u. /\ UNCHANGED <<group, parent, left, happened, blurred, odd, cur, started, exits, processes, lost>>
      /\ ExecNotes' = ExecNotes /\ pc = "resume" /\ pc' \in {"wait", "terminate"}
  BY DEF Resume, effects, tableVars, sinkVars, ExecNotes
<1>y. at \in [Tids -> States] /\ stop \in [Tids -> Stops \cup {None}] /\ DOMAIN call = Tids /\ cur \in Tids
  BY DEF TraceInv, TypeOK, TypesInv
<1>c. \A x \in Tids : \/ at'[x] = at[x] /\ stop'[x] = stop[x] /\ call'[x] = call[x]
                      \/ /\ x = cur /\ at[x] = "told" /\ at'[x] = "running"
                         /\ call'[x] \in {None, call[x]}
  BY <1>y DEF Resume
<1>1. Born' = Born
  BY <1>c DEF Born
<1>2. \A x \in Tids : /\ Forked(x) => Forked(x)' /\ stop'[x] = stop[x]
                      /\ Executed(x) => Executed(x)'
                      /\ (Stopped(x, "exec") /\ at[x] \in {"stopped", "told"})' =>
                         Stopped(x, "exec") /\ at[x] \in {"stopped", "told"}
  BY <1>u, <1>c DEF Forked, Executed, Stopped
<1>3. \A x \in Tids : /\ call'[x] \in {None, call[x]}
                      /\ Entering(x)' => Entering(x) /\ call'[x] = call[x]
  BY <1>c DEF Entering, Stopped
<1> QED
  BY <1>1, <1>2, <1>3, <1>u, CollectorStepTold

LEMMA DetachTold ==
  ASSUME TraceInv, TraceInv', ToldInv, Detach
  PROVE  ToldInv'
<1>u. /\ UNCHANGED <<group, parent, left, happened, blurred, odd, started, exits, processes, lost>>
      /\ ExecNotes' = ExecNotes /\ pc = "detach" /\ pc' \in {"resume", "terminate"}
  BY DEF Detach, effects, tableVars, sinkVars, ExecNotes
<1>y. at \in [Tids -> States] /\ stop \in [Tids -> Stops \cup {None}] /\ DOMAIN call = Tids /\ cur \in Tids
  BY DEF TraceInv, TypeOK, TypesInv
<1>c. \A x \in Tids : \/ at'[x] = at[x] /\ stop'[x] = stop[x] /\ call'[x] = call[x]
                      \/ /\ x = cur /\ at[x] \in {"stopped", "zombie"} /\ at'[x] \in {"untraced", "dead"}
                         /\ call'[x] \in {None, call[x]}
  BY <1>y DEF Detach, Reportable
<1>1. Born' = Born /\ ~Intact'
  BY <1>c, <1>u DEF Born, Intact, ToldInv, HistoryInv, HeardInv
<1>2. \A x \in Tids : (Stopped(x, "exec") /\ at[x] \in {"stopped", "told"})' =>
                      Stopped(x, "exec") /\ at[x] \in {"stopped", "told"}
  BY <1>c DEF Stopped
<1>3. \A x \in Tids : /\ call'[x] \in {None, call[x]}
                      /\ Entering(x)' => Entering(x) /\ call'[x] = call[x]
  BY <1>c DEF Entering, Stopped
<1> QED
  BY <1>1, <1>2, <1>3, <1>u, CollectorStepTold

\* What is decoded of a call is uses of files.
LEMMA EntryFacts ==
  ASSUME NEW s, NEW w, NEW c, WellFormed(c)
  PROVE  OfFiles(Entered(s, w, c))
<1> DEFINE Fine(p) ==
             p # None => /\ p = [facts |-> p.facts, touched |-> p.touched, requiresData |-> p.requiresData]
                         /\ \A f \in p.facts : f[1] \in FileOperations
<1>0. ASSUME NEW facts, NEW touched, \A f \in facts : f[1] \in FileOperations
      PROVE  Fine(Pending(facts, touched)) /\ Fine(None)
  <2>1. Pending(facts, touched) = [facts |-> facts, touched |-> touched, requiresData |-> FALSE]
    BY DEF Pending
  <2> QED
    BY <1>0, <2>1
<1>1. ASSUME NEW operations, operations \subseteq FileOperations, NEW path
      PROVE  Fine(OnePath(operations, path))
  <2>1. \A f \in {<<operation, <<path>>>> : operation \in operations} : f[1] \in FileOperations
    BY <1>1
  <2> HIDE DEF Fine
  <2> QED
    BY <1>0, <2>1 DEF OnePath
<1>2. ASSUME NEW operation \in FileOperations, NEW first, NEW second
      PROVE  Fine(TwoPath(operation, first, second))
  <2>1. \A f \in {<<operation, <<first, second>>>>} : f[1] \in FileOperations
    OBVIOUS
  <2> HIDE DEF Fine
  <2> QED
    BY <1>0, <2>1 DEF TwoPath
<1>3. \A path : Fine(OpenFile(w, c.flags, path))
  <2> SUFFICES ASSUME NEW path
               PROVE  Fine(OpenFile(w, c.flags, path))
    OBVIOUS
  <2>1. \E operations \in SUBSET FileOperations : \E touched :
          OpenFile(w, c.flags, path) \in
            {None, Pending({<<operation, <<path>>>> : operation \in operations}, touched)}
    BY DEF OpenFile, FileOperations
  <2>2. \A operations \in SUBSET FileOperations :
          \A fact \in {<<operation, <<path>>>> : operation \in operations} : fact[1] \in FileOperations
    OBVIOUS
  <2> HIDE DEF Fine
  <2> QED
    BY <1>0, <2>1, <2>2
<1>4. c.op \in {"read", "write", "truncate", "mmap"} => Fine(OnFile(w, c))
  <2>1. c.op \in {"read", "write", "truncate", "mmap"} =>
          Fine(OnePath(c.operations, FileAt(w, c.fd)))
    BY <1>1 DEF WellFormed, FileOperations
  <2>2. \A p, v : p # None /\ Fine(p) => Fine([p EXCEPT !.requiresData = v])
    <3> SUFFICES ASSUME NEW p, NEW v, p # None, Fine(p)
                 PROVE  Fine([p EXCEPT !.requiresData = v])
      OBVIOUS
    <3>1. [p EXCEPT !.requiresData = v] = [facts |-> p.facts, touched |-> p.touched, requiresData |-> v]
      OBVIOUS
    <3> QED
      BY <3>1
  <2> HIDE DEF Fine
  <2> QED
    BY <2>1, <2>2 DEF OnFile
<1>5. c.op = "path" => Fine(OnePath({c.operation}, PathOf(w, c.path)))
  <2>1. c.op = "path" => {c.operation} \subseteq FileOperations
    BY DEF WellFormed, FileOperations
  <2> QED
    BY <1>1, <2>1
<1>6. c.op = "pair" => \A first, second : Fine(TwoPath(c.operation, first, second))
  BY <1>2 DEF WellFormed, FileOperations
<1>7. Fine(DecodeFile(w, c))
  <2>1. Fine(None)
    OBVIOUS
  <2> HIDE DEF Fine
  <2> QED
    BY <1>3, <1>4, <1>5, <1>6, <2>1 DEF DecodeFile
<1> QED
  BY <1>7 DEF OfFiles, Entered

\* The calls before and after which a thread has stopped.
LEMMA CallStopTold ==
  ASSUME TraceInv, TraceInv', ToldInv,
         UNCHANGED <<at, stop, call, group, parent, left, happened, odd, cur, started, exits, ExecNotes>>,
         blurred \subseteq blurred', pc = "handle", pc' = "resume", stop[cur].kind \in {"entry", "exit"}, lost \subseteq lost',
         NEW state, processes' = [processes EXCEPT ![cur].state = state], OfFiles(state),
         cur \in DOMAIN processes
  PROVE  ToldInv'
<1>2. Born' = Born
  BY DEF Born
<1>3. \A t \in Tids : /\ Forked(t) => Forked(t)' /\ stop'[t] = stop[t]
                      /\ Executed(t) => Executed(t)'
                      /\ (Stopped(t, "exec") /\ at[t] \in {"stopped", "told"})' =>
                         Stopped(t, "exec") /\ at[t] \in {"stopped", "told"}
                      /\ Entering(t)' => Entering(t)
  BY DEF Forked, Executed, Stopped, Entering
<1>4. /\ DOMAIN processes' = DOMAIN processes
      /\ \A t \in DOMAIN processes :
           /\ processes'[t].identity = processes[t].identity
           /\ processes'[t].state = processes[t].state \/ OfFiles(processes'[t].state)
  <2>1. processes[cur] = [identity |-> processes[cur].identity, state |-> processes[cur].state]
    BY DEF TraceInv, TypesInv
  <2>2. processes'[cur] = [identity |-> processes[cur].identity, state |-> state]
    BY <2>1
  <2> QED
    BY <2>2
<1> QED
  BY <1>2, <1>3, <1>4, CollectorStepTold

LEMMA HandleEntryTold ==
  ASSUME TraceInv, TraceInv', ToldInv, HandleEntry
  PROVE  ToldInv'
<1>p. PICK readable \in BOOLEAN :
        /\ processes' = [processes EXCEPT ![cur].state =
                            Entered(processes[cur].state, View(cur, readable), call[cur].about)]
        /\ blurred \subseteq blurred' /\ lost \subseteq lost'
  BY DEF HandleEntry, Remember, Lose
<1> DEFINE state == Entered(processes[cur].state, View(cur, readable), call[cur].about)
<1>u. /\ UNCHANGED <<at, stop, call, group, parent, left, happened, odd, cur, started, exits, noted>>
      /\ processes' = [processes EXCEPT ![cur].state = state]
      /\ pc = "handle" /\ pc' = "resume" /\ stop[cur].kind = "entry" /\ at[cur] = "told"
      /\ cur \in DOMAIN processes
  BY <1>p DEF HandleEntry, Answered, Handles, effects
<1>l. lost \subseteq lost' /\ ExecNotes' = ExecNotes
  BY <1>p, <1>u DEF ExecNotes
<1>s. OfFiles(state)
  <2>1. Entering(cur) /\ cur \in Tids
    BY <1>u DEF Entering, Stopped, TraceInv, TypeOK, TypesInv
  <2>2. WellFormed(call[cur].about)
    BY <2>1 DEF ToldInv, CallsInv
  <2> QED
    BY <2>2, EntryFacts
<1> HIDE DEF state
<1> QED
  BY <1>p, <1>u, <1>l, <1>s, CallStopTold

LEMMA HandleExitTold ==
  ASSUME TraceInv, TraceInv', ToldInv, HandleExit
  PROVE  ToldInv'
<1> DEFINE s == processes[cur].state
           i == processes[cur].identity
           r == call[cur].result
<1>1. PICK visible \in BOOLEAN :
        LET effect == Exited(s, View(cur, TRUE), r, visible) IN
        /\ processes' = [processes EXCEPT ![cur].state = effect.state]
        /\ noted' = noted \cup {<<i, f[1], f[2]>> : f \in Shown(effect.facts)}
        /\ Lose(effect.lost)
  BY DEF HandleExit
<1> DEFINE effect == Exited(s, View(cur, TRUE), r, visible)
<1>u. /\ UNCHANGED <<at, stop, call, group, parent, left, happened, blurred, odd, cur, started, exits>>
      /\ pc = "handle" /\ pc' = "resume" /\ stop[cur].kind = "exit" /\ cur \in DOMAIN processes
  BY DEF HandleExit, Answered, Handles, commandVars, effects
<1>d. Decoded(s) /\ OfFiles(s)
  BY <1>u DEF TraceInv, TypesInv, ToldInv, CallsInv
<1>2. effect.state.file = None
  BY <1>d, AfterCall
<1>3. \A f \in effect.facts : f[1] \in FileOperations \cup SocketOperations
  <2>1. \A f \in effect.facts : f \in FileFacts(s, r) \/ f[1] \in SocketOperations
    BY <1>d, ExitFacts
  <2>2. \A f \in FileFacts(s, r) : f[1] \in FileOperations
    BY <1>d DEF FileFacts, OfFiles
  <2> HIDE DEF effect, s, r
  <2> QED
    BY <2>1, <2>2
<1>4. /\ processes' = [processes EXCEPT ![cur].state = effect.state]
      /\ noted' = noted \cup {<<i, f[1], f[2]>> : f \in Shown(effect.facts)}
      /\ lost \subseteq lost'
  BY <1>1 DEF Lose
<1> HIDE DEF effect, s, i, r
<1>5. ExecNotes' = ExecNotes
  <2>1. \A f \in Shown(effect.facts) : f[1] # "exec"
    BY <1>3 DEF Shown, FileOperations, SocketOperations
  <2> QED
    BY <1>4, <2>1 DEF ExecNotes
<1>6. OfFiles(effect.state)
  BY <1>2 DEF OfFiles
<1> QED
  BY <1>u, <1>4, <1>5, <1>6, CallStopTold

\* Threads are killed to be reaped, or are.
LEMMA EndTold ==
  ASSUME TraceInv, TraceInv', ToldInv, pc \in {"terminate", "reap"}, pc' \in {"reap", "failed"},
         UNCHANGED <<group, parent, stop, left, happened, blurred, cur, started, exits>>,
         odd \subseteq odd', lost \subseteq lost',
         ExecNotes' = ExecNotes,
         \A x \in Tids : \/ at'[x] = at[x] /\ call'[x] = call[x]
                         \/ /\ at[x] # "unborn" /\ at'[x] \in {"zombie", "dead"}
                            /\ call'[x] \in {None, call[x]},
         \A t \in DOMAIN processes' : t \in DOMAIN processes /\ processes'[t] = processes[t]
  PROVE  ToldInv'
<1>1. Born' = Born /\ ~Intact'
  BY DEF Born, Intact, TraceInv, QuietInv
<1>2. \A x \in Tids : /\ (Stopped(x, "exec") /\ at[x] \in {"stopped", "told"})' =>
                         Stopped(x, "exec") /\ at[x] \in {"stopped", "told"}
                      /\ call'[x] \in {None, call[x]}
                      /\ Entering(x)' => Entering(x) /\ call'[x] = call[x]
  BY DEF Stopped, Entering
<1> QED
  BY <1>1, <1>2, CollectorStepTold

LEMMA KilledFacts ==
  ASSUME NEW S \in SUBSET Tids, Killed(S), \A x \in S : at[x] # "unborn"
  PROVE  /\ \A x \in Tids : \/ at'[x] = at[x] /\ call'[x] = call[x]
                            \/ /\ at[x] # "unborn" /\ at'[x] \in {"zombie", "dead"}
                               /\ call'[x] \in {None, call[x]}
         /\ odd \subseteq odd'
BY DEF Killed

LEMMA TerminateTold ==
  ASSUME TraceInv, TraceInv', ToldInv, Terminate
  PROVE  ToldInv'
<1> DEFINE S == UNION {Threads(group[t]) : t \in DOMAIN processes}
<1>1. /\ UNCHANGED <<group, parent, stop, left, happened, blurred, cur, started, exits, lost, processes>>
      /\ ExecNotes' = ExecNotes /\ pc = "terminate" /\ pc' = "reap" /\ Killed(S)
  BY DEF Terminate, effects, tableVars, sinkVars, ExecNotes
<1>2. S \in SUBSET Tids /\ \A x \in S : at[x] # "unborn"
  BY DEF Threads, Alive, Ended
<1> HIDE DEF S
<1>3. /\ \A x \in Tids : \/ at'[x] = at[x] /\ call'[x] = call[x]
                         \/ /\ at[x] # "unborn" /\ at'[x] \in {"zombie", "dead"}
                            /\ call'[x] \in {None, call[x]}
      /\ odd \subseteq odd'
  BY <1>1, <1>2, KilledFacts
<1> QED
  BY <1>1, <1>3, EndTold

LEMMA ReapTold ==
  ASSUME TraceInv, TraceInv', ToldInv, NEW t \in Tids, Reap(t)
  PROVE  ToldInv'
<1>1. /\ UNCHANGED <<group, parent, stop, left, happened, blurred, cur, started, exits, lost>>
      /\ ExecNotes' = ExecNotes /\ pc = "reap" /\ pc' = "reap"
  BY DEF Reap, effects, sinkVars, ExecNotes
<1>y. at \in [Tids -> States]
  BY DEF TraceInv, TypeOK
<1>2. CASE at[t] = "zombie"
  <2>1. UNCHANGED <<call, odd>> /\ processes' = Without(processes, {t}) /\ at' = [at EXCEPT ![t] = "dead"]
    BY <1>2 DEF Reap
  <2> QED
    BY <1>1, <1>2, <1>y, <2>1, EndTold DEF Without
<1>3. CASE at[t] # "zombie"
  <2>1. Killed(Threads(group[t])) /\ UNCHANGED processes
    BY <1>3 DEF Reap
  <2>2. Threads(group[t]) \in SUBSET Tids /\ \A x \in Threads(group[t]) : at[x] # "unborn"
    BY DEF Threads, Alive, Ended
  <2>3. /\ \A x \in Tids : \/ at'[x] = at[x] /\ call'[x] = call[x]
                           \/ /\ at[x] # "unborn" /\ at'[x] \in {"zombie", "dead"}
                              /\ call'[x] \in {None, call[x]}
        /\ odd \subseteq odd'
    BY <2>1, <2>2, KilledFacts
  <2> QED
    BY <1>1, <2>1, <2>3, EndTold
<1> QED
  BY <1>2, <1>3

LEMMA GiveUpTold ==
  ASSUME TraceInv, TraceInv', ToldInv, GiveUp
  PROVE  ToldInv'
<1>1. /\ UNCHANGED <<at, call, group, parent, stop, left, happened, blurred, odd, cur, started, exits, lost>>
      /\ ExecNotes' = ExecNotes /\ pc = "reap" /\ pc' = "failed" /\ DOMAIN processes' = {}
  BY DEF GiveUp, commandVars, effects, sinkVars, ExecNotes
<1> QED
  BY <1>1, EndTold

\* A thread is given an identity: what is told of the others stays.
LEMMA StartHistory ==
  ASSUME TraceInv, HistoryInv, NEW t \in Tids, NEW from, NEW state, NEW facts,
         t \notin DOMAIN processes, t \notin Registered, Start(t, from, state, facts),
         pc \notin {"reap", "failed"}, UNCHANGED <<group, parent, lost>>, Quiet' => Quiet,
         Quiet => IF t = Root THEN from = None
                  ELSE from \in Identities /\ started[from].thread = parent[t]
  PROVE  /\ CountedInv' /\ NamesInv'
         /\ \A i \in Identities : GroupOf(i)' = GroupOf(i)
         /\ Identities \subseteq Identities'
         /\ \E n \in Identities' : n = nextIdentity /\ GroupOf(n)' = group[t]
<1> USE DEF HistoryInv
<1>g. PICK n : n = nextIdentity
  OBVIOUS
<1>n. n \in Nat \ {0} /\ Identities = 1 .. n - 1 /\ DOMAIN exits = Identities /\ n \notin Identities
  BY <1>g DEF TraceInv, TypeOK, TypesInv
<1>1. /\ Identities' = Identities \cup {n}
      /\ \A i \in Identities : started'[i] = started[i] /\ exits'[i] = exits[i]
      /\ started'[n] = [thread |-> t, parent |-> from] /\ exits'[n] = 0
  BY <1>g, <1>n DEF Start, With, Identities
<1>2. /\ DOMAIN processes' = DOMAIN processes \cup {t}
      /\ \A x \in DOMAIN processes : processes'[x] = processes[x] /\ processes[x].identity \in Identities
      /\ processes'[t].identity = n
  BY <1>g DEF Start, With, TraceInv, TypeOK
<1>3. CountedInv'
  BY <1>1, <1>2, <1>n DEF CountedInv
<1>4. \A i \in Identities : started[i].thread # t
  BY DEF Registered
<1>5. NamesInv'
  BY <1>1, <1>2, <1>4, <1>n DEF NamesInv
<1>6. (\A i \in Identities : GroupOf(i)' = GroupOf(i)) /\ GroupOf(n)' = group[t]
  BY <1>1 DEF GroupOf
<1> QED
  BY <1>1, <1>3, <1>5, <1>6, <1>g

LEMMA BeginTold ==
  ASSUME TraceInv, TraceInv', ToldInv, Begin
  PROVE  ToldInv'
<1>y. at \in [Tids -> States] /\ stop \in [Tids -> Stops \cup {None}] /\ Root \in Tids
  BY TidsAssumption DEF TraceInv, TypeOK
<1>a. /\ pc = "start" /\ DOMAIN processes = {} /\ at[Root] # "unborn"
      /\ \A t \in Tids \ {Root} : at[t] = "unborn"
  BY DEF Begin, TraceInv, RootInv, GroupInv
<1>u. /\ UNCHANGED <<group, parent, call, left, happened, blurred, odd, cur, lost>>
      /\ ExecsDone' = ExecsDone /\ (Quiet' <=> Quiet)
  BY DEF Begin, effects, ExecsDone, Quiet
<1>c. \A x \in Tids : \/ at'[x] = at[x] /\ stop'[x] = stop[x]
                      \/ /\ x = Root /\ at'[x] \notin {"unborn", "stopped", "told"}
  BY <1>y DEF Begin
<1>b. Born' = Born /\ Born = {Root}
  BY <1>a, <1>c, <1>y DEF Born
<1>s. /\ \A x \in Tids : (Stopped(x, "exec") /\ at[x] \in {"stopped", "told"})' =>
                         Stopped(x, "exec") /\ at[x] \in {"stopped", "told"}
      /\ \A x \in Tids : Entering(x)' => Entering(x)
  BY <1>c DEF Stopped, Entering
<1>1. CASE at[Root] = "zombie"
  <2>1. pc' = "terminate" /\ UNCHANGED <<processes, started, exits, noted>>
    BY <1>1 DEF Begin
  <2>2. ~Intact' /\ ExecNotes' = ExecNotes
    BY <2>1 DEF TraceInv, QuietInv, Intact, ExecNotes
  <2> QED
    BY <1>a, <1>b, <1>s, <1>u, <2>1, <2>2, CollectorStepTold
<1> USE DEF ToldInv, HistoryInv
<1>2. CASE at[Root] # "zombie"
  <2>a. pc' = "wait" /\ Start(Root, None, NoCalls, {"start", "exec"})
    BY <1>2 DEF Begin
  <2>r. Registered = {} /\ Identities = {}
    BY <1>a DEF TraceInv, RootInv, Registered, TypeOK
  <2>g. group[Root] = Root
    BY DEF TraceInv, GroupInv
  <2>1. /\ CountedInv' /\ NamesInv'
        /\ \E n \in Identities' : n = nextIdentity /\ GroupOf(n)' = Root
    BY <1>a, <1>u, <1>y, <2>a, <2>g, <2>r, StartHistory
  <2>n. PICK n \in Identities' : n = nextIdentity /\ GroupOf(n)' = Root
    BY <2>1
  <2>2. TreeInv'
    BY <1>b, <1>u DEF TreeInv
  <2>3. HeardInv'
    <3>1. Registered' = {Root}
      BY <1>y, <1>a, <2>a, <2>r, StartFacts DEF Decoded, NoCalls
    <3> QED
      BY <1>b, <2>a, <3>1 DEF HeardInv
  <2>4. ExecInv'
    <3>1. ExecNotes' = ExecNotes \cup {<<n, "exec", <<>>>>}
      BY <2>a, <2>n DEF ExecNotes, Start
    <3>2. Quiet => ExecNotes = {}
      BY <2>r DEF ExecInv
    <3>3. \A t \in Tids : (Stopped(t, "exec") /\ at[t] \in {"stopped", "told"})' =>
            group'[t] = t /\ <<t, "exec", <<>>>> \in ExecsDone'
      BY <1>s, <1>u DEF ExecInv
    <3>4. Intact' => \A h \in ExecsDone' : h = <<h[1], "exec", <<>>>> /\ h[1] = Root
      BY <1>u, <1>b DEF ExecInv, Intact
    <3>5. <<Root, "exec", <<>>>> \in ExecsDone'
      BY <1>u DEF ExecInv
    <3>6. Quiet' => \A m \in ExecNotes' :
            m[1] \in Identities' /\ m[3] = <<>> /\ <<GroupOf(m[1])', "exec", <<>>>> \in ExecsDone'
      BY <1>u, <2>n, <3>1, <3>2, <3>5
    <3>7. <<n, "exec", <<>>>> \in ExecNotes' /\ <<n, "exec", <<>>>>[1] = n
      BY <3>1
    <3>8. \E m \in ExecNotes' : GroupOf(m[1])' = Root
      BY <2>n, <3>7
    <3> QED
      BY <1>b, <3>3, <3>4, <3>5, <3>6, <3>8 DEF ExecInv
  <2>5. CallsInv'
    <3>1. DOMAIN processes' = {Root} /\ processes'[Root].state = NoCalls
      BY <1>a, <2>a DEF Start, With
    <3>2. OfFiles(NoCalls)
      BY DEF OfFiles, NoCalls
    <3> QED
      BY <1>s, <1>u, <3>1, <3>2, StepKeepsCalls DEF CallsInv
  <2> QED
    BY <2>1, <2>2, <2>3, <2>4, <2>5
<1> QED
  BY <1>1, <1>2

\* What a child begins with is no call.
LEMMA FreshCalls == OfFiles(NoCalls) /\ \A s : OfFiles(Child(s))
BY DEF OfFiles, NoCalls, Child

\* The child of a fork is registered.
LEMMA RegisterTold ==
  ASSUME TraceInv, TraceInv', ToldInv, pc = "handle", pc' = "resume", Stopped(cur, "fork"),
         at[cur] = "told", NEW c, c = stop[cur].child, c \notin DOMAIN processes,
         Register(c, cur), UNCHANGED <<commandVars, cur, lost>>
  PROVE  ToldInv'
<1> USE DEF ToldInv, HistoryInv
<1>u. /\ UNCHANGED <<at, stop, group, parent, call, left, happened, blurred, odd>>
      /\ ExecsDone' = ExecsDone /\ (Quiet' <=> Quiet) /\ (Intact' <=> Intact) /\ Born' = Born
  BY DEF commandVars, effects, ExecsDone, Quiet, Intact, Born
<1>y. stop \in [Tids -> Stops \cup {None}] /\ cur \in Tids /\ c \in Tids
  BY StopFacts DEF TraceInv, TypeOK, TypesInv, Stopped
<1>c. c \notin Registered /\ c # Root /\ parent[c] = cur
  BY <1>y DEF TraceInv, RegisteredInv, StopInv, Forked
<1>1. PICK from, state :
        /\ Start(c, from, state, {"fork"}) /\ state \in {NoCalls, Child(processes[cur].state)}
        /\ cur \in DOMAIN processes => from = processes[cur].identity
  BY DEF Register
<1>2. Quiet => from \in Identities /\ started[from].thread = parent[c]
  BY <1>1, <1>c DEF TraceInv, QuietInv, TypeOK, NamesInv, Stopped
<1>3. /\ CountedInv' /\ NamesInv'
      /\ \A i \in Identities : GroupOf(i)' = GroupOf(i)
      /\ Identities \subseteq Identities'
  BY <1>1, <1>2, <1>c, <1>u, <1>y, StartHistory
<1>4. TreeInv'
  BY <1>u DEF TreeInv
<1>r. Registered' = Registered \cup {c}
  <2>1. Decoded(state)
    BY <1>1 DEF Decoded, NoCalls, Child
  <2> QED
    BY <1>1, <1>y, <2>1, StartFacts
<1>f. \A t \in Tids : /\ Forked(t) => t = cur \/ Forked(t)'
                      /\ Executed(t) => Executed(t)'
  BY <1>u DEF Forked, Executed, Stopped
<1>5. HeardInv'
  BY <1>c, <1>f, <1>r, <1>u DEF HeardInv
<1>6. ExecInv'
  <2>1. ExecNotes' = ExecNotes
    BY <1>1 DEF Start, ExecNotes
  <2>2. \A t \in Tids : (Stopped(t, "exec") /\ at[t] \in {"stopped", "told"})' =>
          group'[t] = t /\ <<t, "exec", <<>>>> \in ExecsDone'
    BY <1>u DEF ExecInv, Stopped
  <2>3. Quiet' => \A n \in ExecNotes' :
          n[1] \in Identities' /\ n[3] = <<>> /\ <<GroupOf(n[1])', "exec", <<>>>> \in ExecsDone'
    BY <1>3, <1>u, <2>1 DEF ExecInv
  <2>4. ASSUME Intact', NEW h \in ExecsDone'
        PROVE  /\ h = <<h[1], "exec", <<>>>> /\ h[1] \in Born'
               /\ \/ \E n \in ExecNotes' : GroupOf(n[1])' = h[1]
                  \/ Executed(h[1])'
                  \/ pc' = "start" /\ h[1] = Root
    <3>1. /\ h = <<h[1], "exec", <<>>>> /\ h[1] \in Born
          /\ (\E n \in ExecNotes : n[1] \in Identities /\ GroupOf(n[1]) = h[1]) \/ Executed(h[1])
      BY <1>u, <2>4 DEF ExecInv, Intact
    <3>2. h[1] \in Tids
      BY <3>1 DEF Born
    <3> QED
      BY <1>3, <1>f, <1>u, <2>1, <3>1, <3>2
  <2> QED
    BY <1>u, <2>2, <2>3, <2>4 DEF ExecInv
<1>7. CallsInv'
  <2>1. /\ DOMAIN processes' = DOMAIN processes \cup {c}
        /\ \A x \in DOMAIN processes : processes'[x] = processes[x]
        /\ processes'[c].state = state
    BY <1>1 DEF Start, With
  <2>2. OfFiles(state)
    BY <1>1, FreshCalls
  <2>3. \A x \in Tids : Entering(x)' => Entering(x)
    BY <1>u DEF Entering, Stopped
  <2> QED
    BY <1>u, <2>1, <2>2, <2>3, StepKeepsCalls DEF CallsInv
<1> QED
  BY <1>3, <1>4, <1>5, <1>6, <1>7

LEMMA HandleForkTold ==
  ASSUME TraceInv, TraceInv', ToldInv, HandleFork
  PROVE  ToldInv'
<1>a. /\ pc = "handle" /\ at[cur] = "told" /\ Stopped(cur, "fork") /\ UNCHANGED commandVars
      /\ pc' \in {"resume", "detach"}
  BY DEF HandleFork, Answered, Handles, Stopped, TraceInv, TypeOK, TypesInv
<1>1. CASE pc' = "resume" /\ stop[cur].child \notin DOMAIN processes
  BY <1>1, <1>a, RegisterTold DEF HandleFork
<1>2. CASE pc' = "resume" /\ stop[cur].child \in DOMAIN processes
  <2>1. UNCHANGED <<cur, processes, started, exits, noted, lost>>
    BY <1>2 DEF HandleFork, Register
  <2>u. /\ UNCHANGED <<at, stop, group, parent, call, left, happened, blurred, odd>>
        /\ ExecNotes' = ExecNotes /\ (Intact' <=> Intact) /\ (Quiet' <=> Quiet) /\ Born' = Born
    BY <1>a, <2>1 DEF commandVars, effects, Quiet, Intact, Born, ExecNotes
  <2>2. ~Intact'
    BY <1>2, <1>a, <2>u DEF TraceInv, QuietInv, Intact, Forked, Unheard, TypeOK, TypesInv
  <2>3. \A t \in Tids : /\ (Stopped(t, "exec") /\ at[t] \in {"stopped", "told"})' =>
                           Stopped(t, "exec") /\ at[t] \in {"stopped", "told"}
                        /\ Entering(t)' => Entering(t)
    BY <2>u DEF Stopped, Entering
  <2> QED
    BY <1>2, <1>a, <2>1, <2>u, <2>2, <2>3, CollectorStepTold
<1>3. CASE pc' = "detach"
  <2>1. Lose(AllCategories) /\ UNCHANGED <<processes, started, exits, noted>>
    BY <1>3 DEF HandleFork
  <2>2. "processes" \in lost' /\ lost \subseteq lost' /\ ~Intact'
    BY <2>1 DEF Lose, AllCategories, Intact
  <2>u. /\ UNCHANGED <<at, stop, group, parent, call, left, happened, blurred, odd>>
        /\ ExecNotes' = ExecNotes /\ Born' = Born
    BY <1>a, <2>1 DEF commandVars, effects, Born, ExecNotes
  <2>3. \A t \in Tids : /\ (Stopped(t, "exec") /\ at[t] \in {"stopped", "told"})' =>
                           Stopped(t, "exec") /\ at[t] \in {"stopped", "told"}
                        /\ Entering(t)' => Entering(t)
    BY <2>u DEF Stopped, Entering
  <2> QED
    BY <1>3, <1>a, <2>1, <2>u, <2>2, <2>3, CollectorStepTold
<1> QED
  BY <1>1, <1>2, <1>3, <1>a
LEMMA WaitExitTold ==
  ASSUME TraceInv, TraceInv', ToldInv, NEW t \in Tids, WaitExit(t)
  PROVE  ToldInv'
<1>u. /\ UNCHANGED <<group, parent, call, left, happened, odd, pc, cur, started, lost>>
      /\ pc = "wait" /\ at[t] = "zombie" /\ blurred \subseteq blurred'
      /\ RecordExit(t)
  BY DEF WaitExit, Waiting, effects
<1>y. at \in [Tids -> States] /\ stop \in [Tids -> Stops \cup {None}]
  BY DEF TraceInv, TypeOK
<1>c. \A x \in Tids : \/ at'[x] = at[x] /\ stop'[x] = stop[x]
                      \/ x = t /\ at'[x] = "dead"
  BY <1>y DEF WaitExit
<1>p. /\ DOMAIN processes' = DOMAIN processes \ {t}
      /\ \A x \in DOMAIN processes' : processes'[x] = processes[x]
  BY <1>u DEF RecordExit, Without
<1>e. ExecNotes' = ExecNotes
  BY <1>u DEF RecordExit, Ends, ExecNotes
<1>1. CountedInv'
  <2>1. Identities' = Identities /\ DOMAIN exits = Identities
    BY <1>u DEF Identities, TraceInv, TypeOK
  <2>2. CASE t \in DOMAIN processes
    <3>1. PICK i \in Identities : i = processes[t].identity
      BY <2>2 DEF TraceInv, TypeOK
    <3>2. exits' = [exits EXCEPT ![i] = @ + 1]
      BY <1>u, <2>2, <3>1 DEF RecordExit, Ends
    <3>3. \A x \in DOMAIN processes : processes[x].identity = i => x = t
      BY <2>2, <3>1 DEF TraceInv, TypeOK
    <3> QED
      BY <1>u, <1>p, <2>1, <2>2, <3>1, <3>2, <3>3 DEF ToldInv, HistoryInv, CountedInv
  <2>3. CASE t \notin DOMAIN processes
    BY <1>u, <1>p, <2>1, <2>3 DEF RecordExit, ToldInv, HistoryInv, CountedInv
  <2> QED
    BY <2>2, <2>3
<1>2. Born' = Born /\ ExecsDone' = ExecsDone /\ (Quiet' => Quiet)
  BY <1>c, <1>u DEF Born, ExecsDone, Quiet
<1>3. \A x \in Tids : /\ Forked(x) => Forked(x)' /\ stop'[x] = stop[x]
                      /\ Executed(x) => Executed(x)'
                      /\ (Stopped(x, "exec") /\ at[x] \in {"stopped", "told"})' =>
                         Stopped(x, "exec") /\ at[x] \in {"stopped", "told"}
                      /\ Entering(x)' => Entering(x)
  BY <1>c, <1>u DEF Forked, Executed, Stopped, Entering
<1>4. pc' = "done" => DOMAIN processes = {}
  BY <1>u
<1>5. HistoryInv'
  BY <1>u, <1>p, <1>e, <1>1, <1>2, <1>3, <1>4, StepKeepsHistory DEF ToldInv
<1>6. CallsInv'
  BY <1>u, <1>p, <1>3, StepKeepsCalls DEF ToldInv, CallsInv
<1> QED
  BY <1>5, <1>6 DEF ToldInv

LEMMA HandleExecTold ==
  ASSUME TraceInv, TraceInv', ToldInv, HandleExec
  PROVE  ToldInv'
<1>g. PICK f : f = stop[cur].former
  OBVIOUS
<1>a. /\ pc = "handle" /\ at[cur] = "told" /\ stop[cur].kind = "exec" /\ cur \in Tids
      /\ Stopped(cur, "exec")
      /\ UNCHANGED <<commandVars, cur, started, lost>> /\ pc' \in {"resume", "terminate"}
  BY DEF HandleExec, Answered, Handles, Stopped, TraceInv, TypeOK, TypesInv
<1>u. /\ UNCHANGED <<at, stop, group, parent, call, left, happened, blurred, odd>>
      /\ ExecsDone' = ExecsDone /\ (Quiet' <=> Quiet) /\ (Intact' <=> Intact) /\ Born' = Born
  BY <1>a DEF commandVars, effects, ExecsDone, Quiet, Intact, Born
<1>i. Identities' = Identities /\ (\A i : GroupOf(i)' = GroupOf(i)) /\ Registered' = Registered
  BY <1>a, <1>u DEF Identities, GroupOf, Registered
<1>s. \A t \in Tids : /\ Forked(t) => Forked(t)' /\ stop'[t] = stop[t]
                      /\ Executed(t) => t = cur \/ Executed(t)'
                      /\ (Stopped(t, "exec") /\ at[t] \in {"stopped", "told"})' =>
                         Stopped(t, "exec") /\ at[t] \in {"stopped", "told"}
                      /\ Entering(t)' => Entering(t)
  BY <1>a, <1>u DEF Forked, Executed, Stopped, Entering
<1>1. CASE {cur, f} \cap DOMAIN processes = {}
  <2>1. pc' = "terminate" /\ UNCHANGED <<processes, exits, noted>>
    BY <1>1, <1>g DEF HandleExec
  <2>2. ~Intact' /\ ExecNotes' = ExecNotes
    BY <2>1 DEF TraceInv, QuietInv, Intact, ExecNotes
  <2> QED
    BY <1>a, <1>u, <1>s, <2>1, <2>2, CollectorStepTold
<1> USE DEF ToldInv, HistoryInv
<1>2. CASE {cur, f} \cap DOMAIN processes # {}
  <2>r. RecordExec(cur, f) /\ pc' = "resume"
    BY <1>2, <1>g DEF HandleExec
  <2>q. Quiet => cur \in DOMAIN processes
    BY <1>a DEF TraceInv, QuietInv
  <2>x. DOMAIN exits = Identities /\ \A t \in DOMAIN processes : processes[t].identity \in Identities
    BY DEF TraceInv, TypeOK
  <2>t. /\ \A t \in DOMAIN processes :
             processes[t] = [identity |-> processes[t].identity, state |-> processes[t].state]
        /\ \A t, u \in DOMAIN processes : processes[t].identity = processes[u].identity => t = u
    BY DEF TraceInv, TypeOK, TypesInv
  <2>k. \E o \in {cur, f} \cap DOMAIN processes :
          /\ cur \in DOMAIN processes => o = cur
          /\ cur = f => o = cur
          /\ DOMAIN processes' = (DOMAIN processes \ {f}) \cup {cur}
          /\ \A t \in DOMAIN processes' \ {cur} : processes'[t] = processes[t]
          /\ processes'[cur] = [identity |-> processes[o].identity, state |-> Child(processes[o].state)]
          /\ Reconciled(cur, f)[cur] = processes[o]
    <3>1. CASE cur = f \/ f \notin DOMAIN processes
      <4>1. cur \in DOMAIN processes /\ Reconciled(cur, f) = processes
        BY <1>2, <3>1 DEF Reconciled
      <4>2. processes' = [processes EXCEPT ![cur].state = Child(@)]
        BY <2>r, <4>1 DEF RecordExec
      <4>3. processes'[cur] = [identity |-> processes[cur].identity, state |-> Child(processes[cur].state)]
        BY <2>t, <4>1, <4>2
      <4>4. /\ DOMAIN processes' = (DOMAIN processes \ {f}) \cup {cur}
            /\ \A t \in DOMAIN processes' \ {cur} : processes'[t] = processes[t]
        BY <3>1, <4>1, <4>2
      <4>5. Reconciled(cur, f)[cur] = processes[cur]
        BY <4>1
      <4> QED
        BY <4>1, <4>3, <4>4, <4>5
    <3>2. CASE cur # f /\ f \in DOMAIN processes /\ cur \in DOMAIN processes
      BY <2>r, <2>t, <3>2 DEF RecordExec, Reconciled, Without
    <3>3. CASE cur # f /\ f \in DOMAIN processes /\ cur \notin DOMAIN processes
      <4> DEFINE known == With(Without(processes, {f}), cur, processes[f])
      <4>1. Reconciled(cur, f) = known
        BY <3>3 DEF Reconciled
      <4>2. /\ DOMAIN known = (DOMAIN processes \ {f}) \cup {cur} /\ known[cur] = processes[f]
            /\ \A t \in DOMAIN processes \ {f} : known[t] = processes[t]
        BY <3>3 DEF With, Without
      <4>3. processes' = [known EXCEPT ![cur].state = Child(@)]
        BY <2>r, <4>1 DEF RecordExec
      <4> HIDE DEF known
      <4>4. processes'[cur] = [identity |-> processes[f].identity, state |-> Child(processes[f].state)]
        BY <2>t, <3>3, <4>2, <4>3
      <4> QED
        BY <3>3, <4>1, <4>2, <4>3, <4>4
    <3> QED
      BY <3>1, <3>2, <3>3
  <2>o. PICK o \in {cur, f} \cap DOMAIN processes :
          /\ cur \in DOMAIN processes => o = cur
          /\ cur = f => o = cur
          /\ DOMAIN processes' = (DOMAIN processes \ {f}) \cup {cur}
          /\ \A t \in DOMAIN processes' \ {cur} : processes'[t] = processes[t]
          /\ processes'[cur] = [identity |-> processes[o].identity, state |-> Child(processes[o].state)]
          /\ Reconciled(cur, f)[cur] = processes[o]
    BY <2>k
  <2>e. \A i \in Identities :
          exits'[i] = IF f # cur /\ {f, cur} \subseteq DOMAIN processes /\ i = processes[f].identity
                      THEN exits[i] + 1 ELSE exits[i]
    BY <2>r, <2>x DEF RecordExec
  <2>n. PICK i \in Identities : /\ i = processes[o].identity
                                /\ ExecNotes' = ExecNotes \cup {<<i, "exec", <<>>>>}
    <3>1. \A i : i = processes[o].identity => ExecNotes' = ExecNotes \cup {<<i, "exec", <<>>>>}
      BY <2>r, <2>o DEF RecordExec, ExecNotes
    <3> QED
      BY <2>x, <3>1
  <2>1. CountedInv'
    <3> SUFFICES ASSUME NEW j \in Identities
                 PROVE  exits'[j] = IF \E t \in DOMAIN processes' : processes'[t].identity = j THEN 0 ELSE 1
      BY <1>i DEF CountedInv
    <3>1. exits[j] = IF \E t \in DOMAIN processes : processes[t].identity = j THEN 0 ELSE 1
      BY <1>a DEF CountedInv
    <3>2. (\E t \in DOMAIN processes' : processes'[t].identity = j) <=>
            /\ \E t \in DOMAIN processes : processes[t].identity = j
            /\ ~(f # cur /\ {f, cur} \subseteq DOMAIN processes /\ j = processes[f].identity)
      <4>1. CASE o = cur
        BY <2>o, <2>t, <4>1
      <4>2. CASE o # cur
        BY <2>o, <2>t, <4>2
      <4> QED
        BY <4>1, <4>2
    <3>3. f # cur /\ {f, cur} \subseteq DOMAIN processes /\ j = processes[f].identity => exits[j] = 0
      BY <3>1
    <3> QED
      BY <2>e, <3>1, <3>2, <3>3
  <2>2. TreeInv'
    BY <1>u DEF TreeInv
  <2>3. NamesInv'
    <3>1. Quiet => \A t \in DOMAIN processes' :
                     t \in DOMAIN processes /\ processes'[t].identity = processes[t].identity
      BY <2>q, <2>o
    <3> QED
      BY <1>a, <1>i, <1>u, <3>1 DEF NamesInv
  <2>4. HeardInv'
    BY <1>a, <1>i, <1>s, <1>u, <2>r DEF HeardInv
  <2>5. ExecInv'
    <3>1. group[cur] = cur /\ <<cur, "exec", <<>>>> \in ExecsDone
      BY <1>a DEF ExecInv
    <3>2. Quiet => GroupOf(i) = cur
      BY <2>n, <2>o, <2>q, <3>1 DEF GroupOf, NamesInv
    <3>3. Quiet' => \A n \in ExecNotes' :
            n[1] \in Identities' /\ n[3] = <<>> /\ <<GroupOf(n[1])', "exec", <<>>>> \in ExecsDone'
      BY <1>i, <1>u, <2>n, <3>1, <3>2 DEF ExecInv
    <3>4. ASSUME Intact', NEW h \in ExecsDone'
          PROVE  /\ h = <<h[1], "exec", <<>>>> /\ h[1] \in Born'
                 /\ \/ \E n \in ExecNotes' : GroupOf(n[1])' = h[1]
                    \/ Executed(h[1])'
                    \/ pc' = "start" /\ h[1] = Root
      <4>1. /\ h = <<h[1], "exec", <<>>>> /\ h[1] \in Born
            /\ (\E n \in ExecNotes : GroupOf(n[1]) = h[1]) \/ Executed(h[1])
        BY <1>a, <1>u, <3>4 DEF ExecInv
      <4>2. h[1] \in Tids
        BY <4>1 DEF Born
      <4>3. CASE h[1] = cur
        <5>1. <<i, "exec", <<>>>> \in ExecNotes' /\ <<i, "exec", <<>>>>[1] = i
          BY <2>n
        <5> QED
          BY <1>i, <1>u, <3>2, <3>4, <4>1, <4>3, <5>1 DEF Intact
      <4>4. CASE h[1] # cur
        BY <1>i, <1>s, <1>u, <2>n, <4>1, <4>2, <4>4
      <4> QED
        BY <4>3, <4>4
    <3>5. \A t \in Tids : (Stopped(t, "exec") /\ at[t] \in {"stopped", "told"})' =>
            group'[t] = t /\ <<t, "exec", <<>>>> \in ExecsDone'
      BY <1>s, <1>u DEF ExecInv
    <3> QED
      BY <1>u, <3>3, <3>4, <3>5 DEF ExecInv
  <2>6. CallsInv'
    <3>1. \A t \in DOMAIN processes' :
            \/ t \in DOMAIN processes /\ processes'[t].state = processes[t].state
            \/ OfFiles(processes'[t].state)
      BY <2>o, FreshCalls
    <3> QED
      BY <1>s, <1>u, <3>1, StepKeepsCalls DEF CallsInv
  <2> QED
    BY <2>1, <2>2, <2>3, <2>4, <2>5, <2>6
<1> QED
  BY <1>1, <1>2

LEMMA InitTold == Init => ToldInv
<1> SUFFICES ASSUME Init
             PROVE  ToldInv
  OBVIOUS
<1>y. Root \in Tids /\ [kind |-> "initial"] # None
  BY TidsAssumption, StopFacts
<1>a. /\ \A t \in Tids : /\ at[t] = IF t = Root THEN "stopped" ELSE "unborn"
                         /\ stop[t] = IF t = Root THEN [kind |-> "initial"] ELSE None
                         /\ call[t] = None
      /\ happened = {<<Root, "exec", <<>>>>} /\ noted = {} /\ left \in Scenarios
      /\ pc = "start" /\ DOMAIN processes = {} /\ DOMAIN started = {}
  BY DEF Init
<1>b. Born = {Root} /\ Identities = {} /\ ExecNotes = {} /\ ExecsDone = {<<Root, "exec", <<>>>>}
  BY <1>a, <1>y DEF Born, Identities, ExecNotes, ExecsDone
<1>1. CountedInv /\ TreeInv /\ NamesInv
  BY <1>a, <1>b DEF CountedInv, TreeInv, NamesInv
<1>2. HeardInv /\ ExecInv
  BY <1>a, <1>b DEF HeardInv, ExecInv, Stopped
<1>3. CallsInv
  BY <1>a, CallsAssumption DEF CallsInv, Entering, Stopped
<1> QED
  BY <1>1, <1>2, <1>3 DEF ToldInv, HistoryInv

LEMMA StutterTold ==
  ASSUME TraceInv, TraceInv', ToldInv, UNCHANGED vars
  PROVE  ToldInv'
<1>1. UNCHANGED <<at, group, parent, stop, call, left, happened, blurred, odd, pc, cur, processes,
                  started, exits, noted, lost>>
  BY DEF vars, commandVars, effects, tableVars, sinkVars
<1>2. Born' = Born /\ ExecNotes' = ExecNotes
  BY <1>1 DEF Born, ExecNotes
<1>3. \A t \in Tids : /\ Forked(t) => Forked(t)' /\ stop'[t] = stop[t]
                      /\ Executed(t) => Executed(t)'
                      /\ (Stopped(t, "exec") /\ at[t] \in {"stopped", "told"})' =>
                         Stopped(t, "exec") /\ at[t] \in {"stopped", "told"}
                      /\ Entering(t)' => Entering(t)
  BY <1>1 DEF Forked, Executed, Stopped, Entering
<1>4. (pc' = "detach" => "processes" \in lost') /\ (pc' = "done" => DOMAIN processes = {})
  BY <1>1 DEF ToldInv, HistoryInv, HeardInv
<1> QED
  BY <1>1, <1>2, <1>3, <1>4, CollectorStepTold

LEMMA CommandTold ==
  ASSUME TraceInv, TraceInv', ToldInv, Command
  PROVE  ToldInv'
<1> USE DEF Command
<1>1. \A t \in Tids : (\E c \in left.alphabet : EnterCall(t, c)) \/ ReturnFromCall(t) => ToldInv'
  BY EnterCallTold, ReturnFromCallTold
<1>2. \A t \in Tids : (\E c \in Tids, thread \in BOOLEAN : Fork(t, c, thread)) => ToldInv'
  BY ForkTold
<1>3. \A t \in Tids : KillProcess(t) \/ Exec(t) \/ ExecDone(t) \/ Exit(t) => ToldInv'
  BY KillProcessTold, ExecTold, ExecDoneTold, ExitTold
<1> QED
  BY <1>1, <1>2, <1>3

LEMMA CollectTold ==
  ASSUME TraceInv, TraceInv', ToldInv, Collect
  PROVE  ToldInv'
<1>1. \A t \in Tids : (WaitStop(t) \/ WaitExit(t) \/ Reap(t)) => ToldInv'
  BY WaitStopTold, WaitExitTold, ReapTold
<1>2. Begin \/ WaitFails \/ Resume \/ Refused \/ Detach \/ Finish \/ Terminate \/ GiveUp => ToldInv'
  BY BeginTold, FailTold, ResumeTold, DetachTold, FinishTold, TerminateTold, GiveUpTold
<1>3. HandleInitial \/ HandleFork \/ HandleExec \/ HandleUnknown \/ HandleEntry \/ HandleExit
        => ToldInv'
  BY HandleInitialTold, HandleForkTold, HandleExecTold, HandleUnknownTold, HandleEntryTold,
     HandleExitTold
<1> QED
  BY <1>1, <1>2, <1>3 DEF Collect

LEMMA ToldHolds == Spec => []ToldInv
<1>1. TraceInv /\ TraceInv' /\ ToldInv /\ [Next]_vars => ToldInv'
  BY CommandTold, CollectTold, StutterTold DEF Next, AtRest
<1> QED
  BY <1>1, InitTold, TraceHolds, PTL DEF Spec

\* When the table is empty and nothing was lost, every thread was given an
\* identity: the first that was not would have a parent that waits to tell.
LEMMA AllRegistered ==
  ASSUME TraceInv, ToldInv, Intact, pc = "done"
  PROVE  Registered = Born
<1> DEFINE U == Born \ Registered
<1> USE DEF ToldInv, HistoryInv
<1>1. /\ Registered \subseteq Born /\ Born \subseteq Tids
      /\ \A t \in Tids : Forked(t) => at[t] = "stopped" /\ stop[t].child # Root /\ parent[stop[t].child] = t
  BY DEF TraceInv, TypesInv, RegisteredInv, StopInv, Born, Forked
<1>2. \A c \in U : \E t \in Tids : at[t] = "stopped" /\ c # Root /\ parent[c] = t
  BY <1>1 DEF HeardInv
<1>3. \A k \in Registered : at[k] # "stopped"
  BY DEF TraceInv, RegisteredInv, HeardInv, Settled
<1>4. CASE U # {}
  <2>1. PICK c \in U : parent[c] \notin U
    <3>1. U \in SUBSET (Born \ {Root})
      BY <1>2
    <3> HIDE DEF U
    <3> QED
      BY <3>1, <1>4 DEF TreeInv
  <2> QED
    BY <1>2, <1>3, <2>1 DEF TreeInv
<1> QED
  BY <1>1, <1>4

LEMMA ThreadsAreTold ==
  ASSUME TraceInv, ToldInv, Intact, pc = "done"
  PROVE  ThreadsTold /\ ExecsTold
<1> USE DEF ToldInv, HistoryInv
<1>1. Registered = Born /\ DOMAIN processes = {}
  BY AllRegistered DEF HeardInv
<1>2. {started[i].thread : i \in Identities} = Born
  BY <1>1 DEF Registered
<1>3. Cardinality(Identities) = Cardinality(Born)
  <2>1. IsFiniteSet(Identities)
    <3>1. nextIdentity - 1 \in Int /\ Identities = 1 .. nextIdentity - 1
      BY DEF TraceInv, TypeOK, TypesInv
    <3> QED
      BY <3>1, FS_Interval
  <2> DEFINE thread == [i \in Identities |-> started[i].thread]
  <2>2. thread \in Bijection(Identities, Born)
    <3>1. thread \in [Identities -> Born] /\ \A i, j \in Identities : thread[i] = thread[j] => i = j
      BY <1>2 DEF NamesInv
    <3>2. \A t \in Born : \E i \in Identities : thread[i] = t
      BY <1>2
    <3> QED
      BY <3>1, <3>2 DEF Bijection, Injection, Surjection, IsInjective
  <2>3. ExistsBijection(Identities, Born)
    BY <2>2 DEF ExistsBijection
  <2> QED
    BY <2>1, <2>3, FS_Bijection
<1>4. ASSUME NEW i \in Identities
      PROVE  /\ started[i].parent = IF started[i].thread = Root THEN None
                ELSE CHOOSE j \in Identities : started[j].thread = parent[started[i].thread]
             /\ exits[i] = 1
  BY <1>1 DEF NamesInv, CountedInv, Intact
<1>5. ExecsTold
  <2>1. \A n \in ExecNotes : n[3] = <<>> /\ <<GroupOf(n[1]), "exec", <<>>>> \in ExecsDone
    BY DEF ExecInv, Intact
  <2>2. \A h \in ExecsDone : h = <<h[1], "exec", <<>>>> /\ h[1] \in Born
    BY DEF ExecInv
  <2>3. \A t \in Born : ~Executed(t)
    BY <1>1 DEF Executed, TraceInv, RegisteredInv, Settled
  <2>4. \A h \in ExecsDone : \E n \in ExecNotes : GroupOf(n[1]) = h[1]
    BY <2>2, <2>3 DEF ExecInv
  <2>5. /\ Told({"exec"}) = {<<GroupOf(n[1]), n[2], n[3]>> : n \in ExecNotes}
        /\ Done({"exec"}) = ExecsDone /\ \A n \in ExecNotes : n[2] = "exec"
    BY DEF Told, Done, ExecNotes, ExecsDone
  <2>6. \A n \in ExecNotes : <<GroupOf(n[1]), n[2], n[3]>> \in ExecsDone
    BY <2>1, <2>5
  <2>7. \A h \in ExecsDone : \E n \in ExecNotes : h = <<GroupOf(n[1]), n[2], n[3]>>
    <3> SUFFICES ASSUME NEW h \in ExecsDone
                 PROVE  \E n \in ExecNotes : h = <<GroupOf(n[1]), n[2], n[3]>>
      OBVIOUS
    <3>1. PICK n \in ExecNotes : GroupOf(n[1]) = h[1]
      BY <2>4
    <3>2. h = <<h[1], "exec", <<>>>> /\ n[2] = "exec" /\ n[3] = <<>>
      BY <2>1, <2>2, <2>5
    <3> QED
      BY <3>1, <3>2
  <2> QED
    BY <2>5, <2>6, <2>7 DEF ExecsTold
<1> QED
  BY <1>2, <1>3, <1>4, <1>5 DEF ThreadsTold

-----------------------------------------------------------------------------
(* What a call does to files and what is decoded of it. *)

Paths == Seq(Names)

\* Objects of a descriptor table; those of files have a path.
Object(o) ==
  /\ "kind" \in DOMAIN o
  /\ o.kind = "file" => "path" \in DOMAIN o /\ o.path \in Paths

PathsInv ==
  /\ DOMAIN table = Tids /\ DOMAIN cwd = Tids
  /\ \A g \in Tids : cwd[g] \in Paths /\ \A fd \in DOMAIN table[g] : Object(table[g][fd])

LEMMA SequenceFacts ==
  ASSUME NEW S, NEW p \in Seq(S), NEW m \in S, NEW n \in S
  PROVE  Append(p, n) \in Seq(S) /\ <<n>> \in Seq(S) /\ <<m, n>> \in Seq(S)
OBVIOUS

LEMMA PathFacts ==
  /\ \A path \in Paths : path # None
  /\ \A name \in Names : <<"/", name>> \in Paths /\ <<name>> \in Paths
  /\ \A path \in Paths, name \in Names : Append(path, name) \in Paths
<1>e. <<>> \in Seq(Names)
  OBVIOUS
<1>0. "/" \in Names
  BY NamesAssumption
<1>1. ASSUME NEW path \in Seq(Names), NEW name \in Names
      PROVE  Append(path, name) \in Seq(Names) /\ <<name>> \in Seq(Names) /\ <<"/", name>> \in Seq(Names)
  BY <1>0, SequenceFacts
<1>2. \A path \in Seq(Names), name \in Names : Append(path, name) \in Seq(Names)
  BY <1>1
<1>3. \A path \in Seq(Names) : path # None
  BY NamesAssumption
<1>4. \A name \in Names : <<"/", name>> \in Seq(Names) /\ <<name>> \in Seq(Names)
  BY <1>1, <1>e
<1> QED
  BY <1>2, <1>3, <1>4 DEF Paths

\* What an argument names is what the collector resolves it to.
LEMMA TargetFacts ==
  ASSUME PathsInv, NEW g \in Tids, NEW w, w.table = table[g], w.cwd = cwd[g],
         NEW arg, arg.name \in Names, Resolves(g, arg)
  PROVE  Target(g, arg) \in Paths /\ PathOf(w, arg) = Target(g, arg)
<1>1. CASE arg.absolute
  BY <1>1, PathFacts DEF Target, PathOf
<1>2. CASE ~arg.absolute /\ arg.dir = Cwd
  BY <1>2, PathFacts DEF Target, PathOf, PathsInv
<1>3. CASE ~arg.absolute /\ arg.dir # Cwd
  <2>1. Has(g, arg.dir, "file")
    BY <1>3 DEF Resolves
  <2>2. /\ FileAt(w, arg.dir) = table[g][arg.dir].path
        /\ table[g][arg.dir].path \in Paths
    BY <2>1 DEF Has, FileAt, PathsInv, Object
  <2> QED
    BY <1>3, <2>2, PathFacts DEF Target, PathOf
<1> QED
  BY <1>1, <1>2, <1>3

\* What the call c will have done to files, as w shows the process.
FactsOf(w, c, r) ==
  LET file == DecodeFile(w, c)
  IN  IF file = None \/ r = None \/ (file.requiresData /\ r = 0) THEN {} ELSE file.facts

\* Files are told by their names, and what is changed is looked at before.
LEMMA DecodedFacts ==
  ASSUME NEW w, NEW c, WellFormed(c), DecodeFile(w, c) # None
  PROVE  \A f \in DecodeFile(w, c).facts :
           /\ f[1] \in FileOperations /\ Len(f[2]) > 0
           /\ \A g : Changes(<<g, f[1], f[2]>>) \subseteq DecodeFile(w, c).touched
<1> DEFINE Fine(p) ==
             p # None => /\ p = [facts |-> p.facts, touched |-> p.touched, requiresData |-> p.requiresData]
                         /\ \A f \in p.facts :
                              /\ f[1] \in FileOperations /\ Len(f[2]) > 0
                              /\ \A g : Changes(<<g, f[1], f[2]>>) \subseteq p.touched
<1>0. ASSUME NEW facts, NEW touched,
             \A f \in facts : /\ f[1] \in FileOperations /\ Len(f[2]) > 0
                              /\ \A g : Changes(<<g, f[1], f[2]>>) \subseteq touched
      PROVE  Fine(Pending(facts, touched))
  <2>1. Pending(facts, touched) = [facts |-> facts, touched |-> touched, requiresData |-> FALSE]
    BY DEF Pending
  <2> QED
    BY <1>0, <2>1
<1>n. Fine(None)
  OBVIOUS
<1>q. ASSUME NEW operations, operations \subseteq {"open", "read", "write", "truncate", "create", "unlink"},
             NEW path, NEW touched, operations \cap Mutation # {} => path \in touched
      PROVE  Fine(Pending({<<operation, <<path>>>> : operation \in operations}, touched))
  <2>1. ASSUME NEW operation \in operations, NEW g
        PROVE  /\ operation \in FileOperations /\ Len(<<path>>) > 0
               /\ Changes(<<g, operation, <<path>>>>) \subseteq touched
    <3>1. CASE operation \in Mutation
      BY <1>q, <2>1, <3>1 DEF FileOperations, Changes, Mutation
    <3>2. CASE operation \notin Mutation
      BY <1>q, <2>1, <3>2 DEF FileOperations, Changes
    <3> QED
      BY <3>1, <3>2
  <2>2. \A f \in {<<operation, <<path>>>> : operation \in operations} :
          /\ f[1] \in FileOperations /\ Len(f[2]) > 0
          /\ \A g : Changes(<<g, f[1], f[2]>>) \subseteq touched
    <3> SUFFICES ASSUME NEW operation \in operations, NEW f, f = <<operation, <<path>>>>
                 PROVE  /\ f[1] \in FileOperations /\ Len(f[2]) > 0
                        /\ \A g : Changes(<<g, f[1], f[2]>>) \subseteq touched
      OBVIOUS
    <3>1. f[1] = operation /\ f[2] = <<path>>
      OBVIOUS
    <3> QED
      BY <2>1, <3>1
  <2> HIDE DEF Fine
  <2> QED
    BY <1>0, <2>2
<1>1. ASSUME NEW operations, operations \subseteq {"open", "read", "write", "truncate", "create", "unlink"},
             NEW path
      PROVE  Fine(OnePath(operations, path))
  <2> HIDE DEF Fine
  <2> QED
    BY <1>1, <1>q, <1>n DEF OnePath
<1>2. ASSUME NEW operation \in {"rename", "link", "symlink"}, NEW first, NEW second
      PROVE  Fine(TwoPath(operation, first, second))
  <2> DEFINE touched == IF operation = "rename" THEN {first, second} ELSE {second}
             fact == <<operation, <<first, second>>>>
  <2>1. /\ operation \in FileOperations /\ Len(<<first, second>>) > 0
        /\ \A g : Changes(<<g, operation, <<first, second>>>>) \subseteq touched
    <3>1. operation \in FileOperations /\ Len(<<first, second>>) > 0
      BY DEF FileOperations
    <3>2. ASSUME NEW g
          PROVE  Changes(<<g, operation, <<first, second>>>>) \subseteq touched
      <4> DEFINE h == <<g, operation, <<first, second>>>>
      <4>1. h[2] = operation /\ h[3][1] = first /\ h[3][2] = second
        OBVIOUS
      <4> HIDE DEF h
      <4>2. Changes(h) \subseteq touched
        BY <4>1 DEF Changes, Mutation
      <4> QED
        BY <4>2 DEF h
    <3> QED
      BY <3>1, <3>2
  <2>2. \A f \in {fact} : /\ f[1] \in FileOperations /\ Len(f[2]) > 0
                          /\ \A g : Changes(<<g, f[1], f[2]>>) \subseteq touched
    BY <2>1
  <2> HIDE DEF Fine, touched
  <2>3. Fine(Pending({fact}, touched))
    BY <1>0, <2>2
  <2> QED
    BY <2>3, <1>n DEF TwoPath, touched
<1>3. c.op = "open" => \A path : Fine(OpenFile(w, c.flags, path))
  <2> SUFFICES ASSUME c.op = "open", NEW path
               PROVE  Fine(OpenFile(w, c.flags, path))
    OBVIOUS
  <2> DEFINE made == IF w.readable /\ path \notin w.files THEN c.flags \cap {"create"} ELSE {}
             operations == {"open"} \cup (c.flags \cap {"truncate"}) \cup made
             touched == IF c.flags \cap {"create", "truncate"} = {} THEN {} ELSE {path}
  <2>1. operations \subseteq {"open", "read", "write", "truncate", "create", "unlink"}
    OBVIOUS
  <2>2. operations \cap Mutation # {} => path \in touched
    BY DEF Mutation
  <2>3. OpenFile(w, c.flags, path) =
          IF path = None THEN None
          ELSE Pending({<<operation, <<path>>>> : operation \in operations}, touched)
    BY DEF OpenFile
  <2> HIDE DEF operations, touched, Fine
  <2> QED
    BY <2>1, <2>2, <2>3, <1>q, <1>n
<1>4. c.op \in {"read", "write", "truncate", "mmap"} => Fine(OnFile(w, c))
  <2>1. c.op \in {"read", "write", "truncate", "mmap"} =>
          Fine(OnePath(c.operations, FileAt(w, c.fd)))
    BY <1>1 DEF WellFormed
  <2>2. \A p, v : p # None /\ Fine(p) => Fine([p EXCEPT !.requiresData = v])
    <3> SUFFICES ASSUME NEW p, NEW v, p # None, Fine(p)
                 PROVE  Fine([p EXCEPT !.requiresData = v])
      OBVIOUS
    <3>1. [p EXCEPT !.requiresData = v] = [facts |-> p.facts, touched |-> p.touched, requiresData |-> v]
      OBVIOUS
    <3> QED
      BY <3>1
  <2> HIDE DEF Fine
  <2> QED
    BY <2>1, <2>2, <1>n DEF OnFile
<1>5. c.op = "path" => Fine(OnePath({c.operation}, PathOf(w, c.path)))
  <2>1. c.op = "path" => {c.operation} \subseteq {"open", "read", "write", "truncate", "create", "unlink"}
    BY DEF WellFormed
  <2> QED
    BY <1>1, <2>1
<1>6. c.op = "pair" => \A first, second : Fine(TwoPath(c.operation, first, second))
  BY <1>2 DEF WellFormed
<1>7. Fine(DecodeFile(w, c))
  <2> HIDE DEF Fine
  <2> QED
    BY <1>3, <1>4, <1>5, <1>6, <1>n DEF DecodeFile
<1> QED
  BY <1>7

\* What is decoded is not nothing.
LEMMA PendingFacts ==
  ASSUME NEW facts, facts \subseteq FileOperations \X Seq(Paths), NEW touched, touched \subseteq Paths
  PROVE  /\ Pending(facts, touched) # None
         /\ \A v \in BOOLEAN : [facts |-> facts, touched |-> touched, requiresData |-> v] # None
<1>1. facts \in SUBSET (FileOperations \X Seq(Seq(Names))) /\ touched \in SUBSET Seq(Names)
  BY DEF Paths
<1>2. \A F, T : \A f \in F, p \in T, v \in BOOLEAN :
        [facts |-> f, touched |-> p, requiresData |-> v] \in
          [facts : F, touched : T, requiresData : BOOLEAN]
  OBVIOUS
<1>3. \A v \in BOOLEAN : [facts |-> facts, touched |-> touched, requiresData |-> v] \in Pendings
  BY <1>1, <1>2 DEF Pendings
<1> QED
  BY <1>3, PendingsAssumption DEF Pending

TouchesOf(w, c) == IF DecodeFile(w, c) = None THEN {} ELSE DecodeFile(w, c).touched

\* A call that makes the file it opens if there is none.
Makes(c) == c.op = "open" /\ "create" \in c.flags

\* What a call does to files is what is decoded of it before - but for the file
\* it makes, if that was there, or was not seen not to be there.
LEMMA DoFacts ==
  ASSUME PathsInv, NEW g \in Tids, NEW w, w.table = table[g], w.cwd = cwd[g],
         NEW c, WellFormed(c), NEW r, Do(g, c, r), ~(c.op = "path" /\ c.operation = "create")
  PROVE  /\ \A f \in FactsOf(w, c, r) :
              \/ <<g, f[1], f[2]>> \in happened'
              \/ f[1] = "create" /\ Makes(c) /\ f[2][1] \in files \ w.files
         /\ \A h \in happened' \ happened :
              h[2] \in FileOperations =>
                /\ h = <<g, h[2], h[3]>>
                /\ \/ <<h[2], h[3]>> \in FactsOf(w, c, r)
                   \/ /\ h[2] = "create" /\ Makes(c) /\ h[3][1] \in TouchesOf(w, c) \ files
                      /\ w.readable => h[3][1] \in w.files
<1> DEFINE facts == FactsOf(w, c, r)
           Goal == /\ \A f \in facts :
                        \/ <<g, f[1], f[2]>> \in happened'
                        \/ f[1] = "create" /\ Makes(c) /\ f[2][1] \in files \ w.files
                   /\ \A h \in happened' \ happened :
                        h[2] \in FileOperations =>
                          /\ h = <<g, h[2], h[3]>>
                          /\ \/ <<h[2], h[3]>> \in facts
                             \/ /\ h[2] = "create" /\ Makes(c) /\ h[3][1] \in TouchesOf(w, c) \ files
                                /\ w.readable => h[3][1] \in w.files
<1>1. ASSUME Happen(g, facts), \A f \in facts : f = <<f[1], f[2]>>
      PROVE  Goal
  BY <1>1 DEF Happen
<1>2. ASSUME facts = {}, NEW S, Happen(g, S), \A f \in S : f[1] \notin FileOperations
      PROVE  Goal
  BY <1>2 DEF Happen
<1>3. facts = {} /\ UNCHANGED happened => Goal
  OBVIOUS
<1>n. DecodeFile(w, c) = None => facts = {}
  BY DEF FactsOf
<1>p. ASSUME NEW S, NEW touched, DecodeFile(w, c) = Pending(S, touched), Pending(S, touched) # None, r # None
      PROVE  facts = S
  BY <1>p DEF FactsOf, Pending
<1>r. None # 0 /\ None # 1
  BY NamesAssumption
<1>l. /\ "close" # "open" /\ FileOperations \cap (SocketOperations \cup {"accept"}) = {}
  BY DEF FileOperations, SocketOperations
<1> HIDE DEF Goal, facts
<1>o. c.op \notin {"open", "read", "write", "truncate", "mmap", "path", "pair"} => facts = {}
  BY <1>n DEF DecodeFile
<1>4. (\/ DoClose(g, c, r) \/ DoDuplicate(g, c, r) \/ DoPipe(g, c, r) \/ DoChangeDirectory(g, c, r)
       \/ DoSocket(g, c, r) \/ DoName(g, c, r)) => Goal
  BY <1>3, <1>o DEF DoClose, DoDuplicate, DoPipe, DoChangeDirectory, DoSocket, DoName
<1>h. \A operation \in SocketOperations \cup {"accept"} : \A fd, endpoint :
        facts = {} /\ HappenAt(g, fd, operation, endpoint) => Goal
  <2> SUFFICES ASSUME NEW operation \in SocketOperations \cup {"accept"}, NEW x, facts = {},
                      Happen(g, {<<operation, x>>})
               PROVE  Goal
    BY DEF HappenAt
  <2>1. \A f \in {<<operation, x>>} : f[1] \notin FileOperations
    BY <1>l
  <2> QED
    BY <1>2, <2>1
<1>5. DoAccept(g, c, r) => Goal
  BY <1>h, <1>o DEF DoAccept
<1>6. ASSUME DoAddress(g, c, r)
      PROVE  Goal
  <2>1. facts = {}
    BY <1>6, <1>o DEF DoAddress
  <2>2. ASSUME NEW transport, NEW endpoints
        PROVE  \A f \in {<<"bind", <<transport, endpoint>>>> : endpoint \in endpoints} : f[1] \notin FileOperations
    BY DEF FileOperations
  <2>3. {"connect", "listen"} \subseteq SocketOperations
    BY DEF SocketOperations
  <2> QED
    BY <1>2, <1>6, <1>h, <2>1, <2>2, <2>3 DEF DoAddress
<1>7. ASSUME DoTransfer(g, c, r)
      PROVE  Goal
  <2>1. c.op \in {"read", "write"} => FileAt(w, c.fd) = None
    BY <1>7 DEF DoTransfer, Has, FileAt
  <2>2. facts = {}
    BY <1>7, <1>n, <1>o, <2>1 DEF DoTransfer, DecodeFile, OnFile, OnePath
  <2> DEFINE socket == SocketOf(g, c.fd)
             sends == c.op \in {"send", "write"}
             endpoint == IF c.endpoint = None THEN socket.peer ELSE c.endpoint
             answered == {<<"dns", <<q[2], c.dns.address>>>> : q \in
                            {q \in socket.asked : c.dns # None /\ q = <<c.dns.id, c.dns.host>>}}
             S == {<<IF sends THEN "send" ELSE "receive", <<socket.transport, endpoint>>>>}
                    \cup (IF sends THEN {} ELSE answered)
  <2>3. Happen(g, S)
    BY <1>7 DEF DoTransfer
  <2>4. \A f \in answered : f[1] = "dns"
    OBVIOUS
  <2> HIDE DEF answered
  <2>5. \A f \in S : f[1] \in {"send", "receive", "dns"}
    BY <2>4
  <2> HIDE DEF S
  <2>6. \A f \in S : f[1] \notin FileOperations
    BY <2>5 DEF FileOperations
  <2> QED
    BY <1>2, <2>2, <2>3, <2>6
<1>8. ASSUME DoOpen(g, c, r)
      PROVE  Goal
  <2> DEFINE T == Target(g, c.path)
             absent == w.readable /\ T \notin w.files
             operations == {"open"} \cup (c.flags \cap {"truncate"})
                             \cup (IF absent THEN c.flags \cap {"create"} ELSE {})
             touched == IF c.flags \cap {"create", "truncate"} = {} THEN {} ELSE {T}
             S == {<<operation, <<T>>>> : operation \in operations}
  <2>1. T \in Paths /\ T # None /\ PathOf(w, c.path) = T /\ c.op = "open" /\ r # None
    BY <1>8, TargetFacts, PathFacts DEF DoOpen, WellFormed
  <2>2. /\ Happen(g, OpenFacts(c.flags, T))
        /\ T \notin files => "create" \in c.flags
    BY <1>8 DEF DoOpen
  <2> HIDE DEF T
  <2>3. DecodeFile(w, c) = Pending(S, touched) /\ touched \subseteq Paths
    BY <2>1 DEF DecodeFile, OpenFile
  <2>4. S \subseteq FileOperations \X Seq(Paths)
    <3>1. operations \subseteq FileOperations
      BY DEF FileOperations
    <3>2. <<T>> \in Seq(Paths)
      BY <2>1
    <3>3. \A A, B : \A x \in B : A \subseteq FileOperations =>
            {<<operation, x>> : operation \in A} \subseteq FileOperations \X B
      OBVIOUS
    <3> HIDE DEF operations
    <3> QED
      BY <3>1, <3>2, <3>3
  <2>6. \A operation \in operations :
          \/ <<operation, <<T>>>> \in OpenFacts(c.flags, T)
          \/ operation = "create" /\ "create" \in c.flags /\ T \in files \ w.files
    BY DEF OpenFacts
  <2>7. \A f \in OpenFacts(c.flags, T) :
          /\ f = <<f[1], <<T>>>>
          /\ \/ f[1] \in operations
             \/ f[1] = "create" /\ "create" \in c.flags /\ T \in touched \ files /\ (w.readable => T \in w.files)
    BY <2>2 DEF OpenFacts
  <2> HIDE DEF operations, touched, absent
  <2>8. facts = S
    <3> HIDE DEF S
    <3> QED
      BY <2>1, <2>3, <2>4, <1>p, PendingFacts
  <2>5. TouchesOf(w, c) = touched
    <3>1. Pending(S, touched) # None
      BY <2>3, <2>4, PendingFacts
    <3> HIDE DEF S
    <3> QED
      BY <2>3, <3>1 DEF Pending, TouchesOf
  <2>9. ASSUME NEW f \in facts
        PROVE  \/ <<g, f[1], f[2]>> \in happened'
               \/ f[1] = "create" /\ Makes(c) /\ f[2][1] \in files \ w.files
    <3>1. PICK operation \in operations : f = <<operation, <<T>>>>
      BY <2>8, <2>9
    <3>2. f[1] = operation /\ f[2] = <<T>> /\ f[2][1] = T
      BY <3>1
    <3>3. CASE f \in OpenFacts(c.flags, T)
      BY <2>2, <3>3 DEF Happen
    <3> QED
      BY <2>1, <2>6, <3>1, <3>2, <3>3 DEF Makes
  <2>10. ASSUME NEW h \in happened' \ happened
         PROVE  /\ h = <<g, h[2], h[3]>>
                /\ \/ <<h[2], h[3]>> \in facts
                   \/ /\ h[2] = "create" /\ Makes(c) /\ h[3][1] \in TouchesOf(w, c) \ files
                      /\ w.readable => h[3][1] \in w.files
    <3>1. PICK f \in OpenFacts(c.flags, T) : h = <<g, f[1], f[2]>>
      BY <2>2, <2>10 DEF Happen
    <3>2. f = <<f[1], <<T>>>> /\ f[2] = <<T>>
      BY <2>7
    <3>3. h[2] = f[1] /\ h[3] = <<T>> /\ h[3][1] = T /\ h = <<g, h[2], h[3]>>
      BY <3>1, <3>2
    <3>4. CASE f[1] \in operations
      BY <2>8, <3>3, <3>4
    <3> QED
      BY <2>1, <2>5, <2>7, <3>3, <3>4 DEF Makes
  <2> QED
    BY <2>9, <2>10 DEF Goal
<1>9. ASSUME DoAccess(g, c, r)
      PROVE  Goal
  <2>1. CASE Has(g, c.fd, "other")
    <3>1. FileAt(w, c.fd) = None
      BY <2>1 DEF Has, FileAt
    <3>2. facts = {}
      BY <1>9, <1>n, <3>1 DEF DoAccess, DecodeFile, OnFile, OnePath
    <3> QED
      BY <1>3, <1>9, <2>1, <3>2 DEF DoAccess, Has
  <2>2. CASE Has(g, c.fd, "file")
    <3> DEFINE T == table[g][c.fd].path
               S == {<<operation, <<T>>>> : operation \in c.operations}
    <3>1. T \in Paths /\ T # None /\ FileAt(w, c.fd) = T
      BY <2>2, PathFacts DEF Has, FileAt, PathsInv, Object
    <3> HIDE DEF T
    <3>2. S \subseteq FileOperations \X Seq(Paths)
      <4>1. c.operations \subseteq FileOperations /\ <<T>> \in Seq(Paths)
        BY <1>9, <3>1 DEF DoAccess, FileOperations, WellFormed
      <4>2. \A A, B : \A x \in B : A \subseteq FileOperations =>
              {<<operation, x>> : operation \in A} \subseteq FileOperations \X B
        OBVIOUS
      <4> QED
        BY <4>1, <4>2
    <3> DEFINE touched == IF c.operations \cap Mutation = {} THEN {} ELSE {T}
    <3>3. OnePath(c.operations, FileAt(w, c.fd)) = Pending(S, touched) /\ touched \subseteq Paths
      BY <3>1 DEF OnePath
    <3>4. \A f \in S : f = <<f[1], f[2]>>
      OBVIOUS
    <3>5. r = 1 => Happen(g, S)
      BY <1>9, <2>2, <3>1 DEF DoAccess, Has, T
    <3>6. r = 0 => c.op = "read" /\ UNCHANGED happened
      BY <1>9, <1>r DEF DoAccess
    <3>7. r \in {0, 1}
      BY <1>9 DEF DoAccess
    <3> HIDE DEF S, touched
    <3>8. Pending(S, touched) # None
      BY <3>2, <3>3, PendingFacts
    <3>9. DecodeFile(w, c) = [Pending(S, touched) EXCEPT !.requiresData = c.op \in {"read", "write"}]
      BY <1>9, <3>3, <3>8 DEF DoAccess, DecodeFile, OnFile
    <3>v. \/ (c.op \in {"read", "write"}) = TRUE
          \/ (c.op \in {"read", "write"}) = FALSE /\ r # 0
      BY <3>6
    <3>10. PICK v \in BOOLEAN :
             /\ DecodeFile(w, c) = [facts |-> S, touched |-> touched, requiresData |-> v]
             /\ r = 0 => v = TRUE
      BY <3>9, <3>v DEF Pending
    <3>13. DecodeFile(w, c) # None
      BY <3>2, <3>3, <3>10, PendingFacts
    <3>11. CASE r = 0
      <4>1. facts = {}
        BY <3>10, <3>11 DEF FactsOf, facts
      <4> QED
        BY <1>3, <3>6, <3>11, <4>1
    <3>12. CASE r = 1
      <4>1. facts = S
        BY <3>8, <3>9, <3>10, <3>12, <3>13, <1>r DEF FactsOf, facts
      <4> QED
        BY <1>1, <3>4, <3>5, <3>12, <4>1
    <3> QED
      BY <3>7, <3>11, <3>12
  <2> QED
    BY <1>9, <2>1, <2>2 DEF DoAccess
<1>10. ASSUME DoPath(g, c, r)
      PROVE  Goal
  <2> DEFINE T == Target(g, c.path)
             S == {<<operation, <<T>>>> : operation \in {c.operation}}
  <2>1. T \in Paths /\ T # None /\ PathOf(w, c.path) = T /\ c.op = "path" /\ r = 0
    BY <1>10, TargetFacts, PathFacts DEF DoPath, WellFormed
  <2>2. Happen(g, S)
    <3>1. S = {<<c.operation, <<T>>>>}
      OBVIOUS
    <3> QED
      BY <1>10, <3>1 DEF DoPath
  <2>3. \A f \in S : f = <<f[1], f[2]>>
    OBVIOUS
  <2> HIDE DEF T
  <2>4. PICK touched : DecodeFile(w, c) = Pending(S, touched) /\ touched \subseteq Paths
    BY <2>1 DEF DecodeFile, OnePath
  <2>5. S \subseteq FileOperations \X Seq(Paths)
    <3>1. c.operation \in FileOperations
      BY <1>10, <2>1 DEF FileOperations, WellFormed
    <3>2. <<T>> \in Seq(Paths)
      BY <2>1
    <3>3. S = {<<c.operation, <<T>>>>}
      OBVIOUS
    <3>4. \A operation \in FileOperations, targets \in Seq(Paths) :
            {<<operation, targets>>} \subseteq FileOperations \X Seq(Paths)
      OBVIOUS
    <3> HIDE DEF S
    <3> QED
      BY <3>1, <3>2, <3>3, <3>4
  <2> HIDE DEF S
  <2>6. facts = S
    BY <2>1, <2>4, <2>5, <1>p, <1>r, PendingFacts
  <2> QED
    BY <1>1, <2>2, <2>3, <2>6
<1>11. ASSUME DoPair(g, c, r)
      PROVE  Goal
  <2> DEFINE T == IF c.operation = "symlink" THEN <<c.path.name>> ELSE Target(g, c.path)
             U == Target(g, c.second)
             fact == <<c.operation, <<T, U>>>>
             first == IF c.operation = "symlink" THEN <<c.path.name>> ELSE PathOf(w, c.path)
  <2>1. c.op = "pair" /\ r = 0 /\ {c.path.name, c.second.name} \subseteq Names
    BY <1>11 DEF DoPair, WellFormed
  <2>2. U \in Paths /\ U # None /\ PathOf(w, c.second) = U
    BY <1>11, <2>1, TargetFacts, PathFacts DEF DoPair
  <2>3. T \in Paths /\ T # None /\ first = T
    BY <1>11, <2>1, TargetFacts, PathFacts DEF DoPair
  <2>4. Happen(g, {fact})
    BY <1>11 DEF DoPair
  <2> HIDE DEF T, U, first
  <2>5. \A f \in {fact} : f = <<f[1], f[2]>>
    OBVIOUS
  <2>6. DecodeFile(w, c) = TwoPath(c.operation, T, U)
    BY <2>1, <2>2, <2>3 DEF DecodeFile, first
  <2>7. PICK touched : DecodeFile(w, c) = Pending({fact}, touched) /\ touched \subseteq Paths
    BY <2>2, <2>3, <2>6 DEF TwoPath
  <2>8. {fact} \subseteq FileOperations \X Seq(Paths)
    <3>1. c.operation \in FileOperations
      BY <2>1 DEF FileOperations, WellFormed
    <3>2. <<T, U>> \in Seq(Paths)
      BY <2>2, <2>3
    <3>4. \A operation \in FileOperations, targets \in Seq(Paths) :
            {<<operation, targets>>} \subseteq FileOperations \X Seq(Paths)
      OBVIOUS
    <3> QED
      BY <3>1, <3>2, <3>4
  <2> HIDE DEF fact
  <2>9. facts = {fact}
    BY <2>1, <2>7, <2>8, <1>p, <1>r, PendingFacts
  <2> QED
    BY <1>1, <2>4, <2>5, <2>9
<1> QED
  BY <1>4, <1>5, <1>6, <1>7, <1>8, <1>9, <1>10, <1>11 DEF Do, Goal, facts

-----------------------------------------------------------------------------
(* What is told of files. *)

\* No record is missing or mixed with another thread's.
Clear == Intact /\ "filesystem" \notin lost /\ blurred \cap {"overlap", "directory"} = {}

\* A thread is in a call that the collector has seen the beginning of, or has
\* come out of one and the collector has not seen the end.
Within(t) ==
  /\ call[t] # None
  /\ \/ at[t] = "running"
     \/ at[t] = "told" /\ t = cur /\ pc = "resume" /\ Stopped(t, "entry")
Leaving(t) == Stopped(t, "exit") /\ (at[t] = "stopped" \/ (at[t] = "told" /\ t = cur /\ pc = "handle"))

\* What /proc shows of the files of a thread's process.
Sight(t) == [table |-> table[group[t]], cwd |-> cwd[group[t]]]

\* w is what was seen before a thread's call: its process as it is, and the file
\* that the call may make as it is, if none has come in between.
Looked(t, w) ==
  /\ w.table = table[group[t]] /\ w.cwd = cwd[group[t]]
  /\ Makes(call[t].about) =>
       /\ w.readable \/ "unread" \in blurred
       /\ \/ "raced" \in blurred
          \/ \A p \in TouchedBy(processes[t].state) : p \in w.files <=> p \in files

\* What the collector will tell of the call a thread is leaving.
Awaited(t) == FileFacts(processes[t].state, call[t].result)

FileNotes == {n \in noted : n[2] \in FileOperations}
FilesDone == {h \in happened : h[2] \in FileOperations}
Hidden(targets) == \A i \in DOMAIN targets : targets[i] \in Ignored

\* A thread that is in a call runs, or has stopped before or after it.
AboutInv ==
  /\ \A t \in Tids : call[t] # None =>
       /\ at[t] \in {"running", "stopped", "told"}
       /\ stop[t] # None => stop[t].kind \in {"entry", "exit"}
  /\ pc = "start" => Stopped(Root, "initial")

\* What was decoded of a call is what its process still shows, and the files
\* it may change have been looked at.
PendingInv ==
  \A t \in Tids : Within(t) =>
    /\ t \in DOMAIN processes
    /\ \E w : Looked(t, w) /\ processes[t].state.file = DecodeFile(w, call[t].about)
    /\ TouchedBy(processes[t].state) \subseteq Ignored \cup DOMAIN snapshots

\* What is to be told of a call has happened.
LeavingInv ==
  \A t \in Tids : Leaving(t) =>
    /\ t \in DOMAIN processes
    /\ \A f \in Awaited(t) :
         Len(f[2]) > 0 /\ (f[1] \in Sure => <<group[t], f[1], f[2]>> \in FilesDone)

\* What happened to files is told, or will be when its thread leaves the call.
UsesInv ==
  \A h \in FilesDone :
    /\ h = <<h[1], h[2], h[3]>>
    /\ \/ h[2] \notin Seen \/ Hidden(h[3])
       \/ \E n \in FileNotes : GroupOf(n[1]) = h[1] /\ n[2] = h[2] /\ n[3] = h[3]
       \/ \E t \in Tids : Leaving(t) /\ group[t] = h[1] /\ <<h[2], h[3]>> \in Awaited(t)

\* What is told of files has happened.
NotesInv ==
  \A n \in FileNotes :
    /\ n[1] \in Identities /\ ~Hidden(n[3])
    /\ n[2] \in Sure => <<GroupOf(n[1]), n[2], n[3]>> \in FilesDone

\* Files that were changed had been looked at before.
StatesInv ==
  modified \subseteq Ignored \cup DOMAIN snapshots /\ \A p \in DOMAIN snapshots : snapshots[p]

ClearInv == PendingInv /\ LeavingInv /\ UsesInv /\ NotesInv /\ StatesInv

FilesInv ==
  /\ AboutInv /\ PathsInv
  /\ Clear => ClearInv
  /\ pc = "done" => deltas = DOMAIN snapshots

-----------------------------------------------------------------------------
\* The command begins when the collector does.
LEMMA NotStarted ==
  ASSUME TraceInv, pc = "start"
  PROVE  Root \in Tids /\ \A t \in Tids : at[t] # "running"
BY TidsAssumption DEF TraceInv, RootInv

\* What was doubtful stays so.
LEMMA SureFacts ==
  ASSUME blurred \subseteq blurred'
  PROVE  Sure' \subseteq Sure /\ Seen' \subseteq Seen
BY DEF Sure, Seen

\* A step that begins and ends no call.
LEMMA StepKeepsFiles ==
  ASSUME FilesInv, AboutInv', PathsInv', pc' = "done" => deltas' = DOMAIN snapshots',
         Clear' => Clear, UNCHANGED files, blurred \subseteq blurred',
         Clear' =>
           /\ UNCHANGED <<FileNotes, FilesDone, modified, snapshots>>
           /\ Identities \subseteq Identities'
           /\ \A i \in Identities : GroupOf(i)' = GroupOf(i),
         Clear' => \A t \in Tids : Within(t)' =>
           /\ Within(t) /\ call'[t] = call[t] /\ Sight(t)' = Sight(t)
           /\ t \in DOMAIN processes => t \in DOMAIN processes' /\ processes'[t].state = processes[t].state,
         Clear' => \A t \in Tids : (Leaving(t)' <=> Leaving(t)),
         Clear' => \A t \in Tids : Leaving(t) =>
           /\ group'[t] = group[t] /\ call'[t] = call[t]
           /\ t \in DOMAIN processes => t \in DOMAIN processes' /\ processes'[t].state = processes[t].state
  PROVE  FilesInv'
<1> SUFFICES ASSUME Clear'
             PROVE  ClearInv'
  BY DEF FilesInv
<1>i. ClearInv
  BY DEF FilesInv
<1>s. Sure' \subseteq Sure /\ Seen' \subseteq Seen
  BY SureFacts
<1>1. PendingInv'
  <2> SUFFICES ASSUME NEW t \in Tids, Within(t)'
               PROVE  /\ t \in DOMAIN processes'
                      /\ \E w : Looked(t, w)' /\ processes'[t].state.file = DecodeFile(w, call'[t].about)
                      /\ TouchedBy(processes'[t].state) \subseteq Ignored \cup DOMAIN snapshots'
    BY DEF PendingInv, TouchedBy
  <2>1. /\ t \in DOMAIN processes /\ Sight(t)' = Sight(t) /\ call'[t] = call[t]
        /\ t \in DOMAIN processes' /\ processes'[t].state = processes[t].state
        /\ TouchedBy(processes[t].state) \subseteq Ignored \cup DOMAIN snapshots
    BY <1>i DEF ClearInv, PendingInv
  <2>2. PICK w : Looked(t, w) /\ processes[t].state.file = DecodeFile(w, call[t].about)
    BY <1>i DEF ClearInv, PendingInv
  <2>3. Looked(t, w)'
    BY <2>1, <2>2 DEF Looked, Sight, TouchedBy
  <2> QED
    BY <2>1, <2>2, <2>3
<1>2. \A t \in Tids : Leaving(t) => Awaited(t)' = Awaited(t)
  BY <1>i DEF ClearInv, LeavingInv, Awaited
<1>3. LeavingInv'
  BY <1>2, <1>i, <1>s DEF ClearInv, LeavingInv
<1>4. NotesInv'
  BY <1>i, <1>s DEF ClearInv, NotesInv
<1>5. UsesInv'
  <2> SUFFICES ASSUME NEW h \in FilesDone
               PROVE  /\ h = <<h[1], h[2], h[3]>>
                      /\ \/ h[2] \notin Seen' \/ Hidden(h[3])
                         \/ \E n \in FileNotes : GroupOf(n[1])' = h[1] /\ n[2] = h[2] /\ n[3] = h[3]
                         \/ \E t \in Tids : Leaving(t)' /\ group'[t] = h[1] /\ <<h[2], h[3]>> \in Awaited(t)'
    BY DEF UsesInv, Hidden
  <2>1. \A n \in FileNotes : n[1] \in Identities
    BY <1>i DEF ClearInv, NotesInv
  <2> QED
    BY <2>1, <1>2, <1>i, <1>s DEF ClearInv, UsesInv
<1>6. StatesInv'
  BY <1>i DEF ClearInv, StatesInv
<1> QED
  BY <1>1, <1>3, <1>4, <1>5, <1>6 DEF ClearInv

\* Records are only ever lost.
LEMMA ClearBefore ==
  ASSUME odd \subseteq odd', blurred \subseteq blurred', lost \subseteq lost'
  PROVE  Clear' => Clear
BY DEF Clear, Intact, Quiet

\* A step of the command in which the processes stay as they are.
LEMMA CommandStepFiles ==
  ASSUME TraceInv, FilesInv, AboutInv',
         UNCHANGED <<group, table, cwd, files, FilesDone, modified, pc, cur, tableVars, sinkVars>>,
         odd \subseteq odd', blurred \subseteq blurred',
         Clear' => \A t \in Tids : (Within(t)' => Within(t) /\ call'[t] = call[t]),
         Clear' => \A t \in Tids : (Leaving(t)' <=> Leaving(t)) /\ (Leaving(t) => call'[t] = call[t])
  PROVE  FilesInv'
<1>1. UNCHANGED <<processes, snapshots, started, noted, deltas, lost>>
  BY DEF tableVars, sinkVars
<1>2. PathsInv' /\ (pc' = "done" => deltas' = DOMAIN snapshots')
  BY <1>1 DEF FilesInv, PathsInv, Object
<1>3. /\ UNCHANGED <<FileNotes, FilesDone, modified, snapshots>>
      /\ Identities \subseteq Identities'
      /\ \A i \in Identities : GroupOf(i)' = GroupOf(i)
      /\ \A t \in Tids : Sight(t)' = Sight(t)
  BY <1>1 DEF FileNotes, Identities, GroupOf, Sight
<1>4. Clear' => Clear
  BY <1>1, ClearBefore
<1> QED
  BY <1>1, <1>2, <1>3, <1>4, StepKeepsFiles

LEMMA EnterCallFiles ==
  ASSUME TraceInv, FilesInv, NEW t \in Tids, NEW c, EnterCall(t, c),
         UNCHANGED <<pc, cur, tableVars, sinkVars>>
  PROVE  FilesInv'
<1>y. at \in [Tids -> States] /\ stop \in [Tids -> Stops \cup {None}] /\ DOMAIN call = Tids
  BY DEF TraceInv, TypeOK, TypesInv
<1>a. at[t] = "running" /\ stop[t] = None /\ [kind |-> "entry"] # None
  BY StopFacts DEF EnterCall, Free
<1>c. \A x \in Tids : /\ at'[x] = IF x = t THEN "stopped" ELSE at[x]
                      /\ stop'[x] = IF x = t THEN [kind |-> "entry"] ELSE stop[x]
                      /\ x # t => call'[x] = call[x]
  BY <1>y DEF EnterCall
<1>1. AboutInv'
  BY <1>a, <1>c, NotStarted DEF FilesInv, AboutInv, Stopped
<1>2. UNCHANGED <<group, table, cwd, files, FilesDone, modified, odd, blurred>>
  BY DEF EnterCall, effects, FilesDone
<1>3. \A x \in Tids : /\ Within(x)' => Within(x) /\ call'[x] = call[x]
                      /\ Leaving(x)' <=> Leaving(x)
                      /\ Leaving(x) => call'[x] = call[x]
  BY <1>a, <1>c DEF Within, Leaving, Stopped
<1> QED
  BY <1>1, <1>2, <1>3, CommandStepFiles

\* A thread that is killed in a stop is never told of again.
LEMMA KilledFiles ==
  ASSUME TraceInv, FilesInv, NEW S \in SUBSET Tids, Killed(S),
         \A x \in S : at[x] \notin {"unborn", "dead", "zombie"},
         UNCHANGED <<group, effects, modified, blurred, pc, cur, tableVars, sinkVars>>,
         \A x \in Tids : stop'[x] = stop[x] \/ (at[x] = "running" /\ call[x] = None)
  PROVE  FilesInv'
<1>c. /\ \A x \in Tids : /\ at'[x] = IF x \notin S THEN at[x]
                                       ELSE IF at[x] = "untraced" THEN "dead" ELSE "zombie"
                         /\ call'[x] = IF x \in S THEN None ELSE call[x]
      /\ odd \subseteq odd'
      /\ Quiet' => \A x \in S : at[x] \notin {"stopped", "told"}
  BY DEF Killed, Quiet
<1>1. AboutInv'
  BY <1>c, NotStarted DEF FilesInv, AboutInv, Stopped
<1>2. UNCHANGED <<table, cwd, files, FilesDone>>
  BY DEF effects, FilesDone
<1>3. Clear' => \A x \in Tids : Within(x)' => Within(x) /\ call'[x] = call[x]
  BY <1>c DEF Within, Stopped, Clear, Intact
<1>4. Clear' => \A x \in Tids : (Leaving(x)' <=> Leaving(x)) /\ (Leaving(x) => call'[x] = call[x])
  BY <1>c DEF Leaving, Stopped, Clear, Intact
<1> QED
  BY <1>1, <1>2, <1>3, <1>4, <1>c, CommandStepFiles

LEMMA KillProcessFiles ==
  ASSUME TraceInv, FilesInv, NEW g \in Tids, KillProcess(g),
         UNCHANGED <<pc, cur, tableVars, sinkVars>>
  PROVE  FilesInv'
<1>s. Threads(g) \in SUBSET Tids /\ \A x \in Threads(g) : at[x] \notin {"unborn", "dead", "zombie"}
  BY DEF Threads, Alive, Ended
<1> QED
  BY <1>s, KilledFiles DEF KillProcess

LEMMA ExecFiles ==
  ASSUME TraceInv, FilesInv, NEW t \in Tids, Exec(t),
         UNCHANGED <<pc, cur, tableVars, sinkVars>>
  PROVE  FilesInv'
<1> DEFINE S == Threads(group[t]) \ {t}
<1>s. S \in SUBSET Tids /\ \A x \in S : at[x] \notin {"unborn", "dead", "zombie"}
  BY DEF Threads, Alive, Ended
<1>1. \A x \in Tids : stop'[x] = stop[x] \/ (at[x] = "running" /\ call[x] = None)
  BY DEF Exec, Free, TraceInv, TypeOK
<1>2. Killed(S) /\ UNCHANGED <<group, effects, modified, blurred>>
  BY DEF Exec
<1> HIDE DEF S
<1> QED
  BY <1>s, <1>1, <1>2, KilledFiles

LEMMA ExitFiles ==
  ASSUME TraceInv, FilesInv, NEW t \in Tids, Exit(t),
         UNCHANGED <<pc, cur, tableVars, sinkVars>>
  PROVE  FilesInv'
<1>y. at \in [Tids -> States]
  BY DEF TraceInv, TypeOK
<1>u. /\ UNCHANGED <<group, stop, call, effects, modified, blurred, odd>>
      /\ at[t] \in {"running", "untraced"} /\ stop[t] = None /\ call[t] = None
      /\ \A x \in Tids : at'[x] = IF x # t THEN at[x]
                                   ELSE IF at[t] = "running" THEN "zombie" ELSE "dead"
  BY <1>y DEF Exit
<1>1. AboutInv'
  BY <1>u, NotStarted DEF FilesInv, AboutInv, Stopped
<1>2. UNCHANGED <<table, cwd, files, FilesDone>>
  BY <1>u DEF effects, FilesDone
<1>3. \A x \in Tids : /\ Within(x)' => Within(x) /\ call'[x] = call[x]
                      /\ Leaving(x)' <=> Leaving(x)
                      /\ Leaving(x) => call'[x] = call[x]
  BY <1>u DEF Within, Leaving, Stopped
<1> QED
  BY <1>1, <1>2, <1>3, <1>u, CommandStepFiles

LEMMA ForkFiles ==
  ASSUME TraceInv, FilesInv, NEW t \in Tids, NEW c \in Tids, NEW thread \in BOOLEAN,
         Fork(t, c, thread), UNCHANGED <<pc, cur, tableVars, sinkVars>>
  PROVE  FilesInv'
<1>y. /\ at \in [Tids -> States] /\ stop \in [Tids -> Stops \cup {None}]
      /\ group \in [Tids -> Tids]
  BY DEF TraceInv, TypeOK, TypesInv
<1>a. /\ at[t] = "running" /\ stop[t] = None /\ call[t] = None
      /\ at[c] = "unborn" /\ t # c /\ group[c] = c
      /\ c \notin Registered /\ \A x \in Tids \ {c} : at[x] # "unborn" => group[x] # c
  BY DEF Fork, Free, TraceInv, GroupInv, RegisteredInv
<1>g. PICK g \in Tids : g = group[t]
  BY <1>y
<1>c. /\ \A x \in Tids :
           /\ at'[x] = IF x \in {t, c} THEN "stopped" ELSE at[x]
           /\ x \notin {t, c} => stop'[x] = stop[x]
           /\ x # c => group'[x] = group[x] /\ table'[x] = table[x] /\ cwd'[x] = cwd[x]
      /\ Stopped(t, "fork")' /\ Stopped(c, "initial")'
  BY <1>a, <1>y, StopFacts DEF Fork, Stopped, FilesInv, PathsInv
<1>u. /\ UNCHANGED <<call, files, happened, modified, blurred, odd, pc, cur, processes, snapshots,
                    started, noted, deltas, lost>>
  BY DEF Fork, tableVars, sinkVars
<1>1. AboutInv'
  BY <1>a, <1>c, <1>u, NotStarted DEF FilesInv, AboutInv, Stopped
<1>2. PathsInv'
  <2>1. /\ DOMAIN table' = Tids /\ DOMAIN cwd' = Tids
        /\ table'[c] \in {table[c], table[g]} /\ cwd'[c] \in {cwd[c], cwd[g]}
    BY <1>g DEF Fork, FilesInv, PathsInv
  <2> QED
    BY <2>1, <1>c DEF FilesInv, PathsInv, Object
<1>3. /\ UNCHANGED <<FileNotes, FilesDone, modified, snapshots>>
      /\ Identities \subseteq Identities'
  BY <1>u DEF FileNotes, FilesDone, Identities
<1>4. \A i \in Identities : GroupOf(i)' = GroupOf(i)
  BY <1>a, <1>c, <1>u DEF GroupOf, Registered, Identities, TraceInv, TypesInv
<1>5. \A x \in Tids : Within(x)' => Within(x) /\ call'[x] = call[x] /\ Sight(x)' = Sight(x)
  <2> SUFFICES ASSUME NEW x \in Tids, Within(x)'
               PROVE  Within(x) /\ call'[x] = call[x] /\ Sight(x)' = Sight(x)
    OBVIOUS
  <2>1. x \notin {t, c} /\ Within(x) /\ call'[x] = call[x] /\ at[x] # "unborn"
    BY <1>a, <1>c, <1>u DEF Within, Stopped
  <2>2. PICK k \in Tids : k = group[x]
    BY <1>y
  <2>3. k # c /\ group'[x] = k /\ table'[k] = table[k] /\ cwd'[k] = cwd[k]
    BY <2>1, <2>2, <1>a, <1>c
  <2> QED
    BY <2>1, <2>2, <2>3 DEF Sight
<1>6. \A x \in Tids : (Leaving(x)' <=> Leaving(x)) /\ (Leaving(x) => group'[x] = group[x] /\ call'[x] = call[x])
  BY <1>a, <1>c, <1>u DEF Leaving, Stopped
<1>7. (pc' = "done" => deltas' = DOMAIN snapshots') /\ (Clear' => Clear)
  BY <1>u, ClearBefore DEF FilesInv
<1> QED
  BY <1>1, <1>2, <1>3, <1>4, <1>5, <1>6, <1>7, <1>u, StepKeepsFiles

LEMMA ExecDoneFiles ==
  ASSUME TraceInv, FilesInv, NEW t \in Tids, ExecDone(t),
         UNCHANGED <<pc, cur, tableVars, sinkVars>>
  PROVE  FilesInv'
<1>g. PICK g \in Tids : g = group[t]
  BY DEF TraceInv, TypesInv
<1>y. /\ at \in [Tids -> States] /\ stop \in [Tids -> Stops \cup {None}]
      /\ group \in [Tids -> Tids]
  BY DEF TraceInv, TypeOK, TypesInv
<1>a. /\ at[t] = "running" /\ Stopped(t, "exec") /\ call[t] = None
      /\ \A x \in Tids \ {t} : group[x] = g => at[x] \in {"zombie", "dead"}
      /\ group[g] = g
  BY <1>g, <1>y, StopFacts DEF ExecDone, TraceInv, StopInv, GroupInv, Stopped
<1>n. \A x \in Tids : group[x] = g => call[x] = None /\ at[x] \notin {"stopped", "told"}
  BY <1>a DEF FilesInv, AboutInv
<1>c. /\ \A x \in Tids : /\ at'[x] = IF x = g THEN "stopped" ELSE IF x = t THEN "dead" ELSE at[x]
                         /\ stop'[x] = IF x = g THEN stop[t] ELSE IF x = t THEN None ELSE stop[x]
                         /\ x # g => table'[x] = table[x]
      /\ happened' = happened \cup {<<g, "exec", <<>>>>}
      /\ DOMAIN table' = Tids
      /\ \A fd \in DOMAIN table'[g] : fd \in DOMAIN table[g] /\ table'[g][fd] = table[g][fd]
  BY <1>g, <1>y DEF ExecDone, FilesInv, PathsInv, Without
<1>u. /\ UNCHANGED <<group, call, cwd, files, modified, blurred, odd, pc, cur, processes, snapshots,
                    started, noted, deltas, lost>>
  BY DEF ExecDone, tableVars, sinkVars
<1>1. AboutInv'
  BY <1>a, <1>n, <1>g, <1>c, <1>u, NotStarted DEF FilesInv, AboutInv, Stopped
<1>2. PathsInv'
  BY <1>c, <1>u DEF FilesInv, PathsInv, Object
<1>3. /\ UNCHANGED <<FileNotes, FilesDone, modified, snapshots>>
      /\ Identities \subseteq Identities'
      /\ \A i \in Identities : GroupOf(i)' = GroupOf(i)
  BY <1>c, <1>u DEF FileNotes, FilesDone, Identities, GroupOf, FileOperations
<1>4. \A x \in Tids : Within(x)' => Within(x) /\ call'[x] = call[x] /\ Sight(x)' = Sight(x)
  <2> SUFFICES ASSUME NEW x \in Tids, Within(x)'
               PROVE  Within(x) /\ call'[x] = call[x] /\ Sight(x)' = Sight(x)
    OBVIOUS
  <2>1. x \notin {t, g} /\ Within(x) /\ call'[x] = call[x] /\ group[x] # g
    BY <1>a, <1>n, <1>g, <1>c, <1>u DEF Within, Stopped
  <2>2. PICK k \in Tids : k = group[x]
    BY <1>y
  <2>3. k # g /\ group'[x] = k /\ table'[k] = table[k] /\ cwd'[k] = cwd[k]
    BY <2>1, <2>2, <1>c, <1>u
  <2> QED
    BY <2>1, <2>2, <2>3 DEF Sight
<1>5. \A x \in Tids : (Leaving(x)' <=> Leaving(x)) /\ group'[x] = group[x] /\ call'[x] = call[x]
  BY <1>a, <1>n, <1>g, <1>c, <1>u DEF Leaving, Stopped
<1>6. (pc' = "done" => deltas' = DOMAIN snapshots') /\ (Clear' => Clear)
  BY <1>u, ClearBefore DEF FilesInv
<1> QED
  BY <1>1, <1>2, <1>3, <1>4, <1>5, <1>6, <1>u, StepKeepsFiles

-----------------------------------------------------------------------------
\* What a call does to the tables is done to those of its process.
LEMMA DoFrame ==
  ASSUME PathsInv, NEW g \in Tids, NEW c, WellFormed(c), NEW r, Do(g, c, r)
  PROVE  PathsInv' /\ \A h \in Tids \ {g} : table'[h] = table[h] /\ cwd'[h] = cwd[h]
<1> DEFINE Goal == PathsInv' /\ \A h \in Tids \ {g} : table'[h] = table[h] /\ cwd'[h] = cwd[h]
<1>1. UNCHANGED <<table, cwd>> => Goal
  BY DEF PathsInv, Object
<1>2. ASSUME NEW fd, NEW object, table' = [table EXCEPT ![g] = With(@, fd, object)],
             Object(object), UNCHANGED cwd
      PROVE  Goal
  <2>1. /\ DOMAIN table' = Tids /\ \A h \in Tids \ {g} : table'[h] = table[h]
        /\ \A x \in DOMAIN table'[g] :
             table'[g][x] = object \/ (x \in DOMAIN table[g] /\ table'[g][x] = table[g][x])
    BY <1>2 DEF With, PathsInv
  <2>2. \A x \in DOMAIN table'[g] : Object(table'[g][x])
    BY <1>2, <2>1 DEF PathsInv, Object
  <2> QED
    BY <1>2, <2>1, <2>2 DEF PathsInv, Object
<1>o. /\ Object(Untold) /\ \A id : Object(Socket(id))
      /\ \A path \in Paths : \A cloexec : Object(File(path, cloexec))
      /\ \A fd \in DOMAIN table[g] : Object([table[g][fd] EXCEPT !.cloexec = FALSE])
  <2>1. Object(Untold) /\ \A id : Object(Socket(id))
    BY DEF Object, Untold, Socket
  <2>2. \A path \in Paths : \A cloexec : Object(File(path, cloexec))
    BY DEF Object, File
  <2>3. \A fd \in DOMAIN table[g] : Object([table[g][fd] EXCEPT !.cloexec = FALSE])
    BY DEF Object, PathsInv
  <2> QED
    BY <2>1, <2>2, <2>3
<1> HIDE DEF Goal
<1>3. DoOpen(g, c, r) => Goal
  <2>1. DoOpen(g, c, r) => Target(g, c.path) \in Paths
    <3> DEFINE w == [table |-> table[g], cwd |-> cwd[g]]
    <3>1. w.table = table[g] /\ w.cwd = cwd[g]
      OBVIOUS
    <3> HIDE DEF w
    <3> QED
      BY <3>1, TargetFacts DEF DoOpen, WellFormed
  <2> QED
    BY <2>1, <1>2, <1>o DEF DoOpen
<1>4. DoClose(g, c, r) => Goal
  BY DEF DoClose, Without, Goal, PathsInv, Object
<1>5. DoDuplicate(g, c, r) \/ DoPipe(g, c, r) \/ DoSocket(g, c, r) \/ DoAccept(g, c, r) => Goal
  BY <1>2, <1>o DEF DoDuplicate, DoPipe, DoSocket, DoAccept, Install
<1>6. DoChangeDirectory(g, c, r) => Goal
  <2> SUFFICES ASSUME DoChangeDirectory(g, c, r)
               PROVE  Goal
    OBVIOUS
  <2>1. PICK path \in Paths : cwd' = [cwd EXCEPT ![g] = path]
    <3> DEFINE w == [table |-> table[g], cwd |-> cwd[g]]
    <3>1. w.table = table[g] /\ w.cwd = cwd[g]
      OBVIOUS
    <3> HIDE DEF w
    <3>2. CASE c.op = "chdir" /\ Resolves(g, c.path) /\ cwd' = [cwd EXCEPT ![g] = Target(g, c.path)]
      BY <3>1, <3>2, TargetFacts DEF WellFormed
    <3>3. CASE c.op = "fchdir" /\ Has(g, c.fd, "file") /\ cwd' = [cwd EXCEPT ![g] = table[g][c.fd].path]
      <4>1. table[g][c.fd].path \in Paths
        BY <3>3 DEF Has, PathsInv, Object
      <4> QED
        BY <3>3, <4>1
    <3> QED
      BY <3>2, <3>3 DEF DoChangeDirectory
  <2>2. UNCHANGED table
    BY DEF DoChangeDirectory
  <2> QED
    BY <2>1, <2>2 DEF Goal, PathsInv, Object
<1>7. DoAccess(g, c, r) \/ DoPath(g, c, r) \/ DoPair(g, c, r) \/ DoAddress(g, c, r) \/ DoName(g, c, r)
        \/ DoTransfer(g, c, r) => Goal
  <2>1. DoAccess(g, c, r) \/ DoPath(g, c, r) \/ DoPair(g, c, r) => UNCHANGED <<table, cwd>>
    BY DEF DoAccess, DoPath, DoPair
  <2>2. DoAddress(g, c, r) \/ DoName(g, c, r) => UNCHANGED <<table, cwd>>
    BY DEF DoAddress, DoName
  <2>3. DoTransfer(g, c, r) => UNCHANGED <<table, cwd>>
    BY DEF DoTransfer
  <2> QED
    BY <2>1, <2>2, <2>3, <1>1
<1>8. Goal
  BY <1>3, <1>4, <1>5, <1>6, <1>7 DEF Do
<1> QED
  BY <1>8 DEF Goal

\* The call of a thread whose process has no other in a call does what was
\* decoded of it.
LEMMA ReturnFromCallFiles ==
  ASSUME TraceInv, ToldInv, FilesInv, NEW t \in Tids, ReturnFromCall(t),
         UNCHANGED <<pc, cur, tableVars, sinkVars>>
  PROVE  FilesInv'
<1>y. /\ at \in [Tids -> States] /\ stop \in [Tids -> Stops \cup {None}] /\ DOMAIN call = Tids
      /\ group \in [Tids -> Tids]
  BY DEF TraceInv, TypeOK, TypesInv
<1>g. PICK g \in Tids : g = group[t]
  BY <1>y
<1>d. PICK c : c = call[t].about
  OBVIOUS
<1>a. /\ at[t] = "running" /\ stop[t] = None /\ call[t] # None
      /\ call[t] = [about |-> c, result |-> call[t].result] /\ WellFormed(c)
  BY <1>d DEF ReturnFromCall, TraceInv, StopInv, ToldInv, CallsInv
<1>r. PICK r : /\ Do(g, c, r) \/ (r = None /\ DoNothing)
               /\ call' = [call EXCEPT ![t].result = r]
  BY <1>d, <1>g DEF ReturnFromCall
<1>c. \A x \in Tids : /\ at'[x] = IF x = t THEN "stopped" ELSE at[x]
                      /\ stop'[x] = IF x = t THEN [kind |-> "exit"] ELSE stop[x]
                      /\ call'[x] = IF x = t THEN [about |-> c, result |-> r] ELSE call[x]
  BY <1>y, <1>a, <1>r DEF ReturnFromCall
<1>u. /\ UNCHANGED <<group, pc, cur, processes, snapshots, started, noted, deltas, lost>>
      /\ modified' = modified \cup UNION {Changes(fact) : fact \in happened' \ happened}
      /\ blurred' = blurred \cup Blurs(t, c) \cup Races(t)
  BY <1>d DEF ReturnFromCall, tableVars, sinkVars
<1>1. AboutInv'
  BY <1>a, <1>c, <1>u, NotStarted DEF FilesInv, AboutInv, Stopped
<1>2. PathsInv' /\ \A h \in Tids \ {g} : table'[h] = table[h] /\ cwd'[h] = cwd[h]
  <2>1. CASE Do(g, c, r)
    BY <2>1, <1>a, DoFrame DEF FilesInv
  <2>2. CASE DoNothing
    BY <2>2 DEF DoNothing, FilesInv, PathsInv, Object
  <2> QED
    BY <2>1, <2>2, <1>r
<1>3. (Clear' => Clear) /\ (pc' = "done" => deltas' = DOMAIN snapshots')
  <2>1. odd \subseteq odd'
    BY <1>r, OddGrows DEF DoNothing
  <2> QED
    BY <2>1, <1>u, ClearBefore DEF FilesInv
<1> SUFFICES ASSUME Clear'
             PROVE  ClearInv'
  BY <1>1, <1>2, <1>3 DEF FilesInv
<1>i. PendingInv /\ LeavingInv /\ UsesInv /\ NotesInv /\ StatesInv
  BY <1>3 DEF FilesInv, ClearInv
<1>4. /\ ~(c.op = "path" /\ c.operation = "create")
      /\ \A x \in Tids \ {t} : group[x] = g /\ call[x] # None => ~Alive(x)
  <2>1. Blurs(t, c) \cap {"overlap", "directory"} = {}
    BY <1>u DEF Clear
  <2>2. ~(c.op = "path" /\ c.operation = "create")
    BY <2>1 DEF Blurs
  <2>3. ~\E o \in Threads(g) \ {t} : call[o] # None
    BY <2>1, <1>g DEF Blurs
  <2> QED
    BY <2>2, <2>3 DEF Threads
<1>s. Sure' \subseteq Sure /\ Seen' \subseteq Seen
  BY <1>u, SureFacts
<1>w. PICK w : Looked(t, w) /\ processes[t].state.file = DecodeFile(w, c)
  BY <1>i, <1>a, <1>d DEF PendingInv, Within
<1>5. /\ t \in DOMAIN processes
      /\ processes[t].state.file = DecodeFile(w, c)
      /\ TouchedBy(processes[t].state) \subseteq Ignored \cup DOMAIN snapshots
      /\ w.table = table[g] /\ w.cwd = cwd[g]
  BY <1>i, <1>a, <1>g, <1>w DEF PendingInv, Within, Looked
<1>v. Makes(c) => /\ w.readable \/ "create" \notin Seen
                  /\ "create" \in Sure =>
                       \A p \in TouchedBy(processes[t].state) : p \in w.files <=> p \in files
  BY <1>d, <1>w DEF Looked, Sure, Seen
<1>p. PICK F : F = FactsOf(w, c, r)
  OBVIOUS
<1>f. \A f \in F : /\ f[1] \in FileOperations /\ Len(f[2]) > 0
                   /\ Changes(<<g, f[1], f[2]>>) \subseteq TouchedBy(processes[t].state)
                   /\ f[1] = "create" => f[2][1] \in TouchedBy(processes[t].state)
  <2> SUFFICES ASSUME NEW f \in F
               PROVE  /\ f[1] \in FileOperations /\ Len(f[2]) > 0
                      /\ Changes(<<g, f[1], f[2]>>) \subseteq TouchedBy(processes[t].state)
                      /\ f[1] = "create" => f[2][1] \in TouchedBy(processes[t].state)
    OBVIOUS
  <2>1. DecodeFile(w, c) # None /\ f \in DecodeFile(w, c).facts
    BY <1>p DEF FactsOf
  <2>2. TouchedBy(processes[t].state) = DecodeFile(w, c).touched
    BY <2>1, <1>5 DEF TouchedBy
  <2>3. f[1] = "create" => Changes(<<g, f[1], f[2]>>) = {f[2][1]}
    BY DEF Changes, Mutation
  <2> QED
    BY <2>1, <2>2, <2>3, <1>a, DecodedFacts
<1>6. /\ happened \subseteq happened'
      /\ \A f \in F : f[1] \in Sure => <<g, f[1], f[2]>> \in happened'
      /\ \A h \in happened' \ happened :
           h[2] \in FileOperations =>
             /\ h = <<g, h[2], h[3]>>
             /\ \/ <<h[2], h[3]>> \in F
                \/ h[2] = "create" /\ "create" \notin Seen /\ h[3][1] \in TouchedBy(processes[t].state)
  <2>1. CASE Do(g, c, r)
    <3>1. happened \subseteq happened'
      BY <2>1, <1>a, DoTells
    <3>2. /\ \A f \in F :
               \/ <<g, f[1], f[2]>> \in happened'
               \/ f[1] = "create" /\ Makes(c) /\ f[2][1] \in files \ w.files
          /\ \A h \in happened' \ happened :
               h[2] \in FileOperations =>
                 /\ h = <<g, h[2], h[3]>>
                 /\ \/ <<h[2], h[3]>> \in F
                    \/ /\ h[2] = "create" /\ Makes(c) /\ h[3][1] \in TouchesOf(w, c) \ files
                       /\ w.readable => h[3][1] \in w.files
      BY <2>1, <1>a, <1>4, <1>5, <1>p, DoFacts DEF FilesInv
    <3>3. \A f \in F : f[1] \in Sure => <<g, f[1], f[2]>> \in happened'
      BY <3>2, <1>f, <1>v
    <3>4. ASSUME NEW h \in happened' \ happened, h[2] = "create", Makes(c),
                 h[3][1] \in TouchesOf(w, c) \ files, w.readable => h[3][1] \in w.files
          PROVE  "create" \notin Seen /\ h[3][1] \in TouchedBy(processes[t].state)
      <4>2. h[3][1] \in TouchedBy(processes[t].state)
        BY <3>4, <1>5 DEF TouchedBy, TouchesOf
      <4> QED
        BY <3>4, <4>2, <1>v DEF Seen
    <3> QED
      BY <3>1, <3>2, <3>3, <3>4
  <2>2. CASE r = None /\ DoNothing
    BY <2>2, <1>p DEF DoNothing, FactsOf
  <2> QED
    BY <2>1, <2>2, <1>r
<1>8. /\ Leaving(t)' /\ Awaited(t)' = F /\ ~Leaving(t) /\ ~Within(t)'
      /\ \A x \in Tids \ {t} : /\ Leaving(x)' <=> Leaving(x)
                               /\ Awaited(x)' = Awaited(x)
                               /\ Within(x)' => Within(x)
  <2>1. Leaving(t)' /\ ~Leaving(t) /\ ~Within(t)'
    BY <1>a, <1>c, StopFacts DEF Leaving, Within, Stopped
  <2>2. Awaited(t)' = F
    BY <1>c, <1>u, <1>5, <1>p DEF Awaited, FileFacts, FactsOf
  <2>3. \A x \in Tids \ {t} : /\ Leaving(x)' <=> Leaving(x)
                              /\ Awaited(x)' = Awaited(x)
                              /\ Within(x)' => Within(x)
    BY <1>c, <1>u DEF Leaving, Within, Stopped, Awaited
  <2> QED
    BY <2>1, <2>2, <2>3
<1>9. FilesDone \subseteq FilesDone'
  BY <1>6 DEF FilesDone
<1>10. PendingInv'
  <2> SUFFICES ASSUME NEW x \in Tids, Within(x)'
               PROVE  /\ x \in DOMAIN processes
                      /\ \E v : Looked(x, v)' /\ processes[x].state.file = DecodeFile(v, call'[x].about)
                      /\ TouchedBy(processes[x].state) \subseteq Ignored \cup DOMAIN snapshots
    BY <1>u DEF PendingInv, TouchedBy
  <2>1. x # t /\ Within(x) /\ call'[x] = call[x]
    BY <1>8, <1>c
  <2>2. PICK k \in Tids : k = group[x]
    BY <1>y
  <2>3. k # g
    BY <2>1, <2>2, <1>4 DEF Within, Alive, Ended
  <2>4. table'[group[x]] = table[group[x]] /\ cwd'[group[x]] = cwd[group[x]]
    BY <2>2, <2>3, <1>2
  <2>5. PICK v : Looked(x, v) /\ processes[x].state.file = DecodeFile(v, call[x].about)
    BY <2>1, <1>i DEF PendingInv
  <2>6. x \in DOMAIN processes /\ TouchedBy(processes[x].state) \subseteq Ignored \cup DOMAIN snapshots
    BY <2>1, <1>i DEF PendingInv
  <2>7. ASSUME Makes(call[x].about), "raced" \notin blurred', NEW p \in TouchedBy(processes[x].state)
        PROVE  p \in files' <=> p \in files
    <3>1. "raced" \notin Races(t)
      BY <2>7, <1>u
    <3>2. call[x] # None /\ stop[x] # [kind |-> "exit"]
      <4>1. call[x] # None /\ (at[x] = "running" \/ Stopped(x, "entry"))
        BY <2>1 DEF Within
      <4>2. at[x] = "running" => stop[x] = None
        BY <4>1 DEF TraceInv, StopInv
      <4>3. [kind |-> "exit"] # None /\ [kind |-> "exit"].kind = "exit"
        BY StopFacts
      <4> QED
        BY <4>1, <4>2, <4>3 DEF Stopped
    <3>3. processes[x].state.file # None
      BY <2>7 DEF TouchedBy
    <3>4. Probed(x) /\ p \in processes[x].state.file.touched
      BY <2>6, <2>7, <3>2, <3>3 DEF Probed, Makes, TouchedBy
    <3> QED
      BY <2>1, <3>1, <3>4 DEF Races
  <2>8. Looked(x, v)'
    BY <2>1, <2>4, <2>5, <2>7, <1>u DEF Looked, TouchedBy
  <2> QED
    BY <2>1, <2>5, <2>6, <2>8
<1>11. LeavingInv'
  <2>1. \A x \in Tids \ {t} : Leaving(x)' =>
          /\ x \in DOMAIN processes
          /\ \A f \in Awaited(x)' :
               Len(f[2]) > 0 /\ (f[1] \in Sure' => <<group[x], f[1], f[2]>> \in FilesDone')
    BY <1>i, <1>8, <1>9, <1>s DEF LeavingInv
  <2>2. \A f \in Awaited(t)' :
          Len(f[2]) > 0 /\ (f[1] \in Sure' => <<group[t], f[1], f[2]>> \in FilesDone')
    BY <1>6, <1>f, <1>8, <1>g, <1>s DEF FilesDone
  <2> QED
    BY <2>1, <2>2, <1>5, <1>u DEF LeavingInv
<1>12. UsesInv'
  <2>1. FileNotes' = FileNotes /\ \A i : GroupOf(i)' = GroupOf(i)
    BY <1>u DEF FileNotes, GroupOf
  <2> SUFFICES ASSUME NEW h \in FilesDone'
               PROVE  /\ h = <<h[1], h[2], h[3]>>
                      /\ \/ h[2] \notin Seen' \/ Hidden(h[3])
                         \/ \E n \in FileNotes : GroupOf(n[1]) = h[1] /\ n[2] = h[2] /\ n[3] = h[3]
                         \/ \E x \in Tids : Leaving(x)' /\ group[x] = h[1] /\ <<h[2], h[3]>> \in Awaited(x)'
    BY <2>1, <1>u DEF UsesInv, Hidden
  <2>2. CASE h \in FilesDone
    BY <2>2, <1>i, <1>8, <1>s DEF UsesInv
  <2>3. CASE h \notin FilesDone
    <3>1. h = <<g, h[2], h[3]>> /\ (h[2] \in Seen => <<h[2], h[3]>> \in F)
      BY <2>3, <1>6 DEF FilesDone
    <3>2. h[1] = g
      BY <3>1
    <3> QED
      BY <3>1, <3>2, <1>8, <1>g, <1>s
  <2> QED
    BY <2>2, <2>3
<1>13. NotesInv'
  <2>1. FileNotes' = FileNotes /\ Identities' = Identities /\ \A i : GroupOf(i)' = GroupOf(i)
    BY <1>u DEF FileNotes, GroupOf, Identities
  <2> QED
    BY <2>1, <1>i, <1>9, <1>s DEF NotesInv, Hidden
<1>14. StatesInv'
  <2>1. ASSUME NEW h \in happened' \ happened
        PROVE  Changes(h) \subseteq Ignored \cup DOMAIN snapshots
    <3>1. CASE h[2] \in FileOperations
      <4>1. CASE <<h[2], h[3]>> \in F
        <5>1. PICK f \in F : h = <<g, f[1], f[2]>>
          BY <3>1, <4>1, <1>6
        <5> QED
          BY <5>1, <1>5, <1>f
      <4>2. CASE h[2] = "create" /\ h[3][1] \in TouchedBy(processes[t].state)
        <5>1. Changes(h) = {h[3][1]}
          BY <4>2 DEF Changes, Mutation
        <5> QED
          BY <4>2, <5>1, <1>5
      <4> QED
        BY <3>1, <4>1, <4>2, <1>6
    <3>2. CASE h[2] \notin FileOperations
      BY <3>2 DEF Changes, FileOperations, Mutation
    <3> QED
      BY <3>1, <3>2
  <2> QED
    BY <2>1, <1>i, <1>u DEF StatesInv
<1> QED
  BY <1>10, <1>11, <1>12, <1>13, <1>14 DEF ClearInv

\* A step of the collector that tells of no file and ends no call.
LEMMA CollectorStepFiles ==
  ASSUME FilesInv, AboutInv',
         UNCHANGED <<group, table, cwd, files, happened, modified, FileNotes, snapshots>>,
         odd \subseteq odd', blurred \subseteq blurred', lost \subseteq lost',
         pc' = "done" => deltas' = DOMAIN snapshots',
         Clear' => \A i \in Identities : i \in Identities' /\ started'[i].thread = started[i].thread,
         Clear' => \A t \in Tids : Within(t)' => Within(t) /\ call'[t] = call[t],
         Clear' => \A t \in Tids : (Leaving(t)' <=> Leaving(t)) /\ (Leaving(t) => call'[t] = call[t]),
         Clear' => \A t \in DOMAIN processes : (Within(t)' \/ Leaving(t)) =>
                     t \in DOMAIN processes' /\ processes'[t].state = processes[t].state
  PROVE  FilesInv'
<1>1. PathsInv'
  BY DEF FilesInv, PathsInv, Object
<1>2. Clear' => Clear
  BY ClearBefore
<1>3. Clear' => /\ Identities \subseteq Identities'
                /\ \A i \in Identities : GroupOf(i)' = GroupOf(i)
  BY DEF GroupOf
<1>4. FilesDone' = FilesDone /\ \A t \in Tids : Sight(t)' = Sight(t)
  BY DEF FilesDone, Sight
<1> QED
  BY <1>1, <1>2, <1>3, <1>4, StepKeepsFiles

\* A step after which nothing is promised.
LEMMA FailedFiles ==
  ASSUME FilesInv, AboutInv', ~Clear', UNCHANGED <<table, cwd>>, pc' # "done"
  PROVE  FilesInv'
BY DEF FilesInv, PathsInv, Object

\* A step that only goes on to another place.
LEMMA GoesOnFiles ==
  ASSUME TraceInv, TraceInv', FilesInv,
         UNCHANGED <<commandVars, cur, tableVars, started, exits, noted>>,
         lost \subseteq lost', pc' # "start", pc' = "done" => deltas' = DOMAIN snapshots',
         pc' \in {"terminate", "reap", "failed"} \/ lost' = AllCategories \cup lost
           \/ /\ pc = "handle" => ~Stopped(cur, "exit")
              /\ pc' = "handle" => pc = "handle"
              /\ pc' = "resume" => ~Stopped(cur, "entry")
  PROVE  FilesInv'
<1>1. /\ UNCHANGED <<at, stop, call, group, table, cwd, files, happened, modified, odd, blurred>>
      /\ UNCHANGED <<processes, snapshots>>
  BY DEF commandVars, effects, tableVars
<1>2. AboutInv' /\ UNCHANGED <<FileNotes, Identities>>
  BY <1>1 DEF FilesInv, AboutInv, FileNotes, Identities
<1>3. CASE pc' \in {"terminate", "reap", "failed"} \/ lost' = AllCategories \cup lost
  <2>1. ~Clear'
    BY <1>3 DEF Clear, Intact, AllCategories, TraceInv, QuietInv
  <2> QED
    BY <1>1, <1>2, <2>1, CollectorStepFiles
<1>4. CASE ~(pc' \in {"terminate", "reap", "failed"} \/ lost' = AllCategories \cup lost)
  <2>1. \A t \in Tids : /\ Within(t)' => Within(t)
                        /\ Leaving(t)' <=> Leaving(t)
    BY <1>1, <1>4 DEF Within, Leaving, Stopped
  <2> QED
    BY <1>1, <1>2, <2>1, CollectorStepFiles
<1> QED
  BY <1>3, <1>4

LEMMA FailFiles ==
  ASSUME TraceInv, TraceInv', FilesInv, WaitFails \/ Refused
  PROVE  FilesInv'
BY GoesOnFiles DEF WaitFails, Refused, sinkVars

LEMMA HandleInitialFiles ==
  ASSUME TraceInv, TraceInv', FilesInv, HandleInitial
  PROVE  FilesInv'
BY GoesOnFiles DEF HandleInitial, Handles, sinkVars, Stopped

LEMMA HandleUnknownFiles ==
  ASSUME TraceInv, TraceInv', FilesInv, HandleUnknown
  PROVE  FilesInv'
<1>1. lost' = AllCategories \cup lost /\ pc' = "resume"
  BY DEF HandleUnknown, Lose
<1> QED
  BY <1>1, GoesOnFiles DEF HandleUnknown

LEMMA FinishFiles ==
  ASSUME TraceInv, TraceInv', FilesInv, Finish
  PROVE  FilesInv'
<1>1. UNCHANGED snapshots
  BY DEF Finish, tableVars
<1> QED
  BY <1>1, GoesOnFiles DEF Finish

LEMMA WaitStopFiles ==
  ASSUME TraceInv, TraceInv', FilesInv, NEW t \in Tids, WaitStop(t)
  PROVE  FilesInv'
<1>y. at \in [Tids -> States]
  BY DEF TraceInv, TypeOK
<1>a. /\ pc = "wait" /\ at[t] = "stopped" /\ pc' = "handle" /\ cur' = t
      /\ UNCHANGED <<group, stop, call, effects, modified, odd, tableVars, sinkVars>>
      /\ blurred \subseteq blurred'
  BY DEF WaitStop, Waiting, Early
<1>u. /\ UNCHANGED <<table, cwd, files, happened, processes, snapshots, started, deltas, lost>>
      /\ UNCHANGED <<FileNotes, Identities>>
  BY <1>a DEF effects, tableVars, sinkVars, FileNotes, Identities
<1>c. \A x \in Tids : at'[x] = IF x = t THEN "told" ELSE at[x]
  BY <1>y DEF WaitStop
<1>1. AboutInv'
  BY <1>a, <1>c DEF FilesInv, AboutInv
<1>2. \A x \in Tids : /\ Within(x)' => Within(x)
                      /\ Leaving(x)' <=> Leaving(x)
  BY <1>a, <1>c DEF Within, Leaving, Stopped
<1> QED
  BY <1>1, <1>2, <1>a, <1>u, CollectorStepFiles

LEMMA WaitExitFiles ==
  ASSUME TraceInv, TraceInv', FilesInv, NEW t \in Tids, WaitExit(t)
  PROVE  FilesInv'
<1>u. /\ UNCHANGED <<group, call, effects, modified, odd, pc, cur, snapshots, started, deltas, lost>>
      /\ pc = "wait" /\ at[t] = "zombie" /\ blurred \subseteq blurred'
      /\ RecordExit(t)
  BY DEF WaitExit, Waiting
<1>y. at \in [Tids -> States] /\ stop \in [Tids -> Stops \cup {None}]
  BY DEF TraceInv, TypeOK
<1>c. /\ \A x \in Tids \ {t} : at'[x] = at[x] /\ stop'[x] = stop[x]
      /\ at'[t] = "dead" /\ call[t] = None
  BY <1>y, <1>u DEF WaitExit, FilesInv, AboutInv
<1>p. /\ DOMAIN processes' = DOMAIN processes \ {t}
      /\ \A x \in DOMAIN processes' : processes'[x] = processes[x]
  BY <1>u DEF RecordExit, Without
<1>e. FileNotes' = FileNotes /\ Identities' = Identities /\ UNCHANGED <<table, cwd, files, happened>>
  BY <1>u DEF RecordExit, Ends, FileNotes, FileOperations, Identities, effects
<1>1. AboutInv'
  BY <1>c, <1>u DEF FilesInv, AboutInv
<1>2. /\ \A x \in Tids : (Within(x)' => Within(x)) /\ (Leaving(x)' <=> Leaving(x))
      /\ ~Within(t) /\ ~Leaving(t)
  BY <1>c, <1>u DEF Within, Leaving, Stopped
<1>3. pc' = "done" => deltas' = DOMAIN snapshots'
  BY <1>u
<1> QED
  BY <1>1, <1>2, <1>3, <1>e, <1>p, <1>u, CollectorStepFiles

LEMMA ResumeFiles ==
  ASSUME TraceInv, TraceInv', FilesInv, Resume
  PROVE  FilesInv'
<1>u. /\ UNCHANGED <<group, effects, modified, blurred, odd, cur, tableVars, sinkVars>>
      /\ pc = "resume" /\ pc' \in {"wait", "terminate"}
  BY DEF Resume
<1>e. /\ UNCHANGED <<table, cwd, files, happened, processes, snapshots, started, deltas, lost>>
      /\ UNCHANGED <<FileNotes, Identities>>
  BY <1>u DEF effects, tableVars, sinkVars, FileNotes, Identities
<1>y. at \in [Tids -> States] /\ stop \in [Tids -> Stops \cup {None}] /\ DOMAIN call = Tids /\ cur \in Tids
  BY DEF TraceInv, TypeOK, TypesInv
<1>c. \A x \in Tids : \/ at'[x] = at[x] /\ stop'[x] = stop[x] /\ call'[x] = call[x]
                      \/ /\ x = cur /\ at[x] = "told" /\ at'[x] = "running"
                         /\ stop[x] # None /\ stop'[x] = None
                         /\ call'[x] = IF stop[x].kind = "exit" THEN None ELSE call[x]
  <2>1. at[cur] = "told" => stop[cur] # None
    BY <1>y DEF TraceInv, TypeOK
  <2> QED
    BY <1>y, <2>1 DEF Resume
<1>1. AboutInv'
  BY <1>c, <1>u DEF FilesInv, AboutInv
<1>2. /\ \A x \in Tids : Within(x)' => Within(x) /\ call'[x] = call[x]
      /\ \A x \in Tids : (Leaving(x)' <=> Leaving(x)) /\ (Leaving(x) => call'[x] = call[x])
  BY <1>c, <1>u DEF Within, Leaving, Stopped, FilesInv, AboutInv
<1> QED
  BY <1>1, <1>2, <1>e, <1>u, CollectorStepFiles

LEMMA DetachFiles ==
  ASSUME TraceInv, TraceInv', ToldInv, FilesInv, Detach
  PROVE  FilesInv'
<1>u. /\ UNCHANGED <<effects, tableVars, sinkVars, odd, blurred>>
      /\ pc = "detach" /\ pc' \in {"resume", "terminate"}
  BY DEF Detach
<1>y. at \in [Tids -> States] /\ stop \in [Tids -> Stops \cup {None}] /\ DOMAIN call = Tids /\ cur \in Tids
  BY DEF TraceInv, TypeOK, TypesInv
<1>c. \A x \in Tids : \/ at'[x] = at[x] /\ stop'[x] = stop[x] /\ call'[x] = call[x]
                      \/ call'[x] = None
  BY <1>y DEF Detach
<1>1. AboutInv'
  BY <1>c, <1>u DEF FilesInv, AboutInv
<1>2. ~Clear'
  BY <1>u DEF Clear, Intact, ToldInv, HistoryInv, HeardInv, sinkVars
<1> QED
  BY <1>1, <1>2, <1>u, FailedFiles DEF effects

LEMMA EndFiles ==
  ASSUME TraceInv, TraceInv', FilesInv, Terminate \/ (\E t \in Tids : Reap(t)) \/ GiveUp
  PROVE  FilesInv'
<1>1. UNCHANGED effects /\ pc' \in {"reap", "failed"}
  BY DEF Terminate, Reap, GiveUp, commandVars
<1>2. ~Clear'
  BY <1>1 DEF Clear, Intact, TraceInv, QuietInv
<1>y. at \in [Tids -> States]
  BY DEF TraceInv, TypeOK
<1>3. \A x \in Tids : call'[x] # None =>
        /\ call[x] # None /\ (at'[x] = at[x] \/ at[x] = "zombie") /\ stop'[x] = stop[x]
  <2>1. ASSUME NEW S, Killed(S), UNCHANGED stop
        PROVE  \A x \in Tids : call'[x] # None => /\ call[x] # None /\ at'[x] = at[x]
                                                   /\ stop'[x] = stop[x]
    BY <2>1 DEF Killed
  <2>2. Terminate => \E S : Killed(S) /\ UNCHANGED stop
    BY DEF Terminate
  <2>3. ASSUME NEW t \in Tids, Reap(t)
        PROVE  \/ \E S : Killed(S) /\ UNCHANGED stop
               \/ at[t] = "zombie" /\ at' = [at EXCEPT ![t] = "dead"] /\ UNCHANGED <<call, stop>>
    BY <2>3 DEF Reap
  <2>4. GiveUp => UNCHANGED <<at, call, stop>>
    BY DEF GiveUp, commandVars
  <2> QED
    BY <2>1, <2>2, <2>3, <2>4, <1>y
<1>4. AboutInv'
  BY <1>1, <1>3 DEF FilesInv, AboutInv
<1> QED
  BY <1>1, <1>2, <1>4, FailedFiles DEF effects

LEMMA BeginFiles ==
  ASSUME TraceInv, TraceInv', FilesInv, Begin
  PROVE  FilesInv'
<1>y. at \in [Tids -> States] /\ stop \in [Tids -> Stops \cup {None}] /\ Root \in Tids
  BY TidsAssumption DEF TraceInv, TypeOK
<1>a. /\ pc = "start" /\ DOMAIN processes = {} /\ Identities = {}
      /\ \A t \in Tids \ {Root} : at[t] = "unborn"
      /\ at[Root] \in {"stopped", "zombie"}
  BY DEF TraceInv, RootInv, TypeOK, Begin
<1>u. /\ UNCHANGED <<group, call, effects, modified, blurred, odd, cur, snapshots, lost>>
      /\ pc' \in {"wait", "terminate"}
  BY DEF Begin
<1>e. UNCHANGED <<table, cwd, files, happened>>
  BY <1>u DEF effects
<1>c. /\ \A x \in Tids \ {Root} : at'[x] = "unborn" /\ stop'[x] = stop[x]
      /\ at'[Root] \in {"running", "dead"} /\ (at'[Root] = "running" => stop'[Root] = None)
  BY <1>y, <1>a DEF Begin
<1>1. CASE pc' = "terminate"
  <2>1. ~Clear'
    BY <1>1 DEF Clear, Intact, TraceInv, QuietInv
  <2>2. at[Root] = "zombie"
    BY <1>1 DEF Begin
  <2>3. AboutInv'
    BY <1>a, <1>1, <1>u, <2>2 DEF FilesInv, AboutInv
  <2> QED
    BY <1>1, <1>e, <2>1, <2>3, FailedFiles
<1>2. CASE pc' = "wait"
  <2>1. at[Root] = "stopped" /\ at'[Root] = "running" /\ stop'[Root] = None
    BY <1>2, <1>y DEF Begin
  <2>2. AboutInv'
    BY <1>2, <1>a, <1>c, <1>u, <2>1 DEF FilesInv, AboutInv
  <2>3. FileNotes' = FileNotes
    BY <2>1 DEF Begin, Start, FileNotes, FileOperations
  <2>4. \A x \in Tids : call[x] = None /\ ~Within(x)'
    BY <1>a, <1>u DEF FilesInv, AboutInv, Within, Stopped
  <2>5. \A x \in Tids : (Leaving(x)' <=> Leaving(x)) /\ call'[x] = call[x]
    BY <1>a, <1>c, <1>u, <2>1 DEF Leaving, Stopped, FilesInv, AboutInv
  <2> QED
    BY <1>2, <1>a, <1>e, <1>u, <2>2, <2>3, <2>4, <2>5, CollectorStepFiles
<1> QED
  BY <1>1, <1>2, <1>u

LEMMA HandleForkFiles ==
  ASSUME TraceInv, TraceInv', FilesInv, HandleFork
  PROVE  FilesInv'
<1>a. /\ pc = "handle" /\ at[cur] = "told" /\ Stopped(cur, "fork") /\ pc' \in {"resume", "detach"}
      /\ UNCHANGED <<commandVars, snapshots, deltas>>
  BY DEF HandleFork, Answered, Handles, Stopped, TraceInv, TypeOK, TypesInv
<1>u. UNCHANGED <<at, stop, call, group, table, cwd, files, happened, modified, odd, blurred>>
  BY <1>a DEF commandVars, effects
<1>1. AboutInv'
  BY <1>a, <1>u DEF FilesInv, AboutInv
<1>2. CASE pc' = "detach"
  <2>1. ~Clear'
    BY <1>2 DEF HandleFork, Lose, AllCategories, Clear, Intact
  <2> QED
    BY <1>1, <1>2, <1>u, <2>1, FailedFiles
<1>3. CASE pc' = "resume"
  <2> DEFINE c == stop[cur].child
  <2>1. Register(c, cur) /\ UNCHANGED <<cur, lost>>
    BY <1>3 DEF HandleFork
  <2> HIDE DEF c
  <2>2. FileNotes' = FileNotes
    BY <2>1 DEF Register, Start, FileNotes, FileOperations
  <2>3. /\ \A i \in Identities : i \in Identities' /\ started'[i].thread = started[i].thread
        /\ \A x \in DOMAIN processes : x \in DOMAIN processes' /\ processes'[x] = processes[x]
    <3>1. nextIdentity \notin Identities
      BY DEF TraceInv, TypeOK, TypesInv
    <3>2. CASE UNCHANGED <<processes, started>>
      BY <3>2 DEF Identities
    <3>3. CASE \E from, state : c \notin DOMAIN processes /\ Start(c, from, state, {"fork"})
      BY <3>1, <3>3 DEF Start, With, Identities
    <3> QED
      BY <2>1, <3>2, <3>3 DEF Register
  <2>4. \A x \in Tids : /\ Within(x)' => Within(x)
                        /\ Leaving(x)' <=> Leaving(x)
    BY <1>3, <1>a, <1>u, <2>1 DEF Within, Leaving, Stopped
  <2> QED
    BY <1>1, <1>3, <1>a, <1>u, <2>1, <2>2, <2>3, <2>4, CollectorStepFiles
<1> QED
  BY <1>2, <1>3, <1>a

LEMMA HandleExecFiles ==
  ASSUME TraceInv, TraceInv', FilesInv, HandleExec
  PROVE  FilesInv'
<1>f. PICK f : f = stop[cur].former
  OBVIOUS
<1>a. /\ pc = "handle" /\ at[cur] = "told" /\ Stopped(cur, "exec") /\ cur \in Tids
      /\ pc' \in {"resume", "terminate"}
      /\ UNCHANGED <<commandVars, cur, snapshots, started, deltas, lost>>
      /\ f # cur => at[f] = "dead"
  BY <1>f DEF HandleExec, Answered, Handles, Stopped, TraceInv, TypeOK, TypesInv, StopInv
<1>u. /\ UNCHANGED <<at, stop, call, group, table, cwd, files, happened, modified, odd, blurred>>
      /\ UNCHANGED Identities
  BY <1>a DEF commandVars, effects, Identities
<1>1. AboutInv'
  BY <1>a, <1>u DEF FilesInv, AboutInv
<1>2. CASE pc' = "terminate"
  <2>1. ~Clear'
    BY <1>2 DEF Clear, Intact, TraceInv, QuietInv
  <2> QED
    BY <1>1, <1>2, <1>u, <2>1, FailedFiles
<1>3. CASE pc' = "resume"
  <2>1. RecordExec(cur, f)
    BY <1>3, <1>f DEF HandleExec
  <2>2. FileNotes' = FileNotes
    <3>1. PICK gone, i : noted' = noted \cup {<<j, "exit", <<>>>> : j \in gone} \cup {<<i, "exec", <<>>>>}
      BY <2>1 DEF RecordExec
    <3> QED
      BY <3>1 DEF FileNotes, FileOperations
  <2>3. \A x \in DOMAIN processes \ {cur, f} : x \in DOMAIN processes' /\ processes'[x] = processes[x]
    <3>1. \A x \in DOMAIN processes \ {cur, f} :
            x \in DOMAIN Reconciled(cur, f) /\ Reconciled(cur, f)[x] = processes[x]
      BY DEF Reconciled, With, Without
    <3> QED
      BY <2>1, <3>1 DEF RecordExec
  <2>4. \A x \in Tids : /\ Within(x)' => Within(x) /\ x \notin {cur, f}
                        /\ Leaving(x)' <=> Leaving(x)
                        /\ Leaving(x) => x \notin {cur, f}
    BY <1>3, <1>a, <1>u DEF Within, Leaving, Stopped
  <2>5. \A x \in DOMAIN processes : (Within(x)' \/ Leaving(x)) =>
          x \in DOMAIN processes' /\ processes'[x].state = processes[x].state
    BY <2>3, <2>4 DEF TraceInv, TypeOK
  <2> QED
    BY <1>1, <1>3, <1>a, <1>u, <2>2, <2>4, <2>5, CollectorStepFiles
<1> QED
  BY <1>2, <1>3, <1>a

\* Before a call what it will do is decoded, and its files are looked at.
LEMMA HandleEntryFiles ==
  ASSUME TraceInv, TraceInv', FilesInv, HandleEntry
  PROVE  FilesInv'
<1>c. PICK c : c = call[cur].about
  OBVIOUS
<1>r. PICK readable \in BOOLEAN :
        /\ processes' = [processes EXCEPT ![cur].state =
                           Entered(processes[cur].state, View(cur, readable), c)]
        /\ Remember(TouchedBy(Entered(processes[cur].state, View(cur, readable), c)) \ Ignored)
        /\ blurred' = blurred \cup IF ~readable /\ "create" \in c.flags THEN {"unread"} ELSE {}
  BY <1>c DEF HandleEntry
<1>w. PICK w : w = View(cur, readable)
  OBVIOUS
<1>t. PICK state : state = Entered(processes[cur].state, w, c)
  OBVIOUS
<1>a. /\ pc = "handle" /\ at[cur] = "told" /\ Stopped(cur, "entry") /\ pc' = "resume"
      /\ UNCHANGED <<at, stop, call, group, effects, modified, odd, cur, started, noted>>
      /\ cur \in DOMAIN processes /\ cur \in Tids
  BY DEF HandleEntry, Answered, Handles, Stopped, TraceInv, TypeOK, TypesInv
<1>u. /\ UNCHANGED <<at, stop, call, group, table, cwd, files, happened, modified, odd>>
      /\ UNCHANGED <<FileNotes, FilesDone, Identities>>
      /\ blurred \subseteq blurred'
  BY <1>a, <1>r DEF effects, FileNotes, FilesDone, Identities
<1>1. AboutInv' /\ PathsInv'
  BY <1>a, <1>u DEF FilesInv, AboutInv, PathsInv, Object
<1>2. PICK paths : /\ paths = TouchedBy(state) \ Ignored
                   /\ Remember(paths)
  BY <1>r, <1>w, <1>t
<1>3. /\ state.file = DecodeFile(w, c) /\ TouchedBy(state) \subseteq Ignored \cup paths
      /\ w.table = table[group[cur]] /\ w.cwd = cwd[group[cur]]
      /\ w.files = files /\ w.readable = readable
  BY <1>2, <1>w, <1>t DEF Entered, View
<1>4. /\ DOMAIN processes' = DOMAIN processes /\ processes'[cur].state = state
      /\ \A x \in DOMAIN processes \ {cur} : processes'[x] = processes[x]
  <2>1. processes' = [processes EXCEPT ![cur].state = state]
    BY <1>r, <1>w, <1>t
  <2>2. processes[cur] = [identity |-> processes[cur].identity, state |-> processes[cur].state]
    BY <1>a DEF TraceInv, TypesInv
  <2> QED
    BY <1>a, <2>1, <2>2
<1>k. Looked(cur, w)'
  <2>1. w.readable \/ "create" \notin c.flags \/ "unread" \in blurred'
    BY <1>r, <1>3
  <2> QED
    BY <2>1, <1>a, <1>c, <1>u, <1>3 DEF Looked, Makes
<1> SUFFICES ASSUME Clear'
             PROVE  ClearInv'
  BY <1>1, <1>a DEF FilesInv
<1>5. PICK kept \in SUBSET (paths \ DOMAIN snapshots) :
        /\ snapshots' = [p \in DOMAIN snapshots \cup kept |->
                           IF p \in kept THEN p \notin modified ELSE snapshots[p]]
        /\ Lose(IF paths \subseteq DOMAIN snapshots' THEN {} ELSE {"filesystem"})
  BY <1>2 DEF Remember
<1>6. lost \subseteq lost' /\ paths \subseteq DOMAIN snapshots' /\ DOMAIN snapshots \subseteq DOMAIN snapshots'
  BY <1>5 DEF Lose, Clear
<1>i. PendingInv /\ LeavingInv /\ UsesInv /\ NotesInv /\ StatesInv
  BY <1>6, <1>u, ClearBefore DEF FilesInv, ClearInv
<1>s. Sure' \subseteq Sure /\ Seen' \subseteq Seen
  BY <1>u, SureFacts
<1>7. \A x \in Tids : /\ Leaving(x)' <=> Leaving(x)
                      /\ x # cur => (Within(x)' => Within(x))
                      /\ Leaving(x) => x # cur
  BY <1>a, <1>u DEF Within, Leaving, Stopped
<1>8. PendingInv'
  <2> SUFFICES ASSUME NEW x \in Tids, Within(x)'
               PROVE  /\ x \in DOMAIN processes'
                      /\ \E v : Looked(x, v)' /\ processes'[x].state.file = DecodeFile(v, call[x].about)
                      /\ TouchedBy(processes'[x].state) \subseteq Ignored \cup DOMAIN snapshots'
    BY <1>u DEF PendingInv, TouchedBy
  <2>1. CASE x = cur
    BY <2>1, <1>a, <1>c, <1>k, <1>3, <1>4, <1>6
  <2>2. CASE x # cur
    <3>1. Within(x) /\ x \in DOMAIN processes
            /\ TouchedBy(processes[x].state) \subseteq Ignored \cup DOMAIN snapshots
      BY <2>2, <1>7, <1>i DEF PendingInv
    <3>2. PICK v : Looked(x, v) /\ processes[x].state.file = DecodeFile(v, call[x].about)
      BY <3>1, <1>i DEF PendingInv
    <3>3. processes'[x] = processes[x]
      BY <2>2, <3>1, <1>4
    <3>4. Looked(x, v)'
      BY <3>2, <3>3, <1>u DEF Looked, TouchedBy
    <3> QED
      BY <3>1, <3>2, <3>3, <3>4, <1>4, <1>6
  <2> QED
    BY <2>1, <2>2
<1>9. \A x \in Tids : Leaving(x) => x \in DOMAIN processes' /\ Awaited(x)' = Awaited(x)
  BY <1>4, <1>7, <1>i, <1>u DEF Awaited, LeavingInv
<1>10. LeavingInv'
  BY <1>7, <1>9, <1>i, <1>s, <1>u DEF LeavingInv
<1>g. \A i : GroupOf(i)' = GroupOf(i)
  BY <1>a, <1>u DEF GroupOf
<1>11. UsesInv'
  <2> SUFFICES ASSUME NEW h \in FilesDone
               PROVE  /\ h = <<h[1], h[2], h[3]>>
                      /\ \/ h[2] \notin Seen' \/ Hidden(h[3])
                         \/ \E n \in FileNotes : GroupOf(n[1]) = h[1] /\ n[2] = h[2] /\ n[3] = h[3]
                         \/ \E x \in Tids : Leaving(x)' /\ group[x] = h[1] /\ <<h[2], h[3]>> \in Awaited(x)'
    BY <1>u, <1>g DEF UsesInv, Hidden
  <2> QED
    BY <1>7, <1>9, <1>i, <1>s DEF UsesInv
<1>12. NotesInv'
  BY <1>i, <1>s, <1>u, <1>g DEF NotesInv, Hidden
<1>13. StatesInv'
  BY <1>5, <1>6, <1>i, <1>u, <1>2 DEF StatesInv
<1> QED
  BY <1>8, <1>10, <1>11, <1>12, <1>13 DEF ClearInv

\* After a call what was decoded of it is told, if it is not hidden.
LEMMA HandleExitFiles ==
  ASSUME TraceInv, TraceInv', ToldInv, FilesInv, HandleExit
  PROVE  FilesInv'
<1>i. PICK i : i = processes[cur].identity
  OBVIOUS
<1> DEFINE s == processes[cur].state
           r == call[cur].result
<1>a. /\ pc = "handle" /\ at[cur] = "told" /\ Stopped(cur, "exit") /\ pc' = "resume"
      /\ UNCHANGED <<commandVars, cur, snapshots, started, deltas>> /\ cur \in DOMAIN processes
      /\ cur \in Tids
  BY DEF HandleExit, Answered, Handles, Stopped, TraceInv, TypeOK, TypesInv
<1>u. /\ UNCHANGED <<at, stop, call, group, table, cwd, files, happened, modified, odd, blurred>>
      /\ UNCHANGED <<FilesDone, Identities>> /\ \A j : GroupOf(j)' = GroupOf(j)
  BY <1>a DEF commandVars, effects, FilesDone, Identities, GroupOf
<1>1. AboutInv' /\ PathsInv'
  BY <1>a, <1>u DEF FilesInv, AboutInv, PathsInv, Object
<1>e. PICK effect :
        /\ processes' = [processes EXCEPT ![cur].state = effect.state]
        /\ noted' = noted \cup {<<i, f[1], f[2]>> : f \in Shown(effect.facts)}
        /\ lost \subseteq lost'
        /\ FileFacts(s, r) \subseteq effect.facts
        /\ \A f \in effect.facts : f \in FileFacts(s, r) \/ f[1] \in SocketOperations
  <2>1. PICK visible \in BOOLEAN :
          LET effect == Exited(s, View(cur, TRUE), r, visible) IN
          /\ processes' = [processes EXCEPT ![cur].state = effect.state]
          /\ noted' = noted \cup {<<i, f[1], f[2]>> : f \in Shown(effect.facts)}
          /\ Lose(effect.lost)
    BY <1>i DEF HandleExit
  <2>2. Decoded(s)
    BY <1>a DEF TraceInv, TypesInv
  <2> DEFINE effect == Exited(s, View(cur, TRUE), r, visible)
  <2>3. /\ FileFacts(s, r) \subseteq effect.facts
        /\ \A f \in effect.facts : f \in FileFacts(s, r) \/ f[1] \in SocketOperations
    BY <2>2, ExitFacts
  <2>4. /\ processes' = [processes EXCEPT ![cur].state = effect.state]
        /\ noted' = noted \cup {<<i, f[1], f[2]>> : f \in Shown(effect.facts)}
        /\ lost \subseteq lost'
    BY <2>1 DEF Lose
  <2> HIDE DEF effect, s, r
  <2> QED
    BY <2>3, <2>4
<1>w. PICK A : A = FileFacts(s, r)
  OBVIOUS
<1>2. A = Awaited(cur) /\ FileFacts(s, r) = A
  BY <1>w DEF Awaited
<1> HIDE DEF s, r
<1>3. /\ DOMAIN processes' = DOMAIN processes
      /\ \A x \in DOMAIN processes \ {cur} : processes'[x] = processes[x]
  BY <1>e
<1> SUFFICES ASSUME Clear'
             PROVE  ClearInv'
  BY <1>1, <1>a DEF FilesInv
<1>s. Sure' = Sure /\ Seen' = Seen
  BY <1>u DEF Sure, Seen
<1>c. Clear
  BY <1>e, <1>u, ClearBefore
<1>v. PendingInv /\ LeavingInv /\ UsesInv /\ NotesInv /\ StatesInv
  BY <1>c DEF FilesInv, ClearInv
<1>4. i \in Identities /\ GroupOf(i) = group[cur]
  BY <1>a, <1>c, <1>i DEF Clear, Intact, ToldInv, HistoryInv, NamesInv, GroupOf, TraceInv, TypeOK
<1>5. /\ Leaving(cur)
      /\ \A x \in Tids : /\ Leaving(x)' <=> Leaving(x) /\ x # cur
                         /\ Within(x)' => Within(x) /\ x # cur
  BY <1>a, <1>u DEF Within, Leaving, Stopped
<1>6. \A f \in A : Len(f[2]) > 0 /\ (f[1] \in Sure => <<group[cur], f[1], f[2]>> \in FilesDone)
  BY <1>a, <1>2, <1>5, <1>v DEF LeavingInv
<1>7. \A x \in Tids \ {cur} : Leaving(x) => x \in DOMAIN processes' /\ Awaited(x)' = Awaited(x)
  BY <1>3, <1>v, <1>u DEF Awaited, LeavingInv
<1>8. PendingInv'
  <2> SUFFICES ASSUME NEW x \in Tids, Within(x)'
               PROVE  /\ x \in DOMAIN processes'
                      /\ \E v : Looked(x, v)' /\ processes'[x].state.file = DecodeFile(v, call[x].about)
                      /\ TouchedBy(processes'[x].state) \subseteq Ignored \cup DOMAIN snapshots'
    BY <1>u DEF PendingInv, TouchedBy
  <2>1. /\ x # cur /\ x \in DOMAIN processes
        /\ TouchedBy(processes[x].state) \subseteq Ignored \cup DOMAIN snapshots
    BY <1>5, <1>v DEF PendingInv
  <2>2. PICK v : Looked(x, v) /\ processes[x].state.file = DecodeFile(v, call[x].about)
    BY <1>5, <1>v DEF PendingInv
  <2>3. processes'[x] = processes[x]
    BY <2>1, <1>3
  <2>4. Looked(x, v)'
    BY <2>2, <2>3, <1>u DEF Looked, TouchedBy
  <2> QED
    BY <2>1, <2>2, <2>3, <2>4, <1>3, <1>a
<1>9. LeavingInv'
  BY <1>5, <1>7, <1>s, <1>v, <1>u DEF LeavingInv
<1>10. FileNotes \subseteq FileNotes' /\ \A n \in FileNotes' \ FileNotes :
         \E f \in Shown(effect.facts) \cap A : n = <<i, f[1], f[2]>>
  <2>1. \A f \in effect.facts : f[1] \in FileOperations => f \in A
    BY <1>e, <1>2 DEF FileOperations, SocketOperations
  <2>2. ASSUME NEW n \in FileNotes' \ FileNotes
        PROVE  \E f \in Shown(effect.facts) \cap A : n = <<i, f[1], f[2]>>
    <3>1. PICK f \in Shown(effect.facts) : n = <<i, f[1], f[2]>>
      BY <1>e, <2>2 DEF FileNotes
    <3>2. n[2] = f[1] /\ n[2] \in FileOperations
      BY <2>2, <3>1 DEF FileNotes
    <3> QED
      BY <2>1, <3>1, <3>2 DEF Shown
  <2> QED
    BY <1>e, <2>2 DEF FileNotes
<1>11. \A f \in A : Hidden(f[2]) \/ f \in Shown(effect.facts)
  BY <1>e, <1>2 DEF Shown, Hidden
<1>12. \A f \in Shown(effect.facts) \cap A : ~Hidden(f[2])
  BY <1>6 DEF Shown, Hidden
<1>13. NotesInv'
  <2> SUFFICES ASSUME NEW n \in FileNotes'
               PROVE  /\ n[1] \in Identities /\ ~Hidden(n[3])
                      /\ n[2] \in Sure => <<GroupOf(n[1]), n[2], n[3]>> \in FilesDone
    BY <1>s, <1>u DEF NotesInv, Hidden
  <2>1. CASE n \in FileNotes
    BY <2>1, <1>v DEF NotesInv
  <2>2. CASE n \notin FileNotes
    <3>1. PICK f \in Shown(effect.facts) \cap A : n = <<i, f[1], f[2]>>
      BY <2>2, <1>10
    <3>2. n[1] = i /\ n[2] = f[1] /\ n[3] = f[2]
      BY <3>1
    <3> QED
      BY <3>1, <3>2, <1>4, <1>6, <1>12
  <2> QED
    BY <2>1, <2>2
<1>14. UsesInv'
  <2> SUFFICES ASSUME NEW h \in FilesDone
               PROVE  /\ h = <<h[1], h[2], h[3]>>
                      /\ \/ h[2] \notin Seen' \/ Hidden(h[3])
                         \/ \E n \in FileNotes' : GroupOf(n[1]) = h[1] /\ n[2] = h[2] /\ n[3] = h[3]
                         \/ \E x \in Tids : Leaving(x)' /\ group[x] = h[1] /\ <<h[2], h[3]>> \in Awaited(x)'
    BY <1>u DEF UsesInv, Hidden
  <2>0. h = <<h[1], h[2], h[3]>>
    BY <1>v DEF UsesInv
  <2>1. CASE \/ h[2] \notin Seen' \/ Hidden(h[3])
             \/ \E n \in FileNotes : GroupOf(n[1]) = h[1] /\ n[2] = h[2] /\ n[3] = h[3]
    BY <2>0, <2>1, <1>10
  <2>2. CASE \E x \in Tids \ {cur} : Leaving(x) /\ group[x] = h[1] /\ <<h[2], h[3]>> \in Awaited(x)
    BY <2>0, <2>2, <1>5, <1>7
  <2>3. CASE group[cur] = h[1] /\ <<h[2], h[3]>> \in A /\ ~Hidden(h[3])
    <3> DEFINE f == <<h[2], h[3]>>
               n == <<i, h[2], h[3]>>
    <3>1. f[1] = h[2] /\ f[2] = h[3] /\ n[1] = i /\ n[2] = h[2] /\ n[3] = h[3]
      OBVIOUS
    <3>2. f \in Shown(effect.facts)
      BY <2>3, <3>1, <1>11
    <3>3. n \in noted'
      BY <1>e, <3>1, <3>2
    <3>4. n \in FileNotes'
      BY <3>1, <3>3 DEF FileNotes, FilesDone
    <3> QED
      BY <2>0, <2>3, <3>1, <3>4, <1>4
  <2> QED
    BY <2>1, <2>2, <2>3, <1>2, <1>s, <1>v DEF UsesInv
<1>15. StatesInv'
  BY <1>a, <1>u, <1>v DEF StatesInv
<1> QED
  BY <1>8, <1>9, <1>13, <1>14, <1>15 DEF ClearInv

LEMMA InitFiles == Init => FilesInv
<1> SUFFICES ASSUME Init
             PROVE  FilesInv
  OBVIOUS
<1>1. AboutInv
  BY StopFacts, TidsAssumption DEF Init, AboutInv, Stopped
<1>2. PathsInv
  <2>1. Object(Untold)
    BY DEF Object, Untold
  <2>2. /\ table = [t \in Tids |-> [fd \in left.inherited |-> Untold]]
        /\ cwd = [t \in Tids |-> Home]
    BY DEF Init
  <2> QED
    BY <2>1, <2>2, HomeAssumption DEF PathsInv, Paths
<1>3. ClearInv
  <2>1. /\ \A t \in Tids : call[t] = None /\ (stop[t] = None \/ stop[t].kind = "initial")
        /\ happened = {<<Root, "exec", <<>>>>} /\ noted = {} /\ modified = {} /\ snapshots = <<>>
    BY DEF Init
  <2>2. FilesDone = {} /\ FileNotes = {}
    BY <2>1 DEF FilesDone, FileNotes, FileOperations
  <2>3. \A t \in Tids : ~Within(t) /\ ~Leaving(t)
    BY <2>1 DEF Within, Leaving, Stopped
  <2>4. DOMAIN snapshots = {}
    BY <2>1
  <2> QED
    BY <2>1, <2>2, <2>3, <2>4 DEF ClearInv, PendingInv, LeavingInv, UsesInv, NotesInv, StatesInv
<1>4. pc # "done"
  BY DEF Init
<1> QED
  BY <1>1, <1>2, <1>3, <1>4 DEF FilesInv

LEMMA CommandFiles ==
  ASSUME TraceInv, ToldInv, FilesInv, Command
  PROVE  FilesInv'
<1> USE DEF Command
<1>1. \A t \in Tids : (\E c \in left.alphabet : EnterCall(t, c)) \/ ReturnFromCall(t) => FilesInv'
  BY EnterCallFiles, ReturnFromCallFiles
<1>2. \A t \in Tids : (\E c \in Tids, thread \in BOOLEAN : Fork(t, c, thread)) => FilesInv'
  BY ForkFiles
<1>3. \A t \in Tids : KillProcess(t) \/ Exec(t) \/ ExecDone(t) \/ Exit(t) => FilesInv'
  BY KillProcessFiles, ExecFiles, ExecDoneFiles, ExitFiles
<1> QED
  BY <1>1, <1>2, <1>3

LEMMA CollectFiles ==
  ASSUME TraceInv, TraceInv', ToldInv, FilesInv, Collect
  PROVE  FilesInv'
<1>1. \A t \in Tids : (WaitStop(t) \/ WaitExit(t) \/ Reap(t)) => FilesInv'
  BY WaitStopFiles, WaitExitFiles, EndFiles
<1>2. Begin \/ WaitFails \/ Resume \/ Refused \/ Detach \/ Finish \/ Terminate \/ GiveUp => FilesInv'
  BY BeginFiles, FailFiles, ResumeFiles, DetachFiles, FinishFiles, EndFiles
<1>3. HandleInitial \/ HandleFork \/ HandleExec \/ HandleUnknown \/ HandleEntry \/ HandleExit
        => FilesInv'
  BY HandleInitialFiles, HandleForkFiles, HandleExecFiles, HandleUnknownFiles, HandleEntryFiles,
     HandleExitFiles
<1> QED
  BY <1>1, <1>2, <1>3 DEF Collect

LEMMA StutterFiles ==
  ASSUME FilesInv, UNCHANGED vars
  PROVE  FilesInv'
<1>1. /\ UNCHANGED <<at, group, stop, call, table, cwd, files, happened, modified, blurred, odd>>
      /\ UNCHANGED <<pc, cur, processes, snapshots, started, noted, deltas, lost>>
  BY DEF vars, commandVars, effects, tableVars, sinkVars
<1>2. AboutInv' /\ UNCHANGED <<FileNotes, Identities>>
  BY <1>1 DEF FilesInv, AboutInv, Stopped, FileNotes, Identities
<1>3. \A t \in Tids : (Within(t)' => Within(t)) /\ (Leaving(t)' <=> Leaving(t))
  BY <1>1 DEF Within, Leaving, Stopped
<1>4. pc' = "done" => deltas' = DOMAIN snapshots'
  BY <1>1 DEF FilesInv
<1> QED
  BY <1>1, <1>2, <1>3, <1>4, CollectorStepFiles

LEMMA FilesHold == Spec => []FilesInv
<1>1. TraceInv /\ TraceInv' /\ ToldInv /\ FilesInv /\ [Next]_vars => FilesInv'
  BY CommandFiles, CollectFiles, StutterFiles DEF Next, AtRest
<1> QED
  BY <1>1, InitFiles, TraceHolds, ToldHolds, PTL DEF Spec

\* When the table is empty no thread is leaving a call.
LEMMA FilesAreTold ==
  ASSUME ToldInv, FilesInv, Clear, pc = "done"
  PROVE  FilesTold /\ StatesTold
<1>1. PendingInv /\ LeavingInv /\ UsesInv /\ NotesInv /\ StatesInv /\ deltas = DOMAIN snapshots
  BY DEF FilesInv, ClearInv
<1>2. \A t \in Tids : ~Leaving(t)
  BY <1>1 DEF LeavingInv, ToldInv, HistoryInv, HeardInv
<1>3. StatesTold
  BY <1>1 DEF StatesTold, StatesInv
<1>4. Seen \subseteq Sure /\ Sure \subseteq FileOperations
  BY DEF Seen, Sure
<1>5. ASSUME NEW n \in noted, n[2] \in Sure
      PROVE  <<GroupOf(n[1]), n[2], n[3]>> \in Unhidden(Done(Sure))
  <2> DEFINE h == <<GroupOf(n[1]), n[2], n[3]>>
  <2>1. h[2] = n[2] /\ h[3] = n[3]
    OBVIOUS
  <2>2. h \in FilesDone /\ ~Hidden(n[3])
    BY <1>1, <1>4, <1>5 DEF NotesInv, FileNotes
  <2> HIDE DEF h
  <2>3. h \in Unhidden(Done(Sure))
    BY <1>5, <2>1, <2>2 DEF Unhidden, Hidden, Done, FilesDone
  <2> QED
    BY <2>3 DEF h
<1>6. ASSUME NEW h \in Unhidden(Done(Seen))
      PROVE  \E n \in noted : n[2] \in Seen /\ h = <<GroupOf(n[1]), n[2], n[3]>>
  <2>1. h \in FilesDone /\ h[2] \in Seen /\ ~Hidden(h[3])
    BY <1>4, <1>6 DEF Unhidden, Hidden, Done, FilesDone
  <2>2. h = <<h[1], h[2], h[3]>>
    BY <2>1, <1>1 DEF UsesInv
  <2>3. PICK n \in FileNotes : GroupOf(n[1]) = h[1] /\ n[2] = h[2] /\ n[3] = h[3]
    BY <2>1, <1>1, <1>2 DEF UsesInv
  <2> QED
    BY <2>1, <2>2, <2>3 DEF FileNotes
<1>7. FilesTold
  BY <1>5, <1>6 DEF FilesTold, Told
<1> QED
  BY <1>3, <1>7

\* A category without losses tells what happened: every thread once, with its
\* parent and its end, every exec, every use of a file and every change of one.
THEOREM ReportTrue == Spec => []ReportIsHistory
<1>1. TraceInv /\ ToldInv /\ FilesInv => ReportIsHistory
  <2> SUFFICES ASSUME TraceInv, ToldInv, FilesInv, pc = "done", Intact
               PROVE  /\ ThreadsTold /\ ExecsTold
                      /\ Clear => FilesTold /\ StatesTold
    BY DEF ReportIsHistory, Clear, Intact, Quiet
  <2> QED
    BY ThreadsAreTold, FilesAreTold
<1> QED
  BY <1>1, TraceHolds, ToldHolds, FilesHold, PTL
=============================================================================

----------------------------- MODULE Normalizer -----------------------------
(***************************************************************************)
(* Normalizer::replay (src/src/collector/linux/ebpf/normalize.rs): when    *)
(* the root process has been waited for, the records captured so far are   *)
(* put in the order of their times and turned into facts about processes   *)
(* with identities of their own.  Processes may go on after that; their    *)
(* later records are not seen.                                             *)
(*                                                                         *)
(* Losses are kept as the categories that have any, all that coverage      *)
(* asks of them.                                                           *)
(***************************************************************************)
EXTENDS TracedCommand, Descriptors

CONSTANTS
  MaxPaths, \* MAX_FILE_SNAPSHOTS
  Ignored   \* paths of the Node capture's own files

ASSUME PathsAssumption == MaxPaths \in Nat

VARIABLES
  phase,        \* what replay is doing
  queue,        \* records it has not come to
  plan,         \* ClonePlan: fork records and the clone records they belong to
  rootPid,      \* root_pid
  nextIdentity, \* next_identity
  processes,    \* processes
  threads,      \* threads
  mutations,    \* mutation_paths
  \* What the sink has been given.
  started,      \* processes, by identity: pid and parent
  exits,        \* exits, by identity: how many
  noted,        \* facts: identity, operation, target
  deltas,       \* paths whose state was recorded
  lost          \* categories in which a loss was counted

tableVars == <<rootPid, nextIdentity, processes, threads>>
sinkVars == <<started, exits, noted, deltas, lost>>
replayVars == <<phase, queue, plan, tableVars, mutations, sinkVars>>
vars == <<worldVars, replayVars>>

\* They belong to the scenario, for a small limit hides other cases.
MaxLive == left.live       \* MAX_LIVE_PROCESSES
MaxThreads == left.tracked \* MAX_TRACKED_THREADS

AllCategories == {"processes", "filesystem", "network", "environment"}

-----------------------------------------------------------------------------
(* plan_clones *)

IsClone(r) == r.kind = "clone"

\* event_order.  Two records of one time would be ordered by kind; the
\* model's clock does not stand still.
Before(q, r) == q.time < r.time

First(S) == CHOOSE r \in S : \A q \in S \ {r} : Before(r, q)

\* The fork record r takes the first clone record of its thread that none
\* before it has taken, if that call was entered before the fork.
Planned(r) ==
  LET taken == {plan[f].clone : f \in DOMAIN plan}
      clones == {q \in captured \ taken : IsClone(q) /\ q.tgid = r.tgid /\ q.tid = r.tid}
  IN  IF clones = {} \/ ~Before(First(clones), r) THEN plan
      ELSE With(plan, r, [clone |-> First(clones)])

PlanFork ==
  LET forks == {q \in queue : q.kind = "fork"} IN
  /\ phase = "planning"
  /\ IF forks = {} THEN phase' = "replaying" /\ queue' = captured /\ UNCHANGED plan
     ELSE plan' = Planned(First(forks)) /\ queue' = queue \ {First(forks)} /\ UNCHANGED phase
  /\ UNCHANGED <<worldVars, tableVars, mutations, sinkVars>>

-----------------------------------------------------------------------------
(* Registering and leaving. *)

Entry(identity, from, descriptors) ==
  [identity |-> identity, cwd |-> from, descriptors |-> descriptors]

Lose(categories) == lost' = lost \cup categories

\* Mutant of Start: the next process gets the same identity.
StartSame(pid, parentIdentity, facts) ==
  /\ started' = With(started, nextIdentity, [pid |-> pid, parent |-> parentIdentity])
  /\ exits' = With(exits, nextIdentity, 0)
  /\ noted' = noted \cup {<<nextIdentity, operation, <<>>>> : operation \in facts}
  /\ nextIdentity' = nextIdentity

\* record_process, and the fact that comes with it.
Start(pid, parentIdentity, facts) ==
  /\ started' = With(started, nextIdentity, [pid |-> pid, parent |-> parentIdentity])
  /\ exits' = With(exits, nextIdentity, 0)
  /\ noted' = noted \cup {<<nextIdentity, operation, <<>>>> : operation \in facts}
  /\ nextIdentity' = nextIdentity + 1

\* register_orphan
RegisterOrphan(pid) ==
  /\ processes' = With(processes, pid, Entry(nextIdentity, Home, <<>>))
  /\ Start(pid, None, {})

\* register_child
RegisterChild(child, par) ==
  \/ /\ child \in DOMAIN processes
     /\ UNCHANGED <<tableVars, sinkVars>>
  \/ /\ child \notin DOMAIN processes /\ Cardinality(DOMAIN processes) >= MaxLive
     /\ Lose(AllCategories)
     /\ UNCHANGED <<tableVars, started, exits, noted, deltas>>
  \/ /\ child \notin DOMAIN processes /\ Cardinality(DOMAIN processes) < MaxLive
     /\ par \notin DOMAIN processes
     /\ Lose({"processes"}) /\ RegisterOrphan(child)
     /\ UNCHANGED <<rootPid, threads, deltas>>
  \/ /\ child \notin DOMAIN processes /\ Cardinality(DOMAIN processes) < MaxLive
     /\ par \in DOMAIN processes
     /\ processes' = With(processes, child, [processes[par] EXCEPT !.identity = nextIdentity])
     /\ threads' = With(threads, child, child)
     /\ Start(child, processes[par].identity, {"clone"})
     /\ UNCHANGED <<rootPid, lost, deltas>>

\* register_thread
RegisterThread(thread, par) ==
  /\ IF Cardinality(DOMAIN threads) >= MaxThreads
     THEN Lose({"processes"}) /\ UNCHANGED threads
     ELSE /\ threads' = With(threads, thread, IF par \in DOMAIN threads THEN threads[par] ELSE par)
          /\ UNCHANGED lost
  /\ UNCHANGED <<rootPid, nextIdentity, processes, started, exits, noted, deltas>>

\* rekey_process
Rekeyed(alias, pid) == With(Without(processes, {alias}), pid, processes[alias])
RekeyedThreads(alias, pid) ==
  [t \in (DOMAIN threads \ {alias}) \cup {pid} |->
     IF t = pid \/ threads[t] = alias THEN pid ELSE threads[t]]

\* record_process_exit and its fact, for the entries of pids.
Left(pids) ==
  /\ exits' = [i \in DOMAIN exits |->
                 exits[i] + Cardinality({p \in pids : processes[p].identity = i})]
  /\ noted' = noted \cup {<<processes[p].identity, "exit", <<>>>> : p \in pids}

-----------------------------------------------------------------------------
(* One record. *)

\* observe_fork: only forks with a clone record are believed.
ObserveFork(r) ==
  /\ r.kind = "fork"
  /\ IF r \notin DOMAIN plan THEN UNCHANGED <<tableVars, sinkVars>>
     ELSE IF plan[r].clone.about.thread THEN RegisterThread(r.other, r.tgid)
     ELSE RegisterChild(r.other, r.tgid)
  /\ UNCHANGED mutations

\* observe_clone_syscall: the records no fork record has been found for.
ObserveClone(r) ==
  /\ IsClone(r)
  /\ IF \E f \in DOMAIN plan : plan[f].clone = r THEN UNCHANGED <<tableVars, sinkVars>>
     ELSE IF r.about.thread THEN RegisterThread(r.other, r.tgid)
     ELSE RegisterChild(r.other, r.tgid)
  /\ UNCHANGED mutations

\* Mutant of ExecKnown: the former thread keeps its entry.
ExecKeepsFormer(r, known) ==
  /\ processes' = known
  /\ exits' = [i \in DOMAIN exits |->
                 exits[i] + Cardinality({p \in {r.other} \cap (DOMAIN known \ {r.tgid}) :
                                          known[p].identity = i})]
  /\ noted' = noted \cup {<<known[r.tgid].identity, "exec", <<>>>>}

\* observe_exec of a process that has an entry: the former thread, had it
\* been taken for a process, is gone.
ExecKnown(r, known) ==
  LET former == {r.other} \cap (DOMAIN known \ {r.tgid}) IN
  /\ processes' = Without(known, former)
  /\ exits' = [i \in DOMAIN exits |->
                 exits[i] + Cardinality({p \in former : known[p].identity = i})]
  /\ noted' = noted \cup {<<known[p].identity, "exit", <<>>>> : p \in former}
                    \cup {<<known[r.tgid].identity, "exec", <<>>>>}

\* observe_exec.  A process without an entry is taken to be the root process
\* under another pid: the runner may be in a pid namespace of its own.  What
\* the code goes on to when there is no root process is left out: there
\* always is one (EndsOnce).
ObserveExec(r) ==
  /\ r.kind = "exec"
  /\ IF r.tgid \in DOMAIN processes
     THEN /\ ExecKnown(r, processes)
          /\ threads' = With(threads, r.tgid, r.tgid)
          /\ UNCHANGED rootPid
     ELSE /\ ExecKnown(r, Rekeyed(rootPid, r.tgid))
          /\ threads' = RekeyedThreads(rootPid, r.tgid)
          /\ rootPid' = r.tgid
  /\ UNCHANGED <<nextIdentity, started, lost, mutations, deltas>>

\* observe_exit.  The record of a first thread ends its process; the root
\* process is finished with the status its waiter got.
ObserveExit(r) ==
  LET gone == IF r.tid = r.tgid /\ r.tgid = rootPid THEN {} ELSE {r.tid} \cap DOMAIN processes IN
  /\ r.kind = "exit"
  /\ processes' = Without(processes, gone)
  /\ Left(gone)
  /\ threads' = IF r.tid # r.tgid THEN Without(threads, {r.tid})
                ELSE Without(threads, {t \in DOMAIN threads : gone # {} /\ threads[t] = r.tgid})
  /\ UNCHANGED <<rootPid, nextIdentity, started, lost, mutations, deltas>>

\* record_file_event: nothing is said of a call all whose paths are ignored.
Visible(facts) ==
  {f \in facts : ~(Len(f[2]) > 0 /\ \A i \in DOMAIN f[2] : f[2][i] \in Ignored)}

\* remember_mutation_path, for the paths one call touches.
Remember(paths) ==
  \E kept \in SUBSET (paths \ mutations) :
    /\ mutations' = mutations \cup kept
    /\ Cardinality(mutations') <= MaxPaths
    /\ paths \subseteq mutations' \/ Cardinality(mutations') = MaxPaths

\* observe_syscall: charged to the process of the thread.
ObserveCall(r) ==
  LET pid == IF r.tid \in DOMAIN threads THEN threads[r.tid] ELSE r.tgid
      effect == CallEffect(processes[pid], r.about, r.other)
  IN
  /\ r.kind = "call"
  /\ IF pid \notin DOMAIN processes THEN UNCHANGED <<processes, noted, mutations, lost>>
     ELSE /\ processes' = [processes EXCEPT ![pid] = effect.process]
          /\ noted' = noted \cup {<<processes[pid].identity, f[1], f[2]>> : f \in Visible(effect.facts)}
          /\ Remember(effect.touched)
          /\ Lose(effect.lost \cup (IF effect.touched \subseteq mutations' THEN {} ELSE {"filesystem"}))
  /\ UNCHANGED <<rootPid, nextIdentity, threads, started, exits, deltas>>

ReplayRecord ==
  /\ phase = "replaying" /\ queue # {}
  /\ LET first == First(queue) IN
       /\ queue' = queue \ {first}
       /\ \/ ObserveFork(first) \/ ObserveClone(first)
          \/ ObserveExec(first) \/ ObserveExit(first) \/ ObserveCall(first)
  /\ UNCHANGED <<worldVars, phase, plan>>

-----------------------------------------------------------------------------
(* Beginning and end. *)

\* child.wait returns and the reader is stopped; records are sorted.
StartReplay ==
  /\ phase = "collecting" /\ Threads(Root) = {}
  /\ phase' = "planning"
  /\ queue' = captured
  /\ UNCHANGED <<worldVars, plan, tableVars, mutations, sinkVars>>

\* finish_remaining_processes: what is left over has ended unseen.
FinishRemaining ==
  LET remaining == DOMAIN processes \ {rootPid} IN
  /\ phase = "replaying" /\ queue = {}
  /\ Lose(IF remaining = {} THEN {} ELSE {"processes"})
  /\ processes' = Without(processes, remaining)
  /\ Left(remaining)
  /\ phase' = "finishing"
  /\ UNCHANGED <<worldVars, queue, plan, rootPid, nextIdentity, threads, mutations, started, deltas>>

\* finish_root fails when there is no root process; then record_file_states.
FinishRoot ==
  /\ phase = "finishing"
  /\ IF rootPid \in DOMAIN processes
     THEN /\ processes' = Without(processes, {rootPid})
          /\ Left({rootPid})
          /\ deltas' = mutations \ Ignored
          /\ phase' = "done"
     ELSE phase' = "failed" /\ UNCHANGED <<processes, exits, noted, deltas>>
  /\ UNCHANGED <<worldVars, queue, plan, rootPid, nextIdentity, threads, mutations, started, lost>>

\* The root process is registered under the pid the runner knows.
Init ==
  /\ WorldInit
  /\ phase = "collecting" /\ queue = {} /\ plan = <<>>
  /\ rootPid = SeenAs(Root)
  /\ nextIdentity = 2
  /\ processes = [p \in {rootPid} |-> Entry(1, Home, <<>>)]
  /\ threads = [p \in {rootPid} |-> p]
  /\ mutations = {}
  /\ started = [i \in {1} |-> [pid |-> rootPid, parent |-> None]]
  /\ exits = [i \in {1} |-> 0]
  /\ noted = {<<1, "start", <<>>>>}
  /\ deltas = {} /\ lost = {}

Ended == phase \in {"done", "failed"} /\ UNCHANGED vars

Next ==
  \/ phase = "collecting" /\ WorldNext /\ UNCHANGED replayVars
  \/ StartReplay \/ PlanFork \/ ReplayRecord \/ FinishRemaining \/ FinishRoot
  \/ Ended

Spec == Init /\ [][Next]_vars

-----------------------------------------------------------------------------
Identities == 1 .. nextIdentity - 1

TypeOK ==
  /\ phase \in {"collecting", "planning", "replaying", "finishing", "done", "failed"}
  /\ queue \subseteq captured
  /\ DOMAIN plan \subseteq captured
  /\ DOMAIN processes \subseteq Tids \cup {Inner[t] : t \in Tids}
  /\ \A p \in DOMAIN processes : processes[p].identity \in Identities
  /\ DOMAIN started = Identities /\ DOMAIN exits = Identities
  /\ lost \subseteq AllCategories

\* Every process that was reported as started is in the table or has been
\* reported as ended, once, whatever records are lost and in whatever order
\* processes are forked, execute and end; and the root process is never
\* taken for one that has ended before the command has.
EndsOnce ==
  /\ \A i \in Identities :
       exits[i] + Cardinality({p \in DOMAIN processes : processes[p].identity = i}) = 1
  /\ phase \notin {"done", "failed"} => rootPid \in DOMAIN processes
  /\ phase = "done" => DOMAIN processes = {}

-----------------------------------------------------------------------------
(* What the facts say, compared with what happened. *)

Born == {g \in Tids : at[g] # "unborn" /\ group[g] = g}
PidOf(g) == IF g = Root THEN started[1].pid ELSE g
IdentityOf(g) == CHOOSE i \in Identities : started[i].pid = PidOf(g)

\* The processes of the command, each once, with the parents they had.
ProcessesTold ==
  /\ {started[i].pid : i \in Identities} = {PidOf(g) : g \in Born}
  /\ Cardinality(Identities) = Cardinality(Born)
  /\ \A g \in Born \ {Root} : started[IdentityOf(g)].parent = IdentityOf(parent[g])

FileOperations ==
  {"open", "read", "write", "truncate", "create", "unlink", "rename", "link", "symlink"}
SocketOperations == {"bind", "connect", "listen", "accept", "send", "receive", "dns"}

DoneBy(g, operations) == {<<h[2], h[3]>> : h \in {h \in happened : h[1] = g /\ h[2] \in operations}}
ToldOf(g, operations) ==
  {<<n[2], n[3]>> : n \in {n \in noted : n[1] = IdentityOf(g) /\ n[2] \in operations}}

ExecsTold == \A g \in Born : ToldOf(g, {"exec"}) = DoneBy(g, {"exec"})

\* That a call which opens a file has made it is told only if it was exclusive.
FilesTold ==
  LET sure == IF "created" \in odd THEN FileOperations \ {"create"} ELSE FileOperations
  IN  \A g \in Born : /\ ToldOf(g, FileOperations) \subseteq Visible(DoneBy(g, FileOperations))
                       /\ Visible(DoneBy(g, sure)) \subseteq ToldOf(g, sure)

\* Not everything is told of sockets, but what is told is so.
SocketsTold == \A g \in Born : ToldOf(g, SocketOperations) \subseteq DoneBy(g, SocketOperations)

Touched(operation, paths) ==
  IF operation = "rename" THEN {paths[1], paths[2]}
  ELSE IF operation \in {"symlink", "link"} THEN {paths[2]}
  ELSE IF operation \in Mutating THEN {paths[1]} ELSE {}
StatesTold ==
  LET changed == UNION {Touched(h[2], h[3]) : h \in {h \in happened : h[2] \in FileOperations}}
  IN  deltas \subseteq changed \ Ignored /\ ("created" \notin odd => changed \ Ignored \subseteq deltas)

\* A report without losses tells what happened: the processes with their
\* parents, every exec and every use of a file charged to the process that
\* did it, no network fact that is not so, the state of every file that was
\* changed; but not that an open without O_EXCL has made its file, nor the
\* state of that one.  It holds as long as the command does not do what the
\* records do not tell of (odd) and the threads of a process make their calls
\* one after the other.
ReplayIsHistory ==
  phase = "done" /\ lost = {} /\ dropped = 0 /\ odd \subseteq {"created"} /\ ~overlapped =>
    ProcessesTold /\ ExecsTold /\ FilesTold /\ SocketsTold /\ StatesTold

\* README.md:26: "Process coverage is complete unless events are lost."  Not
\* so when the first thread of a process ends before the others, as it does
\* when another thread executes a program: its record ends the process, and
\* the exec that follows is charged to the root process.
ProcessCoverageComplete ==
  phase = "done" /\ "processes" \notin lost /\ dropped = 0 => ProcessesTold /\ ExecsTold
=============================================================================

--------------------------- MODULE PtraceCollector ---------------------------
(***************************************************************************)
(* PtraceCollector (src/src/collector/linux.rs): every thread of the       *)
(* command is traced.  It stops before and after each system call, when it *)
(* has forked and when it has executed a program, and stays stopped until  *)
(* the collector, which waits for all of them at once, resumes it.  A      *)
(* thread can be killed while it is stopped; what the collector then asks  *)
(* of it fails, and with it the collection.                                *)
(*                                                                         *)
(* The stops before and after the calls that fork, execute and exit are    *)
(* left out: the collector reads nothing from them.  So are stops for      *)
(* signals other than the SIGSTOP of a new tracee.                         *)
(***************************************************************************)
EXTENDS CommandCalls, SyscallState

CONSTANTS
  Root,         \* the child of the runner
  Names,        \* of files and directories
  Home,         \* its working directory
  MaxSnapshots, \* MAX_FILE_SNAPSHOTS
  Ignored,      \* paths of the Node capture's own files
  Scenarios     \* bounds: what the command may do, how often; live is MAX_LIVE_PROCESSES

ASSUME TidsAssumption == Root \in Tids /\ None \notin Tids
ASSUME SnapshotsAssumption == MaxSnapshots \in Nat
ASSUME NamesAssumption == "/" \in Names /\ None \notin Nat \cup Seq(Names)
ASSUME HomeAssumption == Home \in Seq(Names)

\* The uses of files that calls make have names, and so have the files.
WellFormed(c) ==
  /\ c.op = "open" => /\ c.flags \subseteq {"create", "exclusive", "truncate"}
                      /\ "exclusive" \in c.flags => "create" \in c.flags
                      /\ c.path.name \in Names
  /\ c.op \in {"read", "write", "truncate", "mmap"} =>
       c.operations \subseteq {"read", "write", "truncate"}
  /\ c.op = "chdir" => c.path.name \in Names
  /\ c.op = "path" => c.operation \in {"read", "truncate", "unlink", "create"} /\ c.path.name \in Names
  /\ c.op = "pair" => /\ c.operation \in {"rename", "link", "symlink"}
                      /\ {c.path.name, c.second.name} \subseteq Names
ASSUME CallsAssumption ==
  \A s \in Scenarios : "alphabet" \in DOMAIN s /\ \A c \in s.alphabet : WellFormed(c)

\* Why a thread is stopped: a new one, before and after a call, when it has
\* forked child, when it has executed a program (former is the id it had).
Stops ==
  [kind : {"initial", "entry", "exit"}] \cup [kind : {"fork"}, child : Tids]
    \cup [kind : {"exec"}, former : Tids]
ASSUME StopsAssumption == None \notin Stops

\* What calls are decoded as doing to files.
FileOperations ==
  {"open", "read", "write", "truncate", "create", "unlink", "rename", "link", "symlink"}
Pendings ==
  [facts : SUBSET (FileOperations \X Seq(Seq(Names))), touched : SUBSET Seq(Names),
   requiresData : BOOLEAN]
ASSUME PendingsAssumption == None \notin Pendings

VARIABLES
  \* The command.
  at,         \* what each thread is doing
  group,      \* the process it belongs to
  parent,     \* the thread that forked it; history
  stop,       \* why it is stopped
  call,       \* the call it is in
  left,       \* what remains of the scenario
  modified,   \* paths whose files the command has changed; history
  blurred,    \* what the stops alone do not tell; history
  \* The collector.
  pc,
  cur,          \* the tracee wait has returned, or is to return
  processes,    \* processes: identity and SyscallState by thread
  nextIdentity, \* next_identity
  snapshots,    \* file_snapshots: whether the file was as the command found it
  rootEnded,    \* root_status is there
  \* What the sink has been given.
  started,      \* processes, by identity: thread and parent
  exits,        \* exits, by identity: how many
  noted,        \* facts: identity, operation, target
  deltas,       \* paths whose states before and after were recorded
  lost          \* categories in which a loss was counted

effects == <<table, cwd, sockets, files, happened>>
commandVars == <<at, group, parent, stop, call, left, effects, modified, blurred, odd>>
sinkVars == <<started, exits, noted, deltas, lost>>
tableVars == <<processes, nextIdentity, snapshots, rootEnded>>
vars == <<commandVars, pc, cur, tableVars, sinkVars>>

AllCategories == {"processes", "filesystem", "network", "environment"}

-----------------------------------------------------------------------------
(* The command. *)

Ended == {"unborn", "dead"}
Alive(t) == at[t] \notin Ended \cup {"zombie"}
Threads(g) == {t \in Tids : group[t] = g /\ Alive(t)}
Free(t) == at[t] = "running" /\ call[t] = None /\ stop[t] = None

EnterCall(t, c) ==
  /\ Free(t) /\ left.calls > 0
  /\ left' = [left EXCEPT !.calls = @ - 1]
  /\ at' = [at EXCEPT ![t] = "stopped"]
  /\ stop' = [stop EXCEPT ![t] = [kind |-> "entry"]]
  /\ call' = [call EXCEPT ![t] = [about |-> c, result |-> None]]
  /\ UNCHANGED <<group, parent, effects, modified, blurred, odd>>

\* Paths that a call changes, as Mutation says.
Changes(fact) ==
  CASE fact[2] = "rename" -> {fact[3][1], fact[3][2]}
    [] fact[2] \in {"link", "symlink"} -> {fact[3][2]}
    [] fact[2] \in Mutation -> {fact[3][1]}
    [] OTHER -> {}

\* Calls of two threads of a process overlap; a descriptor of a socket is made
\* another one's; a directory is made, which is not among the calls decoded.
Blurs(t, c) ==
  (IF \E o \in Threads(group[t]) \ {t} : call[o] # None THEN {"overlap"} ELSE {})
  \cup (IF c.op = "dup" /\ c.to # None /\ Has(group[t], c.to, "socket") THEN {"replaced"} ELSE {})
  \cup (IF c.op = "path" /\ c.operation = "create" THEN {"directory"} ELSE {})

\* A file comes or goes after the collector has looked for it and before the
\* call that may make it: another thread's call makes or removes it.
Probed(o) ==
  /\ call[o] # None /\ stop[o] # [kind |-> "exit"] /\ call[o].about.op = "open" /\ "create" \in call[o].about.flags
  /\ o \in DOMAIN processes /\ processes[o].state.file # None
Races(t) ==
  IF \E o \in Tids \ {t} : Probed(o) /\ \E p \in processes[o].state.file.touched :
       (p \in files) # (p \in files')
  THEN {"raced"} ELSE {}

ReturnFromCall(t) ==
  LET g == group[t] IN
  /\ at[t] = "running" /\ call[t] # None
  /\ \E r \in Results(left.endpoints) \cup {None} :
       /\ \/ Do(g, call[t].about, r)
          \/ r = None /\ DoNothing
       /\ call' = [call EXCEPT ![t].result = r]
  /\ modified' = modified \cup UNION {Changes(fact) : fact \in happened' \ happened}
  /\ blurred' = blurred \cup Blurs(t, call[t].about) \cup Races(t)
  /\ at' = [at EXCEPT ![t] = "stopped"]
  /\ stop' = [stop EXCEPT ![t] = [kind |-> "exit"]]
  /\ UNCHANGED <<group, parent, left>>

\* fork, vfork, clone: t stops to tell of c, which starts with a stop.
Fork(t, c, thread) ==
  /\ Free(t) /\ at[c] = "unborn"
  /\ IF thread THEN left.threads > 0 ELSE left.forks > 0
  /\ left' = IF thread THEN [left EXCEPT !.threads = @ - 1] ELSE [left EXCEPT !.forks = @ - 1]
  /\ at' = [at EXCEPT ![t] = "stopped", ![c] = "stopped"]
  /\ stop' = [stop EXCEPT ![t] = [kind |-> "fork", child |-> c], ![c] = [kind |-> "initial"]]
  /\ group' = [group EXCEPT ![c] = IF thread THEN group[t] ELSE c]
  /\ parent' = [parent EXCEPT ![c] = t]
  /\ table' = [table EXCEPT ![c] = IF thread THEN @ ELSE table[group[t]]]
  /\ cwd' = [cwd EXCEPT ![c] = IF thread THEN @ ELSE cwd[group[t]]]
  /\ UNCHANGED <<call, sockets, files, happened, modified, blurred, odd>>

\* SIGKILL reaches threads, stopped or not.  The end of one that is not traced
\* is not told.
Killed(S) ==
  /\ at' = [t \in Tids |-> IF t \notin S THEN at[t]
                          ELSE IF at[t] = "untraced" THEN "dead" ELSE "zombie"]
  /\ call' = [t \in Tids |-> IF t \in S THEN None ELSE call[t]]
  /\ odd' = IF \E t \in S : at[t] \in {"stopped", "told"}
            THEN odd \cup {"killed"} ELSE odd

\* kill -9, or exit_group by one thread while others are stopped.
KillProcess(g) ==
  /\ left.kills > 0 /\ Threads(g) # {}
  /\ left' = [left EXCEPT !.kills = @ - 1]
  /\ Killed(Threads(g))
  /\ UNCHANGED <<group, parent, stop, effects, modified, blurred>>

\* execve: the other threads of the process are killed.
Exec(t) ==
  /\ Free(t) /\ left.execs > 0
  /\ left' = [left EXCEPT !.execs = @ - 1]
  /\ Killed(Threads(group[t]) \ {t})
  /\ stop' = [stop EXCEPT ![t] = [kind |-> "exec", former |-> t]]
  /\ UNCHANGED <<group, parent, effects, modified, blurred>>

\* They have been waited for, but the first, whose id the last one takes.  It
\* does so when the collector is done with a stop of the first one.
ExecDone(t) ==
  LET g == group[t] IN
  /\ at[t] = "running" /\ stop[t] # None
  /\ cur = g => pc \notin {"handle", "resume"}
  /\ pc = "detach" => parent[cur] # g \/ cur = t
  /\ \A o \in Tids \ {t, g} : group[o] = g => at[o] \in Ended
  /\ at' = [at EXCEPT ![t] = "dead", ![g] = "stopped"]
  /\ stop' = [stop EXCEPT ![t] = None, ![g] = stop[t]]
  /\ table' = [table EXCEPT ![g] = Without(@, {fd \in DOMAIN @ : @[fd].cloexec})]
  /\ happened' = happened \cup {<<g, "exec", <<>>>>}
  /\ UNCHANGED <<group, parent, call, left, cwd, sockets, files, modified, blurred, odd>>

Exit(t) ==
  /\ at[t] \in {"running", "untraced"} /\ call[t] = None /\ stop[t] = None
  /\ at' = [at EXCEPT ![t] = IF at[t] = "running" THEN "zombie" ELSE "dead"]
  /\ UNCHANGED <<group, parent, stop, call, left, effects, modified, blurred, odd>>

Command ==
  /\ \E t \in Tids :
       \/ \E c \in left.alphabet : EnterCall(t, c)
       \/ ReturnFromCall(t)
       \/ \E c \in Tids, thread \in BOOLEAN : Fork(t, c, thread)
       \/ KillProcess(t) \/ Exec(t) \/ ExecDone(t) \/ Exit(t)
  /\ UNCHANGED <<pc, cur, tableVars, sinkVars>>

-----------------------------------------------------------------------------
(* Tables. *)

Lose(categories) == lost' = lost \cup categories

\* record_process and the fact that comes with it.
Start(t, parentIdentity, state, facts) ==
  /\ processes' = With(processes, t, [identity |-> nextIdentity, state |-> state])
  /\ started' = With(started, nextIdentity, [thread |-> t, parent |-> parentIdentity])
  /\ exits' = With(exits, nextIdentity, 0)
  /\ noted' = noted \cup {<<nextIdentity, f, <<>>>> : f \in facts}
  /\ nextIdentity' = nextIdentity + 1

\* register_process, but for the case that there is no room.
Register(c, from) ==
  \/ c \in DOMAIN processes /\ UNCHANGED <<processes, nextIdentity, started, exits, noted>>
  \/ /\ c \notin DOMAIN processes
     /\ IF from \in DOMAIN processes
        THEN Start(c, processes[from].identity, Child(processes[from].state), {"fork"})
        ELSE Start(c, None, NoCalls, {"fork"})

\* record_process_exit and its fact.
Ends(identity) ==
  /\ exits' = [exits EXCEPT ![identity] = @ + 1]
  /\ noted' = noted \cup {<<identity, "exit", <<>>>>}

\* record_exit
RecordExit(t) ==
  IF t \in DOMAIN processes
  THEN Ends(processes[t].identity) /\ processes' = Without(processes, {t})
  ELSE UNCHANGED <<processes, exits, noted>>

\* Mutant of Reconciled: the former id is not taken out.
ReconciledTwice(g, former) ==
  IF former = g \/ former \notin DOMAIN processes \/ g \in DOMAIN processes THEN processes
  ELSE With(processes, g, processes[former])

\* reconcile_exec_identity: the thread that has taken the id g keeps the
\* identity that g had.
Reconciled(g, former) ==
  IF former = g \/ former \notin DOMAIN processes THEN processes
  ELSE IF g \in DOMAIN processes THEN Without(processes, {former})
  ELSE With(Without(processes, {former}), g, processes[former])

\* record_exec of a process that is known
RecordExec(g, former) ==
  LET known == Reconciled(g, former)
      gone == IF former # g /\ {former, g} \subseteq DOMAIN processes
              THEN {processes[former].identity} ELSE {}
  IN  /\ processes' = [known EXCEPT ![g].state = Child(@)]
      /\ exits' = [i \in DOMAIN exits |-> IF i \in gone THEN exits[i] + 1 ELSE exits[i]]
      /\ noted' = noted \cup {<<i, "exit", <<>>>> : i \in gone}
                        \cup {<<known[g].identity, "exec", <<>>>>}

-----------------------------------------------------------------------------
(* collect_inner. *)

\* The stop after TRACEME: the root process is registered and resumed.
Begin ==
  /\ pc = "start" /\ at[Root] \in {"stopped", "zombie"}
  /\ IF at[Root] = "stopped"
     THEN /\ Start(Root, None, NoCalls, {"start", "exec"})
          /\ at' = [at EXCEPT ![Root] = "running"] /\ stop' = [stop EXCEPT ![Root] = None]
          /\ pc' = "wait"
     ELSE /\ at' = [at EXCEPT ![Root] = "dead"]
          /\ pc' = "terminate"
          /\ UNCHANGED <<stop, processes, nextIdentity, started, exits, noted>>
  /\ UNCHANGED <<group, parent, call, left, effects, modified, blurred, odd, cur, snapshots,
                 rootEnded, deltas, lost>>

\* waitpid(-1) may return t: a stop, or an end.  That of a first thread is
\* told when there are no others left to wait for.
Reportable(t) ==
  \/ at[t] = "stopped"
  \/ at[t] = "zombie" /\ (group[t] = t => \A o \in Tids \ {t} : group[o] = t => at[o] \in Ended)

Waiting == pc = "wait" /\ DOMAIN processes # {}

\* t has come further than its first stop before the fork of it was handled.
Early(t) ==
  blurred' = IF t \in DOMAIN processes \/ (stop[t] # None /\ stop[t].kind = "initial")
             THEN blurred ELSE blurred \cup {"early"}

WaitStop(t) ==
  /\ Waiting /\ at[t] = "stopped"
  /\ at' = [at EXCEPT ![t] = "told"]
  /\ cur' = t /\ pc' = "handle"
  /\ Early(t)
  /\ UNCHANGED <<group, parent, stop, call, left, effects, modified, odd, tableVars, sinkVars>>

WaitExit(t) ==
  /\ Waiting /\ at[t] = "zombie" /\ Reportable(t)
  /\ at' = [at EXCEPT ![t] = "dead"] /\ stop' = [stop EXCEPT ![t] = None]
  /\ RecordExit(t)
  /\ rootEnded' = (rootEnded \/ t = Root)
  /\ blurred' = IF t \in DOMAIN processes THEN blurred ELSE blurred \cup {"early"}
  /\ UNCHANGED <<group, parent, call, left, effects, modified, odd, pc, cur, nextIdentity,
                 snapshots, started, deltas, lost>>

\* Mutant of WaitFails: every error of waitpid is taken for an interruption.
WaitFailsAgain ==
  /\ Waiting /\ \A t \in Tids : at[t] \in Ended \cup {"untraced"}
  /\ UNCHANGED vars

\* ECHILD: nobody is left, but some are still registered.
WaitFails ==
  /\ Waiting /\ \A t \in Tids : at[t] \in Ended \cup {"untraced"}
  /\ pc' = "terminate"
  /\ UNCHANGED <<commandVars, cur, tableVars, sinkVars>>

\* resume_syscall fails when the tracee has been killed in its stop.
Resume ==
  /\ pc = "resume"
  /\ IF at[cur] = "told"
     THEN /\ at' = [at EXCEPT ![cur] = "running"]
          /\ call' = [call EXCEPT ![cur] = IF stop[cur].kind = "exit" THEN None ELSE @]
          /\ stop' = [stop EXCEPT ![cur] = None]
          /\ pc' = "wait"
     ELSE pc' = "terminate" /\ UNCHANGED <<at, call, stop>>
  /\ UNCHANGED <<group, parent, left, effects, modified, blurred, odd, cur, tableVars, sinkVars>>

\* A stop of which the collector asks the tracee more, and what it asks fails.
Asks(kind) == kind \in {"fork", "exec"} \/ (kind # "initial" /\ cur \in DOMAIN processes)
Handles(kinds) == pc = "handle" /\ stop[cur].kind \in kinds
Answered(kinds) == Handles(kinds) /\ at[cur] = "told"

Refused ==
  /\ pc = "handle" /\ at[cur] = "zombie" /\ Asks(stop[cur].kind)
  /\ pc' = "terminate"
  /\ UNCHANGED <<commandVars, cur, tableVars, sinkVars>>

\* A new tracee's SIGSTOP is swallowed.
HandleInitial ==
  /\ Handles({"initial"})
  /\ pc' = "resume"
  /\ UNCHANGED <<commandVars, cur, tableVars, sinkVars>>

HandleFork ==
  LET c == stop[cur].child
      room == c \in DOMAIN processes \/ Cardinality(DOMAIN processes) < left.live
  IN
  /\ Answered({"fork"})
  /\ IF room
     THEN Register(c, cur) /\ pc' = "resume" /\ UNCHANGED <<cur, lost>>
     ELSE /\ Lose(AllCategories) /\ pc' = "detach" /\ cur' = c
          /\ UNCHANGED <<processes, nextIdentity, started, exits, noted>>
  /\ UNCHANGED <<commandVars, snapshots, rootEnded, deltas>>

\* detach_new_tracee: waits for the child alone, and fails when it is gone;
\* then the tracee that has forked it is resumed.
Detach ==
  /\ pc = "detach"
  /\ \/ /\ Reportable(cur)
        /\ at' = [at EXCEPT ![cur] = IF at[cur] = "stopped" THEN "untraced" ELSE "dead"]
        /\ stop' = [stop EXCEPT ![cur] = None]
        /\ call' = [call EXCEPT ![cur] = None]
        /\ pc' = "resume" /\ cur' = parent[cur]
     \/ /\ at[cur] = "dead"
        /\ pc' = "terminate"
        /\ UNCHANGED <<at, stop, call, cur>>
  /\ UNCHANGED <<group, parent, left, effects, modified, blurred, odd, tableVars, sinkVars>>

HandleExec ==
  LET former == stop[cur].former IN
  /\ Answered({"exec"})
  /\ IF {cur, former} \cap DOMAIN processes # {}
     THEN RecordExec(cur, former) /\ pc' = "resume"
     ELSE pc' = "terminate" /\ UNCHANGED <<processes, exits, noted>>
  /\ UNCHANGED <<commandVars, cur, nextIdentity, snapshots, rootEnded, started, deltas, lost>>

\* What the collector sees of the process and of the files.
View(t, readable) ==
  [table |-> table[group[t]], cwd |-> cwd[group[t]], sockets |-> sockets, files |-> files,
   readable |-> readable]

\* is_internal_event
Shown(facts) == {f \in facts : ~(Len(f[2]) > 0 /\ \A i \in DOMAIN f[2] : f[2][i] \in Ignored)}

\* remember_file_snapshot, for the paths a call is about to change.
Remember(paths) ==
  \E kept \in SUBSET (paths \ DOMAIN snapshots) :
    /\ snapshots' = [p \in DOMAIN snapshots \cup kept |->
                       IF p \in kept THEN p \notin modified ELSE snapshots[p]]
    /\ Cardinality(DOMAIN snapshots') <= MaxSnapshots
    /\ paths \subseteq DOMAIN snapshots' \/ Cardinality(DOMAIN snapshots') = MaxSnapshots
    /\ Lose(IF paths \subseteq DOMAIN snapshots' THEN {} ELSE {"filesystem"})

\* record_syscall of a tracee that is not registered
HandleUnknown ==
  /\ Handles({"entry", "exit"}) /\ cur \notin DOMAIN processes
  /\ Lose(AllCategories)
  /\ pc' = "resume"
  /\ UNCHANGED <<commandVars, cur, tableVars, started, exits, noted, deltas>>

\* The collector may not be allowed to look for the file that a call opens.
HandleEntry ==
  LET c == call[cur].about IN
  /\ Answered({"entry"}) /\ cur \in DOMAIN processes
  /\ \E readable \in IF c.op = "open" THEN BOOLEAN ELSE {TRUE} :
       LET state == Entered(processes[cur].state, View(cur, readable), c) IN
       /\ processes' = [processes EXCEPT ![cur].state = state]
       /\ Remember(TouchedBy(state) \ Ignored)
       /\ blurred' = blurred \cup IF ~readable /\ "create" \in c.flags THEN {"unread"} ELSE {}
  /\ pc' = "resume"
  /\ UNCHANGED <<at, group, parent, stop, call, left, effects, modified, odd, cur, nextIdentity,
                 rootEnded, started, exits, noted, deltas>>

HandleExit ==
  /\ Answered({"exit"}) /\ cur \in DOMAIN processes
  /\ \E visible \in BOOLEAN :
       LET effect == Exited(processes[cur].state, View(cur, TRUE), call[cur].result, visible) IN
       /\ processes' = [processes EXCEPT ![cur].state = effect.state]
       /\ noted' = noted \cup {<<processes[cur].identity, f[1], f[2]>> : f \in Shown(effect.facts)}
       /\ Lose(effect.lost)
  /\ pc' = "resume"
  /\ UNCHANGED <<commandVars, cur, nextIdentity, snapshots, rootEnded, started, exits, deltas>>

\* The table is empty: record_file_deltas and the coverage.  The root process
\* has been registered all along, so its status is there.
Finish ==
  /\ pc = "wait" /\ DOMAIN processes = {}
  /\ deltas' = DOMAIN snapshots
  /\ pc' = IF rootEnded THEN "done" ELSE "terminate"
  /\ UNCHANGED <<commandVars, cur, tableVars, started, exits, noted, lost>>

-----------------------------------------------------------------------------
(* terminate_tracees. *)

\* Mutant of Terminate: only the tracee that failed is killed.
TerminateOne ==
  /\ pc = "terminate"
  /\ Killed(Threads(group[cur]))
  /\ pc' = "reap"
  /\ UNCHANGED <<group, parent, stop, left, effects, modified, blurred, cur, tableVars, sinkVars>>

Terminate ==
  /\ pc = "terminate"
  /\ Killed(UNION {Threads(group[t]) : t \in DOMAIN processes})
  /\ pc' = "reap"
  /\ UNCHANGED <<group, parent, stop, left, effects, modified, blurred, cur, tableVars, sinkVars>>

Reap(t) ==
  /\ pc = "reap" /\ DOMAIN processes # {} /\ Reportable(t)
  /\ \/ /\ at[t] = "zombie"
        /\ at' = [at EXCEPT ![t] = "dead"]
        /\ processes' = Without(processes, {t})
        /\ UNCHANGED <<call, odd>>
     \/ at[t] = "stopped" /\ Killed(Threads(group[t])) /\ UNCHANGED processes
  /\ UNCHANGED <<group, parent, stop, left, effects, modified, blurred, pc, cur, nextIdentity,
                 snapshots, rootEnded, sinkVars>>

\* All are reaped, or the second is over.
GiveUp ==
  /\ pc = "reap"
  /\ processes' = <<>>
  /\ pc' = "failed"
  /\ UNCHANGED <<commandVars, cur, nextIdentity, snapshots, rootEnded, sinkVars>>

Collect ==
  \/ Begin \/ (\E t \in Tids : WaitStop(t) \/ WaitExit(t)) \/ WaitFails
  \/ Resume \/ Refused \/ HandleInitial \/ HandleFork \/ Detach \/ HandleExec \/ HandleUnknown
  \/ HandleEntry \/ HandleExit \/ Finish
  \/ Terminate \/ (\E t \in Tids : Reap(t)) \/ GiveUp

\* detach_new_tracee waits for a child alone that has been killed, but whose
\* other threads nobody waits for: its end is never told.
Stranded == pc = "detach" /\ at[cur] = "zombie" /\ ~Reportable(cur)

AtRest == (pc \in {"done", "failed"} \/ Stranded) /\ UNCHANGED vars

Init ==
  /\ left \in Scenarios
  /\ at = [t \in Tids |-> IF t = Root THEN "stopped" ELSE "unborn"]
  /\ stop = [t \in Tids |-> IF t = Root THEN [kind |-> "initial"] ELSE None]
  /\ group = [t \in Tids |-> t]
  /\ parent = [t \in Tids |-> None]
  /\ call = [t \in Tids |-> None]
  /\ table = [t \in Tids |-> [fd \in left.inherited |-> Untold]]
  /\ cwd = [t \in Tids |-> Home]
  /\ sockets = <<>> /\ files = left.files /\ happened = {<<Root, "exec", <<>>>>} /\ modified = {}
  /\ blurred = {} /\ odd = {}
  /\ pc = "start" /\ cur = Root
  /\ processes = <<>> /\ nextIdentity = 1 /\ snapshots = <<>> /\ rootEnded = FALSE
  /\ started = <<>> /\ exits = <<>> /\ noted = {} /\ deltas = {} /\ lost = {}

Next == (pc \notin {"done", "failed"} /\ Command) \/ Collect \/ AtRest

Spec == Init /\ [][Next]_vars

\* The collector always goes on; the threads of a command that ends, too.
ThreadFairness(t) ==
  /\ WF_vars(ReturnFromCall(t) /\ UNCHANGED <<pc, cur, tableVars, sinkVars>>)
  /\ WF_vars(ExecDone(t) /\ UNCHANGED <<pc, cur, tableVars, sinkVars>>)
  /\ WF_vars(Exit(t) /\ UNCHANGED <<pc, cur, tableVars, sinkVars>>)
FairSpec == Spec /\ WF_vars(Collect) /\ \A t \in Tids : ThreadFairness(t)

-----------------------------------------------------------------------------
(* Properties. *)

States == {"unborn", "running", "stopped", "told", "zombie", "dead", "untraced"}
Identities == DOMAIN started

\* What the tables hold: processes by thread, each with an identity of its own
\* that has been given out; threads that wait for the collector have a stop.
TypeOK ==
  /\ at \in [Tids -> States] /\ stop \in [Tids -> Stops \cup {None}]
  /\ DOMAIN processes \subseteq {t \in Tids : at[t] # "unborn"}
  /\ \A t, u \in DOMAIN processes : processes[t].identity = processes[u].identity => t = u
  /\ {processes[t].identity : t \in DOMAIN processes} \subseteq Identities
  /\ Identities = 1 .. nextIdentity - 1 /\ DOMAIN exits = Identities
  /\ \A t \in Tids : at[t] \in {"stopped", "told"} => stop[t] # None
  /\ \A p \in DOMAIN snapshots : snapshots[p] \in BOOLEAN
  /\ Cardinality(DOMAIN snapshots) <= MaxSnapshots
  /\ lost \subseteq AllCategories

Born == {t \in Tids : at[t] # "unborn"}
GroupOf(i) == group[started[i].thread]
Single(g) == \A t \in Born \ {g} : group[t] # g

\* Every thread was given one identity, with its parent's, and has ended once.
ThreadsTold ==
  /\ {started[i].thread : i \in Identities} = Born
  /\ Cardinality(Identities) = Cardinality(Born)
  /\ \A i \in Identities :
       started[i].parent = IF started[i].thread = Root THEN None
                           ELSE CHOOSE j \in Identities : started[j].thread = parent[started[i].thread]
  /\ \A i \in Identities : exits[i] = 1

SocketOperations == {"bind", "connect", "listen", "send", "receive", "dns"}
Told(operations) == {<<GroupOf(n[1]), n[2], n[3]>> : n \in {n \in noted : n[2] \in operations}}
Done(operations) == {h \in happened : h[2] \in operations}
Unhidden(facts) == {f \in facts : ~(\A i \in DOMAIN f[3] : f[3][i] \in Ignored)}

\* Every exec, and every use of a file that is not the Node capture's, is told of
\* the process that did it.  That an open has made its file is told only when the
\* collector could look for it before, and is so if no other call came in between.
ExecsTold == Told({"exec"}) = Done({"exec"})
Sure == IF "raced" \in blurred THEN FileOperations \ {"create"} ELSE FileOperations
Seen == IF "unread" \in blurred THEN Sure \ {"create"} ELSE Sure
FilesTold == Told(Sure) \subseteq Unhidden(Done(Sure)) /\ Unhidden(Done(Seen)) \subseteq Told(Seen)

\* The files that were changed have their states told, from before the change.
StatesTold == modified \ Ignored \subseteq deltas /\ \A p \in deltas : snapshots[p]

\* A category without losses tells what happened: every thread once with its
\* parent and its end, and every exec; every use of a file, and every change of
\* one with the state before the first change.  It holds when no thread was
\* killed while it was stopped or was ahead of the fork that made it, and of
\* files when no calls of two threads of a process overlapped, no directory was
\* made, and nothing that was in use was moved or removed.
ReportIsHistory ==
  pc = "done" /\ "killed" \notin odd /\ "early" \notin blurred =>
    /\ "processes" \notin lost => ThreadsTold /\ ExecsTold
    /\ /\ {"processes", "filesystem"} \cap lost = {} /\ {"overlap", "directory"} \cap blurred = {}
       /\ "displaced" \notin odd
       => FilesTold /\ StatesTold

\* Of sockets only what is so is told, and of a process that had one thread
\* every connection: unless a socket was shared or replaced by dup2.
SocketsTold ==
  pc = "done" /\ odd \cap {"killed", "shared_socket"} = {} /\ lost = {}
  /\ {"early", "overlap", "replaced"} \cap blurred = {} =>
    /\ Told(SocketOperations) \subseteq Done(SocketOperations)
    /\ \A h \in Done({"connect"}) : Single(h[1]) => h \in Told({"connect"})

\* The collection fails only when a thread was killed while it was stopped or
\* was ahead of the fork that made it; whenever it returns, no thread that is
\* still in its table is left running.
FailureIsContained ==
  /\ pc \in {"terminate", "reap", "failed"} => "killed" \in odd \/ "early" \in blurred
  /\ pc = "failed" => \A i \in Identities : at[started[i].thread] \in {"zombie", "dead"}

\* README.md:114: "the child exit status [is] preserved".  Not so when one
\* thread ends a process (exit_group) while another of its threads is stopped:
\* what the collector asks of that thread fails, and with it the collection.
StatusPreserved == pc = "failed" => "early" \in blurred

\* However fork events, stops and ends are ordered, no thread waits for ever
\* for the collector nor the collector for a thread: it comes to an end when
\* the command does - but for one case, in which it does wait for ever: a child
\* there is no room for has made a thread and is killed before it is detached.
CollectionEnds == []~Stranded => <>(pc \in {"done", "failed"})
=============================================================================

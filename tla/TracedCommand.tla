---------------------------- MODULE TracedCommand ----------------------------
(***************************************************************************)
(* The command as the kernel runs it, and the records the programs of      *)
(* src/bpf/collector.c write about it.                                      *)
(*                                                                         *)
(* The record of a system call is written when the call returns, with the  *)
(* time of its entry.  A call of the only thread of a process is one step: *)
(* what it does to its process cannot overlap with anything.  Records hold *)
(* at most 188 bytes of a path and 240 of a payload.                       *)
(***************************************************************************)
EXTENDS CommandCalls

CONSTANTS
  Root,      \* the child of the runner
  Inner,     \* the id of each thread in the runner's pid namespace
  Home,      \* the working directory of the root process
  Scenarios  \* bounds of the model: what the command may do, and how often

ASSUME TidsAssumption == Root \in Tids /\ None \notin Tids
ASSUME InnerAssumption == DOMAIN Inner = Tids /\ \A t \in Tids : Inner[t] \notin Tids

VARIABLES
  at,         \* what each thread is doing
  group,      \* the process it belongs to
  parent,     \* the process that forked each process; history
  doomed,     \* processes that are killed or have called exit_group
  call,       \* the call each thread is in, with the time of its entry
  clock,      \* CLOCK_MONOTONIC
  captured,   \* records that reach the reader
  dropped,    \* number of records that do not; they are counted as lost
  left,       \* what remains of the scenario
  namespaced, \* the runner has a pid namespace of its own
  latest,     \* entry of the latest call that has returned, per process; history
  overlapped  \* calls of two threads of a process have overlapped; history

processVars == <<at, group, parent, doomed>>
callVars == <<table, cwd, sockets, files, latest, happened, overlapped>>
recordVars == <<clock, captured, dropped>>
worldVars == <<processVars, callVars, recordVars, call, left, namespaced, odd>>

-----------------------------------------------------------------------------
Alive == {t \in Tids : at[t] \in {"running", "calling", "execing"}}
Threads(g) == {t \in Alive : group[t] = g}

\* The thread dies as soon as it leaves the kernel.
Dying(t) ==
  \/ group[t] \in doomed
  \/ \E o \in Threads(group[t]) \ {t} : at[o] = "execing"

Free(t) == at[t] = "running" /\ ~Dying(t)

\* A pid as the command's system calls return it.
SeenAs(t) == IF namespaced THEN Inner[t] ELSE t

\* initialize_event: who, and when.  other is the child of a fork, the former
\* id of an exec, the result of a call; about is the call.
Record(kind, t, time, other, about) ==
  [kind |-> kind, time |-> time, tgid |-> group[t], tid |-> t, other |-> other, about |-> about]

\* A record reaches the reader, or is lost and counted (emit_event).
Emit(record) ==
  \/ captured' = captured \cup {record} /\ UNCHANGED dropped
  \/ dropped < left.losses /\ dropped' = dropped + 1 /\ UNCHANGED captured

-----------------------------------------------------------------------------
(* Processes and threads. *)

\* clone, clone3, fork: entered, and the child exists.
Clone(t, c, thread) ==
  /\ Free(t) /\ at[c] = "unborn"
  /\ IF thread THEN left.threads > 0 ELSE left.forks > 0
  /\ left' = IF thread THEN [left EXCEPT !.threads = @ - 1] ELSE [left EXCEPT !.forks = @ - 1]
  /\ at' = [at EXCEPT ![t] = "calling", ![c] = "running"]
  /\ group' = [group EXCEPT ![c] = IF thread THEN group[t] ELSE c]
  /\ parent' = [parent EXCEPT ![c] = IF thread THEN None ELSE group[t]]
  /\ call' = [call EXCEPT ![t] = [op |-> "clone", time |-> clock, child |-> c, thread |-> thread]]
  /\ table' = [table EXCEPT ![c] = IF thread THEN @ ELSE table[group[t]]]
  /\ cwd' = [cwd EXCEPT ![c] = IF thread THEN @ ELSE cwd[group[t]]]
  /\ Emit(Record("fork", t, clock + 1, c, None))
  /\ clock' = clock + 2
  /\ UNCHANGED <<doomed, sockets, files, latest, happened, overlapped, namespaced, odd>>

CloneReturn(t) ==
  /\ at[t] = "calling" /\ call[t].op = "clone"
  /\ at' = [at EXCEPT ![t] = "running"]
  /\ call' = [call EXCEPT ![t] = None]
  /\ Emit(Record("clone", t, call[t].time, SeenAs(call[t].child),
                 [thread |-> call[t].thread]))
  /\ UNCHANGED <<group, parent, doomed, callVars, clock, left, namespaced, odd>>

\* execve has found its file; the other threads of the process have to go.
Exec(t) ==
  /\ Free(t) /\ left.execs > 0
  /\ left' = [left EXCEPT !.execs = @ - 1]
  /\ at' = [at EXCEPT ![t] = "execing"]
  /\ UNCHANGED <<group, parent, doomed, callVars, recordVars, call, namespaced, odd>>

\* The last thread takes the id of the process.
ExecDone(t) ==
  LET g == group[t] IN
  /\ at[t] = "execing" /\ Threads(g) = {t}
  /\ at' = [at EXCEPT ![t] = "dead", ![g] = "running"]
  /\ table' = [table EXCEPT ![g] = Without(@, {fd \in DOMAIN @ : @[fd].cloexec})]
  /\ happened' = happened \cup {<<g, "exec", <<>>>>}
  /\ Emit(Record("exec", g, clock, t, None))
  /\ clock' = clock + 1
  /\ UNCHANGED <<group, parent, doomed, cwd, sockets, files, latest, overlapped, call,
                 left, namespaced, odd>>

\* exit_group, or a signal that kills the process.
Kill(g) ==
  /\ g \notin doomed /\ Cardinality(Threads(g)) > 1
  /\ \A t \in Threads(g) : at[t] # "execing"
  /\ doomed' = doomed \cup {g}
  /\ UNCHANGED <<at, group, parent, callVars, recordVars, call, left, namespaced, odd>>

\* A thread ends.  When the first of a process does and others go on, the
\* record looks like the end of the process.
Exit(t) ==
  /\ at[t] = "running"
  /\ at' = [at EXCEPT ![t] = "dead"]
  /\ Emit(Record("exit", t, clock, None, None))
  /\ clock' = clock + 1
  /\ odd' = IF t = group[t] /\ Threads(t) # {t} /\ t \notin doomed
            THEN odd \cup {"leader_gone"} ELSE odd
  /\ UNCHANGED <<group, parent, doomed, callVars, call, left, namespaced>>

-----------------------------------------------------------------------------
(* System calls. *)

\* The call takes effect, or fails, and its record is written.
Finish(t, c, entered) ==
  /\ \E r \in Results(left.endpoints) \cup {None} :
       /\ \/ Do(group[t], c, r)
          \/ r = None /\ (NotOpen(group[t], c) \/ at[t] = "calling") /\ DoNothing
       /\ Emit(Record("call", t, entered, r, c))
  /\ overlapped' = (overlapped \/ entered < latest[group[t]])
  /\ latest' = [latest EXCEPT ![group[t]] = IF entered < @ THEN @ ELSE entered]
  /\ UNCHANGED <<group, parent, doomed, namespaced>>

Call(t, c) ==
  /\ Free(t) /\ Threads(group[t]) = {t} /\ left.calls > 0
  /\ Finish(t, c, clock)
  /\ clock' = clock + 1
  /\ left' = [left EXCEPT !.calls = @ - 1]
  /\ UNCHANGED <<at, call>>

Enter(t, c) ==
  /\ Free(t) /\ Threads(group[t]) # {t} /\ left.calls > 0
  /\ at' = [at EXCEPT ![t] = "calling"]
  /\ call' = [call EXCEPT ![t] = [op |-> "call", time |-> clock, about |-> c]]
  /\ clock' = clock + 1
  /\ left' = [left EXCEPT !.calls = @ - 1]
  /\ UNCHANGED <<group, parent, doomed, callVars, captured, dropped, namespaced, odd>>

Return(t) ==
  /\ at[t] = "calling" /\ call[t].op = "call"
  /\ Finish(t, call[t].about, call[t].time)
  /\ at' = [at EXCEPT ![t] = "running"]
  /\ call' = [call EXCEPT ![t] = None]
  /\ UNCHANGED <<clock, left>>

WorldInit ==
  /\ at = [t \in Tids |-> IF t = Root THEN "running" ELSE "unborn"]
  /\ group = [t \in Tids |-> t]
  /\ parent = [t \in Tids |-> None]
  /\ doomed = {}
  /\ call = [t \in Tids |-> None]
  /\ left \in Scenarios
  /\ table = [t \in Tids |-> [fd \in left.inherited |-> Untold]]
  /\ cwd = [t \in Tids |-> Home]
  /\ sockets = <<>> /\ files = left.files
  /\ captured = {Record("exec", Root, 0, Root, None)} /\ clock = 1 /\ dropped = 0
  /\ namespaced \in left.namespaces
  /\ latest = [t \in Tids |-> 0]
  /\ happened = {<<Root, "exec", <<>>>>} /\ overlapped = FALSE /\ odd = {}

WorldNext ==
  \E t \in Tids :
    \/ \E c \in Tids, thread \in BOOLEAN : Clone(t, c, thread)
    \/ CloneReturn(t) \/ Exec(t) \/ ExecDone(t) \/ Kill(t) \/ Exit(t)
    \/ \E c \in left.alphabet : Call(t, c) \/ Enter(t, c)
    \/ Return(t)
=============================================================================

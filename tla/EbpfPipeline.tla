---------------------------- MODULE EbpfPipeline ----------------------------
(***************************************************************************)
(* The eBPF collector between the traced processes and the replay:         *)
(* src/bpf/collector.c writes records into one ring buffer per CPU, the    *)
(* reader thread of src/src/collector/linux/ebpf.rs drains the buffers in  *)
(* turn, and EbpfCollector::collect stops it when the root process has     *)
(* been waited for.  Descendants may live on, so the last records are read *)
(* while new ones arrive.                                                  *)
(*                                                                         *)
(* A record is known by its number in log, the order of emission.  Records *)
(* of system calls other than clone have no number: the model knows only   *)
(* how many wait in a buffer.  Counts of losses are kept as whether they   *)
(* are zero, which is what ebpf_coverage looks at.                         *)
(***************************************************************************)
EXTENDS Naturals, Sequences, FiniteSets

CONSTANTS
  Procs,        \* processes of the command; each has one thread
  Root,         \* the child of the runner
  NoProcess,
  Movers,       \* processes that may move themselves to another cgroup
  CpuCount,     \* online CPUs, one buffer each, numbered from 0
  Slots,        \* records a buffer holds (EBPF_BUFFER_PAGES)
  ReadBatch,    \* EBPF_READ_BATCH
  QueueLimit,   \* MAX_EBPF_QUEUED_EVENTS
  PendingLimit, \* max_entries of PENDING_SYSCALLS
  MaxExecs,     \* bound of the model: exec only before that many records
  MaxCalls      \* bound of the model: records of other system calls in a buffer

ASSUME ProcsAssumption == Root \in Procs /\ NoProcess \notin Procs
ASSUME CpuAssumption == CpuCount \in Nat \ {0} /\ ReadBatch \in Nat \ {0}
ASSUME BoundsAssumption ==
  /\ Slots \in Nat /\ QueueLimit \in Nat /\ PendingLimit \in Nat
  /\ MaxExecs \in Nat /\ MaxCalls \in Nat

VARIABLES
  \* The traced processes.
  at,         \* what each process is doing
  child,      \* the process its clone call creates
  inside,     \* processes in the collector's cgroup
  births,     \* forks in order; history
  \* The kernel side.
  pending,    \* processes with an entry in PENDING_SYSCALLS
  log,        \* records emitted, in order; history
  ring,       \* numbers of the records in each buffer
  calls,      \* other records in each buffer
  kernelLost, \* the LOSSES counter is not zero
  \* The reader thread.
  mode,       \* its loop
  cpu,        \* the buffer it looks at next
  drained,    \* this pass has read something
  captured,   \* numbers of the records in its queue
  lost,       \* its lost_events is not zero
  \* EbpfCollector::collect.
  phase,
  stop,       \* the stop flag
  coverage    \* the processes category as the session has it

processVars == <<at, child, inside, births>>
kernelVars == <<pending, log, ring, calls, kernelLost>>
readerVars == <<mode, cpu, drained, captured, lost>>
collectVars == <<phase, stop, coverage>>
vars == <<processVars, kernelVars, readerVars, collectVars>>

Cpus == 0 .. CpuCount - 1
Records == [kind : {"fork", "clone", "exec", "exit"}, proc : Procs,
            child : Procs \cup {NoProcess}]
Births == [parent : Procs, child : Procs]
Record(k, p, c) == [kind |-> k, proc |-> p, child |-> c]

Init ==
  /\ at = [p \in Procs |-> IF p = Root THEN "running" ELSE "unborn"]
  /\ child = [p \in Procs |-> NoProcess]
  /\ inside = {Root}
  /\ births = << >>
  /\ pending = {}
  /\ log = << >>
  /\ ring = [c \in Cpus |-> {}]
  /\ calls = [c \in Cpus |-> 0]
  /\ kernelLost = FALSE
  /\ mode = "unstarted"
  /\ cpu = 0
  /\ drained = FALSE
  /\ captured = {}
  /\ lost = FALSE
  /\ phase = "spawned"
  /\ stop = FALSE
  /\ coverage = "undeclared"

-----------------------------------------------------------------------------
(* The traced processes, and the programs that observe them. *)

Waiting(c) == Cardinality(ring[c]) + calls[c]
HasRoom(c) == Waiting(c) < Slots

\* Mutant of Emit: a record that does not fit is not counted.
EmitUncounted(r) ==
  \E c \in Cpus :
    /\ log' = Append(log, r)
    /\ ring' = IF HasRoom(c) THEN [ring EXCEPT ![c] = @ \cup {Len(log) + 1}] ELSE ring
    /\ UNCHANGED <<calls, kernelLost>>

\* Mutant of Emit: a record is written behind the one that comes next.
EmitMisplaced(r) ==
  \E c \in Cpus :
    /\ log' = Append(log, r)
    /\ ring' = IF HasRoom(c) THEN [ring EXCEPT ![c] = @ \cup {Len(log) + 2}] ELSE ring
    /\ kernelLost' = (kernelLost \/ ~HasRoom(c))
    /\ UNCHANGED calls

\* emit_event: into the buffer of the CPU the process happens to run on.
Emit(r) ==
  \E c \in Cpus :
    /\ log' = Append(log, r)
    /\ \/ /\ HasRoom(c)
          /\ ring' = [ring EXCEPT ![c] = @ \cup {Len(log) + 1}]
          /\ UNCHANGED kernelLost
       \/ /\ ~HasRoom(c)
          /\ kernelLost' = TRUE
          /\ UNCHANGED ring
    /\ UNCHANGED calls

Unseen == UNCHANGED <<log, ring, calls, kernelLost>>

\* in_target_cgroup.
Observe(p, r) == IF p \in inside THEN Emit(r) ELSE Unseen

\* observe_syscall_enter for a clone call; a full map costs the record.
CloneEnter(p, c) ==
  /\ at[p] = "running"
  /\ at[c] = "unborn"
  /\ \A q \in Procs : child[q] # c
  /\ at' = [at EXCEPT ![p] = "cloning"]
  /\ child' = [child EXCEPT ![p] = c]
  /\ \/ p \notin inside /\ UNCHANGED <<pending, kernelLost>>
     \/ /\ p \in inside /\ Cardinality(pending) < PendingLimit
        /\ pending' = pending \cup {p}
        /\ UNCHANGED kernelLost
     \/ /\ p \in inside /\ Cardinality(pending) >= PendingLimit
        /\ kernelLost' = TRUE
        /\ UNCHANGED pending
  /\ UNCHANGED <<inside, births, log, ring, calls>>

\* observe_process_fork: before the child first runs.
Fork(p) ==
  /\ at[p] = "cloning"
  /\ at' = [at EXCEPT ![p] = "cloned", ![child[p]] = "running"]
  /\ inside' = IF p \in inside THEN inside \cup {child[p]} ELSE inside
  /\ births' = Append(births, [parent |-> p, child |-> child[p]])
  /\ Observe(p, Record("fork", p, child[p]))
  /\ UNCHANGED <<child, pending>>

\* observe_syscall_exit: the record of the clone call, at any time after.
CloneExit(p) ==
  /\ at[p] = "cloned"
  /\ at' = [at EXCEPT ![p] = "running"]
  /\ child' = [child EXCEPT ![p] = NoProcess]
  /\ IF p \in inside /\ p \in pending
     THEN /\ Emit(Record("clone", p, child[p]))
          /\ pending' = pending \ {p}
     ELSE Unseen /\ UNCHANGED pending
  /\ UNCHANGED <<inside, births>>

\* observe_process_exec.
Exec(p) ==
  /\ at[p] = "running"
  /\ Len(log) < MaxExecs
  /\ Observe(p, Record("exec", p, NoProcess))
  /\ UNCHANGED <<processVars, pending>>

\* observe_process_exit.
Exit(p) ==
  /\ at[p] = "running"
  /\ at' = [at EXCEPT ![p] = "dead"]
  /\ Observe(p, Record("exit", p, NoProcess))
  /\ UNCHANGED <<child, inside, births, pending>>

\* Any other observed system call, from its entry in the map to its record.
Call(p) ==
  /\ at[p] = "running"
  /\ p \in inside
  /\ \E c \in Cpus :
       \/ /\ HasRoom(c) /\ Cardinality(pending) < PendingLimit
          /\ calls[c] < MaxCalls
          /\ calls' = [calls EXCEPT ![c] = @ + 1]
          /\ UNCHANGED kernelLost
       \/ /\ ~HasRoom(c) \/ Cardinality(pending) >= PendingLimit
          /\ kernelLost' = TRUE
          /\ UNCHANGED calls
  /\ UNCHANGED <<processVars, pending, log, ring>>

\* The process writes its pid to the cgroup.procs of another cgroup.
Move(p) ==
  /\ p \in Movers \cap inside
  /\ at[p] = "running"
  /\ inside' = inside \ {p}
  /\ UNCHANGED <<at, child, births, kernelVars>>

Process(p) ==
  /\ \/ \E c \in Procs : CloneEnter(p, c)
     \/ Fork(p) \/ CloneExit(p) \/ Exec(p) \/ Exit(p) \/ Call(p) \/ Move(p)
  /\ UNCHANGED <<readerVars, collectVars>>

-----------------------------------------------------------------------------
(* The reader thread. *)

Passing == mode \in {"polling", "draining"}

\* s is what a reader gets that takes the oldest members of t first.
Oldest(s, t) == \A i \in s, j \in t \ s : i < j
Least(m, n) == IF m < n THEN m ELSE n

\* Mutant of Queue: what does not fit into the queue is not counted.
QueueUncounted(s) ==
  \E kept \in SUBSET s :
    /\ Cardinality(captured \cup kept) <= QueueLimit
    /\ captured' = captured \cup kept
    /\ UNCHANGED lost

\* The records of a batch that can be decoded are queued while there is room.
Queue(s) ==
  \E decoded \in SUBSET s : \E kept \in SUBSET decoded :
    /\ Oldest(kept, decoded)
    /\ Cardinality(kept)
         = Least(Cardinality(decoded), QueueLimit - Cardinality(captured))
    /\ captured' = captured \cup kept
    /\ lost' = (lost \/ kept # s)

\* drain_buffers, one buffer: read_events takes at most ReadBatch records.
ReadEvents ==
  /\ Passing /\ cpu < CpuCount
  /\ Waiting(cpu) > 0
  /\ \E s \in SUBSET ring[cpu], n \in 0 .. calls[cpu] :
       /\ Oldest(s, ring[cpu])
       /\ Cardinality(s) + n = Least(Waiting(cpu), ReadBatch)
       /\ ring' = [ring EXCEPT ![cpu] = @ \ s]
       /\ calls' = [calls EXCEPT ![cpu] = @ - n]
       /\ Queue(s)
  /\ drained' = TRUE
  /\ cpu' = cpu + 1
  /\ UNCHANGED <<pending, log, kernelLost, mode>>

\* The system-call records of a batch cannot be decoded, or find no room.
LoseCalls ==
  /\ Passing /\ cpu < CpuCount
  /\ calls[cpu] > 0
  /\ calls' = [calls EXCEPT ![cpu] = 0]
  /\ lost' = TRUE
  /\ drained' = TRUE
  /\ cpu' = cpu + 1
  /\ UNCHANGED <<pending, log, ring, kernelLost, mode, captured>>

\* read_events fails; what it had taken out of the buffer is gone.
ReadFails ==
  /\ Passing /\ cpu < CpuCount
  /\ Waiting(cpu) > 0
  /\ \E s \in SUBSET ring[cpu] :
       /\ Oldest(s, ring[cpu])
       /\ ring' = [ring EXCEPT ![cpu] = @ \ s]
  /\ lost' = TRUE
  /\ cpu' = cpu + 1
  /\ UNCHANGED <<pending, log, calls, kernelLost, mode, drained, captured>>

\* buffer.readable() is false.
SkipBuffer ==
  /\ Passing /\ cpu < CpuCount
  /\ Waiting(cpu) = 0
  /\ cpu' = cpu + 1
  /\ UNCHANGED <<kernelVars, mode, drained, captured, lost>>

NewPass(m) == mode' = m /\ cpu' = 0 /\ drained' = FALSE

\* Mutant of EndPass: one pass after the stop flag is taken to be enough.
EndPassOnce ==
  /\ Passing /\ cpu = CpuCount
  /\ IF mode = "draining"
     THEN mode' = "ended" /\ UNCHANGED <<cpu, drained>>
     ELSE NewPass(IF stop THEN "draining" ELSE "polling")
  /\ UNCHANGED <<kernelVars, captured, lost>>

\* Mutant of EndPass: the count of a pass is not reset for the next one.
EndPassStale ==
  /\ Passing /\ cpu = CpuCount
  /\ \/ mode = "polling" /\ mode' = (IF stop THEN "draining" ELSE "polling") /\ cpu' = 0
     \/ mode = "draining" /\ drained /\ cpu' = 0 /\ UNCHANGED mode
     \/ mode = "draining" /\ ~drained /\ mode' = "ended" /\ UNCHANGED cpu
  /\ UNCHANGED <<kernelVars, drained, captured, lost>>

\* The two loops: until the flag is seen, then until a pass reads nothing.
EndPass ==
  /\ Passing /\ cpu = CpuCount
  /\ \/ mode = "polling" /\ NewPass(IF stop THEN "draining" ELSE "polling")
     \/ mode = "draining" /\ drained /\ NewPass("draining")
     \/ mode = "draining" /\ ~drained /\ mode' = "ended" /\ UNCHANGED <<cpu, drained>>
  /\ UNCHANGED <<kernelVars, captured, lost>>

Reader ==
  /\ ReadEvents \/ LoseCalls \/ ReadFails \/ SkipBuffer \/ EndPass
  /\ UNCHANGED <<processVars, collectVars>>

-----------------------------------------------------------------------------
(* EbpfCollector::collect. *)

\* EbpfProbe::start; the flag is looked at before the first pass.
StartReader ==
  /\ phase = "spawned"
  /\ phase' = "waiting"
  /\ NewPass("polling")
  /\ UNCHANGED <<kernelVars, captured, lost, stop, coverage>>

\* Every way out with an error.  The probe was started before, or the sink
\* refuses the root process, or wait fails: the root is killed and waited for,
\* which needs no state of its own as a process may exit at any time.  Later, the
\* losses cannot be read, or the sink refuses the coverage or a replayed fact.
Fail ==
  /\ phase \in {"spawned", "waiting", "stopped", "covered"}
  /\ phase' = CASE phase = "spawned" -> "aborting"
              [] phase = "waiting" -> "killing"
              [] phase \in {"stopped", "covered"} -> "failed"
  /\ UNCHANGED <<kernelVars, readerVars, stop, coverage>>

\* child.wait returns, and the stop flag is raised if there is a reader.
Wait ==
  /\ phase \in {"waiting", "killing", "aborting"}
  /\ at[Root] = "dead"
  /\ phase' = CASE phase = "waiting" -> "stopping"
              [] phase = "killing" -> "quitting"
              [] phase = "aborting" -> "failed"
  /\ stop' = IF phase = "aborting" THEN stop ELSE TRUE
  /\ UNCHANGED <<kernelVars, readerVars, coverage>>

\* EbpfProbe::stop joins the thread.
Join ==
  /\ phase \in {"stopping", "quitting"}
  /\ mode = "ended"
  /\ phase' = IF phase = "stopping" THEN "stopped" ELSE "failed"
  /\ UNCHANGED <<kernelVars, readerVars, stop, coverage>>

\* The LOSSES counter is added, and coverage declared.
Declare ==
  /\ phase = "stopped"
  /\ phase' = "covered"
  /\ coverage' = IF lost \/ kernelLost THEN "partial" ELSE "complete"
  /\ UNCHANGED <<kernelVars, readerVars, stop>>

\* What the replay of the queue makes of the records: a process is registered
\* by its clone record, removed by its exit record.
Captured(k) == {i \in captured : log[i].kind = k}
Registered == {Root} \cup {log[i].child : i \in Captured("clone")}
Remaining == (Registered \ {Root}) \ {log[i].proc : i \in Captured("exit")}

\* Mutant of Replay: processes without an exit record are not counted.
ReplayUncounted ==
  /\ phase = "covered"
  /\ phase' = "done"
  /\ UNCHANGED <<kernelVars, readerVars, stop, coverage>>

\* Normalizer::replay up to finish_remaining_processes, whose losses finalize
\* adds to the coverage row.
Replay ==
  /\ phase = "covered"
  /\ phase' = "done"
  /\ coverage' = IF Remaining = {} THEN coverage ELSE "partial"
  /\ UNCHANGED <<kernelVars, readerVars, stop>>

Collect ==
  /\ StartReader \/ Fail \/ Wait \/ Join \/ Declare \/ Replay
  /\ UNCHANGED processVars

Over == phase \in {"done", "failed"}
Done == Over /\ UNCHANGED vars

Next ==
  \/ \E p \in Procs : Process(p)
  \/ Reader
  \/ Collect
  \/ Done

Spec == Init /\ [][Next]_vars

\* The reader and the runner are scheduled; no process has to go on or exit.
FairSpec ==
  Spec /\ WF_vars(Reader) /\ WF_vars(Collect)

-----------------------------------------------------------------------------
Emitted == 1 .. Len(log)
Queued == UNION {ring[c] : c \in Cpus}
Missing == Emitted \ (captured \cup Queued)

TypeOK ==
  /\ at \in [Procs -> {"unborn", "running", "cloning", "cloned", "dead"}]
  /\ child \in [Procs -> Procs \cup {NoProcess}]
  /\ inside \in SUBSET Procs
  /\ births \in Seq(Births)
  /\ pending \in SUBSET Procs
  /\ log \in Seq(Records)
  /\ ring \in [Cpus -> SUBSET Emitted]
  /\ calls \in [Cpus -> Nat]
  /\ kernelLost \in BOOLEAN
  /\ mode \in {"unstarted", "polling", "draining", "ended"}
  /\ cpu \in 0 .. CpuCount
  /\ drained \in BOOLEAN
  /\ captured \in SUBSET Emitted
  /\ lost \in BOOLEAN
  /\ phase \in {"spawned", "aborting", "waiting", "killing", "stopping",
                "quitting", "stopped", "covered", "done", "failed"}
  /\ stop \in BOOLEAN
  /\ coverage \in {"undeclared", "complete", "partial"}

\* A record that is neither queued nor in a buffer any more has been counted by
\* the kernel or by the reader, whichever of them dropped it.
LossNoticed == Missing # {} => lost \/ kernelLost

\* The reader stops at one moment of the emission although it looks at the
\* buffers one after the other while processes run: without losses it has every
\* record before that moment and none after, so no effect without its cause.
ClosedCut ==
  mode = "ended" /\ ~lost /\ ~kernelLost
    => \E n \in 0 .. Len(log) : captured = 1 .. n

\* When processes coverage ends up complete, every process of the command has
\* ended, has been registered, and all records of it were captured.
CompleteIsAll ==
  phase = "done" /\ coverage = "complete" =>
    /\ \A p \in Procs : at[p] # "unborn" => at[p] = "dead" /\ p \in Registered
    /\ captured = Emitted

\* Once no process of the command is left, the run returns.  That the root
\* process has exited is not enough: a descendant that goes on making system
\* calls keeps the reader in its last loop.
QuietEnds == (\A p \in Procs : at[p] \in {"unborn", "dead"}) ~> Over
=============================================================================

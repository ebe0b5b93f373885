------------------------ MODULE EbpfPipeline_proofs -------------------------
(***************************************************************************)
(* Proofs about EbpfPipeline for any number of processes, CPUs and records *)
(* and any size of the buffers, the queue and the map of pending calls.    *)
(***************************************************************************)
EXTENDS EbpfPipeline, FiniteSetTheorems, WellFoundedInduction, TLAPS

ExitAt(i, p) == log[i].kind = "exit" /\ log[i].proc = p
CloneAt(i, c) == log[i].kind = "clone" /\ log[i].child = c

\* A clone call in progress has a child of its own, unborn until the fork, and
\* an entry in the map of pending calls unless that was full.
CloneInv ==
  /\ \A p \in Procs : at[p] \in {"cloning", "cloned"} =>
       /\ child[p] \in Procs
       /\ p \in inside => p \in pending \/ kernelLost
  /\ \A p \in Procs : at[p] = "cloning" => at[child[p]] = "unborn"
  /\ \A p, q \in Procs : child[p] \in Procs /\ child[p] = child[q] => p = q

\* Every process but the root has a birth, after that of its parent; what a
\* parent owes a child is the record of its clone call.
BirthInv ==
  /\ at[Root] # "unborn"
  /\ \A p \in Procs \ {Root} :
       at[p] # "unborn" => \E j \in 1 .. Len(births) : births[j].child = p
  /\ \A j \in 1 .. Len(births) :
       /\ at[births[j].parent] # "unborn"
       /\ at[births[j].child] # "unborn"
       /\ births[j].parent = Root
            \/ \E k \in 1 .. j - 1 : births[k].child = births[j].parent
       /\ \/ at[births[j].parent] = "cloned" /\ child[births[j].parent] = births[j].child
          \/ \E i \in Emitted : CloneAt(i, births[j].child)
          \/ kernelLost
          \/ births[j].parent \notin inside

\* The exit record of a process is its last one, and comes after the clone
\* records of all its children.
LogInv ==
  /\ \A i \in Emitted : at[log[i].proc] # "unborn"
  /\ \A i \in Emitted : log[i].kind = "exit" =>
       /\ at[log[i].proc] = "dead"
       /\ \A k \in Emitted : log[k].proc = log[i].proc => k <= i
       /\ \A j \in 1 .. Len(births) : births[j].parent = log[i].proc =>
            kernelLost \/ \E k \in 1 .. i : CloneAt(k, births[j].child)
  /\ at[Root] = "dead" /\ Root \in inside => \E i \in Emitted : ExitAt(i, Root)

WorldInv == CloneInv /\ BirthInv /\ LogInv

\* The reader has seen the buffers it has passed as they were at n: nothing of
\* 1 .. n is left there, and nothing after n has been read.
Cut(n) ==
  /\ captured \subseteq 1 .. n
  /\ \A c \in Cpus : c < cpu => ring[c] \cap (1 .. n) = {}
  /\ Root \in inside => \E i \in 1 .. n : ExitAt(i, Root)

LastPass == (mode = "draining" /\ ~drained) \/ mode = "ended"

ReaderInv ==
  /\ stop => at[Root] = "dead"
  /\ mode \in {"draining", "ended"} => stop
  /\ mode = "ended" => cpu = CpuCount
  /\ phase \in {"stopped", "covered", "done"} => mode = "ended"
  /\ LossNoticed
  /\ ~lost /\ LastPass => \E n \in 0 .. Len(log) : Cut(n)

\* What complete coverage was declared upon stays true afterwards, although
\* processes may go on and the kernel may lose records.
CoverInv ==
  coverage = "complete" =>
    /\ mode = "ended" /\ phase \in {"covered", "done", "failed"}
    /\ \E n \in 0 .. Len(log) :
         captured = 1 .. n /\ (Root \in inside => \E i \in 1 .. n : ExitAt(i, Root))
    /\ \A j \in 1 .. Len(births) :
         (\E i \in captured : ExitAt(i, births[j].parent))
           => \E i \in captured : CloneAt(i, births[j].child)
    /\ phase = "done" => Remaining = {}

PipelineInv == TypeOK /\ WorldInv /\ ReaderInv /\ CoverInv

-----------------------------------------------------------------------------
(* The effect of the programs of collector.c. *)

\* The log has at most grown, and what was added is in a buffer or counted.
KernelStep ==
  /\ Len(log) <= Len(log')
  /\ \A i \in Emitted : log'[i] = log[i]
  /\ \A c \in Cpus : ring'[c] \cap Emitted = ring[c]
  /\ kernelLost => kernelLost'
  /\ \A i \in Emitted' \ Emitted : (\E c \in Cpus : i \in ring'[c]) \/ kernelLost'

KernelTypeOK ==
  /\ log \in Seq(Records)
  /\ ring \in [Cpus -> SUBSET Emitted]
  /\ calls \in [Cpus -> Nat]
  /\ kernelLost \in BOOLEAN

\* emit_event adds one record at the end of the log.
LEMMA EmitStep ==
  ASSUME TypeOK, NEW r \in Records, Emit(r)
  PROVE  /\ KernelStep /\ KernelTypeOK'
         /\ Len(log') = Len(log) + 1 /\ log'[Len(log) + 1] = r
<1>1. /\ log \in Seq(Records) /\ ring \in [Cpus -> SUBSET Emitted]
      /\ calls \in [Cpus -> Nat] /\ kernelLost \in BOOLEAN
  BY DEF TypeOK
<1>2. /\ log' = Append(log, r) /\ UNCHANGED calls
      /\ \/ ring' = ring /\ kernelLost' = TRUE
         \/ /\ UNCHANGED kernelLost
            /\ \E c \in Cpus : ring' = [ring EXCEPT ![c] = @ \cup {Len(log) + 1}]
  BY DEF Emit
<1>3. /\ log' \in Seq(Records) /\ Len(log') = Len(log) + 1 /\ Len(log) \in Nat
      /\ log'[Len(log) + 1] = r /\ \A i \in 1 .. Len(log) : log'[i] = log[i]
  BY <1>1, <1>2
<1>4. Emitted' = Emitted \cup {Len(log) + 1} /\ Len(log) + 1 \notin Emitted
  BY <1>3 DEF Emitted
<1>5. CASE ring' = ring /\ kernelLost' = TRUE
  BY <1>1, <1>2, <1>3, <1>4, <1>5 DEF KernelStep, KernelTypeOK, Emitted
<1>6. CASE /\ UNCHANGED kernelLost
           /\ \E c \in Cpus : ring' = [ring EXCEPT ![c] = @ \cup {Len(log) + 1}]
  <2>1. PICK c \in Cpus : ring' = [ring EXCEPT ![c] = @ \cup {Len(log) + 1}]
    BY <1>6
  <2>2. \A d \in Cpus : ring'[d] = IF d = c THEN ring[c] \cup {Len(log) + 1} ELSE ring[d]
    BY <1>1, <2>1
  <2>3. ring' \in [Cpus -> SUBSET (Emitted')]
    BY <1>1, <1>4, <2>1
  <2>4. \A d \in Cpus : ring'[d] \cap Emitted = ring[d]
    BY <1>1, <1>4, <2>2
  <2>5. Len(log) + 1 \in ring'[c]
    BY <2>2
  <2>6. KernelStep
    BY <1>3, <1>4, <1>6, <2>4, <2>5 DEF KernelStep, Emitted
  <2> QED
    BY <1>1, <1>2, <1>3, <1>6, <2>3, <2>6 DEF KernelTypeOK
<1> QED
  BY <1>2, <1>5, <1>6

\* A process outside the cgroup leaves no trace.
LEMMA UnseenStep ==
  ASSUME TypeOK, Unseen
  PROVE  KernelStep /\ KernelTypeOK' /\ Emitted' = Emitted
BY DEF Unseen, TypeOK, KernelStep, KernelTypeOK, Emitted

\* Neither does a step that only counts a loss or adds to calls.
LEMMA CountStep ==
  ASSUME TypeOK, UNCHANGED <<log, ring>>, UNCHANGED kernelLost \/ kernelLost' = TRUE,
         calls' \in [Cpus -> Nat]
  PROVE  KernelStep /\ KernelTypeOK' /\ Emitted' = Emitted
<1>1. /\ log \in Seq(Records) /\ ring \in [Cpus -> SUBSET Emitted]
      /\ kernelLost \in BOOLEAN
  BY DEF TypeOK
<1>2. Emitted' = Emitted
  BY DEF Emitted
<1>3. \A c \in Cpus : ring'[c] \cap Emitted = ring[c]
  BY <1>1
<1>4. Len(log) <= Len(log') /\ \A i \in Emitted : log'[i] = log[i]
  BY <1>1
<1>5. (kernelLost => kernelLost') /\ kernelLost' \in BOOLEAN
  BY <1>1
<1>6. KernelTypeOK'
  BY <1>1, <1>2, <1>5 DEF KernelTypeOK
<1>7. KernelStep
  BY <1>2, <1>3, <1>4, <1>5 DEF KernelStep
<1> QED
  BY <1>2, <1>6, <1>7

\* What a process does is observed by Emit or not at all.
LEMMA ObserveStep ==
  ASSUME TypeOK, NEW r \in Records, NEW p \in Procs, Observe(p, r)
  PROVE  KernelStep /\ KernelTypeOK'
BY EmitStep, UnseenStep DEF Observe

-----------------------------------------------------------------------------
(* Types. *)

\* The initial state has the types.
LEMMA InitType == Init => TypeOK
<1> SUFFICES ASSUME Init PROVE TypeOK
  OBVIOUS
<1> USE ProcsAssumption, CpuAssumption
<1>1. log \in Seq(Records) /\ births \in Seq(Births) /\ captured \in SUBSET Emitted
  BY DEF Init
<1>2. ring \in [Cpus -> SUBSET Emitted] /\ calls \in [Cpus -> Nat]
  BY DEF Init
<1>3. /\ at \in [Procs -> {"unborn", "running", "cloning", "cloned", "dead"}]
      /\ child \in [Procs -> Procs \cup {NoProcess}]
      /\ inside \in SUBSET Procs /\ pending \in SUBSET Procs
  BY DEF Init
<1>4. kernelLost \in BOOLEAN /\ drained \in BOOLEAN /\ lost \in BOOLEAN /\ stop \in BOOLEAN
  BY DEF Init
<1>5. cpu \in 0 .. CpuCount
  BY DEF Init
<1> QED
  BY <1>1, <1>2, <1>3, <1>4, <1>5 DEF Init, TypeOK

ProcessTypeOK ==
  /\ at \in [Procs -> {"unborn", "running", "cloning", "cloned", "dead"}]
  /\ child \in [Procs -> Procs \cup {NoProcess}]
  /\ inside \in SUBSET Procs
  /\ births \in Seq(Births)
  /\ pending \in SUBSET Procs

\* A step of a process keeps the types and lets the log grow.
LEMMA ProcessStep ==
  ASSUME TypeOK, CloneInv, NEW p \in Procs, Process(p)
  PROVE  KernelStep /\ KernelTypeOK' /\ ProcessTypeOK'
<1>1. /\ ProcessTypeOK /\ KernelTypeOK
      /\ \A k \in {"fork", "clone", "exec", "exit"}, c \in Procs \cup {NoProcess} :
           Record(k, p, c) \in Records
  BY DEF TypeOK, ProcessTypeOK, KernelTypeOK, Record, Records
<1>2. ASSUME NEW c \in Procs, CloneEnter(p, c)
      PROVE  KernelStep /\ KernelTypeOK' /\ ProcessTypeOK'
  <2>1. UNCHANGED <<inside, births, log, ring, calls>>
        /\ (UNCHANGED kernelLost \/ kernelLost' = TRUE)
    BY <1>2 DEF CloneEnter
  <2>2. KernelStep /\ KernelTypeOK'
    BY <1>1, <2>1, CountStep DEF KernelTypeOK
  <2>3. at' \in [Procs -> {"unborn", "running", "cloning", "cloned", "dead"}]
        /\ child' \in [Procs -> Procs \cup {NoProcess}]
        /\ pending' \in SUBSET Procs
    BY <1>1, <1>2 DEF CloneEnter, ProcessTypeOK
  <2> QED
    BY <1>1, <2>1, <2>2, <2>3 DEF ProcessTypeOK
<1>3. CASE Fork(p)
  <2>1. child[p] \in Procs
    BY <1>3 DEF Fork, CloneInv
  <2>2. Observe(p, Record("fork", p, child[p])) /\ UNCHANGED <<child, pending>>
    BY <1>3 DEF Fork
  <2>3. [parent |-> p, child |-> child[p]] \in Births
    BY <2>1 DEF Births
  <2>4. births' \in Seq(Births)
    BY <1>1, <1>3, <2>3 DEF Fork, ProcessTypeOK
  <2>5. at' \in [Procs -> {"unborn", "running", "cloning", "cloned", "dead"}]
        /\ inside' \in SUBSET Procs
    BY <1>1, <1>3, <2>1 DEF Fork, ProcessTypeOK
  <2> QED
    BY <1>1, <2>1, <2>2, <2>4, <2>5, ObserveStep DEF ProcessTypeOK
<1>4. CASE CloneExit(p)
  <2>1. child[p] \in Procs
    BY <1>4 DEF CloneExit, CloneInv
  <2>2. Emit(Record("clone", p, child[p])) \/ Unseen
    BY <1>4 DEF CloneExit
  <2>3. KernelStep /\ KernelTypeOK'
    BY <1>1, <2>1, <2>2, EmitStep, UnseenStep
  <2>4. at' \in [Procs -> {"unborn", "running", "cloning", "cloned", "dead"}]
        /\ child' \in [Procs -> Procs \cup {NoProcess}]
        /\ pending' \in SUBSET Procs /\ UNCHANGED <<inside, births>>
    BY <1>1, <1>4 DEF CloneExit, ProcessTypeOK
  <2> QED
    BY <1>1, <2>3, <2>4 DEF ProcessTypeOK
<1>5. CASE Exec(p)
  BY <1>1, <1>5, ObserveStep DEF Exec, ProcessTypeOK, processVars
<1>6. CASE Exit(p)
  BY <1>1, <1>6, ObserveStep DEF Exit, ProcessTypeOK
<1>7. CASE Call(p)
  <2>1. UNCHANGED <<processVars, pending, log, ring>>
        /\ (UNCHANGED kernelLost \/ kernelLost' = TRUE)
        /\ calls' \in [Cpus -> Nat]
    BY <1>1, <1>7 DEF Call, KernelTypeOK
  <2> QED
    BY <1>1, <2>1, CountStep DEF processVars, ProcessTypeOK
<1>8. CASE Move(p)
  BY <1>1, <1>8, CountStep DEF Move, kernelVars, KernelTypeOK, ProcessTypeOK
<1> QED
  BY <1>2, <1>3, <1>4, <1>5, <1>6, <1>7, <1>8 DEF Process

\* What a batch adds to the queue comes from the batch, and if not all of it
\* does, the rest is counted.
LEMMA QueueStep ==
  ASSUME TypeOK, NEW s \in SUBSET Emitted, Queue(s)
  PROVE  /\ captured' \in SUBSET Emitted /\ lost' \in BOOLEAN
         /\ captured \subseteq captured' /\ captured' \subseteq captured \cup s
         /\ (lost => lost') /\ (s \subseteq captured' \/ lost')
<1>1. PICK kept \in SUBSET s :
         captured' = captured \cup kept /\ lost' = (lost \/ kept # s)
  BY DEF Queue
<1> QED
  BY <1>1 DEF TypeOK

ReaderTypeOK ==
  /\ mode \in {"unstarted", "polling", "draining", "ended"}
  /\ cpu \in 0 .. CpuCount
  /\ drained \in BOOLEAN
  /\ captured \in SUBSET Emitted
  /\ lost \in BOOLEAN

\* A step of the reader keeps the types and the log.
LEMMA ReaderStep ==
  ASSUME TypeOK, Reader
  PROVE  KernelTypeOK' /\ ReaderTypeOK' /\ UNCHANGED <<pending, log, kernelLost>>
<1> USE CpuAssumption
<1>1. KernelTypeOK /\ ReaderTypeOK
  BY DEF TypeOK, KernelTypeOK, ReaderTypeOK
<1>2. CASE ReadEvents
  <2>1. PICK s \in SUBSET ring[cpu], n \in 0 .. calls[cpu] :
           /\ ring' = [ring EXCEPT ![cpu] = @ \ s]
           /\ calls' = [calls EXCEPT ![cpu] = @ - n]
           /\ Queue(s)
    BY <1>2 DEF ReadEvents
  <2>2. /\ UNCHANGED <<pending, log, kernelLost, mode>> /\ drained' = TRUE
        /\ cpu' = cpu + 1 /\ cpu \in Cpus
    BY <1>1, <1>2 DEF ReadEvents, Cpus, ReaderTypeOK
  <2>3. s \in SUBSET Emitted
    BY <1>1, <2>2 DEF KernelTypeOK
  <2>4. captured' \in SUBSET Emitted /\ lost' \in BOOLEAN
    BY <2>1, <2>3, QueueStep
  <2>5. ring' \in [Cpus -> SUBSET Emitted] /\ calls' \in [Cpus -> Nat]
    BY <1>1, <2>1, <2>2 DEF KernelTypeOK
  <2>6. cpu' \in 0 .. CpuCount
    BY <2>2 DEF Cpus
  <2> QED
    BY <1>1, <2>2, <2>4, <2>5, <2>6 DEF KernelTypeOK, ReaderTypeOK, Emitted
<1>3. CASE LoseCalls \/ ReadFails
  <2>a. /\ UNCHANGED <<pending, log, kernelLost, mode, captured>> /\ lost' = TRUE
        /\ cpu' = cpu + 1 /\ cpu < CpuCount /\ (drained' = TRUE \/ UNCHANGED drained)
    BY <1>3 DEF LoseCalls, ReadFails
  <2>b. cpu \in Cpus
    BY <1>1, <2>a DEF Cpus, ReaderTypeOK
  <2>1. /\ UNCHANGED <<pending, log, kernelLost, mode, captured>> /\ lost' = TRUE
        /\ cpu' = cpu + 1 /\ cpu \in Cpus /\ drained' \in BOOLEAN
    BY <1>1, <2>a, <2>b DEF ReaderTypeOK
  <2>2. cpu' \in 0 .. CpuCount
    BY <2>1 DEF Cpus
  <2>3. calls' \in [Cpus -> Nat]
    BY <1>1, <1>3, <2>1 DEF LoseCalls, ReadFails, KernelTypeOK
  <2>4. ring' \in [Cpus -> SUBSET Emitted]
    BY <1>1, <1>3, <2>1 DEF LoseCalls, ReadFails, KernelTypeOK
  <2> QED
    BY <1>1, <2>1, <2>2, <2>3, <2>4 DEF KernelTypeOK, ReaderTypeOK, Emitted
<1>4. CASE SkipBuffer
  <2>1. cpu' \in 0 .. CpuCount
    BY <1>1, <1>4 DEF SkipBuffer, ReaderTypeOK
  <2> QED
    BY <1>1, <1>4, <2>1 DEF SkipBuffer, kernelVars, KernelTypeOK, ReaderTypeOK, Emitted
<1>5. CASE EndPass
  <2>1. /\ UNCHANGED <<kernelVars, captured, lost>>
        /\ mode' \in {"polling", "draining", "ended"}
        /\ (cpu' = 0 /\ drained' = FALSE) \/ UNCHANGED <<cpu, drained>>
    BY <1>5 DEF EndPass, NewPass
  <2>2. cpu' \in 0 .. CpuCount
    BY <1>1, <2>1 DEF ReaderTypeOK
  <2>3. drained' \in BOOLEAN
    BY <1>1, <2>1, Zenon DEF ReaderTypeOK
  <2> QED
    BY <1>1, <2>1, <2>2, <2>3 DEF kernelVars, KernelTypeOK, ReaderTypeOK, Emitted
<1> QED
  BY <1>2, <1>3, <1>4, <1>5 DEF Reader

\* Every step keeps the types.
LEMMA NextType == TypeOK /\ CloneInv /\ [Next]_vars => TypeOK'
<1> SUFFICES ASSUME TypeOK, CloneInv, [Next]_vars PROVE TypeOK'
  OBVIOUS
<1>1. ASSUME NEW p \in Procs, Process(p) PROVE TypeOK'
  <2>1. KernelStep /\ KernelTypeOK' /\ ProcessTypeOK'
    BY <1>1, ProcessStep
  <2>2. UNCHANGED <<readerVars, collectVars>>
    BY <1>1 DEF Process
  <2>3. log \in Seq(Records) /\ log' \in Seq(Records) /\ Len(log) <= Len(log')
    BY <2>1 DEF TypeOK, KernelTypeOK, KernelStep
  <2>4. Emitted \subseteq Emitted'
    BY <2>3 DEF Emitted
  <2> QED
    BY <2>1, <2>2, <2>4 DEF TypeOK, KernelTypeOK, ProcessTypeOK, readerVars, collectVars
<1>2. CASE Reader
  <2>1. UNCHANGED <<processVars, collectVars>>
    BY <1>2 DEF Reader
  <2> QED
    BY <1>2, <2>1, ReaderStep
    DEF TypeOK, KernelTypeOK, ReaderTypeOK, processVars, collectVars
<1>3. CASE Collect
  <2>1. UNCHANGED <<processVars, kernelVars, captured, lost>>
    BY <1>3 DEF Collect, StartReader, Fail, Wait, Join, Declare, Replay, readerVars
  <2>a. \/ mode' = "polling" /\ cpu' = 0 /\ drained' = FALSE
        \/ UNCHANGED <<mode, cpu, drained>>
    BY <1>3 DEF Collect, StartReader, Fail, Wait, Join, Declare, Replay,
                readerVars, NewPass
  <2>b. ReaderTypeOK
    BY DEF TypeOK, ReaderTypeOK
  <2>c. drained' \in BOOLEAN
    BY <2>a, <2>b, Zenon DEF ReaderTypeOK
  <2>2. /\ mode' \in {"unstarted", "polling", "draining", "ended"}
        /\ cpu' \in 0 .. CpuCount /\ drained' \in BOOLEAN
    BY <2>a, <2>b, <2>c, CpuAssumption DEF ReaderTypeOK
  <2>3. /\ phase' \in {"spawned", "aborting", "waiting", "killing", "stopping",
                       "quitting", "stopped", "covered", "done", "failed"}
        /\ stop' \in BOOLEAN /\ coverage' \in {"undeclared", "complete", "partial"}
    BY <1>3 DEF Collect, StartReader, Fail, Wait, Join, Declare, Replay, TypeOK
  <2> QED
    BY <2>1, <2>2, <2>3 DEF TypeOK, processVars, kernelVars, Emitted
<1>4. CASE UNCHANGED vars
  BY <1>4 DEF TypeOK, vars, processVars, kernelVars, readerVars, collectVars, Emitted
<1> QED
  BY <1>1, <1>2, <1>3, <1>4 DEF Next, Done

-----------------------------------------------------------------------------
(* The world: clone calls, births and the log. *)

\* Nothing but the buffers changes in a step of the reader or the runner.
LEMMA WorldSame ==
  ASSUME WorldInv, UNCHANGED <<processVars, pending, log, kernelLost>>
  PROVE  WorldInv'
BY DEF WorldInv, CloneInv, BirthInv, LogInv, processVars, Emitted, ExitAt, CloneAt

\* The log stays in order under a step of p that writes no exit record.
LEMMA LogKeeps ==
  ASSUME TypeOK, LogInv, KernelStep, KernelTypeOK', NEW p \in Procs,
         at[p] \notin {"unborn", "dead"},
         \/ UNCHANGED log
         \/ /\ Len(log') = Len(log) + 1
            /\ log'[Len(log) + 1].proc = p /\ log'[Len(log) + 1].kind # "exit",
         \A x \in Procs : at'[x] = "dead" <=> at[x] = "dead",
         \A x \in Procs : at[x] # "unborn" => at'[x] # "unborn",
         inside' \cap {Root} \subseteq inside,
         \/ UNCHANGED births
         \/ /\ Len(births') = Len(births) + 1
            /\ \A j \in 1 .. Len(births) : births'[j] = births[j]
            /\ births'[Len(births) + 1].parent = p
  PROVE  LogInv'
<1> USE ProcsAssumption
<1>1. /\ Len(log) \in Nat /\ Len(log') \in Nat /\ Len(births) \in Nat
      /\ \A i \in Emitted : log[i] \in Records
  BY DEF TypeOK, KernelTypeOK, Emitted
<1>2. \A i \in Emitted : i \in Emitted' /\ log'[i] = log[i]
  BY <1>1 DEF KernelStep, Emitted
<1>3. \A i \in Emitted' : i \in Emitted \/ (log'[i].proc = p /\ log'[i].kind # "exit")
  <2>1. CASE UNCHANGED log
    BY <2>1 DEF Emitted
  <2>2. CASE /\ Len(log') = Len(log) + 1
             /\ log'[Len(log) + 1].proc = p /\ log'[Len(log) + 1].kind # "exit"
    <3>1. \A i \in Emitted' : i \in Emitted \/ i = Len(log) + 1
      BY <1>1, <2>2 DEF Emitted
    <3> QED
      BY <2>2, <3>1
  <2> QED
    BY <2>1, <2>2
<1>4. \A i \in Emitted : log[i].proc \in Procs
  BY <1>1 DEF Records
<1>5. \A i \in Emitted' : at'[log'[i].proc] # "unborn"
  BY <1>2, <1>3, <1>4 DEF LogInv
<1>6. ASSUME NEW i \in Emitted', log'[i].kind = "exit"
      PROVE  /\ at'[log'[i].proc] = "dead"
             /\ \A k \in Emitted' : log'[k].proc = log'[i].proc => k <= i
             /\ \A j \in 1 .. Len(births') : births'[j].parent = log'[i].proc =>
                  kernelLost' \/ \E k \in 1 .. i :
                    log'[k].kind = "clone" /\ log'[k].child = births'[j].child
  <2>1. i \in Emitted /\ log'[i] = log[i] /\ log[i].kind = "exit" /\ log[i].proc \in Procs
    BY <1>2, <1>3, <1>4, <1>6
  <2>2. at[log[i].proc] = "dead" /\ log[i].proc # p
    BY <2>1 DEF LogInv
  <2>3. \A k \in Emitted' : log'[k].proc = log'[i].proc => k <= i
    BY <1>2, <1>3, <2>1, <2>2 DEF LogInv
  <2>4. ASSUME NEW j \in 1 .. Len(births'), births'[j].parent = log'[i].proc
        PROVE  kernelLost' \/ \E k \in 1 .. i :
                 log'[k].kind = "clone" /\ log'[k].child = births'[j].child
    <3>1. j \in 1 .. Len(births) /\ births'[j] = births[j]
      BY <1>1, <2>1, <2>2, <2>4
    <3>2. kernelLost \/ \E k \in 1 .. i : CloneAt(k, births[j].child)
      BY <2>1, <2>4, <3>1 DEF LogInv
    <3>3. \A k \in 1 .. i : k \in Emitted
      BY <1>1, <2>1 DEF Emitted
    <3> QED
      BY <1>2, <3>1, <3>2, <3>3 DEF CloneAt, KernelStep
  <2> QED
    BY <2>1, <2>2, <2>3, <2>4
<1>7. at'[Root] = "dead" /\ Root \in inside' => \E i \in Emitted' : ExitAt(i, Root)'
  BY <1>2 DEF LogInv, ExitAt
<1> QED
  BY <1>5, <1>6, <1>7 DEF LogInv, CloneAt

\* Births keep their parents and their debts under a step without a birth,
\* when whoever ends a clone call has its record written, or is to blame.
LEMMA BirthKeeps ==
  ASSUME TypeOK, BirthInv, KernelStep, KernelTypeOK', UNCHANGED births,
         \A x \in Procs : at[x] # "unborn" <=> at'[x] # "unborn",
         inside' \subseteq inside,
         \A x \in Procs : at[x] = "cloned" =>
           \/ at'[x] = "cloned" /\ child'[x] = child[x]
           \/ \E i \in Emitted' : log'[i].kind = "clone" /\ log'[i].child = child[x]
           \/ kernelLost'
           \/ x \notin inside'
  PROVE  BirthInv'
<1> USE ProcsAssumption
<1>1. \A j \in 1 .. Len(births) : births[j].parent \in Procs /\ births[j].child \in Procs
  <2>1. births \in Seq(Births)
    BY DEF TypeOK
  <2>2. \A j \in 1 .. Len(births) : births[j] \in Births
    BY <2>1
  <2> QED
    BY <2>2 DEF Births
<1>2. \A i \in Emitted : i \in Emitted' /\ log'[i] = log[i]
  BY DEF KernelStep, KernelTypeOK, TypeOK, Emitted
<1>3. ASSUME NEW j \in 1 .. Len(births)
      PROVE  \/ /\ at'[births[j].parent] = "cloned"
                /\ child'[births[j].parent] = births[j].child
             \/ \E i \in Emitted' :
                  log'[i].kind = "clone" /\ log'[i].child = births[j].child
             \/ kernelLost'
             \/ births[j].parent \notin inside'
  <2>1. CASE at[births[j].parent] = "cloned" /\ child[births[j].parent] = births[j].child
    <3>1. births[j].parent \in Procs
      BY <1>1
    <3> QED
      BY <2>1, <3>1
  <2>2. CASE \E i \in Emitted : CloneAt(i, births[j].child)
    BY <1>2, <2>2 DEF CloneAt
  <2>3. CASE kernelLost \/ births[j].parent \notin inside
    BY <2>3 DEF KernelStep
  <2> QED
    BY <2>1, <2>2, <2>3 DEF BirthInv
<1>4. at'[Root] # "unborn"
  BY DEF BirthInv
<1>5. \A x \in Procs \ {Root} :
        at'[x] # "unborn" => \E j \in 1 .. Len(births') : births'[j].child = x
  BY DEF BirthInv
<1>6. \A j \in 1 .. Len(births') :
        /\ at'[births'[j].parent] # "unborn"
        /\ at'[births'[j].child] # "unborn"
        /\ births'[j].parent = Root
             \/ \E k \in 1 .. j - 1 : births'[k].child = births'[j].parent
  BY <1>1 DEF BirthInv
<1> QED
  BY <1>3, <1>4, <1>5, <1>6 DEF BirthInv, CloneAt

\* A clone call is entered.
LEMMA CloneEnterWorld ==
  ASSUME TypeOK, WorldInv, NEW p \in Procs, NEW c \in Procs, CloneEnter(p, c),
         KernelStep, KernelTypeOK'
  PROVE  WorldInv'
<1>1. /\ at[p] = "running" /\ at[c] = "unborn" /\ p # c
      /\ \A q \in Procs : child[q] # c
      /\ UNCHANGED <<inside, births, log>>
      /\ \A x \in Procs : at'[x] = IF x = p THEN "cloning" ELSE at[x]
      /\ \A x \in Procs : child'[x] = IF x = p THEN c ELSE child[x]
      /\ (p \in inside => p \in pending' \/ kernelLost')
      /\ pending \subseteq pending' /\ (kernelLost => kernelLost')
  BY DEF CloneEnter, TypeOK
<1>2. CloneInv'
  <2>1. CloneInv
    BY DEF WorldInv
  <2>2. \A q \in Procs : at'[q] \in {"cloning", "cloned"} =>
          child'[q] \in Procs /\ (q \in inside' => q \in pending' \/ kernelLost')
    BY <1>1, <2>1 DEF CloneInv
  <2>3. \A q \in Procs : at'[q] = "cloning" => at'[child'[q]] = "unborn"
    BY <1>1, <2>1 DEF CloneInv
  <2>4. \A q, x \in Procs : child'[q] \in Procs /\ child'[q] = child'[x] => q = x
    BY <1>1, <2>1 DEF CloneInv
  <2> QED
    BY <2>2, <2>3, <2>4 DEF CloneInv
<1>3. BirthInv'
  BY <1>1, BirthKeeps DEF WorldInv
<1>4. LogInv'
  BY <1>1, LogKeeps DEF WorldInv
<1> QED
  BY <1>2, <1>3, <1>4 DEF WorldInv

\* A child is born.
LEMMA ForkWorld ==
  ASSUME TypeOK, WorldInv, NEW p \in Procs, Fork(p)
  PROVE  WorldInv'
<1> DEFINE c == child[p]
<1> USE ProcsAssumption
<1>1. at[p] = "cloning" /\ c \in Procs /\ at[c] = "unborn" /\ c # p
  BY DEF Fork, WorldInv, CloneInv
<1>2. /\ births' = Append(births, [parent |-> p, child |-> c])
      /\ Observe(p, Record("fork", p, c)) /\ UNCHANGED <<child, pending>>
      /\ inside' = (IF p \in inside THEN inside \cup {c} ELSE inside)
      /\ \A x \in Procs :
           at'[x] = IF x = c THEN "running" ELSE IF x = p THEN "cloned" ELSE at[x]
  BY <1>1 DEF Fork, TypeOK
<1>3. Record("fork", p, c) \in Records
  BY <1>1 DEF Record, Records
<1>4. KernelStep /\ KernelTypeOK'
  BY <1>2, <1>3, ObserveStep
<1>5. /\ births \in Seq(Births) /\ Len(births) \in Nat
      /\ [parent |-> p, child |-> c] \in Births
  BY <1>1 DEF TypeOK, Births
<1>6. /\ Len(births') = Len(births) + 1
      /\ \A j \in 1 .. Len(births) : births'[j] = births[j]
      /\ births'[Len(births) + 1].parent = p /\ births'[Len(births) + 1].child = c
  BY <1>2, <1>5
<1>7. CloneInv'
  <2>1. CloneInv /\ (kernelLost => kernelLost')
    BY <1>4 DEF WorldInv, KernelStep
  <2>2. \A q \in Procs : at'[q] \in {"cloning", "cloned"} =>
          child'[q] \in Procs /\ (q \in inside' => q \in pending' \/ kernelLost')
    BY <1>1, <1>2, <2>1 DEF CloneInv
  <2>3. \A q \in Procs : at'[q] = "cloning" => at'[child'[q]] = "unborn"
    BY <1>1, <1>2, <2>1 DEF CloneInv
  <2>4. \A q, x \in Procs : child'[q] \in Procs /\ child'[q] = child'[x] => q = x
    BY <1>2, <2>1 DEF CloneInv
  <2> HIDE DEF c
  <2> QED
    BY <2>2, <2>3, <2>4 DEF CloneInv
<1>8. BirthInv'
  <2>1. BirthInv /\ (kernelLost => kernelLost')
    BY <1>4 DEF WorldInv, KernelStep
  <2>2. \A i \in Emitted : i \in Emitted' /\ log'[i] = log[i]
    BY <1>4 DEF KernelStep, KernelTypeOK, TypeOK, Emitted
  <2>3. \A j \in 1 .. Len(births) : births[j].parent \in Procs /\ births[j].child \in Procs
    <3>1. \A j \in 1 .. Len(births) : births[j] \in Births
      BY <1>5
    <3> QED
      BY <3>1 DEF Births
  <2>4. \A x \in Procs : at[x] # "unborn" => at'[x] # "unborn"
    BY <1>1, <1>2
  <2>5. ASSUME NEW x \in Procs \ {Root}, at'[x] # "unborn"
        PROVE  \E j \in 1 .. Len(births') : births'[j].child = x
    <3>1. CASE x = c
      BY <1>5, <1>6, <3>1
    <3>2. CASE x # c
      <4>1. PICK j \in 1 .. Len(births) : births[j].child = x
        BY <1>1, <1>2, <2>1, <2>5, <3>2 DEF BirthInv
      <4> QED
        BY <1>5, <1>6, <4>1
    <3> QED
      BY <3>1, <3>2
  <2>6. ASSUME NEW j \in 1 .. Len(births)
        PROVE  /\ at'[births[j].parent] # "unborn" /\ at'[births[j].child] # "unborn"
               /\ \/ births[j].parent = Root
                  \/ \E k \in 1 .. j - 1 : births'[k].child = births[j].parent
               /\ \/ at'[births[j].parent] = "cloned" /\ child'[births[j].parent] = births[j].child
                  \/ \E i \in Emitted' : log'[i].kind = "clone" /\ log'[i].child = births[j].child
                  \/ kernelLost'
                  \/ births[j].parent \notin inside'
    <3>1. at[births[j].parent] # "unborn" /\ at[births[j].child] # "unborn"
      BY <2>1 DEF BirthInv
    <3>2. \/ births[j].parent = Root
          \/ \E k \in 1 .. j - 1 : births'[k].child = births[j].parent
      <4>1. \A k \in 1 .. j - 1 : k \in 1 .. Len(births)
        BY <1>5
      <4> QED
        BY <1>6, <2>1, <4>1 DEF BirthInv
    <3>3. CASE at[births[j].parent] = "cloned" /\ child[births[j].parent] = births[j].child
      BY <1>1, <1>2, <2>3, <2>4, <3>1, <3>2, <3>3
    <3>4. CASE \E i \in Emitted : CloneAt(i, births[j].child)
      BY <2>2, <2>3, <2>4, <3>1, <3>2, <3>4 DEF CloneAt
    <3>5. CASE kernelLost
      BY <2>1, <2>3, <2>4, <3>1, <3>2, <3>5
    <3>6. CASE births[j].parent \notin inside
      BY <1>1, <1>2, <2>3, <2>4, <3>1, <3>2, <3>6
    <3> QED
      BY <2>1, <3>3, <3>4, <3>5, <3>6 DEF BirthInv
  <2>7. p = Root \/ \E k \in 1 .. Len(births) : births'[k].child = p
    BY <1>1, <1>6, <2>1 DEF BirthInv
  <2>8. ASSUME NEW j \in 1 .. Len(births')
        PROVE  /\ at'[births'[j].parent] # "unborn" /\ at'[births'[j].child] # "unborn"
               /\ \/ births'[j].parent = Root
                  \/ \E k \in 1 .. j - 1 : births'[k].child = births'[j].parent
               /\ \/ at'[births'[j].parent] = "cloned" /\ child'[births'[j].parent] = births'[j].child
                  \/ \E i \in Emitted' : log'[i].kind = "clone" /\ log'[i].child = births'[j].child
                  \/ kernelLost'
                  \/ births'[j].parent \notin inside'
    <3>1. CASE j \in 1 .. Len(births)
      BY <1>6, <2>6, <3>1
    <3>2. CASE j = Len(births) + 1
      <4>1. 1 .. j - 1 = 1 .. Len(births)
        BY <1>5, <3>2
      <4> QED
        BY <1>1, <1>2, <1>6, <2>7, <3>2, <4>1
    <3> QED
      BY <1>5, <1>6, <3>1, <3>2
  <2>9. at'[Root] # "unborn"
    BY <2>1, <2>4 DEF BirthInv
  <2> QED
    BY <2>5, <2>8, <2>9 DEF BirthInv, CloneAt
<1>9. LogInv'
  <2>1. \/ UNCHANGED log
        \/ /\ Len(log') = Len(log) + 1
           /\ log'[Len(log) + 1].proc = p /\ log'[Len(log) + 1].kind # "exit"
    <3>1. UNCHANGED log
            \/ (Len(log') = Len(log) + 1 /\ log'[Len(log) + 1] = Record("fork", p, c))
      BY <1>2, <1>3, EmitStep DEF Observe, Unseen
    <3> QED
      BY <3>1 DEF Record
  <2>2. \A x \in Procs : at'[x] = "dead" <=> at[x] = "dead"
    BY <1>1, <1>2
  <2>3. \A x \in Procs : at[x] # "unborn" => at'[x] # "unborn"
    BY <1>1, <1>2
  <2>4. inside' \cap {Root} \subseteq inside
    BY <1>1, <1>2 DEF WorldInv, BirthInv
  <2> HIDE DEF c
  <2> QED
    BY <1>1, <1>4, <1>6, <2>1, <2>2, <2>3, <2>4, LogKeeps DEF WorldInv
<1> QED
  BY <1>7, <1>8, <1>9 DEF WorldInv

\* A clone call returns; its record is written unless the process has left the
\* cgroup or its entry was refused.
LEMMA CloneExitWorld ==
  ASSUME TypeOK, WorldInv, NEW p \in Procs, CloneExit(p)
  PROVE  WorldInv'
<1> DEFINE c == child[p]
<1> USE ProcsAssumption
<1>1. /\ at[p] = "cloned" /\ c \in Procs
      /\ UNCHANGED <<inside, births>>
      /\ \A x \in Procs : at'[x] = IF x = p THEN "running" ELSE at[x]
      /\ \A x \in Procs : child'[x] = IF x = p THEN NoProcess ELSE child[x]
  BY DEF CloneExit, TypeOK, WorldInv, CloneInv
<1>2. Record("clone", p, c) \in Records
  BY <1>1 DEF Record, Records
<1>3. \/ /\ p \in inside /\ p \in pending
         /\ Emit(Record("clone", p, c)) /\ pending' = pending \ {p}
      \/ /\ ~(p \in inside /\ p \in pending)
         /\ Unseen /\ UNCHANGED pending
  BY DEF CloneExit
<1>4. KernelStep /\ KernelTypeOK'
  BY <1>2, <1>3, EmitStep, UnseenStep
<1>5. \/ Len(log') = Len(log) + 1 /\ log'[Len(log) + 1] = Record("clone", p, c)
      \/ /\ UNCHANGED log
         /\ p \notin inside \/ kernelLost'
  <2>1. CASE Emit(Record("clone", p, c))
    BY <1>2, <2>1, EmitStep
  <2>2. CASE Unseen /\ ~(p \in inside /\ p \in pending)
    BY <1>1, <1>4, <2>2 DEF Unseen, WorldInv, CloneInv, KernelStep
  <2> QED
    BY <1>3, <2>1, <2>2
<1>6. CloneInv'
  <2>1. CloneInv /\ (kernelLost => kernelLost')
    BY <1>4 DEF WorldInv, KernelStep
  <2>2. pending \ {p} \subseteq pending'
    BY <1>3
  <2>3. \A q \in Procs : at'[q] \in {"cloning", "cloned"} =>
          child'[q] \in Procs /\ (q \in inside' => q \in pending' \/ kernelLost')
    BY <1>1, <2>1, <2>2 DEF CloneInv
  <2>4. \A q \in Procs : at'[q] = "cloning" => at'[child'[q]] = "unborn"
    BY <1>1, <2>1 DEF CloneInv
  <2>5. \A q, x \in Procs : child'[q] \in Procs /\ child'[q] = child'[x] => q = x
    BY <1>1, <2>1 DEF CloneInv
  <2> QED
    BY <2>3, <2>4, <2>5 DEF CloneInv
<1>7. BirthInv'
  <2>1. \A x \in Procs : at[x] # "unborn" <=> at'[x] # "unborn"
    BY <1>1
  <2>2. \A x \in Procs : at[x] = "cloned" =>
          \/ at'[x] = "cloned" /\ child'[x] = child[x]
          \/ \E i \in Emitted' : log'[i].kind = "clone" /\ log'[i].child = child[x]
          \/ kernelLost'
          \/ x \notin inside'
    <3>1. ASSUME NEW x \in Procs, x # p, at[x] = "cloned"
          PROVE  at'[x] = "cloned" /\ child'[x] = child[x]
      BY <1>1, <3>1
    <3>2. \/ \E i \in Emitted' : log'[i].kind = "clone" /\ log'[i].child = c
          \/ kernelLost'
          \/ p \notin inside'
      <4>1. CASE Len(log') = Len(log) + 1 /\ log'[Len(log) + 1] = Record("clone", p, c)
        <5>1. Len(log) + 1 \in Emitted'
          BY <4>1 DEF TypeOK, Emitted
        <5> QED
          BY <4>1, <5>1 DEF Record
      <4> QED
        BY <1>1, <1>5, <4>1
    <3> QED
      BY <3>1, <3>2
  <2> HIDE DEF c
  <2> QED
    BY <1>1, <1>4, <2>1, <2>2, BirthKeeps DEF WorldInv
<1>8. LogInv'
  <2>1. \/ UNCHANGED log
        \/ /\ Len(log') = Len(log) + 1
           /\ log'[Len(log) + 1].proc = p /\ log'[Len(log) + 1].kind # "exit"
    BY <1>5 DEF Record
  <2> HIDE DEF c
  <2> QED
    BY <1>1, <1>4, <2>1, LogKeeps DEF WorldInv
<1> QED
  BY <1>6, <1>7, <1>8 DEF WorldInv

\* A process executes, makes another system call or moves away.
LEMMA RunningWorld ==
  ASSUME TypeOK, WorldInv, NEW p \in Procs, Exec(p) \/ Call(p) \/ Move(p),
         KernelStep, KernelTypeOK'
  PROVE  WorldInv'
<1>1. /\ at[p] = "running" /\ UNCHANGED <<at, child, births, pending>>
      /\ inside' \subseteq inside /\ (kernelLost => kernelLost')
  BY DEF Exec, Call, Move, processVars, kernelVars, KernelStep
<1>2. \/ UNCHANGED log
      \/ /\ Len(log') = Len(log) + 1
         /\ log'[Len(log) + 1].proc = p /\ log'[Len(log) + 1].kind # "exit"
  <2>1. CASE Exec(p)
    <3>1. Record("exec", p, NoProcess) \in Records
      BY DEF Record, Records
    <3>2. UNCHANGED log \/ (Len(log') = Len(log) + 1
                              /\ log'[Len(log) + 1] = Record("exec", p, NoProcess))
      BY <2>1, <3>1, EmitStep DEF Exec, Observe, Unseen
    <3> QED
      BY <3>2 DEF Record
  <2> QED
    BY <2>1 DEF Call, Move, kernelVars
<1>3. CloneInv'
  BY <1>1 DEF WorldInv, CloneInv
<1>4. BirthInv'
  BY <1>1, BirthKeeps DEF WorldInv
<1>5. LogInv'
  BY <1>1, <1>2, LogKeeps DEF WorldInv
<1> QED
  BY <1>3, <1>4, <1>5 DEF WorldInv

\* Every record is one of a process.
LEMMA ProcOf ==
  ASSUME TypeOK
  PROVE  \A i \in Emitted : log[i].proc \in Procs
<1>1. log \in Seq(Records)
  BY DEF TypeOK
<1>2. \A i \in Emitted : log[i] \in Records
  BY <1>1 DEF Emitted
<1> QED
  BY <1>2 DEF Records

\* A process exits: its children's records are all there.
LEMMA ExitWorld ==
  ASSUME TypeOK, WorldInv, NEW p \in Procs, Exit(p)
  PROVE  WorldInv'
<1> USE ProcsAssumption
<1>1. /\ at[p] = "running" /\ UNCHANGED <<child, inside, births, pending>>
      /\ \A x \in Procs : at'[x] = IF x = p THEN "dead" ELSE at[x]
      /\ Observe(p, Record("exit", p, NoProcess))
  BY DEF Exit, TypeOK
<1>2. Record("exit", p, NoProcess) \in Records
  BY DEF Record, Records
<1>3. KernelStep /\ KernelTypeOK' /\ (kernelLost => kernelLost')
  BY <1>1, <1>2, ObserveStep DEF KernelStep
<1>4. CloneInv'
  BY <1>1, <1>3 DEF WorldInv, CloneInv
<1>5. BirthInv'
  BY <1>1, <1>3, BirthKeeps DEF WorldInv
<1>6. LogInv'
  <2>1. CASE Unseen /\ p \notin inside
    <3>1. UNCHANGED <<log, kernelLost>> /\ Emitted' = Emitted
      BY <2>1 DEF Unseen, Emitted
    <3>2. \A i \in Emitted : log[i].proc \in Procs
      BY ProcOf
    <3>3. \A i \in Emitted : at[log[i].proc] # "unborn" => at'[log[i].proc] # "unborn"
      BY <1>1, <3>2
    <3>4. \A i \in Emitted : at[log[i].proc] = "dead" => at'[log[i].proc] = "dead"
      BY <1>1, <3>2
    <3>5. at'[Root] = "dead" /\ Root \in inside' => at[Root] = "dead" /\ Root \in inside
      BY <1>1, <2>1
    <3> QED
      BY <1>1, <3>1, <3>3, <3>4, <3>5 DEF WorldInv, LogInv, ExitAt, CloneAt
  <2>2. CASE Emit(Record("exit", p, NoProcess)) /\ p \in inside
    <3> DEFINE n == Len(log) + 1
    <3>1. Len(log') = n /\ log'[n] = Record("exit", p, NoProcess) /\ Len(log) \in Nat
      BY <1>2, <2>2, EmitStep DEF TypeOK
    <3>2. \A i \in Emitted : i \in Emitted' /\ log'[i] = log[i] /\ log[i].proc \in Procs
      BY <1>3, ProcOf DEF KernelStep, KernelTypeOK, TypeOK, Emitted
    <3>3. \A i \in Emitted' : i \in Emitted \/ i = n
      BY <3>1 DEF Emitted
    <3>4. log'[n].proc = p /\ log'[n].kind = "exit" /\ n \in Emitted'
      BY <3>1 DEF Record, Emitted
    <3>5. \A i \in Emitted' : at'[log'[i].proc] # "unborn"
      BY <1>1, <3>2, <3>3, <3>4 DEF WorldInv, LogInv
    <3>6. ASSUME NEW i \in Emitted', log'[i].kind = "exit"
          PROVE  /\ at'[log'[i].proc] = "dead"
                 /\ \A k \in Emitted' : log'[k].proc = log'[i].proc => k <= i
                 /\ \A j \in 1 .. Len(births) : births[j].parent = log'[i].proc =>
                      kernelLost' \/ \E k \in 1 .. i :
                        log'[k].kind = "clone" /\ log'[k].child = births[j].child
      <4>1. CASE i = n
        <5>1. \A k \in Emitted' : k <= n
          BY <3>1 DEF Emitted
        <5>2. ASSUME NEW j \in 1 .. Len(births), births[j].parent = p
              PROVE  kernelLost' \/ \E k \in 1 .. n :
                       log'[k].kind = "clone" /\ log'[k].child = births[j].child
          <6>1. kernelLost \/ \E k \in Emitted : CloneAt(k, births[j].child)
            BY <1>1, <2>2, <5>2 DEF WorldInv, BirthInv
          <6>2. \A k \in Emitted : k \in 1 .. n
            BY <3>1 DEF Emitted
          <6> QED
            BY <1>3, <3>2, <6>1, <6>2 DEF CloneAt
        <5> HIDE DEF n
        <5> QED
          BY <1>1, <3>4, <4>1, <5>1, <5>2
      <4>2. CASE i # n
        <5>1. i \in Emitted /\ log'[i] = log[i] /\ log[i].kind = "exit"
          BY <3>2, <3>3, <3>6, <4>2
        <5>2. at[log[i].proc] = "dead" /\ log[i].proc # p /\ log[i].proc \in Procs
          BY <1>1, <3>2, <5>1 DEF WorldInv, LogInv
        <5>3. \A k \in Emitted' : log'[k].proc = log'[i].proc => k <= i
          BY <3>2, <3>3, <3>4, <5>1, <5>2 DEF WorldInv, LogInv
        <5>4. \A k \in 1 .. i : k \in Emitted
          BY <3>1, <5>1 DEF Emitted
        <5>5. \A j \in 1 .. Len(births) : births[j].parent = log'[i].proc =>
                kernelLost' \/ \E k \in 1 .. i :
                  log'[k].kind = "clone" /\ log'[k].child = births[j].child
          BY <1>3, <3>2, <5>1, <5>4 DEF WorldInv, LogInv, CloneAt
        <5> QED
          BY <1>1, <5>1, <5>2, <5>3, <5>5
      <4> QED
        BY <4>1, <4>2
    <3>7. at'[Root] = "dead" /\ Root \in inside' => \E i \in Emitted' : ExitAt(i, Root)'
      <4>1. CASE p = Root
        BY <3>4, <4>1 DEF ExitAt
      <4>2. CASE p # Root
        BY <1>1, <3>2, <4>2 DEF WorldInv, LogInv, ExitAt
      <4> QED
        BY <4>1, <4>2
    <3> QED
      BY <1>1, <3>5, <3>6, <3>7 DEF LogInv, CloneAt
  <2> QED
    BY <1>1, <2>1, <2>2 DEF Observe
<1> QED
  BY <1>4, <1>5, <1>6 DEF WorldInv

\* The world stays in order under every step.
LEMMA NextWorld == TypeOK /\ WorldInv /\ [Next]_vars => WorldInv'
<1> SUFFICES ASSUME TypeOK, WorldInv, [Next]_vars PROVE WorldInv'
  OBVIOUS
<1>1. ASSUME NEW p \in Procs, Process(p) PROVE WorldInv'
  <2>1. KernelStep /\ KernelTypeOK'
    BY <1>1, ProcessStep DEF WorldInv
  <2> QED
    BY <1>1, <2>1, CloneEnterWorld, ForkWorld, CloneExitWorld, RunningWorld, ExitWorld
    DEF Process
<1>2. CASE Reader
  BY <1>2, ReaderStep, WorldSame DEF Reader
<1>3. CASE Collect
  <2>1. UNCHANGED <<processVars, kernelVars>>
    BY <1>3 DEF Collect, StartReader, Fail, Wait, Join, Declare, Replay
  <2> QED
    BY <2>1, WorldSame DEF kernelVars
<1>4. CASE UNCHANGED vars
  BY <1>4, WorldSame DEF vars, kernelVars
<1> QED
  BY <1>1, <1>2, <1>3, <1>4 DEF Next, Done

-----------------------------------------------------------------------------
(* The reader: no silent loss, and one moment of the emission. *)

\* Processes never undo the exit of the root, and only a living one has a child.
LEMMA ProcessRoot ==
  ASSUME TypeOK, WorldInv, NEW p \in Procs, Process(p)
  PROVE  /\ at[Root] = "dead" => at'[Root] = "dead"
         /\ Root \in inside' => Root \in inside
         /\ \/ UNCHANGED births
            \/ /\ Len(births) \in Nat /\ Len(births') = Len(births) + 1
               /\ \A j \in 1 .. Len(births) : births'[j] = births[j]
               /\ births'[Len(births) + 1].parent = p /\ at[p] # "dead"
<1> USE ProcsAssumption
<1>1. CASE Fork(p)
  <2> DEFINE c == child[p]
  <2>1. at[p] = "cloning" /\ c \in Procs /\ at[c] = "unborn" /\ at[Root] # "unborn"
    BY <1>1 DEF Fork, WorldInv, CloneInv, BirthInv
  <2>2. at' = [at EXCEPT ![p] = "cloned", ![c] = "running"]
        /\ inside' = (IF p \in inside THEN inside \cup {c} ELSE inside)
        /\ births' = Append(births, [parent |-> p, child |-> c])
    BY <1>1 DEF Fork
  <2>3. births \in Seq(Births) /\ [parent |-> p, child |-> c] \in Births
    BY <2>1 DEF TypeOK, Births
  <2>4. /\ Len(births) \in Nat /\ Len(births') = Len(births) + 1
        /\ \A j \in 1 .. Len(births) : births'[j] = births[j]
        /\ births'[Len(births) + 1].parent = p
    BY <2>2, <2>3
  <2>5. at[Root] = "dead" => at'[Root] = "dead"
    BY <2>1, <2>2 DEF TypeOK
  <2> QED
    BY <2>1, <2>2, <2>4, <2>5
<1>2. CASE ~Fork(p)
  <2>1. UNCHANGED births /\ inside' \subseteq inside
    BY <1>2 DEF Process, CloneEnter, CloneExit, Exec, Exit, Call, Move, processVars
  <2>2. at[Root] = "dead" => at'[Root] = "dead"
    BY <1>2 DEF Process, CloneEnter, CloneExit, Exec, Exit, Call, Move, processVars, TypeOK
  <2> QED
    BY <2>1, <2>2
<1> QED
  BY <1>1, <1>2

\* While a process runs, what the reader relies on stays as it is.
LEMMA ProcessReader ==
  ASSUME TypeOK, WorldInv, ReaderInv, NEW p \in Procs, Process(p)
  PROVE  ReaderInv'
<1>1. /\ UNCHANGED <<readerVars, collectVars>>
      /\ at[Root] = "dead" => at'[Root] = "dead"
      /\ Root \in inside' => Root \in inside
  BY ProcessRoot DEF Process
<1>2. KernelStep /\ KernelTypeOK' /\ KernelTypeOK
  BY ProcessStep DEF WorldInv, TypeOK, KernelTypeOK
<1>3. Len(log) \in Nat /\ Len(log') \in Nat /\ Len(log) <= Len(log')
  BY <1>2 DEF KernelStep, KernelTypeOK
<1>4. Emitted \subseteq Emitted'
  BY <1>3 DEF Emitted
<1>5. LossNoticed'
  <2> SUFFICES ASSUME NEW i \in Emitted', ~lost', ~kernelLost',
                      i \notin captured', \A c \in Cpus : i \notin ring'[c]
               PROVE  FALSE
    BY DEF LossNoticed, Missing, Queued
  <2>1. i \in Emitted
    BY <1>2 DEF KernelStep
  <2>2. \A c \in Cpus : i \notin ring[c]
    BY <1>2, <2>1 DEF KernelStep
  <2>3. i \in Missing
    BY <1>1, <2>1, <2>2 DEF Missing, Queued, readerVars
  <2> QED
    BY <1>1, <1>2, <2>3 DEF ReaderInv, LossNoticed, readerVars, KernelStep
<1>6. ASSUME ~lost', LastPass' PROVE \E n \in 0 .. Len(log') : Cut(n)'
  <2>1. PICK n \in 0 .. Len(log) : Cut(n)
    BY <1>1, <1>6 DEF ReaderInv, LastPass, readerVars
  <2>2. 1 .. n \subseteq Emitted /\ n \in 0 .. Len(log')
    BY <1>3 DEF Emitted
  <2>3. \A c \in Cpus : c < cpu' => ring'[c] \cap (1 .. n) = {}
    <3> SUFFICES ASSUME NEW c \in Cpus, c < cpu' PROVE ring'[c] \cap (1 .. n) = {}
      OBVIOUS
    <3>1. ring[c] \cap (1 .. n) = {}
      BY <1>1, <2>1 DEF Cut, readerVars
    <3>2. ring'[c] \cap Emitted = ring[c]
      BY <1>2 DEF KernelStep
    <3> QED
      BY <2>2, <3>1, <3>2
  <2>4. Root \in inside' => \E i \in 1 .. n : ExitAt(i, Root)'
    BY <1>1, <1>2, <2>1, <2>2 DEF Cut, KernelStep, ExitAt
  <2>5. captured' \subseteq 1 .. n
    BY <1>1, <2>1 DEF Cut, readerVars
  <2>6. Cut(n)'
    BY <2>3, <2>4, <2>5 DEF Cut
  <2> QED
    BY <2>2, <2>6
<1> QED
  BY <1>1, <1>5, <1>6 DEF ReaderInv, readerVars, collectVars

\* A buffer without records is empty.
LEMMA NothingWaits ==
  ASSUME TypeOK, NEW c \in Cpus, Waiting(c) = 0
  PROVE  ring[c] = {}
<1>1. ring[c] \subseteq 1 .. Len(log) /\ Len(log) \in Nat /\ calls[c] \in Nat
  BY DEF TypeOK, Emitted
<1>2. IsFiniteSet(ring[c])
  <2>1. IsFiniteSet(1 .. Len(log))
    BY <1>1, FS_Interval
  <2> QED
    BY <1>1, <2>1, FS_Subset
<1>3. Cardinality(ring[c]) \in Nat
  BY <1>2, FS_CardinalityType
<1>4. Cardinality(ring[c]) = 0
  BY <1>1, <1>3 DEF Waiting
<1> QED
  BY <1>2, <1>4, FS_EmptySet

\* The reader counts what it drops; a pass that reads nothing keeps the moment
\* it began at.
LEMMA ReaderReader ==
  ASSUME TypeOK, WorldInv, ReaderInv, Reader
  PROVE  ReaderInv'
<1> USE CpuAssumption
<1>1. /\ UNCHANGED <<processVars, collectVars, pending, log, kernelLost>>
      /\ KernelTypeOK /\ KernelTypeOK' /\ ReaderTypeOK /\ ReaderTypeOK'
  BY ReaderStep DEF Reader, TypeOK, KernelTypeOK, ReaderTypeOK
<1>2. Emitted' = Emitted /\ Len(log) \in Nat
  BY <1>1 DEF Emitted, KernelTypeOK
<1>3. stop' => at'[Root] = "dead"
  BY <1>1 DEF ReaderInv, processVars, collectVars
<1>4. CASE ReadEvents
  <2>1. PICK s \in SUBSET ring[cpu] :
           ring' = [ring EXCEPT ![cpu] = @ \ s] /\ Queue(s)
    BY <1>4 DEF ReadEvents
  <2>2. Passing /\ UNCHANGED mode /\ drained' = TRUE /\ cpu \in Cpus
    BY <1>1, <1>4 DEF ReadEvents, Cpus, ReaderTypeOK
  <2>3. s \in SUBSET Emitted
    BY <1>1, <2>2 DEF KernelTypeOK
  <2>4. captured \subseteq captured' /\ (lost => lost') /\ (s \subseteq captured' \/ lost')
    BY <2>1, <2>3, QueueStep
  <2>5. LossNoticed'
    <3> SUFFICES ASSUME NEW i \in Emitted', ~lost', ~kernelLost',
                        i \notin captured', \A c \in Cpus : i \notin ring'[c]
                 PROVE  FALSE
      BY DEF LossNoticed, Missing, Queued
    <3>1. i \notin s /\ i \notin captured /\ ~lost /\ ~kernelLost /\ i \in Emitted
      BY <1>1, <1>2, <2>4
    <3>2. \A c \in Cpus : i \notin ring[c]
      BY <1>1, <2>1, <3>1 DEF KernelTypeOK
    <3>3. i \in Missing
      BY <3>1, <3>2 DEF Missing, Queued
    <3> QED
      BY <3>1, <3>3 DEF ReaderInv, LossNoticed
  <2>6. ~LastPass' /\ mode' # "ended"
    BY <2>2 DEF LastPass, Passing
  <2> QED
    BY <1>1, <1>3, <2>2, <2>5, <2>6 DEF ReaderInv, collectVars
<1>5. CASE LoseCalls \/ ReadFails
  <2>1. Passing /\ UNCHANGED mode /\ lost' = TRUE
    BY <1>5 DEF LoseCalls, ReadFails
  <2> QED
    BY <1>1, <1>3, <2>1 DEF ReaderInv, LossNoticed, Passing, collectVars
<1>6. CASE SkipBuffer
  <2>1. /\ Passing /\ cpu \in Cpus /\ cpu' = cpu + 1 /\ Waiting(cpu) = 0
        /\ UNCHANGED <<ring, mode, drained, captured, lost>>
    BY <1>1, <1>6 DEF SkipBuffer, kernelVars, Cpus, ReaderTypeOK
  <2>2. ring[cpu] = {}
    BY <2>1, NothingWaits
  <2>3. LossNoticed'
    BY <1>1, <1>2, <2>1 DEF ReaderInv, LossNoticed, Missing, Queued
  <2>4. ASSUME ~lost', LastPass' PROVE \E n \in 0 .. Len(log') : Cut(n)'
    <3>1. PICK n \in 0 .. Len(log) : Cut(n)
      BY <2>1, <2>4 DEF ReaderInv, LastPass
    <3>2. \A c \in Cpus : c < cpu' => ring'[c] \cap (1 .. n) = {}
      <4>1. \A c \in Cpus : c < cpu + 1 => c < cpu \/ c = cpu
        BY <2>1 DEF Cpus
      <4> QED
        BY <2>1, <2>2, <3>1, <4>1 DEF Cut
    <3>3. Cut(n)'
      BY <1>1, <2>1, <3>1, <3>2 DEF Cut, ExitAt, processVars
    <3> QED
      BY <1>1, <3>3
  <2> QED
    BY <1>1, <1>3, <2>1, <2>3, <2>4 DEF ReaderInv, collectVars, Passing
<1>7. CASE EndPass
  <2>1. /\ Passing /\ cpu = CpuCount /\ UNCHANGED <<ring, captured, lost>>
        /\ \/ mode = "polling" /\ mode' = (IF stop THEN "draining" ELSE "polling")
                /\ cpu' = 0
           \/ mode = "draining" /\ drained /\ mode' = "draining" /\ cpu' = 0
           \/ mode = "draining" /\ ~drained /\ mode' = "ended" /\ UNCHANGED <<cpu, drained>>
    BY <1>7 DEF EndPass, NewPass, kernelVars
  <2>2. LossNoticed'
    BY <1>1, <1>2, <2>1 DEF ReaderInv, LossNoticed, Missing, Queued
  <2>3. CASE mode' = "polling"
    BY <1>1, <1>3, <2>1, <2>2, <2>3 DEF ReaderInv, LastPass, collectVars, Passing
  <2>4. CASE mode' = "draining"
    <3>1. stop /\ at[Root] = "dead" /\ cpu' = 0 /\ mode # "ended"
      BY <2>1, <2>4 DEF ReaderInv
    <3>2. Root \in inside => \E i \in Emitted : ExitAt(i, Root)
      BY <3>1 DEF WorldInv, LogInv
    <3>3. Root \in inside' => \E i \in 1 .. Len(log) : ExitAt(i, Root)'
      BY <1>1, <3>2 DEF Emitted, ExitAt, processVars
    <3>4. captured' \subseteq 1 .. Len(log)
      BY <1>1, <2>1 DEF ReaderTypeOK, Emitted
    <3>5. \A c \in Cpus : ~(c < cpu')
      BY <3>1 DEF Cpus
    <3>6. Cut(Len(log))'
      BY <1>1, <3>3, <3>4, <3>5 DEF Cut
    <3>7. \E n \in 0 .. Len(log') : Cut(n)'
      BY <1>1, <1>2, <3>6
    <3> QED
      BY <1>1, <1>3, <2>2, <2>4, <3>1, <3>7 DEF ReaderInv, collectVars
  <2>5. CASE mode' = "ended"
    <3>1. mode = "draining" /\ ~drained /\ UNCHANGED <<cpu, drained>>
      BY <2>1, <2>5
    <3>2. ASSUME ~lost' PROVE \E n \in 0 .. Len(log') : Cut(n)'
      <4>1. PICK n \in 0 .. Len(log) : Cut(n)
        BY <2>1, <3>1, <3>2 DEF ReaderInv, LastPass
      <4>2. Cut(n)'
        BY <1>1, <2>1, <3>1, <4>1 DEF Cut, ExitAt, processVars
      <4> QED
        BY <1>1, <4>2
    <3> QED
      BY <1>1, <1>3, <2>1, <2>2, <2>5, <3>1, <3>2 DEF ReaderInv, collectVars
  <2> QED
    BY <2>1, <2>3, <2>4, <2>5
<1> QED
  BY <1>4, <1>5, <1>6, <1>7 DEF Reader

\* Every step keeps what is known of the reader.
LEMMA NextReader == TypeOK /\ WorldInv /\ ReaderInv /\ [Next]_vars => ReaderInv'
<1> SUFFICES ASSUME TypeOK, WorldInv, ReaderInv, [Next]_vars PROVE ReaderInv'
  OBVIOUS
<1> USE DEF ReaderInv, LossNoticed, Missing, Queued, Emitted, LastPass, Cut, ExitAt
<1>1. CASE Collect
  <2>1. UNCHANGED <<processVars, kernelVars, captured, lost>>
    BY <1>1 DEF Collect, StartReader, Fail, Wait, Join, Declare, Replay, readerVars
  <2>2. CASE StartReader
    <3>1. mode' = "polling" /\ phase' = "waiting" /\ UNCHANGED stop
      BY <2>2 DEF StartReader, NewPass
    <3> QED
      BY <2>1, <3>1 DEF processVars, kernelVars
  <2>3. CASE ~StartReader
    <3>1. UNCHANGED readerVars
      BY <1>1, <2>3 DEF Collect, Fail, Wait, Join, Declare, Replay
    <3>2. stop' => at[Root] = "dead"
      BY <1>1, <2>3 DEF Collect, Fail, Wait, Join, Declare, Replay
    <3>3. stop => stop'
      BY <1>1, <2>3 DEF Collect, Fail, Wait, Join, Declare, Replay
    <3>4. phase' \in {"stopped", "covered", "done"} => mode = "ended"
      BY <1>1, <2>3 DEF Collect, Fail, Wait, Join, Declare, Replay
    <3> QED
      BY <2>1, <3>1, <3>2, <3>3, <3>4 DEF processVars, kernelVars, readerVars
  <2> QED
    BY <2>2, <2>3
<1>2. CASE UNCHANGED vars
  BY <1>2 DEF vars, processVars, kernelVars, readerVars, collectVars
<1> QED
  BY <1>1, <1>2, ProcessReader, ReaderReader DEF Next, Done

-----------------------------------------------------------------------------
(* Complete coverage. *)

\* Where the reader ends without losses it has all of 1 .. n.
LEMMA EndedCut ==
  ASSUME TypeOK, ReaderInv, mode = "ended", ~lost, ~kernelLost
  PROVE  \E n \in 0 .. Len(log) : captured = 1 .. n /\ Cut(n)
<1>1. PICK n \in 0 .. Len(log) : Cut(n)
  BY DEF ReaderInv, LastPass
<1>2. 1 .. n \subseteq Emitted
  BY DEF TypeOK, Emitted
<1>3. \A c \in Cpus : ring[c] \cap (1 .. n) = {}
  <2>1. cpu = CpuCount /\ \A c \in Cpus : c < CpuCount
    BY CpuAssumption DEF ReaderInv, Cpus
  <2> QED
    BY <1>1, <2>1 DEF Cut
<1>4. \A i \in 1 .. n : i \in captured
  BY <1>2, <1>3 DEF ReaderInv, LossNoticed, Missing, Queued
<1> QED
  BY <1>1, <1>4 DEF Cut

\* A process that goes on does not change what was captured.
LEMMA ProcessCover ==
  ASSUME TypeOK, WorldInv, CoverInv, NEW p \in Procs, Process(p)
  PROVE  CoverInv'
<1> SUFFICES ASSUME coverage' = "complete"
             PROVE  /\ mode' = "ended" /\ phase' \in {"covered", "done", "failed"}
                    /\ \E n \in 0 .. Len(log') :
                         captured' = 1 .. n
                           /\ (Root \in inside' => \E i \in 1 .. n : ExitAt(i, Root)')
                    /\ \A j \in 1 .. Len(births') :
                         (\E i \in captured' :
                             log'[i].kind = "exit" /\ log'[i].proc = births'[j].parent)
                           => \E i \in captured' :
                             log'[i].kind = "clone" /\ log'[i].child = births'[j].child
                    /\ phase' = "done" => Remaining' = {}
  BY DEF CoverInv, ExitAt, CloneAt
<1>1. /\ UNCHANGED <<mode, phase, coverage, captured>> /\ coverage = "complete"
      /\ Root \in inside' => Root \in inside
  BY ProcessRoot DEF Process, readerVars, collectVars
<1>2. /\ Len(log) \in Nat /\ Len(log') \in Nat /\ Len(log) <= Len(log')
      /\ \A i \in Emitted : log'[i] = log[i]
  BY ProcessStep DEF WorldInv, TypeOK, KernelTypeOK, KernelStep
<1>3. captured \subseteq Emitted /\ \A i \in captured : log'[i] = log[i]
  BY <1>2 DEF TypeOK
<1>4. \E n \in 0 .. Len(log') :
        captured' = 1 .. n /\ (Root \in inside' => \E i \in 1 .. n : ExitAt(i, Root)')
  <2>1. PICK n \in 0 .. Len(log) :
           captured = 1 .. n /\ (Root \in inside => \E i \in 1 .. n : ExitAt(i, Root))
    BY <1>1 DEF CoverInv
  <2> QED
    BY <1>1, <1>2, <1>3, <2>1 DEF ExitAt
<1>5. ASSUME NEW j \in 1 .. Len(births),
             \E i \in captured : log[i].kind = "exit" /\ log[i].proc = births[j].parent
      PROVE  \E i \in captured : log[i].kind = "clone" /\ log[i].child = births[j].child
  BY <1>1, <1>5 DEF CoverInv, ExitAt, CloneAt
<1>6. ASSUME NEW j \in 1 .. Len(births'), NEW e \in captured',
             log'[e].kind = "exit", log'[e].proc = births'[j].parent
      PROVE  \E i \in captured' :
               log'[i].kind = "clone" /\ log'[i].child = births'[j].child
  <2>1. e \in captured /\ log[e].kind = "exit" /\ log[e].proc = births'[j].parent
    BY <1>1, <1>3, <1>6
  <2>2. at[log[e].proc] = "dead"
    BY <1>3, <2>1 DEF WorldInv, LogInv
  <2>3. j \in 1 .. Len(births) /\ births'[j] = births[j]
    BY <2>1, <2>2, ProcessRoot
  <2> QED
    BY <1>1, <1>3, <1>5, <2>1, <2>3
<1>7. Remaining' = Remaining
  BY <1>1, <1>3 DEF Remaining, Registered, Captured
<1> QED
  BY <1>1, <1>4, <1>6, <1>7 DEF CoverInv

\* Complete coverage is declared at a moment that all records were read up to.
LEMMA CollectCover ==
  ASSUME TypeOK, WorldInv, ReaderInv, CoverInv, Collect
  PROVE  CoverInv'
<1>1. UNCHANGED <<processVars, kernelVars, captured, lost>>
  BY DEF Collect, StartReader, Fail, Wait, Join, Declare, Replay, readerVars
<1>2. Remaining' = Remaining
  BY <1>1 DEF Remaining, Registered, Captured, kernelVars
<1>3. CASE Declare
  <2> SUFFICES ASSUME coverage' = "complete" PROVE CoverInv'
    BY DEF CoverInv
  <2>1. mode = "ended" /\ phase' = "covered" /\ UNCHANGED mode
    BY <1>3 DEF Declare, ReaderInv, readerVars
  <2>a. ~(lost \/ kernelLost)
    BY <1>3 DEF Declare
  <2>2. ~lost /\ ~kernelLost
    BY <2>a
  <2>3. PICK n \in 0 .. Len(log) : captured = 1 .. n /\ Cut(n)
    BY <2>1, <2>2, EndedCut
  <2>4. captured \subseteq Emitted
    BY DEF TypeOK
  <2>5. ASSUME NEW j \in 1 .. Len(births), NEW e \in captured, ExitAt(e, births[j].parent)
        PROVE  \E i \in captured : CloneAt(i, births[j].child)
    <3>1. PICK k \in 1 .. e : CloneAt(k, births[j].child)
      BY <2>2, <2>4, <2>5 DEF WorldInv, LogInv, ExitAt
    <3>2. k \in captured
      BY <2>3, <3>1
    <3> QED
      BY <3>1, <3>2
  <2>6. Root \in inside => \E i \in 1 .. n : ExitAt(i, Root)
    BY <2>3 DEF Cut
  <2> QED
    BY <1>1, <2>1, <2>3, <2>5, <2>6
    DEF CoverInv, ExitAt, CloneAt, processVars, kernelVars
<1>4. CASE Replay
  <2>1. /\ coverage' = "complete" => coverage = "complete" /\ Remaining = {}
        /\ phase' = "done" /\ UNCHANGED mode
    BY <1>4 DEF Replay, readerVars
  <2> QED
    BY <1>1, <1>2, <2>1 DEF CoverInv, ExitAt, CloneAt, processVars, kernelVars
<1>5. CASE StartReader \/ (phase \notin {"stopped", "covered"} /\ Fail) \/ Wait \/ Join
  <2>1. UNCHANGED coverage /\ phase \notin {"covered", "done", "failed"}
    BY <1>5 DEF StartReader, Fail, Wait, Join
  <2> QED
    BY <2>1 DEF CoverInv
<1>6. CASE phase \in {"stopped", "covered"} /\ Fail
  <2>1. phase' = "failed" /\ UNCHANGED <<mode, coverage>>
    BY <1>6 DEF Fail, readerVars
  <2>2. coverage = "complete" => phase = "covered"
    BY <1>6 DEF CoverInv
  <2> QED
    BY <1>1, <1>2, <2>1, <2>2 DEF CoverInv, ExitAt, CloneAt, processVars, kernelVars
<1> QED
  BY <1>3, <1>4, <1>5, <1>6 DEF Collect

\* Every step keeps what complete coverage means.
LEMMA NextCover ==
  TypeOK /\ WorldInv /\ ReaderInv /\ CoverInv /\ [Next]_vars => CoverInv'
<1> SUFFICES ASSUME TypeOK, WorldInv, ReaderInv, CoverInv, [Next]_vars PROVE CoverInv'
  OBVIOUS
<1>1. CASE Reader
  <2>1. UNCHANGED coverage /\ mode # "ended"
    BY <1>1 DEF Reader, collectVars, ReadEvents, LoseCalls, ReadFails, SkipBuffer,
                EndPass, Passing
  <2> QED
    BY <2>1 DEF CoverInv, ReaderInv
<1>2. CASE UNCHANGED vars
  <2>1. Remaining' = Remaining
    BY <1>2 DEF Remaining, Registered, Captured, vars, kernelVars, readerVars
  <2> QED
    BY <1>2, <2>1 DEF CoverInv, ExitAt, CloneAt,
                      vars, processVars, kernelVars, readerVars, collectVars
<1> QED
  BY <1>1, <1>2, ProcessCover, CollectCover DEF Next, Done

-----------------------------------------------------------------------------
(* The invariant of the specification. *)

LEMMA InitPipeline == Init => PipelineInv
<1> SUFFICES ASSUME Init PROVE PipelineInv
  OBVIOUS
<1> USE ProcsAssumption
<1>1. TypeOK
  BY InitType
<1>2. Emitted = {} /\ Len(births) = 0
  BY DEF Init, Emitted
<1>3. CloneInv
  BY DEF Init, CloneInv
<1>4. BirthInv
  BY <1>2 DEF Init, BirthInv
<1>5. LogInv
  BY <1>2 DEF Init, LogInv
<1>6. ReaderInv
  BY <1>2 DEF Init, ReaderInv, LossNoticed, Missing, LastPass
<1>7. CoverInv
  BY DEF Init, CoverInv
<1> QED
  BY <1>1, <1>3, <1>4, <1>5, <1>6, <1>7 DEF PipelineInv, WorldInv

LEMMA NextPipeline == PipelineInv /\ [Next]_vars => PipelineInv'
BY NextType, NextWorld, NextReader, NextCover DEF PipelineInv, WorldInv

LEMMA PipelineIsInvariant == Spec => []PipelineInv
BY InitPipeline, NextPipeline, PTL DEF Spec

\* Every variable of the pipeline keeps its type: no buffer or queue holds the
\* number of a record that was not written.
THEOREM PipelineTypes == Spec => []TypeOK
<1>1. PipelineInv => TypeOK
  BY DEF PipelineInv
<1> QED
  BY <1>1, PipelineIsInvariant, PTL

\* emit_event, drain_buffers and push_process_event together drop no record
\* without a count, whatever the sizes of the buffers and the queue.
THEOREM NoSilentLoss == Spec => []LossNoticed
<1>1. PipelineInv => LossNoticed
  BY DEF PipelineInv, ReaderInv
<1> QED
  BY <1>1, PipelineIsInvariant, PTL

\* The last loop of ProbeRun::start ends with the records up to one moment of
\* the emission, for any number of CPUs.
THEOREM CaptureIsPrefix == Spec => []ClosedCut
<1>1. PipelineInv => ClosedCut
  BY EndedCut DEF PipelineInv, ClosedCut
<1> QED
  BY <1>1, PipelineIsInvariant, PTL

-----------------------------------------------------------------------------
(* What complete coverage means when the root stays in its cgroup. *)

RootInside == Root \in inside

\* Only Move takes a process out of the cgroup.
LEMMA RootStays ==
  ASSUME Root \notin Movers
  PROVE  Spec => []RootInside
<1>1. Init => RootInside
  BY DEF Init, RootInside
<1>2. RootInside /\ [Next]_vars => RootInside'
  <2> SUFFICES ASSUME RootInside, [Next]_vars PROVE Root \in inside'
    BY DEF RootInside
  <2>1. ASSUME NEW p \in Procs, Process(p) PROVE Root \in inside'
    BY <2>1 DEF Process, CloneEnter, Fork, CloneExit, Exec, Exit, Call, Move,
                processVars, RootInside
  <2> QED
    BY <2>1 DEF Next, Reader, Collect, Done, vars, processVars, RootInside
<1> QED
  BY <1>1, <1>2, PTL DEF Spec

\* A set of numbers that is not empty has a least member.
LEMMA LeastMember ==
  ASSUME NEW T \in SUBSET Nat, T # {}
  PROVE  \E x \in T : \A y \in T : x <= y
<1>1. PICK x \in T : \A y \in T : ~(<<y, x>> \in OpToRel(<, Nat))
  BY NatLessThanWellFounded, WFMin, Zenon
<1>2. \A y \in T : ~(y < x)
  BY <1>1 DEF OpToRel
<1> QED
  BY <1>2

\* Along the order of births, every process was registered and seen to exit.
LEMMA EveryBirthCaptured ==
  ASSUME PipelineInv, RootInside, phase = "done", coverage = "complete"
  PROVE  /\ \E i \in captured : ExitAt(i, Root)
         /\ \A j \in 1 .. Len(births) :
              /\ \E i \in captured : ExitAt(i, births[j].child)
              /\ \E i \in captured : CloneAt(i, births[j].child)
<1> DEFINE ExitSeen(p) == \E i \in captured : ExitAt(i, p)
           T == {j \in 1 .. Len(births) : ~ExitSeen(births[j].child)}
<1>1. /\ births \in Seq(Births) /\ Len(births) \in Nat
      /\ Remaining = {}
      /\ \A j \in 1 .. Len(births) :
           ExitSeen(births[j].parent) => \E i \in captured : CloneAt(i, births[j].child)
  BY DEF PipelineInv, TypeOK, CoverInv
<1>2. ExitSeen(Root)
  BY DEF PipelineInv, CoverInv, RootInside
<1>3. ASSUME NEW j \in 1 .. Len(births), \A k \in T : j <= k
      PROVE  ExitSeen(births[j].parent)
  <2>1. CASE births[j].parent = Root
    BY <1>2, <2>1
  <2>2. CASE births[j].parent # Root
    <3>1. PICK k \in 1 .. j - 1 : births[k].child = births[j].parent
      BY <2>2 DEF PipelineInv, WorldInv, BirthInv
    <3>2. k \in 1 .. Len(births) /\ ~(j <= k)
      BY <1>1, <3>1
    <3>3. k \notin T
      BY <1>3, <3>2
    <3> QED
      BY <3>1, <3>2, <3>3
  <2> QED
    BY <2>1, <2>2
<1>4. ASSUME NEW j \in 1 .. Len(births), \A k \in T : j <= k
      PROVE  ExitSeen(births[j].child)
  <2>1. PICK i \in captured : CloneAt(i, births[j].child)
    BY <1>1, <1>3, <1>4
  <2>2. births[j].child \in Registered
    BY <2>1 DEF Registered, Captured, CloneAt
  <2>3. CASE births[j].child = Root
    BY <1>2, <2>3
  <2>4. CASE births[j].child # Root
    <3>1. births[j].child \in {log[e].proc : e \in Captured("exit")}
      BY <1>1, <2>2, <2>4 DEF Remaining
    <3> QED
      BY <3>1 DEF Captured, ExitAt
  <2> QED
    BY <2>3, <2>4
<1>5. T = {}
  <2> SUFFICES ASSUME T # {} PROVE FALSE
    OBVIOUS
  <2>1. T \in SUBSET Nat
    BY <1>1
  <2>2. PICK j \in T : \A k \in T : j <= k
    BY <2>1, LeastMember
  <2> QED
    BY <1>4, <2>2
<1> HIDE DEF ExitSeen
<1>6. \A j \in 1 .. Len(births) : ExitSeen(births[j].child) /\ ExitSeen(births[j].parent)
  BY <1>3, <1>5
<1> QED
  BY <1>1, <1>2, <1>6 DEF ExitSeen

\* Complete coverage then says what it means.
LEMMA CoverIsAll ==
  ASSUME PipelineInv, RootInside
  PROVE  CompleteIsAll
<1> SUFFICES ASSUME phase = "done", coverage = "complete"
             PROVE  /\ \A p \in Procs : at[p] # "unborn" => at[p] = "dead" /\ p \in Registered
                    /\ captured = Emitted
  BY DEF CompleteIsAll
<1>1. \A p \in Procs : at[p] # "unborn" =>
        p = Root \/ \E j \in 1 .. Len(births) : births[j].child = p
  BY DEF PipelineInv, WorldInv, BirthInv
<1>2. \A p \in Procs : at[p] # "unborn" => \E i \in captured : ExitAt(i, p)
  BY <1>1, EveryBirthCaptured
<1>3. captured \subseteq Emitted
  BY DEF PipelineInv, TypeOK
<1>4. \A p \in Procs : at[p] # "unborn" => at[p] = "dead"
  BY <1>2, <1>3 DEF PipelineInv, WorldInv, LogInv, ExitAt
<1>5. \A p \in Procs : at[p] # "unborn" => p \in Registered
  BY <1>1, EveryBirthCaptured DEF Registered, Captured, CloneAt
<1>6. PICK n \in 0 .. Len(log) : captured = 1 .. n
  BY DEF PipelineInv, CoverInv
<1>7. ASSUME NEW i \in Emitted PROVE i \in captured
  <2>1. log[i].proc \in Procs /\ at[log[i].proc] # "unborn"
    BY ProcOf DEF PipelineInv, WorldInv, LogInv
  <2>2. PICK e \in captured : ExitAt(e, log[i].proc)
    BY <1>2, <2>1
  <2>3. i <= e
    BY <1>3, <2>2 DEF PipelineInv, WorldInv, LogInv, ExitAt
  <2> QED
    BY <1>6, <2>2, <2>3 DEF Emitted
<1> QED
  BY <1>3, <1>4, <1>5, <1>7

\* ebpf_coverage and the losses of finish_remaining_processes together are
\* right about complete coverage, for any tree of processes and any schedule,
\* as long as the root does not leave its cgroup; its descendants may.
THEOREM CompleteWhenRootStays ==
  ASSUME Root \notin Movers
  PROVE  Spec => []CompleteIsAll
<1>1. PipelineInv /\ RootInside => CompleteIsAll
  BY CoverIsAll
<1>2. Spec => []RootInside
  BY RootStays
<1> QED
  BY <1>1, <1>2, PipelineIsInvariant, PTL

=============================================================================

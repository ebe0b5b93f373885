---------------------------- MODULE NodeEnrichment ----------------------------
(***************************************************************************)
(* What the Node processes of a command tell of themselves.  A preloaded   *)
(* script (node_enrichment/preload.cjs) appends a line to an event file    *)
(* shared by all of them for each fact, an HTTP request or the name of an  *)
(* environment variable; after the collection execwake reads the file once *)
(* (node_enrichment.rs) and stores the facts in the session.               *)
(*                                                                         *)
(* Every process asks for the size of the file and appends to it in two    *)
(* steps, so what it was told may be outdated.  A process that drops a     *)
(* fact disables itself for good and appends one loss record, for which    *)
(* the last MaxEventBytes of the file are kept free.  A write may be cut   *)
(* short, which leaves a line without its end, or raise an error, and a    *)
(* process may be killed between any two steps.                            *)
(***************************************************************************)
EXTENDS Integers, Sequences, FiniteSets

CONSTANTS
    Nodes,          \* the processes that run the preloaded script
    Sizes,          \* the sizes a line that tells a fact may have
    LossSize,       \* the size of a loss record
    MaxEventBytes,  \* the longest line, and the reserve for loss records
    MaxFileBytes,   \* the size at which the reader stops
    MaxEvents,      \* facts of a process, and facts the reader takes
    MaxFacts,       \* bound: facts a process comes across
    MaxFaults       \* bound: writes that are cut short or raise an error

ASSUME SizesAssumption == Sizes \subseteq Nat \ {0}
ASSUME LimitsAssumption ==
    /\ {LossSize, MaxEventBytes, MaxFileBytes, MaxEvents} \subseteq Nat \ {0}
    /\ LossSize <= MaxEventBytes
    /\ MaxEventBytes < MaxFileBytes
ASSUME BoundsAssumption == {MaxFacts, MaxFaults} \subseteq Nat

VARIABLES
    file,      \* what was appended to the event file, in order
    node,      \* what each process is about to do
    disabled,  \* the processes that gave up
    emitted,   \* emittedEvents of each process
    told,      \* facts of each process whose emission is over (history)
    faults,    \* writes that failed
    blind,     \* loss records that left no trace, by their reason (history)
    reading,   \* whether execwake still has to read the file
    recorded,  \* where the facts stood in the file that the session holds
    lost       \* what the coverage of the category counts as lost

vars == <<file, node, disabled, emitted, told, faults, blind,
          reading, recorded, lost>>

Fact(n) == [by |-> n, nr |-> told[n] + 1]
NoFact == [by |-> "nobody", nr |-> 0]

Bytes == IF file = << >> THEN 0 ELSE file[Len(file)].end

\* A piece of the file, with where it ends: a line, or with whole = FALSE the
\* start of one.
Piece(fact, size, whole) == [fact |-> fact, end |-> Bytes + size, whole |-> whole]
LossRecord == Piece(NoFact, LossSize, TRUE)

Doing(pc, size) == [pc |-> pc, size |-> size]
Idle == Doing("idle", 0)

Init ==
    /\ file = << >>
    /\ node = [n \in Nodes |-> Doing("starting", 0)]
    /\ disabled = {}
    /\ emitted = [n \in Nodes |-> 0]
    /\ told = [n \in Nodes |-> 0]
    /\ faults = 0
    /\ blind = {}
    /\ reading = TRUE
    /\ recorded = {}
    /\ lost = 0

Reader == <<reading, recorded, lost>>

\* The script is loaded; without the file the process tells nothing.
Open(n) ==
    /\ node[n].pc = "starting"
    /\ \E pc \in {"idle", "silent"} : node' = [node EXCEPT ![n] = Doing(pc, 0)]
    /\ UNCHANGED <<file, disabled, emitted, told, faults, blind, Reader>>

\* stopWithLoss: the next step appends the loss record.
Stop(n) ==
    /\ disabled' = disabled \cup {n}
    /\ node' = [node EXCEPT ![n] = Doing("reportLoss", LossSize)]

\* emit: a fact of a process that gave up is dropped without a word.
Emit(n) ==
    /\ node[n].pc = "idle"
    /\ told[n] < MaxFacts
    /\ \E size \in Sizes :
         IF n \in disabled
         THEN /\ told' = [told EXCEPT ![n] = @ + 1]
              /\ UNCHANGED <<node, disabled>>
         ELSE /\ IF emitted[n] >= MaxEvents \/ size > MaxEventBytes
                 THEN Stop(n)
                 ELSE /\ node' = [node EXCEPT ![n] = Doing("check", size)]
                      /\ UNCHANGED disabled
              /\ UNCHANGED told
    /\ UNCHANGED <<file, emitted, faults, blind, Reader>>

\* write asks for the size of the file before it appends the line of a fact.
Check(n) ==
    /\ node[n].pc = "check"
    /\ IF Bytes + node[n].size > MaxFileBytes - MaxEventBytes
       THEN Stop(n)
       ELSE /\ node' = [node EXCEPT ![n].pc = "append"]
            /\ UNCHANGED disabled
    /\ UNCHANGED <<file, emitted, told, faults, blind, Reader>>

AppendLine(n) ==
    /\ node[n].pc = "append"
    /\ file' = Append(file, Piece(Fact(n), node[n].size, TRUE))
    /\ node' = [node EXCEPT ![n] = Idle]
    /\ emitted' = [emitted EXCEPT ![n] = @ + 1]
    /\ told' = [told EXCEPT ![n] = @ + 1]
    /\ UNCHANGED <<disabled, faults, blind, Reader>>

\* What a failed write of a piece leaves in the file: nothing, if it raised.
Remains(fact, size) ==
    {file} \cup {Append(file, Piece(fact, part, FALSE)) : part \in 1 .. size - 1}

AppendFails(n) ==
    /\ node[n].pc = "append"
    /\ faults < MaxFaults
    /\ faults' = faults + 1
    /\ file' \in Remains(Fact(n), node[n].size)
    /\ Stop(n)
    /\ UNCHANGED <<emitted, told, blind, Reader>>

\* Nothing in the file tells of a loss, nor does its size.
FilledByFacts ==
    /\ Bytes <= MaxFileBytes
    /\ \A i \in DOMAIN file : file[i].whole /\ file[i].fact # NoFact

\* The loss record may use the reserve; whatever becomes of it is ignored.
\* Room is again asked for first and used in a second step.
CheckLoss(n) ==
    /\ node[n].pc = "reportLoss"
    /\ IF Bytes + LossSize > MaxFileBytes
       THEN /\ node' = [node EXCEPT ![n] = Idle]
            /\ told' = [told EXCEPT ![n] = @ + 1]
            /\ blind' = IF FilledByFacts THEN blind \cup {"filled"} ELSE blind
       ELSE /\ node' = [node EXCEPT ![n].pc = "appendLoss"]
            /\ UNCHANGED <<told, blind>>
    /\ UNCHANGED <<file, disabled, emitted, faults, Reader>>

LossIsOver(n) ==
    /\ node' = [node EXCEPT ![n] = Idle]
    /\ told' = [told EXCEPT ![n] = @ + 1]
    /\ UNCHANGED <<disabled, emitted, Reader>>

AppendLoss(n) ==
    /\ node[n].pc = "appendLoss"
    /\ file' = Append(file, LossRecord)
    /\ LossIsOver(n)
    /\ UNCHANGED <<faults, blind>>

AppendLossFails(n) ==
    /\ node[n].pc = "appendLoss"
    /\ faults < MaxFaults
    /\ faults' = faults + 1
    /\ file' \in Remains(NoFact, LossSize)
    /\ blind' = IF file' = file THEN blind \cup {"raised"} ELSE blind
    /\ LossIsOver(n)

\* The process is killed, or ends, wherever it is.
Killed(n) ==
    /\ node[n].pc \notin {"starting", "dead"}
    /\ node' = [node EXCEPT ![n] = Doing("dead", 0)]
    /\ UNCHANGED <<file, disabled, emitted, told, faults, blind, Reader>>

-----------------------------------------------------------------------------
\* The first k of a set of positions.
FirstOf(S, k) == {i \in S : Cardinality({j \in S : j <= i}) <= k}

\* The pieces that end a line among the bytes the reader takes, and whether
\* bytes follow the last.
LineEnds == {i \in DOMAIN file : file[i].end <= MaxFileBytes /\ file[i].whole}
TornIgnored(ends) == FALSE  \* Mutant of Torn: bytes after the last line are dropped.
Torn(ends) ==
    /\ Bytes > 0
    /\ \A i \in ends : file[i].end < MaxFileBytes /\ file[i].end < Bytes

\* A line tells what its piece told, unless a torn piece precedes it.
Alone(i) == i = 1 \/ file[i - 1].whole
TellsFact(i) == Alone(i) /\ file[i].fact # NoFact

One(condition) == IF condition THEN 1 ELSE 0

\* read_records: where the facts taken stand, and the losses counted.
Capture ==
    LET segments == LineEnds
        broken == Cardinality(segments) >= MaxEvents + 2
        lines == IF broken THEN FirstOf(segments, MaxEvents + 2) ELSE segments
        records == FirstOf({i \in lines : TellsFact(i)}, MaxEvents)
    IN  [records |-> records,
         losses  |-> One(Bytes > MaxFileBytes) + One(Torn(segments)) + One(broken)
                       + Cardinality(lines) - Cardinality(records)]

\* finish: a fact the session does not take (its process is unknown or its
\* number not unique, a limit is reached, the write fails) counts as lost.
Finish ==
    /\ reading
    /\ reading' = FALSE
    /\ LET capture == Capture
       IN  /\ recorded' \in SUBSET capture.records
           /\ lost' = capture.losses + Cardinality(capture.records) - Cardinality(recorded')
    /\ UNCHANGED <<file, node, disabled, emitted, told, faults, blind>>

\* The file cannot be read.
FinishFails ==
    /\ reading
    /\ reading' = FALSE
    /\ lost' = 1
    /\ UNCHANGED <<file, node, disabled, emitted, told, faults, blind, recorded>>

Over == ~reading /\ UNCHANGED vars

Next ==
    \/ reading /\ \E n \in Nodes :
         \/ Open(n) \/ Emit(n) \/ Check(n) \/ AppendLine(n) \/ AppendFails(n)
         \/ CheckLoss(n) \/ AppendLoss(n) \/ AppendLossFails(n) \/ Killed(n)
    \/ Finish
    \/ FinishFails
    \/ Over

Spec == Init /\ [][Next]_vars

-----------------------------------------------------------------------------
\* The facts the processes came across before the file was read.
Told == UNION {{[by |-> n, nr |-> k] : k \in 1 .. told[n]} : n \in Nodes}

(***************************************************************************)
(* The session holds only facts that were told, each of them once and in   *)
(* the order of its process; and it holds every fact that was told before  *)
(* the file was read, or its coverage counts a loss: whatever the          *)
(* processes, the outdated sizes they were told, the writes that failed or *)
(* the limits of the reader do, and unless a loss record itself left no    *)
(* trace, because its write raised an error or because facts alone had     *)
(* filled the file up to its limit.                                        *)
(***************************************************************************)
LossNoticed ==
    ~reading =>
        /\ \A i \in recorded : file[i].fact \in Told
        /\ \A i, j \in recorded :
             i < j /\ file[i].fact.by = file[j].fact.by
               => file[i].fact.nr < file[j].fact.nr
        /\ Told \subseteq {file[i].fact : i \in recorded} \/ lost > 0 \/ blind # {}
=============================================================================

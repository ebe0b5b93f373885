------------------------ MODULE NodeEnrichment_proofs ------------------------
(***************************************************************************)
(* Proofs about the event file of the Node processes, for any processes,   *)
(* sizes, limits and faults: what the session does not hold of their facts *)
(* was counted as lost.                                                    *)
(***************************************************************************)
EXTENDS NodeEnrichment, FiniteSetTheorems, SequenceTheorems, WellFoundedInduction, TLAPS

-----------------------------------------------------------------------------
(* The inductive invariant. *)

Facts == {NoFact} \cup [by : Nodes, nr : Nat \ {0}]
Pcs == {"starting", "silent", "idle", "check", "append", "reportLoss", "appendLoss", "dead"}
Pieces == [fact : Facts, end : Nat \ {0}, whole : BOOLEAN]

TypesInv ==
    /\ file \in Seq(Pieces)
    /\ node \in [Nodes -> [pc : Pcs, size : Nat]]
    /\ told \in [Nodes -> Nat]
    /\ \A n \in Nodes : node[n].pc \in {"check", "append"} => node[n].size > 0

\* Each piece ends behind the one before it.
EndsInv ==
    \A i, j \in DOMAIN file : i < j => file[i].end < file[j].end

\* A line tells a fact that was told, and those of one process in their order.
FactsInv ==
    /\ \A i \in DOMAIN file : file[i].whole /\ file[i].fact # NoFact => file[i].fact \in Told
    /\ \A i, j \in DOMAIN file :
         ( /\ i < j /\ file[i].whole /\ file[j].whole
           /\ NoFact \notin {file[i].fact, file[j].fact}
           /\ file[i].fact.by = file[j].fact.by )
         => file[i].fact.nr < file[j].fact.nr

\* A loss has left a trace.
Trace == blind # {} \/ ~FilledByFacts

\* The facts the file holds as lines of their own.
Held == {file[i].fact : i \in {j \in DOMAIN file : file[j].whole}}

\* What a process has told is in the file, or its loss has left a trace.
LossInv ==
    \A n \in Nodes :
        /\ (\A k \in 1 .. told[n] : [by |-> n, nr |-> k] \in Held) \/ Trace
        /\ n \in disabled /\ node[n].pc \notin {"reportLoss", "appendLoss", "dead"} => Trace
        /\ node[n].pc \in {"check", "append"} => n \notin disabled

\* Before the file is read the session holds none of it; then it is as promised.
ReaderInv == IF reading THEN recorded = {} ELSE LossNoticed

EnrichmentInv == TypesInv /\ EndsInv /\ FactsInv /\ LossInv /\ ReaderInv
-----------------------------------------------------------------------------
(* The file grows. *)

\* The bytes of the file end with its last piece.
LEMMA BytesAre ==
    ASSUME TypesInv, EndsInv
    PROVE  /\ Len(file) \in Nat /\ DOMAIN file = 1 .. Len(file)
           /\ \A i \in DOMAIN file : file[i] \in Pieces
           /\ Bytes \in Nat
           /\ Len(file) > 0 => Bytes = file[Len(file)].end
           /\ \A i \in DOMAIN file : file[i].end <= Bytes
<1>1. Len(file) \in Nat /\ DOMAIN file = 1 .. Len(file)
    BY DEF TypesInv
<1>2. \A i \in DOMAIN file : file[i] \in Pieces
    BY <1>1, ElementOfSeq DEF TypesInv
<1>3. CASE Len(file) = 0
    BY <1>1, <1>3 DEF TypesInv, Bytes
<1>4. CASE Len(file) > 0
    <2>1. file # << >> /\ Len(file) \in DOMAIN file
        BY <1>1, <1>4
    <2>2. Bytes = file[Len(file)].end /\ Bytes \in Nat
        BY <1>2, <2>1 DEF Bytes, Pieces
    <2>3. ASSUME NEW i \in DOMAIN file PROVE file[i].end <= Bytes
        BY <1>1, <1>2, <2>1, <2>2 DEF EndsInv, Pieces
    <2> QED
        BY <1>1, <1>2, <2>2, <2>3
<1> QED
    BY <1>1, <1>3, <1>4

\* A piece is added behind the others.
LEMMA AppendPiece ==
    ASSUME TypesInv, EndsInv,
           NEW fact \in Facts, NEW size \in Nat \ {0}, NEW whole \in BOOLEAN,
           file' = Append(file, Piece(fact, size, whole))
    PROVE  /\ file' \in Seq(Pieces) /\ EndsInv'
           /\ DOMAIN file' = DOMAIN file \cup {Len(file) + 1}
           /\ Len(file) + 1 \notin DOMAIN file
           /\ \A i \in DOMAIN file : file'[i] = file[i] /\ i < Len(file) + 1
           /\ file'[Len(file) + 1].fact = fact /\ file'[Len(file) + 1].whole = whole
<1> DEFINE piece == Piece(fact, size, whole)
<1>1. /\ Len(file) \in Nat /\ DOMAIN file = 1 .. Len(file) /\ Bytes \in Nat
      /\ \A i \in DOMAIN file : file[i] \in Pieces /\ file[i].end <= Bytes
    BY BytesAre
<1>2. /\ piece \in Pieces /\ piece.fact = fact /\ piece.whole = whole
      /\ piece.end > Bytes
    BY <1>1 DEF Piece, Pieces
<1> HIDE DEF piece
<1>3. file' = Append(file, piece)
    BY DEF piece
<1>4. /\ file' \in Seq(Pieces) /\ DOMAIN file' = 1 .. Len(file) + 1
      /\ \A i \in 1 .. Len(file) : file'[i] = file[i]
      /\ file'[Len(file) + 1] = piece
    BY <1>1, <1>2, <1>3 DEF TypesInv
<1>5. EndsInv'
    <2> SUFFICES ASSUME NEW i \in DOMAIN file', NEW j \in DOMAIN file', i < j
                 PROVE  file'[i].end < file'[j].end
        BY DEF EndsInv
    <2>1. i \in DOMAIN file /\ file'[i] = file[i]
        BY <1>1, <1>4
    <2>2. CASE j \in DOMAIN file
        BY <1>1, <1>4, <2>1, <2>2 DEF EndsInv
    <2>3. CASE j \notin DOMAIN file
        <3>1. file'[j] = piece
            BY <1>1, <1>4, <2>3
        <3>2. file[i].end \in Nat /\ file[i].end <= Bytes /\ piece.end \in Nat
            BY <1>1, <1>2, <2>1 DEF Pieces
        <3> QED
            BY <1>1, <1>2, <2>1, <3>1, <3>2
    <2> QED
        BY <2>2, <2>3
<1> QED
    BY <1>1, <1>2, <1>4, <1>5

\* What has left a trace, and what the file holds, stays so.
LEMMA GrowthKeeps ==
    ASSUME TypesInv, EndsInv,
           NEW fact \in Facts, NEW size \in Nat \ {0}, NEW whole \in BOOLEAN,
           file' = Append(file, Piece(fact, size, whole)), blind \subseteq blind'
    PROVE  /\ Trace => Trace'
           /\ Held \subseteq Held'
           /\ fact \in Held' \/ Trace'
           /\ ~whole \/ fact = NoFact => Trace'
<1> DEFINE last == Len(file) + 1
<1>1. /\ file' \in Seq(Pieces) /\ EndsInv'
      /\ DOMAIN file' = DOMAIN file \cup {last}
      /\ \A i \in DOMAIN file : file'[i] = file[i]
      /\ file'[last].fact = fact /\ file'[last].whole = whole
    BY AppendPiece
<1>2. /\ Bytes \in Nat /\ Len(file) \in Nat /\ DOMAIN file = 1 .. Len(file)
      /\ \A i \in DOMAIN file : file[i] \in Pieces
    BY BytesAre
<1>3. Bytes <= Bytes'
    <2> DEFINE piece == Piece(fact, size, whole)
    <2>1. piece \in Pieces /\ piece.end >= Bytes
        BY <1>2 DEF Piece, Pieces
    <2> HIDE DEF piece
    <2>2. file' = Append(file, piece)
        BY DEF piece
    <2>t. file \in Seq(Pieces) /\ piece \in Pieces
        BY <2>1 DEF TypesInv
    <2>3. Len(file') = last /\ file' # << >> /\ file'[last] = piece
        BY <2>t, <2>2, AppendProperties
    <2>4. Bytes' = piece.end
        BY <2>3 DEF Bytes
    <2> QED
        BY <2>1, <2>4
<1>4. Bytes' \in Nat
    <2>1. Len(file') = last
        BY <1>2 DEF TypesInv, Piece
    <2>2. last \in DOMAIN file' /\ file' # << >>
        BY <1>1, <1>2, <2>1
    <2>3. file'[last] \in Pieces
        BY <1>1, <2>2, ElementOfSeq
    <2> QED
        BY <2>1, <2>2, <2>3 DEF Bytes, Pieces
<1> HIDE DEF last
<1>5. Trace => Trace'
    <2>1. CASE Bytes > MaxFileBytes
        BY <1>2, <1>3, <1>4, <2>1, LimitsAssumption DEF Trace, FilledByFacts
    <2>2. ASSUME NEW i \in DOMAIN file, ~(file[i].whole /\ file[i].fact # NoFact) PROVE Trace'
        BY <1>1, <2>2 DEF Trace, FilledByFacts
    <2>3. CASE blind # {}
        BY <2>3 DEF Trace
    <2> QED
        BY <1>2, <2>1, <2>2, <2>3, LimitsAssumption DEF Trace, FilledByFacts
<1>6. Held \subseteq Held'
    BY <1>1 DEF Held
<1>7. whole => fact \in Held'
    BY <1>1 DEF Held
<1>8. ~whole \/ fact = NoFact => Trace'
    BY <1>1 DEF Trace, FilledByFacts
<1> QED
    BY <1>5, <1>6, <1>7, <1>8

-----------------------------------------------------------------------------
(* The steps of the processes. *)

Written(fact, size, whole) == file' = Append(file, Piece(fact, size, whole))

\* A step that adds nothing to the file, or a piece.
Grows ==
    \/ file' = file
    \/ \E fact \in Facts, size \in Nat \ {0}, whole \in BOOLEAN : Written(fact, size, whole)

\* A step that adds no line with a fact to the file.
GrowsWithoutFact ==
    \/ file' = file
    \/ \E fact \in Facts, size \in Nat \ {0}, whole \in BOOLEAN :
         Written(fact, size, whole) /\ (~whole \/ fact = NoFact)

\* A step is one of process n, which may tell a fact and may give up.
StepOf(n) ==
    /\ told' \in [Nodes -> Nat]
    /\ node' \in [Nodes -> [pc : Pcs, size : Nat]]
    /\ \A m \in Nodes : told[m] <= told'[m]
    /\ \A m \in Nodes \ {n} :
         node'[m] = node[m] /\ told'[m] = told[m] /\ (m \in disabled' <=> m \in disabled)
    /\ node'[n].pc \in {"check", "append"} => node'[n].size > 0
    /\ blind \subseteq blind'

\* Only the part of the loss invariant that is about process n is at stake.
LossOf(n) ==
    /\ (\A k \in 1 .. told[n] : [by |-> n, nr |-> k] \in Held) \/ Trace
    /\ n \in disabled /\ node[n].pc \notin {"reportLoss", "appendLoss", "dead"} => Trace
    /\ node[n].pc \in {"check", "append"} => n \notin disabled

LEMMA Growth ==
    ASSUME TypesInv, EndsInv, Grows, blind \subseteq blind'
    PROVE  /\ file' \in Seq(Pieces) /\ EndsInv'
           /\ Trace => Trace'
           /\ Held \subseteq Held'
<1>1. CASE file' = file
    BY <1>1 DEF TypesInv, EndsInv, Trace, FilledByFacts, Bytes, Held
<1>2. CASE file' # file
    <2>1. PICK fact \in Facts, size \in Nat \ {0}, whole \in BOOLEAN : Written(fact, size, whole)
        BY <1>2 DEF Grows
    <2> QED
        BY <2>1, AppendPiece, GrowthKeeps DEF Written
<1> QED
    BY <1>1, <1>2

LEMMA ToldGrows ==
    ASSUME TypesInv, NEW n \in Nodes, StepOf(n)
    PROVE  Told \subseteq Told'
<1> SUFFICES ASSUME NEW fact \in Told
             PROVE  fact \in Told'
    OBVIOUS
<1>1. PICK m \in Nodes : \E k \in 1 .. told[m] : fact = [by |-> m, nr |-> k]
    BY DEF Told
<1>2. PICK k \in 1 .. told[m] : fact = [by |-> m, nr |-> k]
    BY <1>1
<1>3. k \in 1 .. told'[m]
    BY DEF TypesInv, StepOf
<1> QED
    BY <1>2, <1>3 DEF Told

LEMMA FactsStay ==
    ASSUME TypesInv, EndsInv, FactsInv, NEW n \in Nodes, StepOf(n), GrowsWithoutFact
    PROVE  FactsInv'
<1>1. Told \subseteq Told'
    BY ToldGrows
<1>2. CASE file' = file
    BY <1>1, <1>2 DEF FactsInv
<1>3. CASE file' # file
    <2>1. PICK fact \in Facts, size \in Nat \ {0}, whole \in BOOLEAN :
               Written(fact, size, whole) /\ (~whole \/ fact = NoFact)
        BY <1>3 DEF GrowsWithoutFact
    <2> DEFINE last == Len(file) + 1
    <2>2. /\ DOMAIN file' = DOMAIN file \cup {last}
          /\ \A i \in DOMAIN file : file'[i] = file[i]
          /\ file'[last].fact = fact /\ file'[last].whole = whole
        BY <2>1, AppendPiece DEF Written
    <2> HIDE DEF last
    <2>3. \A i \in DOMAIN file' : file'[i].whole /\ file'[i].fact # NoFact => i \in DOMAIN file
        BY <2>1, <2>2
    <2> QED
        BY <1>1, <2>2, <2>3 DEF FactsInv
<1> QED
    BY <1>2, <1>3

\* What a step of process n leaves to show.
LEMMA OthersStay ==
    ASSUME TypesInv, EndsInv, LossInv, NEW n \in Nodes, StepOf(n), Grows, LossOf(n)'
    PROVE  TypesInv' /\ EndsInv' /\ LossInv'
<1>1. file' \in Seq(Pieces) /\ EndsInv' /\ (Trace => Trace') /\ Held \subseteq Held'
    BY Growth DEF StepOf
<1>2. TypesInv'
    BY <1>1 DEF TypesInv, StepOf
<1>3. ASSUME NEW m \in Nodes, m # n PROVE LossOf(m)'
    <2>1. LossOf(m)
        BY DEF LossInv, LossOf
    <2>2. /\ node'[m] = node[m] /\ told'[m] = told[m]
          /\ m \in disabled' <=> m \in disabled
        BY <1>3 DEF StepOf
    <2> QED
        BY <1>1, <2>1, <2>2 DEF LossOf
<1>4. LossInv'
    BY <1>3 DEF LossInv, LossOf
<1> QED
    BY <1>1, <1>2, <1>4

\* A line that tells a fact.
LEMMA AppendLineKeeps ==
    ASSUME TypesInv, EndsInv, FactsInv, LossInv, NEW n \in Nodes, AppendLine(n)
    PROVE  TypesInv' /\ EndsInv' /\ FactsInv' /\ LossInv'
<1> DEFINE fact == Fact(n)
           size == node[n].size
<1>1. fact \in Facts /\ fact.by = n /\ fact.nr = told[n] + 1 /\ fact # NoFact
    BY DEF Fact, Facts, NoFact, TypesInv
<1>2. size \in Nat \ {0}
    BY DEF AppendLine, TypesInv
<1>3. Written(fact, size, TRUE)
    BY DEF AppendLine, Written
<1>4. StepOf(n)
    <2>1. /\ node' = [node EXCEPT ![n] = Idle] /\ Idle \in [pc : Pcs, size : Nat]
          /\ told' = [told EXCEPT ![n] = told[n] + 1]
          /\ disabled' = disabled /\ blind' = blind
        <3>1. Idle \in [pc : Pcs, size : Nat]
            BY DEF Idle, Doing, Pcs
        <3> QED
            BY <3>1 DEF AppendLine
    <2>2. Idle.pc = "idle"
        BY DEF Idle, Doing, Pcs
    <2> QED
        BY <2>1, <2>2 DEF StepOf, TypesInv
<1>5. Told' = Told \cup {fact}
    <2>1. /\ told' = [told EXCEPT ![n] = told[n] + 1] /\ told \in [Nodes -> Nat]
        BY DEF AppendLine, TypesInv
    <2>2. Told \subseteq Told'
        BY <1>4, ToldGrows
    <2>3. fact \in Told'
        <3>1. told[n] + 1 \in 1 .. told'[n]
            BY <2>1
        <3> QED
            BY <3>1 DEF Told, Fact
    <2>4. ASSUME NEW f \in Told', f # fact PROVE f \in Told
        <3>1. PICK m \in Nodes : \E k \in 1 .. told'[m] : f = [by |-> m, nr |-> k]
            BY DEF Told
        <3>2. PICK k \in 1 .. told'[m] : f = [by |-> m, nr |-> k]
            BY <3>1
        <3>3. CASE m = n
            <4>1. k # told[n] + 1
                BY <2>4, <3>2, <3>3 DEF Fact
            <4>2. k \in 1 .. told[m]
                BY <2>1, <3>3, <4>1
            <4> QED
                BY <3>2, <4>2 DEF Told
        <3>4. CASE m # n
            BY <2>1, <3>2, <3>4 DEF Told
        <3> QED
            BY <3>3, <3>4
    <2> QED
        BY <2>2, <2>3, <2>4
<1>6. FactsInv'
    <2> DEFINE last == Len(file) + 1
    <2>1. /\ DOMAIN file' = DOMAIN file \cup {last}
          /\ \A i \in DOMAIN file : file'[i] = file[i] /\ i < last
          /\ file'[last].fact = fact
          /\ DOMAIN file \subseteq Nat /\ last \in Nat
        <3>1. Len(file) \in Nat /\ DOMAIN file = 1 .. Len(file)
            BY BytesAre
        <3> HIDE DEF fact, size
        <3>2. TRUE \in BOOLEAN
            OBVIOUS
        <3>3. file' = Append(file, Piece(fact, size, TRUE))
            BY <1>3 DEF Written
        <3>4. /\ DOMAIN file' = DOMAIN file \cup {Len(file) + 1}
              /\ \A i \in DOMAIN file : file'[i] = file[i] /\ i < Len(file) + 1
              /\ file'[Len(file) + 1].fact = fact
            BY <1>1, <1>2, <3>2, <3>3, AppendPiece, Zenon
        <3> QED
            BY <3>1, <3>4
    <2> HIDE DEF last
    <2>2. ASSUME NEW i \in DOMAIN file, file[i].whole, file[i].fact # NoFact, file[i].fact.by = n
          PROVE  file[i].fact.nr < fact.nr
        <3>1. file[i].fact \in Told
            BY <2>2 DEF FactsInv
        <3>2. PICK m \in Nodes : \E k \in 1 .. told[m] : file[i].fact = [by |-> m, nr |-> k]
            BY <3>1 DEF Told
        <3>3. PICK k \in 1 .. told[m] : file[i].fact = [by |-> m, nr |-> k]
            BY <3>2
        <3> QED
            BY <1>1, <2>2, <3>3 DEF TypesInv
    <2>3. \A i \in DOMAIN file' : file'[i].whole /\ file'[i].fact # NoFact => file'[i].fact \in Told'
        BY <1>5, <2>1 DEF FactsInv
    <2>4. ASSUME NEW i \in DOMAIN file', NEW j \in DOMAIN file', i < j,
                 file'[i].whole, file'[j].whole, NoFact \notin {file'[i].fact, file'[j].fact},
                 file'[i].fact.by = file'[j].fact.by
          PROVE  file'[i].fact.nr < file'[j].fact.nr
        <3>1. i \in DOMAIN file
            BY <2>1, <2>4
        <3>2. CASE j \in DOMAIN file
            BY <2>1, <2>4, <3>1, <3>2 DEF FactsInv
        <3>3. CASE j = last
            BY <1>1, <2>1, <2>2, <2>4, <3>1, <3>3
        <3> QED
            BY <2>1, <3>2, <3>3
    <2> QED
        BY <2>3, <2>4 DEF FactsInv
<1>7. LossOf(n)'
    <2>1. (Trace => Trace') /\ (Held \subseteq Held') /\ (fact \in Held' \/ Trace')
        <3> HIDE DEF fact, size
        <3>1. blind \subseteq blind'
            BY <1>4 DEF StepOf
        <3>2. file' = Append(file, Piece(fact, size, TRUE)) /\ TRUE \in BOOLEAN
            BY <1>3 DEF Written
        <3>3. /\ Trace => Trace'
              /\ Held \subseteq Held'
              /\ fact \in Held' \/ Trace'
            BY <1>1, <1>2, <3>1, <3>2, GrowthKeeps, Zenon
        <3> QED
            BY <3>3
    <2>2. /\ node'[n].pc = "idle" /\ told'[n] = told[n] + 1 /\ told[n] \in Nat
          /\ disabled' = disabled /\ n \notin disabled
        BY DEF AppendLine, TypesInv, LossInv, Idle, Doing
    <2>3. \A k \in 1 .. told'[n] : k \in 1 .. told[n] \/ [by |-> n, nr |-> k] = fact
        BY <2>2 DEF Fact
    <2>4. (\A k \in 1 .. told[n] : [by |-> n, nr |-> k] \in Held) \/ Trace
        BY DEF LossInv
    <2>5. (\A k \in 1 .. told'[n] : [by |-> n, nr |-> k] \in Held') \/ Trace'
        <3> HIDE DEF fact
        <3>1. CASE Trace
            BY <2>1, <3>1
        <3>2. ASSUME \A k \in 1 .. told[n] : [by |-> n, nr |-> k] \in Held, NEW k \in 1 .. told'[n]
              PROVE  [by |-> n, nr |-> k] \in Held' \/ Trace'
            BY <2>1, <2>3, <3>2
        <3> QED
            BY <2>4, <3>1, <3>2
    <2> QED
        BY <2>2, <2>5 DEF LossOf
<1> QED
    <2>1. Grows
        BY <1>1, <1>2, <1>3 DEF Grows
    <2> QED
        BY <1>4, <1>6, <1>7, <2>1, OthersStay

\* A step that tells the file no fact.
LEMMA StepKeeps ==
    ASSUME TypesInv, EndsInv, FactsInv, LossInv, NEW n \in Nodes,
           StepOf(n), GrowsWithoutFact, LossOf(n)'
    PROVE  TypesInv' /\ EndsInv' /\ FactsInv' /\ LossInv'
<1>1. Grows
    BY DEF Grows, GrowsWithoutFact
<1> QED
    BY <1>1, FactsStay, OthersStay

\* What a write that is cut short leaves.
LEMMA RemainsAre ==
    ASSUME NEW fact \in Facts, NEW size \in Nat, file' \in Remains(fact, size)
    PROVE  \/ file' = file
           \/ \E part \in Nat \ {0} : Written(fact, part, FALSE)
<1> SUFFICES ASSUME file' # file
             PROVE  \E part \in Nat \ {0} : Written(fact, part, FALSE)
    OBVIOUS
<1>1. PICK part \in 1 .. size - 1 : file' = Append(file, Piece(fact, part, FALSE))
    BY DEF Remains
<1>2. part \in Nat \ {0}
    OBVIOUS
<1> QED
    BY <1>1, <1>2 DEF Written

\* A write that failed leaves no trace only when the file stays as it is.
LEMMA FailureKeeps ==
    ASSUME TypesInv, EndsInv, NEW n \in Nodes, StepOf(n),
           NEW fact \in Facts, NEW size \in Nat, file' \in Remains(fact, size)
    PROVE  /\ GrowsWithoutFact
           /\ Trace => Trace'
           /\ Held \subseteq Held'
           /\ file' = file \/ Trace'
<1>1. CASE file' = file
    BY <1>1, Growth DEF GrowsWithoutFact, StepOf, Grows
<1>2. CASE file' # file
    <2>1. PICK part \in Nat \ {0} : Written(fact, part, FALSE)
        BY <1>2, RemainsAre
    <2>2. FALSE \in BOOLEAN /\ file' = Append(file, Piece(fact, part, FALSE))
        BY <2>1 DEF Written
    <2>3. blind \subseteq blind'
        BY DEF StepOf
    <2>4. (Trace => Trace') /\ Held \subseteq Held' /\ Trace'
        <3>1. ~FALSE \/ fact = NoFact => Trace'
            BY <2>2, <2>3, GrowthKeeps, Zenon
        <3>2. (Trace => Trace') /\ Held \subseteq Held'
            BY <2>2, <2>3, GrowthKeeps, Zenon
        <3> QED
            BY <3>1, <3>2
    <2>5. GrowsWithoutFact
        BY <2>1, <2>2 DEF GrowsWithoutFact
    <2> QED
        BY <2>4, <2>5
<1> QED
    BY <1>1, <1>2

\* The steps that leave the file alone.
LEMMA QuietStep ==
    ASSUME TypesInv, EndsInv, NEW n \in Nodes, StepOf(n), file' = file
    PROVE  GrowsWithoutFact /\ (Trace => Trace') /\ Held \subseteq Held'
<1>1. GrowsWithoutFact
    BY DEF GrowsWithoutFact
<1> QED
    BY <1>1, Growth DEF Grows, StepOf

\* One process steps: its record changes, and its facts may grow by one.
LEMMA StepShape ==
    ASSUME TypesInv, NEW n \in Nodes, NEW pc \in Pcs, NEW size \in Nat,
           node' = [node EXCEPT ![n] = Doing(pc, size)],
           pc \in {"check", "append"} => size > 0,
           told' \in {told, [told EXCEPT ![n] = told[n] + 1]},
           disabled' \in {disabled, disabled \cup {n}},
           blind \subseteq blind'
    PROVE  StepOf(n) /\ node'[n].pc = pc
<1> DEFINE doing == Doing(pc, size)
<1>1. doing \in [pc : Pcs, size : Nat] /\ doing.pc = pc /\ doing.size = size
    BY DEF Doing
<1> HIDE DEF doing
<1>2. node' = [node EXCEPT ![n] = doing]
    BY DEF doing
<1>3. /\ told' \in [Nodes -> Nat] /\ \A m \in Nodes : told[m] <= told'[m]
      /\ \A m \in Nodes \ {n} : told'[m] = told[m]
    <2>1. CASE told' = told
        BY <2>1 DEF TypesInv
    <2>2. CASE told' = [told EXCEPT ![n] = told[n] + 1]
        BY <2>2 DEF TypesInv
    <2> QED
        BY <2>1, <2>2
<1>4. /\ node' \in [Nodes -> [pc : Pcs, size : Nat]] /\ node'[n] = doing
      /\ \A m \in Nodes \ {n} : node'[m] = node[m]
    BY <1>1, <1>2 DEF TypesInv
<1>5. \A m \in Nodes \ {n} : m \in disabled' <=> m \in disabled
    OBVIOUS
<1> QED
    BY <1>1, <1>3, <1>4, <1>5 DEF StepOf

LEMMA OpenKeeps ==
    ASSUME TypesInv, EndsInv, FactsInv, LossInv, NEW n \in Nodes, Open(n)
    PROVE  TypesInv' /\ EndsInv' /\ FactsInv' /\ LossInv'
<1>1. PICK pc \in {"idle", "silent"} : node' = [node EXCEPT ![n] = Doing(pc, 0)]
    BY DEF Open
<1>2. node[n].pc = "starting" /\ UNCHANGED <<file, disabled, told, blind>>
    BY DEF Open
<1>3. StepOf(n) /\ node'[n].pc = pc
    BY <1>1, <1>2, StepShape DEF Pcs
<1>4. GrowsWithoutFact /\ (Trace => Trace') /\ Held \subseteq Held'
    BY <1>2, <1>3, QuietStep
<1>5. LossOf(n)'
    BY <1>2, <1>3, <1>4 DEF LossInv, LossOf
<1> QED
    BY <1>3, <1>4, <1>5, StepKeeps

LEMMA KilledKeeps ==
    ASSUME TypesInv, EndsInv, FactsInv, LossInv, NEW n \in Nodes, Killed(n)
    PROVE  TypesInv' /\ EndsInv' /\ FactsInv' /\ LossInv'
<1>1. /\ node' = [node EXCEPT ![n] = Doing("dead", 0)]
      /\ UNCHANGED <<file, disabled, told, blind>>
    BY DEF Killed
<1>2. StepOf(n) /\ node'[n].pc = "dead"
    BY <1>1, StepShape DEF Pcs
<1>3. GrowsWithoutFact /\ (Trace => Trace') /\ Held \subseteq Held'
    BY <1>1, <1>2, QuietStep
<1>4. LossOf(n)'
    BY <1>1, <1>2, <1>3 DEF LossInv, LossOf
<1> QED
    BY <1>2, <1>3, <1>4, StepKeeps

LEMMA EmitKeeps ==
    ASSUME TypesInv, EndsInv, FactsInv, LossInv, NEW n \in Nodes, Emit(n)
    PROVE  TypesInv' /\ EndsInv' /\ FactsInv' /\ LossInv'
<1>1. /\ node[n].pc = "idle" /\ file' = file /\ blind' = blind
    BY DEF Emit
<1>2. PICK size \in Sizes :
        IF n \in disabled
        THEN told' = [told EXCEPT ![n] = @ + 1] /\ UNCHANGED <<node, disabled>>
        ELSE /\ IF emitted[n] >= MaxEvents \/ size > MaxEventBytes
                THEN Stop(n)
                ELSE node' = [node EXCEPT ![n] = Doing("check", size)] /\ UNCHANGED disabled
             /\ UNCHANGED told
    BY DEF Emit
<1>3. size \in Nat \ {0}
    BY SizesAssumption
<1>4. CASE n \in disabled
    <2>1. StepOf(n) /\ node'[n].pc = "idle"
        <3>1. /\ told' = [told EXCEPT ![n] = told[n] + 1]
              /\ node' = node /\ disabled' = disabled
            BY <1>2, <1>4
        <3>2. told' \in [Nodes -> Nat] /\ \A m \in Nodes : told[m] <= told'[m]
            BY <3>1 DEF TypesInv
        <3>3. \A m \in Nodes \ {n} : told'[m] = told[m]
            BY <3>1 DEF TypesInv
        <3> QED
            BY <1>1, <3>1, <3>2, <3>3 DEF StepOf, TypesInv
    <2>2. GrowsWithoutFact /\ (Trace => Trace')
        BY <1>1, <2>1, QuietStep
    <2>3. Trace
        BY <1>1, <1>4 DEF LossInv
    <2>4. LossOf(n)'
        BY <2>1, <2>2, <2>3 DEF LossOf
    <2> QED
        BY <2>1, <2>2, <2>4, StepKeeps
<1>5. CASE n \notin disabled
    <2>1. told' = told
        BY <1>2, <1>5
    <2>2. /\ StepOf(n)
          /\ \/ node'[n].pc = "reportLoss"
             \/ node'[n].pc = "check" /\ n \notin disabled'
        <3>1. CASE Stop(n)
            <4>1. LossSize \in Nat
                BY LimitsAssumption
            <4> QED
                BY <1>1, <2>1, <3>1, <4>1, StepShape DEF Stop, Pcs
        <3>2. CASE node' = [node EXCEPT ![n] = Doing("check", size)] /\ UNCHANGED disabled
            <4>1. "check" \in Pcs /\ size \in Nat /\ size > 0
                BY <1>3 DEF Pcs
            <4>2. StepOf(n) /\ node'[n].pc = "check"
                BY <1>1, <2>1, <3>2, <4>1, StepShape
            <4> QED
                BY <1>5, <3>2, <4>2
        <3> QED
            BY <1>2, <1>5, <3>1, <3>2
    <2>3. GrowsWithoutFact /\ (Trace => Trace') /\ Held \subseteq Held'
        BY <1>1, <2>2, QuietStep
    <2>4. LossOf(n)'
        BY <2>1, <2>2, <2>3 DEF LossInv, LossOf
    <2> QED
        BY <2>2, <2>3, <2>4, StepKeeps
<1> QED
    BY <1>4, <1>5

\* Only the counter of node n changes.
LEMMA PcOnly ==
    ASSUME TypesInv, NEW n \in Nodes, NEW pc, node' = [node EXCEPT ![n].pc = pc]
    PROVE  node' = [node EXCEPT ![n] = Doing(pc, node[n].size)] /\ node[n].size \in Nat
<1>1. node[n] \in [pc : Pcs, size : Nat]
    BY DEF TypesInv
<1>2. [node[n] EXCEPT !.pc = pc] = Doing(pc, node[n].size)
    BY <1>1 DEF Doing
<1> QED
    BY <1>1, <1>2

LEMMA CheckKeeps ==
    ASSUME TypesInv, EndsInv, FactsInv, LossInv, NEW n \in Nodes, Check(n)
    PROVE  TypesInv' /\ EndsInv' /\ FactsInv' /\ LossInv'
<1>1. node[n].pc = "check" /\ UNCHANGED <<file, told, blind>>
    BY DEF Check
<1>2. n \notin disabled /\ node[n].size > 0
    BY <1>1 DEF LossInv, TypesInv
<1>3. /\ StepOf(n)
      /\ \/ node'[n].pc = "reportLoss"
         \/ node'[n].pc = "append" /\ n \notin disabled'
    <2>1. CASE Stop(n)
        <3>1. LossSize \in Nat
            BY LimitsAssumption
        <3> QED
            BY <1>1, <2>1, <3>1, StepShape DEF Stop, Pcs
    <2>2. CASE node' = [node EXCEPT ![n].pc = "append"] /\ UNCHANGED disabled
        <3>1. node' = [node EXCEPT ![n] = Doing("append", node[n].size)] /\ node[n].size \in Nat
            BY <2>2, PcOnly
        <3> QED
            BY <1>1, <1>2, <2>2, <3>1, StepShape DEF Pcs
    <2> QED
        BY <2>1, <2>2 DEF Check
<1>4. GrowsWithoutFact /\ (Trace => Trace') /\ Held \subseteq Held'
    BY <1>1, <1>3, QuietStep
<1>5. LossOf(n)'
    BY <1>1, <1>3, <1>4 DEF LossInv, LossOf
<1> QED
    BY <1>3, <1>4, <1>5, StepKeeps

LEMMA AppendFailsKeeps ==
    ASSUME TypesInv, EndsInv, FactsInv, LossInv, NEW n \in Nodes, AppendFails(n)
    PROVE  TypesInv' /\ EndsInv' /\ FactsInv' /\ LossInv'
<1>1. Stop(n) /\ UNCHANGED <<told, blind>> /\ file' \in Remains(Fact(n), node[n].size)
    BY DEF AppendFails
<1>2. StepOf(n) /\ node'[n].pc = "reportLoss"
    <2>1. LossSize \in Nat
        BY LimitsAssumption
    <2> QED
        BY <1>1, <2>1, StepShape DEF Stop, Pcs
<1>3. Fact(n) \in Facts /\ node[n].size \in Nat
    BY DEF Fact, Facts, TypesInv
<1>4. GrowsWithoutFact /\ (Trace => Trace') /\ Held \subseteq Held'
    BY <1>1, <1>2, <1>3, FailureKeeps
<1>5. LossOf(n)'
    BY <1>1, <1>2, <1>4 DEF LossInv, LossOf
<1> QED
    BY <1>2, <1>4, <1>5, StepKeeps

LEMMA CheckLossKeeps ==
    ASSUME TypesInv, EndsInv, FactsInv, LossInv, NEW n \in Nodes, CheckLoss(n)
    PROVE  TypesInv' /\ EndsInv' /\ FactsInv' /\ LossInv'
<1>1. node[n].pc = "reportLoss" /\ file' = file /\ disabled' = disabled
    BY DEF CheckLoss
<1>2. CASE Bytes + LossSize > MaxFileBytes
    <2>1. /\ node' = [node EXCEPT ![n] = Idle]
          /\ told' = [told EXCEPT ![n] = told[n] + 1]
          /\ blind' = IF FilledByFacts THEN blind \cup {"filled"} ELSE blind
        BY <1>2 DEF CheckLoss
    <2>2. StepOf(n) /\ node'[n].pc = "idle"
        BY <1>1, <2>1, StepShape DEF Idle, Pcs
    <2>3. GrowsWithoutFact
        BY <1>1, <2>2, QuietStep
    <2>4. Trace'
        BY <1>1, <2>1 DEF Trace, FilledByFacts, Bytes
    <2> QED
        BY <2>2, <2>3, <2>4, StepKeeps DEF LossOf
<1>3. CASE ~(Bytes + LossSize > MaxFileBytes)
    <2>1. node' = [node EXCEPT ![n].pc = "appendLoss"] /\ UNCHANGED <<told, blind>>
        BY <1>3 DEF CheckLoss
    <2>2. node' = [node EXCEPT ![n] = Doing("appendLoss", node[n].size)] /\ node[n].size \in Nat
        BY <2>1, PcOnly
    <2>3. StepOf(n) /\ node'[n].pc = "appendLoss"
        BY <1>1, <2>1, <2>2, StepShape DEF Pcs
    <2>4. GrowsWithoutFact /\ (Trace => Trace') /\ Held \subseteq Held'
        BY <1>1, <2>3, QuietStep
    <2>5. LossOf(n)'
        BY <2>1, <2>3, <2>4 DEF LossInv, LossOf
    <2> QED
        BY <2>3, <2>4, <2>5, StepKeeps
<1> QED
    BY <1>2, <1>3

LEMMA AppendLossKeeps ==
    ASSUME TypesInv, EndsInv, FactsInv, LossInv, NEW n \in Nodes, AppendLoss(n)
    PROVE  TypesInv' /\ EndsInv' /\ FactsInv' /\ LossInv'
<1>1. /\ node' = [node EXCEPT ![n] = Idle]
      /\ told' = [told EXCEPT ![n] = told[n] + 1]
      /\ UNCHANGED <<disabled, blind>>
      /\ file' = Append(file, Piece(NoFact, LossSize, TRUE))
    BY DEF AppendLoss, LossIsOver, LossRecord
<1>2. StepOf(n) /\ node'[n].pc = "idle"
    BY <1>1, StepShape DEF Idle, Pcs
<1>3. NoFact \in Facts /\ LossSize \in Nat \ {0} /\ TRUE \in BOOLEAN
    BY LimitsAssumption DEF Facts
<1>4. Trace'
    <2>1. blind \subseteq blind'
        BY <1>1
    <2>2. ~TRUE \/ NoFact = NoFact => Trace'
        BY <1>1, <1>3, <2>1, GrowthKeeps, Zenon
    <2> QED
        BY <2>2
<1>5. GrowsWithoutFact
    BY <1>1, <1>3 DEF GrowsWithoutFact, Written
<1>6. LossOf(n)'
    BY <1>2, <1>4 DEF LossOf
<1> QED
    BY <1>2, <1>5, <1>6, StepKeeps

LEMMA AppendLossFailsKeeps ==
    ASSUME TypesInv, EndsInv, FactsInv, LossInv, NEW n \in Nodes, AppendLossFails(n)
    PROVE  TypesInv' /\ EndsInv' /\ FactsInv' /\ LossInv'
<1>1. /\ node' = [node EXCEPT ![n] = Idle]
      /\ told' = [told EXCEPT ![n] = told[n] + 1]
      /\ disabled' = disabled
      /\ file' \in Remains(NoFact, LossSize)
      /\ blind' = IF file' = file THEN blind \cup {"raised"} ELSE blind
    BY DEF AppendLossFails, LossIsOver
<1>2. StepOf(n) /\ node'[n].pc = "idle"
    BY <1>1, StepShape DEF Idle, Pcs
<1>3. NoFact \in Facts /\ LossSize \in Nat
    BY LimitsAssumption DEF Facts
<1>4. GrowsWithoutFact /\ (file' = file \/ Trace')
    BY <1>1, <1>2, <1>3, FailureKeeps
<1>5. Trace'
    BY <1>1, <1>4 DEF Trace
<1>6. LossOf(n)'
    BY <1>2, <1>5 DEF LossOf
<1> QED
    BY <1>2, <1>4, <1>6, StepKeeps

-----------------------------------------------------------------------------
(* The reader. *)

Whole == {i \in DOMAIN file : file[i].whole}

\* The parts of a capture, each within the one before it.
CaptureOf(lines, records) ==
    /\ records \subseteq {i \in lines : TellsFact(i)}
    /\ lines \subseteq LineEnds
    /\ Capture.records = records
    /\ Capture.losses = One(Bytes > MaxFileBytes) + One(Torn(LineEnds))
                          + One(Cardinality(LineEnds) >= MaxEvents + 2)
                          + Cardinality(lines) - Cardinality(records)
    /\ Cardinality(LineEnds) < MaxEvents + 2 => lines = LineEnds

LEMMA CaptureIs ==
    ASSUME TypesInv, EndsInv
    PROVE  \E lines, records : CaptureOf(lines, records)
<1> DEFINE segments == LineEnds
           broken == Cardinality(segments) >= MaxEvents + 2
           lines == IF broken THEN FirstOf(segments, MaxEvents + 2) ELSE segments
           records == FirstOf({i \in lines : TellsFact(i)}, MaxEvents)
<1>1. lines \subseteq segments /\ records \subseteq {i \in lines : TellsFact(i)}
    BY DEF FirstOf
<1>2. Capture.records = records
    BY DEF Capture
<1>3. Capture.losses = One(Bytes > MaxFileBytes) + One(Torn(segments)) + One(broken)
                         + Cardinality(lines) - Cardinality(records)
    BY DEF Capture
<1>4. Cardinality(LineEnds) < MaxEvents + 2 => lines = LineEnds
    <2>1. IsFiniteSet(DOMAIN file)
        BY BytesAre, FS_Interval
    <2>2. Cardinality(LineEnds) \in Nat
        BY <2>1, FS_Subset, FS_CardinalityType DEF LineEnds
    <2> QED
        BY <2>2, LimitsAssumption
<1> HIDE DEF lines, records
<1> QED
    BY <1>1, <1>2, <1>3, <1>4 DEF CaptureOf

LEMMA Counts ==
    ASSUME TypesInv, EndsInv, NEW S \in SUBSET DOMAIN file
    PROVE  /\ IsFiniteSet(S) /\ Cardinality(S) \in Nat
           /\ \A T \in SUBSET S :
                /\ Cardinality(T) \in Nat /\ Cardinality(T) <= Cardinality(S)
                /\ Cardinality(S) = Cardinality(T) => S = T
<1>1. IsFiniteSet(DOMAIN file)
    BY BytesAre, FS_Interval
<1>2. IsFiniteSet(S)
    BY <1>1, FS_Subset
<1> QED
    BY <1>2, FS_Subset, FS_CardinalityType

LEMMA LeastMember ==
    ASSUME NEW T \in SUBSET Nat, T # {}
    PROVE  \E x \in T : \A y \in T : x <= y
<1>1. PICK x \in T : \A y \in T : ~(<<y, x>> \in OpToRel(<, Nat))
    BY NatLessThanWellFounded, WFMin, Zenon
<1>2. \A y \in T : ~(y < x)
    BY <1>1 DEF OpToRel
<1> QED
    BY <1>2

\* Where every line stands alone and the last piece ends one, no piece is torn.
LEMMA NoneTorn ==
    ASSUME TypesInv, EndsInv, Len(file) > 0, Len(file) \in Whole,
           \A i \in Whole : Alone(i)
    PROVE  Whole = DOMAIN file
<1>1. Len(file) \in Nat /\ DOMAIN file = 1 .. Len(file)
    BY BytesAre
<1> DEFINE back == {k \in Nat : Len(file) - k \in DOMAIN file \ Whole}
<1>2. back = {}
    <2> SUFFICES ASSUME back # {} PROVE FALSE
        OBVIOUS
    <2>1. PICK k \in back : \A j \in back : k <= j
        BY LeastMember
    <2> DEFINE i == Len(file) - k
    <2>2. k \in Nat /\ i \in DOMAIN file /\ i \notin Whole /\ k # 0
        BY <1>1
    <2>3. i + 1 \in DOMAIN file
        BY <1>1, <2>2
    <2>4. k - 1 \notin back
        BY <2>1, <2>2
    <2>5. i + 1 \in Whole
        <3>1. Len(file) - (k - 1) = i + 1 /\ k - 1 \in Nat
            BY <1>1, <2>2
        <3> QED
            BY <2>3, <2>4, <3>1
    <2>6. file[i].whole
        <3>1. i \in Nat /\ i + 1 # 1 /\ (i + 1) - 1 = i
            BY <1>1, <2>2
        <3> HIDE DEF i
        <3> QED
            BY <2>5, <3>1 DEF Alone
    <2> QED
        BY <2>2, <2>6 DEF Whole
<1>3. ASSUME NEW i \in DOMAIN file PROVE i \in Whole
    <2>1. Len(file) - i \in Nat /\ Len(file) - (Len(file) - i) = i
        BY <1>1
    <2>2. Len(file) - i \notin back
        BY <1>2
    <2> QED
        BY <2>1, <2>2
<1> QED
    BY <1>3 DEF Whole

\* Nothing was counted as lost: the session takes the whole file, all facts.
LEMMA NothingLost ==
    ASSUME TypesInv, EndsInv, NEW taken \in SUBSET Capture.records,
           ~(Capture.losses + Cardinality(Capture.records) - Cardinality(taken) > 0)
    PROVE  FilledByFacts /\ taken = Whole
<1>1. PICK lines, records : CaptureOf(lines, records)
    BY CaptureIs
<1> DEFINE full == One(Bytes > MaxFileBytes)
           torn == One(Torn(LineEnds))
           broken == One(Cardinality(LineEnds) >= MaxEvents + 2)
<1>2. /\ lines \subseteq DOMAIN file /\ records \subseteq lines /\ taken \subseteq records
    BY <1>1 DEF CaptureOf, LineEnds
<1>3. /\ Cardinality(lines) \in Nat /\ Cardinality(records) \in Nat /\ Cardinality(taken) \in Nat
      /\ Cardinality(taken) <= Cardinality(records)
      /\ Cardinality(records) <= Cardinality(lines)
      /\ Cardinality(lines) = Cardinality(records) => lines = records
      /\ Cardinality(records) = Cardinality(taken) => records = taken
    <2>1. records \in SUBSET DOMAIN file /\ lines \in SUBSET DOMAIN file
        BY <1>2
    <2> QED
        BY <1>2, <2>1, Counts
<1>4. full \in {0, 1} /\ torn \in {0, 1} /\ broken \in {0, 1}
    BY DEF One
<1>5. ~(full + torn + broken + Cardinality(lines) - Cardinality(records)
          + Cardinality(records) - Cardinality(taken) > 0)
    BY <1>1 DEF CaptureOf
<1>6. full = 0 /\ torn = 0 /\ broken = 0 /\ lines = taken /\ records = taken
    <2> HIDE DEF full, torn, broken
    <2>1. \A a, b, c \in {0, 1}, l, r, t \in Nat :
             t <= r /\ r <= l /\ ~(a + b + c + l - r + r - t > 0)
               => a = 0 /\ b = 0 /\ c = 0 /\ l = r /\ r = t
        OBVIOUS
    <2> QED
        BY <1>3, <1>4, <1>5, <2>1
<1>7. /\ Len(file) \in Nat /\ DOMAIN file = 1 .. Len(file) /\ Bytes \in Nat
      /\ \A i \in DOMAIN file : file[i] \in Pieces /\ file[i].end <= Bytes
      /\ Len(file) > 0 => Bytes = file[Len(file)].end
    BY BytesAre
<1>8. Bytes <= MaxFileBytes /\ ~Torn(LineEnds)
    BY <1>6, <1>7, LimitsAssumption DEF One
<1>9. LineEnds = Whole
    BY <1>7, <1>8, LimitsAssumption DEF LineEnds, Whole, Pieces
<1>10. taken = Whole
    <2>1. Cardinality(LineEnds) < MaxEvents + 2
        <3>1. Cardinality(LineEnds) \in Nat
            BY Counts DEF LineEnds
        <3> QED
            BY <1>6, <3>1, LimitsAssumption DEF One
    <2> QED
        BY <1>1, <1>6, <1>9, <2>1 DEF CaptureOf
<1>11. \A i \in Whole : Alone(i) /\ file[i].fact # NoFact
    BY <1>1, <1>6, <1>10 DEF CaptureOf, TellsFact
<1>12. CASE Len(file) = 0
    BY <1>7, <1>8, <1>10, <1>12 DEF FilledByFacts
<1>13. CASE Len(file) > 0
    <2>1. Bytes > 0
        BY <1>7, <1>13 DEF Pieces
    <2>2. PICK i \in Whole : ~(file[i].end < MaxFileBytes /\ file[i].end < Bytes)
        BY <1>8, <1>9, <2>1 DEF Torn
    <2>3. i \in DOMAIN file /\ file[i].end \in Nat
        BY <1>7, <2>2 DEF Whole, Pieces
    <2>4. file[i].end = Bytes
        BY <1>7, <1>8, <2>2, <2>3, LimitsAssumption
    <2>5. i = Len(file)
        BY <1>7, <1>13, <2>3, <2>4 DEF EndsInv
    <2>6. Whole = DOMAIN file
        BY <1>11, <1>13, <2>2, <2>5, NoneTorn
    <2> QED
        BY <1>8, <1>10, <1>11, <2>6 DEF FilledByFacts, Whole
<1> QED
    BY <1>7, <1>12, <1>13

\* What the session takes of the file was told, in the order of its processes.
LEMMA TakenWasTold ==
    ASSUME TypesInv, EndsInv, FactsInv, NEW taken \in SUBSET Capture.records
    PROVE  /\ \A i \in taken : file[i].fact \in Told
           /\ \A i, j \in taken :
                i < j /\ file[i].fact.by = file[j].fact.by
                  => file[i].fact.nr < file[j].fact.nr
<1>1. PICK lines, records : CaptureOf(lines, records)
    BY CaptureIs
<1>2. \A i \in taken : i \in DOMAIN file /\ file[i].whole /\ file[i].fact # NoFact
    BY <1>1 DEF CaptureOf, LineEnds, TellsFact
<1> QED
    BY <1>2 DEF FactsInv

LEMMA FinishKeeps ==
    ASSUME EnrichmentInv, Finish
    PROVE  LossNoticed'
<1> USE DEF EnrichmentInv
<1>1. /\ UNCHANGED <<file, told, blind>> /\ recorded' \subseteq Capture.records
      /\ lost' = Capture.losses + Cardinality(Capture.records) - Cardinality(recorded')
    BY DEF Finish
<1>2. /\ \A i \in recorded' : file[i].fact \in Told
      /\ \A i, j \in recorded' :
           i < j /\ file[i].fact.by = file[j].fact.by
             => file[i].fact.nr < file[j].fact.nr
    BY <1>1, TakenWasTold
<1>3. ASSUME ~(lost' > 0), blind = {}
      PROVE  Told \subseteq {file[i].fact : i \in recorded'}
    <2>1. FilledByFacts /\ recorded' = Whole
        BY <1>1, <1>3, NothingLost
    <2>2. ~Trace
        BY <1>3, <2>1 DEF Trace
    <2>3. ASSUME NEW fact \in Told PROVE fact \in Held
        <3>1. PICK n \in Nodes : \E k \in 1 .. told[n] : fact = [by |-> n, nr |-> k]
            BY DEF Told
        <3> QED
            BY <2>2, <3>1 DEF LossInv
    <2> QED
        BY <2>1, <2>3 DEF Held, Whole
<1>4. Told' = Told
    BY <1>1 DEF Told
<1> QED
    BY <1>1, <1>2, <1>3, <1>4 DEF LossNoticed

LEMMA InitEnrichment == Init => EnrichmentInv
<1> SUFFICES ASSUME Init PROVE EnrichmentInv
    OBVIOUS
<1>1. TypesInv
    BY DEF Init, TypesInv, Doing, Pcs
<1>2. EndsInv /\ FactsInv
    BY DEF Init, EndsInv, FactsInv
<1>3. LossInv
    BY DEF Init, LossInv, Doing
<1> QED
    BY <1>1, <1>2, <1>3 DEF Init, EnrichmentInv, ReaderInv

LEMMA NextEnrichment == EnrichmentInv /\ [Next]_vars => EnrichmentInv'
<1> SUFFICES ASSUME EnrichmentInv, [Next]_vars PROVE EnrichmentInv'
    OBVIOUS
<1> USE DEF EnrichmentInv
<1>1. ASSUME reading, NEW n \in Nodes,
             \/ Open(n) \/ Emit(n) \/ Check(n) \/ AppendLine(n) \/ AppendFails(n)
             \/ CheckLoss(n) \/ AppendLoss(n) \/ AppendLossFails(n) \/ Killed(n)
      PROVE  EnrichmentInv'
    <2>1. reading' = reading /\ recorded' = recorded
        BY <1>1 DEF Open, Emit, Check, AppendLine, AppendFails, CheckLoss, AppendLoss,
                    AppendLossFails, LossIsOver, Killed, Reader
    <2>2. TypesInv' /\ EndsInv' /\ FactsInv' /\ LossInv'
        BY <1>1, OpenKeeps, EmitKeeps, CheckKeeps, AppendLineKeeps, AppendFailsKeeps,
           CheckLossKeeps, AppendLossKeeps, AppendLossFailsKeeps, KilledKeeps
    <2> QED
        BY <1>1, <2>1, <2>2 DEF ReaderInv
<1>2. ASSUME UNCHANGED <<file, node, disabled, told, blind>>
      PROVE  TypesInv' /\ EndsInv' /\ FactsInv' /\ LossInv'
    <2>1. TypesInv'
        BY <1>2 DEF TypesInv
    <2>2. EndsInv' /\ FactsInv'
        BY <1>2 DEF EndsInv, FactsInv, Told
    <2>3. LossInv'
        BY <1>2 DEF LossInv, Held, Trace, FilledByFacts, Bytes
    <2> QED
        BY <2>1, <2>2, <2>3
<1>3. CASE Finish
    BY <1>2, <1>3, FinishKeeps DEF Finish, ReaderInv
<1>4. CASE FinishFails
    <2>1. lost' > 0 /\ UNCHANGED <<file, node, disabled, told, blind, recorded>>
        BY <1>4 DEF FinishFails
    <2>2. reading /\ Told' = Told
        BY <1>4, <2>1 DEF FinishFails, Told
    <2> QED
        BY <1>2, <1>4, <2>1, <2>2 DEF FinishFails, ReaderInv, LossNoticed
<1>5. CASE UNCHANGED vars
    BY <1>2, <1>5 DEF vars, Reader, ReaderInv, LossNoticed, Told
<1> QED
    BY <1>1, <1>3, <1>4, <1>5 DEF Next, Over

\* The invariant holds in every state of every run of the processes.
THEOREM EnrichmentInvariant == Spec => []EnrichmentInv
BY InitEnrichment, NextEnrichment, PTL DEF Spec

\* Whatever the processes, the sizes of their lines, the limits and the writes
\* that fail: once the file was read, the session holds facts that were told,
\* in their order, and all of them unless its coverage counts a loss or a loss
\* record left no trace.
THEOREM LossesNoticed == Spec => []LossNoticed
<1>1. EnrichmentInv => LossNoticed
    BY DEF EnrichmentInv, ReaderInv, LossNoticed
<1> QED
    BY <1>1, EnrichmentInvariant, PTL
=============================================================================

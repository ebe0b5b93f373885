------------------------ MODULE SessionCapture_proofs ------------------------
(***************************************************************************)
(* Proofs about SessionCapture for every set of categories and processes   *)
(* and every value of the limits.                                          *)
(***************************************************************************)
EXTENDS SessionCapture, FiniteSetTheorems, TLAPS

-----------------------------------------------------------------------------
(* The operators on counters and rows. *)

\* Zero counts nothing.
LEMMA ZeroType == Zero \in Counts /\ \A c \in Categories : Zero[c] = 0
  BY DEF Zero, Counts

\* AddTo changes one counter, upwards.
LEMMA AddToType ==
  ASSUME NEW f \in Counts, NEW c \in Categories, NEW n \in Nat
  PROVE  /\ AddTo(f, c, n) \in Counts
         /\ \A d \in Categories : AddTo(f, c, n)[d] = IF d = c THEN f[d] + n ELSE f[d]
  BY DEF AddTo, Counts

\* Plus adds pointwise.
LEMMA PlusType ==
  ASSUME NEW f \in Counts, NEW g \in Counts
  PROVE  /\ Plus(f, g) \in Counts
         /\ \A d \in Categories : Plus(f, g)[d] = f[d] + g[d]
  BY DEF Plus, Counts

\* The empty batch holds no row and no loss.
LEMMA NoBatchType ==
  /\ NoRows \in Rows
  /\ NoBatch \in Batches
  /\ ~NoBatch.open
  /\ \A c \in Categories : NoBatch.data.rows[c] = 0 /\ NoBatch.losses[c] = 0
  BY ZeroType DEF NoRows, Rows, NoBatch, Batches

\* Merging rows adds their counters.
LEMMA MergedType ==
  ASSUME NEW a \in Rows, NEW b \in Rows
  PROVE  /\ Merged(a, b) \in Rows
         /\ \A d \in Categories : Merged(a, b).rows[d] = a.rows[d] + b.rows[d]
  BY PlusType DEF Merged, Rows

\* The rows of one fact.
LEMMA RowOfType ==
  ASSUME NEW f \in Facts
  PROVE  /\ RowOf(f) \in Rows
         /\ \A d \in Categories : RowOf(f).rows[d] = IF d = f.cat THEN 1 ELSE 0
<1>1. f.cat \in Categories /\ {f.starts} \ {NoProcess} \in SUBSET Processes
  BY DEF Facts, MaybeProcess
<1>2. One(f.event) \in Nat
  BY DEF One
<1>3. /\ AddTo(Zero, f.cat, 1) \in Counts
      /\ \A d \in Categories :
           AddTo(Zero, f.cat, 1)[d] = IF d = f.cat THEN 1 ELSE 0
  <2>1. \A c \in Categories :
          /\ AddTo(Zero, c, 1) \in Counts
          /\ \A d \in Categories : AddTo(Zero, c, 1)[d] = IF d = c THEN 1 ELSE 0
    BY ZeroType DEF AddTo, Counts
  <2> QED
    BY <1>1, <2>1
<1>4. /\ RowOf(f).rows = AddTo(Zero, f.cat, 1)
      /\ RowOf(f) \in Rows
  BY <1>1, <1>2, <1>3 DEF RowOf, Rows
<1> QED
  BY <1>3, <1>4

\* Opening the batch for a fact charges the fact to it.
LEMMA OpenedType ==
  ASSUME TypeOK, NEW c \in Categories
  PROVE  /\ Opened(c) \in Batches
         /\ Opened(c).open
         /\ batch.open => Opened(c).data = batch.data
         /\ ~batch.open => Opened(c).data = NoRows
         /\ \A d \in Categories :
              Opened(c).losses[d] =
                (IF batch.open THEN batch.losses[d] ELSE 0) + (IF d = c THEN 1 ELSE 0)
<1> DEFINE b == IF batch.open THEN batch ELSE [NoBatch EXCEPT !.open = TRUE]
<1>1. batch \in Batches
  BY DEF TypeOK
<1>2. b \in Batches /\ b.open
  BY <1>1, NoBatchType DEF Batches, NoBatch
<1>3. /\ batch.open => b = batch
      /\ ~batch.open => b.data = NoRows /\ \A d \in Categories : b.losses[d] = 0
  BY NoBatchType, ZeroType DEF NoBatch
<1>4. b.losses \in Counts
  BY <1>2 DEF Batches
<1>5. Opened(c) = [b EXCEPT !.losses = AddTo(b.losses, c, 1)]
  BY DEF Opened
<1>6. /\ AddTo(b.losses, c, 1) \in Counts
      /\ \A d \in Categories :
           AddTo(b.losses, c, 1)[d] = IF d = c THEN b.losses[d] + 1 ELSE b.losses[d]
  BY <1>4, AddToType
<1> HIDE DEF b
<1>7. /\ Opened(c) \in Batches
      /\ Opened(c).open = b.open
      /\ Opened(c).data = b.data
      /\ Opened(c).losses = AddTo(b.losses, c, 1)
  BY <1>2, <1>5, <1>6 DEF Batches
<1> QED
  BY <1>1, <1>2, <1>3, <1>4, <1>6, <1>7 DEF Batches, Counts

-----------------------------------------------------------------------------
(* The capture batch. *)

\* The variables the batch operators write keep their types.
MemoryType ==
  /\ losses \in Counts
  /\ batch \in Batches
  /\ saturated \in BOOLEAN
  /\ store \in Rows
  /\ pages \in [now : Nat, kept : Nat]

\* Nothing of what is stored, batched (in) or counted lost (l) gets lost, and
\* nothing is stored twice.
Conserves(in, l) ==
  \A c \in Categories :
    /\ store.rows[c] + in[c] + l[c] <= store'.rows[c] + batch'.data.rows[c] + losses'[c]
    /\ store'.rows[c] + batch'.data.rows[c] <= store.rows[c] + in[c]

\* Ending a batch moves its rows to the store or its charges to the losses.
LEMMA EndBatchConserves ==
  ASSUME TypeOK, NEW b \in Batches, NEW l \in Counts, NEW pg \in Nat,
         NEW outcome \in Outcomes,
         \A c \in Categories : b.data.rows[c] <= b.losses[c],
         EndBatch(b, l, pg, outcome)
  PROVE  /\ MemoryType'
         /\ Conserves(b.data.rows, l)
         /\ \A c \in Categories : batch'.data.rows[c] = 0
         /\ \A c \in Categories : batch'.data.rows[c] <= batch'.losses[c]
<1>1. /\ store \in Rows
      /\ pages \in [now : Nat, kept : Nat]
      /\ saturated \in BOOLEAN
  BY DEF TypeOK
<1>2. b.data \in Rows /\ b.losses \in Counts
  BY DEF Batches
<1>3. /\ batch' = NoBatch
      /\ saturated' \in BOOLEAN
  BY <1>1 DEF EndBatch
<1>4. /\ batch' \in Batches
      /\ \A c \in Categories : batch'.data.rows[c] = 0 /\ batch'.losses[c] = 0
  BY <1>3, NoBatchType
<1>5. CASE outcome = "ok"
  <2>1. /\ store' = Merged(store, b.data)
        /\ losses' = l
        /\ pages' = [now |-> pg, kept |-> pg]
    BY <1>5 DEF EndBatch
  <2>2. /\ store' \in Rows
        /\ \A c \in Categories : store'.rows[c] = store.rows[c] + b.data.rows[c]
    BY <1>1, <1>2, <2>1, MergedType
  <2> QED
    BY <1>1, <1>2, <1>3, <1>4, <2>1, <2>2 DEF MemoryType, Conserves, Rows, Counts
<1>6. CASE outcome # "ok"
  <2>1. /\ store' = store
        /\ losses' = Plus(l, b.losses)
        /\ pages' = [pages EXCEPT !.now = pages.kept]
    BY <1>6 DEF EndBatch
  <2>2. /\ losses' \in Counts
        /\ \A c \in Categories : losses'[c] = l[c] + b.losses[c]
    BY <1>2, <2>1, PlusType
  <2>3. pages' \in [now : Nat, kept : Nat]
    BY <1>1, <2>1
  <2> QED
    BY <1>1, <1>2, <1>3, <1>4, <2>1, <2>2, <2>3 DEF MemoryType, Conserves, Rows, Counts
<1> QED
  BY <1>5, <1>6

\* NodeRetry only adds to the losses.
LEMMA NodeRetryType ==
  ASSUME NEW l \in Counts, NEW c \in Categories, NEW outcome \in Outcomes
  PROVE  /\ NodeRetry(l, c, outcome) \in Counts
         /\ \A d \in Categories : l[d] <= NodeRetry(l, c, outcome)[d]
<1>1. /\ AddTo(l, c, 1) \in Counts
      /\ \A d \in Categories : AddTo(l, c, 1)[d] = IF d = c THEN l[d] + 1 ELSE l[d]
  BY AddToType
<1> QED
  BY <1>1 DEF NodeRetry, Counts

\* A sink call leaves the runner where it was or aborts the collection.
LEMMA SinkFailedPhase ==
  ASSUME NEW c, NEW outcome
  PROVE  SinkFailed(c, outcome) \in {phase, "aborted"}
  BY DEF SinkFailed

\* A checkpoint keeps the batch, with one more write counted.
LEMMA CheckpointConserves ==
  ASSUME TypeOK, NEW b \in Batches, NEW l \in Counts, NEW pg \in Nat, b.open,
         \A d \in Categories : b.data.rows[d] <= b.losses[d],
         Checkpoint(b, l, pg)
  PROVE  /\ MemoryType'
         /\ Conserves(b.data.rows, l)
         /\ phase' \in {phase, "aborted"}
         /\ \A d \in Categories : batch'.data.rows[d] <= batch'.losses[d]
         /\ ~batch'.open => \A d \in Categories : batch'.data.rows[d] = 0
<1>1. /\ batch' = [b EXCEPT !.writes = @ + 1]
      /\ losses' = l
      /\ pages' = [pages EXCEPT !.now = pg]
      /\ UNCHANGED <<store, saturated, phase>>
  BY DEF Checkpoint
<1>2. /\ batch' \in Batches
      /\ batch'.data = b.data
      /\ batch'.losses = b.losses
      /\ batch'.open
  BY <1>1 DEF Batches
<1>3. /\ store \in Rows
      /\ saturated \in BOOLEAN
      /\ pages' \in [now : Nat, kept : Nat]
  BY <1>1 DEF TypeOK
<1> QED
  BY <1>1, <1>2, <1>3 DEF MemoryType, Conserves, Rows, Batches, Counts

\* The COMMIT of a full batch conserves as well, whatever its answer.
LEMMA CommitConserves ==
  ASSUME LedgerInv, NEW c \in Categories, CommitFull(c)
  PROVE  /\ MemoryType'
         /\ Conserves(batch.data.rows, losses)
         /\ \A d \in Categories : batch'.data.rows[d] = 0
         /\ \A d \in Categories : batch'.data.rows[d] <= batch'.losses[d]
         /\ phase' \in {phase, "aborted"}
<1>1. PICK outcome \in Outcomes :
        /\ EndBatch(batch, NodeRetry(losses, c, outcome), pages.now, outcome)
        /\ phase' = SinkFailed(c, outcome)
  BY DEF CommitFull
<1> DEFINE r == NodeRetry(losses, c, outcome)
<1>2. /\ TypeOK /\ batch \in Batches /\ losses \in Counts /\ pages.now \in Nat
      /\ \A d \in Categories : batch.data.rows[d] <= batch.losses[d]
  BY DEF LedgerInv, TypeOK, BatchInv
<1>3. r \in Counts /\ \A d \in Categories : losses[d] <= r[d]
  BY <1>2, NodeRetryType
<1>4. EndBatch(batch, r, pages.now, outcome)
  BY <1>1
<1> HIDE DEF r
<1>5. /\ MemoryType'
      /\ Conserves(batch.data.rows, r)
      /\ \A d \in Categories : batch'.data.rows[d] = 0
      /\ \A d \in Categories : batch'.data.rows[d] <= batch'.losses[d]
  BY <1>2, <1>3, <1>4, EndBatchConserves
<1>6. Conserves(batch.data.rows, losses)
  BY <1>2, <1>3, <1>5 DEF Conserves, MemoryType, TypeOK, Rows, Batches, Counts
<1> QED
  BY <1>1, <1>5, <1>6, SinkFailedPhase

-----------------------------------------------------------------------------
(* The ledger invariant: a call of the sink. *)

\* A fact handed over is one more fact to answer for.
LEMMA HandOverType ==
  ASSUME TypeOK, NEW f \in Facts, HandOver(f)
  PROVE  /\ Live
         /\ f.cat \in Categories
         /\ owed' \in Counts
         /\ introduced' \in SUBSET Processes
         /\ attempted' \in Counts
         /\ \A d \in Categories :
              attempted'[d] = attempted[d] + (IF d = f.cat THEN 1 ELSE 0)
         /\ UNCHANGED <<backend, covered, coverage, state, marker>>
<1>1. f.cat \in Categories /\ f.starts \in MaybeProcess
  BY DEF Facts
<1>2. Live
  BY DEF HandOver, Offered, Live
<1>3. owed' \in Counts
  BY <1>1 DEF HandOver, Offered, TypeOK, Counts
<1>4. /\ attempted' \in Counts
      /\ \A d \in Categories :
           attempted'[d] = attempted[d] + (IF d = f.cat THEN 1 ELSE 0)
  <2>1. attempted \in Counts /\ attempted' = AddTo(attempted, f.cat, 1)
    BY DEF TypeOK, HandOver
  <2> QED
    BY <1>1, <2>1 DEF AddTo, Counts
<1> QED
  BY <1>1, <1>2, <1>3, <1>4 DEF HandOver, TypeOK, MaybeProcess

\* What a sink call has to establish for the ledger to survive it: in and l
\* are the batched rows and the losses once the fact is charged.
LEMMA SinkCallKeepsLedger ==
  ASSUME LedgerInv, NEW f \in Facts, HandOver(f),
         NEW in \in Counts, NEW l \in Counts,
         MemoryType', Conserves(in, l),
         phase' \in {phase, "aborted"},
         events' \in Nat, countdown' \in Nat, ignored' \in Counts,
         \A d \in Categories : batch'.data.rows[d] <= batch'.losses[d],
         ~batch'.open => \A d \in Categories : batch'.data.rows[d] = 0,
         \A d \in Categories :
           /\ attempted[d] + (IF d = f.cat THEN 1 ELSE 0) <= store.rows[d] + in[d] + l[d]
           /\ store.rows[d] + in[d] <= attempted[d] + (IF d = f.cat THEN 1 ELSE 0)
  PROVE  LedgerInv'
<1>1. TypeOK /\ PhaseInv /\ CoverageRowsValid
  BY DEF LedgerInv
<1>2. /\ Live
      /\ owed' \in Counts
      /\ introduced' \in SUBSET Processes
      /\ attempted' \in Counts
      /\ \A d \in Categories :
           attempted'[d] = attempted[d] + (IF d = f.cat THEN 1 ELSE 0)
      /\ UNCHANGED <<backend, covered, coverage, state, marker>>
  BY <1>1, HandOverType
<1>3. Live' /\ phase' \in Phases
  BY <1>1, <1>2 DEF Live, TypeOK, Phases
<1>4. TypeOK'
  BY <1>1, <1>2, <1>3 DEF TypeOK, MemoryType
<1>5. state = "running" /\ state' = "running"
  BY <1>1, <1>2 DEF PhaseInv
<1>6. PhaseInv' /\ SettledLedger' /\ CoverageRowsValid'
  BY <1>1, <1>2, <1>3, <1>5 DEF PhaseInv, Live, SettledLedger, CoverageRowsValid
<1>7. BatchInv'
  BY <1>3 DEF BatchInv
<1>8. LiveLedger' /\ NoInvention'
  <2> SUFFICES ASSUME NEW d \in Categories
               PROVE  /\ attempted'[d] <= store'.rows[d] + batch'.data.rows[d] + losses'[d]
                      /\ store'.rows[d] + batch'.data.rows[d] <= attempted'[d]
    BY DEF LiveLedger, NoInvention
  <2>1. /\ store.rows[d] \in Nat /\ store'.rows[d] \in Nat
        /\ batch'.data.rows[d] \in Nat /\ losses'[d] \in Nat
        /\ attempted[d] \in Nat /\ attempted'[d] \in Nat
        /\ in[d] \in Nat /\ l[d] \in Nat
    BY <1>1, <1>4 DEF TypeOK, Rows, Batches, Counts
  <2>2. /\ store.rows[d] + in[d] + l[d]
             <= store'.rows[d] + batch'.data.rows[d] + losses'[d]
        /\ store'.rows[d] + batch'.data.rows[d] <= store.rows[d] + in[d]
    BY DEF Conserves
  <2> QED
    BY <1>2, <2>1, <2>2
<1> QED
  BY <1>4, <1>6, <1>7, <1>8 DEF LedgerInv

\* The facts about an open batch every sink call starts from.
LEMMA OpenedRows ==
  ASSUME LedgerInv, NEW c \in Categories
  PROVE  /\ Opened(c) \in Batches
         /\ Opened(c).open
         /\ \A d \in Categories :
              /\ Opened(c).data.rows[d] = batch.data.rows[d]
              /\ Opened(c).data.rows[d] + (IF d = c THEN 1 ELSE 0) <= Opened(c).losses[d]
<1>1. /\ Opened(c) \in Batches
      /\ Opened(c).open
      /\ batch.open => Opened(c).data = batch.data
      /\ ~batch.open => Opened(c).data = NoRows
      /\ \A d \in Categories :
           Opened(c).losses[d] =
             (IF batch.open THEN batch.losses[d] ELSE 0) + (IF d = c THEN 1 ELSE 0)
  BY OpenedType DEF LedgerInv
<1>2. \A d \in Categories : NoRows.rows[d] = 0
  BY ZeroType DEF NoRows
<1>3. \A d \in Categories :
        /\ batch.data.rows[d] \in Nat /\ batch.losses[d] \in Nat
        /\ batch.data.rows[d] <= batch.losses[d]
        /\ ~batch.open => batch.data.rows[d] = 0
  BY DEF LedgerInv, TypeOK, BatchInv, Batches, Rows, Counts
<1> QED
  BY <1>1, <1>2, <1>3

\* Every sink call keeps the ledger.
LEMMA SubmitKeepsLedger ==
  ASSUME LedgerInv, NEW f \in Facts, Submit(f)
  PROVE  LedgerInv'
<1>1. TypeOK /\ PhaseInv /\ BatchInv /\ LiveLedger /\ NoInvention
  BY DEF LedgerInv
<1>2. f.cat \in Categories
  BY DEF Facts
<1>3. \A d \in Categories :
        /\ store.rows[d] \in Nat /\ batch.data.rows[d] \in Nat
        /\ losses[d] \in Nat /\ attempted[d] \in Nat
  BY <1>1 DEF TypeOK, Rows, Batches, Counts
<1>4. /\ losses \in Counts /\ batch.data.rows \in Counts
      /\ MemoryType
      /\ events \in Nat /\ countdown \in Nat /\ ignored \in Counts
  BY <1>1 DEF TypeOK, MemoryType, Batches, Rows
<1>5. Remaining \in Nat \ {0}
  BY <1>4, LimitsAssumption DEF Remaining
<1>6. /\ AddTo(losses, f.cat, 1) \in Counts
      /\ \A d \in Categories :
           AddTo(losses, f.cat, 1)[d] = IF d = f.cat THEN losses[d] + 1 ELSE losses[d]
  BY <1>2, <1>4 DEF AddTo, Counts
<1>7. /\ Opened(f.cat) \in Batches
      /\ Opened(f.cat).open
      /\ \A d \in Categories :
           /\ Opened(f.cat).data.rows[d] = batch.data.rows[d]
           /\ Opened(f.cat).data.rows[d] + (IF d = f.cat THEN 1 ELSE 0)
                <= Opened(f.cat).losses[d]
  BY <1>2, OpenedRows
<1>8. Live => \A d \in Categories :
        attempted[d] <= store.rows[d] + batch.data.rows[d] + losses[d]
  BY <1>1 DEF LiveLedger
<1>9. \A d \in Categories : store.rows[d] + batch.data.rows[d] <= attempted[d]
  BY <1>1 DEF NoInvention
<1>10. ASSUME HandOver(f), losses' = AddTo(losses, f.cat, 1),
              saturated' \in BOOLEAN,
              UNCHANGED <<phase, batch, events, countdown, store, pages, ignored>>
       PROVE  LedgerInv'
  <2>1. Live
    BY <1>1, <1>10, HandOverType
  <2>2. MemoryType' /\ Conserves(batch.data.rows, losses')
    BY <1>3, <1>4, <1>6, <1>10 DEF MemoryType, Conserves, Counts
  <2>3. losses' \in Counts
    BY <1>6, <1>10
  <2>4. /\ \A d \in Categories : batch'.data.rows[d] <= batch'.losses[d]
        /\ ~batch'.open => \A d \in Categories : batch'.data.rows[d] = 0
    BY <1>1, <1>10 DEF BatchInv
  <2>5. \A d \in Categories :
          /\ attempted[d] + (IF d = f.cat THEN 1 ELSE 0)
               <= store.rows[d] + batch.data.rows[d] + losses'[d]
          /\ store.rows[d] + batch.data.rows[d]
               <= attempted[d] + (IF d = f.cat THEN 1 ELSE 0)
    BY <1>3, <1>6, <1>8, <1>9, <1>10, <2>1
  <2> QED
    BY <1>4, <1>10, <2>2, <2>3, <2>4, <2>5, SinkCallKeepsLedger
<1>11. ASSUME NEW long \in BOOLEAN, Refuse(f, long)
       PROVE  LedgerInv'
  BY <1>4, <1>10, <1>11 DEF Refuse, MemoryType
<1>12. ASSUME Saturate(f)
       PROVE  LedgerInv'
  BY <1>10, <1>12 DEF Saturate
<1>13. ASSUME NEW cost \in 0..MaxRowPages, Write(f, cost)
       PROVE  LedgerInv'
  <2> DEFINE o == Opened(f.cat)
             b == [o EXCEPT !.data = Merged(o.data, RowOf(f))]
  <2>1. Live /\ HandOver(f)
    BY <1>1, <1>13, HandOverType DEF Write
  <2>2. RowOf(f) \in Rows /\ o \in Batches /\ o.data \in Rows
    BY <1>7, RowOfType DEF Batches
  <2>3. /\ Merged(o.data, RowOf(f)) \in Rows
        /\ \A d \in Categories :
             Merged(o.data, RowOf(f)).rows[d]
               = batch.data.rows[d] + (IF d = f.cat THEN 1 ELSE 0)
    BY <1>7, <2>2, RowOfType, MergedType
  <2>4. /\ b \in Batches /\ b.open /\ b.losses = o.losses
        /\ b.data = Merged(o.data, RowOf(f))
    BY <1>7, <2>2, <2>3 DEF Batches
  <2>5. \A d \in Categories : b.data.rows[d] <= b.losses[d]
    BY <1>7, <2>3, <2>4
  <2>6. /\ Checkpoint(b, losses, pages.now + cost)
        /\ countdown' = Remaining - 1
        /\ events' = events + One(f.event)
        /\ ignored' = ignored
    BY <1>13 DEF Write
  <2>7. pages.now + cost \in Nat
    BY <1>1, LimitsAssumption DEF TypeOK
  <2>8. countdown' \in Nat /\ events' \in Nat /\ ignored' \in Counts
    BY <1>4, <1>5, <2>6 DEF One
  <2> HIDE DEF b
  <2>9. /\ MemoryType'
        /\ Conserves(b.data.rows, losses)
        /\ phase' \in {phase, "aborted"}
        /\ \A d \in Categories : batch'.data.rows[d] <= batch'.losses[d]
        /\ ~batch'.open => \A d \in Categories : batch'.data.rows[d] = 0
    BY <1>1, <1>2, <1>4, <2>4, <2>5, <2>6, <2>7, CheckpointConserves
  <2>10. b.data.rows \in Counts
    BY <2>4 DEF Batches, Rows
  <2>11. \A d \in Categories :
           /\ attempted[d] + (IF d = f.cat THEN 1 ELSE 0)
                <= store.rows[d] + b.data.rows[d] + losses[d]
           /\ store.rows[d] + b.data.rows[d]
                <= attempted[d] + (IF d = f.cat THEN 1 ELSE 0)
    BY <1>3, <1>8, <1>9, <2>1, <2>3, <2>4
  <2> QED
    BY <1>4, <2>1, <2>8, <2>9, <2>10, <2>11, SinkCallKeepsLedger
<1>14. ASSUME Ignore(f)
       PROVE  LedgerInv'
  <2> DEFINE o == Opened(f.cat)
             l == AddTo(losses, f.cat, 1)
  <2>1. Live /\ HandOver(f)
    BY <1>1, <1>14, HandOverType DEF Ignore
  <2>2. /\ Checkpoint(o, l, pages.now)
        /\ countdown' = Remaining
        /\ events' = events
        /\ ignored' = AddTo(ignored, f.cat, 1)
    BY <1>14 DEF Ignore
  <2>3. pages.now \in Nat
    BY <1>1 DEF TypeOK
  <2>4. countdown' \in Nat /\ events' \in Nat /\ ignored' \in Counts
    BY <1>2, <1>4, <1>5, <2>2 DEF AddTo, Counts
  <2>5. o \in Batches /\ o.open /\ o.data.rows \in Counts /\ o.losses \in Counts
    BY <1>7 DEF Batches, Rows
  <2>6. \A d \in Categories : o.data.rows[d] <= o.losses[d]
    BY <1>3, <1>7, <2>5 DEF Counts
  <2> HIDE DEF o, l
  <2>7. l \in Counts
    BY <1>6 DEF l
  <2>8. /\ MemoryType'
        /\ Conserves(o.data.rows, l)
        /\ phase' \in {phase, "aborted"}
        /\ \A d \in Categories : batch'.data.rows[d] <= batch'.losses[d]
        /\ ~batch'.open => \A d \in Categories : batch'.data.rows[d] = 0
    BY <1>1, <1>2, <2>2, <2>3, <2>5, <2>6, <2>7, CheckpointConserves
  <2>9. \A d \in Categories :
          /\ attempted[d] + (IF d = f.cat THEN 1 ELSE 0)
               <= store.rows[d] + o.data.rows[d] + l[d]
          /\ store.rows[d] + o.data.rows[d]
               <= attempted[d] + (IF d = f.cat THEN 1 ELSE 0)
    BY <1>3, <1>6, <1>7, <1>8, <1>9, <2>1 DEF o, l
  <2> QED
    BY <2>1, <2>4, <2>5, <2>7, <2>8, <2>9, SinkCallKeepsLedger
<1>15. ASSUME NEW outcome \in {"full", "error"}, Abandon(f, outcome)
       PROVE  LedgerInv'
  <2> DEFINE o == Opened(f.cat)
             l == NodeRetry(losses, f.cat, outcome)
  <2>1. Live /\ HandOver(f)
    BY <1>1, <1>15, HandOverType DEF Abandon
  <2>2. /\ EndBatch(o, l, pages.now, outcome)
        /\ countdown' = Remaining
        /\ events' = events
        /\ ignored' = ignored
        /\ phase' \in {phase, "aborted"}
    BY <1>15, SinkFailedPhase DEF Abandon
  <2>3. pages.now \in Nat /\ outcome \in Outcomes
    BY <1>1 DEF TypeOK, Outcomes
  <2>4. countdown' \in Nat /\ events' \in Nat /\ ignored' \in Counts
    BY <1>4, <1>5, <2>2
  <2>5. o \in Batches /\ o.open /\ o.data.rows \in Counts /\ o.losses \in Counts
    BY <1>7 DEF Batches, Rows
  <2>6. \A d \in Categories :
          o.data.rows[d] + (IF d = f.cat THEN 1 ELSE 0) <= o.losses[d]
    BY <1>7
  <2>7. \A d \in Categories : o.data.rows[d] <= o.losses[d]
    BY <2>5, <2>6 DEF Counts
  <2>8. l \in Counts /\ \A d \in Categories : losses[d] <= l[d]
    BY <1>2, <1>4, <2>3, NodeRetryType
  <2>9. \A d \in Categories : o.data.rows[d] = batch.data.rows[d]
    BY <1>7
  <2>10. /\ batch' = NoBatch /\ store' = store
         /\ losses' = Plus(l, o.losses)
    BY <1>15, <2>2 DEF EndBatch
  <2> HIDE DEF o, l
  <2>11. /\ losses' \in Counts
         /\ \A d \in Categories : losses'[d] = l[d] + o.losses[d]
    BY <2>5, <2>8, <2>10, PlusType
  <2>12. MemoryType'
    BY <1>1, <2>2, <2>3, <2>5, <2>7, <2>8, EndBatchConserves
  <2>13. /\ \A d \in Categories : batch'.data.rows[d] = 0
         /\ \A d \in Categories : batch'.data.rows[d] <= batch'.losses[d]
    BY <1>1, <2>2, <2>3, <2>5, <2>7, <2>8, EndBatchConserves
  <2>14. /\ Zero \in Counts
         /\ Conserves(Zero, losses')
    BY <1>3, <2>10, <2>11, <2>13, ZeroType DEF Conserves, Counts
  <2>15. \A d \in Categories :
           /\ attempted[d] + (IF d = f.cat THEN 1 ELSE 0)
                <= store.rows[d] + Zero[d] + losses'[d]
           /\ store.rows[d] + Zero[d]
                <= attempted[d] + (IF d = f.cat THEN 1 ELSE 0)
    BY ZeroType, <1>3, <1>8, <1>9, <2>1, <2>5, <2>6, <2>8, <2>9, <2>11 DEF Counts
  <2> QED
    BY <1>4, <2>1, <2>2, <2>4, <2>11, <2>12, <2>13, <2>14, <2>15, SinkCallKeepsLedger
<1>16. ASSUME RefuseWithError(f)
       PROVE  LedgerInv'
  <2>1. /\ countdown' \in Nat
        /\ UNCHANGED <<batch, saturated, events, store, pages, ignored>>
        /\ Live
    BY <1>1, <1>4, <1>5, <1>16 DEF RefuseWithError, Offered, Live
  <2>2. CASE HandOver(f) /\ losses' = AddTo(losses, f.cat, 1) /\ phase' = phase
    <3>1. MemoryType' /\ Conserves(batch.data.rows, losses')
      BY <1>3, <1>4, <1>6, <2>1, <2>2 DEF MemoryType, Conserves, Counts
    <3>2. losses' \in Counts
      BY <1>6, <2>2
    <3>3. /\ \A d \in Categories : batch'.data.rows[d] <= batch'.losses[d]
          /\ ~batch'.open => \A d \in Categories : batch'.data.rows[d] = 0
      BY <1>1, <2>1 DEF BatchInv
    <3>4. \A d \in Categories :
            /\ attempted[d] + (IF d = f.cat THEN 1 ELSE 0)
                 <= store.rows[d] + batch.data.rows[d] + losses'[d]
            /\ store.rows[d] + batch.data.rows[d]
                 <= attempted[d] + (IF d = f.cat THEN 1 ELSE 0)
      BY <1>3, <1>6, <1>8, <1>9, <2>1, <2>2
    <3> QED
      BY <1>4, <2>1, <2>2, <3>1, <3>2, <3>3, <3>4, SinkCallKeepsLedger
  <2>3. CASE /\ phase' = "aborted"
             /\ UNCHANGED <<collectorVars, losses, coverage, state, marker, attempted>>
    <3>1. TypeOK'
      BY <1>1, <2>1, <2>3 DEF TypeOK, collectorVars, Phases
    <3>2. Live'
      BY <2>3 DEF Live
    <3>3. state = "running"
      BY <1>1, <2>1 DEF PhaseInv
    <3> QED
      BY <2>1, <2>3, <3>1, <3>2, <3>3
      DEF LedgerInv, PhaseInv, Live, BatchInv, LiveLedger, NoInvention,
          SettledLedger, CoverageRowsValid
  <2> QED
    BY <1>16, <2>2, <2>3 DEF RefuseWithError
<1> QED
  BY <1>11, <1>12, <1>13, <1>14, <1>15, <1>16 DEF Submit

-----------------------------------------------------------------------------
(* The ledger invariant: the other steps. *)

\* What the invariant says of one category, in arithmetic.
LEMMA LedgerArithmetic ==
  ASSUME LedgerInv, NEW d \in Categories
  PROVE  /\ store.rows[d] \in Nat /\ batch.data.rows[d] \in Nat
         /\ batch.losses[d] \in Nat
         /\ losses[d] \in Nat /\ attempted[d] \in Nat
         /\ coverage[d].lost \in Nat
         /\ batch.data.rows[d] <= batch.losses[d]
         /\ store.rows[d] + batch.data.rows[d] <= attempted[d]
         /\ Live => attempted[d] <= store.rows[d] + batch.data.rows[d] + losses[d]
         /\ ~batch.open \/ ~Live => batch.data.rows[d] = 0
  BY DEF LedgerInv, TypeOK, Rows, Batches, Counts, CoverageRows, BatchInv,
         NoInvention, LiveLedger

\* A flush conserves, whether or not a batch is open.
LEMMA FlushConserves ==
  ASSUME LedgerInv, NEW outcome \in Outcomes, Flush(outcome)
  PROVE  /\ MemoryType'
         /\ Conserves(batch.data.rows, losses)
         /\ \A d \in Categories : batch'.data.rows[d] = 0
         /\ \A d \in Categories : batch'.data.rows[d] <= batch'.losses[d]
<1>1. TypeOK
  BY DEF LedgerInv
<1>2. /\ batch \in Batches /\ losses \in Counts /\ pages.now \in Nat
      /\ \A c \in Categories : batch.data.rows[c] <= batch.losses[c]
  BY DEF LedgerInv, TypeOK, BatchInv
<1>3. CASE batch.open
  BY <1>1, <1>2, <1>3, EndBatchConserves DEF Flush
<1>4. CASE ~batch.open
  <2>1. UNCHANGED <<losses, batch, saturated, store, pages>>
    BY <1>4 DEF Flush
  <2> QED
    BY <1>1, <1>2, <1>4, <2>1, LedgerArithmetic DEF MemoryType, Conserves, TypeOK
<1> QED
  BY <1>3, <1>4

\* The COMMIT of a full batch keeps the ledger.
LEMMA CommitFullKeepsLedger ==
  ASSUME LedgerInv, NEW c \in Categories, CommitFull(c)
  PROVE  LedgerInv'
<1>1. /\ MemoryType'
      /\ Conserves(batch.data.rows, losses)
      /\ \A d \in Categories : batch'.data.rows[d] = 0
      /\ \A d \in Categories : batch'.data.rows[d] <= batch'.losses[d]
      /\ phase' \in {phase, "aborted"}
  BY CommitConserves
<1>2. /\ Live /\ state = "running"
      /\ UNCHANGED <<backend, owed, introduced, covered, events, countdown, coverage,
                     state, marker, attempted, ignored>>
  BY DEF CommitFull, Live, collectorVars, historyVars, LedgerInv, PhaseInv
<1>3. Live' /\ phase' \in Phases
  BY <1>1, <1>2 DEF Live, Phases
<1>4. TypeOK' /\ CoverageRowsValid'
  BY <1>1, <1>2, <1>3 DEF LedgerInv, TypeOK, MemoryType, CoverageRowsValid
<1>5. PhaseInv' /\ BatchInv' /\ SettledLedger'
  BY <1>1, <1>2, <1>3 DEF LedgerInv, PhaseInv, BatchInv, SettledLedger, Live
<1>6. LiveLedger' /\ NoInvention'
  <2> SUFFICES ASSUME NEW d \in Categories
               PROVE  /\ attempted'[d] <= store'.rows[d] + batch'.data.rows[d] + losses'[d]
                      /\ store'.rows[d] + batch'.data.rows[d] <= attempted'[d]
    BY DEF LiveLedger, NoInvention
  <2>1. /\ store'.rows[d] \in Nat /\ batch'.data.rows[d] \in Nat
        /\ losses'[d] \in Nat
    BY <1>4 DEF TypeOK, Rows, Batches, Counts
  <2> QED
    BY <1>1, <1>2, <2>1, LedgerArithmetic DEF Conserves
<1> QED
  BY <1>4, <1>5, <1>6 DEF LedgerInv

\* Facts the collector gave up on are counted as they are reported.
LEMMA RecordLostKeepsLedger ==
  ASSUME LedgerInv, NEW c \in Categories, NEW n \in 1..MaxFacts, RecordLost(c, n)
  PROVE  LedgerInv'
<1>1. n \in Nat /\ Live
  BY LimitsAssumption DEF RecordLost, Live
<1>2. /\ losses \in Counts /\ attempted \in Counts /\ owed \in Counts
  BY DEF LedgerInv, TypeOK
<1>3. /\ losses' \in Counts
      /\ \A d \in Categories : losses'[d] = IF d = c THEN losses[d] + n ELSE losses[d]
      /\ attempted' \in Counts
      /\ \A d \in Categories :
           attempted'[d] = IF d = c THEN attempted[d] + n ELSE attempted[d]
  BY <1>1, <1>2, AddToType DEF RecordLost
<1>4. owed' \in Counts
  BY <1>1, <1>2 DEF RecordLost, Counts
<1>5. UNCHANGED <<backend, introduced, covered, phase, batch, saturated, events,
                 countdown, store, pages, coverage, state, marker, ignored>>
  BY DEF RecordLost, fileVars
<1>6. TypeOK' /\ PhaseInv' /\ BatchInv' /\ CoverageRowsValid'
  BY <1>3, <1>4, <1>5
  DEF LedgerInv, TypeOK, PhaseInv, BatchInv, CoverageRowsValid, Live
<1>7. LiveLedger' /\ NoInvention'
  BY <1>1, <1>3, <1>5, LedgerArithmetic DEF LiveLedger, NoInvention, Live
<1>8. SettledLedger'
  BY <1>1, <1>5 DEF LedgerInv, PhaseInv, SettledLedger
<1> QED
  BY <1>6, <1>7, <1>8 DEF LedgerInv

\* Declaring the coverage settles the open batch and writes losses only to
\* partial rows.
LEMMA SetCoverageKeepsLedger ==
  ASSUME LedgerInv, NEW n \in 0..MaxFacts, SetCoverage(n)
  PROVE  LedgerInv'
<1>1. PICK outcome \in Outcomes, stored \in BOOLEAN :
        /\ Flush(outcome)
        /\ covered' = stored
        /\ IF stored
           THEN coverage' = Declared(n) /\ phase' = phase
           ELSE coverage' = coverage /\ phase' = "aborted"
  BY DEF SetCoverage
<1>2. /\ Live /\ state = "running"
      /\ UNCHANGED <<backend, owed, introduced, events, countdown, state, marker,
                     attempted, ignored>>
  BY DEF SetCoverage, Live, historyVars, LedgerInv, PhaseInv
<1>3. Live' /\ phase' \in Phases
  BY <1>1, <1>2 DEF Live, Phases, SetCoverage
<1>4. /\ MemoryType'
      /\ Conserves(batch.data.rows, losses)
      /\ \A d \in Categories : batch'.data.rows[d] = 0
      /\ \A d \in Categories : batch'.data.rows[d] <= batch'.losses[d]
  BY <1>1, FlushConserves
<1>5. /\ coverage' \in [Categories -> CoverageRows]
      /\ CoverageRowsValid'
  <2>1. /\ coverage \in [Categories -> CoverageRows]
        /\ CoverageRowsValid
        /\ n \in Nat
    BY LimitsAssumption DEF LedgerInv, TypeOK
  <2>2. CASE coverage' = Declared(n)
    BY <2>1, <2>2 DEF Declared, Covered, CoverageRows, CoverageRowsValid
  <2> QED
    BY <1>1, <2>1, <2>2 DEF CoverageRowsValid
<1>6. TypeOK'
  BY <1>1, <1>2, <1>3, <1>4, <1>5 DEF LedgerInv, TypeOK, MemoryType
<1>7. PhaseInv' /\ BatchInv' /\ SettledLedger'
  BY <1>2, <1>3, <1>4
  DEF LedgerInv, PhaseInv, BatchInv, SettledLedger, Live
<1>8. LiveLedger' /\ NoInvention'
  <2> SUFFICES ASSUME NEW d \in Categories
               PROVE  /\ attempted'[d] <= store'.rows[d] + batch'.data.rows[d] + losses'[d]
                      /\ store'.rows[d] + batch'.data.rows[d] <= attempted'[d]
    BY DEF LiveLedger, NoInvention
  <2>1. /\ store'.rows[d] \in Nat /\ batch'.data.rows[d] \in Nat
        /\ losses'[d] \in Nat
    BY <1>6 DEF TypeOK, Rows, Batches, Counts
  <2> QED
    BY <1>2, <1>4, <2>1, LedgerArithmetic DEF Conserves
<1> QED
  BY <1>5, <1>6, <1>7, <1>8 DEF LedgerInv

\* An unreadable Node event file is one more loss.
LEMMA NodeReadFailsKeepsLedger ==
  ASSUME LedgerInv, NodeReadFails
  PROVE  LedgerInv'
<1>1. /\ NodeCategory \in Categories /\ Live
      /\ owed' = [owed EXCEPT ![NodeCategory] = 0]
      /\ losses' = AddTo(losses, NodeCategory, 1)
      /\ UNCHANGED <<backend, introduced, covered, phase, batch, saturated, events,
                     countdown, store, pages, coverage, state, marker,
                     attempted, ignored>>
  BY DEF NodeReadFails, Live, fileVars, historyVars
<1>2. losses \in Counts /\ owed' \in Counts
  BY <1>1 DEF LedgerInv, TypeOK, Counts
<1>3. /\ losses' \in Counts
      /\ \A d \in Categories :
           losses'[d] = IF d = NodeCategory THEN losses[d] + 1 ELSE losses[d]
  BY <1>1, <1>2, AddToType
<1>4. TypeOK' /\ PhaseInv' /\ BatchInv' /\ NoInvention' /\ SettledLedger'
        /\ CoverageRowsValid'
  BY <1>1, <1>2, <1>3
  DEF LedgerInv, TypeOK, PhaseInv, BatchInv, NoInvention, SettledLedger,
      CoverageRowsValid, Live
<1>5. LiveLedger'
  BY <1>1, <1>3, LedgerArithmetic DEF LiveLedger
<1> QED
  BY <1>4, <1>5 DEF LedgerInv

\* Finalize hands every loss counted in memory to the coverage rows.
LEMMA FinalizeKeepsLedger ==
  ASSUME LedgerInv, Finalize
  PROVE  LedgerInv'
<1>1. PICK outcome \in Outcomes, committed \in BOOLEAN :
        /\ Flush(outcome)
        /\ IF committed
           THEN /\ coverage' = WithLosses(coverage, losses')
                /\ state' = "finalized"
                /\ phase' = "committed"
           ELSE /\ phase' = "crashed"
                /\ UNCHANGED <<coverage, state>>
  BY DEF Finalize
<1>2. /\ Live /\ state = "running" /\ marker = FALSE
      /\ UNCHANGED <<backend, owed, introduced, covered, events, countdown, marker,
                     attempted, ignored>>
  BY DEF Finalize, Live, collectorVars, historyVars, LedgerInv, PhaseInv, TypeOK
<1>3. /\ MemoryType'
      /\ Conserves(batch.data.rows, losses)
      /\ \A d \in Categories : batch'.data.rows[d] = 0
      /\ \A d \in Categories : batch'.data.rows[d] <= batch'.losses[d]
  BY <1>1, FlushConserves
<1>4. /\ coverage \in [Categories -> CoverageRows]
      /\ CoverageRowsValid
      /\ losses' \in Counts
  BY <1>3 DEF LedgerInv, TypeOK, MemoryType
<1>5. ~Live' /\ phase' \in Phases /\ phase' \notin {"recovered", "published", "closed"}
  BY <1>1 DEF Live, Phases
<1>6. /\ coverage' \in [Categories -> CoverageRows]
      /\ CoverageRowsValid'
      /\ state' \in {"running", "finalized"}
      /\ phase' = "committed" => state' = "finalized"
      /\ state' = "finalized" => coverage' = WithLosses(coverage, losses')
  <2>1. CASE committed
    BY <1>1, <1>4, <2>1
    DEF WithLosses, Covered, CoverageRows, CoverageRowsValid, Counts
  <2>2. CASE ~committed
    BY <1>1, <1>2, <1>4, <2>2 DEF CoverageRowsValid
  <2> QED
    BY <2>1, <2>2
<1>7. TypeOK'
  BY <1>2, <1>3, <1>5, <1>6 DEF LedgerInv, TypeOK, MemoryType
<1>8. PhaseInv' /\ BatchInv'
  BY <1>2, <1>3, <1>5, <1>6 DEF PhaseInv, BatchInv
<1>9. \A d \in Categories :
        /\ store'.rows[d] \in Nat /\ losses'[d] \in Nat
        /\ batch'.data.rows[d] = 0
        /\ attempted'[d] <= store'.rows[d] + losses'[d]
        /\ store'.rows[d] <= attempted'[d]
  <2> SUFFICES ASSUME NEW d \in Categories
               PROVE  /\ store'.rows[d] \in Nat /\ losses'[d] \in Nat
                      /\ batch'.data.rows[d] = 0
                      /\ attempted'[d] <= store'.rows[d] + losses'[d]
                      /\ store'.rows[d] <= attempted'[d]
    OBVIOUS
  <2>1. store'.rows[d] \in Nat /\ losses'[d] \in Nat
    BY <1>7 DEF TypeOK, Rows, Counts
  <2> QED
    BY <1>2, <1>3, <2>1, LedgerArithmetic DEF Conserves
<1>10. LiveLedger' /\ NoInvention'
  BY <1>5, <1>9 DEF LiveLedger, NoInvention
<1>11. SettledLedger'
  <2> SUFFICES ASSUME state' = "finalized", NEW d \in Categories
               PROVE  attempted'[d] <= store'.rows[d] + coverage'[d].lost
    BY <1>6 DEF SettledLedger
  <2>1. coverage'[d].lost = coverage[d].lost + losses'[d]
    BY <1>4, <1>6 DEF WithLosses, Covered, CoverageRows, Counts
  <2>2. coverage[d].lost \in Nat /\ attempted'[d] \in Nat
    BY <1>4, <1>7 DEF CoverageRows, TypeOK, Counts
  <2> QED
    BY <1>9, <2>1, <2>2
<1> QED
  BY <1>6, <1>7, <1>8, <1>10, <1>11 DEF LedgerInv

\* A crash forgets the batch and the losses, and leaves a running session.
LEMMA CrashKeepsLedger ==
  ASSUME LedgerInv, Crash
  PROVE  LedgerInv'
<1>1. TypeOK'
  BY NoBatchType, ZeroType
  DEF LedgerInv, Crash, TypeOK, Phases, collectorVars, historyVars
<1>2. /\ ~Live' /\ phase' = "crashed"
      /\ \A d \in Categories : batch'.data.rows[d] = 0 /\ batch'.losses[d] = 0
      /\ UNCHANGED <<store, coverage, state, marker, attempted>>
  BY NoBatchType DEF Crash, Live, historyVars
<1>3. NoInvention'
  BY <1>2, LedgerArithmetic DEF NoInvention
<1> QED
  BY <1>1, <1>2, <1>3
  DEF LedgerInv, PhaseInv, BatchInv, LiveLedger, SettledLedger, CoverageRowsValid

\* Recovery marks every category of a running session partial.
LEMMA RecoverCommitKeepsLedger ==
  ASSUME LedgerInv, RecoverCommit
  PROVE  LedgerInv'
<1>1. /\ phase = "crashed" /\ phase' = "recovered" /\ ~Live /\ ~Live'
      /\ UNCHANGED <<backend, owed, introduced, covered, losses, batch, saturated,
                     events, countdown, store, pages, marker, attempted, ignored>>
  BY DEF RecoverCommit, Live, collectorVars, memoryVars, historyVars
<1>2. coverage \in [Categories -> CoverageRows]
  BY DEF LedgerInv, TypeOK
<1>3. CASE Interrupted
  <2>1. /\ coverage' = [c \in Categories |->
                          Covered("partial", coverage[c].lost + 1)]
        /\ state' = "interrupted"
    BY <1>3 DEF RecoverCommit
  <2>2. /\ coverage' \in [Categories -> CoverageRows]
        /\ \A c \in Categories :
             coverage'[c].state = "partial" /\ coverage'[c].lost >= 1
    BY <1>2, <2>1 DEF Covered, CoverageRows
  <2> QED
    BY <1>1, <2>1, <2>2
    DEF LedgerInv, TypeOK, Phases, PhaseInv, BatchInv, LiveLedger, NoInvention,
        SettledLedger, CoverageRowsValid
<1>4. CASE ~Interrupted
  <2>1. UNCHANGED <<coverage, state>>
    BY <1>4 DEF RecoverCommit
  <2> QED
    BY <1>1, <1>4, <2>1
    DEF Interrupted, LedgerInv, TypeOK, Phases, PhaseInv, BatchInv, LiveLedger,
        NoInvention, SettledLedger, CoverageRowsValid
<1> QED
  BY <1>3, <1>4

\* The steps that only move the runner on, or create the marker.
LEMMA ControlKeepsLedger ==
  ASSUME LedgerInv,
         \/ FinishCollect \/ CollectorFails \/ Publish \/ Release
         \/ RecoverPublish \/ UNCHANGED vars
  PROVE  LedgerInv'
<1> USE DEF LedgerInv, TypeOK, Phases, PhaseInv, BatchInv, LiveLedger, NoInvention,
            SettledLedger, CoverageRowsValid, Live,
            collectorVars, memoryVars, fileVars, historyVars
<1>1. CASE FinishCollect
  BY <1>1 DEF FinishCollect
<1>2. CASE CollectorFails
  BY <1>2 DEF CollectorFails
<1>3. CASE Publish
  BY <1>3 DEF Publish
<1>4. CASE Release
  BY <1>4 DEF Release
<1>5. CASE RecoverPublish
  BY <1>5 DEF RecoverPublish
<1>6. CASE UNCHANGED vars
  BY <1>6 DEF vars
<1> QED
  BY <1>1, <1>2, <1>3, <1>4, <1>5, <1>6

\* A session begins with nothing reported, stored or lost.
LEMMA InitLedger == Init => LedgerInv
<1> SUFFICES ASSUME Init PROVE LedgerInv
  OBVIOUS
<1>1. /\ owed \in Counts
      /\ coverage \in [Categories -> CoverageRows]
      /\ \A c \in Categories : coverage[c].lost = 0
      /\ pages \in [now : Nat, kept : Nat]
  BY LimitsAssumption DEF Init, Counts, Covered, CoverageRows
<1>2. /\ batch = NoBatch /\ store = NoRows /\ losses = Zero
      /\ attempted = Zero /\ ignored = Zero
      /\ backend \in {"ebpf", "ptrace"} /\ introduced = {} /\ covered = FALSE
      /\ phase = "collecting" /\ saturated = FALSE /\ events = 0
      /\ countdown = 0 /\ state = "running" /\ marker = FALSE
  BY DEF Init
<1>3. \A c \in Categories : NoRows.rows[c] = 0
  BY ZeroType DEF NoRows
<1>4. TypeOK
  BY <1>1, <1>2, ZeroType, NoBatchType DEF TypeOK, Phases
<1>5. \A c \in Categories :
        /\ store.rows[c] = 0 /\ batch.data.rows[c] = 0 /\ batch.losses[c] = 0
        /\ losses[c] = 0 /\ attempted[c] = 0
  BY <1>2, <1>3, ZeroType, NoBatchType
<1>6. PhaseInv /\ SettledLedger
  BY <1>2 DEF PhaseInv, SettledLedger
<1>7. BatchInv /\ LiveLedger /\ NoInvention
  BY <1>5 DEF BatchInv, LiveLedger, NoInvention
<1>8. CoverageRowsValid
  BY <1>1 DEF CoverageRowsValid
<1> QED
  BY <1>4, <1>6, <1>7, <1>8 DEF LedgerInv

\* Every step of a session keeps the ledger.
LEMMA NextKeepsLedger == LedgerInv /\ [Next]_vars => LedgerInv'
<1> SUFFICES ASSUME LedgerInv, [Next]_vars PROVE LedgerInv'
  OBVIOUS
<1>1. CASE \E f \in Facts : Submit(f)
  BY <1>1, SubmitKeepsLedger
<1>2. CASE \E c \in Categories, n \in 1..MaxFacts : RecordLost(c, n)
  BY <1>2, RecordLostKeepsLedger
<1>3. CASE \E n \in 0..MaxFacts : SetCoverage(n)
  BY <1>3, SetCoverageKeepsLedger
<1>4. CASE NodeReadFails
  BY <1>4, NodeReadFailsKeepsLedger
<1>5. CASE Finalize
  BY <1>5, FinalizeKeepsLedger
<1>6. CASE Crash
  BY <1>6, CrashKeepsLedger
<1>7. CASE RecoverCommit
  BY <1>7, RecoverCommitKeepsLedger
<1>8. CASE \/ FinishCollect \/ CollectorFails \/ Publish \/ Release
           \/ RecoverPublish \/ Closed \/ UNCHANGED vars
  BY <1>8, ControlKeepsLedger DEF Closed
<1>9. CASE \E c \in Categories : CommitFull(c)
  BY <1>9, CommitFullKeepsLedger
<1> QED
  BY <1>1, <1>2, <1>3, <1>4, <1>5, <1>6, <1>7, <1>8, <1>9 DEF Next, Runner, Step

\* The ledger invariant holds throughout a session, its crashes and its
\* recovery included.
THEOREM LedgerHolds == Spec => []LedgerInv
<1>1. Init => LedgerInv
  BY InitLedger
<1>2. LedgerInv /\ [Next]_vars => LedgerInv'
  BY NextKeepsLedger
<1> QED
  BY <1>1, <1>2, PTL DEF Spec

\* The variables of a session keep their types.
THEOREM TypeCorrect == Spec => []TypeOK
<1>1. LedgerInv => TypeOK
  BY DEF LedgerInv
<1> QED
  BY <1>1, LedgerHolds, PTL

\* No fact the store answered for goes missing while the runner lives.
THEOREM NothingForgotten == Spec => []LiveLedger
<1>1. LedgerInv => LiveLedger
  BY DEF LedgerInv
<1> QED
  BY <1>1, LedgerHolds, PTL

\* A published session accounts for every fact the store answered for, or
\* says that it was interrupted.
THEOREM NoLossHidden == Spec => []PublishedLedger
<1>1. LedgerInv => PublishedLedger
  <2> SUFFICES ASSUME LedgerInv, marker PROVE PublishedLedger
    BY DEF PublishedLedger
  <2>1. state \in {"finalized", "interrupted"}
    BY DEF LedgerInv, PhaseInv, TypeOK
  <2> QED
    BY <2>1 DEF LedgerInv, SettledLedger, PublishedLedger
<1> QED
  BY <1>1, LedgerHolds, PTL

\* A complete category of a settled session holds every fact of it.
LEMMA CompleteRow ==
  ASSUME LedgerInv, state # "running", NEW c \in Categories,
         coverage[c].state = "complete"
  PROVE  store.rows[c] = attempted[c]
<1>1. /\ store.rows[c] \in Nat /\ batch.data.rows[c] \in Nat
      /\ attempted[c] \in Nat /\ coverage[c].lost \in Nat
  BY DEF LedgerInv, TypeOK, Rows, Batches, Counts, CoverageRows
<1>2. state = "finalized" /\ attempted[c] <= store.rows[c] + coverage[c].lost
  BY DEF LedgerInv, TypeOK, SettledLedger
<1>3. coverage[c].lost = 0
  BY <1>1 DEF LedgerInv, CoverageRowsValid
<1>4. store.rows[c] + batch.data.rows[c] <= attempted[c]
  BY DEF LedgerInv, NoInvention
<1> QED
  BY <1>1, <1>2, <1>3, <1>4

\* Complete coverage of a settled session is true of what reached the store.
THEOREM CompleteIsTrue == Spec => []CompleteIsStored
<1>1. LedgerInv => CompleteIsStored
  BY CompleteRow DEF CompleteIsStored
<1> QED
  BY <1>1, LedgerHolds, PTL

-----------------------------------------------------------------------------
(* The settled session and its readers. *)

\* No step of a settled session touches what it says or holds.
LEMMA SettledStep ==
  ASSUME LedgerInv, [Next]_vars, state # "running"
  PROVE  /\ UNCHANGED <<state, coverage, store, attempted>>
         /\ marker => marker'
<1>1. ~Live /\ marker \in BOOLEAN
  BY DEF LedgerInv, PhaseInv, TypeOK
<1>2. \A f \in Facts : ~Submit(f)
  <2> SUFFICES ASSUME NEW f \in Facts, Submit(f) PROVE Offered(f)
    BY <1>1 DEF Offered, Live
  <2> QED
    BY DEF Submit, Refuse, Saturate, Write, Ignore, Abandon, RefuseWithError, HandOver
<1>3. ~(\E c \in Categories, n \in 1..MaxFacts : RecordLost(c, n))
  BY <1>1 DEF RecordLost, Live
<1>4. ~(\E n \in 0..MaxFacts : SetCoverage(n))
  BY <1>1 DEF SetCoverage, Live
<1>5. ~NodeReadFails /\ ~Finalize /\ ~FinishCollect /\ ~CollectorFails
  BY <1>1 DEF NodeReadFails, Finalize, FinishCollect, CollectorFails, Live
<1>6. CASE Publish
  BY <1>6 DEF Publish, historyVars
<1>7. CASE Release
  BY <1>7 DEF Release, fileVars, historyVars
<1>8. CASE Crash
  BY <1>8 DEF Crash, historyVars
<1>9. CASE RecoverCommit
  BY <1>9 DEF RecoverCommit, Interrupted, historyVars
<1>10. CASE RecoverPublish
  BY <1>10 DEF RecoverPublish, historyVars
<1>11. CASE Closed \/ UNCHANGED vars
  BY <1>11 DEF Closed, vars, fileVars, historyVars
<1>12. ~(\E c \in Categories : CommitFull(c))
  BY <1>1 DEF CommitFull, Live
<1> QED
  BY <1>2, <1>3, <1>4, <1>5, <1>6, <1>7, <1>8, <1>9, <1>10, <1>11, <1>12
  DEF Next, Runner, Step

\* What a settled session says and holds never changes again.
THEOREM SettledForever == Spec => SettledOnce
<1>1. LedgerInv /\ [Next]_vars =>
        [state # "running" =>
           /\ state' = state
           /\ coverage' = coverage
           /\ store' = store]_vars
  BY SettledStep
<1> QED
  BY <1>1, LedgerHolds, PTL DEF Spec, SettledOnce

\* The store is never asked to unlearn a fact, and the marker is only created
\* by the steps that publish.
LEMMA ReportsGrow ==
  ASSUME LedgerInv, [Next]_vars
  PROVE  /\ \A c \in Categories : attempted[c] <= attempted'[c]
         /\ marker' # marker => phase \in {"committed", "recovered"} /\ UNCHANGED attempted
<1>1. attempted \in Counts /\ \A c \in Categories : attempted[c] \in Nat
  BY DEF LedgerInv, TypeOK, Counts
<1>2. CASE \E f \in Facts : Submit(f)
  <2>1. PICK f \in Facts : Submit(f)
    BY <1>2
  <2>2. CASE HandOver(f)
    BY <1>1, <2>2, HandOverType DEF LedgerInv
  <2>3. CASE ~HandOver(f)
    BY <1>1, <2>1, <2>3
    DEF Submit, Refuse, Saturate, Write, Ignore, Abandon, RefuseWithError
  <2> QED
    BY <2>2, <2>3
<1>3. CASE \E c \in Categories, n \in 1..MaxFacts : RecordLost(c, n)
  <2>1. PICK c \in Categories, n \in 1..MaxFacts : RecordLost(c, n)
    BY <1>3
  <2>2. n \in Nat /\ attempted' = AddTo(attempted, c, n) /\ marker' = marker
    BY <2>1, LimitsAssumption DEF RecordLost, fileVars
  <2>3. \A d \in Categories :
          attempted'[d] = IF d = c THEN attempted[d] + n ELSE attempted[d]
    BY <1>1, <2>2, AddToType
  <2> QED
    BY <1>1, <2>2, <2>3
<1>4. CASE \E n \in 0..MaxFacts : SetCoverage(n)
  BY <1>1, <1>4 DEF SetCoverage, historyVars
<1>5. CASE NodeReadFails
  BY <1>1, <1>5 DEF NodeReadFails, fileVars, historyVars
<1>6. CASE Finalize
  BY <1>1, <1>6 DEF Finalize, historyVars
<1>7. CASE FinishCollect \/ CollectorFails \/ Release
  BY <1>1, <1>7 DEF FinishCollect, CollectorFails, Release, fileVars, historyVars
<1>8. CASE Publish
  BY <1>1, <1>8 DEF Publish, historyVars
<1>9. CASE Crash \/ RecoverCommit
  BY <1>1, <1>9 DEF Crash, RecoverCommit, historyVars
<1>10. CASE RecoverPublish
  BY <1>1, <1>10 DEF RecoverPublish, historyVars
<1>11. CASE Closed \/ UNCHANGED vars
  BY <1>1, <1>11 DEF Closed, vars, fileVars, historyVars
<1>12. CASE \E c \in Categories : CommitFull(c)
  BY <1>1, <1>12 DEF CommitFull, historyVars
<1> QED
  BY <1>2, <1>3, <1>4, <1>5, <1>6, <1>7, <1>8, <1>9, <1>10, <1>11, <1>12
  DEF Next, Runner, Step

\* Until a collector declares its coverage, and while the session runs, no row
\* of the coverage table admits a loss.
Undeclared ==
  state = "running" /\ ~covered => \A c \in Categories : coverage[c].lost = 0

\* The steps that write the coverage table: a declaration, finalize, recovery.
LEMMA CoverageStep ==
  ASSUME LedgerInv, [Next]_vars
  PROVE  \/ UNCHANGED <<coverage, covered, state>>
         \/ /\ ~covered /\ state = "running" /\ UNCHANGED state
            /\ \/ UNCHANGED <<coverage, covered>>
               \/ covered' /\ \E n \in 0..MaxFacts : coverage' = Declared(n)
         \/ /\ state' # "running" /\ UNCHANGED covered
            /\ coverage' = WithLosses(coverage, losses') /\ losses' \in Counts
         \/ /\ state' # "running" /\ UNCHANGED covered
            /\ coverage' = [c \in Categories |-> Covered("partial", coverage[c].lost + 1)]
<1>1. CASE \E f \in Facts : Submit(f)
  BY <1>1
  DEF Submit, Refuse, Saturate, Write, Ignore, Abandon, RefuseWithError, HandOver,
      collectorVars
<1>2. CASE \E n \in 0..MaxFacts : SetCoverage(n)
  <2>1. PICK n \in 0..MaxFacts : SetCoverage(n)
    BY <1>2
  <2>2. state = "running"
    BY <2>1 DEF SetCoverage, LedgerInv, PhaseInv, Live
  <2>3. /\ ~covered /\ UNCHANGED state
        /\ \/ covered' = TRUE /\ coverage' = Declared(n)
           \/ covered' = FALSE /\ coverage' = coverage
    <3>1. PICK stored \in BOOLEAN :
            /\ covered' = stored
            /\ IF stored THEN coverage' = Declared(n) ELSE coverage' = coverage
      BY <2>1 DEF SetCoverage
    <3> QED
      BY <2>1, <3>1 DEF SetCoverage
  <2>4. CASE covered' = TRUE /\ coverage' = Declared(n)
    BY <2>2, <2>3, <2>4
  <2>5. CASE covered' = FALSE /\ coverage' = coverage
    <3>1. covered \in BOOLEAN
      BY DEF LedgerInv, TypeOK
    <3> QED
      BY <2>2, <2>3, <2>5, <3>1
  <2> QED
    BY <2>3, <2>4, <2>5
<1>3. CASE Finalize
  <2>1. losses' \in Counts
    BY <1>3, NextKeepsLedger DEF LedgerInv, TypeOK
  <2> QED
    BY <1>3, <2>1 DEF Finalize, collectorVars
<1>4. CASE RecoverCommit
  BY <1>4 DEF RecoverCommit, collectorVars
<1>5. CASE \/ \E c \in Categories : CommitFull(c)
           \/ \E c \in Categories, n \in 1..MaxFacts : RecordLost(c, n)
           \/ FinishCollect \/ CollectorFails \/ NodeReadFails \/ Publish \/ Release
           \/ Crash \/ RecoverPublish \/ Closed \/ UNCHANGED vars
  BY <1>5
  DEF CommitFull, RecordLost, FinishCollect, CollectorFails, NodeReadFails, Publish,
      Release, Crash, RecoverPublish, Closed, vars, collectorVars, fileVars
<1> QED
  BY <1>1, <1>2, <1>3, <1>4, <1>5 DEF Next, Runner, Step

\* No admitted loss is taken back, whatever is declared, finalized, crashed and
\* recovered.
THEOREM AdmittedForGood == Spec => LossesStay
<1> DEFINE Stay == \A c \in Categories :
                     /\ coverage'[c].lost >= coverage[c].lost
                     /\ coverage[c].state = "partial" /\ (covered \/ coverage[c].lost > 0) =>
                          coverage'[c].state = "partial"
<1>1. Init => Undeclared
  BY DEF Init, Undeclared, Covered
<1>2. LedgerInv /\ Undeclared /\ [Next]_vars => Undeclared'
  BY CoverageStep DEF Undeclared
<1>3. LedgerInv /\ Undeclared /\ [Next]_vars => [Stay]_vars
  <2> SUFFICES ASSUME LedgerInv, Undeclared, [Next]_vars, NEW c \in Categories
               PROVE  /\ coverage'[c].lost >= coverage[c].lost
                      /\ coverage[c].state = "partial" /\ (covered \/ coverage[c].lost > 0) =>
                           coverage'[c].state = "partial"
    OBVIOUS
  <2>1. coverage[c].lost \in Nat /\ coverage \in [Categories -> CoverageRows]
    BY DEF LedgerInv, TypeOK, CoverageRows
  <2>2. CASE UNCHANGED coverage
    BY <2>1, <2>2
  <2>3. CASE \E n \in 0..MaxFacts : coverage' = Declared(n) /\ ~covered /\ state = "running"
    <3>1. PICK n \in 0..MaxFacts : coverage' = Declared(n)
      BY <2>3
    <3>2. coverage[c].lost = 0
      BY <2>3 DEF Undeclared
    <3>3. n \in Nat /\ coverage'[c].lost \in Nat
      BY <2>1, <3>1, LimitsAssumption DEF Declared, Covered
    <3> QED
      BY <2>3, <3>2, <3>3
  <2>4. CASE coverage' = WithLosses(coverage, losses') /\ losses' \in Counts
    <3>1. losses'[c] \in Nat
      BY <2>4 DEF Counts
    <3> QED
      BY <2>1, <2>4, <3>1 DEF WithLosses, Covered
  <2>5. CASE coverage' = [d \in Categories |-> Covered("partial", coverage[d].lost + 1)]
    BY <2>1, <2>5 DEF Covered
  <2> QED
    BY <2>2, <2>3, <2>4, <2>5, CoverageStep
<1> QED
  BY <1>1, <1>2, <1>3, LedgerHolds, PTL DEF Spec, LossesStay

\* What a reader of a published session sees is honest.
LEMMA HonestView ==
  ASSUME LedgerInv, marker
  PROVE  Promise!Honest(ReaderView)
<1>1. /\ store \in Rows /\ batch \in Batches
      /\ attempted \in Counts /\ state # "running"
  BY DEF LedgerInv, TypeOK, PhaseInv
<1>2. ReaderView =
        [c \in Categories |->
           [stored |-> store.rows[c], whole |-> coverage[c].state = "complete"]]
  BY DEF ReaderView
<1>3. \A c \in Categories : coverage[c].state = "complete" => store.rows[c] = attempted[c]
  BY <1>1, CompleteRow
<1>4. \A c \in Categories :
        store.rows[c] \in Nat /\ batch.data.rows[c] \in Nat /\ attempted[c] \in Nat
  BY <1>1 DEF Rows, Batches, Counts
<1>5. \A c \in Categories : store.rows[c] <= attempted[c]
  BY <1>4 DEF LedgerInv, NoInvention
<1>6. ReaderView \in [Categories -> Promise!Summaries]
  BY <1>2, <1>4 DEF Promise!Summaries
<1> QED
  BY <1>2, <1>3, <1>5, <1>6 DEF Promise!Honest

\* A session implements the promise made to its readers.
THEOREM KeepsPromise == Spec => PromiseSpec
<1>1. Init => Promise!PromiseInit
  BY DEF Init, Promise!PromiseInit, Zero, ReaderView
<1>2. (LedgerInv /\ marker => Promise!Honest(ReaderView))'
  <2>1. LedgerInv /\ marker => Promise!Honest(ReaderView)
    BY HonestView
  <2> QED
    BY <2>1, PTL
<1>3. LedgerInv /\ LedgerInv' /\ [Next]_vars
        => [Promise!PromiseNext]_<<attempted, ReaderView>>
  <2> SUFFICES ASSUME LedgerInv, LedgerInv', [Next]_vars
               PROVE  [Promise!PromiseNext]_<<attempted, ReaderView>>
    OBVIOUS
  <2>1. marker \in BOOLEAN /\ marker' \in BOOLEAN /\ attempted' \in Counts
    BY DEF LedgerInv, TypeOK
  <2>2. CASE marker
    <3>1. state # "running"
      BY <2>2 DEF LedgerInv, PhaseInv
    <3>2. UNCHANGED <<attempted, store, coverage>> /\ marker'
      BY <2>2, <3>1, SettledStep
    <3> QED
      BY <2>1, <2>2, <3>2 DEF ReaderView
  <2>3. CASE ~marker /\ ~marker'
    <3>1. ReaderView = Unpublished /\ ReaderView' = Unpublished
      BY <2>3 DEF ReaderView
    <3>2. Promise!Report
      BY <2>1, <3>1, ReportsGrow DEF Promise!Report, Counts
    <3> QED
      BY <3>2 DEF Promise!PromiseNext
  <2>4. CASE ~marker /\ marker'
    <3>1. ReaderView = Unpublished /\ UNCHANGED attempted
      BY <2>1, <2>4, ReportsGrow DEF ReaderView
    <3>2. Promise!Honest(ReaderView)'
      BY <1>2, <2>4
    <3>3. Promise!Reveal
      BY <3>1, <3>2 DEF Promise!Reveal, Promise!Honest
    <3> QED
      BY <3>3 DEF Promise!PromiseNext
  <2> QED
    BY <2>1, <2>2, <2>3, <2>4
<1> QED
  BY <1>1, <1>3, LedgerHolds, PTL DEF Spec, PromiseSpec, Promise!PromiseSpec
-----------------------------------------------------------------------------
(* The limits. *)

\* What LimitsKept leaves open: rolled back events still count, an ended batch
\* holds none, and a rollback only gives pages back.
LimitsInv ==
  /\ store.events + batch.data.events <= events
  /\ events <= EventLimit
  /\ ~batch.open => batch.data.events = 0
  /\ pages.kept <= pages.now
  /\ ReserveKept

\* Ending a batch brings no event and no page that was not there before.
LEMMA EndBatchLimits ==
  ASSUME TypeOK, NEW b \in Batches, NEW l, NEW pg \in Nat, NEW outcome,
         pages.kept <= pg,
         EndBatch(b, l, pg, outcome)
  PROVE  /\ batch'.data.events = 0
         /\ store'.events <= store.events + b.data.events
         /\ pages'.kept <= pages'.now /\ pages'.now <= pg
<1>1. /\ store.events \in Nat /\ b.data.events \in Nat
      /\ pages.now \in Nat /\ pages.kept \in Nat
      /\ pages = [now |-> pages.now, kept |-> pages.kept]
  BY DEF TypeOK, Rows, Batches
<1>2. batch'.data.events = 0
  BY DEF EndBatch, NoBatch, NoRows
<1>3. CASE outcome = "ok"
  BY <1>1, <1>2, <1>3 DEF EndBatch, Merged
<1>4. CASE outcome # "ok"
  BY <1>1, <1>2, <1>4 DEF EndBatch
<1> QED
  BY <1>3, <1>4

\* A checkpoint keeps the batch and counts its pages.
LEMMA CheckpointLimits ==
  ASSUME TypeOK, NEW b \in Batches, NEW l, NEW pg \in Nat,
         b.open, pages.kept <= pg,
         Checkpoint(b, l, pg)
  PROVE  /\ store'.events + batch'.data.events <= store.events + b.data.events
         /\ ~batch'.open => batch'.data.events = 0
         /\ pages'.kept <= pages'.now /\ pages'.now <= pg
<1>1. store.events \in Nat /\ b.data.events \in Nat
  BY DEF TypeOK, Rows, Batches
<1>2. /\ batch' = [b EXCEPT !.writes = @ + 1]
      /\ pages' = [pages EXCEPT !.now = pg]
      /\ UNCHANGED store
  BY DEF Checkpoint
<1>3. batch'.data = b.data /\ batch'.open
  BY <1>2 DEF Batches
<1>4. pages'.kept = pages.kept /\ pages'.now = pg
  BY <1>2 DEF TypeOK
<1> QED
  BY <1>1, <1>2, <1>3, <1>4

\* The bound the pages stay under while k writes are left until the check.
Room(now, k) == now + k * MaxRowPages <= CapturePages - 1 + CheckEvery * MaxRowPages

\* A write takes its pages from what was set aside for it.
LEMMA WriteRoom ==
  ASSUME NEW now \in Nat, NEW k \in Nat \ {0}, NEW cost \in 0..MaxRowPages, Room(now, k)
  PROVE  Room(now + cost, k - 1)
<1>1. MaxRowPages \in Nat /\ CapturePages \in Nat /\ CheckEvery \in Nat
  BY LimitsAssumption
<1>2. k * MaxRowPages = (k - 1) * MaxRowPages + MaxRowPages
  BY <1>1
<1>3. /\ k * MaxRowPages \in Nat /\ (k - 1) * MaxRowPages \in Nat
      /\ CheckEvery * MaxRowPages \in Nat
  BY <1>1
<1> QED
  BY <1>1, <1>2, <1>3 DEF Room

\* Fewer pages leave no less room.
LEMMA RoomShrinks ==
  ASSUME NEW now \in Nat, NEW less \in Nat, less <= now, NEW k \in Nat, Room(now, k)
  PROVE  Room(less, k)
<1>1. MaxRowPages \in Nat /\ CapturePages \in Nat /\ CheckEvery \in Nat
  BY LimitsAssumption
<1>2. k * MaxRowPages \in Nat /\ CheckEvery * MaxRowPages \in Nat
  BY <1>1
<1> QED
  BY <1>1, <1>2 DEF Room

\* A fact that passes the size check has room for a write.
LEMMA RemainingRoom ==
  ASSUME TypeOK, LimitsInv, ~OverBudget
  PROVE  Remaining \in Nat \ {0} /\ Room(pages.now, Remaining)
<1>1. /\ MaxRowPages \in Nat /\ CapturePages \in Nat /\ CheckEvery \in Nat \ {0}
      /\ pages.now \in Nat /\ countdown \in Nat
  BY LimitsAssumption DEF TypeOK
<1>2. CheckEvery * MaxRowPages \in Nat
  BY <1>1
<1>3. CASE countdown = 0
  BY <1>1, <1>2, <1>3 DEF Remaining, OverBudget, Room
<1>4. CASE countdown # 0
  BY <1>1, <1>4 DEF Remaining, LimitsInv, ReserveKept, Room
<1> QED
  BY <1>3, <1>4

\* A step that takes no event and no page, and does not move the countdown.
LEMMA IdleKeepsLimits ==
  ASSUME LimitsInv, UNCHANGED <<batch, events, countdown, store, pages>>
  PROVE  LimitsInv'
  BY DEF LimitsInv, ReserveKept

\* A step that ends the batch as it is.
LEMMA EndKeepsLimits ==
  ASSUME TypeOK, TypeOK', LimitsInv, NEW l, NEW outcome,
         EndBatch(batch, l, pages.now, outcome), UNCHANGED <<events, countdown>>
  PROVE  LimitsInv'
<1>1. /\ batch'.data.events = 0
      /\ store'.events <= store.events + batch.data.events
      /\ pages'.kept <= pages'.now /\ pages'.now <= pages.now
  BY EndBatchLimits DEF TypeOK, LimitsInv
<1>2. Room(pages'.now, countdown')
  BY <1>1, RoomShrinks DEF TypeOK, LimitsInv, ReserveKept, Room
<1> QED
  BY <1>1, <1>2 DEF TypeOK, LimitsInv, ReserveKept, Room, Rows, Batches

\* A step that ends a batch, or finds none.
LEMMA FlushKeepsLimits ==
  ASSUME TypeOK, TypeOK', LimitsInv, NEW outcome, Flush(outcome), UNCHANGED <<events, countdown>>
  PROVE  LimitsInv'
<1>1. CASE ~batch.open
  BY <1>1, IdleKeepsLimits DEF Flush
<1>2. CASE batch.open
  BY <1>2, EndKeepsLimits DEF Flush
<1> QED
  BY <1>1, <1>2

\* What the batch holds once a fact is charged to it.
LEMMA OpenedLimits ==
  ASSUME TypeOK, LimitsInv, NEW c \in Categories
  PROVE  /\ Opened(c) \in Batches
         /\ Opened(c).open
         /\ Opened(c).data.events = batch.data.events
  BY OpenedType DEF LimitsInv, NoRows

\* Every sink call keeps the limits.
LEMMA SubmitKeepsLimits ==
  ASSUME LedgerInv, LedgerInv', LimitsInv, NEW f \in Facts, Submit(f)
  PROVE  LimitsInv'
<1>1. /\ TypeOK /\ TypeOK'
      /\ f.cat \in Categories /\ f.event \in BOOLEAN
  BY DEF LedgerInv, Facts
<1>2. /\ events \in Nat /\ EventLimit \in Nat
      /\ pages.now \in Nat /\ pages.kept \in Nat
      /\ pages'.now \in Nat /\ pages'.kept \in Nat
      /\ store.events \in Nat /\ batch.data.events \in Nat
      /\ store'.events \in Nat /\ batch'.data.events \in Nat
      /\ pages.kept <= pages.now
      /\ countdown \in Nat
  BY <1>1, LimitsAssumption DEF TypeOK, Rows, Batches, LimitsInv
<1>3. /\ Opened(f.cat) \in Batches
      /\ Opened(f.cat).open
      /\ Opened(f.cat).data.events = batch.data.events
  BY <1>1, OpenedLimits
<1>4. CASE (\E long \in BOOLEAN : Refuse(f, long)) \/ Saturate(f)
  BY <1>4, IdleKeepsLimits DEF Refuse, Saturate
<1>5. ASSUME NEW cost \in 0..MaxRowPages, Write(f, cost)
      PROVE  LimitsInv'
  <2> DEFINE b == [Opened(f.cat) EXCEPT !.data = Merged(@, RowOf(f))]
             pg == pages.now + cost
  <2>1. /\ Checkpoint(b, losses, pg)
        /\ events' = events + One(f.event)
        /\ countdown' = Remaining - 1
        /\ ~OverLimit(f) /\ ~OverBudget
    BY <1>5 DEF Write, Admitted
  <2>2. RowOf(f) \in Rows /\ RowOf(f).events = One(f.event) /\ One(f.event) \in 0..1
    BY RowOfType DEF RowOf, One
  <2>3. Merged(Opened(f.cat).data, RowOf(f)) \in Rows
    BY <1>3, <2>2, MergedType DEF Batches
  <2>4. b \in Batches /\ b.open /\ b.data.events = batch.data.events + One(f.event)
    BY <1>3, <2>2, <2>3 DEF Batches, Merged
  <2>5. pg \in Nat /\ pages.kept <= pg
    BY <1>2, LimitsAssumption
  <2> HIDE DEF b, pg
  <2>6. /\ store'.events + batch'.data.events <= store.events + b.data.events
        /\ ~batch'.open => batch'.data.events = 0
        /\ pages'.kept <= pages'.now /\ pages'.now <= pg
    BY <1>1, <2>1, <2>4, <2>5, CheckpointLimits
  <2>7. events + One(f.event) <= EventLimit
    BY <1>2, <2>1 DEF OverLimit, One, LimitsInv
  <2>8. Room(pages'.now, countdown')
    <3>1. Remaining \in Nat \ {0} /\ Room(pages.now, Remaining)
      BY <1>1, <2>1, RemainingRoom
    <3>2. Room(pg, Remaining - 1)
      BY <1>2, <3>1, WriteRoom DEF pg
    <3> QED
      BY <1>2, <2>1, <2>5, <2>6, <3>1, <3>2, RoomShrinks
  <2> QED
    BY <1>2, <2>1, <2>2, <2>4, <2>6, <2>7, <2>8 DEF LimitsInv, ReserveKept, Room
<1>6. CASE Ignore(f)
  <2> DEFINE o == Opened(f.cat)
             l == AddTo(losses, f.cat, 1)
  <2>1. /\ Checkpoint(o, l, pages.now)
        /\ events' = events /\ countdown' = Remaining /\ ~OverBudget
    BY <1>6 DEF Ignore, Admitted
  <2> HIDE DEF l
  <2>2. /\ store'.events + batch'.data.events <= store.events + batch.data.events
        /\ ~batch'.open => batch'.data.events = 0
        /\ pages'.kept <= pages'.now /\ pages'.now <= pages.now
    BY <1>1, <1>2, <1>3, <2>1, CheckpointLimits
  <2>3. Room(pages'.now, countdown')
    BY <1>1, <1>2, <2>1, <2>2, RemainingRoom, RoomShrinks
  <2> QED
    BY <1>2, <2>1, <2>2, <2>3 DEF LimitsInv, ReserveKept, Room
<1>7. ASSUME NEW outcome \in {"full", "error"}, Abandon(f, outcome)
      PROVE  LimitsInv'
  <2> DEFINE o == Opened(f.cat)
             l == NodeRetry(losses, f.cat, outcome)
  <2>1. /\ EndBatch(o, l, pages.now, outcome)
        /\ events' = events /\ countdown' = Remaining /\ ~OverBudget
    BY <1>7 DEF Abandon, Admitted
  <2> HIDE DEF l
  <2>2. /\ batch'.data.events = 0
        /\ store'.events <= store.events + batch.data.events
        /\ pages'.kept <= pages'.now /\ pages'.now <= pages.now
    BY <1>1, <1>2, <1>3, <2>1, EndBatchLimits
  <2>3. Room(pages'.now, countdown')
    BY <1>1, <1>2, <2>1, <2>2, RemainingRoom, RoomShrinks
  <2> QED
    BY <1>2, <2>1, <2>2, <2>3 DEF LimitsInv, ReserveKept, Room
<1>8. CASE RefuseWithError(f)
  <2>1. UNCHANGED <<batch, events, store, pages>>
    BY <1>8 DEF RefuseWithError
  <2>2. CASE countdown' = countdown
    BY <2>1, <2>2, IdleKeepsLimits
  <2>3. CASE ~OverBudget /\ countdown' = Remaining
    <3>1. Room(pages.now, Remaining)
      BY <1>1, <2>3, RemainingRoom
    <3> QED
      BY <1>2, <2>1, <2>3, <3>1 DEF LimitsInv, ReserveKept, Room
  <2> QED
    BY <1>8, <2>2, <2>3 DEF RefuseWithError
<1> QED
  BY <1>4, <1>5, <1>6, <1>7, <1>8 DEF Submit

\* A session begins within its limits.
LEMMA InitLimits == Init => LimitsInv
<1> SUFFICES ASSUME Init PROVE LimitsInv
  OBVIOUS
<1>1. CheckEvery * MaxRowPages \in Nat /\ 0 * MaxRowPages = 0
  BY LimitsAssumption
<1> QED
  BY <1>1, LimitsAssumption DEF Init, LimitsInv, ReserveKept, NoRows, NoBatch

\* Every step keeps the limits.
LEMMA NextKeepsLimits == LedgerInv /\ LedgerInv' /\ LimitsInv /\ [Next]_vars => LimitsInv'
<1> SUFFICES ASSUME LedgerInv, LedgerInv', LimitsInv, [Next]_vars PROVE LimitsInv'
  OBVIOUS
<1>1. TypeOK /\ TypeOK'
  BY DEF LedgerInv
<1>2. CASE \E f \in Facts : Submit(f)
  BY <1>2, SubmitKeepsLimits
<1>3. CASE (\E n \in 0..MaxFacts : SetCoverage(n)) \/ Finalize
  BY <1>1, <1>3, FlushKeepsLimits DEF SetCoverage, Finalize
<1>4. CASE Crash
  <2>1. /\ batch' = NoBatch /\ UNCHANGED <<events, countdown, store>>
        /\ pages'.now = pages.kept /\ pages'.kept = pages.kept
    BY <1>1, <1>4 DEF Crash, TypeOK
  <2>2. Room(pages'.now, countdown)
    BY <1>1, <2>1, RoomShrinks DEF TypeOK, LimitsInv, ReserveKept, Room
  <2> QED
    BY <1>1, <2>1, <2>2
    DEF TypeOK, Rows, Batches, LimitsInv, ReserveKept, Room, NoBatch, NoRows
<1>5. CASE \/ \E c \in Categories, n \in 1..MaxFacts : RecordLost(c, n)
           \/ FinishCollect \/ CollectorFails \/ NodeReadFails \/ Publish \/ Release
           \/ RecoverCommit \/ RecoverPublish \/ Closed \/ UNCHANGED vars
  <2>1. UNCHANGED <<batch, events, countdown, store, pages>>
    BY <1>5
    DEF RecordLost, FinishCollect, CollectorFails, NodeReadFails, Publish, Release,
        RecoverCommit, RecoverPublish, Closed, vars, memoryVars, fileVars
  <2> QED
    BY <2>1, IdleKeepsLimits
<1>6. CASE \E c \in Categories : CommitFull(c)
  BY <1>1, <1>6, EndKeepsLimits DEF CommitFull
<1> QED
  BY <1>2, <1>3, <1>4, <1>5, <1>6 DEF Next, Runner, Step

\* What a session keeps stays within event_count and its page budget, for any
\* limits, whatever batches are rolled back.
THEOREM WithinLimits == Spec => []LimitsKept
<1>1. LedgerInv /\ LimitsInv => LimitsKept
  <2> SUFFICES ASSUME LedgerInv, LimitsInv PROVE LimitsKept
    OBVIOUS
  <2>1. /\ store.events \in Nat /\ batch.data.events \in Nat
        /\ events \in Nat /\ EventLimit \in Nat
    BY LimitsAssumption DEF LedgerInv, TypeOK, Rows, Batches
  <2> QED
    BY <2>1 DEF LimitsInv, LimitsKept, EventsWithinLimit
<1>2. LedgerInv /\ LedgerInv' /\ LimitsInv /\ [Next]_vars => LimitsInv'
  BY NextKeepsLimits
<1> QED
  BY InitLimits, <1>1, <1>2, LedgerHolds, PTL DEF Spec

-----------------------------------------------------------------------------
(* The losses are not overstated. *)

\* What LossesBounded leaves open: the open batch may still be rolled back, and
\* every fact charged to it is then a loss.
ChargesBounded ==
  \A c \in Categories \ {NodeCategory} :
    store.rows[c] + losses[c] + batch.losses[c] <= attempted[c] + ignored[c]

\* Nothing is charged beyond what the batch b and the losses l already hold.
ChargesKept(b, l, d) ==
  store'.rows[d] + losses'[d] + batch'.losses[d] <= store.rows[d] + l[d] + b.losses[d]

\* Ending a batch counts each of its facts once, as a row or as a loss.
LEMMA EndBatchCharges ==
  ASSUME TypeOK, NEW b \in Batches, NEW l \in Counts, NEW pg, NEW outcome,
         \A c \in Categories : b.data.rows[c] <= b.losses[c],
         EndBatch(b, l, pg, outcome)
  PROVE  \A d \in Categories : ChargesKept(b, l, d)
<1> SUFFICES ASSUME NEW d \in Categories PROVE ChargesKept(b, l, d)
  OBVIOUS
<1>1. /\ store \in Rows /\ b.data \in Rows /\ b.losses \in Counts
      /\ store.rows[d] \in Nat /\ b.data.rows[d] \in Nat
      /\ l[d] \in Nat /\ b.losses[d] \in Nat
  BY DEF TypeOK, Rows, Batches, Counts
<1>2. batch'.losses[d] = 0
  BY NoBatchType DEF EndBatch
<1>3. CASE outcome = "ok"
  <2>1. losses' = l /\ store'.rows[d] = store.rows[d] + b.data.rows[d]
    BY <1>1, <1>3, MergedType DEF EndBatch
  <2> QED
    BY <1>1, <1>2, <2>1 DEF ChargesKept
<1>4. CASE outcome # "ok"
  <2>1. store' = store /\ losses'[d] = l[d] + b.losses[d]
    BY <1>1, <1>4, PlusType DEF EndBatch
  <2> QED
    BY <1>1, <1>2, <2>1 DEF ChargesKept
<1> QED
  BY <1>3, <1>4

\* The retry of a Node record adds to the Node category only.
LEMMA NodeRetryElsewhere ==
  ASSUME NEW l \in Counts, NEW c \in Categories, NEW outcome \in Outcomes
  PROVE  /\ NodeRetry(l, c, outcome) \in Counts
         /\ \A d \in Categories \ {NodeCategory} : NodeRetry(l, c, outcome)[d] = l[d]
<1>1. /\ AddTo(l, c, 1) \in Counts
      /\ \A d \in Categories : AddTo(l, c, 1)[d] = IF d = c THEN l[d] + 1 ELSE l[d]
  BY AddToType
<1> QED
  BY <1>1 DEF NodeRetry

\* A checkpoint keeps the batch.
LEMMA CheckpointCharges ==
  ASSUME TypeOK, NEW b \in Batches, NEW l \in Counts, NEW pg, Checkpoint(b, l, pg)
  PROVE  \A d \in Categories \ {NodeCategory} : ChargesKept(b, l, d)
<1>1. /\ batch' = [b EXCEPT !.writes = @ + 1]
      /\ losses' = l
      /\ UNCHANGED store
  BY DEF Checkpoint
<1>2. batch'.losses = b.losses
  BY <1>1 DEF Batches
<1> QED
  BY <1>1, <1>2 DEF ChargesKept, TypeOK, Rows, Batches, Counts

\* The arithmetic of a call: the fact is charged to the batch at most once, and
\* twice if its statement changed no row.
LEMMA ChargesAdd ==
  ASSUME LedgerInv, ChargesBounded, NEW f \in Facts,
         NEW l \in Counts, NEW b \in Batches,
         HandOver(f), NEW extra \in {0, 1},
         \A d \in Categories \ {NodeCategory} :
           /\ ChargesKept(b, l, d)
           /\ b.losses[d] + l[d]
                <= batch.losses[d] + losses[d] + (IF d = f.cat THEN 1 + extra ELSE 0)
           /\ ignored'[d] = ignored[d] + (IF d = f.cat THEN extra ELSE 0),
         TypeOK'
  PROVE  ChargesBounded'
<1> SUFFICES ASSUME NEW d \in Categories \ {NodeCategory}
             PROVE  store'.rows[d] + losses'[d] + batch'.losses[d] <= attempted'[d] + ignored'[d]
  BY DEF ChargesBounded
<1>1. attempted'[d] = attempted[d] + (IF d = f.cat THEN 1 ELSE 0)
  BY HandOverType DEF LedgerInv
<1>2. /\ store.rows[d] \in Nat /\ losses[d] \in Nat /\ batch.losses[d] \in Nat
      /\ attempted[d] \in Nat /\ ignored[d] \in Nat
  BY DEF LedgerInv, TypeOK, Rows, Batches, Counts
<1>3. /\ store'.rows[d] \in Nat /\ losses'[d] \in Nat /\ batch'.losses[d] \in Nat
      /\ b.losses[d] \in Nat /\ l[d] \in Nat
  BY DEF TypeOK, Rows, Batches, Counts
<1>4. store.rows[d] + losses[d] + batch.losses[d] <= attempted[d] + ignored[d]
  BY DEF ChargesBounded
<1> QED
  BY <1>1, <1>2, <1>3, <1>4 DEF ChargesKept

\* Every sink call keeps the charges bounded.
LEMMA SubmitKeepsCharges ==
  ASSUME LedgerInv, LedgerInv', ChargesBounded, NEW f \in Facts, Submit(f)
  PROVE  ChargesBounded'
<1>1. TypeOK /\ TypeOK' /\ f.cat \in Categories
  BY DEF LedgerInv, Facts
<1>2. /\ losses \in Counts /\ batch \in Batches /\ store \in Rows
      /\ ignored \in Counts
      /\ \A d \in Categories :
           /\ losses[d] \in Nat /\ batch.losses[d] \in Nat
           /\ ignored[d] \in Nat /\ store.rows[d] \in Nat
  BY <1>1 DEF TypeOK, Rows, Batches, Counts
<1>3. /\ AddTo(losses, f.cat, 1) \in Counts
      /\ \A d \in Categories :
           AddTo(losses, f.cat, 1)[d] = IF d = f.cat THEN losses[d] + 1 ELSE losses[d]
  BY <1>1, <1>2, AddToType
<1>4. /\ Opened(f.cat) \in Batches
      /\ \A d \in Categories :
           /\ Opened(f.cat).data.rows[d] = batch.data.rows[d]
           /\ Opened(f.cat).data.rows[d] + (IF d = f.cat THEN 1 ELSE 0)
                <= Opened(f.cat).losses[d]
           /\ Opened(f.cat).losses[d]
                <= batch.losses[d] + (IF d = f.cat THEN 1 ELSE 0)
  BY <1>1, <1>2, OpenedRows, OpenedType
<1>5. \A d \in Categories : Opened(f.cat).losses[d] \in Nat /\ Opened(f.cat).data.rows[d] \in Nat
  BY <1>4 DEF Batches, Rows, Counts
<1>6. ASSUME HandOver(f), losses' = AddTo(losses, f.cat, 1), UNCHANGED <<batch, store, ignored>>
      PROVE  ChargesBounded'
  <2>1. \A d \in Categories \ {NodeCategory} : ChargesKept(batch, losses', d)
    BY <1>2, <1>3, <1>6 DEF ChargesKept
  <2> QED
    BY <1>1, <1>2, <1>3, <1>6, <2>1, ChargesAdd
<1>7. ASSUME NEW cost \in 0..MaxRowPages, Write(f, cost)
      PROVE  ChargesBounded'
  <2> DEFINE o == Opened(f.cat)
             b == [o EXCEPT !.data = Merged(o.data, RowOf(f))]
  <2>1. /\ HandOver(f) /\ UNCHANGED ignored
        /\ Checkpoint(b, losses, pages.now + cost)
    BY <1>7 DEF Write
  <2>2. RowOf(f) \in Rows /\ o \in Batches /\ o.data \in Rows
    BY <1>4, RowOfType DEF Batches
  <2>3. /\ Merged(o.data, RowOf(f)) \in Rows
        /\ \A d \in Categories :
             Merged(o.data, RowOf(f)).rows[d]
               = o.data.rows[d] + (IF d = f.cat THEN 1 ELSE 0)
    BY <2>2, RowOfType, MergedType
  <2>4. b \in Batches /\ b.losses = o.losses /\ b.data = Merged(o.data, RowOf(f))
    BY <2>2, <2>3 DEF Batches
  <2>5. \A d \in Categories : b.data.rows[d] <= b.losses[d]
    BY <1>4, <2>3, <2>4
  <2> HIDE DEF b
  <2>6. \A d \in Categories \ {NodeCategory} : ChargesKept(b, losses, d)
    BY <1>1, <1>2, <2>1, <2>4, <2>5, CheckpointCharges
  <2> QED
    BY <1>1, <1>2, <1>4, <1>5, <2>1, <2>4, <2>6, ChargesAdd
<1>8. CASE Ignore(f)
  <2> DEFINE o == Opened(f.cat)
             l == AddTo(losses, f.cat, 1)
  <2>1. /\ HandOver(f) /\ ignored' = AddTo(ignored, f.cat, 1)
        /\ Checkpoint(o, l, pages.now)
    BY <1>8 DEF Ignore
  <2>2. \A d \in Categories : ignored'[d] = ignored[d] + (IF d = f.cat THEN 1 ELSE 0)
    <3>1. ignored \in Counts /\ \A d \in Categories : ignored[d] \in Nat
      BY DEF LedgerInv, TypeOK, Counts
    <3>2. \A d \in Categories :
            AddTo(ignored, f.cat, 1)[d] = IF d = f.cat THEN ignored[d] + 1 ELSE ignored[d]
      <4> HIDE DEF o, l
      <4> QED
        BY <1>1, <3>1, AddToType
    <3>3. ignored' = AddTo(ignored, f.cat, 1)
      BY <2>1
    <3> HIDE DEF o, l
    <3> QED
      BY <3>1, <3>2, <3>3
  <2>3. \A d \in Categories : o.data.rows[d] <= o.losses[d]
    BY <1>4, <1>5
  <2> HIDE DEF o, l
  <2>4. \A d \in Categories \ {NodeCategory} : ChargesKept(o, l, d)
    BY <1>1, <1>3, <1>4, <2>1, <2>3, CheckpointCharges DEF o, l
  <2> QED
    BY <1>1, <1>2, <1>3, <1>4, <1>5, <2>1, <2>2, <2>4, ChargesAdd DEF o, l
<1>9. ASSUME NEW outcome \in {"full", "error"}, Abandon(f, outcome)
      PROVE  ChargesBounded'
  <2> DEFINE o == Opened(f.cat)
             l == NodeRetry(losses, f.cat, outcome)
  <2>1. /\ HandOver(f) /\ UNCHANGED ignored
        /\ EndBatch(o, l, pages.now, outcome)
    BY <1>9 DEF Abandon
  <2>2. l \in Counts /\ \A d \in Categories \ {NodeCategory} : l[d] = losses[d]
    <3>1. outcome \in Outcomes
      BY DEF Outcomes
    <3> QED
      BY <1>1, <1>2, <3>1, NodeRetryElsewhere
  <2>3. \A d \in Categories : o.data.rows[d] <= o.losses[d]
    BY <1>4, <1>5
  <2> HIDE DEF o, l
  <2>4. \A d \in Categories : ChargesKept(o, l, d)
    BY <1>1, <1>4, <2>1, <2>2, <2>3, EndBatchCharges DEF o
  <2> QED
    BY <1>1, <1>2, <1>4, <1>5, <2>1, <2>2, <2>4, ChargesAdd DEF o
<1>10. CASE RefuseWithError(f)
  <2>1. CASE HandOver(f) /\ losses' = AddTo(losses, f.cat, 1)
    BY <1>6, <1>10, <2>1 DEF RefuseWithError
  <2>2. CASE UNCHANGED <<losses, attempted>>
    BY <1>10, <2>2 DEF RefuseWithError, ChargesBounded
  <2> QED
    BY <1>10, <2>1, <2>2 DEF RefuseWithError
<1> QED
  BY <1>6, <1>7, <1>8, <1>9, <1>10 DEF Submit, Refuse, Saturate

\* A step that ends the batch as it is.
LEMMA EndKeepsCharges ==
  ASSUME LedgerInv, LedgerInv', ChargesBounded, UNCHANGED historyVars,
         \A d \in Categories \ {NodeCategory} : ChargesKept(batch, losses, d)
  PROVE  ChargesBounded'
<1> SUFFICES ASSUME NEW d \in Categories \ {NodeCategory}
             PROVE  store'.rows[d] + losses'[d] + batch'.losses[d]
                      <= attempted'[d] + ignored'[d]
  BY DEF ChargesBounded
<1>1. /\ store.rows[d] \in Nat /\ losses[d] \in Nat /\ batch.losses[d] \in Nat
      /\ attempted[d] \in Nat /\ ignored[d] \in Nat
      /\ store'.rows[d] \in Nat /\ losses'[d] \in Nat /\ batch'.losses[d] \in Nat
  BY DEF LedgerInv, TypeOK, Rows, Batches, Counts
<1>2. store.rows[d] + losses[d] + batch.losses[d] <= attempted[d] + ignored[d]
  BY DEF ChargesBounded
<1> QED
  BY <1>1, <1>2 DEF ChargesKept, historyVars

\* A step that ends a batch, or finds none.
LEMMA FlushKeepsCharges ==
  ASSUME LedgerInv, LedgerInv', ChargesBounded,
         NEW outcome \in Outcomes, Flush(outcome), UNCHANGED historyVars
  PROVE  ChargesBounded'
<1>1. CASE ~batch.open
  BY <1>1 DEF Flush, ChargesBounded, historyVars
<1>2. CASE batch.open
  <2>1. EndBatch(batch, losses, pages.now, outcome)
    BY <1>2 DEF Flush
  <2>2. \A d \in Categories : ChargesKept(batch, losses, d)
    BY <2>1, EndBatchCharges DEF LedgerInv, TypeOK, BatchInv
  <2> QED
    BY <2>2, EndKeepsCharges
<1> QED
  BY <1>1, <1>2

\* The COMMIT of a full batch: a refused Node record is charged once more, to
\* the Node category only.
LEMMA CommitFullKeepsCharges ==
  ASSUME LedgerInv, LedgerInv', ChargesBounded, NEW c \in Categories, CommitFull(c)
  PROVE  ChargesBounded'
<1>1. PICK outcome \in Outcomes :
        EndBatch(batch, NodeRetry(losses, c, outcome), pages.now, outcome)
  BY DEF CommitFull
<1> DEFINE r == NodeRetry(losses, c, outcome)
<1>2. r \in Counts /\ \A d \in Categories \ {NodeCategory} : r[d] = losses[d]
  BY NodeRetryElsewhere DEF LedgerInv, TypeOK
<1>3. EndBatch(batch, r, pages.now, outcome)
  BY <1>1
<1> HIDE DEF r
<1>4. \A d \in Categories : ChargesKept(batch, r, d)
  BY <1>2, <1>3, EndBatchCharges DEF LedgerInv, TypeOK, BatchInv
<1>5. \A d \in Categories \ {NodeCategory} : ChargesKept(batch, losses, d)
  BY <1>2, <1>4 DEF ChargesKept
<1> QED
  BY <1>5, EndKeepsCharges DEF CommitFull

\* Every step keeps the charges bounded.
LEMMA NextKeepsCharges ==
  LedgerInv /\ LedgerInv' /\ ChargesBounded /\ [Next]_vars => ChargesBounded'
<1> SUFFICES ASSUME LedgerInv, LedgerInv', ChargesBounded, [Next]_vars
             PROVE  ChargesBounded'
  OBVIOUS
<1>1. \A d \in Categories :
        /\ store.rows[d] \in Nat /\ losses[d] \in Nat /\ batch.losses[d] \in Nat
        /\ attempted[d] \in Nat /\ ignored[d] \in Nat
  BY DEF LedgerInv, TypeOK, Rows, Batches, Counts
<1>2. CASE \E f \in Facts : Submit(f)
  BY <1>2, SubmitKeepsCharges
<1>3. CASE (\E n \in 0..MaxFacts : SetCoverage(n)) \/ Finalize
  BY <1>3, FlushKeepsCharges DEF SetCoverage, Finalize, historyVars
<1>4. ASSUME NEW c \in Categories, NEW n \in 1..MaxFacts, RecordLost(c, n)
      PROVE  ChargesBounded'
  <2>1. /\ losses \in Counts /\ attempted \in Counts
        /\ n \in Nat
        /\ losses' = AddTo(losses, c, n) /\ attempted' = AddTo(attempted, c, n)
        /\ UNCHANGED <<batch, store, ignored>>
    BY <1>4, LimitsAssumption DEF RecordLost, LedgerInv, TypeOK, fileVars
  <2>2. \A d \in Categories :
          /\ losses'[d] = losses[d] + (IF d = c THEN n ELSE 0)
          /\ attempted'[d] = attempted[d] + (IF d = c THEN n ELSE 0)
    <3>1. ASSUME NEW f \in Counts, NEW d \in Categories
          PROVE  AddTo(f, c, n)[d] = f[d] + (IF d = c THEN n ELSE 0)
      <4>1. f[d] \in Nat
        BY DEF Counts
      <4>2. AddTo(f, c, n)[d] = IF d = c THEN f[d] + n ELSE f[d]
        BY <2>1, AddToType
      <4> QED
        BY <4>1, <4>2
    <3>2. \A d \in Categories : AddTo(losses, c, n)[d] = losses[d] + (IF d = c THEN n ELSE 0)
      BY <2>1, <3>1
    <3>3. \A d \in Categories : AddTo(attempted, c, n)[d] = attempted[d] + (IF d = c THEN n ELSE 0)
      BY <2>1, <3>1
    <3> QED
      BY <2>1, <3>2, <3>3
  <2> QED
    BY <1>1, <2>1, <2>2 DEF ChargesBounded
<1>5. CASE NodeReadFails
  <2>1. /\ losses' = AddTo(losses, NodeCategory, 1) /\ NodeCategory \in Categories
        /\ losses \in Counts
        /\ UNCHANGED <<batch, store, attempted, ignored>>
    BY <1>5 DEF NodeReadFails, LedgerInv, TypeOK, fileVars, historyVars
  <2>2. \A d \in Categories \ {NodeCategory} : losses'[d] = losses[d]
    BY <2>1, AddToType
  <2> QED
    BY <2>1, <2>2 DEF ChargesBounded
<1>6. CASE Crash
  <2>1. /\ \A d \in Categories : losses'[d] = 0 /\ batch'.losses[d] = 0
        /\ UNCHANGED <<store, attempted, ignored>>
    BY <1>6, ZeroType, NoBatchType DEF Crash, historyVars
  <2> QED
    BY <1>1, <2>1 DEF ChargesBounded
<1>7. CASE \/ FinishCollect \/ CollectorFails \/ Publish \/ Release
           \/ RecoverCommit \/ RecoverPublish \/ Closed \/ UNCHANGED vars
  <2>1. UNCHANGED <<batch, losses, store, attempted, ignored>>
    BY <1>7
    DEF FinishCollect, CollectorFails, Publish, Release, RecoverCommit, RecoverPublish,
        Closed, vars, memoryVars, fileVars, historyVars
  <2> QED
    BY <2>1 DEF ChargesBounded
<1>8. CASE \E c \in Categories : CommitFull(c)
  BY <1>8, CommitFullKeepsCharges
<1> QED
  BY <1>2, <1>3, <1>4, <1>5, <1>6, <1>7, <1>8 DEF Next, Runner, Step

\* A published session does not claim losses it never had: outside the Node
\* records, losses exceed the facts that were not stored by at most the facts
\* whose statement changed no row, however often batches are rolled back.
THEOREM LossesNotOverstated == Spec => []LossesBounded
<1>1. Init => ChargesBounded
  BY ZeroType, NoBatchType DEF Init, ChargesBounded, NoRows
<1>2. LedgerInv /\ ChargesBounded => LossesBounded
  <2> SUFFICES ASSUME LedgerInv, ChargesBounded, NEW c \in Categories \ {NodeCategory}
               PROVE  store.rows[c] + losses[c] <= attempted[c] + ignored[c]
    BY DEF LossesBounded
  <2>1. /\ store.rows[c] \in Nat /\ losses[c] \in Nat /\ batch.losses[c] \in Nat
        /\ attempted[c] \in Nat /\ ignored[c] \in Nat
    BY DEF LedgerInv, TypeOK, Rows, Batches, Counts
  <2> QED
    BY <2>1 DEF ChargesBounded
<1> QED
  BY <1>1, <1>2, NextKeepsCharges, LedgerHolds, PTL DEF Spec

-----------------------------------------------------------------------------
(* What a crash takes is bounded. *)

\* The open batch holds no more rows than the writes it counted, and counts none
\* once it is full.
RiskInv ==
  /\ batch.writes <= BatchWrites
  /\ IsFiniteSet(AtRisk)
  /\ Cardinality(AtRisk) <= batch.writes

\* No row, no risk.
LEMMA NoRowsAtRisk ==
  ASSUME NEW counts, \A c \in Categories : counts[c] = 0
  PROVE  IsFiniteSet(RowsOf(counts)) /\ Cardinality(RowsOf(counts)) = 0
<1>1. RowsOf(counts) = {}
  BY DEF RowsOf
<1> QED
  BY <1>1, FS_EmptySet

\* One more row of some category is one more row.
LEMMA OneMoreRow ==
  ASSUME NEW a \in Counts, NEW b \in Counts, NEW c \in Categories,
         \A d \in Categories : b[d] = IF d = c THEN a[d] + 1 ELSE a[d],
         IsFiniteSet(RowsOf(a))
  PROVE  IsFiniteSet(RowsOf(b)) /\ Cardinality(RowsOf(b)) <= Cardinality(RowsOf(a)) + 1
<1> DEFINE new == <<c, b[c]>>
<1>1. \A d \in Categories : a[d] \in Nat /\ b[d] \in Nat
  BY DEF Counts
<1>2. 1..b[c] = (1..a[c]) \cup {b[c]}
  BY <1>1
<1>3. RowsOf(b) = RowsOf(a) \cup {new}
  <2>1. ASSUME NEW d \in Categories, NEW k
        PROVE  k \in 1..b[d] <=> k \in 1..a[d] \/ (d = c /\ k = b[c])
    BY <1>1, <1>2
  <2>2. ASSUME NEW row PROVE row \in RowsOf(b) <=> row \in RowsOf(a) \/ row = new
    <3>1. ASSUME NEW counts
          PROVE  row \in RowsOf(counts)
                   <=> \E d \in Categories : \E k \in 1..counts[d] : row = <<d, k>>
      BY DEF RowsOf
    <3> QED
      BY <2>1, <3>1
  <2> QED
    BY <2>2
<1>4. Cardinality(RowsOf(a)) \in Nat
  BY FS_CardinalityType
<1> HIDE DEF new
<1> QED
  BY <1>3, <1>4, FS_AddElement

\* A call counted as a write keeps the bound: it found a batch that was not full.
LEMMA CheckpointRisk ==
  ASSUME NEW b \in Batches, NEW l, NEW pg, b.writes < BatchWrites,
         IsFiniteSet(RowsOf(b.data.rows)),
         Cardinality(RowsOf(b.data.rows)) <= b.writes + 1,
         Checkpoint(b, l, pg)
  PROVE  RiskInv'
<1>1. b.writes \in Nat /\ BatchWrites \in Nat \ {0}
  BY LimitsAssumption DEF Batches
<1>2. batch'.writes = b.writes + 1 /\ batch'.data = b.data
  BY DEF Checkpoint, Batches
<1> QED
  BY <1>1, <1>2 DEF RiskInv, AtRisk

\* A step that leaves the batch alone, or ends it.
LEMMA EndedRisk ==
  ASSUME RiskInv, batch' \in {batch, NoBatch}
  PROVE  RiskInv'
<1>1. CASE batch' = batch
  BY <1>1 DEF RiskInv, AtRisk
<1>2. CASE batch' = NoBatch
  <2>1. \A d \in Categories : NoBatch.data.rows[d] = 0
    BY NoBatchType
  <2>2. IsFiniteSet(RowsOf(NoBatch.data.rows)) /\ Cardinality(RowsOf(NoBatch.data.rows)) = 0
    BY <2>1, NoRowsAtRisk
  <2>3. NoBatch.writes = 0 /\ BatchWrites \in Nat \ {0}
    BY LimitsAssumption DEF NoBatch
  <2> QED
    BY <1>2, <2>2, <2>3 DEF RiskInv, AtRisk
<1> QED
  BY <1>1, <1>2

\* Opening the batch puts no row at risk.
LEMMA OpenedRisk ==
  ASSUME LedgerInv, RiskInv, ~BatchFull, NEW c \in Categories
  PROVE  /\ Opened(c) \in Batches
         /\ Opened(c).writes < BatchWrites
         /\ IsFiniteSet(RowsOf(Opened(c).data.rows))
         /\ Cardinality(RowsOf(Opened(c).data.rows)) <= Opened(c).writes
<1>1. Opened(c) \in Batches
  BY OpenedRows
<1>2. CASE batch.open
  <2>1. Opened(c).data = batch.data /\ Opened(c).writes = batch.writes
    BY <1>2 DEF Opened, LedgerInv, TypeOK, Batches
  <2>2. batch.writes \in Nat /\ BatchWrites \in Nat
    BY LimitsAssumption DEF LedgerInv, TypeOK, Batches
  <2> QED
    BY <1>1, <2>1, <2>2 DEF RiskInv, AtRisk, BatchFull
<1>3. CASE ~batch.open
  <2>1. Opened(c).data = NoRows /\ Opened(c).writes = 0
    BY <1>3 DEF Opened, NoBatch
  <2>2. \A d \in Categories : NoRows.rows[d] = 0
    BY ZeroType DEF NoRows
  <2> QED
    BY <1>1, <2>1, <2>2, NoRowsAtRisk, LimitsAssumption
<1> QED
  BY <1>2, <1>3

\* A sink call keeps the bound.
LEMMA SubmitKeepsRisk ==
  ASSUME LedgerInv, RiskInv, ~BatchFull, NEW f \in Facts, Submit(f)
  PROVE  RiskInv'
<1>1. f.cat \in Categories
  BY DEF Facts
<1> DEFINE opened == Opened(f.cat)
<1>2. /\ opened \in Batches /\ opened.writes < BatchWrites
      /\ IsFiniteSet(RowsOf(opened.data.rows))
      /\ Cardinality(RowsOf(opened.data.rows)) <= opened.writes
  BY <1>1, OpenedRisk
<1>3. /\ opened.writes \in Nat /\ opened.data \in Rows /\ opened.data.rows \in Counts
      /\ Cardinality(RowsOf(opened.data.rows)) \in Nat
  BY <1>2, FS_CardinalityType DEF Batches, Rows
<1>4. ASSUME NEW cost \in 0..MaxRowPages, Write(f, cost) PROVE RiskInv'
  <2> DEFINE data == Merged(opened.data, RowOf(f))
             b == [opened EXCEPT !.data = data]
  <2>1. RowOf(f) \in Rows /\ RowOf(f).rows = AddTo(Zero, f.cat, 1)
    BY RowOfType DEF RowOf
  <2>2. data \in Rows
        /\ \A d \in Categories :
             data.rows[d] = opened.data.rows[d] + RowOf(f).rows[d]
    BY <1>3, <2>1, MergedType
  <2>3. \A d \in Categories : RowOf(f).rows[d] = IF d = f.cat THEN 1 ELSE 0
    <3>1. /\ Zero \in Counts /\ 1 \in Nat /\ \A d \in Categories : Zero[d] = 0
      BY ZeroType
    <3> HIDE DEF opened, data
    <3>2. \A d \in Categories :
            AddTo(Zero, f.cat, 1)[d] = IF d = f.cat THEN Zero[d] + 1 ELSE Zero[d]
      BY <1>1, <3>1, AddToType
    <3> QED
      BY <2>1, <3>1, <3>2
  <2>4. data.rows \in Counts /\ \A d \in Categories : opened.data.rows[d] \in Nat
    BY <1>3, <2>2 DEF Rows, Counts
  <2> HIDE DEF opened, data
  <2>5. \A d \in Categories :
          data.rows[d] = IF d = f.cat THEN opened.data.rows[d] + 1 ELSE opened.data.rows[d]
    BY <2>2, <2>3, <2>4
  <2>6. /\ IsFiniteSet(RowsOf(data.rows))
        /\ Cardinality(RowsOf(data.rows)) <= Cardinality(RowsOf(opened.data.rows)) + 1
    BY <1>1, <1>2, <1>3, <2>4, <2>5, OneMoreRow
  <2>7. b \in Batches /\ b.data = data /\ b.writes = opened.writes
    BY <1>2, <2>2 DEF Batches
  <2>8. Cardinality(RowsOf(data.rows)) \in Nat
    BY <2>6, FS_CardinalityType
  <2>9. Cardinality(RowsOf(b.data.rows)) <= b.writes + 1
    BY <1>2, <1>3, <2>6, <2>7, <2>8
  <2>10. Checkpoint(b, losses, pages.now + cost)
    BY <1>4 DEF Write, opened, data
  <2> HIDE DEF b
  <2> QED
    BY <1>2, <2>6, <2>7, <2>9, <2>10, CheckpointRisk
<1>5. CASE Ignore(f)
  <2>1. Checkpoint(opened, AddTo(losses, f.cat, 1), pages.now)
    BY <1>5 DEF Ignore
  <2> HIDE DEF opened
  <2> QED
    BY <1>2, <1>3, <2>1, CheckpointRisk
<1>6. CASE \/ \E long \in BOOLEAN : Refuse(f, long)
           \/ Saturate(f)
           \/ \E outcome \in {"full", "error"} : Abandon(f, outcome)
           \/ RefuseWithError(f)
  <2>1. batch' \in {batch, NoBatch}
    BY <1>6 DEF Refuse, Saturate, Abandon, EndBatch, RefuseWithError
  <2> QED
    BY <2>1, EndedRisk
<1> QED
  BY <1>4, <1>5, <1>6 DEF Submit

\* Every step keeps the bound.
LEMMA NextKeepsRisk == LedgerInv /\ RiskInv /\ [Next]_vars => RiskInv'
<1> SUFFICES ASSUME LedgerInv, RiskInv, [Next]_vars PROVE RiskInv'
  OBVIOUS
<1>1. CASE ~BatchFull /\ \E f \in Facts : Submit(f)
  BY <1>1, SubmitKeepsRisk
<1>2. CASE ~(~BatchFull /\ \E f \in Facts : Submit(f))
  <2>1. batch' \in {batch, NoBatch}
    BY <1>2
    DEF Next, Runner, Step, CommitFull, RecordLost, SetCoverage, Flush, EndBatch, FinishCollect,
        CollectorFails, NodeReadFails, Finalize, Publish, Release, Crash, RecoverCommit,
        RecoverPublish, Closed, vars, memoryVars
  <2> QED
    BY <2>1, EndedRisk
<1> QED
  BY <1>1, <1>2

\* A crash or a rollback loses at most the facts of one batch, for any
\* categories and any size of the batch, the COMMIT of a full one included.
THEOREM FewAtRisk == Spec => []AtRiskBounded
<1>1. Init => RiskInv
  <2> SUFFICES ASSUME Init PROVE RiskInv
    OBVIOUS
  <2>1. batch = NoBatch /\ NoBatch.writes = 0 /\ BatchWrites \in Nat \ {0}
    BY LimitsAssumption DEF Init, NoBatch
  <2>2. IsFiniteSet(RowsOf(NoBatch.data.rows)) /\ Cardinality(RowsOf(NoBatch.data.rows)) = 0
    BY NoBatchType, NoRowsAtRisk
  <2> QED
    BY <2>1, <2>2 DEF RiskInv, AtRisk
<1>2. LedgerInv /\ RiskInv => AtRiskBounded
  <2> SUFFICES ASSUME LedgerInv, RiskInv PROVE AtRiskBounded
    OBVIOUS
  <2>1. batch.writes \in Nat /\ BatchWrites \in Nat /\ Cardinality(AtRisk) \in Nat
    BY LimitsAssumption, FS_CardinalityType DEF LedgerInv, TypeOK, Batches, RiskInv
  <2> QED
    BY <2>1 DEF RiskInv, AtRiskBounded
<1> QED
  BY <1>1, <1>2, NextKeepsRisk, LedgerHolds, PTL DEF Spec
=============================================================================

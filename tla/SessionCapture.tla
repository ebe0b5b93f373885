--------------------------- MODULE SessionCapture ---------------------------
(***************************************************************************)
(* One ActiveSession of src/src/storage.rs, from the row that marks it     *)
(* 'running' to the marker file that publishes it, with the collector that *)
(* feeds it (src/src/collector/linux*.rs) reduced to the facts it still    *)
(* owes the store.                                                         *)
(*                                                                         *)
(* The store keeps facts in an SQLite transaction, the capture batch, that *)
(* is committed every BatchWrites calls; limits, a full database, a failed *)
(* commit or a crash throw facts away, and losses are kept in memory until *)
(* finalize adds them to the coverage rows.  The question is whether what  *)
(* a published session says of its own completeness is true.               *)
(***************************************************************************)
EXTENDS Naturals, FiniteSets

CONSTANTS
  Categories,     \* coverage rows of the session (node_enrichment only when instrumented)
  NodeCategory,   \* the category fed after the collector, from the Node event file
  ProcCategory,   \* the category of process rows, "processes"
  Processes,      \* process identities the collector may allocate
  NoProcess,      \* the NULL process of a fact that names none
  EventLimit,     \* CaptureLimits.event_count
  BatchWrites,    \* SQLITE_CAPTURE_BATCH_WRITES
  CheckEvery,     \* writes between two size checks
  CapturePages,   \* session_bytes - finalization_bytes, in pages
  SessionPages,   \* session_bytes, in pages (max_page_count)
  MaxRowPages,    \* most pages one insert adds
  Unpublished,    \* what a reader sees of a session without marker
  MaxFacts        \* bound of the model: facts a run produces per category

ASSUME CategoriesAssumption ==
  /\ ProcCategory \in Categories
  /\ NodeCategory # ProcCategory
  /\ NoProcess \notin Processes

ASSUME LimitsAssumption ==
  /\ EventLimit \in Nat \ {0}
  /\ BatchWrites \in Nat \ {0}
  /\ CheckEvery \in Nat \ {0}
  /\ CapturePages \in Nat \ {0, 1}
  /\ SessionPages \in Nat
  /\ CapturePages <= SessionPages
  /\ MaxRowPages \in Nat
  /\ MaxFacts \in Nat

VARIABLES
  \* The collector.
  backend,     \* "ebpf" declares coverage before it replays, "ptrace" after
  owed,        \* facts observed and not handed to the store yet, per category
  introduced,  \* process identities handed to the store
  covered,     \* set_coverage has been called
  phase,       \* where the runner is
  \* The fields of ActiveSession.
  losses,      \* capture_losses
  batch,       \* the capture transaction and capture_batch_losses
  saturated,   \* database_saturated
  events,      \* recorded_events
  countdown,   \* writes_until_size_check
  \* The files.
  store,       \* committed rows
  pages,       \* pages of the database, now and after a rollback
  coverage,    \* the coverage table
  state,       \* session.state
  marker,      \* the .finalized file
  \* History, read by properties only.
  attempted,   \* facts the store answered for, per category
  ignored      \* facts whose statement changed no row, per category

collectorVars == <<backend, owed, introduced, covered>>
memoryVars == <<losses, batch, saturated, events, countdown>>
fileVars == <<store, pages, coverage, state, marker>>
historyVars == <<attempted, ignored>>
vars == <<collectorVars, phase, memoryVars, fileVars, historyVars>>

-----------------------------------------------------------------------------
Counts == [Categories -> Nat]
Zero == [c \in Categories |-> 0]
Plus(f, g) == [c \in Categories |-> f[c] + g[c]]
AddTo(f, c, n) == [f EXCEPT ![c] = @ + n]

MaybeProcess == Processes \cup {NoProcess}

\* A call of the sink: the category it is charged to, whether it counts as an
\* event, the process row its statement needs, and the row it creates.
Facts ==
  [cat : Categories, event : BOOLEAN, needs : MaybeProcess, starts : MaybeProcess]

Rows == [rows : Counts, procs : SUBSET Processes, events : Nat]
NoRows == [rows |-> Zero, procs |-> {}, events |-> 0]

Batches ==
  [open : BOOLEAN, writes : Nat, losses : Counts, data : Rows]
NoBatch == [open |-> FALSE, writes |-> 0, losses |-> Zero, data |-> NoRows]

CoverageRows == [state : {"complete", "partial", "unavailable"}, lost : Nat]
Covered(s, n) == [state |-> s, lost |-> n]

Phases == {"collecting", "collected", "aborted", "committed", "crashed",
           "recovered", "published", "closed"}

\* What COMMIT or a statement may answer: done, SQLITE_FULL, any other error.
Outcomes == {"ok", "full", "error"}

-----------------------------------------------------------------------------
\* begin_in_mode_with_limits and initialize_database.
Init ==
  /\ backend \in {"ebpf", "ptrace"}
  /\ owed \in [Categories -> 0..MaxFacts]
  /\ introduced = {}
  /\ covered = FALSE
  /\ phase = "collecting"
  /\ losses = Zero
  /\ batch = NoBatch
  /\ saturated = FALSE
  /\ events = 0
  /\ countdown = 0
  /\ store = NoRows
  /\ pages = [now |-> 1, kept |-> 1]
  /\ coverage = [c \in Categories |->
                   IF c \in {ProcCategory, NodeCategory}
                   THEN Covered("partial", 0) ELSE Covered("unavailable", 0)]
  /\ state = "running"
  /\ marker = FALSE
  /\ attempted = Zero
  /\ ignored = Zero

-----------------------------------------------------------------------------
(* The capture batch. *)

\* Mutant of Opened: the fact is not charged to the batch.
OpenedUncharged(c) == IF batch.open THEN batch ELSE [NoBatch EXCEPT !.open = TRUE]

\* begin_capture_batch: the transaction is opened if need be, and the fact is
\* charged to it before its statement runs.
Opened(c) ==
  LET b == IF batch.open THEN batch ELSE [NoBatch EXCEPT !.open = TRUE]
  IN  [b EXCEPT !.losses = AddTo(@, c, 1)]

Merged(a, b) ==
  [rows |-> Plus(a.rows, b.rows), procs |-> a.procs \cup b.procs,
   events |-> a.events + b.events]

\* flush_capture_batch on an open batch b, when l is capture_losses and the
\* database holds pg pages.
EndBatch(b, l, pg, outcome) ==
  /\ batch' = NoBatch
  /\ saturated' = (saturated \/ outcome = "full")
  /\ IF outcome = "ok"
     THEN /\ store' = Merged(store, b.data)
          /\ losses' = l
          /\ pages' = [now |-> pg, kept |-> pg]
     ELSE /\ store' = store
          /\ losses' = Plus(l, b.losses)
          /\ pages' = [pages EXCEPT !.now = pages.kept]

\* A failed call ends the collection; NodeEnrichmentCapture::finish instead
\* counts the record as lost and goes on with the next one.
SinkFailed(c, outcome) ==
  IF outcome = "error" /\ c # NodeCategory THEN "aborted" ELSE phase

\* Mutant of NodeRetry: every failed call counts its fact, batched or not.
NodeRetryAlways(l, c, outcome) == IF outcome = "error" THEN AddTo(l, c, 1) ELSE l

\* The loss NodeEnrichmentCapture::finish adds for a record the sink refused.
NodeRetry(l, c, outcome) ==
  IF outcome = "error" /\ c = NodeCategory THEN AddTo(l, c, 1) ELSE l

\* Mutant of BatchFull: one write too late.
BatchOverfull == batch.writes > BatchWrites

\* The last counted write was the last of its batch: its call goes on with
\* COMMIT before anything else of this process runs.
BatchFull == batch.writes >= BatchWrites

\* checkpoint_capture_write up to the COMMIT a full batch calls for.
Checkpoint(b, l, pg) ==
  /\ batch' = [b EXCEPT !.writes = @ + 1]
  /\ losses' = l
  /\ pages' = [pages EXCEPT !.now = pg]
  /\ UNCHANGED <<store, saturated, phase>>

\* checkpoint_capture_write from that COMMIT on, and what the caller does with
\* the answer: Node records (c) are handed over once the collector is done.
CommitFull(c) ==
  /\ BatchFull
  /\ phase \in {"collecting", "collected", "aborted"}
  /\ c = NodeCategory <=> phase # "collecting"
  /\ \E outcome \in Outcomes :
       /\ EndBatch(batch, NodeRetry(losses, c, outcome), pages.now, outcome)
       /\ phase' = SinkFailed(c, outcome)
  /\ UNCHANGED <<collectorVars, events, countdown, coverage, state, marker, historyVars>>

-----------------------------------------------------------------------------
(* CollectorSink::record_* and record_node_enrichment. *)

\* What the collectors hand over: identities are allocated once and named only
\* afterwards; exec and exit update a process row; Node records name a process
\* by its operating-system id, which may be unknown, or that of two processes.
Offered(f) ==
  /\ owed[f.cat] > 0
  /\ IF f.cat = NodeCategory
     THEN /\ phase \in {"collected", "aborted"}
          /\ f.event
          /\ f.needs \in Processes
     ELSE /\ phase = "collecting"
          /\ backend = "ptrace" => ~covered
          /\ f.needs \in introduced \cup {NoProcess}
  /\ f.starts # NoProcess =>
       f.cat = ProcCategory /\ ~f.event /\ f.starts \notin introduced
  /\ f.cat = ProcCategory /\ ~f.event =>
       f.starts # NoProcess \/ f.needs # NoProcess

HandOver(f) ==
  /\ Offered(f)
  /\ owed' = [owed EXCEPT ![f.cat] = @ - 1]
  /\ introduced' = introduced \cup ({f.starts} \ {NoProcess})
  /\ attempted' = AddTo(attempted, f.cat, 1)
  /\ UNCHANGED <<backend, covered, coverage, state, marker>>

\* Mutant of OverLimit: one event too many.
OverLimitLate(f) == saturated \/ (f.event /\ events > EventLimit)

\* The session takes no more facts, or no more events.
OverLimit(f) == saturated \/ (f.event /\ events >= EventLimit)

Visible(f) ==
  f.needs \in store.procs \cup batch.data.procs \cup {NoProcess}

\* Mutant of Remaining: the countdown is not started again.
RemainingSpent == countdown

\* writes_until_size_check once capture_allowed has let the write through.
Remaining == IF countdown = 0 THEN CheckEvery ELSE countdown

\* Mutant of OverBudget: the check is one page late.
OverBudgetLate == countdown = 0 /\ pages.now > CapturePages

\* The size check of capture_allowed, due when the countdown is spent.
OverBudget == countdown = 0 /\ pages.now >= CapturePages

Admitted(f) == ~OverLimit(f) /\ ~OverBudget

\* Over a limit, or a text longer than text_bytes: counted, not written.
Refuse(f, long) ==
  /\ HandOver(f)
  /\ long \/ OverLimit(f)
  /\ losses' = AddTo(losses, f.cat, 1)
  /\ UNCHANGED <<phase, batch, saturated, events, countdown, store, pages, ignored>>

\* The size check finds the capture budget spent.
Saturate(f) ==
  /\ HandOver(f)
  /\ ~OverLimit(f)
  /\ OverBudget
  /\ saturated' = TRUE
  /\ losses' = AddTo(losses, f.cat, 1)
  /\ UNCHANGED <<phase, batch, events, countdown, store, pages, ignored>>

One(b) == IF b THEN 1 ELSE 0

RowOf(f) ==
  [rows |-> AddTo(Zero, f.cat, 1), procs |-> {f.starts} \ {NoProcess},
   events |-> One(f.event)]

\* finish_capture on Ok(n): the statement wrote its row, adding cost pages.
Write(f, cost) ==
  /\ HandOver(f)
  /\ Admitted(f)
  /\ Visible(f)
  /\ pages.now + cost <= SessionPages
  /\ countdown' = Remaining - 1
  /\ events' = events + One(f.event)
  /\ Checkpoint([Opened(f.cat) EXCEPT !.data = Merged(@, RowOf(f))],
                losses, pages.now + cost)
  /\ UNCHANGED ignored

\* finish_capture on Ok(0): the process the row names is not stored.
Ignore(f) ==
  /\ HandOver(f)
  /\ Admitted(f)
  /\ ~Visible(f)
  /\ countdown' = Remaining
  /\ ignored' = AddTo(ignored, f.cat, 1)
  /\ Checkpoint(Opened(f.cat), AddTo(losses, f.cat, 1), pages.now)
  /\ UNCHANGED events

\* finish_capture on Err: abandon_capture_batch, and the database is saturated
\* or the error returned.
Abandon(f, outcome) ==
  /\ HandOver(f)
  /\ Admitted(f)
  /\ EndBatch(Opened(f.cat), NodeRetry(losses, f.cat, outcome), pages.now, outcome)
  /\ countdown' = Remaining
  /\ phase' = SinkFailed(f.cat, outcome)
  /\ UNCHANGED <<events, ignored>>

\* The fallible steps before the batch is charged: the PRAGMAs of the size
\* check, then BEGIN IMMEDIATE.  Nothing is counted and the call fails.
RefuseWithError(f) ==
  /\ Offered(f)
  /\ ~OverLimit(f)
  /\ \/ countdown = 0 /\ countdown' = 0
     \/ ~OverBudget /\ ~batch.open /\ countdown' = Remaining
  /\ \/ /\ f.cat = NodeCategory
        /\ HandOver(f)
        /\ losses' = AddTo(losses, f.cat, 1)
        /\ UNCHANGED phase
     \/ /\ f.cat # NodeCategory
        /\ phase' = "aborted"
        /\ UNCHANGED <<collectorVars, losses, coverage, state, marker, attempted>>
  /\ UNCHANGED <<batch, saturated, events, store, pages, ignored>>

Submit(f) ==
  \/ \E long \in BOOLEAN : Refuse(f, long)
  \/ Saturate(f)
  \/ \E cost \in 0..MaxRowPages : Write(f, cost)
  \/ Ignore(f)
  \/ \E outcome \in {"full", "error"} : Abandon(f, outcome)
  \/ RefuseWithError(f)

\* record_lost_events: the collector itself gave up on n facts.
RecordLost(c, n) ==
  /\ c # NodeCategory
  /\ phase = "collecting"
  /\ n \in 1..owed[c]
  /\ owed' = [owed EXCEPT ![c] = @ - n]
  /\ losses' = AddTo(losses, c, n)
  /\ attempted' = AddTo(attempted, c, n)
  /\ UNCHANGED <<backend, introduced, covered, phase, batch, saturated, events,
                 countdown, fileVars, ignored>>

-----------------------------------------------------------------------------
(* The end of the collection. *)

\* Mutant of Flush: the batch is left to the rollback of its connection.
FlushForgotten(outcome) ==
  outcome = "ok" /\ UNCHANGED <<losses, batch, saturated, store, pages>>

\* flush_capture_batch, which does nothing without an open transaction.
Flush(outcome) ==
  IF batch.open THEN EndBatch(batch, losses, pages.now, outcome)
  ELSE outcome = "ok" /\ UNCHANGED <<losses, batch, saturated, store, pages>>

\* ebpf_coverage, and the coverage PtraceCollector::collect_inner declares.
Declared(n) ==
  [c \in Categories |->
     IF c = NodeCategory THEN coverage[c]
     ELSE IF c = ProcCategory /\ n = 0 THEN Covered("complete", 0)
     ELSE Covered("partial", n)]

\* set_coverage, with n records lost before they reached the collector.  The
\* eBPF collector calls it before Normalizer::replay, ptrace as its last act.
SetCoverage(n) ==
  /\ phase = "collecting"
  /\ ~covered
  /\ backend = "ptrace" =>
       n = 0 /\ \A c \in Categories \ {NodeCategory} : owed[c] = 0
  /\ \E outcome \in Outcomes, stored \in BOOLEAN :
       /\ Flush(outcome)
       /\ outcome = "error" => ~stored
       /\ covered' = stored
       /\ IF stored
          THEN coverage' = Declared(n) /\ phase' = phase
          ELSE coverage' = coverage /\ phase' = "aborted"
  /\ UNCHANGED <<backend, owed, introduced, events, countdown, state, marker,
                 historyVars>>

\* Collector::collect returns the exit status.
FinishCollect ==
  /\ phase = "collecting"
  /\ covered
  /\ \A c \in Categories \ {NodeCategory} : owed[c] = 0
  /\ phase' = "collected"
  /\ UNCHANGED <<collectorVars, memoryVars, fileVars, historyVars>>

\* Collector::collect returns an error of its own: a failed wait or ptrace
\* call, a failed reader thread, a root process the replay does not find.
CollectorFails ==
  /\ phase = "collecting"
  /\ phase' = "aborted"
  /\ UNCHANGED <<collectorVars, memoryVars, fileVars, historyVars>>

\* NodeEnrichmentCapture::finish when the event file cannot be read.
NodeReadFails ==
  /\ NodeCategory \in Categories
  /\ phase \in {"collected", "aborted"}
  /\ owed[NodeCategory] > 0
  /\ owed' = [owed EXCEPT ![NodeCategory] = 0]
  /\ losses' = AddTo(losses, NodeCategory, 1)
  /\ UNCHANGED <<backend, introduced, covered, phase, batch, saturated, events,
                 countdown, fileVars, historyVars>>

\* Mutant of WithLosses: the count of the row is replaced, not added to.
WithLossesFresh(rows, l) ==
  [c \in Categories |-> IF l[c] = 0 THEN rows[c] ELSE Covered("partial", l[c])]

\* Mutant of WithLosses: the state of the row is left as it was.
WithLossesQuiet(rows, l) ==
  [c \in Categories |-> Covered(rows[c].state, rows[c].lost + l[c])]

\* apply_capture_losses.
WithLosses(rows, l) ==
  [c \in Categories |->
     IF l[c] = 0 THEN rows[c] ELSE Covered("partial", rows[c].lost + l[c])]

\* ActiveSession::finalize up to the commit.  When it fails the session is
\* dropped unfinished, which leaves what a crash leaves.
Finalize ==
  /\ phase \in {"collected", "aborted"}
  /\ NodeCategory \in Categories => owed[NodeCategory] = 0
  /\ \E outcome \in Outcomes, committed \in BOOLEAN :
       /\ Flush(outcome)
       /\ outcome = "error" => ~committed
       /\ IF committed
          THEN /\ coverage' = WithLosses(coverage, losses')
               /\ state' = "finalized"
               /\ phase' = "committed"
          ELSE /\ phase' = "crashed"
               /\ UNCHANGED <<coverage, state>>
  /\ UNCHANGED <<collectorVars, events, countdown, marker, historyVars>>

\* create_finalized_marker, called by finalize.
Publish ==
  /\ phase = "committed"
  /\ marker' = TRUE
  /\ phase' = "published"
  /\ UNCHANGED <<collectorVars, memoryVars, store, pages, coverage, state,
                 historyVars>>

\* The lock file is removed: no later run looks at the session again.
Release ==
  /\ phase = "published"
  /\ phase' = "closed"
  /\ UNCHANGED <<collectorVars, memoryVars, fileVars, historyVars>>

-----------------------------------------------------------------------------
(* Crash and recovery. *)

\* The process dies: SQLite rolls the open transaction back, the counters in
\* memory are gone.
Crash ==
  /\ phase \notin {"crashed", "closed"}
  /\ phase' = "crashed"
  /\ batch' = NoBatch
  /\ losses' = Zero
  /\ pages' = [pages EXCEPT !.now = pages.kept]
  /\ UNCHANGED <<collectorVars, saturated, events, countdown, store, coverage,
                 state, marker, historyVars>>

\* Mutant of Interrupted: a settled session is interrupted too.
InterruptedAlways == TRUE

\* What recover_session calls interrupted.
Interrupted == state = "running"

\* recover_session up to the commit, in a later run.
RecoverCommit ==
  /\ phase = "crashed"
  /\ phase' = "recovered"
  /\ IF Interrupted
     THEN /\ coverage' = [c \in Categories |->
                            Covered("partial", coverage[c].lost + 1)]
          /\ state' = "interrupted"
     ELSE UNCHANGED <<coverage, state>>
  /\ UNCHANGED <<collectorVars, memoryVars, store, pages, marker, historyVars>>

\* Mutant of RecoverPublish: the marker comes before the commit.
RecoverPublishFirst ==
  /\ phase \in {"crashed", "recovered"}
  /\ marker' = TRUE
  /\ phase' = IF phase = "crashed" THEN phase ELSE "published"
  /\ UNCHANGED <<collectorVars, memoryVars, store, pages, coverage, state,
                 historyVars>>

\* Mutant of RecoverPublish: the lock file stays, and the next run finds it.
RecoverPublishAgain ==
  /\ phase = "recovered"
  /\ marker' = TRUE
  /\ phase' = "crashed"
  /\ UNCHANGED <<collectorVars, memoryVars, store, pages, coverage, state,
                 historyVars>>

\* create_finalized_marker, called by recover_session.
RecoverPublish ==
  /\ phase = "recovered"
  /\ marker' = TRUE
  /\ phase' = "published"
  /\ UNCHANGED <<collectorVars, memoryVars, store, pages, coverage, state,
                 historyVars>>

Closed == phase = "closed" /\ UNCHANGED vars

Step ==
  \/ \E f \in Facts : Submit(f)
  \/ \E c \in Categories, n \in 1..MaxFacts : RecordLost(c, n)
  \/ \E n \in 0..MaxFacts : SetCoverage(n)
  \/ FinishCollect
  \/ CollectorFails
  \/ NodeReadFails
  \/ Finalize
  \/ Publish
  \/ Release

Runner == (\E c \in Categories : CommitFull(c)) \/ (~BatchFull /\ Step)

Next == Runner \/ Crash \/ RecoverCommit \/ RecoverPublish \/ Closed

Spec == Init /\ [][Next]_vars

\* The runner and a later run's recovery go on as long as they can; crashes
\* and storage errors are never required to happen, nor to stop happening.
Fairness == WF_vars(Runner) /\ WF_vars(RecoverCommit) /\ WF_vars(RecoverPublish)

FairSpec == Spec /\ Fairness

-----------------------------------------------------------------------------
(* Properties. *)

TypeOK ==
  /\ backend \in {"ebpf", "ptrace"}
  /\ owed \in Counts
  /\ introduced \in SUBSET Processes
  /\ covered \in BOOLEAN
  /\ phase \in Phases
  /\ losses \in Counts
  /\ batch \in Batches
  /\ saturated \in BOOLEAN
  /\ events \in Nat
  /\ countdown \in Nat
  /\ store \in Rows
  /\ pages \in [now : Nat, kept : Nat]
  /\ coverage \in [Categories -> CoverageRows]
  /\ state \in {"running", "finalized", "interrupted"}
  /\ marker \in BOOLEAN
  /\ attempted \in Counts
  /\ ignored \in Counts

Live == phase \in {"collecting", "collected", "aborted"}

\* While the runner lives, every fact a sink call has answered for is a row, a
\* row of the open batch or a counted loss, whatever limit, full disk, failed
\* statement or rolled back batch came between.
LiveLedger ==
  Live => \A c \in Categories :
            attempted[c] <= store.rows[c] + batch.data.rows[c] + losses[c]

\* A fact is not stored twice nor stored without having been handed over.
NoInvention ==
  \A c \in Categories : store.rows[c] + batch.data.rows[c] <= attempted[c]

\* The published session hides no loss: what the store answered for and did
\* not keep is in lost_events, or the session says it was interrupted and
\* every category is partial with at least one loss.
PublishedLedger ==
  marker =>
    \/ /\ state = "finalized"
       /\ \A c \in Categories :
            attempted[c] <= store.rows[c] + coverage[c].lost
    \/ /\ state = "interrupted"
       /\ \A c \in Categories :
            coverage[c].state = "partial" /\ coverage[c].lost >= 1

\* A settled session whose processes are "complete" stores every process fact
\* the store answered for.
CompleteIsStored ==
  state # "running" =>
    \A c \in Categories :
      coverage[c].state = "complete" => store.rows[c] = attempted[c]

\* The strengthening of the ledger properties: what the phases imply of the
\* files, what an open batch is charged, and what a settled session says.
PhaseInv ==
  /\ Live => state = "running"
  /\ phase = "committed" => state = "finalized"
  /\ phase \in {"recovered", "published", "closed"} => state # "running"
  /\ phase \in {"published", "closed"} => marker
  /\ marker => state # "running"

BatchInv ==
  /\ \A c \in Categories : batch.data.rows[c] <= batch.losses[c]
  /\ ~batch.open \/ ~Live => \A c \in Categories : batch.data.rows[c] = 0

SettledLedger ==
  /\ state = "finalized" =>
       \A c \in Categories : attempted[c] <= store.rows[c] + coverage[c].lost
  /\ state = "interrupted" =>
       \A c \in Categories :
         coverage[c].state = "partial" /\ coverage[c].lost >= 1

\* What finalize publishes is not a loss the session never had: outside the
\* Node category, losses are over-counted at most once per fact whose statement
\* changed no row (finish_capture counts it, and a rollback of its batch again).
LossesBounded ==
  state = "finalized" /\ phase = "published" =>
    \A c \in Categories \ {NodeCategory} :
      store.rows[c] + losses[c] <= attempted[c] + ignored[c]

\* The CHECK constraint of the coverage table never fires: losses are only
\* ever written to a partial row.
CoverageRowsValid ==
  \A c \in Categories : coverage[c].lost > 0 => coverage[c].state = "partial"

\* The inductive invariant behind the ledger properties.
LedgerInv ==
  /\ TypeOK
  /\ PhaseInv
  /\ BatchInv
  /\ LiveLedger
  /\ NoInvention
  /\ SettledLedger
  /\ CoverageRowsValid

\* Captured rows that count as events (finalize adds the exit of the root
\* process from its own reserve) stay within event_count, rolled back batches
\* included.
EventsWithinLimit == store.events + batch.data.events <= EventLimit

\* Capture overruns its page budget by what the writes between two size checks
\* can add, and by no more: the rest of the reserve is left to finalize.
ReserveKept ==
  pages.now + countdown * MaxRowPages
    <= CapturePages - 1 + CheckEvery * MaxRowPages

\* What a session keeps stays within its limits, whatever is rolled back.
LimitsKept == EventsWithinLimit /\ ReserveKept

\* The rows of the open batch, which a rollback or a crash takes back.
RowsOf(counts) == UNION {{c} \X (1..counts[c]) : c \in Categories}
AtRisk == RowsOf(batch.data.rows)

\* A crash of the runner, or a rollback, loses at most BatchWrites facts of all
\* categories, one batch, whatever limit or failure comes between: the batch
\* is committed when it is full (SQLITE_CAPTURE_BATCH_WRITES), and at that
\* COMMIT all of it is still at risk.
AtRiskBounded == Cardinality(AtRisk) <= BatchWrites

\* The outcome, the coverage and the rows of a session are settled once: a
\* recovery that finds a settled session publishes it as it is.
SettledOnce ==
  [][state # "running" =>
       /\ state' = state
       /\ coverage' = coverage
       /\ store' = store]_vars

\* A loss the coverage table admits is never taken back: neither the coverage
\* a collector declares, nor the losses finalize adds to it, nor a recovery
\* lowers a count or makes a category of a declared session whole again.
LossesStay ==
  [][\A c \in Categories :
       /\ coverage'[c].lost >= coverage[c].lost
       /\ coverage[c].state = "partial" /\ (covered \/ coverage[c].lost > 0) =>
            coverage'[c].state = "partial"]_vars

\* README.md:26, "Process coverage is complete unless events are lost": a
\* settled session with complete process coverage has lost no process fact,
\* those the collector observed and never handed over included.
CompleteUnlessLost ==
  state # "running" /\ coverage[ProcCategory].state = "complete" =>
    /\ store.rows[ProcCategory] = attempted[ProcCategory]
    /\ owed[ProcCategory] = 0

\* The published session as its readers see it, and the promise it keeps.
ReaderView ==
  IF marker
  THEN [c \in Categories |->
          [stored |-> store.rows[c], whole |-> coverage[c].state = "complete"]]
  ELSE Unpublished

Promise == INSTANCE SessionPromise WITH reported <- attempted, view <- ReaderView

PromiseSpec == Promise!PromiseSpec

\* Unless the runs keep crashing, the session is published and let go.
EventuallyClosed == <>[][~Crash]_vars => <>(phase = "closed")
=============================================================================

-------------------------- MODULE SessionLifecycle --------------------------
(***************************************************************************)
(* Several execwake runs over one session store (src/src/storage.rs,       *)
(* src/src/runner.rs).  Every run first recovers the sessions whose lock   *)
(* file it finds and whose flock it gets, then begins, runs and finalizes  *)
(* a session of its own.  Runs are processes: they interleave between any  *)
(* two system calls and may die after each.                                *)
(*                                                                         *)
(* A lock file is a path to an inode; the flock belongs to the inode, so a *)
(* run may hold the flock of a file that is no longer at the path.         *)
(***************************************************************************)
EXTENDS Naturals, FiniteSets

CONSTANTS
  Runs,       \* processes, each running execwake again and again
  Sessions,   \* session ids SessionId::generate may return
  Inodes,     \* identities of lock files
  None,
  MaxCrashes  \* bound of the model: processes that die

ASSUME NoneAssumption == None \notin Runs \cup Sessions \cup Inodes
ASSUME MaxCrashesAssumption == MaxCrashes \in Nat

VARIABLES
  \* A process.
  pc,        \* what it does next
  todo,      \* sessions read_dir listed and recovery has not visited
  at,        \* the session in hand
  fd,        \* the lock file it has open
  flocks,    \* the processes that hold the flock of the file they have open
  \* The store.
  lock,      \* <id>.lock: an inode, or None
  database,  \* <id>.sqlite3: no file, no session row yet, or session.state
  marker,    \* <id>.finalized
  auxiliary, \* <id>.node-events and <id>.node-preload.cjs
  \* History.
  owner,     \* the process that generated the id
  crashes,   \* processes that died
  overtaken  \* sessions a recovery locked before the run that began them could

processVars == <<pc, todo, at, fd, flocks>>
storeVars == <<lock, database, marker, auxiliary>>
vars == <<processVars, storeVars, owner, crashes, overtaken>>

-----------------------------------------------------------------------------
Settled == {"finalized", "interrupted"}
HasRow == {"running"} \cup Settled
Databases == {"none", "empty"} \cup HasRow

\* recover_interrupted and recover_session.
Recovering == {"scan", "opened", "locked", "commit", "mark", "clean", "unlock", "remove"}
\* begin_in_mode_with_limits, with its error path.
Beginning == {"created", "creating", "initializing"}
Undoing == {"undo_lock", "undo_database"}
\* The session is active: its run has a row marked 'running' and the flock.
Active == {"running", "instrumented", "collected"}
\* finalize after its commit, and the return to the caller.
Finishing == {"publish", "release", "remove_own", "returning"}
Steps == {"idle"} \cup Recovering \cup Beginning \cup Undoing \cup Active \cup Finishing

\* The run that generated s is at one of these steps with it.
OwnerIn(s, steps) == owner[s] # None /\ at[owner[s]] = s /\ pc[owner[s]] \in steps
InUse(s) == OwnerIn(s, Beginning \cup Active \cup {"publish"})

\* Mutant of Held: the lock excludes nobody.
HeldNever(i) == FALSE

\* Some process has the flock of the file.
Held(i) == \E q \in flocks : fd[q] = i

\* An inode exists while a path or an open file refers to it.
FreeInodes == Inodes \ ({lock[s] : s \in Sessions} \cup {fd[q] : q \in Runs})

Goto(p, step) == pc' = [pc EXCEPT ![p] = step]

\* The lock file of p is closed, and its flock with it.
Close(p) == flocks' = flocks \ {p} /\ fd' = [fd EXCEPT ![p] = None]

\* The run is over; a new one may start in its place.
Exit(p) ==
  /\ Goto(p, "idle")
  /\ Close(p)
  /\ at' = [at EXCEPT ![p] = None]
  /\ todo' = [todo EXCEPT ![p] = {}]

\* Recovery goes on with the next lock file.
Rescan(p) ==
  /\ Goto(p, "scan")
  /\ Close(p)
  /\ at' = [at EXCEPT ![p] = None]
  /\ UNCHANGED todo

\* remove_file on the lock of s.
Remove(s) == lock' = [lock EXCEPT ![s] = None]

Init ==
  /\ pc = [p \in Runs |-> "idle"]
  /\ todo = [p \in Runs |-> {}]
  /\ at = [p \in Runs |-> None]
  /\ fd = [p \in Runs |-> None]
  /\ flocks = {}
  /\ lock = [s \in Sessions |-> None]
  /\ database = [s \in Sessions |-> "none"]
  /\ marker = [s \in Sessions |-> FALSE]
  /\ auxiliary = [s \in Sessions |-> FALSE]
  /\ owner = [s \in Sessions |-> None]
  /\ crashes = 0
  /\ overtaken = {}

-----------------------------------------------------------------------------
(* run: recover_interrupted. *)

\* read_dir lists the lock files.
Start(p) ==
  /\ pc[p] = "idle"
  /\ todo' = [todo EXCEPT ![p] = {s \in Sessions : lock[s] # None}]
  /\ Goto(p, "scan")
  /\ UNCHANGED <<at, fd, flocks, storeVars, owner, crashes, overtaken>>

\* open_private_lock, which creates the file if it has gone meanwhile.
OpenLock(p) ==
  /\ pc[p] = "scan"
  /\ \E s \in todo[p] :
       /\ todo' = [todo EXCEPT ![p] = @ \ {s}]
       /\ at' = [at EXCEPT ![p] = s]
       /\ \E i \in IF lock[s] = None THEN FreeInodes ELSE {lock[s]} :
            /\ lock' = [lock EXCEPT ![s] = i]
            /\ fd' = [fd EXCEPT ![p] = i]
  /\ Goto(p, "opened")
  /\ UNCHANGED <<flocks, database, marker, auxiliary, owner, crashes, overtaken>>

\* try_lock_exclusive: another holder means the session is active.
TryLock(p) ==
  /\ pc[p] = "opened"
  /\ IF Held(fd[p])
     THEN Rescan(p) /\ UNCHANGED overtaken
     ELSE /\ flocks' = flocks \cup {p}
          /\ Goto(p, "locked")
          /\ overtaken' = overtaken \cup
               {s \in {at[p]} : OwnerIn(s, {"created"})}
          /\ UNCHANGED <<todo, at, fd>>
  /\ UNCHANGED <<storeVars, owner, crashes>>

\* Mutant of CheckDatabase: the marker is created before the transaction.
CheckDatabaseMarks(p) ==
  /\ pc[p] = "locked"
  /\ Goto(p, IF database[at[p]] = "none" THEN "clean" ELSE "mark")
  /\ UNCHANGED <<todo, at, fd, flocks, storeVars, owner, crashes, overtaken>>

\* Mutant of CheckDatabase: nothing is left to do for a settled session.
CheckDatabaseSkips(p) ==
  /\ pc[p] = "locked"
  /\ Goto(p, IF database[at[p]] \in {"none"} \cup Settled THEN "clean" ELSE "commit")
  /\ UNCHANGED <<todo, at, fd, flocks, storeVars, owner, crashes, overtaken>>

\* is_regular_file(database).
CheckDatabase(p) ==
  /\ pc[p] = "locked"
  /\ Goto(p, IF database[at[p]] = "none" THEN "clean" ELSE "commit")
  /\ UNCHANGED <<todo, at, fd, flocks, storeVars, owner, crashes, overtaken>>

\* Mutant of Interrupted: a settled session is interrupted again.
InterruptedAlways(d) == "interrupted"

\* The state recover_session leaves a row in.
Interrupted(d) == IF d = "running" THEN "interrupted" ELSE d

\* The transaction of recover_session.  Without a session row the query fails,
\* recover_session returns the error and the whole run ends.
RecoverCommit(p) ==
  /\ pc[p] = "commit"
  /\ IF database[at[p]] \in HasRow
     THEN /\ database' = [database EXCEPT ![at[p]] = Interrupted(@)]
          /\ Goto(p, "mark")
          /\ UNCHANGED <<todo, at, fd, flocks>>
     ELSE Exit(p) /\ UNCHANGED database
  /\ UNCHANGED <<lock, marker, auxiliary, owner, crashes, overtaken>>

\* Mutant of RecoverMark: the auxiliary files are forgotten.
RecoverMarkOnly(p) ==
  /\ pc[p] = "mark"
  /\ marker' = [marker EXCEPT ![at[p]] = TRUE]
  /\ Goto(p, "unlock")
  /\ UNCHANGED <<todo, at, fd, flocks, lock, database, auxiliary, owner, crashes, overtaken>>

\* create_finalized_marker.
RecoverMark(p) ==
  /\ pc[p] = "mark"
  /\ marker' = [marker EXCEPT ![at[p]] = TRUE]
  /\ Goto(p, "clean")
  /\ UNCHANGED <<todo, at, fd, flocks, lock, database, auxiliary, owner, crashes, overtaken>>

\* cleanup_session_files.
CleanUp(p) ==
  /\ pc[p] = "clean"
  /\ auxiliary' = [auxiliary EXCEPT ![at[p]] = FALSE]
  /\ Goto(p, "unlock")
  /\ UNCHANGED <<todo, at, fd, flocks, lock, database, marker, owner, crashes, overtaken>>

\* unlock and drop.
Unlock(p) ==
  /\ pc[p] = "unlock"
  /\ Close(p)
  /\ Goto(p, "remove")
  /\ UNCHANGED <<todo, at, storeVars, owner, crashes, overtaken>>

\* remove_file(lock), which fails the run when the file has gone.
RemoveLock(p) ==
  /\ pc[p] = "remove"
  /\ Remove(at[p])
  /\ IF lock[at[p]] = None THEN Exit(p) ELSE Rescan(p)
  /\ UNCHANGED <<database, marker, auxiliary, owner, crashes, overtaken>>

\* A run may also end here: it begins a session the model does not track.
EndScan(p) ==
  /\ pc[p] = "scan"
  /\ todo[p] = {}
  /\ Exit(p)
  /\ UNCHANGED <<storeVars, owner, crashes, overtaken>>

-----------------------------------------------------------------------------
(* begin_in_mode_with_limits. *)

\* new_session_paths and create_private_file(lock): ids are random, so no two
\* runs generate the same one.
CreateLock(p) ==
  /\ pc[p] = "scan"
  /\ todo[p] = {}
  /\ \E s \in Sessions, i \in FreeInodes :
       /\ owner[s] = None
       /\ owner' = [owner EXCEPT ![s] = p]
       /\ at' = [at EXCEPT ![p] = s]
       /\ lock' = [lock EXCEPT ![s] = i]
       /\ fd' = [fd EXCEPT ![p] = i]
  /\ Goto(p, "created")
  /\ UNCHANGED <<todo, flocks, database, marker, auxiliary, crashes, overtaken>>

\* try_lock_exclusive: begin fails when a recovery came first.
LockOwn(p) ==
  /\ pc[p] = "created"
  /\ IF Held(fd[p])
     THEN Exit(p)
     ELSE /\ flocks' = flocks \cup {p}
          /\ Goto(p, "creating")
          /\ UNCHANGED <<todo, at, fd>>
  /\ UNCHANGED <<storeVars, owner, crashes, overtaken>>

\* create_private_file(database).
CreateDatabase(p) ==
  /\ pc[p] = "creating"
  /\ database' = [database EXCEPT ![at[p]] = "empty"]
  /\ Goto(p, "initializing")
  /\ UNCHANGED <<todo, at, fd, flocks, lock, marker, auxiliary, owner, crashes, overtaken>>

\* initialize_database commits the session row, or fails: then the lock is
\* given up and both files are removed, errors ignored.
InitializeDatabase(p) ==
  /\ pc[p] = "initializing"
  /\ \/ /\ database' = [database EXCEPT ![at[p]] = "running"]
        /\ Goto(p, "running")
        /\ UNCHANGED <<fd, flocks>>
     \/ /\ Close(p)
        /\ Goto(p, "undo_lock")
        /\ UNCHANGED database
  /\ UNCHANGED <<todo, at, lock, marker, auxiliary, owner, crashes, overtaken>>

UndoLock(p) ==
  /\ pc[p] = "undo_lock"
  /\ Remove(at[p])
  /\ Goto(p, "undo_database")
  /\ UNCHANGED <<todo, at, fd, flocks, database, marker, auxiliary, owner, crashes, overtaken>>

UndoDatabase(p) ==
  /\ pc[p] = "undo_database"
  /\ database' = [database EXCEPT ![at[p]] = "none"]
  /\ Exit(p)
  /\ UNCHANGED <<lock, marker, auxiliary, owner, crashes, overtaken>>

-----------------------------------------------------------------------------
(* run_in_store_with_options and finalize. *)

\* NodeEnrichmentCapture::install.
Install(p) ==
  /\ pc[p] = "running"
  /\ auxiliary' = [auxiliary EXCEPT ![at[p]] = TRUE]
  /\ Goto(p, "instrumented")
  /\ UNCHANGED <<todo, at, fd, flocks, lock, database, marker, owner, crashes, overtaken>>

\* NodeEnrichmentCapture::finish consumes the capture, whose drop removes the
\* files.
FinishCapture(p) ==
  /\ pc[p] = "instrumented"
  /\ auxiliary' = [auxiliary EXCEPT ![at[p]] = FALSE]
  /\ Goto(p, "collected")
  /\ UNCHANGED <<todo, at, fd, flocks, lock, database, marker, owner, crashes, overtaken>>

\* The transaction of finalize; "session is not running" when the UPDATE finds
\* no running row.  The session of an instrumented run whose collector or
\* child does not start is finalized with the capture still installed.
Finalize(p) ==
  /\ pc[p] \in Active
  /\ IF database[at[p]] = "running"
     THEN /\ database' = [database EXCEPT ![at[p]] = "finalized"]
          /\ Goto(p, "publish")
          /\ UNCHANGED <<fd, flocks>>
     ELSE Close(p) /\ Goto(p, "returning") /\ UNCHANGED database
  /\ UNCHANGED <<todo, at, lock, marker, auxiliary, owner, crashes, overtaken>>

Publish(p) ==
  /\ pc[p] = "publish"
  /\ marker' = [marker EXCEPT ![at[p]] = TRUE]
  /\ Goto(p, "release")
  /\ UNCHANGED <<todo, at, fd, flocks, lock, database, auxiliary, owner, crashes, overtaken>>

Release(p) ==
  /\ pc[p] = "release"
  /\ Close(p)
  /\ Goto(p, "remove_own")
  /\ UNCHANGED <<todo, at, storeVars, owner, crashes, overtaken>>

\* remove_file(lock), the last step that may fail finalize.
RemoveOwnLock(p) ==
  /\ pc[p] = "remove_own"
  /\ Remove(at[p])
  /\ Goto(p, "returning")
  /\ UNCHANGED <<todo, at, fd, flocks, database, marker, auxiliary, owner, crashes, overtaken>>

\* The locals of run_in_store_with_options are dropped.
Return(p) ==
  /\ pc[p] = "returning"
  /\ auxiliary' = [auxiliary EXCEPT ![at[p]] = FALSE]
  /\ Exit(p)
  /\ UNCHANGED <<lock, database, marker, owner, crashes, overtaken>>

\* A storage error ends the run: the capture is dropped, then the session,
\* which only unlocks.
DropSession(p) ==
  /\ pc[p] \in Active \cup {"publish"}
  /\ auxiliary' = [auxiliary EXCEPT ![at[p]] = FALSE]
  /\ Exit(p)
  /\ UNCHANGED <<lock, database, marker, owner, crashes, overtaken>>

\* The process dies between two system calls.
Crash(p) ==
  /\ pc[p] # "idle"
  /\ crashes < MaxCrashes
  /\ crashes' = crashes + 1
  /\ Exit(p)
  /\ UNCHANGED <<storeVars, owner, overtaken>>

Recover(p) ==
  \/ OpenLock(p) \/ TryLock(p) \/ CheckDatabase(p) \/ RecoverCommit(p)
  \/ RecoverMark(p) \/ CleanUp(p) \/ Unlock(p) \/ RemoveLock(p)

Begin(p) ==
  \/ CreateLock(p) \/ LockOwn(p) \/ CreateDatabase(p) \/ InitializeDatabase(p)
  \/ UndoLock(p) \/ UndoDatabase(p)

Run(p) == Install(p) \/ FinishCapture(p) \/ Finalize(p) \/ DropSession(p)

Finish(p) == Publish(p) \/ Release(p) \/ RemoveOwnLock(p) \/ Return(p)

Next ==
  \E p \in Runs :
    Start(p) \/ Recover(p) \/ EndScan(p) \/ Begin(p) \/ Run(p) \/ Finish(p) \/ Crash(p)

Spec == Init /\ [][Next]_vars

\* A started run goes on with its own code; its child may run for ever.  Users
\* keep using execwake, and not every run is killed while it recovers.
Fairness ==
  \A p \in Runs :
    /\ WF_vars(Start(p))
    /\ WF_vars(Recover(p) \/ EndScan(p))
    /\ WF_vars(Begin(p))
    /\ WF_vars(Finish(p))

FairSpec == Spec /\ Fairness

-----------------------------------------------------------------------------
(* Properties. *)

TypeOK ==
  /\ pc \in [Runs -> Steps]
  /\ todo \in [Runs -> SUBSET Sessions]
  /\ at \in [Runs -> Sessions \cup {None}]
  /\ fd \in [Runs -> Inodes \cup {None}]
  /\ flocks \in SUBSET Runs
  /\ lock \in [Sessions -> Inodes \cup {None}]
  /\ database \in [Sessions -> Databases]
  /\ marker \in [Sessions -> BOOLEAN]
  /\ auxiliary \in [Sessions -> BOOLEAN]
  /\ owner \in [Sessions -> Runs \cup {None}]
  /\ crashes \in 0..MaxCrashes
  /\ overtaken \in SUBSET Sessions

\* A reader who finds the marker finds a settled session (export_session,
\* report::validate_session, semantic_diff).
MarkerMeansSettled == \A s \in Sessions : marker[s] => database[s] \in Settled

\* Whatever runs and recoveries interleave, a session row is never lost and its
\* outcome is decided once.
OutcomeDecidedOnce ==
  [][\A s \in Sessions :
       /\ database[s] \in HasRow => database'[s] \in HasRow
       /\ database[s] \in Settled => database'[s] = database[s]]_vars

\* The flock does its work as long as the lock file stays in place: no
\* recovery declares the session of a live run interrupted.
LiveUnlessOvertaken ==
  \A p \in Runs :
    pc[p] \in Active /\ at[p] \notin overtaken => database[at[p]] = "running"

\* A session row whose run is gone is published, or a later run finds its lock
\* file and gets to publish it.
ReachableUnlessOvertaken ==
  \A s \in Sessions \ overtaken :
    database[s] \in HasRow => marker[s] \/ lock[s] # None

\* A recovery leaves no file of the Node capture behind, one that was itself
\* interrupted and taken over by a third run included.
InterruptedLeavesNothing ==
  \A s \in Sessions \ overtaken :
    database[s] = "interrupted" /\ lock[s] = None => ~auxiliary[s]

\* active_sessions_are_not_recovered (src/src/storage.rs:2433).
ActiveNotRecovered ==
  \A p \in Runs : pc[p] \in Active => database[at[p]] = "running"

\* README.md:114: the child exit status is preserved.  finalize fails, and the
\* run reports an error instead of the status, when the lock file is gone.
FinalizeFindsLock ==
  \A p \in Runs : pc[p] = "remove_own" => lock[at[p]] # None

\* A database without a session row that no run is working on.
Poisoned ==
  \E s \in Sessions :
    database[s] = "empty" /\ ~(InUse(s) /\ pc[owner[s]] = "initializing")

Orphaned(s) ==
  database[s] \in HasRow /\ ~InUse(s) /\ lock[s] # None /\ s \notin overtaken

\* An interrupted session is published by a later run, in a store without
\* half-initialized sessions.
OrphansPublished ==
  []~Poisoned => \A s \in Sessions : Orphaned(s) ~> marker[s]

\* orphaned_running_sessions_are_recovered (src/src/storage.rs:2336).
OrphansRecovered ==
  \A s \in Sessions : Orphaned(s) ~> marker[s]
=============================================================================

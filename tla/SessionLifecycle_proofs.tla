---------------------- MODULE SessionLifecycle_proofs ----------------------
(***************************************************************************)
(* Proofs about SessionLifecycle for any number of runs and sessions.      *)
(***************************************************************************)
EXTENDS SessionLifecycle, TLAPS

\* The steps at which a run has a session in hand.
Busy == Steps \ {"idle", "scan"}

\* What a run at step k knows of the session x in hand.
Knows(p, k, x) ==
  /\ k \in Busy => x \in Sessions
  /\ k \in {"mark", "publish"} => database[x] \in Settled
  /\ k \in Beginning \cup Undoing => owner[x] = p
  /\ k \in {"created", "creating"} => database[x] = "none"
  /\ k \in {"initializing"} \cup Undoing => database[x] = "empty"

\* What it knows after a step that writes databases.
KnowsNext(p, k, x) ==
  /\ k \in Busy => x \in Sessions
  /\ k \in {"mark", "publish"} => database'[x] \in Settled
  /\ k \in Beginning \cup Undoing => owner[x] = p
  /\ k \in {"created", "creating"} => database'[x] = "none"
  /\ k \in {"initializing"} \cup Undoing => database'[x] = "empty"

\* An id nobody generated has no database, and a marker only a settled one.
StoreInv ==
  /\ \A p \in Runs : Knows(p, pc[p], at[p])
  /\ \A s \in Sessions : owner[s] = None => database[s] = "none"
  /\ MarkerMeansSettled

\* Database rows only move from running to a settled state.
RowsKept ==
  \A s \in Sessions :
    /\ database[s] \in HasRow => database'[s] \in HasRow
    /\ database[s] \in Settled => database'[s] = database[s]

LifecycleInv == TypeOK /\ StoreInv

\* An empty store.
LEMMA InitStore == Init => LifecycleInv
<1> SUFFICES ASSUME Init PROVE LifecycleInv
  OBVIOUS
<1>1. TypeOK
  BY MaxCrashesAssumption DEF Init, TypeOK, Steps, Databases
<1>2. StoreInv
  BY DEF Init, StoreInv, Knows, MarkerMeansSettled, Busy, Beginning, Undoing
<1> QED
  BY <1>1, <1>2 DEF LifecycleInv

-----------------------------------------------------------------------------
(* The operators the actions are made of. *)

\* The process variables keep their types and only those of p change.
Moves(p, k, x) ==
  /\ pc' \in [Runs -> Steps]
  /\ at' \in [Runs -> Sessions \cup {None}]
  /\ todo' \in [Runs -> SUBSET Sessions]
  /\ fd' \in [Runs -> Inodes \cup {None}]
  /\ flocks' \in SUBSET Runs
  /\ pc'[p] = k /\ at'[p] = x
  /\ \A q \in Runs \ {p} : pc'[q] = pc[q] /\ at'[q] = at[q]

\* A run that goes on with the session it has in hand.
LEMMA GotoMoves ==
  ASSUME TypeOK, NEW p \in Runs, NEW k \in Steps, Goto(p, k),
         UNCHANGED <<todo, at>>,
         fd' \in [Runs -> Inodes \cup {None}], flocks' \in SUBSET Runs
  PROVE  Moves(p, k, at[p])
  BY DEF TypeOK, Goto, Moves

\* Closing the lock file.
LEMMA CloseType ==
  ASSUME TypeOK, NEW p \in Runs, Close(p)
  PROVE  fd' \in [Runs -> Inodes \cup {None}] /\ flocks' \in SUBSET Runs
  BY DEF TypeOK, Close

\* A run that is over has no session in hand.
LEMMA ExitMoves ==
  ASSUME TypeOK, NEW p \in Runs, Exit(p)
  PROVE  Moves(p, "idle", None)
<1>1. fd' \in [Runs -> Inodes \cup {None}] /\ flocks' \in SUBSET Runs
  BY CloseType DEF Exit
<1> QED
  BY <1>1 DEF TypeOK, Exit, Goto, Moves, Steps

\* Nor has one between two lock files.
LEMMA RescanMoves ==
  ASSUME TypeOK, NEW p \in Runs, Rescan(p)
  PROVE  Moves(p, "scan", None)
<1>1. fd' \in [Runs -> Inodes \cup {None}] /\ flocks' \in SUBSET Runs
  BY CloseType DEF Rescan
<1> QED
  BY <1>1 DEF TypeOK, Rescan, Goto, Moves, Steps, Recovering

\* The other variables keep their types.
StoreType ==
  /\ lock \in [Sessions -> Inodes \cup {None}]
  /\ database \in [Sessions -> Databases]
  /\ marker \in [Sessions -> BOOLEAN]
  /\ auxiliary \in [Sessions -> BOOLEAN]
  /\ owner \in [Sessions -> Runs \cup {None}]
  /\ crashes \in 0..MaxCrashes
  /\ overtaken \in SUBSET Sessions

\* A step that leaves databases, markers and owners alone keeps the invariant
\* when p knows enough of the session in hand.
LEMMA MoveKeeps ==
  ASSUME LifecycleInv, NEW p \in Runs, NEW k, NEW x, Moves(p, k, x), StoreType',
         UNCHANGED <<database, marker, owner>>, Knows(p, k, x)
  PROVE  LifecycleInv' /\ RowsKept
<1>1. TypeOK'
  BY DEF Moves, StoreType, TypeOK
<1>2. \A q \in Runs : Knows(q, pc[q], at[q])'
  BY DEF LifecycleInv, StoreInv, Moves, Knows
<1>3. StoreInv' /\ RowsKept
  BY <1>2 DEF LifecycleInv, StoreInv, MarkerMeansSettled, RowsKept
<1> QED
  BY <1>1, <1>3 DEF LifecycleInv

\* A step that writes the database of session x: only a running one, or one p
\* is beginning, so that no other run relies on what it was.
LEMMA WriteKeeps ==
  ASSUME LifecycleInv, NEW p \in Runs, NEW k, NEW x \in Sessions, NEW y, NEW d \in Databases,
         Moves(p, k, y), StoreType', UNCHANGED <<marker, owner>>,
         database' = [database EXCEPT ![x] = d],
         \/ database[x] = "running" /\ d \in HasRow
         \/ database[x] \in {"none", "empty"} /\ owner[x] = p /\ pc[p] \in Beginning \cup Undoing
              /\ at[p] = x,
         KnowsNext(p, k, y)
  PROVE  LifecycleInv' /\ RowsKept
<1>1. TypeOK'
  BY DEF Moves, StoreType, TypeOK
<1>2. TypeOK /\ StoreInv
  BY DEF LifecycleInv
<1>3. \A s \in Sessions : database'[s] = IF s = x THEN d ELSE database[s]
  BY <1>2 DEF TypeOK
<1>4. database[x] \notin Settled /\ owner[x] # None
  BY <1>2, NoneAssumption DEF StoreInv, Settled
<1>5. RowsKept
  BY <1>3, <1>4 DEF RowsKept, HasRow, Settled
<1>6. ASSUME NEW q \in Runs PROVE Knows(q, pc[q], at[q])'
  <2>1. CASE q = p
    BY <2>1 DEF Moves, Knows, KnowsNext
  <2>2. CASE q # p
    <3>1. pc'[q] = pc[q] /\ at'[q] = at[q] /\ Knows(q, pc[q], at[q])
      BY <1>2, <2>2 DEF Moves, StoreInv
    <3>2. CASE at[q] # x \/ pc[q] \notin Busy
      BY <1>3, <3>1, <3>2 DEF Knows, Busy, Steps, Recovering, Beginning, Undoing, Finishing
    <3>3. CASE at[q] = x /\ pc[q] \in Busy
      BY <1>3, <1>4, <2>2, <3>1, <3>3
      DEF Knows, Busy, Beginning, Undoing, Settled
    <3> QED
      BY <3>2, <3>3
  <2> QED
    BY <2>1, <2>2
<1>7. \A s \in Sessions : owner'[s] = None => database'[s] = "none"
  BY <1>2, <1>3, <1>4 DEF StoreInv
<1>8. MarkerMeansSettled'
  BY <1>2, <1>3, <1>4 DEF StoreInv, MarkerMeansSettled
<1> QED
  BY <1>1, <1>5, <1>6, <1>7, <1>8 DEF LifecycleInv, StoreInv

-----------------------------------------------------------------------------
(* The actions. *)

\* A run starts.
LEMMA StartKeeps ==
  ASSUME LifecycleInv, NEW p \in Runs, Start(p)
  PROVE  LifecycleInv' /\ RowsKept
<1>1. TypeOK /\ StoreType /\ Knows(p, pc[p], at[p]) /\ MarkerMeansSettled
  BY DEF LifecycleInv, StoreInv, TypeOK, StoreType
<1> DEFINE x == at[p]
<1>2. Moves(p, "scan", x)
  BY <1>1 DEF Start, Moves, Goto, TypeOK, Steps, Recovering
<1>3. StoreType' /\ UNCHANGED <<database, marker, owner>>
  BY <1>1 DEF Start, StoreType, storeVars
<1>4. Knows(p, "scan", x)
  BY DEF Knows, Busy, Beginning, Undoing
<1> QED
  BY <1>2, <1>3, <1>4, MoveKeeps

\* A lock file is opened or created.
LEMMA OpenLockKeeps ==
  ASSUME LifecycleInv, NEW p \in Runs, OpenLock(p)
  PROVE  LifecycleInv' /\ RowsKept
<1>1. TypeOK /\ StoreType /\ Knows(p, pc[p], at[p]) /\ MarkerMeansSettled
  BY DEF LifecycleInv, StoreInv, TypeOK, StoreType
<1> DEFINE x == at[p]
<1>2. PICK s \in todo[p] :
        /\ todo' = [todo EXCEPT ![p] = @ \ {s}]
        /\ at' = [at EXCEPT ![p] = s]
        /\ \E i \in IF lock[s] = None THEN FreeInodes ELSE {lock[s]} :
             /\ lock' = [lock EXCEPT ![s] = i]
             /\ fd' = [fd EXCEPT ![p] = i]
  BY DEF OpenLock
<1>3. s \in Sessions
  BY <1>1, <1>2 DEF TypeOK
<1>4. PICK i \in Inodes :
        lock' = [lock EXCEPT ![s] = i] /\ fd' = [fd EXCEPT ![p] = i]
  BY <1>1, <1>2, <1>3 DEF StoreType, FreeInodes
<1>5. Moves(p, "opened", s)
  BY <1>1, <1>2, <1>3, <1>4 DEF OpenLock, Moves, Goto, TypeOK, Steps, Recovering
<1>6. StoreType' /\ UNCHANGED <<database, marker, owner>>
  BY <1>1, <1>3, <1>4 DEF OpenLock, StoreType
<1>7. Knows(p, "opened", s)
  BY <1>3 DEF Knows, Beginning, Undoing
<1> QED
  BY <1>5, <1>6, <1>7, MoveKeeps

\* The flock is taken, or the session left to its holder.
LEMMA TryLockKeeps ==
  ASSUME LifecycleInv, NEW p \in Runs, TryLock(p)
  PROVE  LifecycleInv' /\ RowsKept
<1>1. TypeOK /\ StoreType /\ Knows(p, pc[p], at[p]) /\ MarkerMeansSettled
  BY DEF LifecycleInv, StoreInv, TypeOK, StoreType
<1> DEFINE x == at[p]
<1>2. overtaken' \in SUBSET Sessions /\ UNCHANGED <<lock, database, marker, auxiliary, owner, crashes>>
  <2>1. at[p] \in Sessions
    BY <1>1 DEF TryLock, Knows, Steps, Busy, Recovering, Beginning, Undoing, Active, Finishing
  <2> QED
    BY <1>1, <2>1 DEF TryLock, StoreType, storeVars
<1>3. StoreType' /\ UNCHANGED <<database, marker, owner>>
  BY <1>1, <1>2 DEF StoreType
<1>4. CASE Held(fd[p])
  <2>1. Moves(p, "scan", None)
    BY <1>1, <1>4, RescanMoves DEF TryLock
  <2>2. Knows(p, "scan", None)
    BY DEF Knows, Busy, Beginning, Undoing
  <2> QED
    BY <1>3, <2>1, <2>2, MoveKeeps
<1>5. CASE ~Held(fd[p])
  <2>1. Moves(p, "locked", x)
    BY <1>1, <1>5, GotoMoves DEF TryLock, TypeOK, Steps, Recovering
  <2>2. Knows(p, "locked", x)
    BY <1>1 DEF TryLock, Knows, Steps, Busy, Recovering, Beginning, Undoing, Active, Finishing
  <2> QED
    BY <1>3, <2>1, <2>2, MoveKeeps
<1> QED
  BY <1>4, <1>5

\* The database is looked for.
LEMMA CheckDatabaseKeeps ==
  ASSUME LifecycleInv, NEW p \in Runs, CheckDatabase(p)
  PROVE  LifecycleInv' /\ RowsKept
<1>1. TypeOK /\ StoreType /\ Knows(p, pc[p], at[p]) /\ MarkerMeansSettled
  BY DEF LifecycleInv, StoreInv, TypeOK, StoreType
<1> DEFINE x == at[p]
<1>2. StoreType' /\ UNCHANGED <<database, marker, owner>>
  BY <1>1 DEF CheckDatabase, StoreType, storeVars
<1>3. PICK k \in {"clean", "commit"} : Goto(p, k)
  BY DEF CheckDatabase
<1>4. Moves(p, k, x)
  BY <1>1, <1>3, GotoMoves DEF CheckDatabase, TypeOK, Steps, Recovering
<1>5. Knows(p, k, x)
  BY <1>1, <1>3 DEF CheckDatabase, Knows, Steps, Busy, Recovering, Beginning, Undoing, Active, Finishing
<1> QED
  BY <1>2, <1>4, <1>5, MoveKeeps

\* A running session is interrupted, a settled one left as it is.
LEMMA RecoverCommitKeeps ==
  ASSUME LifecycleInv, NEW p \in Runs, RecoverCommit(p)
  PROVE  LifecycleInv' /\ RowsKept
<1>1. TypeOK /\ StoreType /\ Knows(p, pc[p], at[p]) /\ MarkerMeansSettled
  BY DEF LifecycleInv, StoreInv, TypeOK, StoreType
<1> DEFINE x == at[p]
<1>2. x \in Sessions /\ pc[p] = "commit"
  BY <1>1 DEF RecoverCommit, Knows, Steps, Busy, Recovering, Beginning, Undoing, Active, Finishing
<1>3. CASE database[x] \notin HasRow
  <2>1. Moves(p, "idle", None)
    BY <1>1, <1>3, ExitMoves DEF RecoverCommit
  <2>2. StoreType' /\ UNCHANGED <<database, marker, owner>>
    BY <1>1, <1>3 DEF RecoverCommit, StoreType
  <2>3. Knows(p, "idle", None)
    BY DEF Knows, Busy, Beginning, Undoing
  <2> QED
    BY <2>1, <2>2, <2>3, MoveKeeps
<1>4. CASE database[x] = "running"
  <2>1. database' = [database EXCEPT ![x] = "interrupted"]
    BY <1>4 DEF RecoverCommit, HasRow, Interrupted
  <2>2. Moves(p, "mark", x)
    BY <1>1, <1>4, GotoMoves DEF RecoverCommit, HasRow, TypeOK, Steps, Recovering
  <2>3. "interrupted" \in Databases \cap HasRow \cap Settled
    BY DEF Databases, HasRow, Settled
  <2>4. StoreType' /\ UNCHANGED <<marker, owner>>
    BY <1>1, <1>2, <2>1, <2>3 DEF RecoverCommit, StoreType
  <2>5. KnowsNext(p, "mark", x)
    BY <1>1, <1>2, <2>1, <2>2, <2>3 DEF KnowsNext, Moves, StoreType, Beginning, Undoing
  <2> QED
    BY <1>2, <1>4, <2>1, <2>2, <2>3, <2>4, <2>5, WriteKeeps
<1>5. CASE database[x] \in Settled
  <2>1. database' = database
    BY <1>1, <1>2, <1>5 DEF RecoverCommit, HasRow, Settled, Interrupted, StoreType
  <2>2. Moves(p, "mark", x)
    BY <1>1, <1>5, GotoMoves DEF RecoverCommit, HasRow, TypeOK, Steps, Recovering
  <2>3. StoreType' /\ UNCHANGED <<database, marker, owner>>
    BY <1>1, <2>1 DEF RecoverCommit, StoreType
  <2>4. Knows(p, "mark", x)
    BY <1>2, <1>5 DEF Knows, Beginning, Undoing
  <2> QED
    BY <2>2, <2>3, <2>4, MoveKeeps
<1> QED
  BY <1>3, <1>4, <1>5 DEF HasRow

\* The marker of a recovered session is created.
LEMMA RecoverMarkKeeps ==
  ASSUME LifecycleInv, NEW p \in Runs, RecoverMark(p)
  PROVE  LifecycleInv' /\ RowsKept
<1>1. TypeOK /\ StoreType /\ Knows(p, pc[p], at[p]) /\ MarkerMeansSettled
  BY DEF LifecycleInv, StoreInv, TypeOK, StoreType
<1> DEFINE x == at[p]
<1>2. x \in Sessions /\ database[x] \in Settled
  BY <1>1 DEF RecoverMark, Knows, Steps, Busy, Recovering, Beginning, Undoing, Active, Finishing
<1>3. Moves(p, "clean", x)
  BY <1>1, GotoMoves DEF RecoverMark, TypeOK, Steps, Recovering, Finishing
<1>4. /\ StoreType'
      /\ UNCHANGED <<database, owner>>
      /\ marker' = [marker EXCEPT ![x] = TRUE]
  BY <1>1, <1>2 DEF RecoverMark, StoreType
<1>5. Knows(p, "clean", x)
  BY <1>2 DEF Knows, Beginning, Undoing
<1>6. MarkerMeansSettled'
  BY <1>1, <1>2, <1>4 DEF MarkerMeansSettled, StoreType
<1>7. TypeOK'
  BY <1>3, <1>4 DEF Moves, StoreType, TypeOK
<1>8. \A q \in Runs : Knows(q, pc[q], at[q])'
  BY <1>3, <1>4, <1>5 DEF LifecycleInv, StoreInv, Moves, Knows
<1>9. StoreInv' /\ RowsKept
  BY <1>4, <1>6, <1>8 DEF LifecycleInv, StoreInv, RowsKept
<1> QED
  BY <1>7, <1>9 DEF LifecycleInv

\* The auxiliary files are removed.
LEMMA CleanUpKeeps ==
  ASSUME LifecycleInv, NEW p \in Runs, CleanUp(p)
  PROVE  LifecycleInv' /\ RowsKept
<1>1. TypeOK /\ StoreType /\ Knows(p, pc[p], at[p]) /\ MarkerMeansSettled
  BY DEF LifecycleInv, StoreInv, TypeOK, StoreType
<1> DEFINE x == at[p]
<1>2. Moves(p, "unlock", x)
  BY <1>1, GotoMoves DEF CleanUp, TypeOK, Steps, Busy, Recovering, Beginning, Undoing, Active, Finishing
<1>3. StoreType' /\ UNCHANGED <<database, marker, owner>>
  BY <1>1 DEF CleanUp, StoreType, storeVars, Remove
<1>4. Knows(p, "unlock", x)
  BY <1>1 DEF CleanUp, Knows, Steps, Busy, Recovering, Beginning, Undoing, Active, Finishing
<1> QED
  BY <1>2, <1>3, <1>4, MoveKeeps

\* The flock is released.
LEMMA UnlockKeeps ==
  ASSUME LifecycleInv, NEW p \in Runs, Unlock(p)
  PROVE  LifecycleInv' /\ RowsKept
<1>1. TypeOK /\ StoreType /\ Knows(p, pc[p], at[p]) /\ MarkerMeansSettled
  BY DEF LifecycleInv, StoreInv, TypeOK, StoreType
<1> DEFINE x == at[p]
<1>2. Moves(p, "remove", x)
  BY <1>1, GotoMoves, CloseType DEF Unlock, TypeOK, Steps, Busy, Recovering, Beginning, Undoing, Active, Finishing
<1>3. StoreType' /\ UNCHANGED <<database, marker, owner>>
  BY <1>1 DEF Unlock, StoreType, storeVars, Remove
<1>4. Knows(p, "remove", x)
  BY <1>1 DEF Unlock, Knows, Steps, Busy, Recovering, Beginning, Undoing, Active, Finishing
<1> QED
  BY <1>2, <1>3, <1>4, MoveKeeps

\* The lock file is removed, or was already.
LEMMA RemoveLockKeeps ==
  ASSUME LifecycleInv, NEW p \in Runs, RemoveLock(p)
  PROVE  LifecycleInv' /\ RowsKept
<1>1. TypeOK /\ StoreType /\ Knows(p, pc[p], at[p]) /\ MarkerMeansSettled
  BY DEF LifecycleInv, StoreInv, TypeOK, StoreType
<1> DEFINE x == at[p]
<1>2. StoreType' /\ UNCHANGED <<database, marker, owner>>
  BY <1>1 DEF RemoveLock, Remove, StoreType
<1>3. PICK k \in {"idle", "scan"} : Moves(p, k, None)
  BY <1>1, ExitMoves, RescanMoves DEF RemoveLock
<1>4. Knows(p, k, None)
  BY <1>3 DEF Knows, Busy, Beginning, Undoing
<1> QED
  BY <1>2, <1>3, <1>4, MoveKeeps

\* A run ends.
LEMMA EndScanKeeps ==
  ASSUME LifecycleInv, NEW p \in Runs, EndScan(p)
  PROVE  LifecycleInv' /\ RowsKept
<1>1. TypeOK /\ StoreType /\ Knows(p, pc[p], at[p]) /\ MarkerMeansSettled
  BY DEF LifecycleInv, StoreInv, TypeOK, StoreType
<1> DEFINE x == at[p]
<1>2. Moves(p, "idle", None)
  BY <1>1, ExitMoves DEF EndScan
<1>3. StoreType' /\ UNCHANGED <<database, marker, owner>>
  BY <1>1, MaxCrashesAssumption DEF EndScan, StoreType, storeVars
<1>4. Knows(p, "idle", None)
  BY DEF Knows, Busy, Beginning, Undoing
<1> QED
  BY <1>2, <1>3, <1>4, MoveKeeps

\* A session id is generated.
LEMMA CreateLockKeeps ==
  ASSUME LifecycleInv, NEW p \in Runs, CreateLock(p)
  PROVE  LifecycleInv' /\ RowsKept
<1>1. TypeOK /\ StoreType /\ Knows(p, pc[p], at[p]) /\ MarkerMeansSettled
  BY DEF LifecycleInv, StoreInv, TypeOK, StoreType
<1> DEFINE x == at[p]
<1>2. PICK s \in Sessions, i \in FreeInodes :
        /\ owner[s] = None
        /\ owner' = [owner EXCEPT ![s] = p]
        /\ at' = [at EXCEPT ![p] = s]
        /\ lock' = [lock EXCEPT ![s] = i]
        /\ fd' = [fd EXCEPT ![p] = i]
  BY DEF CreateLock
<1>3. i \in Inodes
  BY <1>2 DEF FreeInodes
<1>4. Moves(p, "created", s)
  BY <1>1, <1>2, <1>3 DEF CreateLock, Moves, Goto, TypeOK, Steps, Beginning
<1>5. StoreType' /\ UNCHANGED <<database, marker>>
  BY <1>1, <1>2, <1>3 DEF CreateLock, StoreType
<1>6. database[s] = "none"
  BY <1>2 DEF LifecycleInv, StoreInv
<1>7. \A t \in Sessions : owner'[t] = IF t = s THEN p ELSE owner[t]
  BY <1>1, <1>2 DEF StoreType
<1>8. Knows(p, "created", s)'
  BY <1>5, <1>6, <1>7 DEF Knows, Beginning, Undoing
<1>9. ASSUME NEW q \in Runs \ {p} PROVE Knows(q, pc[q], at[q])'
  <2>1. pc'[q] = pc[q] /\ at'[q] = at[q] /\ Knows(q, pc[q], at[q])
    BY <1>4 DEF Moves, LifecycleInv, StoreInv
  <2>2. pc[q] \in Beginning \cup Undoing => at[q] \in Sessions /\ owner[at[q]] = q
    BY <2>1 DEF Knows, Busy, Steps, Beginning, Undoing
  <2>3. q # None
    BY NoneAssumption
  <2>4. pc[q] \in Beginning \cup Undoing => owner'[at[q]] = q
    BY <1>2, <1>7, <2>2, <2>3
  <2> QED
    BY <1>5, <2>1, <2>4 DEF Knows
<1>10. TypeOK'
  BY <1>4, <1>5 DEF Moves, StoreType, TypeOK
<1>11. \A q \in Runs : Knows(q, pc[q], at[q])'
  BY <1>4, <1>8, <1>9 DEF Moves
<1>12. \A t \in Sessions : owner'[t] = None => database'[t] = "none"
  BY <1>5, <1>7, NoneAssumption DEF LifecycleInv, StoreInv
<1>13. StoreInv' /\ RowsKept
  BY <1>1, <1>5, <1>11, <1>12 DEF StoreInv, MarkerMeansSettled, RowsKept
<1> QED
  BY <1>10, <1>13 DEF LifecycleInv

\* The new lock file is locked, unless a recovery has locked it.
LEMMA LockOwnKeeps ==
  ASSUME LifecycleInv, NEW p \in Runs, LockOwn(p)
  PROVE  LifecycleInv' /\ RowsKept
<1>1. TypeOK /\ StoreType /\ Knows(p, pc[p], at[p]) /\ MarkerMeansSettled
  BY DEF LifecycleInv, StoreInv, TypeOK, StoreType
<1> DEFINE x == at[p]
<1>2. StoreType' /\ UNCHANGED <<database, marker, owner>>
  BY <1>1 DEF LockOwn, StoreType, storeVars
<1>3. CASE Held(fd[p])
  <2>1. Moves(p, "idle", None)
    BY <1>1, <1>3, ExitMoves DEF LockOwn
  <2>2. Knows(p, "idle", None)
    BY DEF Knows, Busy, Beginning, Undoing
  <2> QED
    BY <1>2, <2>1, <2>2, MoveKeeps
<1>4. CASE ~Held(fd[p])
  <2>1. Moves(p, "creating", x)
    BY <1>1, <1>4, GotoMoves DEF LockOwn, TypeOK, Steps, Beginning
  <2>2. Knows(p, "creating", x)
    BY <1>1 DEF LockOwn, Knows, Steps, Busy, Recovering, Beginning, Undoing, Active, Finishing
  <2> QED
    BY <1>2, <2>1, <2>2, MoveKeeps
<1> QED
  BY <1>3, <1>4

\* The database file is created.
LEMMA CreateDatabaseKeeps ==
  ASSUME LifecycleInv, NEW p \in Runs, CreateDatabase(p)
  PROVE  LifecycleInv' /\ RowsKept
<1>1. TypeOK /\ StoreType /\ Knows(p, pc[p], at[p]) /\ MarkerMeansSettled
  BY DEF LifecycleInv, StoreInv, TypeOK, StoreType
<1> DEFINE x == at[p]
<1>2. x \in Sessions /\ owner[x] = p /\ database[x] = "none" /\ pc[p] \in Beginning \cup Undoing
  BY <1>1 DEF CreateDatabase, Knows, Steps, Busy, Recovering, Beginning, Undoing, Active, Finishing
<1>3. database' = [database EXCEPT ![x] = "empty"] /\ "empty" \in Databases
  BY DEF CreateDatabase, Databases, HasRow
<1>4. Moves(p, "initializing", x)
  BY <1>1, GotoMoves DEF CreateDatabase, TypeOK, Steps, Busy, Recovering, Beginning, Undoing, Active, Finishing
<1>5. StoreType' /\ UNCHANGED <<marker, owner>>
  BY <1>1, <1>2, <1>3 DEF CreateDatabase, StoreType
<1>6. KnowsNext(p, "initializing", x)
  BY <1>1, <1>2, <1>3, <1>5 DEF KnowsNext, Steps, Busy, Recovering, Beginning, Undoing, Active, Finishing, StoreType
<1> QED
  BY <1>2, <1>3, <1>4, <1>5, <1>6, WriteKeeps

\* The session row is committed, or the lock given up.
LEMMA InitializeDatabaseKeeps ==
  ASSUME LifecycleInv, NEW p \in Runs, InitializeDatabase(p)
  PROVE  LifecycleInv' /\ RowsKept
<1>1. TypeOK /\ StoreType /\ Knows(p, pc[p], at[p]) /\ MarkerMeansSettled
  BY DEF LifecycleInv, StoreInv, TypeOK, StoreType
<1> DEFINE x == at[p]
<1>2. x \in Sessions /\ owner[x] = p /\ database[x] = "empty" /\ pc[p] \in Beginning \cup Undoing
  BY <1>1 DEF InitializeDatabase, Knows, Steps, Busy, Recovering, Beginning, Undoing, Active, Finishing
<1>3. CASE Goto(p, "running") /\ UNCHANGED <<fd, flocks>>
           /\ database' = [database EXCEPT ![x] = "running"]
  <2>1. "running" \in Databases
    BY DEF Databases, HasRow
  <2>2. Moves(p, "running", x)
    BY <1>1, <1>3, GotoMoves DEF InitializeDatabase, TypeOK, Steps, Active
  <2>3. StoreType' /\ UNCHANGED <<marker, owner>>
    BY <1>1, <1>2, <1>3, <2>1 DEF InitializeDatabase, StoreType
  <2>4. KnowsNext(p, "running", x)
    BY <1>2 DEF KnowsNext, Beginning, Undoing
  <2> QED
    BY <1>2, <1>3, <2>1, <2>2, <2>3, <2>4, WriteKeeps
<1>4. CASE Close(p) /\ Goto(p, "undo_lock") /\ UNCHANGED database
  <2>1. Moves(p, "undo_lock", x)
    BY <1>1, <1>4, CloseType, GotoMoves DEF InitializeDatabase, TypeOK, Steps, Undoing
  <2>2. StoreType' /\ UNCHANGED <<database, marker, owner>>
    BY <1>1, <1>4 DEF InitializeDatabase, StoreType
  <2>3. Knows(p, "undo_lock", x)
    BY <1>2 DEF Knows, Beginning, Undoing
  <2> QED
    BY <2>1, <2>2, <2>3, MoveKeeps
<1> QED
  BY <1>3, <1>4 DEF InitializeDatabase

\* The lock file of a failed begin is removed.
LEMMA UndoLockKeeps ==
  ASSUME LifecycleInv, NEW p \in Runs, UndoLock(p)
  PROVE  LifecycleInv' /\ RowsKept
<1>1. TypeOK /\ StoreType /\ Knows(p, pc[p], at[p]) /\ MarkerMeansSettled
  BY DEF LifecycleInv, StoreInv, TypeOK, StoreType
<1> DEFINE x == at[p]
<1>2. Moves(p, "undo_database", x)
  BY <1>1, GotoMoves DEF UndoLock, TypeOK, Steps, Busy, Recovering, Beginning, Undoing, Active, Finishing
<1>3. StoreType' /\ UNCHANGED <<database, marker, owner>>
  BY <1>1 DEF UndoLock, StoreType, storeVars, Remove
<1>4. Knows(p, "undo_database", x)
  BY <1>1 DEF UndoLock, Knows, Steps, Busy, Recovering, Beginning, Undoing, Active, Finishing
<1> QED
  BY <1>2, <1>3, <1>4, MoveKeeps

\* The database of a failed begin is removed.
LEMMA UndoDatabaseKeeps ==
  ASSUME LifecycleInv, NEW p \in Runs, UndoDatabase(p)
  PROVE  LifecycleInv' /\ RowsKept
<1>1. TypeOK /\ StoreType /\ Knows(p, pc[p], at[p]) /\ MarkerMeansSettled
  BY DEF LifecycleInv, StoreInv, TypeOK, StoreType
<1> DEFINE x == at[p]
<1>2. x \in Sessions /\ owner[x] = p /\ database[x] = "empty" /\ pc[p] \in Beginning \cup Undoing
  BY <1>1 DEF UndoDatabase, Knows, Steps, Busy, Recovering, Beginning, Undoing, Active, Finishing
<1>3. database' = [database EXCEPT ![x] = "none"] /\ "none" \in Databases
  BY DEF UndoDatabase, Databases, HasRow
<1>4. Moves(p, "idle", None)
  BY <1>1, ExitMoves DEF UndoDatabase, TypeOK, Steps, Busy, Recovering, Beginning, Undoing, Active, Finishing
<1>5. StoreType' /\ UNCHANGED <<marker, owner>>
  BY <1>1, <1>2, <1>3 DEF UndoDatabase, StoreType
<1>6. KnowsNext(p, "idle", None)
  BY <1>1, <1>2, <1>3, <1>5 DEF KnowsNext, Steps, Busy, Recovering, Beginning, Undoing, Active, Finishing, StoreType
<1> QED
  BY <1>2, <1>3, <1>4, <1>5, <1>6, WriteKeeps

\* The Node capture is installed.
LEMMA InstallKeeps ==
  ASSUME LifecycleInv, NEW p \in Runs, Install(p)
  PROVE  LifecycleInv' /\ RowsKept
<1>1. TypeOK /\ StoreType /\ Knows(p, pc[p], at[p]) /\ MarkerMeansSettled
  BY DEF LifecycleInv, StoreInv, TypeOK, StoreType
<1> DEFINE x == at[p]
<1>2. Moves(p, "instrumented", x)
  BY <1>1, GotoMoves DEF Install, TypeOK, Steps, Busy, Recovering, Beginning, Undoing, Active, Finishing
<1>3. StoreType' /\ UNCHANGED <<database, marker, owner>>
  BY <1>1 DEF Install, StoreType, storeVars, Remove
<1>4. Knows(p, "instrumented", x)
  BY <1>1 DEF Install, Knows, Steps, Busy, Recovering, Beginning, Undoing, Active, Finishing
<1> QED
  BY <1>2, <1>3, <1>4, MoveKeeps

\* The Node capture is finished.
LEMMA FinishCaptureKeeps ==
  ASSUME LifecycleInv, NEW p \in Runs, FinishCapture(p)
  PROVE  LifecycleInv' /\ RowsKept
<1>1. TypeOK /\ StoreType /\ Knows(p, pc[p], at[p]) /\ MarkerMeansSettled
  BY DEF LifecycleInv, StoreInv, TypeOK, StoreType
<1> DEFINE x == at[p]
<1>2. Moves(p, "collected", x)
  BY <1>1, GotoMoves DEF FinishCapture, TypeOK, Steps, Busy, Recovering, Beginning, Undoing, Active, Finishing
<1>3. StoreType' /\ UNCHANGED <<database, marker, owner>>
  BY <1>1 DEF FinishCapture, StoreType, storeVars, Remove
<1>4. Knows(p, "collected", x)
  BY <1>1 DEF FinishCapture, Knows, Steps, Busy, Recovering, Beginning, Undoing, Active, Finishing
<1> QED
  BY <1>2, <1>3, <1>4, MoveKeeps

\* A running session is finalized; no other is touched.
LEMMA FinalizeKeeps ==
  ASSUME LifecycleInv, NEW p \in Runs, Finalize(p)
  PROVE  LifecycleInv' /\ RowsKept
<1>1. TypeOK /\ StoreType /\ Knows(p, pc[p], at[p]) /\ MarkerMeansSettled
  BY DEF LifecycleInv, StoreInv, TypeOK, StoreType
<1> DEFINE x == at[p]
<1>2. x \in Sessions
  BY <1>1 DEF Finalize, Knows, Steps, Busy, Recovering, Beginning, Undoing, Active, Finishing
<1>3. CASE database[x] = "running"
  <2>1. database' = [database EXCEPT ![x] = "finalized"]
    BY <1>3 DEF Finalize
  <2>2. Moves(p, "publish", x)
    BY <1>1, <1>3, GotoMoves DEF Finalize, TypeOK, Steps, Finishing
  <2>3. "finalized" \in Databases \cap HasRow \cap Settled
    BY DEF Databases, HasRow, Settled
  <2>4. StoreType' /\ UNCHANGED <<marker, owner>>
    BY <1>1, <1>2, <2>1, <2>3 DEF Finalize, StoreType
  <2>5. KnowsNext(p, "publish", x)
    BY <1>1, <1>2, <2>1, <2>3 DEF KnowsNext, StoreType, Beginning, Undoing
  <2> QED
    BY <1>2, <1>3, <2>1, <2>2, <2>3, <2>4, <2>5, WriteKeeps
<1>4. CASE database[x] # "running"
  <2>1. Moves(p, "returning", x)
    BY <1>1, <1>4, CloseType, GotoMoves DEF Finalize, TypeOK, Steps, Finishing
  <2>2. StoreType' /\ UNCHANGED <<database, marker, owner>>
    BY <1>1, <1>4 DEF Finalize, StoreType
  <2>3. Knows(p, "returning", x)
    BY <1>2 DEF Knows, Beginning, Undoing
  <2> QED
    BY <2>1, <2>2, <2>3, MoveKeeps
<1> QED
  BY <1>3, <1>4

\* The marker of a finalized session is created.
LEMMA PublishKeeps ==
  ASSUME LifecycleInv, NEW p \in Runs, Publish(p)
  PROVE  LifecycleInv' /\ RowsKept
<1>1. TypeOK /\ StoreType /\ Knows(p, pc[p], at[p]) /\ MarkerMeansSettled
  BY DEF LifecycleInv, StoreInv, TypeOK, StoreType
<1> DEFINE x == at[p]
<1>2. x \in Sessions /\ database[x] \in Settled
  BY <1>1 DEF Publish, Knows, Steps, Busy, Recovering, Beginning, Undoing, Active, Finishing
<1>3. Moves(p, "release", x)
  BY <1>1, GotoMoves DEF Publish, TypeOK, Steps, Recovering, Finishing
<1>4. /\ StoreType'
      /\ UNCHANGED <<database, owner>>
      /\ marker' = [marker EXCEPT ![x] = TRUE]
  BY <1>1, <1>2 DEF Publish, StoreType
<1>5. Knows(p, "release", x)
  BY <1>2 DEF Knows, Beginning, Undoing
<1>6. MarkerMeansSettled'
  BY <1>1, <1>2, <1>4 DEF MarkerMeansSettled, StoreType
<1>7. TypeOK'
  BY <1>3, <1>4 DEF Moves, StoreType, TypeOK
<1>8. \A q \in Runs : Knows(q, pc[q], at[q])'
  BY <1>3, <1>4, <1>5 DEF LifecycleInv, StoreInv, Moves, Knows
<1>9. StoreInv' /\ RowsKept
  BY <1>4, <1>6, <1>8 DEF LifecycleInv, StoreInv, RowsKept
<1> QED
  BY <1>7, <1>9 DEF LifecycleInv

\* The flock of a finalized session is released.
LEMMA ReleaseKeeps ==
  ASSUME LifecycleInv, NEW p \in Runs, Release(p)
  PROVE  LifecycleInv' /\ RowsKept
<1>1. TypeOK /\ StoreType /\ Knows(p, pc[p], at[p]) /\ MarkerMeansSettled
  BY DEF LifecycleInv, StoreInv, TypeOK, StoreType
<1> DEFINE x == at[p]
<1>2. Moves(p, "remove_own", x)
  BY <1>1, GotoMoves, CloseType DEF Release, TypeOK, Steps, Busy, Recovering, Beginning, Undoing, Active, Finishing
<1>3. StoreType' /\ UNCHANGED <<database, marker, owner>>
  BY <1>1 DEF Release, StoreType, storeVars, Remove
<1>4. Knows(p, "remove_own", x)
  BY <1>1 DEF Release, Knows, Steps, Busy, Recovering, Beginning, Undoing, Active, Finishing
<1> QED
  BY <1>2, <1>3, <1>4, MoveKeeps

\* The lock file of a finalized session is removed.
LEMMA RemoveOwnLockKeeps ==
  ASSUME LifecycleInv, NEW p \in Runs, RemoveOwnLock(p)
  PROVE  LifecycleInv' /\ RowsKept
<1>1. TypeOK /\ StoreType /\ Knows(p, pc[p], at[p]) /\ MarkerMeansSettled
  BY DEF LifecycleInv, StoreInv, TypeOK, StoreType
<1> DEFINE x == at[p]
<1>2. Moves(p, "returning", x)
  BY <1>1, GotoMoves DEF RemoveOwnLock, TypeOK, Steps, Busy, Recovering, Beginning, Undoing, Active, Finishing
<1>3. StoreType' /\ UNCHANGED <<database, marker, owner>>
  BY <1>1 DEF RemoveOwnLock, StoreType, storeVars, Remove
<1>4. Knows(p, "returning", x)
  BY <1>1 DEF RemoveOwnLock, Knows, Steps, Busy, Recovering, Beginning, Undoing, Active, Finishing
<1> QED
  BY <1>2, <1>3, <1>4, MoveKeeps

\* A run returns.
LEMMA ReturnKeeps ==
  ASSUME LifecycleInv, NEW p \in Runs, Return(p)
  PROVE  LifecycleInv' /\ RowsKept
<1>1. TypeOK /\ StoreType /\ Knows(p, pc[p], at[p]) /\ MarkerMeansSettled
  BY DEF LifecycleInv, StoreInv, TypeOK, StoreType
<1> DEFINE x == at[p]
<1>2. Moves(p, "idle", None)
  BY <1>1, ExitMoves DEF Return
<1>3. StoreType' /\ UNCHANGED <<database, marker, owner>>
  BY <1>1, MaxCrashesAssumption DEF Return, StoreType, storeVars
<1>4. Knows(p, "idle", None)
  BY DEF Knows, Busy, Beginning, Undoing
<1> QED
  BY <1>2, <1>3, <1>4, MoveKeeps

\* A storage error ends a run.
LEMMA DropSessionKeeps ==
  ASSUME LifecycleInv, NEW p \in Runs, DropSession(p)
  PROVE  LifecycleInv' /\ RowsKept
<1>1. TypeOK /\ StoreType /\ Knows(p, pc[p], at[p]) /\ MarkerMeansSettled
  BY DEF LifecycleInv, StoreInv, TypeOK, StoreType
<1> DEFINE x == at[p]
<1>2. Moves(p, "idle", None)
  BY <1>1, ExitMoves DEF DropSession
<1>3. StoreType' /\ UNCHANGED <<database, marker, owner>>
  BY <1>1, MaxCrashesAssumption DEF DropSession, StoreType, storeVars
<1>4. Knows(p, "idle", None)
  BY DEF Knows, Busy, Beginning, Undoing
<1> QED
  BY <1>2, <1>3, <1>4, MoveKeeps

\* A process dies.
LEMMA CrashKeeps ==
  ASSUME LifecycleInv, NEW p \in Runs, Crash(p)
  PROVE  LifecycleInv' /\ RowsKept
<1>1. TypeOK /\ StoreType /\ Knows(p, pc[p], at[p]) /\ MarkerMeansSettled
  BY DEF LifecycleInv, StoreInv, TypeOK, StoreType
<1> DEFINE x == at[p]
<1>2. Moves(p, "idle", None)
  BY <1>1, ExitMoves DEF Crash
<1>3. StoreType' /\ UNCHANGED <<database, marker, owner>>
  BY <1>1, MaxCrashesAssumption DEF Crash, StoreType, storeVars
<1>4. Knows(p, "idle", None)
  BY DEF Knows, Busy, Beginning, Undoing
<1> QED
  BY <1>2, <1>3, <1>4, MoveKeeps

-----------------------------------------------------------------------------
\* Every step keeps the invariant and the rows.
LEMMA NextKeeps == LifecycleInv /\ [Next]_vars => LifecycleInv' /\ [RowsKept]_vars
<1> SUFFICES ASSUME LifecycleInv, [Next]_vars PROVE LifecycleInv' /\ [RowsKept]_vars
  OBVIOUS
<1>1. ASSUME NEW p \in Runs, Recover(p) PROVE LifecycleInv' /\ RowsKept
  BY <1>1, OpenLockKeeps, TryLockKeeps, CheckDatabaseKeeps, RecoverCommitKeeps,
     RecoverMarkKeeps, CleanUpKeeps, UnlockKeeps, RemoveLockKeeps DEF Recover
<1>2. ASSUME NEW p \in Runs, Begin(p) PROVE LifecycleInv' /\ RowsKept
  BY <1>2, CreateLockKeeps, LockOwnKeeps, CreateDatabaseKeeps,
     InitializeDatabaseKeeps, UndoLockKeeps, UndoDatabaseKeeps DEF Begin
<1>3. ASSUME NEW p \in Runs, Run(p) PROVE LifecycleInv' /\ RowsKept
  BY <1>3, InstallKeeps, FinishCaptureKeeps, FinalizeKeeps, DropSessionKeeps DEF Run
<1>4. ASSUME NEW p \in Runs, Finish(p) PROVE LifecycleInv' /\ RowsKept
  BY <1>4, PublishKeeps, ReleaseKeeps, RemoveOwnLockKeeps, ReturnKeeps DEF Finish
<1>5. CASE Next
  BY <1>1, <1>2, <1>3, <1>4, <1>5, StartKeeps, EndScanKeeps, CrashKeeps DEF Next
<1>6. CASE UNCHANGED vars
  BY <1>6
  DEF vars, processVars, storeVars, LifecycleInv, TypeOK, StoreInv, Knows,
      MarkerMeansSettled
<1> QED
  BY <1>5, <1>6

\* The invariant holds whatever runs, recoveries and crashes interleave.
LEMMA LifecycleHolds == Spec => []LifecycleInv
<1>1. LifecycleInv /\ [Next]_vars => LifecycleInv'
  BY NextKeeps
<1> QED
  BY InitStore, <1>1, PTL DEF Spec

\* A marker always stands beside a settled session.
THEOREM MarkersAreTrue == Spec => []MarkerMeansSettled
<1>1. LifecycleInv => MarkerMeansSettled
  BY DEF LifecycleInv, StoreInv
<1> QED
  BY <1>1, LifecycleHolds, PTL

\* No run or recovery loses a session or decides its outcome twice.
THEOREM OutcomesStand == Spec => OutcomeDecidedOnce
<1>1. LifecycleInv /\ [Next]_vars =>
        [\A s \in Sessions :
           /\ database[s] \in HasRow => database'[s] \in HasRow
           /\ database[s] \in Settled => database'[s] = database[s]]_vars
  BY NextKeeps DEF RowsKept
<1> QED
  BY <1>1, LifecycleHolds, PTL DEF Spec, OutcomeDecidedOnce

\* The variables of a run and of the store always have their types.
THEOREM TypeCorrect == Spec => []TypeOK
<1>1. LifecycleInv => TypeOK
  BY DEF LifecycleInv
<1> QED
  BY <1>1, LifecycleHolds, PTL

-----------------------------------------------------------------------------
(* The lock files.                                                         *)
(*                                                                         *)
(* The flock protects a session only while the lock file that carries it   *)
(* stays at its path, and the path is removed by whoever has gone through  *)
(* a recovery.  The invariant says when that can have happened: never to a *)
(* session that its own run still guards, unless a recovery locked the     *)
(* file before that run could.                                             *)

\* The steps at which a run counts on its lock file.
Guarding == Beginning \cup Active \cup {"publish", "release"}
Between == {"idle", "scan"}

Guarded(p) == pc[p] \in Guarding /\ at[p] \notin overtaken

Holds(p) ==
  /\ owner[at[p]] = p
  /\ lock[at[p]] = fd[p] /\ fd[p] # None
  /\ pc[p] # "created" => p \in flocks
  /\ pc[p] \in Active => database[at[p]] = "running"

\* A guarded session is at the path its run has locked, and every other run
\* that found it waits for that very lock.
Guard(p) ==
  Guarded(p) =>
    /\ Holds(p)
    /\ \A r \in Runs \ {p} : at[r] = at[p] => pc[r] = "opened" /\ fd[r] = fd[p]

\* Nobody has heard of an id that was not generated.
Fresh(s) ==
  owner[s] = None =>
    lock[s] = None /\ \A r \in Runs : at[r] # s /\ s \notin todo[r]

\* What recovery and finalize have done by the time they remove a lock file.
Done(r) ==
  at[r] \notin overtaken =>
    /\ pc[r] \in {"clean", "unlock", "remove"} /\ database[at[r]] \in HasRow =>
         marker[at[r]]
    /\ pc[r] \in {"unlock", "remove"} => ~auxiliary[at[r]]
    /\ pc[r] \in {"release", "remove_own"} => marker[at[r]]
    /\ pc[r] \in {"publish", "release", "remove_own"} => database[at[r]] = "finalized"

\* What is left of a session without lock file.
Left(s) ==
  s \notin overtaken =>
    /\ database[s] \in HasRow => marker[s] \/ lock[s] # None
    /\ database[s] = "interrupted" /\ lock[s] = None => ~auxiliary[s]

LockInv ==
  /\ \A p \in Runs : Guard(p) /\ Done(p)
  /\ \A p \in Runs : pc[p] \in Between => at[p] = None
  /\ \A s \in Sessions : Fresh(s) /\ Left(s)

\* The three properties of the lock files are parts of the invariant.
LEMMA LockMeans ==
  LifecycleInv /\ LockInv =>
    LiveUnlessOvertaken /\ ReachableUnlessOvertaken /\ InterruptedLeavesNothing
<1> SUFFICES ASSUME LifecycleInv, LockInv
             PROVE  LiveUnlessOvertaken /\ ReachableUnlessOvertaken /\ InterruptedLeavesNothing
  OBVIOUS
<1>1. LiveUnlessOvertaken
  BY DEF LockInv, Guard, Guarded, Holds, Guarding, LiveUnlessOvertaken
<1>2. ReachableUnlessOvertaken /\ InterruptedLeavesNothing
  BY DEF LockInv, Left, ReachableUnlessOvertaken, InterruptedLeavesNothing
<1> QED
  BY <1>1, <1>2

\* An empty store.
LEMMA InitLocks == Init => LockInv
<1> SUFFICES ASSUME Init PROVE LockInv
  OBVIOUS
<1>1. ASSUME NEW p \in Runs PROVE Guard(p) /\ Done(p) /\ at[p] = None
  BY DEF Init, Guard, Guarded, Guarding, Beginning, Active, Done
<1>2. ASSUME NEW s \in Sessions PROVE Fresh(s) /\ Left(s)
  <2>1. \A r \in Runs : at[r] # s /\ s \notin todo[r]
    BY NoneAssumption DEF Init
  <2> QED
    BY <2>1 DEF Init, Fresh, Left, HasRow, Settled
<1> QED
  BY <1>1, <1>2 DEF LockInv

\* Only a moves.
Alone(a) ==
  \A q \in Runs \ {a} :
    /\ pc'[q] = pc[q] /\ at'[q] = at[q] /\ fd'[q] = fd[q] /\ todo'[q] = todo[q]
    /\ q \in flocks => q \in flocks'

\* What no step of a does to another run, nor to what has been decided.
Others(a) ==
  /\ Alone(a)
  /\ overtaken \subseteq overtaken'
  /\ \A s \in Sessions : owner[s] # None => owner'[s] = owner[s]
  /\ \A s \in Sessions : marker[s] => marker'[s]

\* The files of one session are all a step writes.
Touches(x) ==
  \A s \in Sessions \ {x} :
    /\ lock'[s] = lock[s] /\ database'[s] = database[s]
    /\ marker'[s] = marker[s] /\ auxiliary'[s] = auxiliary[s]

\* A run that has a session in hand: which, and what it guards.
LEMMA InHand ==
  ASSUME LifecycleInv, NEW p \in Runs
  PROVE  /\ pc[p] \in Steps
         /\ pc[p] \notin Between => at[p] \in Sessions
         /\ pc[p] \in Guarding => pc[p] \notin Between /\ pc[p] # "opened"
<1>1. pc[p] \in Steps /\ (pc[p] \in Busy => at[p] \in Sessions)
  BY DEF LifecycleInv, TypeOK, StoreInv, Knows
<1> QED
  BY <1>1 DEF Busy, Between, Guarding, Beginning, Active

\* A run keeps its guard as long as others leave its files alone.
LEMMA GuardSpared ==
  ASSUME LifecycleInv, LockInv, NEW a \in Runs, NEW p \in Runs \ {a}, Others(a),
         Guarded(p) /\ at[p] \notin overtaken' =>
           /\ lock'[at[p]] = lock[at[p]] /\ database'[at[p]] = database[at[p]]
           /\ at'[a] = at[p] => pc'[a] = "opened" /\ fd'[a] = fd[p]
  PROVE  Guard(p)'
<1> SUFFICES ASSUME Guarded(p)'
             PROVE  /\ Holds(p)'
                    /\ \A r \in Runs \ {p} :
                         at'[r] = at'[p] => pc'[r] = "opened" /\ fd'[r] = fd'[p]
  BY DEF Guard
<1>1. pc'[p] = pc[p] /\ at'[p] = at[p] /\ fd'[p] = fd[p] /\ (p \in flocks => p \in flocks')
  BY DEF Others, Alone
<1>2. Guarded(p) /\ at[p] \notin overtaken'
  BY <1>1 DEF Guarded, Others, Alone
<1>3. /\ Holds(p)
      /\ \A r \in Runs \ {p} : at[r] = at[p] => pc[r] = "opened" /\ fd[r] = fd[p]
  BY <1>2 DEF LockInv, Guard
<1>4. at[p] \in Sessions /\ owner[at[p]] = p /\ p # None
  BY <1>2, <1>3, InHand, NoneAssumption DEF Guarded, Holds
<1>5. owner'[at[p]] = p
  BY <1>4 DEF Others, Alone
<1>6. Holds(p)'
  BY <1>1, <1>2, <1>3, <1>5 DEF Holds
<1>7. ASSUME NEW r \in Runs \ {p}, at'[r] = at'[p]
      PROVE  pc'[r] = "opened" /\ fd'[r] = fd'[p]
  <2>1. CASE r = a
    BY <1>1, <1>2, <1>7, <2>1
  <2>2. CASE r # a
    BY <1>1, <1>3, <1>7, <2>2 DEF Others, Alone
  <2> QED
    BY <2>1, <2>2
<1> QED
  BY <1>6, <1>7

\* So does the knowledge of a run that is past its lock.
LEMMA DoneSpared ==
  ASSUME LifecycleInv, LockInv, NEW a \in Runs, NEW p \in Runs \ {a}, Others(a), RowsKept,
         at[p] \notin overtaken' /\ pc[p] \in {"clean", "unlock", "remove"} =>
           /\ database'[at[p]] \in HasRow => database[at[p]] \in HasRow
           /\ auxiliary'[at[p]] => auxiliary[at[p]]
  PROVE  Done(p)'
<1> SUFFICES ASSUME at'[p] \notin overtaken'
             PROVE  Done(p)'
  BY DEF Done
<1>1. pc'[p] = pc[p] /\ at'[p] = at[p]
  BY DEF Others, Alone
<1>2. at[p] \notin overtaken /\ Done(p)
  BY <1>1 DEF Others, Alone, LockInv
<1>3. CASE pc[p] \in Between
  BY <1>1, <1>3 DEF Done, Between
<1>4. CASE pc[p] \notin Between
  <2>1. at[p] \in Sessions
    BY <1>4, InHand
  <2>2. /\ marker[at[p]] => marker'[at[p]]
        /\ database[at[p]] \in Settled => database'[at[p]] = database[at[p]]
    BY <2>1 DEF Others, Alone, RowsKept
  <2> QED
    BY <1>1, <1>2, <2>2 DEF Done, Settled
<1> QED
  BY <1>3, <1>4

\* Every step keeps the invariant that keeps what the next lemma asks of a run
\* at work: it writes the session x in hand only, and lets go of it at most.
LEMMA WorkKeeps ==
  ASSUME LifecycleInv, LockInv, NEW a \in Runs, NEW x \in Sessions, at[a] = x,
         pc[a] \notin Between, pc[a] # "opened",
         Others(a), Touches(x), RowsKept, UNCHANGED <<owner, overtaken>>,
         at'[a] \in {x, None}, todo'[a] \subseteq todo[a],
         pc'[a] \in Between => at'[a] = None,
         \/ pc[a] \in Guarding
         \/ /\ database'[x] \in HasRow => database[x] \in HasRow
            /\ auxiliary'[x] => auxiliary[x],
         pc'[a] \in Guarding => at'[a] = x,
         pc'[a] \in Guarding /\ x \notin overtaken =>
           /\ pc[a] \in Guarding
           /\ lock'[x] = lock[x] /\ fd'[a] = fd[a]
           /\ a \in flocks'
           /\ pc'[a] \in Active => database'[x] = "running",
         Done(a)', Left(x)'
  PROVE  LockInv'
<1>1. ASSUME NEW p \in Runs PROVE Guard(p)'
  <2>1. CASE p # a
    <3>1. ASSUME Guarded(p) /\ at[p] \notin overtaken'
          PROVE  at[p] \in Sessions /\ at[p] # x /\ at'[a] # at[p]
      <4>1. at[a] # at[p]
        BY <2>1, <3>1 DEF LockInv, Guard
      <4>2. at[p] \in Sessions /\ None \notin Sessions
        BY <3>1, InHand, NoneAssumption DEF Guarded
      <4> QED
        BY <4>1, <4>2
    <3> QED
      BY <2>1, <3>1, GuardSpared DEF Touches
  <2>2. CASE p = a
    <3> SUFFICES ASSUME Guarded(a)'
                 PROVE  /\ Holds(a)'
                        /\ \A r \in Runs \ {a} :
                             at'[r] = at'[a] => pc'[r] = "opened" /\ fd'[r] = fd'[a]
      BY <2>2 DEF Guard
    <3>1. x \notin overtaken
      BY DEF Guarded
    <3>2. /\ pc[a] \in Guarding
          /\ at'[a] = x /\ lock'[x] = lock[x] /\ fd'[a] = fd[a]
          /\ a \in flocks'
          /\ pc'[a] \in Active => database'[x] = "running"
      BY <3>1 DEF Guarded
    <3>3. /\ Holds(a)
          /\ \A r \in Runs \ {a} : at[r] = at[a] => pc[r] = "opened" /\ fd[r] = fd[a]
      BY <3>1, <3>2 DEF LockInv, Guard, Guarded
    <3> QED
      BY <3>2, <3>3 DEF Holds, Others, Alone
  <2> QED
    BY <2>1, <2>2
<1>2. ASSUME NEW p \in Runs PROVE Done(p)'
  <2>1. CASE p = a
    BY <2>1
  <2>2. CASE p # a
    <3>1. ASSUME at[p] \notin overtaken', pc[p] \in {"clean", "unlock", "remove"}
          PROVE  /\ database'[at[p]] \in HasRow => database[at[p]] \in HasRow
                 /\ auxiliary'[at[p]] => auxiliary[at[p]]
      <4>1. CASE at[p] # x
        BY <3>1, <4>1, InHand DEF Touches, Between
      <4>2. CASE at[p] = x
        <5>1. pc[a] \notin Guarding
          BY <2>2, <3>1, <4>2 DEF LockInv, Guard, Guarded
        <5> QED
          BY <4>2, <5>1
      <4> QED
        BY <4>1, <4>2
    <3> QED
      BY <2>2, <3>1, DoneSpared
  <2> QED
    BY <2>1, <2>2
<1>3. \A p \in Runs : pc'[p] \in Between => at'[p] = None
  BY DEF LockInv, Others, Alone
<1>4. ASSUME NEW s \in Sessions PROVE Fresh(s)'
  <2> SUFFICES ASSUME owner[s] = None PROVE Fresh(s)'
    BY DEF Fresh
  <2>1. lock[s] = None /\ \A r \in Runs : at[r] # s /\ s \notin todo[r]
    BY DEF LockInv, Fresh
  <2>2. s # x /\ s # None
    BY <2>1, NoneAssumption
  <2> QED
    BY <2>1, <2>2 DEF Fresh, Touches, Others, Alone
<1>5. ASSUME NEW s \in Sessions PROVE Left(s)'
  <2>1. CASE s # x
    BY <2>1 DEF LockInv, Left, Touches
  <2> QED
    BY <2>1
<1> QED
  BY <1>1, <1>2, <1>3, <1>4, <1>5 DEF LockInv

\* The steps of one run leave the others where they are.
LEMMA GotoAlone ==
  ASSUME TypeOK, NEW p \in Runs, NEW k, Goto(p, k), UNCHANGED <<todo, at>>,
         UNCHANGED <<fd, flocks>> \/ Close(p)
  PROVE  Alone(p) /\ pc'[p] = k /\ at'[p] = at[p] /\ todo'[p] = todo[p]
  BY DEF TypeOK, Goto, Close, Alone

LEMMA ExitAlone ==
  ASSUME TypeOK, NEW p \in Runs, Exit(p)
  PROVE  Alone(p) /\ pc'[p] = "idle" /\ at'[p] = None /\ todo'[p] = {}
  BY DEF TypeOK, Exit, Goto, Close, Alone

LEMMA RescanAlone ==
  ASSUME TypeOK, NEW p \in Runs, Rescan(p)
  PROVE  Alone(p) /\ pc'[p] = "scan" /\ at'[p] = None /\ todo'[p] = todo[p]
  BY DEF TypeOK, Rescan, Goto, Close, Alone

\* A step that writes the files of session x alone.
LEMMA Confined ==
  ASSUME TypeOK, NEW p \in Runs, NEW x \in Sessions, Alone(p),
         UNCHANGED <<owner, overtaken>>,
         lock' = lock \/ Remove(x),
         database' = database \/ \E d : database' = [database EXCEPT ![x] = d],
         marker' = marker \/ marker' = [marker EXCEPT ![x] = TRUE],
         auxiliary' = auxiliary \/ \E b : auxiliary' = [auxiliary EXCEPT ![x] = b]
  PROVE  Others(p) /\ Touches(x)
<1>1. \A s \in Sessions \ {x} :
        /\ lock'[s] = lock[s] /\ database'[s] = database[s]
        /\ marker'[s] = marker[s] /\ auxiliary'[s] = auxiliary[s]
  BY DEF TypeOK, Remove
<1>2. marker[x] => marker'[x]
  BY DEF TypeOK
<1> QED
  BY <1>1, <1>2 DEF Others, Touches

-----------------------------------------------------------------------------
(* The actions, and the lock files. *)

\* The database is looked for: without one there is nothing to publish.
LEMMA CheckDatabaseLocks ==
  ASSUME LifecycleInv, LockInv, NEW p \in Runs, CheckDatabase(p)
  PROVE  LockInv'
<1>1. PICK x \in Sessions : at[p] = x
  BY InHand DEF CheckDatabase, Between
<1>2. TypeOK /\ RowsKept /\ UNCHANGED <<storeVars, owner, overtaken>>
  BY CheckDatabaseKeeps DEF LifecycleInv, CheckDatabase
<1>3. PICK k : /\ Goto(p, k) /\ UNCHANGED <<todo, at, fd, flocks>>
               /\ k = (IF database[x] = "none" THEN "clean" ELSE "commit")
  BY <1>1 DEF CheckDatabase
<1>4. Alone(p) /\ pc'[p] = k /\ at'[p] = x /\ todo'[p] = todo[p]
  BY <1>1, <1>2, <1>3, GotoAlone
<1>5. Others(p) /\ Touches(x)
  BY <1>2, <1>4, Confined DEF storeVars
<1>6. Done(p)'
  BY <1>2, <1>3, <1>4 DEF Done, storeVars, HasRow, Settled
<1>7. Left(x)'
  BY <1>2 DEF LockInv, Left, storeVars
<1> QED
  BY <1>1, <1>2, <1>3, <1>4, <1>5, <1>6, <1>7, WorkKeeps
  DEF CheckDatabase, storeVars, Between, Guarding, Beginning, Active

\* An interrupted session still has its lock file: only a marker, or no row,
\* lets a run remove it.
LEMMA RecoverCommitLocks ==
  ASSUME LifecycleInv, LockInv, NEW p \in Runs, RecoverCommit(p)
  PROVE  LockInv'
<1>1. PICK x \in Sessions : at[p] = x
  BY InHand DEF RecoverCommit, Between
<1>2. /\ TypeOK /\ RowsKept /\ MarkerMeansSettled
      /\ UNCHANGED <<lock, marker, auxiliary, owner, overtaken>>
  BY RecoverCommitKeeps DEF LifecycleInv, StoreInv, RecoverCommit
<1>3. CASE database[x] \in HasRow
  <2>1. /\ database' = [database EXCEPT ![x] = Interrupted(database[x])]
        /\ Goto(p, "mark") /\ UNCHANGED <<todo, at, fd, flocks>>
    BY <1>1, <1>3 DEF RecoverCommit
  <2>2. Alone(p) /\ pc'[p] = "mark" /\ at'[p] = x /\ todo'[p] = todo[p]
    BY <1>1, <1>2, <2>1, GotoAlone
  <2>3. Others(p) /\ Touches(x)
    BY <1>2, <2>1, <2>2, Confined
  <2>4. Done(p)'
    BY <2>2 DEF Done
  <2>5. database'[x] = Interrupted(database[x])
    BY <1>2, <2>1 DEF TypeOK
  <2>6. Left(x)'
    <3> SUFFICES ASSUME x \notin overtaken
                 PROVE  /\ marker[x] \/ lock[x] # None
                        /\ database'[x] = "interrupted" /\ lock[x] = None => ~auxiliary[x]
      BY <1>2 DEF Left
    <3>1. marker[x] \/ lock[x] # None
      BY <1>3 DEF LockInv, Left
    <3>2. database[x] = "running" => lock[x] # None
      BY <1>2, <3>1 DEF MarkerMeansSettled, Settled
    <3>3. database[x] # "running" => database'[x] = database[x]
      BY <2>5 DEF Interrupted
    <3> QED
      BY <3>1, <3>2, <3>3 DEF LockInv, Left
  <2> QED
    BY <1>1, <1>2, <1>3, <2>2, <2>3, <2>4, <2>6, WorkKeeps
    DEF RecoverCommit, Between, Guarding, Beginning, Active
<1>4. CASE database[x] \notin HasRow
  <2>1. Exit(p) /\ UNCHANGED database
    BY <1>1, <1>4 DEF RecoverCommit
  <2>2. Alone(p) /\ pc'[p] = "idle" /\ at'[p] = None /\ todo'[p] = {}
    BY <1>2, <2>1, ExitAlone
  <2>3. Others(p) /\ Touches(x)
    BY <1>2, <2>1, <2>2, Confined
  <2>4. Done(p)' /\ Left(x)'
    BY <1>2, <2>1, <2>2 DEF Done, LockInv, Left
  <2> QED
    BY <1>1, <1>2, <2>1, <2>2, <2>3, <2>4, WorkKeeps
    DEF RecoverCommit, Between, Guarding, Beginning, Active
<1> QED
  BY <1>3, <1>4

\* A marker makes the lock file superfluous.
LEMMA RecoverMarkLocks ==
  ASSUME LifecycleInv, LockInv, NEW p \in Runs, RecoverMark(p)
  PROVE  LockInv'
<1>1. PICK x \in Sessions : at[p] = x
  BY InHand DEF RecoverMark, Between
<1>2. TypeOK /\ RowsKept /\ UNCHANGED <<lock, database, auxiliary, owner, overtaken>>
  BY RecoverMarkKeeps DEF LifecycleInv, RecoverMark
<1>3. /\ Goto(p, "clean") /\ UNCHANGED <<todo, at, fd, flocks>>
      /\ marker' = [marker EXCEPT ![x] = TRUE]
  BY <1>1 DEF RecoverMark
<1>4. Alone(p) /\ pc'[p] = "clean" /\ at'[p] = x /\ todo'[p] = todo[p]
  BY <1>1, <1>2, <1>3, GotoAlone
<1>5. Others(p) /\ Touches(x)
  BY <1>2, <1>3, <1>4, Confined
<1>6. marker'[x]
  BY <1>2, <1>3 DEF TypeOK
<1>7. Done(p)' /\ Left(x)'
  BY <1>2, <1>4, <1>6 DEF Done, LockInv, Left
<1> QED
  BY <1>1, <1>2, <1>4, <1>5, <1>7, WorkKeeps
  DEF RecoverMark, Between, Guarding, Beginning, Active

\* The files of the capture are gone before the lock file is.
LEMMA CleanUpLocks ==
  ASSUME LifecycleInv, LockInv, NEW p \in Runs, CleanUp(p)
  PROVE  LockInv'
<1>1. PICK x \in Sessions : at[p] = x
  BY InHand DEF CleanUp, Between
<1>2. TypeOK /\ RowsKept /\ UNCHANGED <<lock, database, marker, owner, overtaken>>
  BY CleanUpKeeps DEF LifecycleInv, CleanUp
<1>3. /\ Goto(p, "unlock") /\ UNCHANGED <<todo, at, fd, flocks>>
      /\ auxiliary' = [auxiliary EXCEPT ![x] = FALSE]
  BY <1>1 DEF CleanUp
<1>4. Alone(p) /\ pc'[p] = "unlock" /\ at'[p] = x /\ todo'[p] = todo[p]
  BY <1>1, <1>2, <1>3, GotoAlone
<1>5. Others(p) /\ Touches(x)
  BY <1>2, <1>3, <1>4, Confined
<1>6. ~auxiliary'[x]
  BY <1>2, <1>3 DEF TypeOK
<1>7. x \notin overtaken /\ database[x] \in HasRow => marker[x]
  BY <1>1 DEF CleanUp, LockInv, Done
<1>8. Done(p)' /\ Left(x)'
  BY <1>2, <1>4, <1>6, <1>7 DEF Done, LockInv, Left
<1> QED
  BY <1>1, <1>2, <1>4, <1>5, <1>6, <1>8, WorkKeeps
  DEF CleanUp, Between, Guarding, Beginning, Active

\* The flock is given up before the lock file is removed.
LEMMA UnlockLocks ==
  ASSUME LifecycleInv, LockInv, NEW p \in Runs, Unlock(p)
  PROVE  LockInv'
<1>1. PICK x \in Sessions : at[p] = x
  BY InHand DEF Unlock, Between
<1>2. TypeOK /\ RowsKept /\ UNCHANGED <<lock, database, marker, auxiliary, owner, overtaken>>
  BY UnlockKeeps DEF LifecycleInv, Unlock, storeVars
<1>3. Goto(p, "remove") /\ Close(p) /\ UNCHANGED <<todo, at>>
  BY <1>1 DEF Unlock
<1>4. Alone(p) /\ pc'[p] = "remove" /\ at'[p] = x /\ todo'[p] = todo[p]
  BY <1>1, <1>2, <1>3, GotoAlone
<1>5. Others(p) /\ Touches(x)
  BY <1>2, <1>4, Confined
<1>6. x \notin overtaken => (database[x] \in HasRow => marker[x]) /\ ~auxiliary[x]
  BY <1>1 DEF Unlock, LockInv, Done
<1>7. Done(p)' /\ Left(x)'
  BY <1>2, <1>4, <1>6 DEF Done, LockInv, Left
<1> QED
  BY <1>1, <1>2, <1>4, <1>5, <1>7, WorkKeeps
  DEF Unlock, Between, Guarding, Beginning, Active

\* A recovery removes the lock file of a published and cleaned session only.
LEMMA RemoveLockLocks ==
  ASSUME LifecycleInv, LockInv, NEW p \in Runs, RemoveLock(p)
  PROVE  LockInv'
<1>1. PICK x \in Sessions : at[p] = x
  BY InHand DEF RemoveLock, Between
<1>2. TypeOK /\ RowsKept /\ UNCHANGED <<database, marker, auxiliary, owner, overtaken>>
  BY RemoveLockKeeps DEF LifecycleInv, RemoveLock
<1>3. Remove(x) /\ (Exit(p) \/ Rescan(p))
  BY <1>1 DEF RemoveLock
<1>4. /\ Alone(p) /\ pc'[p] \in Between /\ at'[p] = None
      /\ todo'[p] \subseteq todo[p]
  BY <1>2, <1>3, ExitAlone, RescanAlone DEF Between
<1>5. Others(p) /\ Touches(x)
  BY <1>2, <1>3, <1>4, Confined
<1>6. x \notin overtaken => (database[x] \in HasRow => marker[x]) /\ ~auxiliary[x]
  BY <1>1 DEF RemoveLock, LockInv, Done
<1>7. Done(p)'
  BY <1>4 DEF Done, Between
<1>8. Left(x)'
  BY <1>2, <1>6 DEF Left
<1> QED
  BY <1>1, <1>2, <1>4, <1>5, <1>7, <1>8, WorkKeeps
  DEF RemoveLock, Between, Guarding, Beginning, Active

\* A run that gets the flock of its own file guards it.
LEMMA LockOwnLocks ==
  ASSUME LifecycleInv, LockInv, NEW p \in Runs, LockOwn(p)
  PROVE  LockInv'
<1>1. PICK x \in Sessions : at[p] = x
  BY InHand DEF LockOwn, Between, Active
<1>2. TypeOK /\ RowsKept /\ UNCHANGED <<lock, database, marker, auxiliary, owner, overtaken>>
  BY LockOwnKeeps DEF LifecycleInv, LockOwn, storeVars
<1>3. PICK k : /\ Alone(p) /\ pc'[p] = k /\ at'[p] \in {x, None}
               /\ todo'[p] \subseteq todo[p]
               /\ \/ k = "idle" /\ at'[p] = None
                  \/ k = "creating" /\ at'[p] = x /\ fd' = fd /\ p \in flocks'
  <2>1. CASE Exit(p)
    BY <1>2, <2>1, ExitAlone
  <2>2. CASE flocks' = flocks \cup {p} /\ Goto(p, "creating") /\ UNCHANGED <<todo, at, fd>>
    BY <1>1, <1>2, <2>2 DEF TypeOK, Goto, Alone
  <2> QED
    BY <2>1, <2>2 DEF LockOwn
<1>4. Others(p) /\ Touches(x)
  BY <1>2, <1>3, Confined
<1>5. Done(p)' /\ Left(x)'
  BY <1>2, <1>3 DEF Done, LockInv, Left
<1> QED
  BY <1>1, <1>2, <1>3, <1>4, <1>5, WorkKeeps
  DEF LockOwn, Between, Guarding, Beginning, Active

\* The database of a new session has no row yet.
LEMMA CreateDatabaseLocks ==
  ASSUME LifecycleInv, LockInv, NEW p \in Runs, CreateDatabase(p)
  PROVE  LockInv'
<1>1. PICK x \in Sessions : at[p] = x
  BY InHand DEF CreateDatabase, Between, Active
<1>2. TypeOK /\ RowsKept /\ UNCHANGED <<lock, marker, auxiliary, owner, overtaken>>
  BY CreateDatabaseKeeps DEF LifecycleInv, CreateDatabase
<1>3. /\ Goto(p, "initializing") /\ UNCHANGED <<todo, at, fd, flocks>>
      /\ database' = [database EXCEPT ![x] = "empty"]
  BY <1>1 DEF CreateDatabase
<1>4. Alone(p) /\ pc'[p] = "initializing" /\ at'[p] = x /\ todo'[p] = todo[p]
  BY <1>1, <1>2, <1>3, GotoAlone
<1>5. Others(p) /\ Touches(x)
  BY <1>2, <1>3, <1>4, Confined
<1>6. database'[x] = "empty"
  BY <1>2, <1>3 DEF TypeOK
<1>7. Done(p)' /\ Left(x)'
  BY <1>4, <1>6 DEF Done, Left, HasRow, Settled
<1>8. x \notin overtaken => p \in flocks
  BY <1>1 DEF CreateDatabase, LockInv, Guard, Guarded, Holds, Guarding, Beginning
<1> QED
  BY <1>1, <1>2, <1>3, <1>4, <1>5, <1>6, <1>7, <1>8, WorkKeeps
  DEF CreateDatabase, Between, Guarding, Beginning, Active, HasRow, Settled

\* The session row is committed under the flock of the file at the path.
LEMMA InitializeDatabaseLocks ==
  ASSUME LifecycleInv, LockInv, NEW p \in Runs, InitializeDatabase(p)
  PROVE  LockInv'
<1>1. PICK x \in Sessions : at[p] = x
  BY InHand DEF InitializeDatabase, Between, Active
<1>2. TypeOK /\ RowsKept /\ UNCHANGED <<lock, marker, auxiliary, owner, overtaken>>
  BY InitializeDatabaseKeeps DEF LifecycleInv, InitializeDatabase
<1>3. x \notin overtaken => p \in flocks /\ lock[x] # None
  BY <1>1 DEF InitializeDatabase, LockInv, Guard, Guarded, Holds, Guarding, Beginning
<1>4. pc[p] \in Guarding
  BY DEF InitializeDatabase, Guarding, Beginning
<1>5. CASE /\ database' = [database EXCEPT ![x] = "running"]
           /\ Goto(p, "running") /\ UNCHANGED <<todo, at, fd, flocks>>
  <2>1. Alone(p) /\ pc'[p] = "running" /\ at'[p] = x /\ todo'[p] = todo[p]
    BY <1>1, <1>2, <1>5, GotoAlone
  <2>2. Others(p) /\ Touches(x)
    BY <1>2, <1>5, <2>1, Confined
  <2>3. database'[x] = "running"
    BY <1>2, <1>5 DEF TypeOK
  <2>4. Done(p)' /\ Left(x)'
    BY <1>2, <1>3, <2>1, <2>3 DEF Done, Left
  <2> QED
    BY <1>1, <1>2, <1>3, <1>4, <1>5, <2>1, <2>2, <2>3, <2>4, WorkKeeps
    DEF InitializeDatabase, Between
<1>6. CASE Close(p) /\ Goto(p, "undo_lock") /\ UNCHANGED <<todo, at, database>>
  <2>1. Alone(p) /\ pc'[p] = "undo_lock" /\ at'[p] = x /\ todo'[p] = todo[p]
    BY <1>1, <1>2, <1>6, GotoAlone
  <2>2. Others(p) /\ Touches(x)
    BY <1>2, <1>6, <2>1, Confined
  <2>3. Done(p)' /\ Left(x)'
    BY <1>2, <1>6, <2>1 DEF Done, LockInv, Left
  <2> QED
    BY <1>1, <1>2, <1>4, <1>6, <2>1, <2>2, <2>3, WorkKeeps
    DEF InitializeDatabase, Between, Guarding, Beginning, Active
<1> QED
  BY <1>1, <1>5, <1>6 DEF InitializeDatabase

\* A begin that fails has no row to leave behind.
LEMMA UndoLockLocks ==
  ASSUME LifecycleInv, LockInv, NEW p \in Runs, UndoLock(p)
  PROVE  LockInv'
<1>1. PICK x \in Sessions : at[p] = x
  BY InHand DEF UndoLock, Between, Active
<1>2. /\ TypeOK /\ RowsKept /\ database[x] = "empty"
      /\ UNCHANGED <<database, marker, auxiliary, owner, overtaken>>
  BY <1>1, UndoLockKeeps DEF LifecycleInv, StoreInv, Knows, UndoLock, Undoing
<1>3. Goto(p, "undo_database") /\ Remove(x) /\ UNCHANGED <<todo, at, fd, flocks>>
  BY <1>1 DEF UndoLock
<1>4. Alone(p) /\ pc'[p] = "undo_database" /\ at'[p] = x /\ todo'[p] = todo[p]
  BY <1>1, <1>2, <1>3, GotoAlone
<1>5. Others(p) /\ Touches(x)
  BY <1>2, <1>3, <1>4, Confined
<1>6. Done(p)' /\ Left(x)'
  BY <1>2, <1>4 DEF Done, Left, HasRow, Settled
<1> QED
  BY <1>1, <1>2, <1>4, <1>5, <1>6, WorkKeeps
  DEF UndoLock, Between, Guarding, Beginning, Active

\* Nor a database.
LEMMA UndoDatabaseLocks ==
  ASSUME LifecycleInv, LockInv, NEW p \in Runs, UndoDatabase(p)
  PROVE  LockInv'
<1>1. PICK x \in Sessions : at[p] = x
  BY InHand DEF UndoDatabase, Between, Active
<1>2. TypeOK /\ RowsKept /\ UNCHANGED <<lock, marker, auxiliary, owner, overtaken>>
  BY UndoDatabaseKeeps DEF LifecycleInv, UndoDatabase
<1>3. Exit(p) /\ database' = [database EXCEPT ![x] = "none"]
  BY <1>1 DEF UndoDatabase
<1>4. Alone(p) /\ pc'[p] = "idle" /\ at'[p] = None /\ todo'[p] = {}
  BY <1>2, <1>3, ExitAlone
<1>5. Others(p) /\ Touches(x)
  BY <1>2, <1>3, <1>4, Confined
<1>6. database'[x] = "none"
  BY <1>2, <1>3 DEF TypeOK
<1>7. Done(p)' /\ Left(x)'
  BY <1>4, <1>6 DEF Done, Left, HasRow, Settled
<1> QED
  BY <1>1, <1>2, <1>4, <1>5, <1>6, <1>7, WorkKeeps
  DEF UndoDatabase, Between, Guarding, Beginning, Active, HasRow, Settled

\* The capture is installed for a session whose run guards it.
LEMMA InstallLocks ==
  ASSUME LifecycleInv, LockInv, NEW p \in Runs, Install(p)
  PROVE  LockInv'
<1>1. PICK x \in Sessions : at[p] = x
  BY InHand DEF Install, Between, Active
<1>2. TypeOK /\ RowsKept /\ UNCHANGED <<lock, database, marker, owner, overtaken>>
  BY InstallKeeps DEF LifecycleInv, Install
<1>3. /\ Goto(p, "instrumented") /\ UNCHANGED <<todo, at, fd, flocks>>
      /\ auxiliary' = [auxiliary EXCEPT ![x] = TRUE]
  BY <1>1 DEF Install
<1>4. Alone(p) /\ pc'[p] = "instrumented" /\ at'[p] = x /\ todo'[p] = todo[p]
  BY <1>1, <1>2, <1>3, GotoAlone
<1>5. Others(p) /\ Touches(x)
  BY <1>2, <1>3, <1>4, Confined
<1>6. pc[p] \in Guarding
  BY DEF Install, Guarding, Active
<1>7. x \notin overtaken => p \in flocks /\ lock[x] # None /\ database[x] = "running"
  BY <1>1, <1>6 DEF Install, LockInv, Guard, Guarded, Holds, Active
<1>8. Done(p)' /\ Left(x)'
  BY <1>2, <1>4, <1>7 DEF Done, LockInv, Left
<1> QED
  BY <1>1, <1>2, <1>3, <1>4, <1>5, <1>6, <1>7, <1>8, WorkKeeps
  DEF Install, Between

\* The capture is taken away again.
LEMMA FinishCaptureLocks ==
  ASSUME LifecycleInv, LockInv, NEW p \in Runs, FinishCapture(p)
  PROVE  LockInv'
<1>1. PICK x \in Sessions : at[p] = x
  BY InHand DEF FinishCapture, Between, Active
<1>2. TypeOK /\ RowsKept /\ UNCHANGED <<lock, database, marker, owner, overtaken>>
  BY FinishCaptureKeeps DEF LifecycleInv, FinishCapture
<1>3. /\ Goto(p, "collected") /\ UNCHANGED <<todo, at, fd, flocks>>
      /\ auxiliary' = [auxiliary EXCEPT ![x] = FALSE]
  BY <1>1 DEF FinishCapture
<1>4. Alone(p) /\ pc'[p] = "collected" /\ at'[p] = x /\ todo'[p] = todo[p]
  BY <1>1, <1>2, <1>3, GotoAlone
<1>5. Others(p) /\ Touches(x)
  BY <1>2, <1>3, <1>4, Confined
<1>6. pc[p] \in Guarding
  BY DEF FinishCapture, Guarding, Active
<1>7. x \notin overtaken => p \in flocks /\ lock[x] # None /\ database[x] = "running"
  BY <1>1, <1>6 DEF FinishCapture, LockInv, Guard, Guarded, Holds, Active
<1>8. Done(p)' /\ Left(x)'
  BY <1>2, <1>4, <1>7 DEF Done, LockInv, Left
<1> QED
  BY <1>1, <1>2, <1>3, <1>4, <1>5, <1>6, <1>7, <1>8, WorkKeeps
  DEF FinishCapture, Between

\* A guarded session is still running, and becomes finalized.
LEMMA FinalizeLocks ==
  ASSUME LifecycleInv, LockInv, NEW p \in Runs, Finalize(p)
  PROVE  LockInv'
<1>1. PICK x \in Sessions : at[p] = x
  BY InHand DEF Finalize, Between, Active
<1>2. TypeOK /\ RowsKept /\ UNCHANGED <<lock, marker, auxiliary, owner, overtaken>>
  BY FinalizeKeeps DEF LifecycleInv, Finalize
<1>3. pc[p] \in Guarding
  BY DEF Finalize, Guarding
<1>4. x \notin overtaken => p \in flocks /\ lock[x] # None /\ database[x] = "running"
  BY <1>1, <1>3 DEF Finalize, LockInv, Guard, Guarded, Holds, Active
<1>5. CASE database[x] = "running"
  <2>1. /\ database' = [database EXCEPT ![x] = "finalized"]
        /\ Goto(p, "publish") /\ UNCHANGED <<todo, at, fd, flocks>>
    BY <1>1, <1>5 DEF Finalize
  <2>2. Alone(p) /\ pc'[p] = "publish" /\ at'[p] = x /\ todo'[p] = todo[p]
    BY <1>1, <1>2, <2>1, GotoAlone
  <2>3. Others(p) /\ Touches(x)
    BY <1>2, <2>1, <2>2, Confined
  <2>4. database'[x] = "finalized"
    BY <1>2, <2>1 DEF TypeOK
  <2>5. Done(p)' /\ Left(x)'
    BY <1>2, <1>4, <2>2, <2>4 DEF Done, Left
  <2> QED
    BY <1>1, <1>2, <1>3, <1>4, <2>1, <2>2, <2>3, <2>5, WorkKeeps
    DEF Finalize, Between, Active
<1>6. CASE database[x] # "running"
  <2>1. Close(p) /\ Goto(p, "returning") /\ UNCHANGED <<todo, at, database>>
    BY <1>1, <1>6 DEF Finalize
  <2>2. Alone(p) /\ pc'[p] = "returning" /\ at'[p] = x /\ todo'[p] = todo[p]
    BY <1>1, <1>2, <2>1, GotoAlone
  <2>3. Others(p) /\ Touches(x)
    BY <1>2, <2>1, <2>2, Confined
  <2>4. Done(p)' /\ Left(x)'
    BY <1>2, <2>1, <2>2 DEF Done, LockInv, Left
  <2> QED
    BY <1>1, <1>2, <1>3, <2>1, <2>2, <2>3, <2>4, WorkKeeps
    DEF Finalize, Between, Guarding, Beginning, Active
<1> QED
  BY <1>5, <1>6

\* The marker comes before the lock file is given up.
LEMMA PublishLocks ==
  ASSUME LifecycleInv, LockInv, NEW p \in Runs, Publish(p)
  PROVE  LockInv'
<1>1. PICK x \in Sessions : at[p] = x
  BY InHand DEF Publish, Between, Active
<1>2. TypeOK /\ RowsKept /\ UNCHANGED <<lock, database, auxiliary, owner, overtaken>>
  BY PublishKeeps DEF LifecycleInv, Publish
<1>3. /\ Goto(p, "release") /\ UNCHANGED <<todo, at, fd, flocks>>
      /\ marker' = [marker EXCEPT ![x] = TRUE]
  BY <1>1 DEF Publish
<1>4. Alone(p) /\ pc'[p] = "release" /\ at'[p] = x /\ todo'[p] = todo[p]
  BY <1>1, <1>2, <1>3, GotoAlone
<1>5. Others(p) /\ Touches(x)
  BY <1>2, <1>3, <1>4, Confined
<1>6. pc[p] \in Guarding
  BY DEF Publish, Guarding
<1>7. x \notin overtaken => p \in flocks /\ lock[x] # None /\ database[x] = "finalized"
  BY <1>1, <1>6 DEF Publish, LockInv, Guard, Guarded, Holds, Done
<1>8. marker'[x]
  BY <1>2, <1>3 DEF TypeOK
<1>9. Done(p)' /\ Left(x)'
  BY <1>2, <1>4, <1>7, <1>8 DEF Done, LockInv, Left
<1> QED
  BY <1>1, <1>2, <1>3, <1>4, <1>5, <1>6, <1>7, <1>9, WorkKeeps
  DEF Publish, Between, Active

\* The flock is released once the session is published.
LEMMA ReleaseLocks ==
  ASSUME LifecycleInv, LockInv, NEW p \in Runs, Release(p)
  PROVE  LockInv'
<1>1. PICK x \in Sessions : at[p] = x
  BY InHand DEF Release, Between, Active
<1>2. TypeOK /\ RowsKept /\ UNCHANGED <<lock, database, marker, auxiliary, owner, overtaken>>
  BY ReleaseKeeps DEF LifecycleInv, Release, storeVars
<1>3. Goto(p, "remove_own") /\ Close(p) /\ UNCHANGED <<todo, at>>
  BY <1>1 DEF Release
<1>4. Alone(p) /\ pc'[p] = "remove_own" /\ at'[p] = x /\ todo'[p] = todo[p]
  BY <1>1, <1>2, <1>3, GotoAlone
<1>5. Others(p) /\ Touches(x)
  BY <1>2, <1>4, Confined
<1>6. x \notin overtaken => marker[x] /\ database[x] = "finalized"
  BY <1>1 DEF Release, LockInv, Done
<1>7. Done(p)' /\ Left(x)'
  BY <1>2, <1>4, <1>6 DEF Done, LockInv, Left
<1> QED
  BY <1>1, <1>2, <1>4, <1>5, <1>7, WorkKeeps
  DEF Release, Between, Guarding, Beginning, Active

\* A run removes the lock file of a session it has published.
LEMMA RemoveOwnLockLocks ==
  ASSUME LifecycleInv, LockInv, NEW p \in Runs, RemoveOwnLock(p)
  PROVE  LockInv'
<1>1. PICK x \in Sessions : at[p] = x
  BY InHand DEF RemoveOwnLock, Between, Active
<1>2. TypeOK /\ RowsKept /\ UNCHANGED <<database, marker, auxiliary, owner, overtaken>>
  BY RemoveOwnLockKeeps DEF LifecycleInv, RemoveOwnLock
<1>3. Goto(p, "returning") /\ Remove(x) /\ UNCHANGED <<todo, at, fd, flocks>>
  BY <1>1 DEF RemoveOwnLock
<1>4. Alone(p) /\ pc'[p] = "returning" /\ at'[p] = x /\ todo'[p] = todo[p]
  BY <1>1, <1>2, <1>3, GotoAlone
<1>5. Others(p) /\ Touches(x)
  BY <1>2, <1>3, <1>4, Confined
<1>6. x \notin overtaken => marker[x] /\ database[x] = "finalized"
  BY <1>1 DEF RemoveOwnLock, LockInv, Done
<1>7. Done(p)' /\ Left(x)'
  BY <1>2, <1>4, <1>6 DEF Done, Left
<1> QED
  BY <1>1, <1>2, <1>4, <1>5, <1>7, WorkKeeps
  DEF RemoveOwnLock, Between, Guarding, Beginning, Active

\* A run that returns removes its capture.
LEMMA ReturnLocks ==
  ASSUME LifecycleInv, LockInv, NEW p \in Runs, Return(p)
  PROVE  LockInv'
<1>1. PICK x \in Sessions : at[p] = x
  BY InHand DEF Return, Between, Active
<1>2. TypeOK /\ RowsKept /\ UNCHANGED <<lock, database, marker, owner, overtaken>>
  BY ReturnKeeps DEF LifecycleInv, Return
<1>3. Exit(p) /\ auxiliary' = [auxiliary EXCEPT ![x] = FALSE]
  BY <1>1 DEF Return
<1>4. Alone(p) /\ pc'[p] = "idle" /\ at'[p] = None /\ todo'[p] = {}
  BY <1>2, <1>3, ExitAlone
<1>5. Others(p) /\ Touches(x)
  BY <1>2, <1>3, <1>4, Confined
<1>6. ~auxiliary'[x]
  BY <1>2, <1>3 DEF TypeOK
<1>7. Done(p)' /\ Left(x)'
  BY <1>2, <1>4, <1>6 DEF Done, LockInv, Left
<1> QED
  BY <1>1, <1>2, <1>4, <1>5, <1>6, <1>7, WorkKeeps
  DEF Return, Between, Guarding, Beginning, Active

\* So does one that a storage error ends.
LEMMA DropSessionLocks ==
  ASSUME LifecycleInv, LockInv, NEW p \in Runs, DropSession(p)
  PROVE  LockInv'
<1>1. PICK x \in Sessions : at[p] = x
  BY InHand DEF DropSession, Between, Active
<1>2. TypeOK /\ RowsKept /\ UNCHANGED <<lock, database, marker, owner, overtaken>>
  BY DropSessionKeeps DEF LifecycleInv, DropSession
<1>3. Exit(p) /\ auxiliary' = [auxiliary EXCEPT ![x] = FALSE]
  BY <1>1 DEF DropSession
<1>4. Alone(p) /\ pc'[p] = "idle" /\ at'[p] = None /\ todo'[p] = {}
  BY <1>2, <1>3, ExitAlone
<1>5. Others(p) /\ Touches(x)
  BY <1>2, <1>3, <1>4, Confined
<1>6. ~auxiliary'[x]
  BY <1>2, <1>3 DEF TypeOK
<1>7. Done(p)' /\ Left(x)'
  BY <1>2, <1>4, <1>6 DEF Done, LockInv, Left
<1> QED
  BY <1>1, <1>2, <1>4, <1>5, <1>6, <1>7, WorkKeeps
  DEF DropSession, Between, Guarding, Beginning, Active

\* A run that changes no file and has no session in hand afterwards.
LEMMA LetGoKeeps ==
  ASSUME LifecycleInv, LockInv, NEW p \in Runs, Alone(p), RowsKept,
         UNCHANGED <<storeVars, owner, overtaken>>,
         pc'[p] \in Between, at'[p] = None,
         \A s \in todo'[p] : s \in todo[p] \/ lock[s] # None
  PROVE  LockInv'
<1>1. UNCHANGED <<lock, database, marker, auxiliary>> /\ Others(p)
  BY DEF storeVars, Others
<1>2. ASSUME NEW q \in Runs PROVE Guard(q)' /\ Done(q)'
  <2>1. CASE q = p
    BY <2>1 DEF Guard, Guarded, Done, Between, Guarding, Beginning, Active
  <2>2. CASE q # p
    <3>1. Guarded(q) => at[q] # None
      BY InHand, NoneAssumption DEF Guarded
    <3>2. Guard(q)'
      BY <1>1, <2>2, <3>1, GuardSpared
    <3>3. Done(q)'
      BY <1>1, <2>2, DoneSpared
    <3> QED
      BY <3>2, <3>3
  <2> QED
    BY <2>1, <2>2
<1>3. \A q \in Runs : pc'[q] \in Between => at'[q] = None
  BY DEF LockInv, Alone
<1>4. ASSUME NEW s \in Sessions PROVE Fresh(s)' /\ Left(s)'
  <2>1. Fresh(s) /\ Left(s) /\ s # None
    BY NoneAssumption DEF LockInv
  <2>2. Left(s)'
    BY <1>1, <2>1 DEF Left
  <2>3. Fresh(s)'
    BY <1>1, <2>1 DEF Fresh, Alone
  <2> QED
    BY <2>2, <2>3
<1> QED
  BY <1>2, <1>3, <1>4 DEF LockInv

\* A run starts: what it lists has a lock file.
LEMMA StartLocks ==
  ASSUME LifecycleInv, LockInv, NEW p \in Runs, Start(p)
  PROVE  LockInv'
<1>1. TypeOK /\ RowsKept /\ UNCHANGED <<storeVars, owner, overtaken>>
  BY StartKeeps DEF LifecycleInv, Start
<1>2. /\ Alone(p) /\ pc'[p] = "scan" /\ at'[p] = at[p]
      /\ todo'[p] = {s \in Sessions : lock[s] # None}
  BY <1>1 DEF Start, Goto, Alone, TypeOK
<1>3. at[p] = None
  BY DEF Start, LockInv, Between
<1> QED
  BY <1>1, <1>2, <1>3, LetGoKeeps DEF Between

\* A run ends.
LEMMA EndScanLocks ==
  ASSUME LifecycleInv, LockInv, NEW p \in Runs, EndScan(p)
  PROVE  LockInv'
<1>1. TypeOK /\ RowsKept /\ UNCHANGED <<storeVars, owner, overtaken>>
  BY EndScanKeeps DEF LifecycleInv, EndScan
<1>2. Alone(p) /\ pc'[p] = "idle" /\ at'[p] = None /\ todo'[p] = {}
  BY <1>1, ExitAlone DEF EndScan
<1> QED
  BY <1>1, <1>2, LetGoKeeps DEF Between

\* A process dies, whatever it was at.
LEMMA CrashLocks ==
  ASSUME LifecycleInv, LockInv, NEW p \in Runs, Crash(p)
  PROVE  LockInv'
<1>1. TypeOK /\ RowsKept /\ UNCHANGED <<storeVars, owner, overtaken>>
  BY CrashKeeps DEF LifecycleInv, Crash
<1>2. Alone(p) /\ pc'[p] = "idle" /\ at'[p] = None /\ todo'[p] = {}
  BY <1>1, ExitAlone DEF Crash
<1> QED
  BY <1>1, <1>2, LetGoKeeps DEF Between

\* Whoever opens the lock file of a guarded session opens the one its run has.
LEMMA OpenLockLocks ==
  ASSUME LifecycleInv, LockInv, NEW p \in Runs, OpenLock(p)
  PROVE  LockInv'
<1>1. /\ TypeOK /\ RowsKept
      /\ UNCHANGED <<flocks, database, marker, auxiliary, owner, overtaken>>
  BY OpenLockKeeps DEF LifecycleInv, OpenLock
<1>2. PICK s \in todo[p] :
        /\ todo' = [todo EXCEPT ![p] = @ \ {s}]
        /\ at' = [at EXCEPT ![p] = s]
        /\ Goto(p, "opened")
        /\ \E i \in IF lock[s] = None THEN FreeInodes ELSE {lock[s]} :
             /\ lock' = [lock EXCEPT ![s] = i]
             /\ fd' = [fd EXCEPT ![p] = i]
  BY DEF OpenLock
<1>3. PICK i :
        /\ s \in Sessions /\ i \in Inodes /\ i # None /\ (lock[s] # None => i = lock[s])
        /\ lock' = [lock EXCEPT ![s] = i]
        /\ fd' = [fd EXCEPT ![p] = i]
  <2>1. s \in Sessions /\ lock[s] \in Inodes \cup {None}
    BY <1>1 DEF TypeOK
  <2>2. PICK i : /\ i \in (IF lock[s] = None THEN FreeInodes ELSE {lock[s]})
                 /\ lock' = [lock EXCEPT ![s] = i]
                 /\ fd' = [fd EXCEPT ![p] = i]
    BY <1>2
  <2>3. i \in Inodes /\ (lock[s] # None => i = lock[s])
    BY <2>1, <2>2 DEF FreeInodes
  <2>4. i # None
    BY <2>3, NoneAssumption
  <2> QED
    BY <2>1, <2>2, <2>3, <2>4
<1>4. /\ Alone(p) /\ pc'[p] = "opened" /\ at'[p] = s /\ fd'[p] = i
      /\ todo'[p] \subseteq todo[p]
      /\ lock'[s] = i /\ \A t \in Sessions \ {s} : lock'[t] = lock[t]
  BY <1>1, <1>2, <1>3 DEF Alone, Goto, TypeOK
<1>5. Others(p)
  BY <1>1, <1>4 DEF Others
<1>6. ASSUME NEW q \in Runs PROVE Guard(q)' /\ Done(q)'
  <2>1. CASE q = p
    BY <1>4, <2>1 DEF Guard, Guarded, Done, Guarding, Beginning, Active
  <2>2. CASE q # p
    <3>1. ASSUME Guarded(q)
          PROVE  /\ lock'[at[q]] = lock[at[q]]
                 /\ at'[p] = at[q] => pc'[p] = "opened" /\ fd'[p] = fd[q]
      <4>1. at[q] \in Sessions /\ lock[at[q]] = fd[q] /\ fd[q] # None
        BY <3>1, InHand DEF Guarded, LockInv, Guard, Holds
      <4> QED
        BY <1>3, <1>4, <4>1
    <3>2. Guard(q)'
      BY <1>1, <1>5, <2>2, <3>1, GuardSpared
    <3>3. Done(q)'
      BY <1>1, <1>5, <2>2, DoneSpared
    <3> QED
      BY <3>2, <3>3
  <2> QED
    BY <2>1, <2>2
<1>7. \A q \in Runs : pc'[q] \in Between => at'[q] = None
  BY <1>4 DEF LockInv, Alone, Between
<1>8. ASSUME NEW t \in Sessions PROVE Fresh(t)' /\ Left(t)'
  <2>1. Fresh(t) /\ Left(t) /\ Fresh(s)
    BY <1>3 DEF LockInv
  <2>2. owner[s] # None
    BY <1>2, <2>1 DEF Fresh
  <2>3. Fresh(t)'
    BY <1>1, <1>4, <2>1, <2>2 DEF Fresh, Alone
  <2>4. Left(t)'
    BY <1>1, <1>3, <1>4, <2>1 DEF Left
  <2> QED
    BY <2>3, <2>4
<1> QED
  BY <1>6, <1>7, <1>8 DEF LockInv

\* A recovery gets the flock of a session that nobody guards, or overtakes its
\* run, which has not locked it yet.
LEMMA TryLockLocks ==
  ASSUME LifecycleInv, LockInv, NEW p \in Runs, TryLock(p)
  PROVE  LockInv'
<1>1. TypeOK /\ RowsKept /\ UNCHANGED <<storeVars, owner>>
  BY TryLockKeeps DEF LifecycleInv, TryLock
<1>2. CASE Held(fd[p])
  <2>1. Rescan(p) /\ UNCHANGED overtaken
    BY <1>2 DEF TryLock
  <2>2. Alone(p) /\ pc'[p] = "scan" /\ at'[p] = None /\ todo'[p] = todo[p]
    BY <1>1, <2>1, RescanAlone
  <2> QED
    BY <1>1, <2>1, <2>2, LetGoKeeps DEF Between
<1>3. CASE ~Held(fd[p])
  <2>1. /\ flocks' = flocks \cup {p} /\ Goto(p, "locked") /\ UNCHANGED <<todo, at, fd>>
        /\ overtaken' = overtaken \cup {s \in {at[p]} : OwnerIn(s, {"created"})}
        /\ pc[p] = "opened"
    BY <1>3 DEF TryLock
  <2>2. UNCHANGED <<lock, database, marker, auxiliary>>
    BY <1>1 DEF storeVars
  <2>3. Alone(p) /\ pc'[p] = "locked" /\ at'[p] = at[p]
    BY <1>1, <2>1 DEF Alone, Goto, TypeOK
  <2>4. Others(p)
    BY <1>1, <2>1, <2>2, <2>3 DEF Others
  <2>5. ASSUME NEW q \in Runs PROVE Guard(q)' /\ Done(q)'
    <3>1. CASE q = p
      BY <2>3, <3>1 DEF Guard, Guarded, Done, Guarding, Beginning, Active
    <3>2. CASE q # p
      <4>1. ASSUME Guarded(q), at[q] \notin overtaken' PROVE at[p] # at[q]
        <5> SUFFICES ASSUME at[p] = at[q] PROVE FALSE
          OBVIOUS
        <5>1. Holds(q) /\ fd[p] = fd[q]
          BY <3>2, <4>1 DEF LockInv, Guard
        <5>2. q \notin flocks
          BY <1>3, <5>1 DEF Held
        <5>3. owner[at[p]] = q /\ pc[q] = "created" /\ q # None
          BY <5>1, <5>2, NoneAssumption DEF Holds
        <5>4. OwnerIn(at[p], {"created"})
          BY <5>3 DEF OwnerIn
        <5> QED
          BY <2>1, <4>1, <5>4
      <4>2. Guard(q)'
        BY <2>2, <2>3, <2>4, <3>2, <4>1, GuardSpared
      <4>3. Done(q)'
        BY <1>1, <2>2, <2>4, <3>2, DoneSpared
      <4> QED
        BY <4>2, <4>3
    <3> QED
      BY <3>1, <3>2
  <2>6. \A q \in Runs : pc'[q] \in Between => at'[q] = None
    BY <2>3 DEF LockInv, Alone, Between
  <2>7. ASSUME NEW t \in Sessions PROVE Fresh(t)' /\ Left(t)'
    BY <1>1, <2>1, <2>2 DEF LockInv, Fresh, Left
  <2> QED
    BY <2>5, <2>6, <2>7 DEF LockInv
<1> QED
  BY <1>2, <1>3

\* A new session is guarded from its lock file on: nobody has heard of its id.
LEMMA CreateLockLocks ==
  ASSUME LifecycleInv, LockInv, NEW p \in Runs, CreateLock(p)
  PROVE  LockInv'
<1>1. TypeOK /\ RowsKept /\ UNCHANGED <<todo, flocks, database, marker, auxiliary, overtaken>>
  BY CreateLockKeeps DEF LifecycleInv, CreateLock
<1>2. PICK s \in Sessions, i \in FreeInodes :
        /\ owner[s] = None
        /\ owner' = [owner EXCEPT ![s] = p]
        /\ at' = [at EXCEPT ![p] = s]
        /\ lock' = [lock EXCEPT ![s] = i]
        /\ fd' = [fd EXCEPT ![p] = i]
        /\ Goto(p, "created")
  BY DEF CreateLock
<1>3. /\ Fresh(s) /\ database[s] = "none"
      /\ lock[s] = None /\ \A r \in Runs : at[r] # s /\ s \notin todo[r]
      /\ i # None /\ p # None
  BY <1>2, NoneAssumption DEF LockInv, Fresh, LifecycleInv, StoreInv, FreeInodes
<1>4. /\ Alone(p) /\ pc'[p] = "created" /\ at'[p] = s /\ fd'[p] = i
      /\ lock'[s] = i /\ \A t \in Sessions \ {s} : lock'[t] = lock[t]
      /\ owner'[s] = p /\ \A t \in Sessions \ {s} : owner'[t] = owner[t]
  BY <1>1, <1>2 DEF Alone, Goto, TypeOK
<1>5. Others(p)
  BY <1>1, <1>2, <1>4 DEF Others
<1>6. ASSUME NEW q \in Runs PROVE Guard(q)' /\ Done(q)'
  <2>1. CASE q = p
    <3>1. \A r \in Runs \ {p} : at'[r] # s
      BY <1>3, <1>4 DEF Alone
    <3>2. Holds(p)'
      BY <1>3, <1>4 DEF Holds, Active
    <3> QED
      BY <1>4, <2>1, <3>1, <3>2 DEF Guard, Done
  <2>2. CASE q # p
    <3>1. Guarded(q) => at[q] \in Sessions \ {s}
      BY <1>3, InHand DEF Guarded
    <3>2. Guard(q)'
      BY <1>1, <1>4, <1>5, <2>2, <3>1, GuardSpared
    <3>3. Done(q)'
      BY <1>1, <1>5, <2>2, DoneSpared
    <3> QED
      BY <3>2, <3>3
  <2> QED
    BY <2>1, <2>2
<1>7. \A q \in Runs : pc'[q] \in Between => at'[q] = None
  BY <1>4 DEF LockInv, Alone, Between
<1>8. ASSUME NEW t \in Sessions PROVE Fresh(t)' /\ Left(t)'
  <2>1. Fresh(t) /\ Left(t)
    BY DEF LockInv
  <2>2. Fresh(t)'
    BY <1>1, <1>3, <1>4, <2>1 DEF Fresh, Alone
  <2>3. Left(t)'
    BY <1>1, <1>3, <1>4, <2>1 DEF Left, HasRow, Settled
  <2> QED
    BY <2>2, <2>3
<1> QED
  BY <1>6, <1>7, <1>8 DEF LockInv

\* Every step keeps the lock files in order.
LEMMA NextKeepsLocks == LifecycleInv /\ LockInv /\ [Next]_vars => LockInv'
<1> SUFFICES ASSUME LifecycleInv, LockInv, [Next]_vars PROVE LockInv'
  OBVIOUS
<1>1. ASSUME NEW p \in Runs, Recover(p) PROVE LockInv'
  BY <1>1, OpenLockLocks, TryLockLocks, CheckDatabaseLocks, RecoverCommitLocks,
     RecoverMarkLocks, CleanUpLocks, UnlockLocks, RemoveLockLocks DEF Recover
<1>2. ASSUME NEW p \in Runs, Begin(p) PROVE LockInv'
  BY <1>2, CreateLockLocks, LockOwnLocks, CreateDatabaseLocks,
     InitializeDatabaseLocks, UndoLockLocks, UndoDatabaseLocks DEF Begin
<1>3. ASSUME NEW p \in Runs, Run(p) PROVE LockInv'
  BY <1>3, InstallLocks, FinishCaptureLocks, FinalizeLocks, DropSessionLocks DEF Run
<1>4. ASSUME NEW p \in Runs, Finish(p) PROVE LockInv'
  BY <1>4, PublishLocks, ReleaseLocks, RemoveOwnLockLocks, ReturnLocks DEF Finish
<1>5. CASE Next
  BY <1>1, <1>2, <1>3, <1>4, <1>5, StartLocks, EndScanLocks, CrashLocks DEF Next
<1>6. CASE UNCHANGED vars
  <2>1. UNCHANGED <<pc, todo, at, fd, flocks, storeVars, owner, overtaken>>
    BY <1>6 DEF vars, processVars
  <2>2. ASSUME NEW p \in Runs PROVE Guard(p)' /\ Done(p)'
    BY <2>1 DEF storeVars, LockInv, Guard, Guarded, Holds, Done
  <2>3. ASSUME NEW s \in Sessions PROVE Fresh(s)' /\ Left(s)'
    BY <2>1 DEF storeVars, LockInv, Fresh, Left
  <2> QED
    BY <2>1, <2>2, <2>3 DEF LockInv
<1> QED
  BY <1>5, <1>6

\* The lock files stay in order whatever runs, recoveries and crashes interleave.
LEMMA LocksHold == Spec => [](LifecycleInv /\ LockInv)
<1>1. LifecycleInv /\ LockInv /\ [Next]_vars => LockInv'
  BY NextKeepsLocks
<1> QED
  BY InitLocks, <1>1, LifecycleHolds, PTL DEF Spec

\* A recovery never interrupts the session of a live run that locked its file
\* in time.
THEOREM FlockProtects == Spec => []LiveUnlessOvertaken
<1>1. LifecycleInv /\ LockInv => LiveUnlessOvertaken
  BY LockMeans
<1> QED
  BY <1>1, LocksHold, PTL

\* A session row is published or its lock file is still there to be found.
THEOREM NoSessionLost == Spec => []ReachableUnlessOvertaken
<1>1. LifecycleInv /\ LockInv => ReachableUnlessOvertaken
  BY LockMeans
<1> QED
  BY <1>1, LocksHold, PTL

\* An interrupted session whose lock file is gone has no capture files left.
THEOREM NothingLeftBehind == Spec => []InterruptedLeavesNothing
<1>1. LifecycleInv /\ LockInv => InterruptedLeavesNothing
  BY LockMeans
<1> QED
  BY <1>1, LocksHold, PTL
=============================================================================

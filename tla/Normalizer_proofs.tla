-------------------------- MODULE Normalizer_proofs --------------------------
(***************************************************************************)
(* Proofs about Normalizer::replay, for any threads, limits and scenarios: *)
(* every process that is reported as started is reported as ended, once,   *)
(* and the root process is there to be finished.                           *)
(***************************************************************************)
EXTENDS Normalizer, FiniteSetTheorems, WellFoundedInduction, TLAPS

InnerIds == {Inner[t] : t \in Tids}

Leads(g) == g \in Tids /\ group[g] = g /\ at[g] # "unborn"

-----------------------------------------------------------------------------
(* The command: what its records may say. *)

\* A process has the id of its first thread, which is never given to another.
GroupInv ==
  /\ DOMAIN at = Tids
  /\ group \in [Tids -> Tids]
  /\ \A t \in Tids :
       /\ at[t] = "unborn" => group[t] = t
       /\ at[t] # "unborn" => Leads(group[t])

\* No two records are of one time, and none that is still to be written.
TimeInv ==
  /\ clock \in Nat /\ DOMAIN call = Tids
  /\ \A t \in Tids : at[t] = "calling" =>
       /\ call[t].time \in 0 .. clock - 1
       /\ call[t].op = "clone" => call[t].child \in Tids
       /\ \A u \in Tids : at[u] = "calling" /\ call[u].time = call[t].time => u = t
       /\ \A q \in captured : q.time # call[t].time
  /\ \A q \in captured :
       /\ q.time \in 0 .. clock - 1
       /\ \A s \in captured : s.time = q.time => s = q

\* The first thread executes, in the place of a thread of its process.
RecordInv ==
  \A q \in captured :
    /\ q.tid \in Tids /\ at[q.tid] # "unborn" /\ q.tgid = group[q.tid]
    /\ q.kind = "exec" =>
         q.tid = q.tgid /\ q.other \in Tids /\ at[q.other] # "unborn" /\ group[q.other] = q.tgid
    /\ q.kind \in {"fork", "clone"} => q.other \in Tids \cup InnerIds

WorldInv == GroupInv /\ TimeInv /\ RecordInv

-----------------------------------------------------------------------------
(* The replay. *)

\* Each of the identities below n has one entry, or has been reported as
\* ended once.
Ledger(entries, ends, n) ==
  /\ n \in Nat \ {0}
  /\ DOMAIN ends = 1 .. n - 1
  /\ \A p \in DOMAIN entries :
       /\ "identity" \in DOMAIN entries[p]
       /\ entries[p].identity \in 1 .. n - 1
       /\ \A q \in DOMAIN entries : entries[q].identity = entries[p].identity => q = p
  /\ \A i \in 1 .. n - 1 :
       ends[i] = IF \E p \in DOMAIN entries : entries[p].identity = i THEN 0 ELSE 1

\* The root process has an entry until it is finished, under a pid no record
\* takes for that of a thread.
RootInv ==
  /\ rootPid \in InnerIds \/ Leads(rootPid)
  /\ phase \in {"collecting", "planning", "replaying"} => rootPid \in DOMAIN processes
  /\ phase = "finishing" => DOMAIN processes = {rootPid}
  /\ phase = "done" => DOMAIN processes = {}

Books ==
  /\ DOMAIN processes \subseteq Tids \cup InnerIds
  /\ DOMAIN started = 1 .. nextIdentity - 1
  /\ lost \subseteq AllCategories
  /\ Ledger(processes, exits, nextIdentity)

ReplayInv ==
  /\ phase \in {"collecting", "planning", "replaying", "finishing", "done"}
  /\ queue \subseteq captured /\ DOMAIN plan \subseteq captured
  /\ Books
  /\ RootInv

NormalizerInv == WorldInv /\ ReplayInv

-----------------------------------------------------------------------------
(* The steps of the command. *)

\* A step gives no thread another process, once it is born.
Stable ==
  \A t \in Tids : at[t] # "unborn" => at'[t] # "unborn" /\ group'[t] = group[t]

\* One more record at most.
Adds(record) == captured' = captured \/ captured' = captured \cup {record}

LEMMA EmitAdds ==
  ASSUME NEW record, Emit(record)
  PROVE  Adds(record)
BY DEF Emit, Adds

LEMMA GroupsStay ==
  ASSUME GroupInv, group' = group, DOMAIN at' = Tids,
         \A t \in Tids : at'[t] = "unborn" <=> at[t] = "unborn"
  PROVE  GroupInv' /\ Stable
<1>1. \A t \in Tids : at[t] # "unborn" =>
        group[t] \in Tids /\ group[group[t]] = group[t] /\ at[group[t]] # "unborn"
  BY DEF GroupInv, Leads
<1> QED
  BY <1>1 DEF GroupInv, Leads, Stable

LEMMA GroupsGrow ==
  ASSUME GroupInv, NEW t \in Tids, NEW c \in Tids, NEW thread \in BOOLEAN, Clone(t, c, thread)
  PROVE  GroupInv' /\ Stable
<1>1. /\ at[t] = "running" /\ at[c] = "unborn" /\ c # t
      /\ DOMAIN at' = Tids
      /\ at'[t] = "calling" /\ at'[c] = "running"
      /\ \A u \in Tids \ {t, c} : at'[u] = at[u]
      /\ group' = [group EXCEPT ![c] = IF thread THEN group[t] ELSE c]
  BY DEF Clone, Free, GroupInv
<1>2. \A u \in Tids : at[u] # "unborn" =>
        group[u] \in Tids /\ group[group[u]] = group[u] /\ at[group[u]] # "unborn"
  BY DEF GroupInv, Leads
<1>3. /\ group' \in [Tids -> Tids]
      /\ group'[c] = IF thread THEN group[t] ELSE c
      /\ \A u \in Tids \ {c} : group'[u] = group[u]
  BY <1>1, <1>2 DEF GroupInv
<1>4. \A u \in Tids : at'[u] = "unborn" => at[u] = "unborn" /\ u # c
  BY <1>1
<1>5. \A u \in Tids : at'[u] # "unborn" =>
        group'[u] \in Tids /\ group'[group'[u]] = group'[u] /\ at'[group'[u]] # "unborn"
  <2>1. \A u \in Tids : at[u] # "unborn" => at'[u] # "unborn" /\ group'[u] = group[u] /\ group[u] # c
    BY <1>1, <1>2, <1>3
  <2>2. \A u \in Tids : at[u] # "unborn" =>
          group'[u] \in Tids /\ group'[group'[u]] = group'[u] /\ at'[group'[u]] # "unborn"
    BY <1>2, <2>1
  <2>3. group'[c] \in Tids /\ group'[group'[c]] = group'[c] /\ at'[group'[c]] # "unborn"
    BY <1>1, <1>2, <1>3, <2>1
  <2>4. \A u \in Tids : at'[u] # "unborn" => at[u] # "unborn" \/ u = c
    BY <1>1
  <2> QED
    BY <2>2, <2>3, <2>4
<1>6. \A u \in Tids : at'[u] = "unborn" => group'[u] = u
  BY <1>3, <1>4 DEF GroupInv
<1>7. Stable
  BY <1>1, <1>3 DEF Stable
<1> QED
  BY <1>1, <1>3, <1>5, <1>6, <1>7 DEF GroupInv, Leads

\* Records stay true, and a new one has to be.
LEMMA RecordsStay ==
  ASSUME GroupInv, RecordInv, Stable, NEW record, Adds(record),
         captured' # captured =>
           /\ record.tid \in Tids /\ at'[record.tid] # "unborn" /\ record.tgid = group'[record.tid]
           /\ record.kind = "exec" =>
                /\ record.tid = record.tgid /\ record.other \in Tids
                /\ at'[record.other] # "unborn" /\ group'[record.other] = record.tgid
           /\ record.kind \in {"fork", "clone"} => record.other \in Tids \cup InnerIds
  PROVE  RecordInv'
<1>1. InnerIds' = InnerIds
  BY DEF InnerIds
<1> SUFFICES ASSUME NEW q \in captured'
             PROVE  /\ q.tid \in Tids /\ at'[q.tid] # "unborn" /\ q.tgid = group'[q.tid]
                    /\ q.kind = "exec" => /\ q.tid = q.tgid /\ q.other \in Tids
                                          /\ at'[q.other] # "unborn" /\ group'[q.other] = q.tgid
                    /\ q.kind \in {"fork", "clone"} => q.other \in Tids \cup InnerIds
  BY <1>1 DEF RecordInv
<1>2. CASE q \in captured
  BY <1>2 DEF RecordInv, Stable
<1>3. CASE q \notin captured
  BY <1>3 DEF Adds
<1> QED
  BY <1>2, <1>3

\* Times stay apart, if a new call or record takes a time that is new, or that
\* of the call that ends.
LEMMA TimesStay ==
  ASSUME TimeInv, NEW t \in Tids, DOMAIN call' = Tids, clock' \in Nat, clock <= clock',
         \A u \in Tids \ {t} : at'[u] = "calling" => at[u] = "calling" /\ call'[u] = call[u],
         at'[t] = "calling" =>
           \/ at[t] = "calling" /\ call'[t] = call[t]
           \/ /\ call'[t].time \in clock .. clock' - 1
              /\ call'[t].op = "clone" => call'[t].child \in Tids,
         NEW record, Adds(record),
         captured' # captured =>
           \/ /\ record.time \in clock .. clock' - 1
              /\ at'[t] = "calling" => call'[t].time # record.time
           \/ at[t] = "calling" /\ at'[t] # "calling" /\ record.time = call[t].time
  PROVE  TimeInv'
<1>1. clock \in Nat
  BY DEF TimeInv
<1>2. \A q \in captured : q.time \in 0 .. clock - 1
  BY DEF TimeInv
<1>3. \A u \in Tids : at'[u] = "calling" =>
        /\ call'[u].time \in 0 .. clock' - 1
        /\ call'[u].op = "clone" => call'[u].child \in Tids
        /\ \/ at[u] = "calling" /\ call'[u] = call[u] /\ call[u].time \in 0 .. clock - 1
           \/ u = t /\ call'[u].time \in clock .. clock' - 1
  BY <1>1 DEF TimeInv
<1>4. \A u \in Tids, w \in Tids :
        at'[u] = "calling" /\ at'[w] = "calling" /\ call'[u].time = call'[w].time => u = w
  BY <1>1, <1>3 DEF TimeInv
<1>5. \A q \in captured' : q \in captured \/ (q = record /\ captured' # captured)
  BY DEF Adds
<1>6. \A q \in captured' : q.time \in 0 .. clock' - 1
  BY <1>1, <1>2, <1>5 DEF TimeInv
<1>7. \A q \in captured : q.time # record.time \/ captured' = captured
  BY <1>1, <1>2 DEF TimeInv
<1>8. \A q \in captured', s \in captured' : q.time = s.time => q = s
  BY <1>5, <1>7 DEF TimeInv
<1>9. \A u \in Tids, q \in captured' : at'[u] = "calling" => q.time # call'[u].time
  <2> SUFFICES ASSUME NEW u \in Tids, NEW q \in captured', at'[u] = "calling"
               PROVE  q.time # call'[u].time
    OBVIOUS
  <2>1. CASE q \in captured
    BY <1>1, <1>2, <1>3, <2>1 DEF TimeInv
  <2>2. CASE q = record /\ captured' # captured
    BY <1>1, <1>3, <2>2 DEF TimeInv
  <2> QED
    BY <1>5, <2>1, <2>2
<1> QED
  BY <1>3, <1>4, <1>6, <1>8, <1>9 DEF TimeInv

LEMMA CloneStep ==
  ASSUME WorldInv, NEW t \in Tids, NEW c \in Tids, NEW thread \in BOOLEAN, Clone(t, c, thread)
  PROVE  WorldInv' /\ Stable
<1> DEFINE record == Record("fork", t, clock + 1, c, None)
<1>1. /\ at[t] = "running" /\ at[c] = "unborn" /\ c # t
      /\ at' = [at EXCEPT ![t] = "calling", ![c] = "running"]
      /\ call' = [call EXCEPT ![t] = [op |-> "clone", time |-> clock, child |-> c, thread |-> thread]]
      /\ clock' = clock + 2
  BY DEF Clone, Free
<1>2. GroupInv' /\ Stable
  BY GroupsGrow DEF WorldInv
<1>3. Adds(record)
  BY EmitAdds DEF Clone
<1>4. record.kind = "fork" /\ record.tid = t /\ record.tgid = group[t] /\ record.other = c
      /\ record.time = clock + 1
  BY DEF Record
<1> HIDE DEF record
<1>5. group'[t] = group[t] /\ at'[t] # "unborn"
  BY <1>1, <1>2 DEF Stable
<1>6. RecordInv'
  BY <1>2, <1>3, <1>4, <1>5, RecordsStay DEF WorldInv
<1>7. /\ DOMAIN call' = Tids /\ call'[t].time = clock /\ call'[t].child = c
      /\ \A u \in Tids \ {t} : call'[u] = call[u] /\ (at'[u] = "calling" => at[u] = "calling")
      /\ clock \in Nat
  BY <1>1 DEF WorldInv, GroupInv, TimeInv
<1>8. /\ clock' \in Nat /\ clock <= clock' /\ call'[t].time \in clock .. clock' - 1
      /\ record.time \in clock .. clock' - 1 /\ call'[t].time # record.time
  BY <1>1, <1>4, <1>7
<1>9. \A u \in Tids \ {t} : at'[u] = "calling" => at[u] = "calling" /\ call'[u] = call[u]
  BY <1>7
<1>10. TimeInv'
  BY <1>3, <1>7, <1>8, <1>9, TimesStay DEF WorldInv
<1> QED
  BY <1>2, <1>6, <1>10 DEF WorldInv

LEMMA CloneReturnStep ==
  ASSUME WorldInv, NEW t \in Tids, CloneReturn(t)
  PROVE  WorldInv' /\ Stable
<1> DEFINE record == Record("clone", t, call[t].time, SeenAs(call[t].child), [thread |-> call[t].thread])
<1>1. /\ at[t] = "calling" /\ call[t].op = "clone"
      /\ at' = [at EXCEPT ![t] = "running"] /\ call' = [call EXCEPT ![t] = None]
      /\ UNCHANGED <<group, clock>>
  BY DEF CloneReturn
<1>2. DOMAIN at' = Tids /\ at'[t] = "running" /\ \A u \in Tids \ {t} : at'[u] = at[u] /\ call'[u] = call[u]
  BY <1>1 DEF WorldInv, GroupInv, TimeInv
<1>3. GroupInv' /\ Stable
  BY <1>1, <1>2, GroupsStay DEF WorldInv
<1>4. Adds(record)
  BY EmitAdds DEF CloneReturn
<1>5. /\ record.kind = "clone" /\ record.tid = t /\ record.tgid = group[t] /\ record.time = call[t].time
      /\ record.other = SeenAs(call[t].child)
  BY DEF Record
<1>6. call[t].child \in Tids
  BY <1>1 DEF WorldInv, TimeInv
<1>7. SeenAs(call[t].child) \in Tids \cup InnerIds
  BY <1>6 DEF SeenAs, InnerIds
<1> HIDE DEF record
<1>8. RecordInv'
  BY <1>1, <1>2, <1>3, <1>4, <1>5, <1>7, RecordsStay DEF WorldInv
<1>9. DOMAIN call' = Tids /\ clock \in Nat
  BY <1>1 DEF WorldInv, TimeInv
<1>10. TimeInv'
  BY <1>1, <1>2, <1>4, <1>5, <1>9, TimesStay DEF WorldInv
<1> QED
  BY <1>3, <1>8, <1>10 DEF WorldInv

LEMMA ExecStep ==
  ASSUME WorldInv, NEW t \in Tids, Exec(t)
  PROVE  WorldInv' /\ Stable
<1>1. /\ at[t] = "running" /\ at' = [at EXCEPT ![t] = "execing"]
      /\ UNCHANGED <<group, clock, captured, call>>
  BY DEF Exec, Free, recordVars
<1>2. DOMAIN at' = Tids /\ at'[t] = "execing" /\ \A u \in Tids \ {t} : at'[u] = at[u]
  BY <1>1 DEF WorldInv, GroupInv
<1>3. GroupInv' /\ Stable
  BY <1>1, <1>2, GroupsStay DEF WorldInv
<1>4. RecordInv'
  BY <1>1, <1>3, RecordsStay DEF WorldInv, Adds
<1>5. TimeInv'
  BY <1>1, <1>2 DEF WorldInv, TimeInv
<1> QED
  BY <1>3, <1>4, <1>5 DEF WorldInv

LEMMA ExecDoneStep ==
  ASSUME WorldInv, NEW t \in Tids, ExecDone(t)
  PROVE  WorldInv' /\ Stable
<1> DEFINE g == group[t]
           record == Record("exec", g, clock, t, None)
<1>1. /\ at[t] = "execing" /\ at' = [at EXCEPT ![t] = "dead", ![g] = "running"]
      /\ clock' = clock + 1 /\ UNCHANGED <<group, call>>
  BY DEF ExecDone
<1>2. g \in Tids /\ group[g] = g /\ at[g] # "unborn"
  BY <1>1 DEF WorldInv, GroupInv, Leads
<1>3. Adds(record)
  BY EmitAdds DEF ExecDone
<1>4. /\ record.kind = "exec" /\ record.tid = g /\ record.tgid = g /\ record.other = t /\ record.time = clock
  BY <1>2 DEF Record
<1> HIDE DEF record
<1>5. DOMAIN at' = Tids /\ at'[g] = "running" /\ at'[t] \in {"dead", "running"}
      /\ \A u \in Tids \ {t, g} : at'[u] = at[u]
  BY <1>1, <1>2 DEF WorldInv, GroupInv
<1>6. GroupInv' /\ Stable
  BY <1>1, <1>2, <1>5, GroupsStay DEF WorldInv
<1>7. RecordInv'
  BY <1>1, <1>2, <1>3, <1>4, <1>5, <1>6, RecordsStay DEF WorldInv
<1>8. DOMAIN call' = Tids /\ clock \in Nat
  BY <1>1 DEF WorldInv, TimeInv
<1> HIDE DEF g
<1>9. TimeInv'
  BY <1>1, <1>2, <1>3, <1>4, <1>5, <1>8, TimesStay DEF WorldInv
<1> QED
  BY <1>6, <1>7, <1>9 DEF WorldInv

LEMMA ExitStep ==
  ASSUME WorldInv, NEW t \in Tids, Exit(t)
  PROVE  WorldInv' /\ Stable
<1> DEFINE record == Record("exit", t, clock, None, None)
<1>1. /\ at[t] = "running" /\ at' = [at EXCEPT ![t] = "dead"]
      /\ clock' = clock + 1 /\ UNCHANGED <<group, call>>
  BY DEF Exit
<1>2. DOMAIN at' = Tids /\ at'[t] = "dead" /\ \A u \in Tids \ {t} : at'[u] = at[u]
  BY <1>1 DEF WorldInv, GroupInv
<1>3. GroupInv' /\ Stable
  BY <1>1, <1>2, GroupsStay DEF WorldInv
<1>4. Adds(record)
  BY EmitAdds DEF Exit
<1>5. record.kind = "exit" /\ record.tid = t /\ record.tgid = group[t] /\ record.time = clock
  BY DEF Record
<1> HIDE DEF record
<1>6. RecordInv'
  BY <1>1, <1>2, <1>3, <1>4, <1>5, RecordsStay DEF WorldInv
<1>7. DOMAIN call' = Tids /\ clock \in Nat
  BY <1>1 DEF WorldInv, TimeInv
<1>8. TimeInv'
  BY <1>1, <1>2, <1>4, <1>5, <1>7, TimesStay DEF WorldInv
<1> QED
  BY <1>3, <1>6, <1>8 DEF WorldInv

\* The record of a system call, with the time it was entered.
LEMMA FinishAdds ==
  ASSUME NEW t \in Tids, NEW c, NEW entered, Finish(t, c, entered)
  PROVE  \E record : /\ Adds(record)
                     /\ record.kind = "call" /\ record.tid = t /\ record.tgid = group[t]
                     /\ record.time = entered
<1>1. PICK r : Emit(Record("call", t, entered, r, c))
  BY DEF Finish
<1>2. Adds(Record("call", t, entered, r, c))
  BY <1>1, EmitAdds
<1> QED
  BY <1>2 DEF Record

LEMMA CallStep ==
  ASSUME WorldInv, NEW t \in Tids, NEW c, Call(t, c)
  PROVE  WorldInv' /\ Stable
<1>1. /\ at[t] = "running" /\ clock' = clock + 1 /\ UNCHANGED <<at, group, call>>
  BY DEF Call, Finish, Free
<1>2. PICK record : /\ Adds(record)
                    /\ record.kind = "call" /\ record.tid = t /\ record.tgid = group[t]
                    /\ record.time = clock
  BY FinishAdds DEF Call
<1>3. GroupInv' /\ Stable
  BY <1>1, GroupsStay DEF WorldInv, GroupInv
<1>4. RecordInv'
  BY <1>1, <1>2, <1>3, RecordsStay DEF WorldInv
<1>5. DOMAIN call' = Tids /\ clock \in Nat
  BY <1>1 DEF WorldInv, TimeInv
<1>6. TimeInv'
  BY <1>1, <1>2, <1>5, TimesStay DEF WorldInv
<1> QED
  BY <1>3, <1>4, <1>6 DEF WorldInv

LEMMA EnterStep ==
  ASSUME WorldInv, NEW t \in Tids, NEW c, Enter(t, c)
  PROVE  WorldInv' /\ Stable
<1>1. /\ at[t] = "running" /\ at' = [at EXCEPT ![t] = "calling"]
      /\ call' = [call EXCEPT ![t] = [op |-> "call", time |-> clock, about |-> c]]
      /\ clock' = clock + 1 /\ UNCHANGED <<group, captured>>
  BY DEF Enter, Free
<1>2. DOMAIN at' = Tids /\ at'[t] = "calling" /\ \A u \in Tids \ {t} : at'[u] = at[u]
  BY <1>1 DEF WorldInv, GroupInv
<1>3. GroupInv' /\ Stable
  BY <1>1, <1>2, GroupsStay DEF WorldInv
<1>4. RecordInv'
  BY <1>1, <1>3, RecordsStay DEF WorldInv, Adds
<1>5. /\ DOMAIN call' = Tids /\ clock \in Nat /\ call'[t].time = clock /\ call'[t].op = "call"
      /\ \A u \in Tids \ {t} : call'[u] = call[u]
  BY <1>1 DEF WorldInv, TimeInv
<1>6. TimeInv'
  BY <1>1, <1>2, <1>5, TimesStay DEF WorldInv, Adds
<1> QED
  BY <1>3, <1>4, <1>6 DEF WorldInv

LEMMA ReturnStep ==
  ASSUME WorldInv, NEW t \in Tids, Return(t)
  PROVE  WorldInv' /\ Stable
<1>1. /\ at[t] = "calling" /\ at' = [at EXCEPT ![t] = "running"]
      /\ call' = [call EXCEPT ![t] = None] /\ UNCHANGED <<group, clock>>
  BY DEF Return, Finish
<1>2. DOMAIN at' = Tids /\ at'[t] = "running" /\ \A u \in Tids \ {t} : at'[u] = at[u] /\ call'[u] = call[u]
  BY <1>1 DEF WorldInv, GroupInv, TimeInv
<1>3. PICK record : /\ Adds(record)
                    /\ record.kind = "call" /\ record.tid = t /\ record.tgid = group[t]
                    /\ record.time = call[t].time
  BY FinishAdds DEF Return
<1>4. GroupInv' /\ Stable
  BY <1>1, <1>2, GroupsStay DEF WorldInv
<1>5. RecordInv'
  BY <1>1, <1>2, <1>3, <1>4, RecordsStay DEF WorldInv
<1>6. DOMAIN call' = Tids /\ clock \in Nat
  BY <1>1 DEF WorldInv, TimeInv
<1>7. TimeInv'
  BY <1>1, <1>2, <1>3, <1>6, TimesStay DEF WorldInv
<1> QED
  BY <1>4, <1>5, <1>7 DEF WorldInv

\* Kill changes nothing the invariant speaks of.
LEMMA WorldStep ==
  ASSUME WorldInv, WorldNext
  PROVE  WorldInv' /\ Stable /\ captured \subseteq captured'
<1> PICK t \in Tids :
      \/ \E c \in Tids, thread \in BOOLEAN : Clone(t, c, thread)
      \/ CloneReturn(t) \/ Exec(t) \/ ExecDone(t) \/ Kill(t) \/ Exit(t)
      \/ \E c \in left.alphabet : Call(t, c) \/ Enter(t, c)
      \/ Return(t)
  BY DEF WorldNext
<1>1. CASE Kill(t)
  <2>1. UNCHANGED <<at, group, clock, captured, call>>
    BY <1>1 DEF Kill, recordVars
  <2>2. WorldInv'
    BY <2>1 DEF WorldInv, GroupInv, TimeInv, RecordInv, Leads, InnerIds
  <2> QED
    BY <2>1, <2>2 DEF Stable
<1>2. WorldInv' /\ Stable
  BY <1>1, CloneStep, CloneReturnStep, ExecStep, ExecDoneStep, ExitStep, CallStep, EnterStep,
     ReturnStep
<1>3. captured \subseteq captured'
  <2>1. \A record : Emit(record) => captured \subseteq captured'
    BY DEF Emit
  <2> QED
    BY <1>1, <2>1 DEF Clone, CloneReturn, Exec, ExecDone, Exit, Call, Enter, Return, Finish,
                      recordVars
<1> QED
  BY <1>2, <1>3

-----------------------------------------------------------------------------
(* The books of the processes. *)

\* How many of the pids have an identity; one at most.
Count(entries, pids, i) == Cardinality({p \in pids : entries[p].identity = i})

LEMMA CountOne ==
  ASSUME NEW entries, NEW pids \in SUBSET DOMAIN entries, NEW i,
         \A p \in DOMAIN entries, q \in DOMAIN entries :
           entries[q].identity = entries[p].identity => q = p
  PROVE  Count(entries, pids, i) =
           IF \E p \in pids : entries[p].identity = i THEN 1 ELSE 0
<1> DEFINE S == {p \in pids : entries[p].identity = i}
<1>1. CASE \E p \in pids : entries[p].identity = i
  <2>1. PICK p \in pids : entries[p].identity = i
    BY <1>1
  <2>2. S = {p}
    BY <2>1
  <2> HIDE DEF S
  <2>3. Cardinality(S) = 1
    BY <2>2, FS_Singleton
  <2> QED
    BY <1>1, <2>3 DEF S, Count
<1>2. CASE ~\E p \in pids : entries[p].identity = i
  <2>1. S = {}
    BY <1>2
  <2> HIDE DEF S
  <2>2. Cardinality(S) = 0
    BY <2>1, FS_EmptySet
  <2> QED
    BY <1>2, <2>2 DEF S, Count
<1> QED
  BY <1>1, <1>2

\* A process is started under the next identity.
LEMMA LedgerAdds ==
  ASSUME NEW entries, NEW ends, NEW n, Ledger(entries, ends, n),
         NEW pid, pid \notin DOMAIN entries,
         NEW entry, "identity" \in DOMAIN entry, entry.identity = n
  PROVE  Ledger(With(entries, pid, entry), With(ends, n, 0), n + 1)
<1> DEFINE more == With(entries, pid, entry)
           longer == With(ends, n, 0)
<1>1. n \in Nat \ {0} /\ n + 1 \in Nat \ {0} /\ n \notin 1 .. n - 1 /\ 1 .. (n + 1) - 1 = (1 .. n - 1) \cup {n}
  BY DEF Ledger
<1>2. /\ DOMAIN more = DOMAIN entries \cup {pid} /\ more[pid] = entry
      /\ \A p \in DOMAIN entries : more[p] = entries[p] /\ p # pid
  BY DEF With
<1>3. /\ DOMAIN longer = DOMAIN ends \cup {n} /\ longer[n] = 0
      /\ \A i \in DOMAIN ends : i # n => longer[i] = ends[i]
  BY DEF With
<1>4. /\ DOMAIN ends = 1 .. n - 1
      /\ \A p \in DOMAIN entries :
           /\ "identity" \in DOMAIN entries[p]
           /\ entries[p].identity \in 1 .. n - 1
           /\ \A q \in DOMAIN entries : entries[q].identity = entries[p].identity => q = p
      /\ \A i \in 1 .. n - 1 :
           ends[i] = IF \E p \in DOMAIN entries : entries[p].identity = i THEN 0 ELSE 1
  BY DEF Ledger
<1> HIDE DEF more, longer
<1>5. \A p \in DOMAIN more : "identity" \in DOMAIN more[p] /\ more[p].identity \in 1 .. (n + 1) - 1
  BY <1>1, <1>2, <1>4
<1>6. \A p \in DOMAIN more, q \in DOMAIN more : more[q].identity = more[p].identity => q = p
  <2>1. \A p \in DOMAIN entries : more[p].identity # n
    BY <1>1, <1>2, <1>4
  <2> QED
    BY <1>2, <1>4, <2>1
<1>7. ASSUME NEW i \in 1 .. (n + 1) - 1
      PROVE  longer[i] = IF \E p \in DOMAIN more : more[p].identity = i THEN 0 ELSE 1
  <2>1. CASE i = n
    BY <1>2, <1>3, <2>1
  <2>2. CASE i # n
    <3>1. i \in 1 .. n - 1 /\ longer[i] = ends[i]
      BY <1>1, <1>3, <1>4, <2>2
    <3>2. (\E p \in DOMAIN more : more[p].identity = i) <=> \E p \in DOMAIN entries : entries[p].identity = i
      BY <1>2, <2>2
    <3> QED
      BY <1>4, <3>1, <3>2
  <2> QED
    BY <2>1, <2>2
<1>8. DOMAIN longer = 1 .. (n + 1) - 1
  BY <1>1, <1>3, <1>4
<1> QED
  BY <1>1, <1>5, <1>6, <1>7, <1>8 DEF Ledger, more, longer

\* An entry is moved to another pid.
LEMMA LedgerMoves ==
  ASSUME NEW entries, NEW ends, NEW n, Ledger(entries, ends, n),
         NEW alias \in DOMAIN entries, NEW pid, pid \notin DOMAIN entries
  PROVE  Ledger(With(Without(entries, {alias}), pid, entries[alias]), ends, n)
<1> DEFINE moved == With(Without(entries, {alias}), pid, entries[alias])
<1>1. /\ DOMAIN moved = (DOMAIN entries \ {alias}) \cup {pid} /\ moved[pid] = entries[alias]
      /\ \A p \in DOMAIN entries \ {alias} : moved[p] = entries[p] /\ p # pid
  BY DEF With, Without
<1> HIDE DEF moved
<1>2. \A i : (\E p \in DOMAIN moved : moved[p].identity = i) <=> \E p \in DOMAIN entries : entries[p].identity = i
  BY <1>1
<1>3. \A p \in DOMAIN moved : "identity" \in DOMAIN moved[p] /\ moved[p].identity \in 1 .. n - 1
  BY <1>1 DEF Ledger
<1>4. \A p \in DOMAIN moved, q \in DOMAIN moved : moved[q].identity = moved[p].identity => q = p
  BY <1>1 DEF Ledger
<1> QED
  BY <1>2, <1>3, <1>4 DEF Ledger, moved

\* An entry is changed but for its identity.
LEMMA LedgerUpdates ==
  ASSUME NEW entries, NEW ends, NEW n, Ledger(entries, ends, n),
         NEW pid \in DOMAIN entries, NEW entry, "identity" \in DOMAIN entry,
         entry.identity = entries[pid].identity
  PROVE  Ledger([entries EXCEPT ![pid] = entry], ends, n)
<1> DEFINE changed == [entries EXCEPT ![pid] = entry]
<1>1. /\ DOMAIN changed = DOMAIN entries /\ changed[pid] = entry
      /\ \A p \in DOMAIN entries \ {pid} : changed[p] = entries[p]
  OBVIOUS
<1> HIDE DEF changed
<1>2. \A p \in DOMAIN entries : changed[p].identity = entries[p].identity /\ "identity" \in DOMAIN changed[p]
  BY <1>1 DEF Ledger
<1> QED
  BY <1>1, <1>2 DEF Ledger, changed

\* Processes are reported as ended.
LEMMA LedgerRemoves ==
  ASSUME NEW entries, NEW ends, NEW n, Ledger(entries, ends, n),
         NEW pids \in SUBSET DOMAIN entries
  PROVE  Ledger(Without(entries, pids),
                [i \in DOMAIN ends |-> ends[i] + Count(entries, pids, i)],
                n)
<1> DEFINE fewer == Without(entries, pids)
           later == [i \in DOMAIN ends |-> ends[i] + Count(entries, pids, i)]
<1>1. DOMAIN fewer = DOMAIN entries \ pids /\ \A p \in DOMAIN fewer : fewer[p] = entries[p]
  BY DEF Without
<1>2. \A p \in DOMAIN entries, q \in DOMAIN entries : entries[q].identity = entries[p].identity => q = p
  BY DEF Ledger
<1>3. /\ DOMAIN later = DOMAIN ends
      /\ \A i \in DOMAIN ends : later[i] = ends[i] + IF \E p \in pids : entries[p].identity = i THEN 1 ELSE 0
  <2>1. ASSUME NEW i
        PROVE  Count(entries, pids, i) = IF \E p \in pids : entries[p].identity = i THEN 1 ELSE 0
    BY <1>2, CountOne
  <2> QED
    BY <2>1
<1> HIDE DEF fewer, later
<1>4. ASSUME NEW i \in 1 .. n - 1
      PROVE  later[i] = IF \E p \in DOMAIN fewer : fewer[p].identity = i THEN 0 ELSE 1
  <2>1. ends[i] = IF \E p \in DOMAIN entries : entries[p].identity = i THEN 0 ELSE 1
    BY DEF Ledger
  <2>2. later[i] = ends[i] + IF \E p \in pids : entries[p].identity = i THEN 1 ELSE 0
    BY <1>3 DEF Ledger
  <2>3. CASE \E p \in pids : entries[p].identity = i
    <3>1. ~\E p \in DOMAIN fewer : fewer[p].identity = i
      BY <1>1, <1>2, <2>3
    <3>2. \E p \in DOMAIN entries : entries[p].identity = i
      BY <2>3
    <3> QED
      BY <2>1, <2>2, <2>3, <3>1, <3>2
  <2>4. CASE ~\E p \in pids : entries[p].identity = i
    <3>1. (\E p \in DOMAIN fewer : fewer[p].identity = i) <=> \E p \in DOMAIN entries : entries[p].identity = i
      BY <1>1, <2>4
    <3> QED
      BY <2>1, <2>2, <2>4, <3>1
  <2> QED
    BY <2>3, <2>4
<1>5. \A p \in DOMAIN fewer : /\ "identity" \in DOMAIN fewer[p]
                             /\ fewer[p].identity \in 1 .. n - 1
                             /\ \A q \in DOMAIN fewer : fewer[q].identity = fewer[p].identity => q = p
  BY <1>1 DEF Ledger
<1> QED
  BY <1>3, <1>4, <1>5 DEF Ledger, fewer, later

-----------------------------------------------------------------------------
(* What is made of a call. *)

\* The outcome of a call leaves the identity of the process, and the losses
\* it counts are of the categories there are.
Keeps(o, p) ==
  /\ "identity" \in DOMAIN o.process /\ o.process.identity = p.identity
  /\ o.lost \subseteq AllCategories

LEMMA SameKeeps ==
  ASSUME NEW p, "identity" \in DOMAIN p
  PROVE  Keeps(Same(p), p)
BY DEF Keeps, Same

LEMMA LosesKeeps ==
  ASSUME NEW p, "identity" \in DOMAIN p, NEW category \in {"filesystem", "network"}
  PROVE  Keeps(Loses(p, category), p)
BY DEF Keeps, Loses, Same, AllCategories

LEMMA SeesKeeps ==
  ASSUME NEW p, NEW q, "identity" \in DOMAIN q, q.identity = p.identity, NEW operation, NEW target
  PROVE  Keeps(Sees(q, operation, target), p)
BY DEF Keeps, Sees, Same

LEMMA PutKeeps ==
  ASSUME NEW p, "identity" \in DOMAIN p, NEW fd, NEW descriptor
  PROVE  "identity" \in DOMAIN Put(p, fd, descriptor) /\ Put(p, fd, descriptor).identity = p.identity
<1> DEFINE new == With(p.descriptors, fd, descriptor)
<1>1. Put(p, fd, descriptor) = [p EXCEPT !.descriptors = new]
  BY DEF Put
<1> HIDE DEF new
<1> QED
  BY <1>1

LEMMA ThenKeeps ==
  ASSUME NEW a, NEW b, NEW p, Keeps(a, p), Keeps(b, a.process)
  PROVE  Keeps(Then(a, b), p)
BY DEF Keeps, Then

LEMMA SamePutKeeps ==
  ASSUME NEW p, "identity" \in DOMAIN p, NEW fd, NEW descriptor
  PROVE  Keeps(Same(Put(p, fd, descriptor)), p)
BY PutKeeps, SameKeeps DEF Keeps

LEMMA DescriptorKeeps ==
  ASSUME NEW p, "identity" \in DOMAIN p, NEW c, NEW r
  PROVE  Keeps(DescriptorEffect(p, c, r), p)
<1>1. Keeps(Duplicate(p, c.fd, r), p)
  BY SameKeeps, LosesKeeps, SamePutKeeps DEF Duplicate
<1>2. \A directory : Keeps(Same([p EXCEPT !.cwd = directory]), p)
  BY DEF Keeps, Same
<1>3. Keeps(ChangeDirectory(p, c), p)
  BY <1>2, LosesKeeps DEF ChangeDirectory
<1>4. \A descriptors : Keeps(Same([p EXCEPT !.descriptors = descriptors]), p)
  BY DEF Keeps, Same
<1> QED
  BY <1>1, <1>2, <1>3, <1>4, SameKeeps DEF DescriptorEffect

LEMMA NetworkKeeps ==
  ASSUME NEW p, "identity" \in DOMAIN p, NEW c, NEW r
  PROVE  Keeps(NetworkEffect(p, c, r), p)
<1>1. \A fd, descriptor, at_fd, operation, endpoint :
        Keeps(SeesNetwork(Put(p, fd, descriptor), at_fd, operation, endpoint), p)
  BY PutKeeps, SeesKeeps DEF SeesNetwork
<1>2. Keeps(OpenSocket(p, c, r), p)
  BY SamePutKeeps, LosesKeeps DEF OpenSocket
<1>3. Keeps(Listen(p, c), p)
  BY <1>1, SamePutKeeps DEF Listen
<1>4. Keeps(GetSocketName(p, c, r), p)
  BY <1>1, SamePutKeeps DEF GetSocketName
<1>5. Keeps(Accept(p, c, r), p)
  BY <1>1, SamePutKeeps DEF Accept
<1>6. Keeps(Ask(p, c), p)
  BY SamePutKeeps, LosesKeeps DEF Ask
<1>7. Keeps(Answer(p, c), p)
  BY PutKeeps, SeesKeeps, SamePutKeeps DEF Answer
<1>8. ASSUME NEW sending \in BOOLEAN
      PROVE  Keeps(SocketPayload(p, c, sending), p)
  <2> DEFINE message == IF c.dns = None THEN Same(p) ELSE IF sending THEN Ask(p, c) ELSE Answer(p, c)
             endpoint == IF c.endpoint = None THEN SocketAt(p, c.fd).peer ELSE c.endpoint
             event == IF SocketAt(p, c.fd).transport = "udp" /\ endpoint # None
                      THEN SeesNetwork(message.process, c.fd, IF sending THEN "send" ELSE "receive", endpoint)
                      ELSE Same(message.process)
             both == Then(message, event)
  <2>1. Keeps(message, p)
    BY <1>6, <1>7, SameKeeps
  <2> HIDE DEF message, endpoint
  <2>2. Keeps(event, message.process)
    BY <2>1, SeesKeeps, SameKeeps DEF SeesNetwork, Keeps
  <2> HIDE DEF event
  <2>3. Keeps(both, p)
    BY <2>1, <2>2, ThenKeeps
  <2>4. DOMAIN both = {"process", "facts", "touched", "lost"}
    BY DEF Then
  <2>5. SocketPayload(p, c, sending) = [both EXCEPT !.lost = IF c.cut THEN @ \cup {"network"} ELSE @]
    BY DEF SocketPayload, message, endpoint, event
  <2> HIDE DEF both
  <2>6. /\ SocketPayload(p, c, sending).process = both.process
        /\ SocketPayload(p, c, sending).lost \in {both.lost, both.lost \cup {"network"}}
    BY <2>4, <2>5
  <2> QED
    BY <2>3, <2>6 DEF Keeps, AllCategories
<1> QED
  BY <1>1, <1>2, <1>3, <1>4, <1>5, <1>8, SameKeeps, SamePutKeeps DEF NetworkEffect

LEMMA FileKeeps ==
  ASSUME NEW p, "identity" \in DOMAIN p, NEW c, NEW r
  PROVE  Keeps(FileEffect(p, c, r), p)
<1>1. ASSUME NEW o, Keeps(o, p), NEW paths
      PROVE  Keeps(Touching(o, paths), p)
  BY <1>1 DEF Keeps, Touching
<1>2. ASSUME NEW fd, NEW path
      PROVE  Keeps(Opened(p, c, fd, path), p)
  <2> DEFINE tracked == IF fd \in DOMAIN p.descriptors \/ ~Full(p)
                        THEN Same(Put(p, fd, FileDescriptor(path))) ELSE Loses(p, "filesystem")
  <2>1. Keeps(tracked, p) /\ DOMAIN tracked = {"process", "facts", "touched", "lost"}
    BY SamePutKeeps, LosesKeeps DEF Same, Loses
  <2>2. PICK facts, touched :
          Opened(p, c, fd, path) = [tracked EXCEPT !.facts = facts, !.touched = touched]
    BY DEF Opened
  <2> HIDE DEF tracked
  <2> QED
    BY <2>1, <2>2 DEF Keeps
<1>3. \A operation, target, paths : Keeps(Touching(Sees(p, operation, target), paths), p)
  BY <1>1, SeesKeeps
<1>4. Keeps(SinglePath(p, c), p)
  BY <1>3, LosesKeeps DEF SinglePath
<1>5. Keeps(TwoPaths(p, c), p)
  BY <1>3, LosesKeeps DEF TwoPaths
<1>6. Keeps(OpenPath(p, c, r), p)
  BY <1>2, LosesKeeps DEF OpenPath
<1>7. Keeps(DescriptorFile(p, c), p)
  BY DEF Keeps, DescriptorFile, Same
<1> QED
  BY <1>4, <1>5, <1>6, <1>7, SameKeeps, LosesKeeps DEF FileEffect

LEMMA CallKeeps ==
  ASSUME NEW p, "identity" \in DOMAIN p, NEW c, NEW r
  PROVE  Keeps(CallEffect(p, c, r), p)
<1> DEFINE descriptor == DescriptorEffect(p, c, r)
           network == Then(descriptor, NetworkEffect(descriptor.process, c, r))
<1>1. Keeps(descriptor, p)
  BY DescriptorKeeps
<1>2. Keeps(NetworkEffect(descriptor.process, c, r), descriptor.process)
  BY <1>1, NetworkKeeps DEF Keeps
<1>3. CallEffect(p, c, r) = IF r = None THEN Same(p) ELSE Then(network, FileEffect(network.process, c, r))
  BY DEF CallEffect
<1> HIDE DEF descriptor
<1>4. Keeps(network, p)
  BY <1>1, <1>2, ThenKeeps
<1> HIDE DEF network
<1>5. Keeps(FileEffect(network.process, c, r), network.process)
  BY <1>4, FileKeeps DEF Keeps
<1> QED
  BY <1>3, <1>4, <1>5, ThenKeeps, SameKeeps

-----------------------------------------------------------------------------
(* The steps of the replay. *)

LEMMA LeastMember ==
  ASSUME NEW T \in SUBSET Nat, T # {}
  PROVE  \E x \in T : \A y \in T : x <= y
<1>1. PICK x \in T : \A y \in T : ~(<<y, x>> \in OpToRel(<, Nat))
  BY NatLessThanWellFounded, WFMin, Zenon
<1>2. \A y \in T : ~(y < x)
  BY <1>1 DEF OpToRel
<1> QED
  BY <1>2

\* Some record comes first, for no two are of one time.
LEMMA FirstIs ==
  ASSUME TimeInv, NEW S \in SUBSET captured, S # {}
  PROVE  First(S) \in S
<1> DEFINE T == {q.time : q \in S}
<1>1. \A q \in S : q.time \in Nat /\ \A s \in S : s.time = q.time => s = q
  BY DEF TimeInv
<1>2. T \in SUBSET Nat /\ T # {}
  BY <1>1
<1>3. PICK x \in T : \A y \in T : x <= y
  BY <1>2, LeastMember
<1>4. PICK r \in S : r.time = x
  OBVIOUS
<1>5. \A q \in S \ {r} : Before(r, q)
  BY <1>1, <1>3, <1>4 DEF Before
<1> QED
  BY <1>5 DEF First

\* The command has ended: nothing the invariant says of it changes.
LEMMA WorldStays ==
  ASSUME UNCHANGED worldVars
  PROVE  /\ WorldInv => WorldInv'
         /\ captured' = captured /\ InnerIds' = InnerIds
         /\ \A g : Leads(g)' <=> Leads(g)
BY DEF worldVars, processVars, recordVars, WorldInv, GroupInv, TimeInv, RecordInv, Leads, InnerIds

\* The root process is registered.
LEMMA InitBooks == Init => NormalizerInv
<1> SUFFICES ASSUME Init
             PROVE  NormalizerInv
  OBVIOUS
<1>1. /\ Root \in Tids /\ at = [t \in Tids |-> IF t = Root THEN "running" ELSE "unborn"]
      /\ group = [t \in Tids |-> t] /\ call = [t \in Tids |-> None]
      /\ captured = {Record("exec", Root, 0, Root, None)} /\ clock = 1
  BY TidsAssumption DEF Init, WorldInit
<1>2. GroupInv /\ Leads(Root)
  BY <1>1 DEF GroupInv, Leads
<1>3. TimeInv
  BY <1>1 DEF TimeInv, Record
<1>4. RecordInv
  BY <1>1 DEF RecordInv, Record
<1>5. SeenAs(Root) \in {Root, Inner[Root]}
  BY DEF SeenAs
<1>6. rootPid \in InnerIds \/ Leads(rootPid)
  BY <1>1, <1>2, <1>5 DEF Init, InnerIds
<1>7. /\ DOMAIN processes = {rootPid} /\ nextIdentity = 2
      /\ processes[rootPid] = Entry(1, Home, <<>>)
      /\ DOMAIN started = {1} /\ DOMAIN exits = {1} /\ exits[1] = 0 /\ lost = {}
      /\ phase = "collecting" /\ queue = {} /\ plan = <<>>
  BY DEF Init
<1>8. Ledger(processes, exits, nextIdentity)
  BY <1>7 DEF Ledger, Entry
<1>9. Books
  BY <1>6, <1>7, <1>8 DEF Books, Leads
<1>10. ReplayInv
  BY <1>6, <1>7, <1>9 DEF ReplayInv, RootInv
<1> QED
  BY <1>2, <1>3, <1>4, <1>10 DEF NormalizerInv, WorldInv

\* A process is entered under the identity that comes next.
LEMMA StartBooks ==
  ASSUME Books, NEW pid \in Tids \cup InnerIds, pid \notin DOMAIN processes,
         NEW entry, "identity" \in DOMAIN entry, entry.identity = nextIdentity,
         NEW parentIdentity, NEW facts, Start(pid, parentIdentity, facts),
         processes' = With(processes, pid, entry), lost' \subseteq AllCategories,
         InnerIds' = InnerIds
  PROVE  Books' /\ DOMAIN processes \subseteq DOMAIN processes'
<1>1. /\ exits' = With(exits, nextIdentity, 0) /\ nextIdentity' = nextIdentity + 1
      /\ DOMAIN started' = DOMAIN started \cup {nextIdentity}
  BY DEF Start, With
<1>2. Ledger(processes', exits', nextIdentity')
  BY <1>1, LedgerAdds DEF Books
<1>3. DOMAIN processes' = DOMAIN processes \cup {pid}
  BY DEF With
<1>4. DOMAIN started' = 1 .. nextIdentity' - 1
  BY <1>1 DEF Books, Ledger
<1> QED
  BY <1>2, <1>3, <1>4 DEF Books

LEMMA ChildBooks ==
  ASSUME Books, NEW child \in Tids \cup InnerIds, NEW par, RegisterChild(child, par),
         InnerIds' = InnerIds
  PROVE  Books' /\ rootPid' = rootPid /\ DOMAIN processes \subseteq DOMAIN processes'
<1>1. CASE child \in DOMAIN processes
  <2>1. UNCHANGED <<tableVars, sinkVars>>
    BY <1>1 DEF RegisterChild
  <2> QED
    BY <2>1 DEF tableVars, sinkVars, Books
<1>2. CASE child \notin DOMAIN processes /\ Lose(AllCategories)
           /\ UNCHANGED <<tableVars, started, exits, noted, deltas>>
  BY <1>2 DEF Lose, tableVars, Books
<1>3. CASE child \notin DOMAIN processes /\ Lose({"processes"}) /\ RegisterOrphan(child)
           /\ UNCHANGED <<rootPid, threads, deltas>>
  <2>1. /\ processes' = With(processes, child, Entry(nextIdentity, Home, <<>>))
        /\ Start(child, None, {}) /\ lost' \subseteq AllCategories
    BY <1>3 DEF RegisterOrphan, Lose, Books, AllCategories
  <2>2. Entry(nextIdentity, Home, <<>>).identity = nextIdentity
        /\ "identity" \in DOMAIN Entry(nextIdentity, Home, <<>>)
    BY DEF Entry
  <2> QED
    BY <1>3, <2>1, <2>2, StartBooks
<1>4. CASE /\ child \notin DOMAIN processes /\ par \in DOMAIN processes
           /\ processes' = With(processes, child, [processes[par] EXCEPT !.identity = nextIdentity])
           /\ Start(child, processes[par].identity, {"clone"})
           /\ UNCHANGED <<rootPid, lost, deltas>>
  <2> DEFINE entry == [processes[par] EXCEPT !.identity = nextIdentity]
  <2>1. "identity" \in DOMAIN processes[par]
    BY <1>4 DEF Books, Ledger
  <2>2. "identity" \in DOMAIN entry /\ entry.identity = nextIdentity
    BY <2>1
  <2>3. lost' \subseteq AllCategories
    BY <1>4 DEF Books
  <2> HIDE DEF entry
  <2>4. processes' = With(processes, child, entry)
    BY <1>4 DEF entry
  <2> QED
    BY <1>4, <2>2, <2>3, <2>4, StartBooks
<1> QED
  BY <1>1, <1>2, <1>3, <1>4 DEF RegisterChild

LEMMA ThreadBooks ==
  ASSUME Books, NEW thread, NEW par, RegisterThread(thread, par), InnerIds' = InnerIds
  PROVE  Books' /\ rootPid' = rootPid /\ processes' = processes
<1>1. lost' \subseteq AllCategories
  BY DEF RegisterThread, Lose, Books, AllCategories
<1> QED
  BY <1>1 DEF RegisterThread, Books

\* The processes of an exec record: no other process than the one that
\* executes has the id of its former thread.
LEMMA KnownBooks ==
  ASSUME Books, NEW r, NEW known, r.tgid \in DOMAIN known,
         DOMAIN known \subseteq Tids \cup InnerIds,
         Ledger(known, exits, nextIdentity), ExecKnown(r, known),
         UNCHANGED <<nextIdentity, started, lost>>, InnerIds' = InnerIds
  PROVE  Books' /\ DOMAIN processes' = DOMAIN known \ ({r.other} \ {r.tgid})
<1> DEFINE former == {r.other} \cap (DOMAIN known \ {r.tgid})
<1>1. /\ processes' = Without(known, former)
      /\ exits' = [i \in DOMAIN exits |-> exits[i] + Count(known, former, i)]
  BY DEF ExecKnown, Count
<1>2. former \in SUBSET DOMAIN known
  OBVIOUS
<1>3. DOMAIN processes' = DOMAIN known \ former
  BY <1>1 DEF Without
<1>4. DOMAIN known \ former = DOMAIN known \ ({r.other} \ {r.tgid})
  OBVIOUS
<1> HIDE DEF former
<1>5. Ledger(processes', exits', nextIdentity)
  BY <1>1, <1>2, LedgerRemoves
<1> QED
  BY <1>3, <1>4, <1>5 DEF Books

LEMMA ExecBooks ==
  ASSUME WorldInv, Books, rootPid \in InnerIds \/ Leads(rootPid), rootPid \in DOMAIN processes,
         NEW r \in captured, ObserveExec(r), InnerIds' = InnerIds
  PROVE  Books' /\ (rootPid' \in InnerIds \/ Leads(rootPid')) /\ rootPid' \in DOMAIN processes'
<1>1. /\ r.tid = r.tgid /\ r.tid \in Tids /\ at[r.tid] # "unborn" /\ group[r.tid] = r.tgid
      /\ r.other \in Tids /\ group[r.other] = r.tgid
  BY DEF ObserveExec, WorldInv, RecordInv
<1>2. Leads(r.tgid)
  BY <1>1 DEF Leads
<1>3. InnerIds \cap Tids = {}
  BY InnerAssumption DEF InnerIds
<1>4. UNCHANGED <<nextIdentity, started, lost>>
  BY DEF ObserveExec
<1>5. CASE r.tgid \in DOMAIN processes
  <2>1. ExecKnown(r, processes) /\ rootPid' = rootPid
    BY <1>5 DEF ObserveExec
  <2>2. Books' /\ DOMAIN processes' = DOMAIN processes \ ({r.other} \ {r.tgid})
    BY <1>4, <1>5, <2>1, KnownBooks DEF Books
  <2>3. rootPid \notin {r.other} \ {r.tgid}
    BY <1>1, <1>3 DEF Leads
  <2> QED
    BY <2>1, <2>2, <2>3
<1>6. CASE r.tgid \notin DOMAIN processes
  <2> DEFINE known == Rekeyed(rootPid, r.tgid)
  <2>1. ExecKnown(r, known) /\ rootPid' = r.tgid
    BY <1>6 DEF ObserveExec
  <2>2. DOMAIN known = (DOMAIN processes \ {rootPid}) \cup {r.tgid}
    BY DEF Rekeyed, With, Without
  <2>3. Ledger(known, exits, nextIdentity)
    BY <1>6, LedgerMoves DEF Rekeyed, Books
  <2>4. DOMAIN known \subseteq Tids \cup InnerIds
    BY <1>1, <2>2 DEF Books
  <2> HIDE DEF known
  <2>5. Books' /\ DOMAIN processes' = DOMAIN known \ ({r.other} \ {r.tgid})
    BY <1>4, <2>1, <2>2, <2>3, <2>4, KnownBooks
  <2> QED
    BY <1>2, <2>1, <2>2, <2>5
<1> QED
  BY <1>5, <1>6

\* The exit record of a first thread ends another process than the root.
LEMMA ExitBooks ==
  ASSUME WorldInv, Books, rootPid \in InnerIds \/ Leads(rootPid), rootPid \in DOMAIN processes,
         NEW r \in captured, ObserveExit(r), InnerIds' = InnerIds
  PROVE  Books' /\ rootPid' = rootPid /\ rootPid \in DOMAIN processes'
<1> DEFINE gone == IF r.tid = r.tgid /\ r.tgid = rootPid THEN {} ELSE {r.tid} \cap DOMAIN processes
<1>1. r.tid \in Tids /\ group[r.tid] = r.tgid
  BY DEF WorldInv, RecordInv
<1>2. InnerIds \cap Tids = {}
  BY InnerAssumption DEF InnerIds
<1>3. gone \in SUBSET DOMAIN processes /\ rootPid \notin gone
  BY <1>1, <1>2 DEF Leads
<1>4. /\ processes' = Without(processes, gone)
      /\ exits' = [i \in DOMAIN exits |-> exits[i] + Count(processes, gone, i)]
      /\ UNCHANGED <<rootPid, nextIdentity, started, lost>>
  BY DEF ObserveExit, Left, Count
<1> HIDE DEF gone
<1>5. Ledger(processes', exits', nextIdentity')
  BY <1>3, <1>4, LedgerRemoves DEF Books
<1>6. DOMAIN processes' = DOMAIN processes \ gone
  BY <1>4 DEF Without
<1> QED
  BY <1>3, <1>4, <1>5, <1>6 DEF Books

LEMMA CallBooks ==
  ASSUME Books, NEW r, ObserveCall(r), InnerIds' = InnerIds
  PROVE  Books' /\ rootPid' = rootPid /\ DOMAIN processes' = DOMAIN processes
<1> DEFINE pid == IF r.tid \in DOMAIN threads THEN threads[r.tid] ELSE r.tgid
           effect == CallEffect(processes[pid], r.about, r.other)
<1>1. UNCHANGED <<rootPid, nextIdentity, started, exits>>
  BY DEF ObserveCall
<1>2. CASE pid \notin DOMAIN processes
  <2>1. UNCHANGED <<processes, lost>>
    BY <1>2 DEF ObserveCall
  <2> QED
    BY <1>1, <2>1 DEF Books
<1>3. CASE pid \in DOMAIN processes
  <2>1. /\ processes' = [processes EXCEPT ![pid] = effect.process]
        /\ lost' \subseteq lost \cup effect.lost \cup {"filesystem"}
    BY <1>3 DEF ObserveCall, Lose
  <2>2. "identity" \in DOMAIN processes[pid]
    BY <1>3 DEF Books, Ledger
  <2>3. Keeps(effect, processes[pid])
    BY <2>2, CallKeeps
  <2> HIDE DEF pid, effect
  <2>4. lost' \subseteq AllCategories
    BY <2>1, <2>3 DEF Keeps, Books, AllCategories
  <2>5. Ledger(processes', exits', nextIdentity')
    BY <1>1, <1>3, <2>1, <2>3, LedgerUpdates DEF Keeps, Books
  <2>6. DOMAIN processes' = DOMAIN processes
    BY <2>1
  <2> QED
    BY <1>1, <2>4, <2>5, <2>6 DEF Books
<1> QED
  BY <1>2, <1>3

\* The record that comes first is one of the command's, and leaves the root
\* process its entry.
LEMMA RecordStep ==
  ASSUME NormalizerInv, ReplayRecord
  PROVE  NormalizerInv'
<1>1. /\ phase = "replaying" /\ queue # {} /\ queue' = queue \ {First(queue)}
      /\ UNCHANGED <<worldVars, phase, plan>>
  BY DEF ReplayRecord
<1>2. WorldInv' /\ captured' = captured /\ InnerIds' = InnerIds /\ \A g : Leads(g)' <=> Leads(g)
  BY <1>1, WorldStays DEF NormalizerInv
<1>3. First(queue) \in captured
  BY <1>1, FirstIs DEF NormalizerInv, WorldInv, ReplayInv
<1>4. PICK r \in captured :
        ObserveFork(r) \/ ObserveClone(r) \/ ObserveExec(r) \/ ObserveExit(r) \/ ObserveCall(r)
  BY <1>3 DEF ReplayRecord
<1>5. Books /\ WorldInv /\ rootPid \in DOMAIN processes /\ (rootPid \in InnerIds \/ Leads(rootPid))
  BY <1>1 DEF NormalizerInv, ReplayInv, RootInv
<1>6. Books' /\ rootPid' \in DOMAIN processes' /\ (rootPid' \in InnerIds \/ Leads(rootPid'))
  <2>1. r.kind \in {"fork", "clone"} => r.other \in Tids \cup InnerIds
    BY <1>5 DEF WorldInv, RecordInv
  <2>2. ASSUME UNCHANGED <<tableVars, sinkVars>>
        PROVE  Books' /\ UNCHANGED <<rootPid, processes>>
    BY <1>2, <1>5, <2>2 DEF tableVars, sinkVars, Books
  <2>3. CASE ObserveFork(r)
    <3>1. \/ UNCHANGED <<tableVars, sinkVars>>
          \/ RegisterThread(r.other, r.tgid)
          \/ RegisterChild(r.other, r.tgid) /\ r.other \in Tids \cup InnerIds
      BY <2>1, <2>3 DEF ObserveFork
    <3> QED
      BY <1>2, <1>5, <2>2, <3>1, ThreadBooks, ChildBooks
  <2>4. CASE ObserveClone(r)
    <3>1. \/ UNCHANGED <<tableVars, sinkVars>>
          \/ RegisterThread(r.other, r.tgid)
          \/ RegisterChild(r.other, r.tgid) /\ r.other \in Tids \cup InnerIds
      BY <2>1, <2>4 DEF ObserveClone, IsClone
    <3> QED
      BY <1>2, <1>5, <2>2, <3>1, ThreadBooks, ChildBooks
  <2>5. CASE ObserveExec(r)
    BY <1>2, <1>5, <2>5, ExecBooks
  <2>6. CASE ObserveExit(r)
    BY <1>2, <1>5, <2>6, ExitBooks
  <2>7. CASE ObserveCall(r)
    BY <1>2, <1>5, <2>7, CallBooks
  <2> QED
    BY <1>4, <2>3, <2>4, <2>5, <2>6, <2>7
<1>7. RootInv'
  BY <1>1, <1>2, <1>6 DEF RootInv
<1>8. ReplayInv'
  BY <1>1, <1>2, <1>6, <1>7 DEF NormalizerInv, ReplayInv
<1> QED
  BY <1>2, <1>8 DEF NormalizerInv

\* Clones are planned before the first record is replayed.
LEMMA PlanStep ==
  ASSUME NormalizerInv, PlanFork
  PROVE  NormalizerInv'
<1> DEFINE forks == {q \in queue : q.kind = "fork"}
<1>1. /\ phase = "planning"
      /\ UNCHANGED <<worldVars, tableVars, sinkVars>>
      /\ \/ phase' = "replaying" /\ queue' = captured /\ UNCHANGED plan
         \/ /\ forks # {} /\ plan' = Planned(First(forks)) /\ queue' = queue \ {First(forks)}
            /\ UNCHANGED phase
  BY DEF PlanFork
<1>2. WorldInv' /\ captured' = captured /\ InnerIds' = InnerIds /\ \A g : Leads(g)' <=> Leads(g)
  BY <1>1, WorldStays DEF NormalizerInv
<1>3. forks # {} => First(forks) \in captured
  BY FirstIs DEF NormalizerInv, WorldInv, ReplayInv
<1>4. \A r : DOMAIN Planned(r) \subseteq DOMAIN plan \cup {r}
  BY DEF Planned, With
<1> HIDE DEF forks
<1>5. queue' \subseteq captured /\ DOMAIN plan' \subseteq captured
  BY <1>1, <1>3, <1>4 DEF NormalizerInv, ReplayInv
<1>6. Books'
  BY <1>1, <1>2 DEF NormalizerInv, ReplayInv, Books, tableVars, sinkVars
<1>7. RootInv'
  BY <1>1, <1>2 DEF NormalizerInv, ReplayInv, RootInv, tableVars
<1> QED
  BY <1>1, <1>2, <1>5, <1>6, <1>7 DEF NormalizerInv, ReplayInv

\* What is left in the table is reported as ended, the root process last.
LEMMA FinishStep ==
  ASSUME NormalizerInv, FinishRemaining \/ FinishRoot
  PROVE  NormalizerInv'
<1>1. UNCHANGED <<worldVars, queue, plan, rootPid, nextIdentity, started>>
  BY DEF FinishRemaining, FinishRoot
<1>2. WorldInv' /\ captured' = captured /\ InnerIds' = InnerIds /\ \A g : Leads(g)' <=> Leads(g)
  BY <1>1, WorldStays DEF NormalizerInv
<1>3. ASSUME NEW pids \in SUBSET DOMAIN processes, processes' = Without(processes, pids), Left(pids),
             lost' \subseteq AllCategories
      PROVE  Books' /\ DOMAIN processes' = DOMAIN processes \ pids
  <2>1. exits' = [i \in DOMAIN exits |-> exits[i] + Count(processes, pids, i)]
    BY <1>3 DEF Left, Count
  <2>2. Ledger(processes', exits', nextIdentity')
    BY <1>1, <1>3, <2>1, LedgerRemoves DEF NormalizerInv, ReplayInv, Books
  <2>3. DOMAIN processes' = DOMAIN processes \ pids
    BY <1>3 DEF Without
  <2> QED
    BY <1>1, <1>2, <1>3, <2>2, <2>3 DEF NormalizerInv, ReplayInv, Books
<1>4. CASE FinishRemaining
  <2>1. /\ phase = "replaying" /\ phase' = "finishing"
        /\ processes' = Without(processes, DOMAIN processes \ {rootPid})
        /\ Left(DOMAIN processes \ {rootPid})
        /\ lost' \subseteq lost \cup {"processes"}
    BY <1>4 DEF FinishRemaining, Lose
  <2>2. lost' \subseteq AllCategories /\ rootPid \in DOMAIN processes
    BY <2>1 DEF NormalizerInv, ReplayInv, Books, RootInv, AllCategories
  <2>3. Books' /\ DOMAIN processes' = {rootPid}
    <3>1. Books' /\ DOMAIN processes' = DOMAIN processes \ (DOMAIN processes \ {rootPid})
      BY <1>3, <2>1, <2>2
    <3> QED
      BY <2>2, <3>1
  <2>4. RootInv'
    BY <1>1, <1>2, <2>1, <2>3 DEF NormalizerInv, ReplayInv, RootInv
  <2> QED
    BY <1>1, <1>2, <2>1, <2>3, <2>4 DEF NormalizerInv, ReplayInv
<1>5. CASE FinishRoot
  <2>1. phase = "finishing" /\ DOMAIN processes = {rootPid}
    BY <1>5 DEF FinishRoot, NormalizerInv, ReplayInv, RootInv
  <2>2. /\ phase' = "done" /\ lost' = lost
        /\ processes' = Without(processes, {rootPid}) /\ Left({rootPid})
    BY <1>5, <2>1 DEF FinishRoot
  <2>3. Books' /\ DOMAIN processes' = {}
    BY <1>3, <2>1, <2>2 DEF NormalizerInv, ReplayInv, Books
  <2>4. RootInv'
    BY <1>1, <1>2, <2>2, <2>3 DEF NormalizerInv, ReplayInv, RootInv
  <2> QED
    BY <1>1, <1>2, <2>2, <2>3, <2>4 DEF NormalizerInv, ReplayInv
<1> QED
  BY <1>4, <1>5

\* While the command runs nothing is replayed.
LEMMA CollectStep ==
  ASSUME NormalizerInv, phase = "collecting", WorldNext, UNCHANGED replayVars
  PROVE  NormalizerInv'
<1>1. WorldInv' /\ Stable /\ captured \subseteq captured'
  BY WorldStep DEF NormalizerInv
<1>2. UNCHANGED <<phase, queue, plan, rootPid, nextIdentity, processes, started, exits, lost>>
  BY DEF replayVars, tableVars, sinkVars
<1>3. InnerIds' = InnerIds
  BY DEF InnerIds
<1>4. Books'
  BY <1>2, <1>3 DEF NormalizerInv, ReplayInv, Books
<1>5. Leads(rootPid) => Leads(rootPid)'
  BY <1>1, <1>2 DEF Stable, Leads
<1>6. RootInv'
  BY <1>2, <1>3, <1>5 DEF NormalizerInv, ReplayInv, RootInv, Leads
<1> QED
  BY <1>1, <1>2, <1>4, <1>6 DEF NormalizerInv, ReplayInv

LEMMA NormalizerStep == NormalizerInv /\ [Next]_vars => NormalizerInv'
<1> SUFFICES ASSUME NormalizerInv, [Next]_vars
             PROVE  NormalizerInv'
  OBVIOUS
<1>1. ASSUME UNCHANGED <<worldVars, plan, tableVars, sinkVars>>,
             phase' \in {phase, "planning"}, phase' # phase => phase = "collecting",
             queue' \subseteq captured
      PROVE  NormalizerInv'
  <2>1. WorldInv' /\ captured' = captured /\ InnerIds' = InnerIds /\ \A g : Leads(g)' <=> Leads(g)
    BY <1>1, WorldStays DEF NormalizerInv
  <2>2. Books'
    BY <1>1, <2>1 DEF NormalizerInv, ReplayInv, Books, tableVars, sinkVars
  <2>3. RootInv'
    BY <1>1, <2>1 DEF NormalizerInv, ReplayInv, RootInv, tableVars
  <2> QED
    BY <1>1, <2>1, <2>2, <2>3 DEF NormalizerInv, ReplayInv
<1>2. CASE phase = "collecting" /\ WorldNext /\ UNCHANGED replayVars
  BY <1>2, CollectStep
<1>3. CASE StartReplay
  BY <1>1, <1>3 DEF StartReplay
<1>4. CASE Ended \/ UNCHANGED vars
  BY <1>1, <1>4 DEF Ended, vars, replayVars, NormalizerInv, ReplayInv
<1> QED
  BY <1>2, <1>3, <1>4, PlanStep, RecordStep, FinishStep DEF Next

LEMMA NormalizerHolds == Spec => []NormalizerInv
BY InitBooks, NormalizerStep, PTL DEF Spec

(***************************************************************************)
(* The tables of the normalizer are what they are meant to be: entries of  *)
(* pids that threads have, under the identities that were given out.       *)
(***************************************************************************)
THEOREM TypeCorrect == Spec => []TypeOK
<1>1. NormalizerInv => TypeOK
  <2> SUFFICES ASSUME NormalizerInv
               PROVE  TypeOK
    OBVIOUS
  <2>1. DOMAIN exits = Identities /\ \A p \in DOMAIN processes : processes[p].identity \in Identities
    BY DEF NormalizerInv, ReplayInv, Books, Ledger, Identities
  <2> QED
    BY <2>1 DEF NormalizerInv, ReplayInv, Books, TypeOK, Identities, InnerIds
<1> QED
  BY <1>1, NormalizerHolds, PTL

(***************************************************************************)
(* Every process that was reported as started is in the table or has been  *)
(* reported as ended, once, and the root process is in the table until it  *)
(* is finished (record_process, record_process_exit, finish_root), for any *)
(* threads, limits, losses and order of the records.                       *)
(***************************************************************************)
THEOREM StartedEndsOnce == Spec => []EndsOnce
<1>1. NormalizerInv => EndsOnce
  <2> SUFFICES ASSUME NormalizerInv
               PROVE  EndsOnce
    OBVIOUS
  <2>1. Ledger(processes, exits, nextIdentity) /\ RootInv
    BY DEF NormalizerInv, ReplayInv, Books
  <2>2. ASSUME NEW i \in Identities
        PROVE  exits[i] + Cardinality({p \in DOMAIN processes : processes[p].identity = i}) = 1
    <3>1. \A p \in DOMAIN processes, q \in DOMAIN processes :
            processes[q].identity = processes[p].identity => q = p
      BY <2>1 DEF Ledger
    <3>2. Count(processes, DOMAIN processes, i) =
            IF \E p \in DOMAIN processes : processes[p].identity = i THEN 1 ELSE 0
      BY <3>1, CountOne
    <3>3. exits[i] = IF \E p \in DOMAIN processes : processes[p].identity = i THEN 0 ELSE 1
      BY <2>1, <2>2 DEF Ledger, Identities
    <3> QED
      BY <3>2, <3>3 DEF Count
  <2>3. /\ phase \notin {"done", "failed"} => rootPid \in DOMAIN processes
        /\ phase = "done" => DOMAIN processes = {}
    BY <2>1 DEF RootInv, NormalizerInv, ReplayInv
  <2> QED
    BY <2>2, <2>3 DEF EndsOnce
<1> QED
  BY <1>1, NormalizerHolds, PTL
=============================================================================

------------------------------ MODULE Behavior -------------------------------
(***************************************************************************)
(* BehaviorSet (src/src/behavior.rs): what a session says its command did, *)
(* without the numbers that differ from one run of the command to the next. *)
(*                                                                         *)
(* A text is a sequence of tokens: words, numbers and the ids of sessions. *)
(* A session has processes and events, by their ids; 0 is no process.      *)
(***************************************************************************)
EXTENDS Naturals, Sequences, FiniteSets, SequencesExt

Word(w) == <<"word", w>>
Number(n) == <<"number", n>>
SessionId(id) == <<"session", id>>

-----------------------------------------------------------------------------
(* BehaviorNormalizer. *)

ProcessIds(s) == {s.runner} \cup {s.processes[p].pid : p \in DOMAIN s.processes}


\* text, replace_numeric_tokens: of numbers only those that are ids of the
\* session's processes, wherever they stand.
Text(s, text) ==
  [i \in DOMAIN text |->
     IF text[i] = SessionId(s.id) THEN Word("$SESSION")
     ELSE IF text[i][1] = "number" /\ text[i][2] \in ProcessIds(s) THEN Word("$PID")
     ELSE text[i]]

\* Hosts of the machine itself: loopback and wildcard addresses.
Own == {<<Number(127), Number(0), Number(0), Number(1)>>, <<Word("[::1]")>>,
        <<Number(0), Number(0), Number(0), Number(0)>>, <<Word("[::]")>>}

\* network: a target is a transport, a host and a port.  Whether a port was
\* asked for or given is not known: every high one of an own host is taken out.
Network(s, operation, target) ==
  LET text == Text(s, target)
      last == Len(text)
      ephemeral ==
        /\ last > 2 /\ SubSeq(text, 2, last - 1) \in Own
        /\ text[last][1] = "number" /\ text[last][2] >= 32768
        /\ operation \in {"bind", "connect", "listen", "receive", "send"}
  IN  IF ephemeral THEN [text EXCEPT ![last] = Word("$EPHEMERAL")] ELSE text

-----------------------------------------------------------------------------
(* build_process_roles: passes over the processes without a role, in the   *)
(* order of their ids, as long as one of them finds its parent's.          *)

Executable(s, p) == Text(s, s.processes[p].name)
Root(s, p) == s.processes[p].parent \notin DOMAIN s.processes

Resolve(s, roles, p) ==
  LET parent == s.processes[p].parent IN
  IF Root(s, p) THEN roles @@ (p :> [top |-> "root", path |-> <<Executable(s, p)>>])
  ELSE IF parent \in DOMAIN roles
  THEN roles @@ (p :> [roles[parent] EXCEPT !.path = Append(@, Executable(s, p))])
  ELSE roles

Pass(s, roles) ==
  FoldLeft(LAMBDA known, p : Resolve(s, known, p), roles,
           SetToSortSeq(DOMAIN s.processes \ DOMAIN roles, LAMBDA p, q : p < q))

Roles(s) ==
  LET most == Cardinality(DOMAIN s.processes)
      passes[n \in 0 .. most] == IF n = 0 THEN <<>> ELSE Pass(s, passes[n - 1])
  IN  [p \in DOMAIN s.processes |->
         IF p \in DOMAIN passes[most] THEN passes[most][p]
         ELSE [top |-> "orphan", path |-> <<Executable(s, p)>>]]

-----------------------------------------------------------------------------
(* build: what is said about one key comes together in one fact.           *)

Key(category, subject, process) == [category |-> category, subject |-> subject, process |-> process]
None == [top |-> "none", path |-> <<>>]
RoleOf(s, p) == IF p \in DOMAIN s.processes THEN Roles(s)[p] ELSE None

Spawned(s, p) ==
  [key |-> Key("process", RoleOf(s, p), None), operation |-> "spawn",
   evidence |-> s.processes[p].evidence, ids |-> {},
   attributes |-> {<<"executable", Executable(s, p)>>, <<"exit", s.processes[p].exit>>}]

\* Of environment events only those that name a variable; of processes only
\* those that are known.
Counts(s, e) ==
  LET event == s.events[e] IN
  CASE event.category \in {"filesystem", "network"} -> TRUE
    [] event.category = "environment" -> event.named
    [] event.category = "process" -> event.process \in DOMAIN s.processes
    [] OTHER -> FALSE

EventKey(s, e) ==
  LET event == s.events[e]
      role == RoleOf(s, event.process)
  IN  CASE event.category = "filesystem" -> Key("filesystem", Text(s, event.target), role)
        [] event.category = "network" ->
             Key("network", Network(s, event.operation, event.target), role)
        [] event.category = "environment" -> Key("environment", event.target, role)
        [] event.category = "process" -> Key("process", role, None)

Observed(s, e) ==
  LET event == s.events[e] IN
  [key |-> EventKey(s, e), operation |-> event.operation, evidence |-> event.evidence, ids |-> {e},
   attributes |-> IF event.category = "process" THEN {<<"target", Text(s, event.target)>>} ELSE {}]

Facts(s) ==
  LET all == {Spawned(s, p) : p \in DOMAIN s.processes}
               \cup {Observed(s, e) : e \in {e \in DOMAIN s.events : Counts(s, e)}}
      about(key) == {f \in all : f.key = key}
  IN  [key \in {f.key : f \in all} |->
         [value |-> [operations |-> {f.operation : f \in about(key)},
                     evidence |-> {f.evidence : f \in about(key)},
                     attributes |-> UNION {f.attributes : f \in about(key)}],
          ids |-> UNION {f.ids : f \in about(key)}]]
=============================================================================

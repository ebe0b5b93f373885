------------------------------ MODULE Findings -------------------------------
(***************************************************************************)
(* evaluate (src/src/findings.rs): the findings that rest on the events of *)
(* a session, one for each rule, process and subject.                      *)
(***************************************************************************)
EXTENDS Behavior

CONSTANTS
  CredentialPaths, PrivatePaths, \* the paths classify knows, as whole texts
  KeyPrefixes, PublicEndings,    \* first words of key files in ~/.ssh, last ones of public keys
  CredentialNames                \* names of environment variables, as whole texts

Public == {<<Number(0), Number(0), Number(0), Number(0)>>, <<Word("[::]")>>}

\* public_listener
PublicListener(target) ==
  LET last == Len(target) IN
  /\ last > 2 /\ target[1] = Word("tcp") /\ SubSeq(target, 2, last - 1) \in Public
  /\ target[last][1] = "number" /\ target[last][2] < 65536

CredentialPath(path) ==
  path \in CredentialPaths \/ (path[1] \in KeyPrefixes /\ Last(path) \notin PublicEndings)

Rule(id, severity) == [id |-> id, severity |-> severity]

\* The rules an event matches with one of its subjects.
RulesOf(event, subject) ==
  CASE event.category = "filesystem" /\ CredentialPath(subject) -> {Rule("EW-FS-001", "high")}
    [] event.category = "filesystem" /\ subject \in PrivatePaths -> {Rule("EW-FS-002", "medium")}
    [] event.category = "environment" /\ event.operation = "read" /\ subject \in CredentialNames ->
         {Rule("EW-ENV-001", "high")}
    [] event.category = "network" /\ event.operation = "listen" /\ PublicListener(subject) ->
         {Rule("EW-NET-001", "medium")}
    [] OTHER -> {}

\* Operations on two paths have both in their target, with an arrow between.
Arrow == Word("->")

\* What of the target of an event may match: each of its paths, or all of it.
Subjects(event) ==
  LET target == event.target
      ends == {i \in 1 .. Len(target) : target[i] = Arrow} \cup {0, Len(target) + 1}
      next(i) == CHOOSE j \in ends : j > i /\ \A k \in ends : k > i => j <= k
  IN  IF event.category # "filesystem" THEN {target}
      ELSE {SubSeq(target, i + 1, next(i) - 1) : i \in ends \ {Len(target) + 1}}

\* Events count that are observed and of a process.
Evaluate(events, version) ==
  LET counted == {e \in DOMAIN events : events[e].evidence = "observed" /\ events[e].process # 0}
      found(e) == UNION {{[rule |-> rule.id, version |-> version, severity |-> rule.severity,
                           process |-> events[e].process, subject |-> subject]
                          : rule \in RulesOf(events[e], subject)} : subject \in Subjects(events[e])}
  IN  {m @@ [evidence |-> {e \in counted : m \in found(e)}] : m \in UNION {found(e) : e \in counted}}
=============================================================================

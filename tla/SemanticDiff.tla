---------------------------- MODULE SemanticDiff -----------------------------
(***************************************************************************)
(* execwake diff (src/src/semantic_diff.rs): two sessions are loaded and   *)
(* compared.                                                               *)
(*                                                                         *)
(* The sessions are recordings of commands.  A recording numbers processes *)
(* and events in its own way and can lack some of them: what could not be  *)
(* stored is counted as lost (src/src/storage.rs).                         *)
(***************************************************************************)
EXTENDS Findings

CONSTANTS
  Recordings,           \* what is recorded, and how: pairs that are compared
  SupportedProfiles     \* supported_privacy_profile

VARIABLES
  before, after, \* the recordings compared
  diff           \* what the comparison says, or none yet

Categories == {"filesystem", "network", "process", "environment"}
MinSchema == 9       \* MIN_BEHAVIOR_SCHEMA_VERSION
CurrentSchema == 11  \* CURRENT_SCHEMA_VERSION

-----------------------------------------------------------------------------
(* What is recorded.  A command has processes, numbered so that parents    *)
(* come first, and events.  In its texts pid, runner, port and    *)
(* session stand for what differs from run to run.                         *)

Filled(r, text) ==
  [i \in DOMAIN text |->
     CASE text[i][1] = "pid" -> Number(r.pid[text[i][2]])
       [] text[i][1] = "runner" -> Number(r.runner)
       [] text[i][1] = "port" -> Number(r.port)
       [] text[i][1] = "own session" -> SessionId(r.id)
       [] OTHER -> text[i]]

\* record_process: only with its parent.
StoredProcesses(r) ==
  LET processes == r.command.processes
      stored[p \in DOMAIN processes] ==
        p \notin r.lostProcesses /\ (processes[p].parent = 0 \/ stored[processes[p].parent])
  IN  {p \in DOMAIN processes : stored[p]}

\* record_event: only with its process.
StoredEvents(r) ==
  {e \in DOMAIN r.command.events :
     e \notin r.lostEvents /\ r.command.events[e].process \in StoredProcesses(r) \cup {0}}

\* How many records of a category were lost.
LostIn(r, category) ==
  Cardinality({e \in DOMAIN r.command.events \ StoredEvents(r) :
                 r.command.events[e].category = category})
    + (IF category = "process"
       THEN Cardinality((DOMAIN r.command.processes \ StoredProcesses(r)) \cup r.lostExecs) ELSE 0)

\* The session that is left: p and e are the recording's own numbers.
Session(r) ==
  LET id(p) == IF p = 0 THEN 0 ELSE r.identity[p]
      process(p) == r.command.processes[p]
      storedAs(i) == CHOOSE p \in DOMAIN r.command.processes : id(p) = i
      storedAt(n) == CHOOSE e \in DOMAIN r.command.events : r.order[e] = n
      name(p) == IF p \in r.lostExecs THEN process(p).former ELSE process(p).name
      stored(p) == [pid |-> r.pid[p], parent |-> id(process(p).parent), name |-> Filled(r, name(p)),
                    exit |-> process(p).exit, evidence |-> "observed"]
      events == [n \in {r.order[e] : e \in StoredEvents(r)} |->
                   [r.command.events[storedAt(n)] EXCEPT !.target = Filled(r, @), !.process = id(@)]]
  IN
  [id |-> r.id, runner |-> r.runner, schema |-> r.schema, state |-> r.state,
   requested |-> r.requested, backend |-> r.backend, fallback |-> r.fallback, privacy |-> r.privacy,
   coverage |-> [c \in Categories |->
                   [state |-> IF LostIn(r, c) > 0 THEN "partial" ELSE r.coverage[c],
                    lost |-> LostIn(r, c)]],
   processes |-> [i \in {id(p) : p \in StoredProcesses(r)} |-> stored(storedAs(i))],
   events |-> events,
   findings |-> Evaluate(events, r.version)]

-----------------------------------------------------------------------------
(* SessionSnapshot::load. *)

SupportsBehavior(schema) == schema \in MinSchema .. CurrentSchema

\* The collector a session names is one that the request allows.
DecisionIsValid(s) ==
  /\ s.schema >= 10 =>
       /\ s.requested \in {"auto", "ebpf", "ptrace"}
       /\ s.fallback # "none" => s.requested = "auto" /\ s.backend = "ptrace"
  /\ SupportsBehavior(s.schema) => s.backend \in {"ebpf", "ptrace", "none"}

CoverageIsValid(coverage) ==
  /\ coverage.state \in {"complete", "partial", "unavailable"}
  /\ coverage.lost > 0 => coverage.state = "partial"

\* load_findings: a finding rests on events of its process.
FindingIsValid(s, f) ==
  /\ f.process \in DOMAIN s.processes /\ f.version > 0 /\ f.evidence # {}
  /\ \A e \in f.evidence : e \in DOMAIN s.events /\ s.events[e].process = f.process

Loads(s) ==
  /\ s.state \in {"finalized", "interrupted"}
  /\ s.schema \in 1 .. CurrentSchema
  /\ DecisionIsValid(s)
  /\ \A c \in DOMAIN s.coverage : CoverageIsValid(s.coverage[c])
  /\ SupportsBehavior(s.schema) => \A f \in s.findings : FindingIsValid(s, f)

FactsOf(s) == IF SupportsBehavior(s.schema) THEN Facts(s) ELSE <<>>

\* Findings by rule, role and subject: of several the last, in the order of
\* their versions and processes.
FindingsOf(s) ==
  LET found == IF SupportsBehavior(s.schema) THEN s.findings ELSE {}
      key(f) == [rule |-> f.rule, process |-> Roles(s)[f.process], subject |-> f.subject]
      later(f, g) == f.version > g.version \/ (f.version = g.version /\ f.process >= g.process)
  IN  [k \in {key(f) : f \in found} |->
         LET last == CHOOSE f \in found : key(f) = k /\ \A g \in found : key(g) = k => later(f, g)
         IN  [version |-> last.version, severity |-> last.severity]]

-----------------------------------------------------------------------------
(* compare. *)

\* compare_compatibility
Issues(b, a, category) ==
  LET left == b.coverage[category]
      right == a.coverage[category]
      where(condition, issue) == IF condition THEN {issue} ELSE {}
  IN  UNION {
    where(b.schema # a.schema, "schema_mismatch"),
    where(~SupportsBehavior(b.schema) \/ ~SupportsBehavior(a.schema), "unsupported_schema"),
    where("none" \in {b.backend, a.backend}, "backend_unavailable"),
    where("none" \notin {b.backend, a.backend} /\ b.backend # a.backend, "backend_mismatch"),
    where("none" \in {b.privacy, a.privacy}, "privacy_profile_unavailable"),
    where("none" \notin {b.privacy, a.privacy} /\ b.privacy # a.privacy, "privacy_profile_mismatch"),
    where(b.privacy = a.privacy /\ b.privacy \notin SupportedProfiles \cup {"none"},
          "unsupported_privacy_profile"),
    where("unavailable" \in {left.state, right.state}, "coverage_unavailable"),
    where(left.state # right.state, "coverage_mismatch"),
    where(left.lost > 0 \/ right.lost > 0, "lost_events")}

\* Mutant of Comparable: lost events do not matter.
ComparableDespiteLoss(b, a, category) == Issues(b, a, category) \ {"lost_events"} = {}

Comparable(b, a, category) == Issues(b, a, category) = {}

\* change_status of what two tables hold under a key.
Status(left, right, key, comparable) ==
  IF key \in DOMAIN left \cap DOMAIN right
  THEN IF left[key] = right[key] THEN "UNCHANGED" ELSE "CHANGED"
  ELSE IF ~comparable THEN "none"
  ELSE IF key \in DOMAIN right THEN "NEW" ELSE "REMOVED"

Values(facts) == [key \in DOMAIN facts |-> facts[key].value]

\* compare_behavior
BehaviorChanges(b, a) ==
  LET left == Values(FactsOf(b))
      right == Values(FactsOf(a))
  IN  {c \in {[key |-> key, status |-> Status(left, right, key, Comparable(b, a, key.category))]
              : key \in DOMAIN left \cup DOMAIN right} : c.status # "none"}

\* finding_category
RuleCategory(rule) ==
  CASE rule \in {"EW-FS-001", "EW-FS-002"} -> "filesystem"
    [] rule = "EW-NET-001" -> "network"
    [] rule = "EW-ENV-001" -> "environment"
    [] OTHER -> "process"

\* compare_findings
FindingChanges(b, a) ==
  LET left == FindingsOf(b)
      right == FindingsOf(a)
  IN  {c \in {[key |-> key,
               status |-> Status(left, right, key, Comparable(b, a, RuleCategory(key.rule)))]
              : key \in DOMAIN left \cup DOMAIN right} : c.status # "none"}

\* policy_exit_code
ExitCode(d) ==
  IF d.incomparable # {} THEN 11
  ELSE IF \E c \in d.behavior \cup d.findings : c.status # "UNCHANGED" THEN 10 ELSE 0

\* No comparison: not yet, or of an invalid session.
Without(result) == [result |-> result, behavior |-> {}, findings |-> {}, incomparable |-> {}]

Diff(b, a) ==
  [result |-> "compared", behavior |-> BehaviorChanges(b, a),
   findings |-> FindingChanges(b, a), incomparable |-> {c \in Categories : ~Comparable(b, a, c)}]

-----------------------------------------------------------------------------
Vars == <<before, after, diff>>

Init == \E pair \in Recordings : before = pair[1] /\ after = pair[2] /\ diff = Without("nothing yet")

\* compare_paths
ComparePaths ==
  LET b == Session(before)
      a == Session(after)
  IN  /\ diff.result = "nothing yet"
      /\ diff' = IF Loads(b) /\ Loads(a) THEN Diff(b, a) ELSE Without("invalid")
      /\ UNCHANGED <<before, after>>

Printed == diff.result # "nothing yet" /\ UNCHANGED Vars

Next == ComparePaths \/ Printed
Spec == Init /\ [][Next]_Vars

-----------------------------------------------------------------------------
(* Properties. *)

\* The same said of a command, without a recording of it: what differs from
\* run to run is left out.
Blank(text) ==
  [i \in DOMAIN text |->
     IF text[i][1] \in {"pid", "runner"} THEN Word("$PID")
     ELSE IF text[i][1] = "own session" THEN Word("$SESSION") ELSE text[i]]
Ancestry(command, p) ==
  LET line[q \in DOMAIN command.processes] ==
        LET parent == command.processes[q].parent
            name == Blank(command.processes[q].name)
        IN  IF parent = 0 THEN <<name>> ELSE Append(line[parent], name)
  IN  IF p = 0 THEN <<>> ELSE line[p]
Deeds(command, categories) ==
  {e \in {command.events[i] : i \in DOMAIN command.events} : e.category \in categories}
Conduct(command) ==
  [processes |-> {<<Ancestry(command, p), command.processes[p].exit>>
                  : p \in DOMAIN command.processes},
   deeds |-> {<<Ancestry(command, e.process), e.category, e.operation, Blank(e.target)>>
              : e \in Deeds(command, {"filesystem", "network", "environment"})},
   steps |-> {<<Ancestry(command, e.process), e.operation>> : e \in Deeds(command, {"process"})},
   programs |-> {<<Ancestry(command, e.process), Blank(e.target)>>
                 : e \in Deeds(command, {"process"})}]

\* The command with every high port of an own host left open, those it asked
\* for by number included: the code takes them all for ephemeral ones.
PortsOpen(command) ==
  LET high(e) == LET target == e.target
                     last == Len(target)
                 IN  /\ e.category = "network" /\ last > 2
                     /\ SubSeq(target, 2, last - 1) \in Own
                     /\ target[last][1] = "number" /\ target[last][2] >= 32768
      open(e) == IF high(e) THEN [e EXCEPT !.target[Len(e.target)] = <<"port">>] ELSE e
  IN  [command EXCEPT !.events = [i \in DOMAIN @ |-> open(@[i])]]

NumbersIn(text) == {text[i][2] : i \in {i \in DOMAIN text : text[i][1] = "number"}}
Texts(command) ==
  {command.processes[p].name : p \in DOMAIN command.processes}
    \cup {command.events[e].target : e \in DOMAIN command.events}

\* No number of the command is by chance the id of one of its processes.
Distinct(r) ==
  ({r.port} \cup UNION {NumbersIn(text) : text \in Texts(r.command)})
    \cap ({r.runner} \cup {r.pid[p] : p \in DOMAIN r.command.processes}) = {}

Compared == diff.result = "compared"
Plain == before.lostExecs \cup after.lostExecs = {} /\ Distinct(before) /\ Distinct(after)

\* The subjects of the findings are the same in every recording.
Matched(r) ==
  LET stored(e) == Session(r).events[r.order[e]] IN
  {e \in StoredEvents(r) : \E subject \in Subjects(stored(e)) : RulesOf(stored(e), subject) # {}}
Fixed(r) == LET target(e) == r.command.events[e].target
            IN  \A e \in Matched(r) : Blank(target(e)) = target(e) /\ <<"port">> \notin Range(target(e))


\* README.md:180: "It returns 0 when there are no changes".  Not so when a
\* finding is about a key file or an endpoint whose name holds an id or a port
\* that differs from run to run: the subjects of findings are compared as they
\* were stored.
RepeatedIsUnchanged ==
  Compared /\ ExitCode(diff) # 11 /\ Plain /\ before.version = after.version
    /\ Conduct(before.command) = Conduct(after.command) => ExitCode(diff) = 0

\* README.md:186: categories with lost events "are marked incomparable instead
\* of being treated as absent".  When a command did the same twice, what is
\* missing from one recording of it is not taken for new or removed: not in its
\* own category, nor, for the processes that are missing, in any other.
LossIsNotAbsence ==
  Compared /\ Plain /\ Fixed(before) /\ Conduct(before.command) = Conduct(after.command) =>
    \A c \in diff.behavior \cup diff.findings : c.status \notin {"NEW", "REMOVED"}
=============================================================================

--------------------------- MODULE MCSemanticDiff ----------------------------
(***************************************************************************)
(* SemanticDiff for TLC: commands that differ in one thing from a first    *)
(* one, each recorded with two numberings and compared with each other     *)
(* (Pairs); each with itself where something was lost (Losses); and        *)
(* sessions that differ in how they were recorded (Others).                *)
(***************************************************************************)
EXTENDS SemanticDiff

Process(parent, name) == [parent |-> parent, former |-> <<Word("sh")>>, name |-> name, exit |-> 0]
Event(category, operation, target, process) ==
  [category |-> category, operation |-> operation, target |-> target, process |-> process,
   evidence |-> "observed", named |-> TRUE]
Tcp(host, port) == <<Word("tcp")>> \o host \o <<port>>
Loopback == <<Number(127), Number(0), Number(0), Number(1)>>
Elsewhere == <<Number(192), Number(0), Number(2), Number(1)>>

Node == <<Word("node")>>
Git == <<Word("git")>>
Token == <<Word("GITHUB_TOKEN")>>
Wildcard == <<Number(0), Number(0), Number(0), Number(0)>>
Npmrc == <<Word("$HOME/.npmrc")>>

Command ==
  [processes |-> <<Process(0, Node), Process(1, Git), Process(2, <<Word("ssh"), Number(2)>>)>>,
   events |->
     <<Event("filesystem", "write", <<Word("npm"), <<"pid", 1>>, <<"runner">>, <<"own session">>>>, 1),
       Event("filesystem", "read", Npmrc, 3),
       Event("network", "connect", Tcp(Loopback, <<"port">>), 2),
       Event("process", "exec", Git, 2)>>]

Also(event) == [Command EXCEPT !.events = Append(@, event)]

Commands ==
  {Command,
   \* once more what was done before, by the same process or another
   Also(Command.events[1]), Also([Command.events[1] EXCEPT !.process = 2]),
   Also([Command.events[1] EXCEPT !.operation = "read"]),
   \* another path, another host, a port that is not ephemeral
   Also(Event("filesystem", "write", <<Word("npm"), Number(80)>>, 1)),
   Also(Event("network", "connect", Tcp(Elsewhere, Number(40000)), 2)),
   Also(Event("network", "listen", Tcp(Loopback, Number(80)), 2)),
   Also(Event("environment", "read", <<Word("HOME")>>, 1)),
   Also(Event("environment", "read", Token, 1)),
   Also(Event("network", "listen", Tcp(Wildcard, Number(80)), 2)),
   \* high ports of own hosts that were asked for by number
   Also(Event("network", "listen", Tcp(Loopback, Number(40000)), 2)),
   Also(Event("network", "listen", Tcp(<<Word("[::1]")>>, Number(40000)), 2)),
   Also(Event("network", "listen", Tcp(Loopback, Number(45000)), 2)),
   Also(Event("network", "listen", Tcp(Wildcard, Number(45000)), 2)),
   \* processes that are more, elsewhere, or end otherwise
   [Command EXCEPT !.processes = Append(@, Process(1, Git))],
   [Command EXCEPT !.processes[3].parent = 1],
   [Command EXCEPT !.processes[2].exit = 1],
   [Command EXCEPT !.processes[1].name = Git],
   \* no finding, or one about what differs from run to run
   [Command EXCEPT !.events[2].target = <<Word("file")>>],
   [Command EXCEPT !.events[2].target = Npmrc \o <<<<"runner">>>>],
   [Command EXCEPT !.events[2].target = <<Word("$HOME/.ssh/id_"), <<"runner">>, Word(".pub")>>],
   [Command EXCEPT !.events[2].target = <<Word("$HOME/.ssh/id_"), <<"runner">>>>],
   Also(Event("network", "listen", Tcp(<<Word("[::]")>>, <<"port">>), 2)),
   \* findings about one or both paths of a rename
   Also(Event("filesystem", "rename", Npmrc \o <<Arrow, Word("file")>>, 1)),
   Also(Event("filesystem", "rename", <<Word("$HOME/.gitconfig"), Arrow>> \o Npmrc, 1))}

Recorded(command, numbering) ==
  numbering @@
  [command |-> command, schema |-> 11, state |-> "finalized", requested |-> "auto",
   backend |-> "ebpf", fallback |-> "none", privacy |-> "current", version |-> 1,
   coverage |-> [c \in Categories |-> IF c = "process" THEN "complete" ELSE "partial"],
   lostEvents |-> {}, lostProcesses |-> {}, lostExecs |-> {}]

One ==
  [id |-> "one", runner |-> 700, pid |-> <<701, 702, 703, 704>>, port |-> 50000,
   identity |-> <<1, 2, 3, 4>>, order |-> <<1, 2, 3, 4, 5>>]
Two ==
  [id |-> "two", runner |-> 41, pid |-> <<42, 44, 43, 48>>, port |-> 60000,
   identity |-> <<1, 7, 8, 3>>, order |-> <<5, 3, 4, 2, 1>>]

Pairs == {<<Recorded(c, One), Recorded(d, Two)>> : c, d \in Commands}

Losses ==
  {<<Recorded(c, One), [Recorded(c, Two) EXCEPT !.lostEvents = events, !.lostProcesses = processes]>>
   : c \in Commands, events \in SUBSET {1, 2, 3, 4}, processes \in {{}, {1}, {2}, {3}}}

Others ==
  {<<[Recorded(Command, One) EXCEPT !.schema = schema, !.backend = backend, !.fallback = fallback,
                                    !.state = state, !.privacy = privacy, !.version = version],
     Recorded(c, Two)>>
   : c \in {Command, Also(Command.events[1])}, schema \in {8, 9, 11, 12},
     backend \in {"ebpf", "ptrace", "none"}, fallback \in {"none", "unsupported_kernel"},
     state \in {"active", "interrupted"}, privacy \in {"current", "unknown", "none"},
     version \in {1, 2}}

MCCredentialPaths == {Npmrc}
MCPrivatePaths == {<<Word("$HOME/.gitconfig")>>}
MCKeyPrefixes == {Word("$HOME/.ssh/id_")}
MCPublicEndings == {Word(".pub")}
MCCredentialNames == {Token}
MCRecordings == Pairs \cup {<<p[2], p[1]>> : p \in Losses} \cup Losses \cup Others
=============================================================================

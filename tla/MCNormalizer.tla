---------------------------- MODULE MCNormalizer ----------------------------
(***************************************************************************)
(* Normalizer for TLC: commands that fork, clone threads and execute       *)
(* (Families), whose records are lost (Losers) or too many (Crowds),       *)
(* threads that share files (Sharers), and single processes that use files *)
(* (Files, Directories), sockets (Servers) and DNS (Lookups).              *)
(***************************************************************************)
EXTENDS Normalizer, TLC

CONSTANTS r, a, b, ri, ai, bi, Near, Far

MCInner == [t \in Tids |-> CASE t = r -> ri [] t = a -> ai [] t = b -> bi]
MCHome == <<"/", "home">>
MCIgnored == {<<"/", "capture">>}

Path(name) == [dir |-> Cwd, absolute |-> FALSE, name |-> name]
From(fd, name) == [dir |-> fd, absolute |-> FALSE, name |-> name]
FromRoot(name) == [dir |-> Cwd, absolute |-> TRUE, name |-> name]
InHome(names) == {Append(MCHome, name) : name \in names}
Opens(path, flags) ==
  [op |-> "open", path |-> path, flags |-> flags, cloexec |-> TRUE, cut |-> FALSE]
Uses(op, fd) ==
  [op |-> op, fd |-> fd, operations |-> {op}, endpoint |-> None, dns |-> None, cut |-> FALSE]
Names(operation, path) == [op |-> "path", operation |-> operation, path |-> path, cut |-> FALSE]
Pairs(operation, path, second) ==
  [op |-> "pair", operation |-> operation, path |-> path, second |-> second, cut |-> FALSE]
Cut(c) == [c EXCEPT !.cut = TRUE]
At(op, fd, endpoint) == [op |-> op, fd |-> fd, endpoint |-> endpoint]
Carries(op, fd, endpoint, dns) ==
  [op |-> op, fd |-> fd, endpoint |-> endpoint, dns |-> dns, cut |-> FALSE]
Dns(id, host, address) == [id |-> id, host |-> host, address |-> address]

\* A command of up to three threads or processes, one of which creates a file.
Families ==
  [forks |-> 2, threads |-> 1, execs |-> 1, calls |-> 1, losses |-> 0, namespaces |-> BOOLEAN,
   live |-> 3, tracked |-> 3, inherited |-> {0}, files |-> {}, endpoints |-> {},
   alphabet |-> {Opens(Path("data"), {"create", "exclusive"})}]

\* The same, with a record lost.
Losers == [Families EXCEPT !.calls = 0, !.losses = 1]

\* The same, and no room for the third process or thread.
Crowds == [Families EXCEPT !.live = 2, !.tracked = 2, !.namespaces = {FALSE}]

\* Two threads with a descriptor table between them.
Sharers ==
  [forks |-> 0, threads |-> 1, execs |-> 0, calls |-> 3, losses |-> 0, namespaces |-> {FALSE},
   live |-> 3, tracked |-> 3, inherited |-> {0}, files |-> InHome({"data", "other"}),
   endpoints |-> {},
   alphabet |-> {Opens(Path("data"), {}), Opens(Path("other"), {}),
                 [op |-> "close", fd |-> 1], Uses("write", 1)}]

\* One process and its descriptors.
Files ==
  [forks |-> 0, threads |-> 0, execs |-> 1, calls |-> 4, losses |-> 0, namespaces |-> {FALSE},
   live |-> 3, tracked |-> 3, inherited |-> {0}, files |-> InHome({"dir"}), endpoints |-> {},
   alphabet |-> {Opens(Path("dir"), {}), Opens(From(1, "data"), {"create"}),
                 Opens(Path("data"), {"create", "exclusive", "truncate"}),
                 [op |-> "close", fd |-> 1], [op |-> "dup", fd |-> 1, to |-> None],
                 [op |-> "dup", fd |-> 0, to |-> 1], [op |-> "fchdir", fd |-> 1],
                 [op |-> "pipe"], Uses("write", 1),
                 [Uses("mmap", 2) EXCEPT !.operations = {"read", "write"}]}]

\* A process that forks, and the directories and names the two use.
Directories ==
  [forks |-> 1, threads |-> 0, execs |-> 0, calls |-> 3, losses |-> 0, namespaces |-> {FALSE},
   live |-> 3, tracked |-> 3, inherited |-> {0}, files |-> InHome({"data", "sub", "deep"}),
   endpoints |-> {},
   alphabet |-> {Opens(FromRoot("capture"), {"create"}), Cut(Opens(Path("sub"), {})),
                 [op |-> "chdir", path |-> Path("sub"), cut |-> FALSE],
                 [op |-> "chdir", path |-> Path("deep"), cut |-> TRUE],
                 Names("unlink", Path("data")), Names("read", From(1, "data")),
                 Pairs("rename", Path("data"), FromRoot("capture")),
                 Pairs("symlink", Path("data"), From(1, "link"))}]

\* A server.
Servers ==
  [forks |-> 0, threads |-> 0, execs |-> 0, calls |-> 5, losses |-> 0, namespaces |-> {FALSE},
   live |-> 3, tracked |-> 3, inherited |-> {}, files |-> {}, endpoints |-> {Near, Far},
   alphabet |-> {[op |-> "socket", transport |-> "tcp"],
                 At("bind", 0, Near), At("bind", 0, AnyPort), At("connect", 0, Far),
                 [op |-> "listen", fd |-> 0], [op |-> "getsockname", fd |-> 0],
                 [op |-> "getpeername", fd |-> 1], At("accept", 0, Far),
                 [op |-> "dup", fd |-> 1, to |-> None], Uses("read", 1)}]

\* A client that asks two names, and gets answers of either.
Lookups ==
  [forks |-> 0, threads |-> 0, execs |-> 0, calls |-> 5, losses |-> 0, namespaces |-> {FALSE},
   live |-> 3, tracked |-> 3, inherited |-> {}, files |-> {}, endpoints |-> {Near, Far},
   alphabet |-> {[op |-> "socket", transport |-> "udp"], At("connect", 0, Near),
                 Carries("send", 0, None, Dns(1, "host", None)),
                 Carries("send", 0, Far, Dns(1, "other", None)),
                 Carries("send", 0, None, Dns(2, "other", None)),
                 Carries("receive", 0, None, Dns(1, "host", Near)),
                 Carries("receive", 0, Near, Dns(1, "other", Far)),
                 Cut(Carries("receive", 0, None, Dns(2, "other", Far)))}]

MCFamilies == {Families}
MCScenarios == {Families, Losers, Crowds, Sharers, Files, Directories, Servers, Lookups}

\* Threads other than the first, together with their other ids.
Symmetry ==
  {p \in Permutations({a, b, ai, bi}) :
     p[a] \in {a, b} /\ p[b] \in {a, b} /\ \A t \in {a, b} : p[MCInner[t]] = MCInner[p[t]]}
=============================================================================

------------------------- MODULE MCPtraceCollector --------------------------
(***************************************************************************)
(* PtraceCollector for TLC: threads that end each other (Rivals),          *)
(* processes that fork and execute (Families) with room for them or not    *)
(* (Crowds, Couples), processes that make and remove the same file         *)
(* (Racers), single processes that use files (Files) and sockets (Lookups, *)
(* Heirs).                                                                 *)
(***************************************************************************)
EXTENDS PtraceCollector, TLC

CONSTANTS r, a, b, Far

MCNames == {"/", "home", "capture", "data", "other", "dir"}
MCHome == <<"/", "home">>
MCIgnored == {<<"/", "capture">>}
InHome(names) == {Append(MCHome, name) : name \in names}

Path(name) == [dir |-> Cwd, absolute |-> FALSE, name |-> name]
From(fd, name) == [dir |-> fd, absolute |-> FALSE, name |-> name]
FromRoot(name) == [dir |-> Cwd, absolute |-> TRUE, name |-> name]
Opens(path, flags) == [op |-> "open", path |-> path, flags |-> flags, cloexec |-> TRUE]
Uses(op, fd) ==
  [op |-> op, fd |-> fd, operations |-> {op}, endpoint |-> None, dns |-> None]
Acts(operation, path) == [op |-> "path", operation |-> operation, path |-> path]
Pairs(operation, path, second) ==
  [op |-> "pair", operation |-> operation, path |-> path, second |-> second]
At(op, fd, endpoint) == [op |-> op, fd |-> fd, endpoint |-> endpoint]
Carries(op, fd, dns) == [Uses(op, fd) EXCEPT !.dns = dns]
Dns(id, host, address) == [id |-> id, host |-> host, address |-> address]

Nothing ==
  [forks |-> {0}, threads |-> {0}, execs |-> {0}, calls |-> {0}, kills |-> {0}, live |-> {3},
   inherited |-> {{0}}, files |-> {{}}, endpoints |-> {{}}, alphabet |-> {{}}]

\* A process with a second thread, which writes a file; either may be killed.
Rivals ==
  [Nothing EXCEPT !.threads = {1}, !.execs = {1}, !.calls = {2}, !.kills = {1},
                  !.files = {InHome({"data"})}, !.alphabet = {{Acts("truncate", Path("data"))}}]

\* Processes that fork and one of which removes a file.
Families ==
  [Nothing EXCEPT !.forks = {1, 2}, !.threads = {1}, !.execs = {1}, !.calls = {1}, !.live = {3},
                  !.files = {InHome({"data"})}, !.alphabet = {{Acts("unlink", Path("data"))}}]

\* Two processes that make the same file, and remove it.
Racers ==
  [Nothing EXCEPT !.forks = {1}, !.calls = {2}, !.files = {{}, InHome({"data"})},
                  !.alphabet = {{Opens(Path("data"), {"create"}),
                                 Opens(Path("data"), {"create", "exclusive"}), Acts("unlink", Path("data"))}}]

\* No room for a second or third process, or for a second thread, which may
\* take the place of the first.  A child may have a thread of its own.
Crowds == [Nothing EXCEPT !.forks = {1, 2}, !.threads = {0, 1}, !.kills = {1}, !.live = {1, 2}]
Couples == [Nothing EXCEPT !.threads = {1}, !.execs = {1}, !.live = {1}]

\* One process, its descriptors and directories.
Files ==
  [Nothing EXCEPT !.calls = {4}, !.execs = {1},
     !.files = {InHome({"dir"})},
     !.alphabet = {{Opens(Path("dir"), {}), Opens(Path("data"), {"create", "truncate"}),
                    Opens(FromRoot("capture"), {"create"}),
                    Uses("write", 1), Uses("read", 1), [op |-> "fchdir", fd |-> 1],
                    Pairs("rename", Path("data"), From(1, "data")),
                    Acts("unlink", Path("data")), Pairs("symlink", Path("data"), Path("other"))}}]

\* One process that asks for names and connects.
Lookups ==
  [Nothing EXCEPT !.calls = {5}, !.endpoints = {{Far}},
     !.alphabet = {{[op |-> "socket", transport |-> "udp"], At("connect", 1, Far),
                    Carries("send", 1, Dns(1, "host", None)),
                    Carries("receive", 1, Dns(1, "host", "address")),
                    [op |-> "dup", fd |-> 1, to |-> 2], Carries("write", 2, Dns(2, "host", None))}}]

\* A process and its child, which has its sockets.
Heirs == [Lookups EXCEPT !.forks = {1}, !.calls = {3}]

Of(s) ==
  [forks : s.forks, threads : s.threads, execs : s.execs, calls : s.calls, kills : s.kills,
   live : s.live, inherited : s.inherited, files : s.files, endpoints : s.endpoints,
   alphabet : s.alphabet]

MCScenarios == UNION {Of(s) : s \in {Rivals, Families, Crowds, Couples, Racers, Files, Lookups,
                                  Heirs}}
=============================================================================

---------------------------- MODULE CommandCalls -----------------------------
(***************************************************************************)
(* What system calls do to a process - its descriptor table, its working   *)
(* directory, its sockets - and to the files.  What the calls really did   *)
(* is kept in happened, to be compared with what a collector makes of what *)
(* it sees.                                                                *)
(*                                                                         *)
(* A path is the sequence of its names; one that starts with "/" is        *)
(* absolute.  Collectors may see only the beginning of long paths and      *)
(* payloads: calls say whether theirs is long (cut).  Of a file it matters *)
(* here only whether it is there, not whether it is a directory.  Links    *)
(* are not followed, and what a process has open goes by the path it was   *)
(* opened by.                                                              *)
(***************************************************************************)
EXTENDS Tables

CONSTANTS
  Tids,      \* ids of threads; a process has the id of its first thread
  Fds,       \* descriptor numbers
  Assigned   \* the endpoint the kernel makes of AnyPort

ASSUME FdsAssumption == Fds \subseteq Nat /\ Cwd \notin Fds /\ None \notin Fds

VARIABLES
  table,      \* the descriptor table of each process
  cwd,        \* its working directory
  sockets,    \* the sockets behind descriptors
  files,      \* the paths at which there is something
  happened,   \* what the calls did; history
  odd         \* circumstances a collector is not told of; history

-----------------------------------------------------------------------------
(* System calls.  A call is a record: op names it, the other fields are its *)
(* arguments.  Do*(g, c, r): process g makes call c with result r.          *)

File(path, cloexec) ==
  [kind |-> "file", path |-> path, cloexec |-> cloexec, told |-> TRUE]
Socket(id) == [kind |-> "socket", id |-> id, cloexec |-> FALSE, told |-> TRUE]
\* A terminal, a pipe: what no record tells of.
Untold == [kind |-> "other", cloexec |-> FALSE, told |-> FALSE]

FreeFd(g) ==
  LET unused == Fds \ DOMAIN table[g]
  IN  IF unused = {} THEN None ELSE CHOOSE fd \in unused : \A o \in unused : fd <= o

Has(g, fd, kind) == fd \in DOMAIN table[g] /\ table[g][fd].kind = kind

\* The path an argument names: from the root directory, or from one of its own.
Resolves(g, arg) == arg.absolute \/ arg.dir = Cwd \/ Has(g, arg.dir, "file")
Target(g, arg) ==
  IF arg.absolute THEN <<"/", arg.name>>
  ELSE Append(IF arg.dir = Cwd THEN cwd[g] ELSE table[g][arg.dir].path, arg.name)

\* What the call did, for the record.
Happen(g, facts) ==
  happened' = happened \cup {<<g, f[1], f[2]>> : f \in facts}

Install(g, fd, object) ==
  /\ fd # None
  /\ table' = [table EXCEPT ![g] = With(@, fd, object)]
  /\ odd' = IF object.told THEN odd ELSE odd \cup {"untold"}

\* What open does: O_TRUNC empties the file, O_CREAT makes one that is not there.
OpenFacts(flags, path) ==
  {<<"open", <<path>>>>}
  \cup (IF "truncate" \in flags THEN {<<"truncate", <<path>>>>} ELSE {})
  \cup (IF path \notin files THEN {<<"create", <<path>>>>} ELSE {})

\* An exclusive open fails where there is a file, and one without O_CREAT where
\* there is none.
DoOpen(g, c, r) ==
  LET path == Target(g, c.path) IN
  /\ c.op = "open" /\ Resolves(g, c.path)
  /\ IF path \in files THEN "exclusive" \notin c.flags ELSE "create" \in c.flags
  /\ r = FreeFd(g) /\ r # None
  /\ table' = [table EXCEPT ![g] = With(@, r, File(path, c.cloexec))]
  /\ Happen(g, OpenFacts(c.flags, path))
  /\ files' = files \cup {path}
  /\ odd' = IF path \in files \/ "exclusive" \in c.flags THEN odd ELSE odd \cup {"created"}
  /\ UNCHANGED <<cwd, sockets>>

DoClose(g, c, r) ==
  /\ c.op = "close" /\ c.fd \in DOMAIN table[g] /\ r = 0
  /\ table' = [table EXCEPT ![g] = Without(@, {c.fd})]
  /\ UNCHANGED <<cwd, sockets, files, happened, odd>>

\* dup, dup2, dup3, fcntl(F_DUPFD)
DoDuplicate(g, c, r) ==
  /\ c.op = "dup" /\ c.fd \in DOMAIN table[g]
  /\ r = IF c.to = None THEN FreeFd(g) ELSE c.to
  /\ Install(g, r, [table[g][c.fd] EXCEPT !.cloexec = FALSE])
  /\ UNCHANGED <<cwd, sockets, files, happened>>

\* pipe, eventfd, memfd_create, recvmsg: not among the calls observed.
DoPipe(g, c, r) ==
  /\ c.op = "pipe" /\ r = FreeFd(g)
  /\ Install(g, r, Untold)
  /\ UNCHANGED <<cwd, sockets, files, happened>>

DoChangeDirectory(g, c, r) ==
  /\ r = 0
  /\ \/ c.op = "chdir" /\ Resolves(g, c.path) /\ Target(g, c.path) \in files
        /\ cwd' = [cwd EXCEPT ![g] = Target(g, c.path)]
     \/ c.op = "fchdir" /\ Has(g, c.fd, "file")
        /\ cwd' = [cwd EXCEPT ![g] = table[g][c.fd].path]
  /\ UNCHANGED <<table, sockets, files, happened, odd>>

\* read, readv, pread64 (of some bytes or of none), write, writev, pwrite64,
\* ftruncate, mmap
DoAccess(g, c, r) ==
  /\ c.op \in {"read", "write", "truncate", "mmap"}
  /\ \/ r = 1 /\ Has(g, c.fd, "other") /\ UNCHANGED happened
     \/ r = 0 /\ c.op = "read" /\ Has(g, c.fd, "file") /\ UNCHANGED happened
     \/ /\ r = 1 /\ Has(g, c.fd, "file")
        /\ Happen(g, {<<operation, <<table[g][c.fd].path>>>> : operation \in c.operations})
  /\ UNCHANGED <<table, cwd, sockets, files, odd>>

\* path is dir or below it.
Below(path, dir) == Len(dir) <= Len(path) /\ SubSeq(path, 1, Len(dir)) = dir

\* Whether a descriptor or a working directory would lose its path.
InUse(path) ==
  \E g \in Tids :
    Below(cwd[g], path) \/ \E fd \in DOMAIN table[g] : Has(g, fd, "file") /\ Below(table[g][fd].path, path)

\* Files that are moved or removed.
Displace(paths) ==
  odd' = IF \E path \in paths : InUse(path) THEN odd \cup {"displaced"} ELSE odd

\* stat, readlink, truncate, unlink, rmdir; mkdir, the only one to make something.
DoPath(g, c, r) ==
  LET path == Target(g, c.path) IN
  /\ c.op = "path" /\ Resolves(g, c.path) /\ r = 0
  /\ (path \in files) = (c.operation # "create")
  /\ Happen(g, {<<c.operation, <<path>>>>})
  /\ files' = CASE c.operation = "create" -> files \cup {path}
                [] c.operation = "unlink" -> files \ {path}
                [] OTHER -> files
  /\ Displace(IF c.operation = "unlink" THEN {path} ELSE {})
  /\ UNCHANGED <<table, cwd, sockets>>

\* The files after a rename: what was below the first path is below the second.
Renamed(first, second) ==
  {path \in files : ~Below(path, first) /\ ~Below(path, second)}
  \cup {second \o SubSeq(path, Len(first) + 1, Len(path)) : path \in {p \in files : Below(p, first)}}

\* rename, which may replace the second, and link; of symlink the first path is
\* only text.
DoPair(g, c, r) ==
  LET first == IF c.operation = "symlink" THEN <<c.path.name>> ELSE Target(g, c.path)
      second == Target(g, c.second)
  IN
  /\ c.op = "pair" /\ r = 0
  /\ Resolves(g, c.second) /\ (c.operation = "symlink" \/ (Resolves(g, c.path) /\ first \in files))
  /\ IF c.operation = "rename" THEN ~Below(second, first) ELSE second \notin files
  /\ Happen(g, {<<c.operation, <<first, second>>>>})
  /\ files' = IF c.operation = "rename" THEN Renamed(first, second) ELSE files \cup {second}
  /\ Displace(IF c.operation = "rename" THEN {first, second} ELSE {})
  /\ UNCHANGED <<table, cwd, sockets>>
-----------------------------------------------------------------------------
(* Sockets. *)

SocketOf(g, fd) == sockets[table[g][fd].id]
NewSocket(transport, local, peer) ==
  [transport |-> transport, local |-> local, peer |-> peer, listening |-> FALSE, asked |-> {}]

\* A change of a socket that several descriptors share: the collector keeps a
\* copy per descriptor.
Update(g, fd, socket) ==
  /\ sockets' = [sockets EXCEPT ![table[g][fd].id] = socket]
  /\ odd' = IF \E h \in Tids : \E o \in DOMAIN table[h] :
                 <<h, o>> # <<g, fd>> /\ Has(h, o, "socket") /\ table[h][o].id = table[g][fd].id
            THEN odd \cup {"shared_socket"} ELSE odd

HappenAt(g, fd, operation, endpoint) ==
  Happen(g, {<<operation, <<SocketOf(g, fd).transport, endpoint>>>>})

DoSocket(g, c, r) ==
  /\ c.op = "socket" /\ r = FreeFd(g)
  /\ sockets' = Append(sockets, NewSocket(c.transport, None, None))
  /\ Install(g, r, Socket(Len(sockets) + 1))
  /\ UNCHANGED <<cwd, files, happened>>

\* bind and connect name an endpoint; listen takes one if none was bound.
DoAddress(g, c, r) ==
  /\ c.op \in {"bind", "connect", "listen"} /\ Has(g, c.fd, "socket") /\ r = 0
  /\ LET socket == SocketOf(g, c.fd)
         assigned == IF socket.local = None THEN Assigned ELSE socket.local
     IN  \/ /\ c.op = "bind" /\ socket.local = None
            /\ Update(g, c.fd, [socket EXCEPT
                 !.local = IF c.endpoint = AnyPort THEN Assigned ELSE c.endpoint])
            /\ Happen(g, {<<"bind", <<socket.transport, endpoint>>>> : endpoint \in
                            {c.endpoint, IF c.endpoint = AnyPort THEN Assigned ELSE c.endpoint}})
         \/ /\ c.op = "connect" /\ ~socket.listening
            /\ Update(g, c.fd, [socket EXCEPT !.peer = c.endpoint, !.local = assigned])
            /\ HappenAt(g, c.fd, "connect", c.endpoint)
         \/ /\ c.op = "listen" /\ socket.transport = "tcp" /\ socket.peer = None
            /\ Update(g, c.fd, [socket EXCEPT !.listening = TRUE, !.local = assigned])
            /\ HappenAt(g, c.fd, "listen", assigned)
  /\ UNCHANGED <<table, cwd, files>>

\* getsockname and getpeername change nothing; r is the endpoint they return.
DoName(g, c, r) ==
  /\ c.op \in {"getsockname", "getpeername"} /\ Has(g, c.fd, "socket")
  /\ r = IF c.op = "getsockname" THEN SocketOf(g, c.fd).local ELSE SocketOf(g, c.fd).peer
  /\ r # None
  /\ UNCHANGED <<table, cwd, sockets, files, happened, odd>>

DoAccept(g, c, r) ==
  /\ c.op = "accept" /\ Has(g, c.fd, "socket") /\ SocketOf(g, c.fd).listening
  /\ r = FreeFd(g)
  /\ sockets' = Append(sockets, NewSocket("tcp", SocketOf(g, c.fd).local, c.endpoint))
  /\ Install(g, r, Socket(Len(sockets) + 1))
  /\ HappenAt(g, c.fd, "accept", c.endpoint)
  /\ UNCHANGED <<cwd, files>>

\* send and write, receive and read: with the endpoint they name or fill in,
\* if any, and the DNS message they carry, if any.
DoTransfer(g, c, r) ==
  /\ c.op \in {"send", "write", "receive", "read"} /\ Has(g, c.fd, "socket") /\ r = 1
  /\ LET socket == SocketOf(g, c.fd)
         sends == c.op \in {"send", "write"}
         endpoint == IF c.endpoint = None THEN socket.peer ELSE c.endpoint
         answered == {<<"dns", <<q[2], c.dns.address>>>> : q \in
                        {q \in socket.asked : c.dns # None /\ q = <<c.dns.id, c.dns.host>>}}
     IN  /\ endpoint # None
         /\ sends \/ socket.peer \in {None, endpoint}
         /\ sockets' = [sockets EXCEPT ![table[g][c.fd].id].asked =
                          IF sends /\ c.dns # None THEN @ \cup {<<c.dns.id, c.dns.host>>} ELSE @]
         /\ Happen(g, {<<IF sends THEN "send" ELSE "receive", <<socket.transport, endpoint>>>>}
                        \cup (IF sends THEN {} ELSE answered))
  /\ UNCHANGED <<table, cwd, files, odd>>

Do(g, c, r) ==
  \/ DoOpen(g, c, r) \/ DoClose(g, c, r) \/ DoDuplicate(g, c, r) \/ DoPipe(g, c, r)
  \/ DoChangeDirectory(g, c, r) \/ DoAccess(g, c, r) \/ DoPath(g, c, r) \/ DoPair(g, c, r)
  \/ DoSocket(g, c, r) \/ DoAddress(g, c, r) \/ DoName(g, c, r) \/ DoAccept(g, c, r)
  \/ DoTransfer(g, c, r)

Results(endpoints) == Fds \cup {0, 1, Assigned} \cup endpoints

\* The call fails: the descriptor is not open, the file is not there or is in the
\* way, or a signal interrupts it.
DoNothing == UNCHANGED <<table, cwd, sockets, files, happened, odd>>
NotOpen(g, c) == "fd" \in DOMAIN c /\ c.fd \notin DOMAIN table[g]
=============================================================================

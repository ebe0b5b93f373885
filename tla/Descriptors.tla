---------------------------- MODULE Descriptors -----------------------------
(***************************************************************************)
(* What src/src/collector/linux/ebpf/normalize.rs makes of the record of   *)
(* one system call: the changes to the process's entry in its table, the   *)
(* facts it records, the paths whose state it will look at, the categories *)
(* in which it counts a loss.                                              *)
(*                                                                         *)
(* p is an entry (ProcessState), c a call as the module TracedCommand      *)
(* describes it and r its result: a descriptor, an endpoint, 1 for some    *)
(* bytes, 0, or None for an error.  A socket's DNS queries are pairs of    *)
(* transaction id and host name.                                           *)
(***************************************************************************)
EXTENDS Tables

CONSTANTS
  MaxDescriptors, \* MAX_TRACKED_DESCRIPTORS_PER_PROCESS
  MaxSockets,     \* MAX_SOCKETS_PER_PROCESS
  MaxQueries      \* MAX_DNS_QUERIES_PER_SOCKET

ASSUME LimitsAssumption ==
  MaxDescriptors \in Nat /\ MaxSockets \in Nat /\ MaxQueries \in Nat

-----------------------------------------------------------------------------
\* Outcomes.
Same(p) == [process |-> p, facts |-> {}, touched |-> {}, lost |-> {}]
Loses(p, category) == [Same(p) EXCEPT !.lost = {category}]
Sees(p, operation, target) == [Same(p) EXCEPT !.facts = {<<operation, target>>}]
Touching(o, paths) == [o EXCEPT !.touched = @ \cup paths]

\* a, and then b from the entry that a leaves.
Then(a, b) ==
  [process |-> b.process, facts |-> a.facts \cup b.facts,
   touched |-> a.touched \cup b.touched, lost |-> a.lost \cup b.lost]

Tracked(p, fd, kind) == fd \in DOMAIN p.descriptors /\ p.descriptors[fd].kind = kind
TracksFile(p, fd) == Tracked(p, fd, "file")
TracksSocket(p, fd) == Tracked(p, fd, "socket")
Full(p) == Cardinality(DOMAIN p.descriptors) >= MaxDescriptors
SocketCount(p) == Cardinality({fd \in DOMAIN p.descriptors : TracksSocket(p, fd)})

Put(p, fd, descriptor) == [p EXCEPT !.descriptors = With(@, fd, descriptor)]

FileDescriptor(path) == [kind |-> "file", path |-> path]
NewSocketDescriptor(transport, local, peer) ==
  [kind |-> "socket", transport |-> transport, local |-> local, peer |-> peer,
   listening |-> FALSE, queries |-> {}]

\* Mutant of ResolveBytes: the directory of an -at call is not looked at.
ResolveInCwd(p, arg) ==
  IF arg.absolute THEN <<"/", arg.name>> ELSE Append(p.cwd, arg.name)

\* resolve_bytes: the path an argument names as far as the entry tells.
ResolveBytes(p, arg) ==
  IF arg.absolute THEN <<"/", arg.name>>
  ELSE IF arg.dir = Cwd THEN Append(p.cwd, arg.name)
  ELSE IF TracksFile(p, arg.dir) THEN Append(p.descriptors[arg.dir].path, arg.name)
  ELSE None

-----------------------------------------------------------------------------
(* Descriptors: observe_descriptor_operation. *)

\* duplicate_descriptor: a source that is not tracked changes nothing.
Duplicate(p, source, destination) ==
  IF source \notin DOMAIN p.descriptors THEN Same(p)
  ELSE IF destination \notin DOMAIN p.descriptors /\ Full(p)
       THEN Loses(p, IF TracksFile(p, source) THEN "filesystem" ELSE "network")
       ELSE Same(Put(p, destination, p.descriptors[source]))

\* The path is taken as it is, even where the record has only its beginning.
ChangeDirectory(p, c) ==
  LET path == ResolveBytes(p, [c.path EXCEPT !.name = IF c.cut THEN "beginning" ELSE @])
  IN  IF path = None THEN Loses(p, "filesystem") ELSE Same([p EXCEPT !.cwd = path])

DescriptorEffect(p, c, r) ==
  CASE c.op = "close" -> Same([p EXCEPT !.descriptors = Without(@, {c.fd})])
    [] c.op = "dup" -> Duplicate(p, c.fd, r)
    [] c.op = "chdir" -> ChangeDirectory(p, c)
    [] c.op = "fchdir" /\ TracksFile(p, c.fd) ->
         Same([p EXCEPT !.cwd = p.descriptors[c.fd].path])
    [] OTHER -> Same(p)

-----------------------------------------------------------------------------
(* Sockets: observe_network. *)

SocketAt(p, fd) == p.descriptors[fd]

\* record_network_event
SeesNetwork(p, fd, operation, endpoint) ==
  Sees(p, operation, <<SocketAt(p, fd).transport, endpoint>>)

OpenSocket(p, c, r) ==
  IF SocketCount(p) >= MaxSockets \/ Full(p) THEN Loses(p, "network")
  ELSE Same(Put(p, r, NewSocketDescriptor(c.transport, None, None)))

\* A port of 0 says nothing yet; getsockname may.
Listen(p, c) ==
  LET listening == Put(p, c.fd, [SocketAt(p, c.fd) EXCEPT !.listening = TRUE])
  IN  IF SocketAt(p, c.fd).local \in {None, AnyPort} THEN Same(listening)
      ELSE SeesNetwork(listening, c.fd, "listen", SocketAt(p, c.fd).local)

GetSocketName(p, c, r) ==
  LET named == Put(p, c.fd, [SocketAt(p, c.fd) EXCEPT !.local = r])
  IN  IF SocketAt(p, c.fd).listening THEN SeesNetwork(named, c.fd, "listen", r) ELSE Same(named)

\* Accepted connections are not limited.
Accept(p, c, r) ==
  LET socket == SocketAt(p, c.fd)
      accepted == Put(p, r, NewSocketDescriptor(socket.transport, socket.local, c.endpoint))
  IN  IF c.endpoint = None THEN Same(accepted)
      ELSE SeesNetwork(accepted, r, "accept", c.endpoint)

\* parse_dns_query in a sent payload: remembered while there is room.
Ask(p, c) ==
  LET socket == SocketAt(p, c.fd)
      others == {q \in socket.queries : q[1] # c.dns.id}
  IN  IF others = socket.queries /\ Cardinality(socket.queries) >= MaxQueries
      THEN Loses(p, "network")
      ELSE Same(Put(p, c.fd, [socket EXCEPT !.queries = others \cup {<<c.dns.id, c.dns.host>>}]))

\* parse_dns_response in a received one: it answers the query of its id once,
\* if it repeats the name that was asked for.
Answer(p, c) ==
  LET socket == SocketAt(p, c.fd)
      query == {q \in socket.queries : q[1] = c.dns.id}
      answered == Put(p, c.fd, [socket EXCEPT !.queries = @ \ query])
  IN  IF <<c.dns.id, c.dns.host>> \in query
      THEN Sees(answered, "dns", <<c.dns.host, c.dns.address>>)
      ELSE Same(answered)

\* observe_socket_payload
SocketPayload(p, c, sending) ==
  LET message == IF c.dns = None THEN Same(p) ELSE IF sending THEN Ask(p, c) ELSE Answer(p, c)
      endpoint == IF c.endpoint = None THEN SocketAt(p, c.fd).peer ELSE c.endpoint
      event == IF SocketAt(p, c.fd).transport = "udp" /\ endpoint # None
               THEN SeesNetwork(message.process, c.fd, IF sending THEN "send" ELSE "receive", endpoint)
               ELSE Same(message.process)
      both == Then(message, event)
  IN  [both EXCEPT !.lost = IF c.cut THEN @ \cup {"network"} ELSE @]

NetworkEffect(p, c, r) ==
  CASE c.op = "socket" -> OpenSocket(p, c, r)
    [] c.op = "bind" /\ TracksSocket(p, c.fd) ->
         SeesNetwork(Put(p, c.fd, [SocketAt(p, c.fd) EXCEPT !.local = c.endpoint]),
                     c.fd, "bind", c.endpoint)
    [] c.op = "connect" /\ TracksSocket(p, c.fd) ->
         SeesNetwork(Put(p, c.fd, [SocketAt(p, c.fd) EXCEPT !.peer = c.endpoint]),
                     c.fd, "connect", c.endpoint)
    [] c.op = "listen" /\ TracksSocket(p, c.fd) -> Listen(p, c)
    [] c.op = "getsockname" /\ TracksSocket(p, c.fd) -> GetSocketName(p, c, r)
    [] c.op = "getpeername" /\ TracksSocket(p, c.fd) ->
         Same(Put(p, c.fd, [SocketAt(p, c.fd) EXCEPT !.peer = r]))
    [] c.op = "accept" /\ TracksSocket(p, c.fd) -> Accept(p, c, r)
    [] c.op \in {"send", "write"} /\ TracksSocket(p, c.fd) -> SocketPayload(p, c, TRUE)
    [] c.op \in {"receive", "read"} /\ TracksSocket(p, c.fd) -> SocketPayload(p, c, FALSE)
    [] OTHER -> Same(p)

-----------------------------------------------------------------------------
(* Files: observe_filesystem. *)

\* Operations after which the state of the file is looked at (the two records
\* of mmap and read are not among them).
Mutating == {"write", "truncate", "create", "unlink"}

\* finish_open: without room the descriptor is lost, the facts are not.  That the
\* call has made the file is certain only if it was not to open another's.
Opened(p, c, fd, path) ==
  LET tracked == IF fd \in DOMAIN p.descriptors \/ ~Full(p)
                 THEN Same(Put(p, fd, FileDescriptor(path))) ELSE Loses(p, "filesystem")
      mutations == (c.flags \cap {"truncate"})
                     \cup (IF "exclusive" \in c.flags THEN c.flags \cap {"create"} ELSE {})
  IN  [tracked EXCEPT !.facts = {<<operation, <<path>>>> : operation \in {"open"} \cup mutations},
                      !.touched = IF mutations = {} THEN {} ELSE {path}]

\* record_descriptor_file, for each fact the call stands for; mmap may both
\* read and write.
DescriptorFile(p, c) ==
  LET path == p.descriptors[c.fd].path
  IN  [Same(p) EXCEPT !.facts = {<<operation, <<path>>>> : operation \in c.operations},
                      !.touched = IF c.operations \cap Mutating = {} THEN {} ELSE {path}]

\* record_single_path
SinglePath(p, c) ==
  LET path == ResolveBytes(p, c.path)
  IN  IF path = None THEN Loses(p, "filesystem")
      ELSE Touching(Sees(p, c.operation, <<path>>), IF c.operation \in Mutating THEN {path} ELSE {})

\* record_two_paths and symlink, whose first path is only text.
TwoPaths(p, c) ==
  LET first == IF c.operation = "symlink" THEN <<c.path.name>> ELSE ResolveBytes(p, c.path)
      second == ResolveBytes(p, c.second)
  IN  IF None \in {first, second} THEN Loses(p, "filesystem")
      ELSE Touching(Sees(p, c.operation, <<first, second>>),
                    IF c.operation = "rename" THEN {first, second} ELSE {second})

OpenPath(p, c, r) ==
  LET path == ResolveBytes(p, c.path)
  IN  IF path = None THEN Loses(p, "filesystem") ELSE Opened(p, c, r, path)

FileEffect(p, c, r) ==
  CASE "path" \in DOMAIN c /\ c.cut -> Loses(p, "filesystem")
    [] c.op = "open" -> OpenPath(p, c, r)
    [] c.op \in {"read", "write", "truncate", "mmap"} /\ TracksFile(p, c.fd) ->
         IF r = 0 THEN Same(p) ELSE DescriptorFile(p, c)
    [] c.op = "path" -> SinglePath(p, c)
    [] c.op = "pair" -> TwoPaths(p, c)
    [] OTHER -> Same(p)

\* The three observers in their order; a failed call has no effect.
CallEffect(p, c, r) ==
  IF r = None THEN Same(p)
  ELSE LET descriptor == DescriptorEffect(p, c, r)
           network == Then(descriptor, NetworkEffect(descriptor.process, c, r))
       IN  Then(network, FileEffect(network.process, c, r))
=============================================================================

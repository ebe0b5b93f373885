---------------------------- MODULE SyscallState -----------------------------
(***************************************************************************)
(* SyscallState (src/src/collector/linux/syscall.rs): what the ptrace      *)
(* collector makes of a system call at the stop before it and at the stop  *)
(* after it.                                                               *)
(*                                                                         *)
(* c is a call as in CommandCalls and r its result.  w is what can be seen *)
(* at the stop: in /proc and by pidfd_getfd the working directory of the   *)
(* process, its descriptors, its sockets; and the files, if a look at a    *)
(* path says whether there is one (readable).  A socket's DNS queries are  *)
(* pairs of transaction id and host name.                                  *)
(***************************************************************************)
EXTENDS Tables

CONSTANTS
  MaxSockets, \* MAX_SOCKETS_PER_PROCESS
  MaxQueries  \* MAX_DNS_QUERIES_PER_SOCKET

ASSUME LimitsAssumption == MaxSockets \in Nat /\ MaxQueries \in Nat

\* SyscallState::root and child.  After an exec only the sockets are left, too.
NoCalls == [file |-> None, network |-> None, sockets |-> <<>>]
Child(s) == [NoCalls EXCEPT !.sockets = s.sockets]

-----------------------------------------------------------------------------
(* decode_file_operation: what the call will have done if it succeeds.     *)

\* resolve_path, descriptor_path
FileAt(w, fd) ==
  IF fd \in DOMAIN w.table /\ w.table[fd].kind = "file" THEN w.table[fd].path ELSE None
PathOf(w, arg) ==
  LET base == IF arg.dir = Cwd THEN w.cwd ELSE FileAt(w, arg.dir)
  IN  IF arg.absolute THEN <<"/", arg.name>>
      ELSE IF base = None THEN None ELSE Append(base, arg.name)

Pending(facts, touched) == [facts |-> facts, touched |-> touched, requiresData |-> FALSE]

\* Calls whose files are looked at before they run (mutation_paths).
Mutation == {"write", "truncate", "create", "unlink"}
OnePath(operations, path) ==
  IF path = None THEN None
  ELSE Pending({<<operation, <<path>>>> : operation \in operations},
               IF operations \cap Mutation = {} THEN {} ELSE {path})

\* Mutant of OpenFile: a file that could not be looked for counts as absent.
OpenFileUnseen(w, flags, path) ==
  LET absent == ~w.readable \/ path \notin w.files
      facts == {"open"} \cup (flags \cap {"truncate"})
                 \cup (IF absent THEN flags \cap {"create"} ELSE {})
  IN  IF path = None THEN None
      ELSE Pending({<<operation, <<path>>>> : operation \in facts},
                   IF flags \cap {"create", "truncate"} = {} THEN {} ELSE {path})

\* open_operation: a look at the path tells whether the call will make the file.
\* When it tells nothing, nothing is told of that.
OpenFile(w, flags, path) ==
  LET absent == w.readable /\ path \notin w.files
      facts == {"open"} \cup (flags \cap {"truncate"})
                 \cup (IF absent THEN flags \cap {"create"} ELSE {})
  IN  IF path = None THEN None
      ELSE Pending({<<operation, <<path>>>> : operation \in facts},
                   IF flags \cap {"create", "truncate"} = {} THEN {} ELSE {path})

TwoPath(operation, first, second) ==
  IF None \in {first, second} THEN None
  ELSE Pending({<<operation, <<first, second>>>>},
               IF operation = "rename" THEN {first, second} ELSE {second})

OnFile(w, c) ==
  LET pending == OnePath(c.operations, FileAt(w, c.fd))
  IN  IF pending = None THEN None
      ELSE [pending EXCEPT !.requiresData = c.op \in {"read", "write"}]

\* mkdir is not among the calls decoded.
DecodeFile(w, c) ==
  CASE c.op = "open" -> OpenFile(w, c.flags, PathOf(w, c.path))
    [] c.op \in {"read", "write", "truncate", "mmap"} -> OnFile(w, c)
    [] c.op = "path" /\ c.operation # "create" -> OnePath({c.operation}, PathOf(w, c.path))
    [] c.op = "pair" ->
         TwoPath(c.operation, IF c.operation = "symlink" THEN <<c.path.name>> ELSE PathOf(w, c.path),
                 PathOf(w, c.second))
    [] OTHER -> None

\* decode_network_operation
DecodeNetwork(s, c) ==
  IF \/ c.op \in {"socket", "bind", "connect", "listen", "close", "dup"}
     \/ c.op \in {"send", "write", "receive", "read"} /\ c.fd \in DOMAIN s.sockets
  THEN c ELSE None

-----------------------------------------------------------------------------
(* finish_network_operation.                                               *)

Tells(s, facts) == [state |-> s, facts |-> facts, lost |-> {}]
Known(s) == Tells(s, {})
LosesCall(s) == [state |-> s, facts |-> {}, lost |-> {"network"}]
Insert(s, fd, socket) == [s EXCEPT !.sockets = With(@, fd, socket)]
Fact(s, fd, operation, endpoint) == {<<operation, <<s.sockets[fd].transport, endpoint>>>>}

\* Socket and Duplicate: what there is no room for is lost.
Keep(s, fd, socket) ==
  IF fd \in DOMAIN s.sockets \/ Cardinality(DOMAIN s.sockets) < MaxSockets
  THEN Known(Insert(s, fd, socket)) ELSE LosesCall(s)

FinishSocket(s, c, r) ==
  Keep(s, r, [transport |-> c.transport, local |-> None, peer |-> None, queries |-> {}])

\* Bind, Connect, Listen: the endpoint the socket really has, if it can be seen.
Named(s, c, seen) ==
  LET endpoint == IF seen = None THEN c.endpoint ELSE seen
      socket == s.sockets[c.fd]
      named == IF c.op = "bind" THEN [socket EXCEPT !.local = endpoint]
               ELSE [socket EXCEPT !.peer = endpoint]
  IN  Tells(Insert(s, c.fd, named), Fact(s, c.fd, c.op, endpoint))

Listening(s, c, seen) ==
  LET endpoint == IF seen = None THEN s.sockets[c.fd].local ELSE seen
  IN  Tells(s, IF endpoint = None THEN {} ELSE Fact(s, c.fd, "listen", endpoint))

FinishDuplicate(s, c, r) ==
  IF c.fd \in DOMAIN s.sockets THEN Keep(s, r, s.sockets[c.fd]) ELSE Known(s)

\* Only of datagrams it is told where they go and where they come from.
Datagram(s, c, operation) ==
  LET endpoint == IF c.endpoint = None THEN s.sockets[c.fd].peer ELSE c.endpoint
  IN  IF s.sockets[c.fd].transport = "udp" /\ endpoint # None
      THEN Fact(s, c.fd, operation, endpoint) ELSE {}

\* remember_dns_query: a query there is no room for takes the datagram with it.
FinishSend(s, c) ==
  LET socket == s.sockets[c.fd]
      others == {q \in socket.queries : q[1] # c.dns.id}
  IN  IF c.dns = None THEN Tells(s, Datagram(s, c, "send"))
      ELSE IF others = socket.queries /\ Cardinality(others) >= MaxQueries THEN LosesCall(s)
      ELSE Tells(Insert(s, c.fd, [socket EXCEPT
                   !.queries = others \cup {<<c.dns.id, c.dns.host>>}]),
                 Datagram(s, c, "send"))

\* parse_dns_response: an answer takes the query of its id, and tells the address
\* if it repeats its name.
FinishReceive(s, c) ==
  LET socket == s.sockets[c.fd]
      query == IF c.dns = None THEN {} ELSE {q \in socket.queries : q[1] = c.dns.id}
      answered == query \cap {<<c.dns.id, c.dns.host>>}
  IN  Tells(Insert(s, c.fd, [socket EXCEPT !.queries = @ \ query]),
            Datagram(s, c, "receive") \cup {<<"dns", <<q[2], c.dns.address>>>> : q \in answered})

FinishNetwork(s, c, r, seen) ==
  CASE c.op = "socket" -> FinishSocket(s, c, r)
    [] c.op = "close" -> Known([s EXCEPT !.sockets = Without(@, {c.fd})])
    [] c.op = "dup" -> FinishDuplicate(s, c, r)
    [] c.op # "socket" /\ c.fd \notin DOMAIN s.sockets -> Known(s)
    [] c.op \in {"bind", "connect"} -> Named(s, c, seen)
    [] c.op = "listen" -> Listening(s, c, seen)
    [] c.op \in {"send", "write"} -> FinishSend(s, c)
    [] c.op \in {"receive", "read"} -> FinishReceive(s, c)

-----------------------------------------------------------------------------
(* observe_stop.                                                           *)

Entered(s, w, c) ==
  [file |-> DecodeFile(w, c), network |-> DecodeNetwork(s, c), sockets |-> s.sockets]
TouchedBy(s) == IF s.file = None THEN {} ELSE s.file.touched

FileFacts(s, r) ==
  IF s.file = None \/ r = None \/ (s.file.requiresData /\ r = 0) THEN {} ELSE s.file.facts

\* descriptor_socket_address
Endpoint(w, c) ==
  IF c.fd \notin DOMAIN w.table \/ w.table[c.fd].kind # "socket" THEN None
  ELSE LET socket == w.sockets[w.table[c.fd].id]
       IN  IF c.op = "connect" THEN socket.peer ELSE socket.local

\* Mutant of Exited: a call that has failed counts as well.
ExitedAnyhow(s, w, r, visible) ==
  LET c == s.network
      network == IF c = None THEN Known(Child(s)) ELSE FinishNetwork(Child(s), c, r, None)
  IN  [network EXCEPT !.facts = @ \cup FileFacts(s, r)]

\* What an exit stop makes of the calls pending.  A connect that goes on in the
\* background counts as one that has succeeded.
Exited(s, w, r, visible) ==
  LET c == s.network
      clear == Child(s)
      network == IF c = None \/ r = None THEN Known(clear)
                 ELSE FinishNetwork(clear, c, r,
                        IF visible /\ c.op \in {"bind", "connect", "listen"} THEN Endpoint(w, c) ELSE None)
  IN  [network EXCEPT !.facts = @ \cup FileFacts(s, r)]
=============================================================================

---------------------------- MODULE PeerThreads ----------------------------
(***************************************************************************)
(* The two threads of one client of scratch2.  The main thread runs the    *)
(* packet handlers, the other the commands typed at the console; both use  *)
(* the same fields, and nothing orders them.  Handlers and commands are    *)
(* lists of the loads, tests and stores they make, in the code's order,    *)
(* and a step is one of these.  HolePunch has the clients in their network, *)
(* with each handler and each command in one step.                         *)
(***************************************************************************)
EXTENDS Integers, Sequences

CONSTANTS
  Peer,         \* ids of the other clients
  MyId,         \* the id the server gives this client
  LaterIds,     \* ids it gives when the client registers again
  Port,         \* ports typed in "make a connection to server on port"
  Blocked,      \* ports the NAT machine on the way blocks
  None, Junk,   \* no record, no packet; a field nobody has written
  Budgets       \* bounds: the packets of peers and about them, the "make a
                \* connection" commands and the others that there may be

ASSUME IdsAssumption == 0 \notin Peer \cup {MyId} \cup LaterIds /\ MyId \notin Peer

VARIABLES
  my_ID, my_port, peer_ID, connected, peer_session_kind, peer_info,   \* the fields
  todo,         \* [Thread -> what its handler or command has still to do]
  reg,          \* [Thread -> its local variables]
  handling,     \* the type of the packet in processFrame
  arrived,      \* packets that reached the client and are not handled yet
  asked,        \* requests for an id on their way, by source port
  registered,   \* the port of the last registration of this client, 0 for none
  left,         \* what is left of the bounds
  tried,        \* history: has a connection been asked for?
  sent,         \* history: the last packet to a peer
  muddled       \* history: a second request before the id, or a block after it

fields == <<my_ID, my_port, peer_ID, connected, peer_session_kind, peer_info>>
threads == <<todo, reg, handling>>
network == <<arrived, asked, registered>>
bounds == <<left, tried>>
vars == <<fields, threads, network, bounds, sent, muddled>>

Thread == {"main", "console"}

\* A peer's addresses: the two the server knows, and the one a ping came from.  An ip
\* and a port of it are both the whole address here.
Address == Peer \X {"local", "public", "ping"}
Kind == {"REQUEST_LOCAL_SESSION", "REQUEST_PUBLIC_SESSION"}
Side(kind) == IF kind = "REQUEST_LOCAL_SESSION" THEN "local" ELSE "public"
MetaField == {"local", "public"} \X {"ip", "port"}

\* What nobody has written is no peer's address, and no record is no record of one.
ASSUME ValuesAssumption == Junk \notin Address /\ None \notin [MetaField -> Address]

Locals == [port |-> 0, side |-> "none", ip |-> None, peer_port |-> None, to |-> 0, during |-> {}]

Init ==
  /\ my_ID = 0 /\ my_port = 0 /\ peer_ID = 0
  /\ connected = FALSE /\ peer_session_kind = "INVALID" /\ peer_info = None
  /\ todo = [t \in Thread |-> <<>>] /\ reg = [t \in Thread |-> Locals] /\ handling = "none"
  /\ arrived = {} /\ asked = {} /\ registered = 0
  /\ left \in Budgets /\ tried = FALSE
  /\ sent = None /\ muddled = FALSE

-----------------------------------------------------------------------------
(* What the handlers and commands do, as lists of operations. *)

Do(op) == <<[op |-> op, field |-> "", value |-> None]>>
Store(field, value) == <<[op |-> "store", field |-> field, value |-> value]>>
Put(side, part, value) == <<[op |-> "store_info", field |-> <<side, part>>, value |-> value]>>

\* Mutant: a client that has an id asks again.
MakeConnectionAgain == Do("store_port") \o Do("request")

\* The port is in a local variable of the caller.
MakeConnection == Do("test_no_id") \o Do("store_port") \o Do("request")

\* Mutant: the next attempt is made on the same port.
ReceiveDropSame == Do("load_port") \o Do("store_port") \o Do("load_port") \o MakeConnection

\* my_port += 100; make_connection(my_port)
ReceiveDrop == Do("load_port_100") \o Do("store_port") \o Do("load_port") \o MakeConnection

ResponseId(id) == Store("my_ID", id)

\* response_ip: the record first, then whose it is, then connected.
ResponseIp(id) ==
  (IF peer_info = None THEN Do("new_info") ELSE <<>>)
  \o Put("local", "ip", <<id, "local">>) \o Put("local", "port", <<id, "local">>)
  \o Put("public", "ip", <<id, "public">>) \o Put("public", "port", <<id, "public">>)
  \o Store("peer_ID", id) \o Store("connected", FALSE)

\* check_connection, as the main thread evaluates it: nobody else stores these fields.
Connected(id) == peer_ID = id /\ connected /\ peer_info # None

\* request_session: whose session it is and connected first, the record last.
RequestSession(id, src, kind) ==
  IF Connected(id) THEN <<>>
  ELSE Store("peer_ID", id) \o Store("connected", TRUE) \o Store("kind", kind)
       \o Do("new_info")
       \o Put("local", "ip", src) \o Put("public", "ip", src)
       \o Put("public", "port", src) \o Put("local", "port", src)

ResponseSession(id) ==
  IF id = peer_ID /\ ~connected THEN Store("connected", TRUE) ELSE <<>>

\* Mutant: any record will do.
MakeSessionAny(kind) ==
  Do("test_info") \o Store("kind", kind) \o Do("load_ip") \o Do("load_peer_port") \o Do("send")

MakeSession(kind) ==
  Do("test_info") \o Do("test_peer") \o Store("kind", kind) \o Do("load_ip") \o Do("load_peer_port") \o Do("send")

\* send_message reads the kind again for every part of the address.
SendMessage ==
  Do("test_peer") \o Do("test_connected") \o Do("test_info")
  \o Do("load_kind") \o Do("load_ip") \o Do("load_kind") \o Do("load_peer_port") \o Do("send")

-----------------------------------------------------------------------------
(* The network. *)

IdPacket(id) == [type |-> "id", id |-> id, kind |-> "INVALID"]

\* The NAT machine refuses the ports it blocks; the server registers whoever asks, also
\* a client it has registered already, under another id (see Rendezvous!NToHS).
Answer(port) ==
  /\ port \in asked
  /\ asked' = asked \ {port}
  /\ \/ /\ port \in Blocked
        /\ arrived' = arrived \cup {[type |-> "drop", id |-> 0, kind |-> "INVALID"]}
        /\ UNCHANGED registered
     \/ /\ port \notin Blocked
        /\ registered' = port
        /\ \E id \in IF registered = 0 THEN {MyId} ELSE LaterIds :
             arrived' = arrived \cup {IdPacket(id)}
  /\ UNCHANGED <<fields, threads, bounds, sent, muddled>>

\* Packets of peers and about them: the answer to "get info", a ping to one of this
\* client's addresses, the answer to the last ping.
PeerPacket ==
  [type : {"ip", "pong"}, id : Peer, kind : {"INVALID"}] \cup [type : {"ping"}, id : Peer, kind : Kind]

Arrive(p) ==
  /\ left.packets > 0   \* bound
  /\ p.type = "pong" => sent # None /\ sent.to = p.id
  /\ left' = [left EXCEPT !.packets = @ - 1]
  /\ arrived' = arrived \cup {p}
  /\ UNCHANGED <<fields, threads, asked, registered, tried, sent, muddled>>

\* The NAT machine comes to block this client's port, and a packet it sends comes back.
BlockLate ==
  /\ left.packets > 0   \* bound
  /\ my_ID # 0
  /\ left' = [left EXCEPT !.packets = @ - 1]
  /\ arrived' = arrived \cup {[type |-> "drop", id |-> 0, kind |-> "INVALID"]}
  /\ muddled' = TRUE
  /\ UNCHANGED <<fields, threads, asked, registered, tried, sent>>

-----------------------------------------------------------------------------
(* Handlers and commands begin. *)

Handler(p) ==
  CASE p.type = "ip" -> ResponseIp(p.id)
    [] p.type = "ping" -> RequestSession(p.id, <<p.id, "ping">>, p.kind)
    [] p.type = "pong" -> ResponseSession(p.id)
    [] p.type = "drop" -> ReceiveDrop
    [] p.type = "id" -> ResponseId(p.id)

ProcessFrame(p) ==
  /\ p \in arrived /\ todo["main"] = <<>>
  /\ arrived' = arrived \ {p}
  /\ todo' = [todo EXCEPT !["main"] = Handler(p)]
  /\ handling' = IF Handler(p) = <<>> THEN "none" ELSE p.type
  /\ reg' = IF todo["console"] = <<>> THEN reg
            ELSE [reg EXCEPT !["console"].during = @ \cup {p.type}]
  /\ UNCHANGED <<fields, asked, registered, bounds, sent, muddled>>

\* The handlers a command that begins now overlaps with.
Underway == IF handling = "none" THEN {} ELSE {handling}

TypeConnect(port) ==
  /\ todo["console"] = <<>> /\ left.connects > 0   \* bound
  /\ left' = [left EXCEPT !.connects = @ - 1] /\ tried' = TRUE
  /\ todo' = [todo EXCEPT !["console"] = MakeConnection]
  /\ reg' = [reg EXCEPT !["console"] = [Locals EXCEPT !.port = port]]
  /\ muddled' = (muddled \/ (tried /\ my_ID = 0))
  /\ UNCHANGED <<fields, handling, network, sent>>

Command(id, side) == [Locals EXCEPT !.to = id, !.side = side, !.during = Underway]

TypeSession(id) ==
  /\ todo["console"] = <<>> /\ left.commands > 0   \* bound
  /\ left' = [left EXCEPT !.commands = @ - 1]
  /\ \/ /\ todo' = [todo EXCEPT !["console"] = SendMessage]
        /\ reg' = [reg EXCEPT !["console"] = Command(id, "none")]
     \/ \E kind \in Kind :
          /\ todo' = [todo EXCEPT !["console"] = MakeSession(kind)]
          /\ reg' = [reg EXCEPT !["console"] = Command(id, Side(kind))]
  /\ UNCHANGED <<fields, handling, network, tried, sent, muddled>>

-----------------------------------------------------------------------------
(* The operations. *)

Op(t) == Head(todo[t])
At(t, op) == todo[t] # <<>> /\ Op(t).op = op
Others == UNCHANGED <<arrived, registered, bounds, muddled>>

\* The thread goes on with the rest of its list, and forgets its variables at the end.
Continue(t, rest, locals) ==
  /\ todo' = [todo EXCEPT ![t] = rest]
  /\ reg' = [reg EXCEPT ![t] = IF rest = <<>> THEN Locals ELSE locals]
  /\ handling' = IF t = "main" /\ rest = <<>> THEN "none" ELSE handling
  /\ Others
Done(t) == Continue(t, Tail(todo[t]), reg[t])

\* A test that fails ends the handler or command.
Test(t, op, passes) ==
  /\ At(t, op)
  /\ IF passes THEN Done(t) ELSE Continue(t, <<>>, Locals)
  /\ UNCHANGED <<fields, asked, sent>>

Tests(t) ==
  \/ Test(t, "test_no_id", my_ID = 0)
  \/ Test(t, "test_info", peer_info # None)
  \/ Test(t, "test_peer", peer_ID = reg[t].to)
  \/ Test(t, "test_connected", connected)

\* A local variable is set.
Load(t, variable, value) ==
  /\ Continue(t, Tail(todo[t]), [reg[t] EXCEPT ![variable] = value])
  /\ UNCHANGED <<fields, asked, sent>>

Loads(t) ==
  \/ At(t, "load_port") /\ Load(t, "port", my_port)
  \/ At(t, "load_port_100") /\ Load(t, "port", (my_port + 100) % 65536)
  \/ At(t, "load_kind") /\ Load(t, "side", Side(peer_session_kind))
  \/ At(t, "load_ip") /\ Load(t, "ip", peer_info[<<reg[t].side, "ip">>])
  \/ At(t, "load_peer_port") /\ Load(t, "peer_port", peer_info[<<reg[t].side, "port">>])

StoreField(t) ==
  /\ At(t, "store")
  /\ LET field == Op(t).field
         value == Op(t).value
     IN
       /\ my_ID' = IF field = "my_ID" THEN value ELSE my_ID
       /\ peer_ID' = IF field = "peer_ID" THEN value ELSE peer_ID
       /\ connected' = IF field = "connected" THEN value ELSE connected
       /\ peer_session_kind' = IF field = "kind" THEN value ELSE peer_session_kind
  /\ Done(t)
  /\ UNCHANGED <<my_port, peer_info, asked, sent>>

\* peer_info = new metadata, and its fields one by one
NewInfo(t) ==
  /\ At(t, "new_info")
  /\ peer_info' = [f \in MetaField |-> Junk]
  /\ Done(t)
  /\ UNCHANGED <<my_ID, my_port, peer_ID, connected, peer_session_kind, asked, sent>>

StoreInfo(t) ==
  /\ At(t, "store_info")
  /\ peer_info' = [peer_info EXCEPT ![Op(t).field] = Op(t).value]
  /\ Done(t)
  /\ UNCHANGED <<my_ID, my_port, peer_ID, connected, peer_session_kind, asked, sent>>

StorePort(t) ==
  /\ At(t, "store_port")
  /\ my_port' = reg[t].port
  /\ Done(t)
  /\ UNCHANGED <<my_ID, peer_ID, connected, peer_session_kind, peer_info, asked, sent>>

Request(t) ==
  /\ At(t, "request")
  /\ asked' = asked \cup {reg[t].port}
  /\ Done(t)
  /\ UNCHANGED <<fields, sent>>

\* A ping or a message leaves for a peer.
SendToPeer(t) ==
  /\ At(t, "send")
  /\ sent' = [to |-> reg[t].to, ip |-> reg[t].ip, port |-> reg[t].peer_port, during |-> reg[t].during]
  /\ Done(t)
  /\ UNCHANGED <<fields, asked>>

Step(t) ==
  Tests(t) \/ Loads(t) \/ StoreField(t) \/ NewInfo(t) \/ StoreInfo(t) \/ StorePort(t) \/ Request(t) \/ SendToPeer(t)

Next ==
  \/ \E port \in asked : Answer(port)
  \/ \E p \in PeerPacket : Arrive(p)
  \/ BlockLate
  \/ \E p \in arrived : ProcessFrame(p)
  \/ \E port \in Port : TypeConnect(port)
  \/ \E id \in Peer : TypeSession(id)
  \/ \E t \in Thread : Step(t)

\* Both threads run, and what the client asks of the server is answered.
FairSpec ==
  /\ Init /\ [][Next]_vars
  /\ WF_vars(\E port \in asked : Answer(port))
  /\ WF_vars(\E p \in arrived : ProcessFrame(p))
  /\ \A t \in Thread : WF_vars(Step(t))

-----------------------------------------------------------------------------
(* Properties. *)

\* What a command sends to a peer goes to an address of the peer it names, ip and port
\* of the same one, unless response_ip or request_session ran into the command; and
\* what response_ip alone can do to it is never an address nobody has written.
MessageDestined ==
  sent # None =>
    /\ sent.during \cap {"ip", "ping"} = {} => sent.ip = sent.port /\ sent.ip[1] = sent.to
    /\ "ping" \notin sent.during => sent.ip # Junk /\ sent.port # Junk

\* A client that has an id sends from the port the server knows it by (my_port), over
\* any number of refused ports, unless it was told to connect anew while a request was
\* under way or the NAT machine came to block its port.
SpeaksAsRegistered == my_ID # 0 /\ ~muddled => my_port = registered

\* A client told to connect has an id in the end, whatever ports are blocked on the
\* way: the port goes up, and round, until one is not (receive_drop_packet).
RegistersAtLast == tried ~> my_ID # 0
=============================================================================

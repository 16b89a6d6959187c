----------------------------- MODULE HolePunch -----------------------------
(***************************************************************************)
(* Clients of scratch2, each behind a NAT machine of its own, and the      *)
(* rendezvous server, over a network that reorders and loses packets.      *)
(* Every handler and every console command is one action here; what the    *)
(* two threads of a machine can do to each other is the matter of Nat.     *)
(***************************************************************************)
EXTENDS Packet, Integers, Sequences, FiniteSets

CONSTANTS
  Client,       \* the clients
  Natted,       \* those behind a NAT machine; NAT machine c is the one of client c
  LocalIp,      \* [Client -> Nat]: the clients' own addresses
  NatIp,        \* [Client -> Nat]: the outer addresses of the NAT machines
  ServerAddr,   \* 1.1.1.1:1234
  HalfWord,
  FirstPort,    \* the port typed in "make a connection to server on port"
  Budgets,      \* bounds: how often each client types each command; one is taken
  MaxLoss       \* bound: how many packets get lost

ASSUME NattedAssumption == Natted \subseteq Client

VARIABLES
  information, current_free_id, reply,   \* the server
  nat,          \* the NAT machines
  client,       \* the clients
  net,          \* packets in flight, tagged with the link they are on
  left,         \* what is left of the budget
  losses,
  accepted      \* history: who accepted whose ping, and the id in the pong

server == <<information, current_free_id, reply>>
vars == <<server, nat, client, net, left, losses, accepted>>

-----------------------------------------------------------------------------
(* Addresses. *)

MaxMappings == 4   \* bound on the mappings of one NAT

\* calculate_new_address for the k-th client address a NAT sees.
PublicAddr(c, k) ==
  [ip |-> NatIp[c] + (k - 1) \div 3 + 1, port |-> (2000 + ((k - 1) % 3) * 100) % 65536]

NatRange(c) == NatIp[c]..(NatIp[c] + MaxMappings)

LocalAddr == [ip : { LocalIp[c] : c \in Client }, port : 0..65535]
SourceAddr == LocalAddr \cup { PublicAddr(c, k) : c \in Natted, k \in 1..MaxMappings }

Srv == INSTANCE Rendezvous WITH MaxClients <- 100

\* Whose address it is outside, and whose registration an id names.
Behind(a, c) == IF c \in Natted THEN a.ip \in NatRange(c) ELSE a.ip = LocalIp[c]
Holds(c, id) == \E i \in 1..Len(information) :
                  information[i].ID = id /\ Behind(information[i].public, c)

ASSUME AddressAssumption ==
  \A c \in Client : NatIp[c] \in Nat /\ ~Behind(ServerAddr, c)

-----------------------------------------------------------------------------
(* The network: a set, so a packet is delivered in any order, and one equal *)
(* to a packet under way adds nothing.                                      *)

On(link, c, p) == [link |-> link, at |-> c, pkt |-> p]

\* A packet from a client to its NAT, on the wide network, to a client.
Up(c, p) == On("up", c, p)
Wan(p) == On("wan", None, p)
Down(c, p) == On("down", c, p)

Replace(f, new) == net' = (net \ {f}) \cup new

-----------------------------------------------------------------------------
Init ==
  /\ information = <<>> /\ current_free_id = 0 /\ reply = None
  /\ nat = [c \in Client |-> [table |-> <<>>, sessions |-> {}, blocked |-> {}]]
  /\ client = [c \in Client |->
       [my_port |-> 0, my_ID |-> 0, peer_info |-> None, peer_ID |-> 0,
        connected |-> FALSE, kind |-> "INVALID"]]
  /\ net = {}
  /\ left \in Budgets
  /\ losses = 0
  /\ accepted = {}

-----------------------------------------------------------------------------
(* The NAT machines: NatMachine::processFrame. *)

NatAddr(c, port) == [ip |-> NatIp[c], port |-> port]
Index(s, x) == CHOOSE i \in 1..Len(s) : s[i] = x
InSeq(s, x) == \E i \in 1..Len(s) : s[i] = x

NatOut(f) ==
  LET c == f.at
      p == f.pkt
      n == nat[c]
      table == IF InSeq(n.table, p.src) THEN n.table ELSE Append(n.table, p.src)
      k == Index(table, p.src)
  IN /\ f.link = "up" /\ c \in Natted
     /\ IF p.src.port \in n.blocked
        THEN /\ Replace(f, {Down(c, Packet("DROP", NatAddr(c, 1234), p.src, 0, None))})
             /\ UNCHANGED nat
        ELSE /\ Len(table) <= MaxMappings   \* bound
             /\ nat' = [nat EXCEPT ![c].table = table,
                                   ![c].sessions = @ \cup {<<k, p.dst>>}]
             /\ Replace(f, {Wan([p EXCEPT !.src = PublicAddr(c, k)])})
     /\ UNCHANGED <<server, client, left, losses, accepted>>

NatIn(f) ==
  /\ f.link = "wan"
  /\ \E c \in Natted :
       /\ Behind(f.pkt.dst, c)
       /\ LET p == f.pkt
              hit == { k \in 1..Len(nat[c].table) : PublicAddr(c, k) = p.dst }
          IN \/ hit = {} /\ Replace(f, {})
             \/ \E k \in hit :
                  IF <<k, p.src>> \in nat[c].sessions
                  THEN Replace(f, {Down(c, [p EXCEPT !.dst = nat[c].table[k]])})
                  ELSE Replace(f, {Wan(Packet("DROP", NatAddr(c, 4321), p.src, 0, None))})
  /\ UNCHANGED <<server, nat, client, left, losses, accepted>>

\* A client without a NAT is on the wide network itself.
DirectLink(f) ==
  /\ \/ f.link = "up" /\ f.at \notin Natted /\ Replace(f, {Wan(f.pkt)})
     \/ f.link = "wan" /\ \E c \in Client \ Natted :
          Behind(f.pkt.dst, c) /\ Replace(f, {Down(c, f.pkt)})
  /\ UNCHANGED <<server, nat, client, left, losses, accepted>>

\* Nobody on the wide network has the destination.
NoRoute(f) ==
  /\ f.link = "wan" /\ f.pkt.dst # ServerAddr
  /\ \A c \in Client : ~Behind(f.pkt.dst, c)
  /\ Replace(f, {})
  /\ UNCHANGED <<server, nat, client, left, losses, accepted>>

BlockPort(c, port) ==
  /\ left[c].block > 0
  /\ left' = [left EXCEPT ![c].block = @ - 1]
  /\ nat' = [nat EXCEPT ![c].blocked = @ \cup {port}]
  /\ UNCHANGED <<server, client, net, losses, accepted>>

-----------------------------------------------------------------------------
(* The server: ServerMachine::processFrame. *)

ServerStep(f) ==
  LET p == f.pkt IN
  /\ f.link = "wan" /\ p.dst = ServerAddr
  /\ CASE ServerDetect(p) = "REQUEST_ASSIGNING_ID" -> Srv!RecRequestId(p.src, p.pl)
       [] ServerDetect(p) = "REQUEST_GETTING_IP" -> Srv!RecIpRequest(p.src, p.id)
       [] ServerDetect(p) = "REQUEST_UPDATING_INFO" -> Srv!RecUpdateRequest(p.id, p.pl)
       [] ServerDetect(p) = "STATUS" -> Srv!ReceiveStatus(p.src, p.pl)
       [] OTHER -> reply' = None /\ UNCHANGED <<information, current_free_id>>
  /\ Replace(f, IF reply' = None THEN {} ELSE {Wan(reply')})
  /\ UNCHANGED <<nat, client, left, losses, accepted>>

-----------------------------------------------------------------------------
(* The clients: the console commands of ClientMachine::run. *)

Local(c, port) == [ip |-> LocalIp[c], port |-> port]
Me(c) == Local(c, client[c].my_port)

Type(c, command) ==
  /\ left[c][command] > 0
  /\ left' = [left EXCEPT ![c][command] = @ - 1]

\* The request make_connection sends, none if there is an id already.
IdRequest(c, id, port) ==
  IF id > 0 THEN {}
  ELSE {Up(c, Packet("REQUEST_ASSIGNING_ID", Local(c, port), ServerAddr, 0, Local(c, port)))}

MakeConnection(c) ==
  /\ Type(c, "connect")
  /\ client[c].my_ID = 0
  /\ client' = [client EXCEPT ![c].my_port = FirstPort]
  /\ net' = net \cup IdRequest(c, 0, FirstPort)
  /\ UNCHANGED <<server, nat, losses, accepted>>

GetIdInfo(c, id) ==
  /\ Type(c, "info")
  /\ net' = net \cup {Up(c, Packet("REQUEST_GETTING_IP", Me(c), ServerAddr, id, None))}
  /\ UNCHANGED <<server, nat, client, losses, accepted>>

\* Where packets to the peer go in a session of this kind.
PeerAddr(c, kind) ==
  IF kind = "REQUEST_LOCAL_SESSION" THEN client[c].peer_info.local
  ELSE client[c].peer_info.public

MakeSession(c, kind) ==
  /\ Type(c, "session")
  /\ client[c].peer_info # None
  /\ client' = [client EXCEPT ![c].kind = kind]
  /\ net' = net \cup {Up(c, Packet(kind, Me(c), PeerAddr(c, kind), client[c].my_ID, Ping))}
  /\ UNCHANGED <<server, nat, losses, accepted>>

\* Mutant: check_connection is content with the id.
ConnectedKnown(c, id) == client[c].peer_ID = id /\ client[c].peer_info # None

\* check_connection
Connected(c, id) ==
  client[c].peer_ID = id /\ client[c].connected /\ client[c].peer_info # None

SendMessage(c, id) ==
  /\ Type(c, "message")
  /\ Connected(c, id)
  /\ net' = net \cup
       {Up(c, Packet("MESSAGE", Me(c), PeerAddr(c, client[c].kind), client[c].my_ID, None))}
  /\ UNCHANGED <<server, nat, client, losses, accepted>>

AskStatus(c) ==
  /\ Type(c, "status")
  /\ net' = net \cup {Up(c, Packet("STATUS", Me(c), ServerAddr, 0, Me(c)))}
  /\ UNCHANGED <<server, nat, client, losses, accepted>>

-----------------------------------------------------------------------------
(* The clients: the packet handlers of ClientMachine::processFrame. *)

\* f is a packet of this type for client f.at.
Arrives(f, type) == f.link = "down" /\ ClientDetect(f.pkt) = type

ResponseId(f) ==
  /\ Arrives(f, "RESPONSE_ASSIGNING_ID")
  /\ client' = [client EXCEPT ![f.at].my_ID = f.pkt.id]
  /\ Replace(f, {})
  /\ UNCHANGED <<server, nat, left, losses, accepted>>

\* The port moves on also when make_connection then ignores the request.
ReceiveDrop(f) ==
  /\ Arrives(f, "DROP")
  /\ LET c == f.at
         port == (client[c].my_port + 100) % 65536
     IN IF f.pkt.src.port = 1234
        THEN /\ client' = [client EXCEPT ![c].my_port = port]
             /\ Replace(f, IdRequest(c, client[c].my_ID, port))
        ELSE Replace(f, {}) /\ UNCHANGED client
  /\ UNCHANGED <<server, nat, left, losses, accepted>>

\* Mutants: only a missing record is filled in; connected is left as it was.
ResponseIpOnce(f) ==
  /\ Arrives(f, "RESPONSE_GETTING_IP")
  /\ client' = [client EXCEPT
       ![f.at].peer_info = IF @ = None THEN f.pkt.pl ELSE @,
       ![f.at].peer_ID = f.pkt.id,
       ![f.at].connected = FALSE]
  /\ Replace(f, {})
  /\ UNCHANGED <<server, nat, left, losses, accepted>>
ResponseIpKeep(f) ==
  /\ Arrives(f, "RESPONSE_GETTING_IP")
  /\ client' = [client EXCEPT ![f.at].peer_info = f.pkt.pl, ![f.at].peer_ID = f.pkt.id]
  /\ Replace(f, {})
  /\ UNCHANGED <<server, nat, left, losses, accepted>>

ResponseIp(f) ==
  /\ Arrives(f, "RESPONSE_GETTING_IP")
  /\ client' = [client EXCEPT ![f.at].peer_info = f.pkt.pl,
                              ![f.at].peer_ID = f.pkt.id,
                              ![f.at].connected = FALSE]
  /\ Replace(f, {})
  /\ UNCHANGED <<server, nat, left, losses, accepted>>

RequestSession(f) ==
  /\ Arrives(f, "REQUEST_LOCAL_SESSION")
  /\ LET c == f.at
         p == f.pkt
     IN IF Connected(c, p.id)
        THEN Replace(f, {}) /\ UNCHANGED <<client, accepted>>
        ELSE /\ client' = [client EXCEPT
                  ![c].peer_ID = p.id,
                  ![c].connected = TRUE,
                  ![c].kind = "REQUEST_LOCAL_SESSION",
                  ![c].peer_info = [local |-> p.src, public |-> p.src]]
             /\ Replace(f, {Up(c, Packet("RESPONSE_LOCAL_SESSION", p.dst, p.src,
                                         client[c].my_ID, Pong))})
             /\ accepted' = accepted \cup
                  { <<c, d, client[c].my_ID>> : d \in { d \in Client : Behind(p.src, d) } }
  /\ UNCHANGED <<server, nat, left, losses>>

\* Mutant: the id in the pong is compared with the wrong one.
ResponseSessionOwn(f) ==
  /\ Arrives(f, "RESPONSE_LOCAL_SESSION")
  /\ client' = IF f.pkt.id = client[f.at].my_ID
               THEN [client EXCEPT ![f.at].connected = TRUE]
               ELSE client
  /\ Replace(f, {})
  /\ UNCHANGED <<server, nat, left, losses, accepted>>

ResponseSession(f) ==
  /\ Arrives(f, "RESPONSE_LOCAL_SESSION")
  /\ client' = IF f.pkt.id = client[f.at].peer_ID
               THEN [client EXCEPT ![f.at].connected = TRUE]
               ELSE client
  /\ Replace(f, {})
  /\ UNCHANGED <<server, nat, left, losses, accepted>>

\* receive_message and rec_status_response only print.
ReceiveToPrint(f) ==
  /\ Arrives(f, "MESSAGE") \/ Arrives(f, "STATUS_RESPONSE")
  /\ Replace(f, {})
  /\ UNCHANGED <<server, nat, client, left, losses, accepted>>

\* receive_NAT_updated_packet; nothing in the program sends such a packet.
ReceiveNatUpdated(c) ==
  /\ Type(c, "update")
  /\ net' = net \cup {Up(c, Packet("REQUEST_UPDATING_INFO", Me(c), ServerAddr,
                                   client[c].my_ID, Me(c)))}
  /\ UNCHANGED <<server, nat, client, losses, accepted>>

-----------------------------------------------------------------------------
Lose(f) ==
  /\ losses < MaxLoss
  /\ losses' = losses + 1
  /\ Replace(f, {})
  /\ UNCHANGED <<server, nat, client, left, accepted>>

Command(c) ==
  \/ MakeConnection(c) \/ AskStatus(c) \/ ReceiveNatUpdated(c)
  \/ \E id \in Id \ {0} : GetIdInfo(c, id)
  \/ \E id \in Id : SendMessage(c, id)
  \/ \E kind \in {"REQUEST_LOCAL_SESSION", "REQUEST_PUBLIC_SESSION"} : MakeSession(c, kind)
  \/ c \in Natted /\ BlockPort(c, FirstPort)

Handle(f) ==
  \/ NatOut(f) \/ NatIn(f) \/ DirectLink(f) \/ NoRoute(f) \/ ServerStep(f)
  \/ ResponseId(f) \/ ReceiveDrop(f) \/ ResponseIp(f) \/ RequestSession(f)
  \/ ResponseSession(f) \/ ReceiveToPrint(f)

Next ==
  \/ \E c \in Client : Command(c)
  \/ \E f \in net : Handle(f)
  \/ \E f \in net : Lose(f)

Spec == Init /\ [][Next]_vars

\* The event loop of a machine hands on every packet that reaches it.
FairSpec == Spec /\ WF_vars(\E f \in net : Handle(f))

-----------------------------------------------------------------------------
(* Properties. *)

\* Whatever order answers, pings and pongs arrive in, the address a client keeps
\* for its peer belongs to the client that was given the peer's id.
PeerIsHolder ==
  \A c \in Client : client[c].peer_info # None /\ client[c].peer_ID # 0 =>
    \E d \in Client : Holds(d, client[c].peer_ID) /\ Behind(client[c].peer_info.public, d)

\* Nobody is connected alone: a client that takes itself to be connected to a
\* peer has accepted the peer's ping, or the peer has accepted one of its own.
ConnectedByConsent ==
  \A c \in Client : client[c].connected /\ client[c].peer_ID # 0 =>
    \E d \in Client :
      /\ Holds(d, client[c].peer_ID)
      /\ \E a \in accepted : {a[1], a[2]} = {c, d}

\* A client has sent to an address the other one's NAT has given it.
PunchedTo(c, d) ==
  \E k, l \in 1..MaxMappings :
    l <= Len(nat[d].table) /\ <<k, PublicAddr(d, l)>> \in nat[c].sessions

\* Hole punching works: when two clients behind NATs have each pinged the other, the two
\* are connected to each other once nothing is under way, whichever ping came too early
\* and was dropped, and whatever answers and pongs overtook.  Unless a packet was lost, or
\* a ping was accepted by a client that had no id yet to put into its pong; and of
\* clients that look each other up once (PingAnswered is about those that ask again).
HolePunched ==
  net = {} /\ losses = 0 /\ (\A a \in accepted : a[3] # 0) =>
    \A c, d \in Natted :
      c # d /\ PunchedTo(c, d) /\ PunchedTo(d, c) =>
        client[c].connected /\ Behind(client[c].peer_info.public, d)

\* A pong under way completes the session: the path it takes was opened by the
\* ping it answers, so unless it is lost its addressee gets connected, or has
\* turned to another peer.
PongCompletes ==
  \A d \in Client, i \in Id :
    (\E f \in net : f.pkt.pl = Pong /\ f.pkt.id = i /\
        IF f.link = "down" THEN f.at = d ELSE Behind(f.pkt.dst, d))
    ~> (client[d].connected \/ client[d].peer_ID # i)

\* "connection lost ... ask server for updates" (client_machine.cpp:268): a client
\* that has asked again and whose ping reaches its peer is connected in the end,
\* or turns to another peer.
PingAnswered ==
  \A c, d \in Client :
    (\E f \in net : /\ Arrives(f, "REQUEST_LOCAL_SESSION") /\ f.at = c
                    /\ f.pkt.id # 0 /\ f.pkt.id = client[d].my_ID
                    /\ client[d].peer_ID = client[c].my_ID)
    ~> (client[d].connected \/ client[d].peer_ID # client[c].my_ID)
=============================================================================

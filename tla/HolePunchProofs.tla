-------------------------- MODULE HolePunchProofs --------------------------
(***************************************************************************)
(* Proofs about hole punching, for any number of clients, ids, NAT         *)
(* machines, commands and addresses: the address a client keeps for its    *)
(* peer is the peer's, and nobody is connected alone.                      *)
(***************************************************************************)
EXTENDS HolePunch, TLAPS

-----------------------------------------------------------------------------
(* What the NAT machines keep, and what packets are. *)

\* What a NAT machine keeps.
IsNat(n) ==
  /\ n = [table |-> n.table, sessions |-> n.sessions, blocked |-> n.blocked]
  /\ \E S : n.table \in Seq(S)

\* What is under way has the fields a NAT rewrites.
IsPacket(p) == p = [code |-> p.code, id |-> p.id, src |-> p.src, dst |-> p.dst, pl |-> p.pl]

\* A NAT machine keeps a table and a set of sessions, whatever comes through it.
NatInv == DOMAIN nat = Client /\ \A c \in Client : IsNat(nat[c])
ShapeInv == NatInv /\ \A f \in net : IsPacket(f.pkt)

-----------------------------------------------------------------------------
\* push_back keeps a sequence one.
LEMMA TableGrows ==
  ASSUME NEW t, NEW x, NEW S, t \in Seq(S)
  PROVE  \E T : Append(t, x) \in Seq(T)
<1> DEFINE T == S \cup {x}
<1>1. Len(t) \in Nat /\ t \in [1..Len(t) -> S]
  OBVIOUS
<1>2. t \in [1..Len(t) -> T]
  BY <1>1
<1>3. t \in Seq(T) /\ x \in T
  BY <1>1, <1>2
<1> HIDE DEF T
<1> QED
  BY <1>3

\* What the two assignments of a packet on its way out do to the machine.
Enter(F, d, t, e) == [F EXCEPT ![d].table = t, ![d].sessions = @ \cup {e}]

LEMMA EnterMapping ==
  ASSUME NEW F, NEW d \in DOMAIN F, IsNat(F[d]), NEW t, NEW e
  PROVE  LET G == Enter(F, d, t, e) IN
         /\ DOMAIN G = DOMAIN F
         /\ G[d] = [table |-> t, sessions |-> F[d].sessions \cup {e}, blocked |-> F[d].blocked]
         /\ \A x \in DOMAIN F \ {d} : G[x] = F[x]
<1> DEFINE n == F[d]
           a == n.table
           b == n.sessions
           z == n.blocked
           G == Enter(F, d, t, e)
           F1 == [F EXCEPT ![d] = [n EXCEPT !.table = t]]
<1>1. G = [F1 EXCEPT ![d] = [F1[d] EXCEPT !.sessions = F1[d].sessions \cup {e}]]
  BY DEF Enter
<1>2. n = [table |-> a, sessions |-> b, blocked |-> z]
  BY DEF IsNat
<1> HIDE DEF a, b, z
<1>3. [n EXCEPT !.table = t] = [table |-> t, sessions |-> b, blocked |-> z]
  BY <1>2
<1>4. F1[d] = [table |-> t, sessions |-> b, blocked |-> z] /\ DOMAIN F1 = DOMAIN F
      /\ \A x \in DOMAIN F \ {d} : F1[x] = F[x]
  BY <1>3
<1> HIDE DEF F1, G
<1>5. [F1[d] EXCEPT !.sessions = F1[d].sessions \cup {e}]
        = [table |-> t, sessions |-> b \cup {e}, blocked |-> z]
  BY <1>4
<1>6. DOMAIN G = DOMAIN F1 /\ G[d] = [table |-> t, sessions |-> b \cup {e}, blocked |-> z]
      /\ \A x \in DOMAIN F1 \ {d} : G[x] = F1[x]
  BY <1>1, <1>4, <1>5
<1> QED
  BY <1>4, <1>6 DEF b, z, G

\* What is made, and what a NAT makes of it, is a packet.
LEMMA PacketMade ==
  ASSUME NEW type, NEW src, NEW dst, NEW id, NEW pl
  PROVE  IsPacket(Packet(type, src, dst, id, pl)) /\ Packet(type, src, dst, id, pl).src = src
BY DEF IsPacket, Packet

LEMMA Translated ==
  ASSUME NEW p, IsPacket(p), NEW a
  PROVE  /\ IsPacket([p EXCEPT !.src = a]) /\ IsPacket([p EXCEPT !.dst = a])
         /\ [p EXCEPT !.dst = a].dst = a /\ [p EXCEPT !.dst = a].src = p.src
<1> DEFINE q == [code |-> p.code, id |-> p.id, src |-> p.src, dst |-> p.dst, pl |-> p.pl]
<1>1. p = q
  BY DEF IsPacket
<1>2. /\ [q EXCEPT !.src = a]
           = [code |-> p.code, id |-> p.id, src |-> a, dst |-> p.dst, pl |-> p.pl]
      /\ [q EXCEPT !.dst = a]
           = [code |-> p.code, id |-> p.id, src |-> p.src, dst |-> a, pl |-> p.pl]
  OBVIOUS
<1> HIDE DEF q
<1> QED
  BY <1>1, <1>2 DEF IsPacket

\* The handlers and commands that leave the NAT machines alone.
LEMMA SameNat ==
  ASSUME ShapeInv, UNCHANGED nat, \A f \in net' : f \in net \/ IsPacket(f.pkt)
  PROVE  ShapeInv'
BY DEF ShapeInv, NatInv

-----------------------------------------------------------------------------
\* A packet out of the NAT gets a mapping, at the end of the table if it has none yet.
LEMMA NatOutKeeps ==
  ASSUME ShapeInv, NEW f \in net, NatOut(f)
  PROVE  ShapeInv'
<1> DEFINE c == f.at
           n == nat[c]
           table == IF InSeq(n.table, f.pkt.src) THEN n.table ELSE Append(n.table, f.pkt.src)
           k == Index(table, f.pkt.src)
           m == [table |-> table, sessions |-> n.sessions \cup {<<k, f.pkt.dst>>},
                 blocked |-> n.blocked]
<1>1. c \in Client /\ IsNat(n) /\ DOMAIN nat = Client
  BY NattedAssumption DEF NatOut, ShapeInv, NatInv
<1>2. CASE f.pkt.src.port \in n.blocked
  <2>1. net' = (net \ {f}) \cup {Down(c, Packet("DROP", NatAddr(c, 1234), f.pkt.src, 0, None))}
        /\ UNCHANGED nat
    BY <1>2 DEF NatOut, Replace
  <2> QED
    BY <2>1, PacketMade, SameNat DEF Down, On
<1>3. CASE f.pkt.src.port \notin n.blocked
  <2>1. nat' = Enter(nat, c, table, <<k, f.pkt.dst>>)
    BY <1>3 DEF NatOut, Enter
  <2>2. net' = (net \ {f}) \cup {Wan([f.pkt EXCEPT !.src = PublicAddr(c, k)])}
    BY <1>3 DEF NatOut, Replace
  <2> HIDE DEF k
  <2>3. \E S : table \in Seq(S)
    <3>1. PICK S : n.table \in Seq(S)
      BY <1>1 DEF IsNat
    <3> QED
      BY <3>1, TableGrows
  <2> HIDE DEF table
  <2>4. nat'[c] = m /\ DOMAIN nat' = Client /\ \A d \in Client \ {c} : nat'[d] = nat[d]
    BY <1>1, <2>1, EnterMapping
  <2>5. IsNat(m)
    BY <2>3 DEF IsNat
  <2>6. NatInv'
    BY <2>4, <2>5 DEF NatInv, ShapeInv
  <2> DEFINE q == [f.pkt EXCEPT !.src = PublicAddr(c, k)]
  <2>7. IsPacket(q) /\ net' = (net \ {f}) \cup {Wan(q)}
    BY <2>2, Translated DEF ShapeInv
  <2> HIDE DEF q
  <2> QED
    BY <2>6, <2>7 DEF ShapeInv, Wan, On
<1> QED
  BY <1>2, <1>3

\* A packet into the NAT goes down with another destination, or is dropped.
LEMMA NatInKeeps ==
  ASSUME ShapeInv, NEW f \in net, NatIn(f)
  PROVE  ShapeInv'
<1> DEFINE p == f.pkt
           Forward(c, k) == [p EXCEPT !.dst = nat[c].table[k]]
           Refuse(c) == Packet("DROP", NatAddr(c, 4321), p.src, 0, None)
<1>1. UNCHANGED nat /\ IsPacket(p)
  BY DEF NatIn, ShapeInv
<1>2. \A c, k : IsPacket(Forward(c, k)) /\ IsPacket(Refuse(c))
  <2>1. ASSUME NEW c, NEW k  PROVE IsPacket(Forward(c, k)) /\ IsPacket(Refuse(c))
    <3>1. IsPacket(Forward(c, k))
      BY <1>1, Translated
    <3>2. IsPacket(Refuse(c))
      BY PacketMade
    <3> QED
      BY <3>1, <3>2
  <2> QED
    BY <2>1
<1>3. PICK c \in Natted :
        \/ net' = net \ {f}
        \/ net' = (net \ {f}) \cup {Wan(Refuse(c))}
        \/ \E k \in 1..Len(nat[c].table) :
             <<k, p.src>> \in nat[c].sessions /\ net' = (net \ {f}) \cup {Down(c, Forward(c, k))}
  <2> HIDE DEF Forward, Refuse
  <2> QED
    BY SMTT(30) DEF NatIn, Replace, Forward, Refuse
<1> HIDE DEF Forward, Refuse
<1>4. \A g \in net' : g \in net \/ IsPacket(g.pkt)
  <2>1. CASE net' = net \ {f}
    BY <2>1
  <2>2. CASE net' = (net \ {f}) \cup {Wan(Refuse(c))}
    BY <1>2, <2>2 DEF Wan, On
  <2>3. ASSUME NEW k, net' = (net \ {f}) \cup {Down(c, Forward(c, k))}
        PROVE  \A g \in net' : g \in net \/ IsPacket(g.pkt)
    BY <1>2, <2>3 DEF Down, On
  <2> QED
    BY <1>3, <2>1, <2>2, <2>3
<1> QED
  BY <1>1, <1>4, SameNat

-----------------------------------------------------------------------------
\* The server, which answers with a packet or not at all.
LEMMA ServerKeeps ==
  ASSUME ShapeInv, NEW f \in net, ServerStep(f)
  PROVE  ShapeInv'
<1>1. UNCHANGED nat /\ Replace(f, IF reply' = None THEN {} ELSE {Wan(reply')})
  BY DEF ServerStep
<1> DEFINE Answered == reply' = None \/ IsPacket(reply')
<1>2. Answered
  <2> DEFINE p == f.pkt
  <2>1. ASSUME Srv!RecRequestId(p.src, p.pl)  PROVE Answered
    BY <2>1 DEF Srv!RecRequestId, Srv!Send, Srv!Packet, IsPacket
  <2>2. ASSUME Srv!RecIpRequest(p.src, p.id)  PROVE Answered
    BY <2>2 DEF Srv!RecIpRequest, Srv!Send, Srv!Packet, IsPacket
  <2>3. ASSUME Srv!RecUpdateRequest(p.id, p.pl)  PROVE Answered
    BY <2>3 DEF Srv!RecUpdateRequest, Srv!Send
  <2>4. ASSUME Srv!ReceiveStatus(p.src, p.pl)  PROVE Answered
    BY <2>4 DEF Srv!ReceiveStatus, Srv!Send, Srv!Packet, IsPacket
  <2>5. \/ Srv!RecRequestId(p.src, p.pl) \/ Srv!RecIpRequest(p.src, p.id)
        \/ Srv!RecUpdateRequest(p.id, p.pl) \/ Srv!ReceiveStatus(p.src, p.pl)
        \/ reply' = None
    BY DEF ServerStep, ServerDetect
  <2> QED
    BY <2>1, <2>2, <2>3, <2>4, <2>5
<1>3. CASE reply' = None
  BY <1>1, <1>3, SameNat DEF Replace
<1>4. CASE reply' # None
  BY <1>1, <1>2, <1>4, SameNat DEF Replace, Wan, On
<1> QED
  BY <1>3, <1>4

\* A packet a client sends to its NAT: an answer, or what a command asks for.
IsUp(g) == \E c, type, src, dst, id, pl : g = Up(c, Packet(type, src, dst, id, pl))

LEMMA ClientSends ==
  ASSUME ShapeInv, UNCHANGED nat, \A g \in net' : g \in net \/ IsUp(g)
  PROVE  ShapeInv'
<1>1. ASSUME NEW g, IsUp(g)  PROVE IsPacket(g.pkt)
  BY <1>1, PacketMade DEF IsUp, Up, On
<1> QED
  BY <1>1, SameNat

\* The request make_connection sends.
LEMMA IdRequestUp ==
  ASSUME NEW d, NEW i, NEW port, NEW g \in IdRequest(d, i, port)
  PROVE  IsUp(g)
BY DEF IdRequest, IsUp

\* Every packet that is handled keeps the invariant.
LEMMA HandleKeeps ==
  ASSUME ShapeInv, NEW f \in net, Handle(f)
  PROVE  ShapeInv'
<1>1. CASE NatOut(f)
  BY <1>1, NatOutKeeps
<1>2. CASE NatIn(f)
  BY <1>2, NatInKeeps
<1>3. CASE ServerStep(f)
  BY <1>3, ServerKeeps
<1>4. CASE DirectLink(f)
  <2>1. IsPacket(f.pkt) /\ UNCHANGED nat
    BY <1>4 DEF DirectLink, ShapeInv
  <2>2. \/ net' = (net \ {f}) \cup {Wan(f.pkt)}
        \/ \E c \in Client \ Natted : net' = (net \ {f}) \cup {Down(c, f.pkt)}
    BY <1>4 DEF DirectLink, Replace
  <2> QED
    BY <2>1, <2>2, SameNat DEF Wan, Down, On
<1>5. CASE NoRoute(f) \/ ResponseId(f) \/ ResponseIp(f) \/ ResponseSession(f) \/ ReceiveToPrint(f)
  <2>1. net' = net \ {f} /\ UNCHANGED nat
    BY <1>5 DEF NoRoute, ResponseId, ResponseIp, ResponseSession, ReceiveToPrint, Replace
  <2> QED
    BY <2>1, SameNat
<1>6. CASE ReceiveDrop(f)
  <2>1. UNCHANGED nat /\ (net' = net \ {f} \/ \E d, i, port : net' = (net \ {f}) \cup IdRequest(d, i, port))
    BY <1>6 DEF ReceiveDrop, Replace
  <2>2. \A g \in net' : g \in net \/ IsUp(g)
    BY <2>1, IdRequestUp
  <2> QED
    BY <2>1, <2>2, ClientSends
<1>7. CASE RequestSession(f)
  <2>1. UNCHANGED nat /\ (net' = net \ {f} \/ \E g : IsUp(g) /\ net' = (net \ {f}) \cup {g})
    BY <1>7 DEF RequestSession, Replace, IsUp
  <2>2. \A g \in net' : g \in net \/ IsUp(g)
    BY <2>1
  <2> QED
    BY <2>1, <2>2, ClientSends
<1> QED
  BY <1>1, <1>2, <1>3, <1>4, <1>5, <1>6, <1>7 DEF Handle

\* So does every command.
LEMMA CommandKeeps ==
  ASSUME ShapeInv, NEW c \in Client, Command(c)
  PROVE  ShapeInv'
<1>1. CASE MakeConnection(c)
  <2>1. UNCHANGED nat /\ net' = net \cup IdRequest(c, 0, FirstPort)
    BY <1>1 DEF MakeConnection
  <2>2. \A g \in net' : g \in net \/ IsUp(g)
    BY <2>1, IdRequestUp
  <2> QED
    BY <2>1, <2>2, ClientSends
<1>2. CASE BlockPort(c, FirstPort)
  <2>1. nat' = [nat EXCEPT ![c].blocked = @ \cup {FirstPort}] /\ UNCHANGED net
    BY <1>2 DEF BlockPort
  <2> DEFINE b == nat[c].blocked \cup {FirstPort}
             m == [table |-> nat[c].table, sessions |-> nat[c].sessions, blocked |-> b]
  <2>2. IsNat(nat[c]) /\ DOMAIN nat = Client
    BY DEF ShapeInv, NatInv
  <2>3. nat' = [nat EXCEPT ![c] = [nat[c] EXCEPT !.blocked = b]]
    BY <2>1
  <2> HIDE DEF b
  <2>4. [nat[c] EXCEPT !.blocked = b] = m
    BY <2>2 DEF IsNat
  <2>5. nat'[c] = m /\ DOMAIN nat' = Client /\ \A d \in Client \ {c} : nat'[d] = nat[d]
    BY <2>2, <2>3, <2>4
  <2>6. IsNat(m)
    BY <2>2 DEF IsNat
  <2> HIDE DEF m
  <2>7. NatInv'
    BY <2>5, <2>6 DEF ShapeInv, NatInv
  <2> QED
    BY <2>1, <2>7 DEF ShapeInv
<1>3. CASE \/ AskStatus(c) \/ ReceiveNatUpdated(c)
           \/ \E id \in Id \ {0} : GetIdInfo(c, id)
           \/ \E id \in Id : SendMessage(c, id)
           \/ \E kind \in {"REQUEST_LOCAL_SESSION", "REQUEST_PUBLIC_SESSION"} : MakeSession(c, kind)
  <2>1. UNCHANGED nat /\ \E g : IsUp(g) /\ net' = net \cup {g}
    BY <1>3 DEF AskStatus, ReceiveNatUpdated, GetIdInfo, SendMessage, MakeSession, IsUp
  <2>2. \A g \in net' : g \in net \/ IsUp(g)
    BY <2>1
  <2> QED
    BY <2>1, <2>2, ClientSends
<1> QED
  BY <1>1, <1>2, <1>3 DEF Command

-----------------------------------------------------------------------------
\* Nothing is on its way at first.
LEMMA InitInv == Init => ShapeInv
<1> SUFFICES ASSUME Init PROVE ShapeInv
  OBVIOUS
<1>1. nat = [c \in Client |-> [table |-> <<>>, sessions |-> {}, blocked |-> {}]] /\ net = {}
  BY DEF Init
<1>2. \A S : <<>> \in Seq(S)
  OBVIOUS
<1> QED
  BY <1>1, <1>2 DEF ShapeInv, NatInv, IsNat

\* No step breaks the invariant.
LEMMA NextInv == ShapeInv /\ [Next]_vars => ShapeInv'
<1> SUFFICES ASSUME ShapeInv, [Next]_vars PROVE ShapeInv'
  OBVIOUS
<1>1. CASE \E c \in Client : Command(c)
  BY <1>1, CommandKeeps
<1>2. CASE \E f \in net : Handle(f)
  BY <1>2, HandleKeeps
<1>3. CASE \E f \in net : Lose(f)
  <2>1. UNCHANGED nat /\ net' \subseteq net
    BY <1>3 DEF Lose, Replace
  <2> QED
    BY <2>1, SameNat
<1>4. CASE UNCHANGED vars
  <2>1. UNCHANGED <<nat, net>>
    BY <1>4 DEF vars
  <2> QED
    BY <2>1, SameNat
<1> QED
  BY <1>1, <1>2, <1>3, <1>4 DEF Next

-----------------------------------------------------------------------------
(* The inductive invariant, over the registrations I and the history A.     *)

Known(a) == \E d \in Client : Behind(a, d)
Registered(I, id, a) == \E i \in 1..Len(I) : I[i].ID = id /\ I[i].public = a
Owns(I, d, id) == \E i \in 1..Len(I) : I[i].ID = id /\ Behind(I[i].public, d)
ZeroOrOwns(I, d, id) == id = 0 \/ Owns(I, d, id)

\* What a client says, or its NAT for it: requests go to the server alone, a ping
\* carries the client's own id, a pong answers a ping the client has accepted.
Sent(I, A, d, p) ==
  /\ p.code \in {0, 1} => p.dst = ServerAddr \/ (p.code = 0 /\ p.id = 0)
  /\ p.code = 2 /\ p.pl = Ping => ZeroOrOwns(I, d, p.id)
  /\ p.code = 2 /\ p.pl = Pong =>
       ZeroOrOwns(I, d, p.id) /\ \A e \in Client : Behind(p.dst, e) => <<d, e, p.id>> \in A

\* What the server says: an id goes to the address that was registered with it,
\* and an address that is told is the one registered with the id.
Answer(I, p) ==
  \/ p.code = 0 /\ Known(p.dst) /\ Registered(I, p.id, p.dst)
  \/ p.code = 1 /\ Known(p.dst) /\ Registered(I, p.id, p.pl.public)
  \/ p.code = 7

\* What a client receives.
Received(I, A, c, p) ==
  /\ p.dst.ip = LocalIp[c]
  /\ p.code = 0 => ZeroOrOwns(I, c, p.id)
  /\ p.code = 1 => Registered(I, p.id, p.pl.public)
  /\ p.code = 2 /\ p.pl = Ping =>
       p.id = 0 \/ \E d \in Client : Behind(p.src, d) /\ Owns(I, d, p.id)
  /\ p.code = 2 /\ p.pl = Pong =>
       \E d \in Client : ZeroOrOwns(I, d, p.id) /\ <<d, c, p.id>> \in A

OnTheWay(I, A, p) ==
  Answer(I, p) \/ \E d \in Client : Behind(p.src, d) /\ Sent(I, A, d, p)

FrameGood(I, A, f) ==
  /\ f.link = "up" => f.at \in Client /\ f.pkt.src.ip = LocalIp[f.at] /\ Sent(I, A, f.at, f.pkt)
  /\ f.link = "wan" => OnTheWay(I, A, f.pkt)
  /\ f.link = "down" => f.at \in Client /\ Received(I, A, f.at, f.pkt)

IsInfo(r) ==
  r = [ID |-> r.ID, local |-> r.local, public |-> r.public] /\ r.ID \in Id /\ Known(r.public)
InfoGood(I) == (\E S : I \in Seq(S)) /\ \A i \in 1..Len(I) : IsInfo(I[i])

IsClient(r) ==
  r = [my_port |-> r.my_port, my_ID |-> r.my_ID, peer_info |-> r.peer_info,
       peer_ID |-> r.peer_ID, connected |-> r.connected, kind |-> r.kind]

OwnId(I, c, r) == r.my_ID \in Id /\ ZeroOrOwns(I, c, r.my_ID)
PeerKnown(I, r) ==
  r.peer_info # None /\ r.peer_ID # 0 =>
    \E d \in Client : Owns(I, d, r.peer_ID) /\ Behind(r.peer_info.public, d)
Consented(I, A, c, id) ==
  id # 0 => \E d \in Client : Owns(I, d, id) /\ \E a \in A : {a[1], a[2]} = {c, d}
ClientGood(I, A, c, r) ==
  /\ IsClient(r) /\ OwnId(I, c, r) /\ PeerKnown(I, r)
  /\ r.connected = FALSE \/ Consented(I, A, c, r.peer_ID)

TablesLocal(machines) ==
  \A c \in Natted : \A k \in 1..Len(machines[c].table) : machines[c].table[k].ip = LocalIp[c]

PeerInv ==
  /\ ShapeInv
  /\ TablesLocal(nat)
  /\ InfoGood(information) /\ current_free_id \in Id
  /\ DOMAIN client = Client
  /\ \A c \in Client : ClientGood(information, accepted, c, client[c])
  /\ \A f \in net : FrameGood(information, accepted, f)

-----------------------------------------------------------------------------
\* Registrations stay, and so does what was accepted: everything the invariant
\* says of a frame or a client goes on to hold.
Stays(I, J) ==
  \A i \in 1..Len(I) : i \in 1..Len(J) /\ J[i].ID = I[i].ID /\ J[i].public = I[i].public

LEMMA OwnsStays ==
  ASSUME NEW I, NEW J, Stays(I, J), NEW d, NEW id
  PROVE  /\ Owns(I, d, id) => Owns(J, d, id)
         /\ ZeroOrOwns(I, d, id) => ZeroOrOwns(J, d, id)
         /\ Registered(I, id, d) => Registered(J, id, d)
BY DEF Stays, Owns, ZeroOrOwns, Registered

LEMMA FrameStays ==
  ASSUME NEW I, NEW J, Stays(I, J), NEW A, NEW B, A \subseteq B, NEW f, FrameGood(I, A, f)
  PROVE  FrameGood(J, B, f)
<1> DEFINE p == f.pkt
<1>1. ASSUME NEW d, Sent(I, A, d, p)  PROVE Sent(J, B, d, p)
  BY <1>1, OwnsStays DEF Sent
<1>2. ASSUME Answer(I, p)  PROVE Answer(J, p)
  BY <1>2, OwnsStays DEF Answer
<1>3. ASSUME Received(I, A, f.at, p)  PROVE Received(J, B, f.at, p)
  BY <1>3, OwnsStays DEF Received
<1>4. ASSUME OnTheWay(I, A, p)  PROVE OnTheWay(J, B, p)
  BY <1>1, <1>2, <1>4 DEF OnTheWay
<1> QED
  BY <1>1, <1>3, <1>4 DEF FrameGood

LEMMA ClientStays ==
  ASSUME NEW I, NEW J, Stays(I, J), NEW A, NEW B, A \subseteq B,
         NEW c, NEW r, ClientGood(I, A, c, r)
  PROVE  ClientGood(J, B, c, r)
<1>1. OwnId(J, c, r)
  BY OwnsStays DEF ClientGood, OwnId
<1>2. PeerKnown(J, r)
  BY OwnsStays DEF ClientGood, PeerKnown
<1>3. r.connected = FALSE \/ Consented(J, B, c, r.peer_ID)
  BY OwnsStays DEF ClientGood, Consented
<1> QED
  BY <1>1, <1>2, <1>3 DEF ClientGood

LEMMA StaysSame == \A I : Stays(I, I)
BY DEF Stays

\* An id of five bits is not cut when it is put in a packet.
LEMMA IdKept ==
  ASSUME NEW id \in Id
  PROVE  id % IdSpace = id
BY IdSpaceAssumption DEF Id

LEMMA ZeroKept == 0 % IdSpace = 0 /\ 0 \in Id
BY IdSpaceAssumption DEF Id

-----------------------------------------------------------------------------
\* Steps that make no registration: what is new under way is as it should be.
LEMMA NetStep ==
  ASSUME PeerInv, [Next]_vars, UNCHANGED <<nat, information, current_free_id, client>>,
         accepted' = accepted,
         \A f \in net' : f \in net \/ FrameGood(information, accepted, f)
  PROVE  PeerInv'
BY NextInv DEF PeerInv

\* The drop a NAT sends goes for a packet of its client.
LEMMA DropSent ==
  ASSUME NEW I, NEW A, NEW d, NEW src, NEW dst, NEW pl
  PROVE  Sent(I, A, d, Packet("DROP", src, dst, 0, pl))
BY ZeroKept DEF Sent, Packet, TypeCode

LEMMA DropReceived ==
  ASSUME NEW I, NEW A, NEW c, NEW src, NEW dst, dst.ip = LocalIp[c], NEW pl
  PROVE  Received(I, A, c, Packet("DROP", src, dst, 0, pl))
BY ZeroKept DEF Received, Packet, TypeCode, ZeroOrOwns

\* A packet that reaches the machine it is for, with its destination rewritten or
\* not, is what that client may receive.
LEMMA Delivered ==
  ASSUME NEW I, NEW A, NEW p, OnTheWay(I, A, p), NEW c \in Client, Behind(p.dst, c),
         NEW q, q.dst.ip = LocalIp[c],
         q.code = p.code, q.id = p.id, q.pl = p.pl, q.src = p.src
  PROVE  Received(I, A, c, q)
<1>1. p.dst # ServerAddr
  BY AddressAssumption
<1>2. CASE Answer(I, p)
  BY <1>2 DEF Answer, Received, Registered, Owns, ZeroOrOwns
<1>3. ASSUME NEW d \in Client, Behind(p.src, d), Sent(I, A, d, p)
      PROVE  Received(I, A, c, q)
  <2>1. p.code = 0 => p.id = 0
    BY <1>1, <1>3 DEF Sent
  <2>2. p.code # 1
    BY <1>1, <1>3 DEF Sent
  <2>3. p.code = 2 /\ p.pl = Ping => p.id = 0 \/ (Behind(p.src, d) /\ Owns(I, d, p.id))
    BY <1>3 DEF Sent, ZeroOrOwns
  <2>4. p.code = 2 /\ p.pl = Pong => ZeroOrOwns(I, d, p.id) /\ <<d, c, p.id>> \in A
    BY <1>3 DEF Sent
  <2> QED
    BY <2>1, <2>2, <2>3, <2>4 DEF Received, ZeroOrOwns
<1> QED
  BY <1>2, <1>3 DEF OnTheWay

\* The fields a NAT leaves alone.
LEMMA Rewritten ==
  ASSUME NEW p, IsPacket(p), NEW a
  PROVE  /\ LET q == [p EXCEPT !.src = a] IN
              q.code = p.code /\ q.id = p.id /\ q.pl = p.pl /\ q.dst = p.dst /\ q.src = a
         /\ LET q == [p EXCEPT !.dst = a] IN
              q.code = p.code /\ q.id = p.id /\ q.pl = p.pl /\ q.src = p.src /\ q.dst = a
<1> DEFINE q == [code |-> p.code, id |-> p.id, src |-> p.src, dst |-> p.dst, pl |-> p.pl]
<1>1. p = q
  BY DEF IsPacket
<1>2. /\ [q EXCEPT !.src = a]
           = [code |-> p.code, id |-> p.id, src |-> a, dst |-> p.dst, pl |-> p.pl]
      /\ [q EXCEPT !.dst = a]
           = [code |-> p.code, id |-> p.id, src |-> p.src, dst |-> a, pl |-> p.pl]
  OBVIOUS
<1> HIDE DEF q
<1> QED
  BY <1>1, <1>2

-----------------------------------------------------------------------------
\* find_in_table, and push_back when it finds nothing.
LEMMA TableFinds ==
  ASSUME NEW t, NEW x, \E S : t \in Seq(S)
  PROVE  LET u == IF InSeq(t, x) THEN t ELSE Append(t, x) IN
         /\ Index(u, x) \in 1..Len(u) /\ Len(u) \in Nat
         /\ \A i \in 1..Len(u) : u[i] = x \/ (i \in 1..Len(t) /\ u[i] = t[i])
<1> DEFINE u == IF InSeq(t, x) THEN t ELSE Append(t, x)
<1>1. PICK S : t \in Seq(S)
  OBVIOUS
<1> DEFINE T == S \cup {x}
<1>2. t \in Seq(T)
  <2>1. Len(t) \in Nat /\ t \in [1..Len(t) -> S]
    BY <1>1
  <2>2. t \in [1..Len(t) -> T]
    BY <2>1
  <2> QED
    BY <2>1, <2>2
<1>3. x \in T
  OBVIOUS
<1> HIDE DEF T
<1>4. /\ InSeq(u, x) /\ Len(u) \in Nat
      /\ \A i \in 1..Len(u) : u[i] = x \/ (i \in 1..Len(t) /\ u[i] = t[i])
  <2>1. CASE InSeq(t, x)
    BY <1>2, <2>1
  <2>2. CASE ~InSeq(t, x)
    <3>1. /\ u = Append(t, x) /\ Len(t) \in Nat /\ Len(Append(t, x)) = Len(t) + 1
          /\ Append(t, x)[Len(t) + 1] = x
          /\ \A i \in 1..Len(t) : Append(t, x)[i] = t[i]
      BY <1>2, <1>3, <2>2
    <3>2. Len(t) + 1 \in 1..Len(u) /\ u[Len(t) + 1] = x
      BY <3>1
    <3> HIDE DEF u
    <3>3. InSeq(u, x)
      BY <3>2 DEF InSeq
    <3>4. \A i \in 1..Len(u) : i = Len(t) + 1 \/ i \in 1..Len(t)
      BY <3>1
    <3> QED
      BY <3>1, <3>2, <3>3, <3>4
  <2> QED
    BY <2>1, <2>2
<1> HIDE DEF u
<1>5. Index(u, x) \in 1..Len(u)
  BY <1>4 DEF Index, InSeq
<1>6. /\ Index(u, x) \in 1..Len(u) /\ Len(u) \in Nat
      /\ \A i \in 1..Len(u) : u[i] = x \/ (i \in 1..Len(t) /\ u[i] = t[i])
  BY <1>4, <1>5
<1> QED
  BY <1>6 DEF u

\* Every address of a NAT is in its range: the mapped ones, and those it speaks from.
LEMMA OwnAddresses ==
  ASSUME NEW c \in Natted
  PROVE  /\ \A k \in 1..MaxMappings : Behind(PublicAddr(c, k), c)
         /\ \A port : Behind(NatAddr(c, port), c)
<1>1. NatIp[c] \in Nat /\ NatIp[c] + MaxMappings = NatIp[c] + 4
  BY AddressAssumption, NattedAssumption DEF MaxMappings
<1>2. ASSUME NEW k \in 1..MaxMappings
      PROVE  NatIp[c] + (k - 1) \div 3 + 1 \in NatRange(c)
  <2>1. k = 1 \/ k = 2 \/ k = 3 \/ k = 4
    BY DEF MaxMappings
  <2>2. (k - 1) \div 3 = 0 \/ (k - 1) \div 3 = 1
    BY <2>1
  <2> QED
    BY <1>1, <2>2 DEF NatRange
<1>3. NatIp[c] \in NatRange(c)
  BY <1>1 DEF NatRange
<1> QED
  BY <1>2, <1>3 DEF Behind, PublicAddr, NatAddr

-----------------------------------------------------------------------------
\* A frame by what is on it.
LEMMA FrameMade ==
  ASSUME NEW I, NEW A, NEW c \in Client, NEW p
  PROVE  /\ p.src.ip = LocalIp[c] /\ Sent(I, A, c, p) => FrameGood(I, A, Up(c, p))
         /\ OnTheWay(I, A, p) => FrameGood(I, A, Wan(p))
         /\ Received(I, A, c, p) => FrameGood(I, A, Down(c, p))
BY DEF FrameGood, Up, Wan, Down, On

\* Out of the NAT: the source becomes one of the NAT's addresses.
LEMMA PeerNatOut ==
  ASSUME PeerInv, [Next]_vars, NEW f \in net, NatOut(f)
  PROVE  PeerInv'
<1> DEFINE c == f.at
           p == f.pkt
           n == nat[c]
           table == IF InSeq(n.table, p.src) THEN n.table ELSE Append(n.table, p.src)
           k == Index(table, p.src)
           q == [p EXCEPT !.src = PublicAddr(c, k)]
<1>1. /\ c \in Natted /\ c \in Client /\ p.src.ip = LocalIp[c] /\ IsPacket(p)
      /\ Sent(information, accepted, c, p) /\ IsNat(n) /\ DOMAIN nat = Client
  BY NattedAssumption DEF NatOut, PeerInv, FrameGood, ShapeInv, NatInv
<1>2. UNCHANGED <<information, current_free_id, client, accepted>>
  BY DEF NatOut, server
<1>3. CASE p.src.port \in n.blocked
  <2> DEFINE d == Packet("DROP", NatAddr(c, 1234), p.src, 0, None)
  <2>1. net' = (net \ {f}) \cup {Down(c, d)} /\ UNCHANGED nat
    BY <1>3 DEF NatOut, Replace
  <2>2. Received(information, accepted, c, d)
    BY <1>1, DropReceived
  <2> HIDE DEF d
  <2>3. FrameGood(information, accepted, Down(c, d))
    BY <1>1, <2>2, FrameMade
  <2> QED
    BY <1>2, <2>1, <2>3, NetStep
<1>4. CASE p.src.port \notin n.blocked
  <2>1. nat' = Enter(nat, c, table, <<k, p.dst>>) /\ Len(table) <= MaxMappings
    BY <1>4 DEF NatOut, Enter
  <2>2. net' = (net \ {f}) \cup {Wan(q)}
    BY <1>4 DEF NatOut, Replace
  <2>3. /\ k \in 1..Len(table) /\ Len(table) \in Nat
        /\ \A i \in 1..Len(table) :
             table[i] = p.src \/ (i \in 1..Len(n.table) /\ table[i] = n.table[i])
    <3>1. \E S : n.table \in Seq(S)
      BY <1>1 DEF IsNat
    <3> HIDE DEF p, n
    <3> QED
      BY <3>1, TableFinds
  <2> HIDE DEF table
  <2> HIDE DEF k
  <2>4. k \in 1..MaxMappings
    BY <2>1, <2>3 DEF MaxMappings
  <2>5. q.code = p.code /\ q.id = p.id /\ q.pl = p.pl /\ q.dst = p.dst /\ q.src = PublicAddr(c, k)
    BY <1>1, Rewritten
  <2> HIDE DEF q
  <2>6. Sent(information, accepted, c, q) /\ Behind(q.src, c)
    BY <1>1, <2>4, <2>5, OwnAddresses DEF Sent
  <2>7. FrameGood(information, accepted, Wan(q))
    BY <1>1, <2>6, FrameMade DEF OnTheWay
  <2>8. nat'[c].table = table /\ \A d \in Client \ {c} : nat'[d] = nat[d]
    <3> DEFINE m == [table |-> table, sessions |-> n.sessions \cup {<<k, p.dst>>},
                     blocked |-> n.blocked]
    <3>1. nat'[c] = m /\ \A d \in Client \ {c} : nat'[d] = nat[d]
      BY <1>1, <2>1, EnterMapping
    <3> QED
      BY <3>1
  <2>9. TablesLocal(nat')
    <3>1. \A i \in 1..Len(table) : table[i].ip = LocalIp[c]
      BY <1>1, <2>3, SMTT(30) DEF PeerInv, TablesLocal
    <3>2. \A d \in Natted : d # c => nat'[d] = nat[d]
      BY <2>8, NattedAssumption
    <3> QED
      BY <2>8, <3>1, <3>2 DEF PeerInv, TablesLocal
  <2> QED
    BY <1>2, <2>2, <2>7, <2>9, NextInv DEF PeerInv
<1> QED
  BY <1>3, <1>4

\* In through the NAT: what comes through a hole is delivered, the rest refused.
LEMMA PeerNatIn ==
  ASSUME PeerInv, [Next]_vars, NEW f \in net, NatIn(f)
  PROVE  PeerInv'
<1> DEFINE p == f.pkt
           Forward(c, k) == [p EXCEPT !.dst = nat[c].table[k]]
           Refuse(c) == Packet("DROP", NatAddr(c, 4321), p.src, 0, None)
<1>1. /\ UNCHANGED <<nat, information, current_free_id, client, accepted>>
      /\ OnTheWay(information, accepted, p) /\ IsPacket(p)
  BY DEF NatIn, PeerInv, ShapeInv, FrameGood, server
<1>2. PICK c \in Natted :
        /\ Behind(p.dst, c)
        /\ LET hit == { k \in 1..Len(nat[c].table) : PublicAddr(c, k) = p.dst } IN
             \/ hit = {} /\ Replace(f, {})
             \/ \E k \in hit : IF <<k, p.src>> \in nat[c].sessions
                             THEN Replace(f, {Down(c, Forward(c, k))})
                             ELSE Replace(f, {Wan(Refuse(c))})
  BY ZenonT(60) DEF NatIn
<1>3. \/ net' = net \ {f}
      \/ net' = (net \ {f}) \cup {Wan(Refuse(c))}
      \/ \E k \in 1..Len(nat[c].table) : net' = (net \ {f}) \cup {Down(c, Forward(c, k))}
  <2> HIDE DEF Forward, Refuse
  <2> QED
    BY <1>2 DEF Replace
<1>4. c \in Client
  BY NattedAssumption
<1>5. CASE net' = net \ {f}
  BY <1>1, <1>5, NetStep
<1>6. CASE net' = (net \ {f}) \cup {Wan(Refuse(c))}
  <2>1. Sent(information, accepted, c, Refuse(c))
    BY DropSent
  <2>2. Behind(Refuse(c).src, c)
    BY PacketMade, OwnAddresses
  <2> HIDE DEF Refuse
  <2>3. FrameGood(information, accepted, Wan(Refuse(c)))
    BY <1>4, <2>1, <2>2, FrameMade DEF OnTheWay
  <2> QED
    BY <1>1, <1>6, <2>3, NetStep
<1>7. ASSUME NEW k \in 1..Len(nat[c].table), net' = (net \ {f}) \cup {Down(c, Forward(c, k))}
      PROVE  PeerInv'
  <2> DEFINE q == Forward(c, k)
  <2>1. q.code = p.code /\ q.id = p.id /\ q.pl = p.pl /\ q.src = p.src /\ q.dst = nat[c].table[k]
    BY <1>1, Rewritten
  <2>2. net' = (net \ {f}) \cup {Down(c, q)}
    BY <1>7
  <2> HIDE DEF q
  <2>3. q.dst.ip = LocalIp[c]
    BY <2>1 DEF PeerInv, TablesLocal
  <2>4. Received(information, accepted, c, q)
    BY <1>1, <1>2, <1>4, <2>1, <2>3, Delivered
  <2>5. FrameGood(information, accepted, Down(c, q))
    BY <1>4, <2>4, FrameMade
  <2> QED
    BY <1>1, <2>2, <2>5, NetStep
<1> HIDE DEF Forward, Refuse
<1> QED
  BY <1>3, <1>5, <1>6, <1>7

\* A client without a NAT is its own machine on the wide network.
LEMMA PeerDirect ==
  ASSUME PeerInv, [Next]_vars, NEW f \in net, DirectLink(f)
  PROVE  PeerInv'
<1> DEFINE p == f.pkt
<1>1. UNCHANGED <<nat, information, current_free_id, client, accepted>>
  BY DEF DirectLink, server
<1>2. CASE f.link = "up" /\ f.at \notin Natted /\ Replace(f, {Wan(p)})
  <2>1. f.at \in Client /\ Sent(information, accepted, f.at, p) /\ Behind(p.src, f.at)
    BY <1>2 DEF PeerInv, FrameGood, Behind
  <2>2. FrameGood(information, accepted, Wan(p))
    BY <2>1, FrameMade DEF OnTheWay
  <2> QED
    BY <1>1, <1>2, <2>2, NetStep DEF Replace
<1>3. ASSUME NEW c \in Client \ Natted, f.link = "wan", Behind(p.dst, c), Replace(f, {Down(c, p)})
      PROVE  PeerInv'
  <2>1. p.dst.ip = LocalIp[c]
    BY <1>3 DEF Behind
  <2>2. OnTheWay(information, accepted, p)
    BY <1>3 DEF PeerInv, FrameGood
  <2>3. Received(information, accepted, c, p)
    BY <1>3, <2>1, <2>2, Delivered
  <2>4. FrameGood(information, accepted, Down(c, p))
    BY <2>3, FrameMade
  <2> QED
    BY <1>1, <1>3, <2>4, NetStep DEF Replace
<1> QED
  BY <1>2, <1>3 DEF DirectLink

-----------------------------------------------------------------------------
\* What a handler of the server leaves behind.
Served ==
  /\ InfoGood(information') /\ current_free_id' \in Id /\ Stays(information, information')
  /\ reply' = None \/ Answer(information', reply')

\* A registration is the last of the list; the others stay where they are.
LEMMA Registers ==
  ASSUME NEW I, InfoGood(I), NEW r, IsInfo(r)
  PROVE  LET J == Append(I, r) IN
         InfoGood(J) /\ Stays(I, J) /\ Registered(J, r.ID, r.public)
<1> DEFINE J == Append(I, r)
<1>1. PICK S : I \in Seq(S)
  BY DEF InfoGood
<1> DEFINE T == S \cup {r}
<1>2. I \in Seq(T)
  <2>1. Len(I) \in Nat /\ I \in [1..Len(I) -> S]
    BY <1>1
  <2>2. I \in [1..Len(I) -> T]
    BY <2>1
  <2> QED
    BY <2>1, <2>2
<1>3. r \in T
  OBVIOUS
<1> HIDE DEF T
<1>4. /\ J \in Seq(T) /\ Len(I) \in Nat /\ Len(J) = Len(I) + 1 /\ J[Len(I) + 1] = r
      /\ \A i \in 1..Len(I) : J[i] = I[i]
  BY <1>2, <1>3
<1>5. Len(I) + 1 \in 1..Len(J) /\ \A i \in 1..Len(I) : i \in 1..Len(J)
  BY <1>4
<1>6. \A i \in 1..Len(J) : i = Len(I) + 1 \/ i \in 1..Len(I)
  BY <1>4
<1> HIDE DEF J
<1>7. InfoGood(J)
  <2>1. \A i \in 1..Len(J) : IsInfo(J[i])
    BY <1>4, <1>6 DEF InfoGood
  <2> QED
    BY <1>4, <2>1 DEF InfoGood
<1>8. Stays(I, J)
  BY <1>4, <1>5 DEF Stays
<1>9. Registered(J, r.ID, r.public)
  BY <1>4, <1>5 DEF Registered
<1> QED
  BY <1>7, <1>8, <1>9 DEF J

\* An update takes the place of the local address only.
LEMMA Updates ==
  ASSUME NEW I, InfoGood(I), NEW i \in 1..Len(I), NEW a
  PROVE  LET J == [I EXCEPT ![i].local = a] IN InfoGood(J) /\ Stays(I, J)
<1> DEFINE J == [I EXCEPT ![i].local = a]
           old == I[i]
           b == old.ID
           l == old.local
           u == old.public
           new == [ID |-> b, local |-> a, public |-> u]
<1>1. PICK S : I \in Seq(S)
  BY DEF InfoGood
<1>2. old = [ID |-> b, local |-> l, public |-> u] /\ b \in Id /\ Known(u)
  BY DEF InfoGood, IsInfo
<1>3. J = [I EXCEPT ![i] = [old EXCEPT !.local = a]]
  OBVIOUS
<1> HIDE DEF b, l, u
<1>4. [old EXCEPT !.local = a] = new
  BY <1>2
<1>5. new.ID = b /\ new.public = u /\ new.local = a /\ IsInfo(new)
  BY <1>2 DEF IsInfo
<1> HIDE DEF J, new, old
<1>6. J = [I EXCEPT ![i] = new]
  BY <1>3, <1>4
<1> DEFINE T == S \cup {new}
<1>7. /\ J \in Seq(T) /\ Len(J) = Len(I) /\ J[i] = new
      /\ \A j \in 1..Len(I) : j # i => J[j] = I[j]
  <2>1. Len(I) \in Nat /\ I \in [1..Len(I) -> S]
    BY <1>1
  <2>2. J \in [1..Len(I) -> T]
    BY <1>6, <2>1
  <2>3. DOMAIN J = 1..Len(I) /\ J \in Seq(T)
    BY <2>1, <2>2
  <2> HIDE DEF T
  <2>4. Len(J) = Len(I)
    BY <2>1, <2>3
  <2> QED
    BY <1>6, <2>1, <2>3, <2>4
<1> HIDE DEF T
<1>8. InfoGood(J)
  <2>1. \A j \in 1..Len(J) : IsInfo(J[j])
    BY <1>5, <1>7 DEF InfoGood
  <2> QED
    BY <1>7, <2>1 DEF InfoGood
<1>9. old.ID = new.ID /\ old.public = new.public
  BY <1>5 DEF b, u
<1>10. Stays(I, J)
  BY <1>7, <1>9 DEF Stays, old
<1> QED
  BY <1>8, <1>10 DEF J

\* rec_request_id: the address an id goes to is registered with it.
LEMMA ServesIdRequest ==
  ASSUME InfoGood(information), current_free_id \in Id, NEW src, Known(src), NEW local,
         Srv!RecRequestId(src, local)
  PROVE  Served
<1>1. CASE UNCHANGED <<information, current_free_id>> /\ reply' = None
  BY <1>1, StaysSame DEF Served
<1>2. CASE Srv!ByLocal(Srv!NToHS(local.ip)) = {}
  <2> DEFINE id == Srv!FreeId(current_free_id)
             r == [ID |-> id, local |-> local, public |-> src]
  <2>1. /\ id <= IdSpace - 1
        /\ information' = Append(information, r)
        /\ current_free_id' = Srv!NextId(id)
        /\ reply' = Srv!Packet("RESPONSE_ASSIGNING_ID", ServerAddr, src, id, None)
    BY <1>2 DEF Srv!RecRequestId, Srv!Send
  <2>2. id \in Id
    BY <2>1, IdSpaceAssumption DEF Srv!FreeId, Id
  <2> HIDE DEF id
  <2>3. current_free_id' \in Id
    <3>1. (id + 1) % IdSpace \in 0..(IdSpace - 1)
      BY <2>2, IdSpaceAssumption DEF Id
    <3> QED
      BY <2>1, <3>1 DEF Srv!NextId, Id
  <2>4. IsInfo(r) /\ r.ID = id /\ r.public = src
    BY <2>2 DEF IsInfo
  <2> HIDE DEF r
  <2>5. InfoGood(information') /\ Stays(information, information')
        /\ Registered(information', id, src)
    BY <2>1, <2>4, Registers
  <2>6. reply'.code = 0 /\ reply'.id = id /\ reply'.dst = src
    BY <2>1, <2>2, IdKept DEF Srv!Packet, Srv!TypeCode
  <2> QED
    BY <2>3, <2>5, <2>6 DEF Served, Answer
<1> QED
  BY <1>1, <1>2 DEF Srv!RecRequestId, Srv!Send

\* rec_ip_request: the address told is the one registered with the id.
LEMMA ServesIpRequest ==
  ASSUME InfoGood(information), current_free_id \in Id, NEW src, NEW id,
         Srv!RecIpRequest(src, id)
  PROVE  Served
<1>1. UNCHANGED <<information, current_free_id>>
  BY DEF Srv!RecIpRequest
<1>2. CASE reply' = None
  BY <1>1, <1>2, StaysSame DEF Served
<1>3. CASE reply' # None
  <2>1. PICK b \in 1..Len(information) :
          reply' = Srv!Packet("RESPONSE_GETTING_IP", ServerAddr, src, information[b].ID,
                     [local |-> information[b].local, public |-> information[b].public])
    BY <1>3 DEF Srv!RecIpRequest, Srv!Send
  <2>2. PICK a \in 1..Len(information) : information[a].public = src
    BY <1>3 DEF Srv!RecIpRequest, Srv!Send, Srv!ByPublic
  <2>3. information[b].ID \in Id /\ Known(src)
    BY <2>2 DEF InfoGood, IsInfo
  <2>4. /\ reply'.code = 1 /\ reply'.dst = src /\ reply'.id = information[b].ID
        /\ reply'.pl.public = information[b].public
    BY <2>1, <2>3, IdKept DEF Srv!Packet, Srv!TypeCode
  <2>5. Answer(information', reply')
    BY <1>1, <2>3, <2>4 DEF Answer, Registered
  <2> QED
    BY <1>1, <2>5, StaysSame DEF Served
<1> QED
  BY <1>2, <1>3

\* rec_update_request
LEMMA ServesUpdateRequest ==
  ASSUME InfoGood(information), current_free_id \in Id, NEW id, NEW local,
         Srv!RecUpdateRequest(id, local)
  PROVE  Served
<1>1. UNCHANGED current_free_id /\ reply' = None
  BY DEF Srv!RecUpdateRequest, Srv!Send
<1>2. \/ UNCHANGED information
      \/ \E i \in 1..Len(information) : information' = [information EXCEPT ![i].local = local]
  BY DEF Srv!RecUpdateRequest
<1>3. InfoGood(information') /\ Stays(information, information')
  BY <1>2, Updates, StaysSame
<1> QED
  BY <1>1, <1>3 DEF Served

\* receive_status
LEMMA ServesStatus ==
  ASSUME InfoGood(information), current_free_id \in Id, NEW src, NEW local,
         Srv!ReceiveStatus(src, local)
  PROVE  Served
<1>1. UNCHANGED <<information, current_free_id>>
  BY DEF Srv!ReceiveStatus
<1>2. reply'.code = 7
  BY DEF Srv!ReceiveStatus, Srv!Send, Srv!Packet, Srv!TypeCode
<1> QED
  BY <1>1, <1>2, StaysSame DEF Served, Answer

LEMMA PeerServer ==
  ASSUME PeerInv, [Next]_vars, NEW f \in net, ServerStep(f)
  PROVE  PeerInv'
<1> DEFINE p == f.pkt
<1>1. /\ UNCHANGED <<nat, client, accepted>>
      /\ Replace(f, IF reply' = None THEN {} ELSE {Wan(reply')})
      /\ p.dst = ServerAddr /\ OnTheWay(information, accepted, p)
  BY DEF ServerStep, PeerInv, FrameGood
<1>2. ServerDetect(p) = "REQUEST_ASSIGNING_ID" => Known(p.src)
  <2>1. p.code = 0 \/ ServerDetect(p) # "REQUEST_ASSIGNING_ID"
    BY DEF ServerDetect
  <2>2. p.code = 0 => ~Answer(information, p)
    BY <1>1, AddressAssumption DEF Answer, Known
  <2> QED
    BY <1>1, <2>1, <2>2 DEF OnTheWay, Known
<1>3. \/ ServerDetect(p) = "REQUEST_ASSIGNING_ID" /\ Srv!RecRequestId(p.src, p.pl)
      \/ Srv!RecIpRequest(p.src, p.id)
      \/ Srv!RecUpdateRequest(p.id, p.pl) \/ Srv!ReceiveStatus(p.src, p.pl)
      \/ reply' = None /\ UNCHANGED <<information, current_free_id>>
  BY DEF ServerStep, ServerDetect
<1> HIDE DEF p
<1>4. Served
  BY <1>2, <1>3, ServesIdRequest, ServesIpRequest, ServesUpdateRequest, ServesStatus, StaysSame
  DEF Served, PeerInv
<1>5. \A c \in Client : ClientGood(information', accepted', c, client'[c])
  BY <1>1, <1>4, ClientStays DEF Served, PeerInv
<1>6. \A g \in net : FrameGood(information', accepted', g)
  BY <1>1, <1>4, FrameStays DEF Served, PeerInv
<1>7. reply' # None => FrameGood(information', accepted', Wan(reply'))
  BY <1>4 DEF Served, FrameGood, OnTheWay, Wan, On
<1>8. \A g \in net' : FrameGood(information', accepted', g)
  BY <1>1, <1>6, <1>7 DEF Replace
<1> QED
  BY <1>1, <1>4, <1>5, <1>8, NextInv DEF PeerInv, Served

-----------------------------------------------------------------------------
\* What an assignment to a field of one client does to the clients.
Record(port, id, info, peer, connected, kind) ==
  [my_port |-> port, my_ID |-> id, peer_info |-> info,
   peer_ID |-> peer, connected |-> connected, kind |-> kind]

After(G, F, d, r) == DOMAIN G = DOMAIN F /\ G[d] = r /\ \A x \in DOMAIN F \ {d} : G[x] = F[x]

LEMMA RecordIsClient ==
  ASSUME NEW port, NEW id, NEW info, NEW peer, NEW conn, NEW kind
  PROVE  LET r == Record(port, id, info, peer, conn, kind) IN
         /\ IsClient(r) /\ r.my_ID = id /\ r.peer_info = info /\ r.peer_ID = peer
         /\ r.connected = conn
BY DEF Record, IsClient

LEMMA FieldsSet ==
  ASSUME NEW F, NEW d \in DOMAIN F, NEW v,
         NEW port, NEW id, NEW info, NEW peer, NEW conn, NEW kind,
         F[d] = Record(port, id, info, peer, conn, kind)
  PROVE  /\ After([F EXCEPT ![d].my_port = v], F, d, Record(v, id, info, peer, conn, kind))
         /\ After([F EXCEPT ![d].my_ID = v], F, d, Record(port, v, info, peer, conn, kind))
         /\ After([F EXCEPT ![d].peer_info = v], F, d, Record(port, id, v, peer, conn, kind))
         /\ After([F EXCEPT ![d].peer_ID = v], F, d, Record(port, id, info, v, conn, kind))
         /\ After([F EXCEPT ![d].connected = v], F, d, Record(port, id, info, peer, v, kind))
         /\ After([F EXCEPT ![d].kind = v], F, d, Record(port, id, info, peer, conn, v))
<1> DEFINE r == Record(port, id, info, peer, conn, kind)
<1>1. /\ [r EXCEPT !.my_port = v] = Record(v, id, info, peer, conn, kind)
      /\ [r EXCEPT !.my_ID = v] = Record(port, v, info, peer, conn, kind)
      /\ [r EXCEPT !.peer_info = v] = Record(port, id, v, peer, conn, kind)
      /\ [r EXCEPT !.peer_ID = v] = Record(port, id, info, v, conn, kind)
      /\ [r EXCEPT !.connected = v] = Record(port, id, info, peer, v, kind)
      /\ [r EXCEPT !.kind = v] = Record(port, id, info, peer, conn, v)
  BY DEF Record
<1> HIDE DEF r
<1>2. F[d] = r
  BY DEF r
<1>3. \A s : After([F EXCEPT ![d] = s], F, d, s)
  BY DEF After
<1> QED
  BY <1>1, <1>2, <1>3

LEMMA FieldSet ==
  ASSUME NEW F, NEW d \in DOMAIN F, NEW v,
         F[d] = Record(F[d].my_port, F[d].my_ID, F[d].peer_info, F[d].peer_ID,
                       F[d].connected, F[d].kind)
  PROVE  /\ After([F EXCEPT ![d].my_port = v], F, d,
                  Record(v, F[d].my_ID, F[d].peer_info, F[d].peer_ID, F[d].connected, F[d].kind))
         /\ After([F EXCEPT ![d].kind = v], F, d,
                  Record(F[d].my_port, F[d].my_ID, F[d].peer_info, F[d].peer_ID,
                         F[d].connected, v))
<1> DEFINE o == F[d]
<1> HIDE DEF o
<1>1. \E port, id, info, peer, conn, kind :
        /\ port = o.my_port /\ id = o.my_ID /\ info = o.peer_info /\ peer = o.peer_ID
        /\ conn = o.connected /\ kind = o.kind
  OBVIOUS
<1>2. PICK port, id, info, peer, conn, kind :
        /\ port = o.my_port /\ id = o.my_ID /\ info = o.peer_info /\ peer = o.peer_ID
        /\ conn = o.connected /\ kind = o.kind
  BY <1>1
<1>3. F[d] = Record(port, id, info, peer, conn, kind)
  BY <1>2 DEF o
<1>4. /\ After([F EXCEPT ![d].my_port = v], F, d, Record(v, id, info, peer, conn, kind))
      /\ After([F EXCEPT ![d].kind = v], F, d, Record(port, id, info, peer, conn, v))
  BY <1>3, FieldsSet
<1> QED
  BY <1>2, <1>4 DEF o

LEMMA AfterAfter ==
  ASSUME NEW F, NEW G, NEW H, NEW d, NEW r, NEW s, After(G, F, d, r), After(H, G, d, s)
  PROVE  After(H, F, d, s)
BY DEF After

\* A step of client c: what it now knows and what it sends are as they should be.
LEMMA ClientStep ==
  ASSUME PeerInv, [Next]_vars, UNCHANGED <<nat, information, current_free_id>>,
         accepted \subseteq accepted',
         NEW c \in Client, NEW r, After(client', client, c, r),
         ClientGood(information, accepted', c, r),
         \A g \in net' : g \in net \/ FrameGood(information, accepted', g)
  PROVE  PeerInv'
<1>1. DOMAIN client' = Client /\ \A d \in Client \ {c} : client'[d] = client[d]
  BY DEF After, PeerInv
<1>2. \A d \in Client : ClientGood(information, accepted', d, client'[d])
  BY <1>1, StaysSame, ClientStays DEF After, PeerInv
<1>3. \A g \in net' : FrameGood(information, accepted', g)
  BY StaysSame, FrameStays DEF PeerInv
<1> QED
  BY <1>1, <1>2, <1>3, NextInv DEF PeerInv

\* What detect_data_type goes by.
LEMMA Detected ==
  ASSUME NEW p
  PROVE  /\ ClientDetect(p) = "RESPONSE_ASSIGNING_ID" => p.code = 0
         /\ ClientDetect(p) = "RESPONSE_GETTING_IP" => p.code = 1
         /\ ClientDetect(p) = "REQUEST_LOCAL_SESSION" => p.code = 2 /\ p.pl = Ping
         /\ ClientDetect(p) = "RESPONSE_LOCAL_SESSION" => p.code = 2 /\ p.pl = Pong
BY DEF ClientDetect

\* What a handler has to go on.
LEMMA Arrived ==
  ASSUME PeerInv, NEW f \in net, NEW type, Arrives(f, type)
  PROVE  /\ f.at \in Client /\ f.at \in DOMAIN client
         /\ Received(information, accepted, f.at, f.pkt) /\ ClientDetect(f.pkt) = type
         /\ ClientGood(information, accepted, f.at, client[f.at])
BY DEF PeerInv, FrameGood, Arrives

LEMMA ClientRecord ==
  ASSUME NEW r, IsClient(r)
  PROVE  r = Record(r.my_port, r.my_ID, r.peer_info, r.peer_ID, r.connected, r.kind)
BY DEF IsClient, Record

\* A registered address is the address of a client.
LEMMA RegisteredKnown ==
  ASSUME NEW I, InfoGood(I), NEW id, NEW a, Registered(I, id, a)
  PROVE  id \in Id /\ \E d \in Client : Owns(I, d, id) /\ Behind(a, d)
BY DEF InfoGood, Registered, IsInfo, Known, Owns

LEMMA OwnsId ==
  ASSUME NEW I, InfoGood(I), NEW id, NEW d, ZeroOrOwns(I, d, id)
  PROVE  id \in Id
BY ZeroKept DEF InfoGood, IsInfo, Owns, ZeroOrOwns

LEMMA PeerResponseId ==
  ASSUME PeerInv, [Next]_vars, NEW f \in net, ResponseId(f)
  PROVE  PeerInv'
<1> DEFINE c == f.at
           o == client[c]
           r == Record(o.my_port, f.pkt.id, o.peer_info, o.peer_ID, o.connected, o.kind)
<1>1. /\ c \in Client /\ c \in DOMAIN client
      /\ Received(information, accepted, c, f.pkt) /\ f.pkt.code = 0
      /\ ClientGood(information, accepted, c, o)
  BY Arrived, Detected DEF ResponseId
<1>2. /\ UNCHANGED <<nat, information, current_free_id, accepted>> /\ net' = net \ {f}
      /\ client' = [client EXCEPT ![c].my_ID = f.pkt.id]
  BY DEF ResponseId, server, Replace
<1>3. client[c] = Record(o.my_port, o.my_ID, o.peer_info, o.peer_ID, o.connected, o.kind)
  BY <1>1, ClientRecord DEF ClientGood
<1>4. After(client', client, c, r)
  <2> DEFINE v == f.pkt.id
  <2> HIDE DEF o, v
  <2>1. After([client EXCEPT ![c].my_ID = v], client, c,
              Record(o.my_port, v, o.peer_info, o.peer_ID, o.connected, o.kind))
    BY <1>1, <1>3, FieldsSet
  <2> QED
    BY <1>2, <2>1 DEF v
<1>5. /\ IsClient(r) /\ r.my_ID = f.pkt.id /\ r.peer_info = o.peer_info /\ r.peer_ID = o.peer_ID
      /\ r.connected = o.connected
  BY RecordIsClient
<1>6. OwnId(information, c, r)
  <2>1. ZeroOrOwns(information, c, f.pkt.id)
    BY <1>1 DEF Received
  <2> QED
    BY <1>5, <2>1, OwnsId DEF OwnId, PeerInv
<1> HIDE DEF r
<1>7. ClientGood(information, accepted', c, r)
  BY <1>1, <1>2, <1>5, <1>6 DEF ClientGood, PeerKnown
<1> QED
  BY <1>1, <1>2, <1>4, <1>7, ClientStep

LEMMA PeerResponseIp ==
  ASSUME PeerInv, [Next]_vars, NEW f \in net, ResponseIp(f)
  PROVE  PeerInv'
<1> DEFINE c == f.at
           p == f.pkt
           o == client[c]
           no == FALSE
           r == Record(o.my_port, o.my_ID, p.pl, p.id, no, o.kind)
           F1 == [client EXCEPT ![c].peer_info = p.pl]
           F2 == [F1 EXCEPT ![c].peer_ID = p.id]
           F3 == [F2 EXCEPT ![c].connected = no]
<1>1. /\ c \in Client /\ c \in DOMAIN client
      /\ Received(information, accepted, c, p) /\ p.code = 1
      /\ ClientGood(information, accepted, c, o)
  BY Arrived, Detected DEF ResponseIp
<1>2. /\ UNCHANGED <<nat, information, current_free_id, accepted>> /\ net' = net \ {f}
      /\ client' = F3
  BY DEF ResponseIp, server, Replace
<1>3. client[c] = Record(o.my_port, o.my_ID, o.peer_info, o.peer_ID, o.connected, o.kind)
  BY <1>1, ClientRecord DEF ClientGood
<1>4. After(client', client, c, r)
  <2> HIDE DEF o, p, no
  <2> DEFINE R1 == Record(o.my_port, o.my_ID, p.pl, o.peer_ID, o.connected, o.kind)
             R2 == Record(o.my_port, o.my_ID, p.pl, p.id, o.connected, o.kind)
  <2>1. After(F1, client, c, R1)
    BY <1>1, <1>3, FieldsSet
  <2> HIDE DEF F1
  <2>2. c \in DOMAIN F1 /\ F1[c] = R1
    BY <1>1, <2>1 DEF After
  <2>3. After(F2, F1, c, R2)
    BY <2>2, FieldsSet
  <2> HIDE DEF F2
  <2>4. c \in DOMAIN F2 /\ F2[c] = R2
    BY <2>2, <2>3 DEF After
  <2>5. After(F3, F2, c, r)
    BY <2>4, FieldsSet
  <2> HIDE DEF F3, r, R1, R2
  <2>6. After(F3, client, c, r)
    BY <2>1, <2>3, <2>5, AfterAfter
  <2> QED
    BY <1>2, <2>6
<1>5. /\ IsClient(r) /\ r.my_ID = o.my_ID /\ r.peer_info = p.pl /\ r.peer_ID = p.id
      /\ r.connected = FALSE
  <2> HIDE DEF o, p, no
  <2>1. /\ IsClient(r) /\ r.my_ID = o.my_ID /\ r.peer_info = p.pl /\ r.peer_ID = p.id
        /\ r.connected = no
    BY RecordIsClient
  <2> HIDE DEF r
  <2> QED
    BY <2>1 DEF no
<1> HIDE DEF r
<1>6. PeerKnown(information, r)
  <2>1. Registered(information, p.id, p.pl.public)
    BY <1>1 DEF Received
  <2> QED
    BY <1>5, <2>1, RegisteredKnown DEF PeerKnown, PeerInv
<1>7. ClientGood(information, accepted', c, r)
  BY <1>1, <1>5, <1>6 DEF ClientGood, OwnId
<1> HIDE DEF F3
<1> QED
  BY <1>1, <1>2, <1>4, <1>7, ClientStep

LEMMA PeerResponseSession ==
  ASSUME PeerInv, [Next]_vars, NEW f \in net, ResponseSession(f)
  PROVE  PeerInv'
<1> DEFINE c == f.at
           p == f.pkt
           o == client[c]
           yes == TRUE
           r == Record(o.my_port, o.my_ID, o.peer_info, o.peer_ID, yes, o.kind)
<1>1. /\ c \in Client /\ c \in DOMAIN client
      /\ Received(information, accepted, c, p) /\ p.code = 2 /\ p.pl = Pong
      /\ ClientGood(information, accepted, c, o)
  BY Arrived, Detected DEF ResponseSession
<1>2. /\ UNCHANGED <<nat, information, current_free_id, accepted>> /\ net' = net \ {f}
      /\ \/ p.id # o.peer_ID /\ UNCHANGED client
         \/ p.id = o.peer_ID /\ client' = [client EXCEPT ![c].connected = yes]
  BY DEF ResponseSession, server, Replace
<1>3. CASE UNCHANGED client
  BY <1>2, <1>3, NetStep
<1>4. CASE p.id = o.peer_ID /\ client' = [client EXCEPT ![c].connected = yes]
  <2>1. client[c] = Record(o.my_port, o.my_ID, o.peer_info, o.peer_ID, o.connected, o.kind)
    BY <1>1, ClientRecord DEF ClientGood
  <2>2. After(client', client, c, r)
    <3> HIDE DEF o, yes
    <3>1. After([client EXCEPT ![c].connected = yes], client, c, r)
      BY <1>1, <2>1, FieldsSet
    <3> HIDE DEF r
    <3> QED
      BY <1>4, <3>1
  <2>3. IsClient(r) /\ r.my_ID = o.my_ID /\ r.peer_info = o.peer_info /\ r.peer_ID = o.peer_ID
    <3> HIDE DEF o, yes
    <3> QED
      BY RecordIsClient
  <2> HIDE DEF r
  <2>4. Consented(information, accepted, c, r.peer_ID)
    <3>1. PICK d \in Client : ZeroOrOwns(information, d, p.id) /\ <<d, c, p.id>> \in accepted
      BY <1>1 DEF Received
    <3> DEFINE a == <<d, c, p.id>>
    <3>2. {a[1], a[2]} = {c, d}
      OBVIOUS
    <3>3. \E x \in accepted : {x[1], x[2]} = {c, d}
      BY <3>1, <3>2
    <3> QED
      BY <1>4, <2>3, <3>1, <3>3 DEF Consented, ZeroOrOwns
  <2>5. ClientGood(information, accepted', c, r)
    BY <1>1, <1>2, <2>3, <2>4 DEF ClientGood, OwnId, PeerKnown
  <2> QED
    BY <1>1, <1>2, <2>2, <2>5, ClientStep
<1> HIDE DEF yes
<1> QED
  BY <1>2, <1>3, <1>4

\* What a client sends, by the kind of packet.
LEMMA RequestSent ==
  ASSUME NEW I, NEW A, NEW c, NEW src, NEW id, NEW pl,
         NEW type \in {"REQUEST_ASSIGNING_ID", "REQUEST_GETTING_IP"}
  PROVE  Sent(I, A, c, Packet(type, src, ServerAddr, id, pl))
<1> DEFINE p == Packet(type, src, ServerAddr, id, pl)
<1>1. p.code \in {0, 1} /\ p.dst = ServerAddr
  BY DEF Packet, TypeCode
<1> HIDE DEF p
<1>2. Sent(I, A, c, p)
  BY <1>1 DEF Sent
<1> QED
  BY <1>2 DEF p

LEMMA OtherSent ==
  ASSUME NEW I, NEW A, NEW c, NEW src, NEW dst, NEW id, NEW pl,
         NEW type \in {"MESSAGE", "REQUEST_UPDATING_INFO", "STATUS"}
  PROVE  Sent(I, A, c, Packet(type, src, dst, id, pl))
<1> DEFINE p == Packet(type, src, dst, id, pl)
<1>1. p.code \in {3, 5, 6}
  BY DEF Packet, TypeCode
<1> HIDE DEF p
<1>2. Sent(I, A, c, p)
  BY <1>1 DEF Sent
<1> QED
  BY <1>2 DEF p

LEMMA PingSent ==
  ASSUME NEW I, NEW A, NEW c, NEW r, OwnId(I, c, r), NEW src, NEW dst,
         NEW type \in {"REQUEST_LOCAL_SESSION", "REQUEST_PUBLIC_SESSION"}
  PROVE  Sent(I, A, c, Packet(type, src, dst, r.my_ID, Ping))
<1> DEFINE p == Packet(type, src, dst, r.my_ID, Ping)
<1>1. p.code = 2 /\ p.pl = Ping /\ p.id = r.my_ID
  BY IdKept DEF Packet, TypeCode, OwnId
<1> HIDE DEF p
<1>2. Sent(I, A, c, p)
  BY <1>1, PayloadAssumption DEF Sent, OwnId
<1> QED
  BY <1>2 DEF p

LEMMA PongSent ==
  ASSUME NEW I, NEW A, NEW c, NEW r, OwnId(I, c, r), NEW src, NEW dst,
         \A e \in Client : Behind(dst, e) => <<c, e, r.my_ID>> \in A
  PROVE  Sent(I, A, c, Packet("RESPONSE_LOCAL_SESSION", src, dst, r.my_ID, Pong))
<1> DEFINE p == Packet("RESPONSE_LOCAL_SESSION", src, dst, r.my_ID, Pong)
<1>1. p.code = 2 /\ p.pl = Pong /\ p.id = r.my_ID /\ p.dst = dst
  BY IdKept DEF Packet, TypeCode, OwnId
<1> HIDE DEF p
<1>2. Sent(I, A, c, p)
  BY <1>1, PayloadAssumption DEF Sent, OwnId
<1> QED
  BY <1>2 DEF p

\* The packet goes up with an address of the client itself.
LEMMA UpGood ==
  ASSUME NEW I, NEW A, NEW c \in Client, NEW type, NEW src, src.ip = LocalIp[c],
         NEW dst, NEW id, NEW pl, Sent(I, A, c, Packet(type, src, dst, id, pl))
  PROVE  FrameGood(I, A, Up(c, Packet(type, src, dst, id, pl)))
BY PacketMade, FrameMade

LEMMA LocalIsLocal ==
  ASSUME NEW c, NEW port
  PROVE  Local(c, port).ip = LocalIp[c] /\ Me(c).ip = LocalIp[c]
BY DEF Local, Me

LEMMA IdRequestGood ==
  ASSUME NEW I, NEW A, NEW c \in Client, NEW id, NEW port, NEW g \in IdRequest(c, id, port)
  PROVE  FrameGood(I, A, g)
<1>1. g = Up(c, Packet("REQUEST_ASSIGNING_ID", Local(c, port), ServerAddr, 0, Local(c, port)))
  BY DEF IdRequest
<1> QED
  BY <1>1, RequestSent, LocalIsLocal, UpGood

\* Neither the port nor the kind of session says anything about a peer.
LEMMA PortOrKind ==
  ASSUME PeerInv, NEW c \in Client, NEW v,
         \/ client' = [client EXCEPT ![c].my_port = v]
         \/ client' = [client EXCEPT ![c].kind = v]
  PROVE  \E r : After(client', client, c, r) /\ ClientGood(information, accepted, c, r)
<1> DEFINE o == client[c]
<1>1. c \in DOMAIN client /\ ClientGood(information, accepted, c, o)
  BY DEF PeerInv
<1>2. client[c] = Record(o.my_port, o.my_ID, o.peer_info, o.peer_ID, o.connected, o.kind)
  BY <1>1, ClientRecord DEF ClientGood
<1>3. ASSUME NEW port, NEW kind
      PROVE  ClientGood(information, accepted, c,
                        Record(port, o.my_ID, o.peer_info, o.peer_ID, o.connected, kind))
  <2> DEFINE r == Record(port, o.my_ID, o.peer_info, o.peer_ID, o.connected, kind)
  <2> HIDE DEF o
  <2>1. /\ IsClient(r) /\ r.my_ID = o.my_ID /\ r.peer_info = o.peer_info
        /\ r.peer_ID = o.peer_ID /\ r.connected = o.connected
    BY RecordIsClient
  <2> HIDE DEF r
  <2>2. ClientGood(information, accepted, c, r)
    BY <1>1, <2>1 DEF ClientGood, OwnId, PeerKnown
  <2> QED
    BY <2>2 DEF r
<1> HIDE DEF o
<1>4. CASE client' = [client EXCEPT ![c].my_port = v]
  <2>1. After([client EXCEPT ![c].my_port = v], client, c,
              Record(v, o.my_ID, o.peer_info, o.peer_ID, o.connected, o.kind))
    BY <1>1, <1>2, FieldSet DEF o
  <2> QED
    BY <1>3, <1>4, <2>1
<1>5. CASE client' = [client EXCEPT ![c].kind = v]
  <2>1. After([client EXCEPT ![c].kind = v], client, c,
              Record(o.my_port, o.my_ID, o.peer_info, o.peer_ID, o.connected, v))
    BY <1>1, <1>2, FieldSet DEF o
  <2> QED
    BY <1>3, <1>5, <2>1
<1> QED
  BY <1>4, <1>5

LEMMA PeerDrop ==
  ASSUME PeerInv, [Next]_vars, NEW f \in net, ReceiveDrop(f)
  PROVE  PeerInv'
<1> DEFINE c == f.at
           port == (client[c].my_port + 100) % 65536
           i == client[c].my_ID
<1>1. c \in Client /\ UNCHANGED <<nat, information, current_free_id, accepted>>
  BY Arrived DEF ReceiveDrop, server
<1>2. \/ net' = net \ {f} /\ UNCHANGED client
      \/ net' = (net \ {f}) \cup IdRequest(c, i, port) /\ client' = [client EXCEPT ![c].my_port = port]
  BY DEF ReceiveDrop, Replace
<1>3. CASE net' = net \ {f} /\ UNCHANGED client
  BY <1>1, <1>3, NetStep
<1> HIDE DEF port, i
<1>4. CASE /\ net' = (net \ {f}) \cup IdRequest(c, i, port)
           /\ client' = [client EXCEPT ![c].my_port = port]
  <2>1. PICK r : After(client', client, c, r) /\ ClientGood(information, accepted, c, r)
    BY <1>1, <1>4, PortOrKind
  <2>2. \A g \in IdRequest(c, i, port) : FrameGood(information, accepted, g)
    BY <1>1, IdRequestGood
  <2>3. \A g \in net' : g \in net \/ FrameGood(information, accepted', g)
    BY <1>1, <1>4, <2>2
  <2> QED
    BY <1>1, <2>1, <2>3, ClientStep
<1> QED
  BY <1>2, <1>3, <1>4

\* request_session: the ping's id and source become the peer, and a pong carries
\* the client's own id back to that source.
LEMMA PeerRequestSession ==
  ASSUME PeerInv, [Next]_vars, NEW f \in net, RequestSession(f)
  PROVE  PeerInv'
<1> DEFINE c == f.at
           p == f.pkt
           o == client[c]
           yes == TRUE
           own == "REQUEST_LOCAL_SESSION"
           info == [local |-> p.src, public |-> p.src]
           r == Record(o.my_port, o.my_ID, info, p.id, yes, own)
           q == Packet("RESPONSE_LOCAL_SESSION", p.dst, p.src, o.my_ID, Pong)
           F1 == [client EXCEPT ![c].peer_ID = p.id]
           F2 == [F1 EXCEPT ![c].connected = yes]
           F3 == [F2 EXCEPT ![c].kind = own]
           F4 == [F3 EXCEPT ![c].peer_info = info]
<1>1. /\ c \in Client /\ c \in DOMAIN client
      /\ Received(information, accepted, c, p) /\ p.code = 2 /\ p.pl = Ping
      /\ ClientGood(information, accepted, c, o)
  BY Arrived, Detected DEF RequestSession
<1>2. UNCHANGED <<nat, information, current_free_id>>
  BY DEF RequestSession, server
<1>3. \/ net' = net \ {f} /\ UNCHANGED <<client, accepted>>
      \/ /\ client' = F4
         /\ net' = (net \ {f}) \cup {Up(c, q)}
         /\ accepted' = accepted \cup
              { <<c, d, o.my_ID>> : d \in { d \in Client : Behind(p.src, d) } }
  BY DEF RequestSession, Replace
<1>4. CASE net' = net \ {f} /\ UNCHANGED <<client, accepted>>
  BY <1>2, <1>4, NetStep
<1>5. CASE /\ client' = F4
           /\ net' = (net \ {f}) \cup {Up(c, q)}
           /\ accepted' = accepted \cup
                { <<c, d, o.my_ID>> : d \in { d \in Client : Behind(p.src, d) } }
  <2>1. /\ accepted \subseteq accepted'
        /\ \A d \in Client : Behind(p.src, d) => <<c, d, o.my_ID>> \in accepted'
    BY <1>5
  <2>2. ClientGood(information, accepted', c, o)
    BY <1>1, <2>1, StaysSame, ClientStays
  <2>3. p.id = 0 \/ \E d \in Client : Behind(p.src, d) /\ Owns(information, d, p.id)
    BY <1>1 DEF Received
  <2>4. client[c] = Record(o.my_port, o.my_ID, o.peer_info, o.peer_ID, o.connected, o.kind)
    BY <1>1, ClientRecord DEF ClientGood
  <2>5. After(client', client, c, r)
    <3> HIDE DEF o, p, yes, own, info
    <3> DEFINE R1 == Record(o.my_port, o.my_ID, o.peer_info, p.id, o.connected, o.kind)
               R2 == Record(o.my_port, o.my_ID, o.peer_info, p.id, yes, o.kind)
               R3 == Record(o.my_port, o.my_ID, o.peer_info, p.id, yes, own)
    <3>1. After(F1, client, c, R1)
      BY <1>1, <2>4, FieldsSet
    <3> HIDE DEF F1
    <3>2. c \in DOMAIN F1 /\ F1[c] = R1
      BY <1>1, <3>1 DEF After
    <3>3. After(F2, F1, c, R2)
      BY <3>2, FieldsSet
    <3> HIDE DEF F2
    <3>4. c \in DOMAIN F2 /\ F2[c] = R2
      BY <3>2, <3>3 DEF After
    <3>5. After(F3, F2, c, R3)
      BY <3>4, FieldsSet
    <3> HIDE DEF F3
    <3>6. c \in DOMAIN F3 /\ F3[c] = R3
      BY <3>4, <3>5 DEF After
    <3>7. After(F4, F3, c, r)
      BY <3>6, FieldsSet
    <3> HIDE DEF F4, r, R1, R2, R3
    <3>8. After(F2, client, c, R2)
      BY <3>1, <3>3, AfterAfter
    <3>9. After(F3, client, c, R3)
      BY <3>5, <3>8, AfterAfter
    <3>10. After(F4, client, c, r)
      BY <3>7, <3>9, AfterAfter
    <3> QED
      BY <1>5, <3>10
  <2>6. IsClient(r) /\ r.my_ID = o.my_ID /\ r.peer_info = info /\ r.peer_ID = p.id
    <3> HIDE DEF o, p, yes, own, info
    <3> QED
      BY RecordIsClient
  <2>7. info.public = p.src
    OBVIOUS
  <2> HIDE DEF r, info, F4
  <2>8. PeerKnown(information, r)
    BY <2>3, <2>6, <2>7 DEF PeerKnown
  <2>9. Consented(information, accepted', c, r.peer_ID)
    <3> SUFFICES ASSUME p.id # 0
                 PROVE  \E d \in Client : /\ Owns(information, d, p.id)
                                          /\ \E a \in accepted' : {a[1], a[2]} = {c, d}
      BY <2>6 DEF Consented
    <3>1. PICK d \in Client : Behind(p.src, d) /\ Owns(information, d, p.id)
      BY <2>3
    <3> DEFINE a == <<c, d, o.my_ID>>
    <3>2. a \in accepted' /\ {a[1], a[2]} = {c, d}
      BY <2>1, <3>1
    <3> HIDE DEF a
    <3> QED
      BY <3>1, <3>2
  <2>10. ClientGood(information, accepted', c, r)
    BY <2>2, <2>6, <2>8, <2>9 DEF ClientGood, OwnId
  <2>11. FrameGood(information, accepted', Up(c, q))
    <3>1. Sent(information, accepted', c, q)
      BY <2>1, <2>2, PongSent DEF ClientGood
    <3>2. p.dst.ip = LocalIp[c]
      BY <1>1 DEF Received
    <3> QED
      BY <1>1, <3>1, <3>2, UpGood
  <2>12. \A g \in net' : g \in net \/ FrameGood(information, accepted', g)
    BY <1>5, <2>11
  <2> QED
    BY <1>1, <1>2, <2>1, <2>5, <2>10, <2>12, ClientStep
<1> HIDE DEF F4, q
<1> QED
  BY <1>3, <1>4, <1>5

-----------------------------------------------------------------------------
\* Whatever reaches a machine keeps the invariant.
LEMMA PeerHandle ==
  ASSUME PeerInv, [Next]_vars, NEW f \in net, Handle(f)
  PROVE  PeerInv'
<1>1. CASE NoRoute(f) \/ ReceiveToPrint(f)
  <2>1. /\ UNCHANGED <<nat, information, current_free_id, client, accepted>>
        /\ net' = net \ {f}
    BY <1>1 DEF NoRoute, ReceiveToPrint, Replace, server
  <2> QED
    BY <2>1, NetStep
<1> QED
  BY <1>1, PeerNatOut, PeerNatIn, PeerDirect, PeerServer, PeerResponseId, PeerDrop,
     PeerResponseIp, PeerRequestSession, PeerResponseSession
  DEF Handle

\* So does every command.
LEMMA PeerCommand ==
  ASSUME PeerInv, [Next]_vars, NEW c \in Client, Command(c)
  PROVE  PeerInv'
<1>1. OwnId(information, c, client[c]) /\ Me(c).ip = LocalIp[c]
  BY LocalIsLocal DEF PeerInv, ClientGood
<1>2. CASE MakeConnection(c)
  <2>1. /\ UNCHANGED <<nat, information, current_free_id, accepted>>
        /\ client' = [client EXCEPT ![c].my_port = FirstPort]
        /\ net' = net \cup IdRequest(c, 0, FirstPort)
    BY <1>2 DEF MakeConnection, server
  <2>2. PICK r : After(client', client, c, r) /\ ClientGood(information, accepted, c, r)
    BY <2>1, PortOrKind
  <2>3. \A g \in net' : g \in net \/ FrameGood(information, accepted', g)
    BY <2>1, IdRequestGood
  <2> QED
    BY <2>1, <2>2, <2>3, ClientStep
<1>3. ASSUME NEW kind \in {"REQUEST_LOCAL_SESSION", "REQUEST_PUBLIC_SESSION"}, MakeSession(c, kind)
      PROVE  PeerInv'
  <2> DEFINE g == Up(c, Packet(kind, Me(c), PeerAddr(c, kind), client[c].my_ID, Ping))
  <2>1. /\ UNCHANGED <<nat, information, current_free_id, accepted>>
        /\ client' = [client EXCEPT ![c].kind = kind]
        /\ net' = net \cup {g}
    BY <1>3 DEF MakeSession, server
  <2>2. PICK r : After(client', client, c, r) /\ ClientGood(information, accepted, c, r)
    BY <2>1, PortOrKind
  <2>3. FrameGood(information, accepted, g)
    BY <1>1, PingSent, UpGood
  <2> HIDE DEF g
  <2> QED
    BY <2>1, <2>2, <2>3, ClientStep
<1>4. CASE AskStatus(c) \/ ReceiveNatUpdated(c) \/ \E id \in Id : SendMessage(c, id)
  <2>1. UNCHANGED <<nat, information, current_free_id, client, accepted>>
    BY <1>4 DEF AskStatus, ReceiveNatUpdated, SendMessage, server
  <2>2. PICK type, dst, id, pl :
          /\ type \in {"MESSAGE", "REQUEST_UPDATING_INFO", "STATUS"}
          /\ net' = net \cup {Up(c, Packet(type, Me(c), dst, id, pl))}
    <3>1. CASE AskStatus(c)
      BY <3>1 DEF AskStatus
    <3>2. CASE ReceiveNatUpdated(c)
      BY <3>2 DEF ReceiveNatUpdated
    <3>3. CASE \E id \in Id : SendMessage(c, id)
      BY <3>3 DEF SendMessage
    <3> QED
      BY <1>4, <3>1, <3>2, <3>3
  <2>3. FrameGood(information, accepted, Up(c, Packet(type, Me(c), dst, id, pl)))
    BY <2>2, <1>1, OtherSent, UpGood
  <2> QED
    BY <2>1, <2>2, <2>3, NetStep
<1>5. CASE \E id \in Id \ {0} : GetIdInfo(c, id)
  <2>1. PICK id : /\ UNCHANGED <<nat, information, current_free_id, client, accepted>>
                  /\ net' = net \cup
                       {Up(c, Packet("REQUEST_GETTING_IP", Me(c), ServerAddr, id, None))}
    BY <1>5 DEF GetIdInfo, server
  <2>2. FrameGood(information, accepted,
                  Up(c, Packet("REQUEST_GETTING_IP", Me(c), ServerAddr, id, None)))
    BY <1>1, RequestSent, UpGood
  <2> QED
    BY <2>1, <2>2, NetStep
<1>6. CASE BlockPort(c, FirstPort)
  <2>1. /\ UNCHANGED <<information, current_free_id, client, accepted, net>>
        /\ nat' = [nat EXCEPT ![c].blocked = @ \cup {FirstPort}]
    BY <1>6 DEF BlockPort, server
  <2> DEFINE n == nat[c]
             b == n.blocked \cup {FirstPort}
             m == [table |-> n.table, sessions |-> n.sessions, blocked |-> b]
  <2>2. IsNat(n) /\ DOMAIN nat = Client
    BY DEF PeerInv, ShapeInv, NatInv
  <2>3. nat' = [nat EXCEPT ![c] = [n EXCEPT !.blocked = b]]
    BY <2>1
  <2> HIDE DEF b
  <2>4. [n EXCEPT !.blocked = b] = m
    BY <2>2 DEF IsNat
  <2>5. nat'[c] = m /\ \A d \in Client \ {c} : nat'[d] = nat[d]
    BY <2>2, <2>3, <2>4
  <2>6. m.table = nat[c].table
    OBVIOUS
  <2> HIDE DEF m
  <2>7. \A d \in Natted : nat'[d].table = nat[d].table
    BY <2>5, <2>6, NattedAssumption
  <2>8. TablesLocal(nat')
    BY <2>7 DEF PeerInv, TablesLocal
  <2> QED
    BY <2>1, <2>8, NextInv DEF PeerInv
<1> QED
  BY <1>2, <1>3, <1>4, <1>5, <1>6 DEF Command

LEMMA PeerNext == PeerInv /\ [Next]_vars => PeerInv'
<1> SUFFICES ASSUME PeerInv, [Next]_vars PROVE PeerInv'
  OBVIOUS
<1>1. CASE \E f \in net : Lose(f)
  <2>1. UNCHANGED <<nat, information, current_free_id, client, accepted>> /\ net' \subseteq net
    BY <1>1 DEF Lose, Replace, server
  <2> QED
    BY <2>1, NetStep
<1>2. CASE UNCHANGED vars
  <2>1. UNCHANGED <<nat, information, current_free_id, client, accepted, net>>
    BY <1>2 DEF vars, server
  <2> QED
    BY <2>1, NetStep
<1> QED
  BY <1>1, <1>2, PeerCommand, PeerHandle DEF Next

\* Nobody has an id, or a peer, at first.
LEMMA PeerInit == Init => PeerInv
<1> SUFFICES ASSUME Init PROVE PeerInv
  OBVIOUS
<1>1. ShapeInv
  BY InitInv
<1>2. TablesLocal(nat)
  BY NattedAssumption DEF Init, TablesLocal
<1>3. InfoGood(information) /\ current_free_id \in Id
  <2>1. information = <<>> /\ current_free_id = 0
    BY DEF Init
  <2>2. \A S : <<>> \in Seq(S)
    OBVIOUS
  <2> QED
    BY <2>1, <2>2, ZeroKept DEF InfoGood
<1>4. DOMAIN client = Client /\ \A c \in Client : ClientGood(information, accepted, c, client[c])
  <2> DEFINE no == FALSE
             kind == "INVALID"
             r == Record(0, 0, None, 0, no, kind)
  <2>1. client = [c \in Client |-> r]
    BY DEF Init, Record
  <2>2. IsClient(r) /\ r.my_ID = 0 /\ r.peer_info = None /\ r.connected = no
    <3> HIDE DEF no, kind
    <3> QED
      BY RecordIsClient
  <2> HIDE DEF r
  <2>3. \A c \in Client : ClientGood(information, accepted, c, r)
    BY <2>2, ZeroKept DEF ClientGood, OwnId, ZeroOrOwns, PeerKnown
  <2> QED
    BY <2>1, <2>3
<1>5. net = {}
  BY DEF Init
<1> QED
  BY <1>1, <1>2, <1>3, <1>4, <1>5 DEF PeerInv

-----------------------------------------------------------------------------
\* Whatever order answers, pings and pongs arrive in, and however many are lost:
\* the address a client keeps for its peer (peer_info) belongs to a client that
\* was given the peer's id.
THEOREM PeerIsHolderHolds == Spec => []PeerIsHolder
<1>1. PeerInv => PeerIsHolder
  BY DEF PeerInv, ClientGood, PeerKnown, PeerIsHolder, Owns, Holds
<1> QED
  BY <1>1, PeerInit, PeerNext, PTL DEF Spec

\* Nobody is connected alone, for any number of clients and ids: one of the two
\* has accepted the ping of the other (request_session, response_session).
THEOREM ConnectedByConsentHolds == Spec => []ConnectedByConsent
<1>1. PeerInv => ConnectedByConsent
  BY DEF PeerInv, ClientGood, Consented, ConnectedByConsent, Owns, Holds
<1> QED
  BY <1>1, PeerInit, PeerNext, PTL DEF Spec
=============================================================================

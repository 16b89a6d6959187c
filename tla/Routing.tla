------------------------------- MODULE Routing -------------------------------
(***************************************************************************)
(* One packet of scratch2 on its way through clients, NAT machines and the *)
(* server: the headers fill_header writes, their checksum and time to      *)
(* live, find_gateway, and what each kind of machine does with a packet    *)
(* that is not its own.  What a machine does with its own packets, and the *)
(* blocked ports of a NAT, are in the modules HolePunch and Nat.           *)
(***************************************************************************)
EXTENDS Packet, Integers, Sequences

CONSTANTS
  Machine,      \* the machines
  Rule,         \* [Machine -> {"Client", "NAT", "Server"}]: the custom information
  Iface,        \* the interfaces of each machine; mask counts the octets of the netmask
  Link,         \* the machine and interface at the other end of a machine's interface
  Destination,  \* the addresses the clients write to
  ClientPort, BasePort,   \* my_port of the clients, base_port of the NATs
  MaxSends      \* bound: how many packets clients send

Octet == 0..255
Ip == [1..4 -> Octet]
Port == 0..65535
IpAddress == [ip : Ip, port : Port]

\* Every machine has an interface: iface[0] is what it is known by.
ASSUME IfaceAssumption ==
  \A m \in Machine : Iface[m] \in Seq([ip : Ip, mask : 0..4]) /\ Iface[m] # <<>>
ASSUME LinkAssumption == \A e \in DOMAIN Link : Link[e][1] \in Machine
ASSUME AddressAssumption ==
  Destination \subseteq IpAddress /\ ClientPort \in Port /\ BasePort \in Port
ASSUME MaxSendsAssumption == MaxSends \in Nat

VARIABLES
  packet,       \* the packet under way and where it is, None if there is none
  sessions,     \* per NAT: pairs of a mapping and the outer address it was used for
  table,        \* per NAT: the client addresses, in the order of their mappings
  request,      \* history: the clients whose request to the server is unanswered
  wrapped,      \* history: the TTL of the packet under way went below zero
  sends

wayvars == <<packet, sessions, table, request, wrapped, sends>>

-----------------------------------------------------------------------------
(* Headers. *)

\* get_checksum over the words of ip_header, each in host order.
\* Above 0xffff, 0xffff is taken off; acc starts there and is never 0.
Ones == 65535
OnesAdd(acc, word) == ((acc + word - 1) % Ones) + 1
IpWords(h) ==
  << h.version_IHL * 256, h.total_length, 0, 0, h.TTL * 256 + h.protocol, h.header_checksum,
     h.src.ip[1] * 256 + h.src.ip[2], h.src.ip[3] * 256 + h.src.ip[4],
     h.dst.ip[1] * 256 + h.dst.ip[2], h.dst.ip[3] * 256 + h.dst.ip[4] >>
Sums(words) ==
  LET acc[n \in 0..Len(words)] == IF n = 0 THEN Ones ELSE OnesAdd(acc[n - 1], words[n]) IN acc
GetChecksum(h) == Ones - Sums(IpWords(h))[10]

\* get_data_length; a message, here of five bytes, brings its own length.
GetDataLength(type) ==
  CASE type \in {"RESPONSE_ASSIGNING_ID", "REQUEST_GETTING_IP", "NAT_UPDATED"} -> 0
    [] type \in {"DROP", "REQUEST_LOCAL_SESSION", "RESPONSE_LOCAL_SESSION",
                 "REQUEST_PUBLIC_SESSION", "RESPONSE_PUBLIC_SESSION"} -> 4
    [] type \in {"REQUEST_ASSIGNING_ID", "REQUEST_UPDATING_INFO", "STATUS", "STATUS_RESPONSE"} -> 6
    [] type = "RESPONSE_GETTING_IP" -> 12
    [] type = "MESSAGE" -> 5

\* The checksum field is zeroed before it is computed.
Checked(h) == [h EXCEPT !.header_checksum = GetChecksum([h EXCEPT !.header_checksum = 0])]

\* fill_header; the fields that are always zero are left out.  An ip_header has
\* 20 bytes, a udp_header 8 and a data_id 1.
FillHeader(type, src, dst) ==
  Checked([version_IHL |-> 69, TTL |-> 64, protocol |-> 17, header_checksum |-> 0,
           total_length |-> 20 + 8 + 1 + GetDataLength(type),
           src |-> src, dst |-> dst, data_type |-> TypeCode(type), id |-> 0])

Valid(h) == h.protocol = 17 /\ GetChecksum(h) = 0

-----------------------------------------------------------------------------
(* Interfaces and links. *)

Net(ip, mask) == SubSeq(ip, 1, mask)
InNet(m, i, ip) == Net(Iface[m][i].ip, Iface[m][i].mask) = Net(ip, Iface[m][i].mask)

\* Mutant: the default is always taken.
GatewayDefault(m, ip) == 1

\* find_gateway: the first interface whose net the address is in, else the first.
FindGateway(m, ip) ==
  LET in == { i \in 1..Len(Iface[m]) : InNet(m, i, ip) }
  IN IF in = {} THEN 1 ELSE CHOOSE i \in in : \A j \in in : i <= j

ServerIp == <<1, 1, 1, 1>>
Address(ip, port) == [ip |-> ip, port |-> port]
Own(m, port) == Address(Iface[m][1].ip, port)

\* sendFrame on an interface: the frame is at the other end of the link, if any.
Emit(h, m, i) ==
  packet' = IF <<m, i>> \in DOMAIN Link
            THEN [hdr |-> h, at |-> Link[<<m, i>>][1], iface |-> Link[<<m, i>>][2]] ELSE None
Drop == packet' = None

\* Mutant: the time to live is left as it is.
ForwardForever(h, m, i) ==
  /\ Emit(Checked(h), m, i)
  /\ wrapped' = wrapped

\* Mutant: the checksum is left as it was.
ForwardUnchecked(h, m, i) ==
  /\ Emit([h EXCEPT !.TTL = (@ - 1) % 256], m, i)
  /\ wrapped' = (wrapped \/ h.TTL = 0)

\* TTL-- in its eight bits, the checksum anew, and out.
Forward(h, m, i) ==
  /\ Emit(Checked([h EXCEPT !.TTL = (@ - 1) % 256]), m, i)
  /\ wrapped' = (wrapped \/ h.TTL = 0)

WayInit ==
  /\ packet = None
  /\ sessions = [m \in Machine |-> {}]
  /\ table = [m \in Machine |-> <<>>]
  /\ request = {}
  /\ wrapped = FALSE
  /\ sends = 0

-----------------------------------------------------------------------------
(* The machines. *)

\* SimulatedMachine::initialize chose the machine by the custom information.
Runs(m, rule) == Rule[m] = rule

\* make_connection asks the server out of the first interface; make_session
\* and send_message choose it by the address.
SendPacket(c, type, dst) ==
  /\ packet = None /\ Runs(c, "Client")
  /\ sends < MaxSends /\ sends' = sends + 1   \* bound
  /\ Emit(FillHeader(type, Own(c, ClientPort), dst), c,
          IF type = "REQUEST_ASSIGNING_ID" THEN 1 ELSE FindGateway(c, dst.ip))
  /\ request' = IF type = "REQUEST_ASSIGNING_ID" THEN request \cup {c} ELSE request
  /\ wrapped' = FALSE
  /\ UNCHANGED <<sessions, table>>

\* Its own packets, of which one kind is followed here: the answer goes out of
\* the interface the request came in by.
ServerTakes(h, m, i) ==
  IF ServerDetect([code |-> h.data_type]) = "REQUEST_ASSIGNING_ID"
  THEN Emit([FillHeader("RESPONSE_ASSIGNING_ID", Address(ServerIp, 1234), h.src)
             EXCEPT !.id = 1], m, i)
  ELSE Drop

ServerProcess(h, m, i) ==
  /\ Runs(m, "Server")
  /\ IF ~Valid(h) THEN Drop /\ UNCHANGED wrapped
     ELSE IF h.dst.ip = ServerIp THEN ServerTakes(h, m, i) /\ wrapped' = FALSE
     ELSE Forward(h, m, FindGateway(m, h.dst.ip))
  /\ UNCHANGED <<sessions, table, request>>

\* What detect_data_type makes of it; payloads are not followed here.
Takes(h) == ClientDetect([code |-> h.data_type, id |-> h.id, pl |-> Ping])

ClientProcess(h, m) ==
  /\ Runs(m, "Client")
  /\ \/ (h.TTL = 0 \/ ~Valid(h)) /\ Drop /\ UNCHANGED <<request, wrapped>>
     \/ /\ h.TTL > 0 /\ Valid(h) /\ h.dst.ip = Iface[m][1].ip
        /\ Drop
        /\ request' = IF Takes(h) = "RESPONSE_ASSIGNING_ID" THEN request \ {m} ELSE request
        /\ UNCHANGED wrapped
     \/ /\ h.TTL > 0 /\ Valid(h) /\ h.dst.ip # Iface[m][1].ip
        /\ Forward(h, m, FindGateway(m, h.dst.ip))
        /\ UNCHANGED request
  /\ UNCHANGED <<sessions, table>>

\* An address as a number, and the 32 and 16 bits that are left of one.
IpNumber(ip) == ((ip[1] * 256 + ip[2]) * 256 + ip[3]) * 256 + ip[4]
IpOctets(n) == << (n \div 16777216) % 256, (n \div 65536) % 256, (n \div 256) % 256, n % 256 >>

\* calculate_new_address for the k-th mapping of a NAT.
PublicAddress(m, k) ==
  Address(IpOctets(IpNumber(Iface[m][1].ip) + (k - 1) \div 3 + 1),
          (BasePort + ((k - 1) % 3) * 100) % 65536)

\* From outside: neither the checksum nor the time to live is looked at.
NatProcessOuter(h, m) ==
  LET hit == { k \in 1..Len(table[m]) : PublicAddress(m, k) = h.dst }
  IN /\ \/ hit = {} /\ Drop /\ UNCHANGED wrapped
        \/ \E k \in hit :
             IF <<k, h.src>> \in sessions[m]
             THEN Forward([h EXCEPT !.dst = table[m][k]], m, FindGateway(m, table[m][k].ip))
             ELSE /\ Emit(FillHeader("DROP", Own(m, 4321), h.src), m, FindGateway(m, h.src.ip))
                  /\ wrapped' = FALSE
     /\ UNCHANGED <<sessions, table>>

NatProcessInner(h, m) ==
  LET known == IF \E k \in 1..Len(table[m]) : table[m][k] = h.src
               THEN table[m] ELSE Append(table[m], h.src)
      k == CHOOSE j \in 1..Len(known) : known[j] = h.src
  IN /\ table' = [table EXCEPT ![m] = known]
     /\ sessions' = [sessions EXCEPT ![m] = @ \cup {<<k, h.dst>>}]
     /\ Forward([h EXCEPT !.src = PublicAddress(m, k)], m, FindGateway(m, h.dst.ip))

NatProcess(h, m, i) ==
  /\ Runs(m, "NAT")
  /\ IF i = 1 THEN NatProcessOuter(h, m) ELSE NatProcessInner(h, m)
  /\ UNCHANGED request

ProcessFrame ==
  /\ packet # None
  /\ \/ ServerProcess(packet.hdr, packet.at, packet.iface)
     \/ ClientProcess(packet.hdr, packet.at)
     \/ NatProcess(packet.hdr, packet.at, packet.iface)
  /\ UNCHANGED sends

WayNext ==
  \/ \E c \in Machine : SendPacket(c, "REQUEST_ASSIGNING_ID", Address(ServerIp, 1234))
  \/ \E c \in Machine, dst \in Destination : SendPacket(c, "MESSAGE", dst)
  \/ ProcessFrame

WaySpec == WayInit /\ [][WayNext]_wayvars

WayFairness == WF_wayvars(ProcessFrame)

-----------------------------------------------------------------------------
(* Properties. *)

\* A packet under way passes the test of the server and the clients, whatever
\* the machines on its way have written into its header: NATs put addresses
\* into it without looking at its checksum.
HeadersValid == packet # None => Valid(packet.hdr)

\* A request to the server is answered: the gateways lead there and, through
\* the sessions the request opened at the NATs, back to the client.
RequestAnswered == request # {} ~> request = {}

\* The time to live ends the way of every packet, also of one sent to an
\* address nobody has, which clients send back and forth; unless it went
\* around below zero at a server or NAT, which do not test it.
Ends == packet # None ~> (packet = None \/ wrapped)
=============================================================================

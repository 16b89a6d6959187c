----------------------------- MODULE LeaseServer -----------------------------
(***************************************************************************)
(* One lease server on its own: any client may send it any frame, and the  *)
(* administrator types commands.  A frame or a command is one step.        *)
(***************************************************************************)
EXTENDS Lease

CONSTANTS
  Times,        \* lease times the clients ask for
  Steps,        \* arguments of "add time"
  Pools,        \* arguments of "add pool", <<last byte, 2^(32 - mask)>>
  MaxAdds,      \* bound on "add pool" commands
  MaxClock,     \* bound on the time passed
  MaxFlaws      \* bound: a run ends when more kinds of flaw than this have occurred

ASSUME ArgumentsAssumption ==
  /\ Times \subseteq Time /\ Steps \subseteq Nat /\ MaxClock \in Nat
  /\ Pools \subseteq Ip \X (Nat \ {0})

VARIABLES
  server,
  clock,        \* history: the time passed
  due,          \* history: when the lease of an address ends
  added,        \* history: the addresses of all pools
  adds,         \* how many pools were added
  flaws         \* history: what has gone wrong already, see below

vars == <<server, clock, due, added, adds, flaws>>

\* Frames a client of this program can send.
ServerType == {"DHCP_OFFER", "DHCP_TIMEOUT", "DHCP_RESPONSE_EXTEND"}
AddressIn(type) == IF type = "DHCP_DISCOVER" THEN {NoIp} ELSE Ip
TimeIn(type) == IF type \in {"DHCP_ACK", "DHCP_RELEASE"} THEN {0} ELSE Times
ClientFrame ==
  UNION { { Frame(type, m, ip, t) : m \in Mac, ip \in AddressIn(type), t \in TimeIn(type) }
          : type \in DhcpDataType \ ServerType }

Init ==
  /\ server = InitServer
  /\ clock = 0
  /\ due = [ip \in AnyIp |-> 0]
  /\ added = {}
  /\ adds = 0
  /\ flaws = {}

\* The flaws the conditions of the properties name: a pointer into the frame
\* buffer stays in the pool ("kept"), a pool covers an address that is out
\* ("overlap"), the time of a lease leaves its 32 bits ("wrapped").
NewFlaws(s, overlap, wrapped) ==
  flaws' = flaws \cup (IF s.pool[Kept] > 0 THEN {"kept"} ELSE {})
                 \cup (IF overlap THEN {"overlap"} ELSE {})
                 \cup (IF wrapped THEN {"wrapped"} ELSE {})

Out(s) == { s.offered[i].ip : i \in 1..Len(s.offered) } \cup { s.given[i].ip : i \in 1..Len(s.given) }

\* When the lease an answer is about ends.
Due(f, answer) ==
  CASE answer.type = "DHCP_ACK" -> clock + answer.time
    [] answer.type = "DHCP_RESPONSE_EXTEND" -> due[f.ip] + Asked(f.time)
    [] OTHER -> due[answer.ip]

Goes == Cardinality(flaws) <= MaxFlaws   \* bound

Receive(f) ==
  /\ Goes
  /\ \E o \in Handle(server, f) :
       /\ server' = o.state
       /\ due' = IF o.out = <<>> THEN due
                 ELSE [due EXCEPT ![o.out[1].ip] = Due(f, o.out[1])]
       /\ NewFlaws(o.state, FALSE,
            f.type = "DHCP_REQUEST_EXTEND" /\ \E i \in Lease(server, f.ip) :
              server.given[i].time + Asked(f.time) >= TimeSpace)
       /\ UNCHANGED <<clock, added, adds>>

TypeAddPool(last, size) ==
  /\ Goes /\ adds < MaxAdds   \* bound
  /\ adds' = adds + 1
  /\ server' = AddPool(server, PoolRange(last, size))
  /\ added' = added \cup PoolRange(last, size)
  /\ NewFlaws(server', PoolRange(last, size) \cap Out(server) # {}, FALSE)
  /\ UNCHANGED <<clock, due>>

TypeAddTime(t) ==
  /\ Goes /\ clock + t <= MaxClock   \* bound
  /\ clock' = clock + t
  /\ \E o \in AddTime(server, t) : server' = o.state
  /\ NewFlaws(server', FALSE, \E i \in 1..Len(server.given) : server.given[i].time < t)
  /\ UNCHANGED <<due, added, adds>>

Next ==
  \/ \E f \in ClientFrame : Receive(f)
  \/ \E p \in Pools : TypeAddPool(p[1], p[2])
  \/ \E t \in Steps : TypeAddTime(t)

Spec == Init /\ [][Next]_vars

-----------------------------------------------------------------------------
(* Properties. *)

Offer == [ip : AnyIp, mac : Mac]
Grant == [ip : AnyIp, mac : Mac, time : Time]

\* Pool, offers and leases are of their types, and times keep to their 32 bits.
TypeOK ==
  /\ server.pool \in [Entry -> Nat]
  /\ server.offered \in Seq(Offer)
  /\ server.given \in Seq(Grant)
  /\ server.buffer \in AnyIp
  /\ clock \in 0..MaxClock
  /\ added \subseteq Ip
  /\ flaws \subseteq {"kept", "overlap", "wrapped"}

Places(seq, ip) == { i \in 1..Len(seq) : seq[i].ip = ip }
Copies(ip) ==
  server.pool[ip] + Cardinality(Places(server.offered, ip)) + Cardinality(Places(server.given, ip))

\* Through any sequence of frames and commands, an address that was ever added is
\* in exactly one place, the pool, one offer or one lease: none is handed out
\* twice and none is lost.  Broken only by a kept pointer (r_dhcp_release,
\* r_dhcp_extend_request) or by add_pool, which compares with the pool alone.
ExactlyOnce ==
  flaws \cap {"kept", "overlap"} = {} =>
    \A ip \in AnyIp : Copies(ip) = IF ip \in added THEN 1 ELSE 0

\* A lease runs exactly as long as it was granted and extended for, whatever
\* other leases were ended in between.
RunsItsTime ==
  flaws = {} =>
    \A i \in 1..Len(server.given) :
      LET g == server.given[i] IN g.time > 0 /\ g.time = due[g.ip] - clock

\* "ownership of the data of the frame is not with you. If you need it, make a
\* copy for yourself" (server_machine.cpp:49-50): so what is offered are addresses
\* of the pools, never what some later frame left in the buffer.
OffersFromPool ==
  \A i \in 1..Len(server.offered) : server.offered[i].ip \in added

\* Where a state of the server has an address, and until when if it is then this time.
Entries(seq, ip) == { seq[i] : i \in Places(seq, ip) }
Whereabouts(s, time, ip) ==
  (IF s.pool[ip] > 0 THEN {[at |-> "pool"]} ELSE {})
  \cup { [at |-> "offer", to |-> o.mac] : o \in Entries(s.offered, ip) }
  \cup { [at |-> "lease", to |-> g.mac, end |-> time + g.time] : g \in Entries(s.given, ip) }

Promise == INSTANCE Allocation WITH
  Address <- Ip, Client <- Mac, Span <- Time \ {0},
  place <- [ip \in Ip |-> Whereabouts(server, clock, ip)], now <- clock, broken <- (flaws # {})

\* Until a flaw shows, the vectors are a book of where each address is, and an address
\* moves in it as client and administrator are told: from the pool, lowest first, to
\* an offer, to a lease, and back when the lease is due.
KeepsPromise == Promise!Spec
=============================================================================

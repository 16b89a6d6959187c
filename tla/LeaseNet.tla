------------------------------ MODULE LeaseNet ------------------------------
(***************************************************************************)
(* Lease servers and clients of scratch1 on links that keep frames in      *)
(* order.  A client floods every frame that is not for it, so a server may *)
(* be several links away, and an ACK also tells the other servers to take  *)
(* their offers back.  A handler is one step; extend_lease, which changes  *)
(* the client's state after it has sent its frames, is two.                *)
(***************************************************************************)
EXTENDS Lease

CONSTANTS
  Server,       \* the servers there may be; the clients are the hardware addresses
  Setups,       \* networks: the links, the pool each server's administrator adds,
                \* and the bounds, how often each command is typed
  UserTimes,    \* lease times the users ask for
  AdminSteps    \* arguments of "add time"

Machine == Server \cup Mac

\* The way back of a link, and the links over which a client hands on what came over it.
Rev(l) == <<l[2], l[1]>>
Onward(links, l) == { k \in links : l[2] \in Mac /\ k[1] = l[2] /\ k[2] # l[1] }

\* Beyond(links)[l]: whom a frame sent over l comes to, if nobody takes it for himself.
Beyond(links) ==
  LET within[n \in Nat] ==
        IF n = 0 THEN [l \in links |-> {l[2]}]
        ELSE LET near == within[n - 1]
             IN [l \in links |-> {l[2]} \cup UNION { near[k] : k \in Onward(links, l) }]
  IN within[Cardinality(links)]

\* From one machine to another there is one way at most, as in every forest.  Nobody
\* remembers what he has handed on and no frame counts its hops: on a cycle of clients
\* a frame would go round for ever, and where two ways from a client lead to a server
\* the server would be asked twice.
NoCycle(links) ==
  LET beyond == Beyond(links) IN
  \A l \in links :
    /\ beyond[l] = {l[2]} \cup UNION { beyond[k] : k \in Onward(links, l) }
    /\ beyond[l] \cap beyond[Rev(l)] = {}
    /\ \A k \in links : k[1] \in beyond[l] \cap Mac => k[2] \in beyond[l] \/ k = Rev(l)
    /\ \A k \in links : k[1] \in beyond[l] \cap Mac => beyond[k] \subseteq beyond[l] \cup beyond[Rev(l)]

ASSUME TimesAssumption == UserTimes \subseteq Time /\ AdminSteps \subseteq Nat
ASSUME MachinesAssumption == Server \cap Mac = {}
ASSUME SetupsAssumption ==
  \A setup \in Setups :
    /\ setup.links \subseteq Machine \X Machine /\ \A l \in setup.links : Rev(l) \in setup.links
    /\ NoCycle(setup.links)
    /\ setup.pool \in UNION { [S -> SUBSET Ip] : S \in SUBSET Server }

\* No two administrators add the same address.
ASSUME PoolsAssumption ==
  \A setup \in Setups : \A s, t \in DOMAIN setup.pool :
    s # t => setup.pool[s] \cap setup.pool[t] = {}

VARIABLES
  servers,      \* the servers
  current_ip,   \* the clients' addresses
  old_IPs,      \* the addresses each client has had
  offers,       \* [client -> [address -> time offered]], -1 for none
  extending,    \* inside extend_lease, after the frames are sent
  link,         \* link[m, n]: frames on the way from m to n
  left,         \* what is left of the budget
  ended,        \* how often time was added, per server
  gets,         \* history: how often an address was asked for
  acks,         \* history: how often each client was granted an address
  faults        \* history: see NewFaults

client == <<current_ip, old_IPs, offers, extending>>
netVars == <<servers, client, link, left, ended, gets, acks, faults>>

Neighbors(m) == { n \in Machine : <<m, n>> \in DOMAIN link }

\* Send frames from m, in order, to each of these neighbors.
Sent(links, m, to, frames) ==
  [l \in DOMAIN links |-> IF l[1] = m /\ l[2] \in to THEN links[l] \o frames ELSE links[l]]

Broadcast(m, frame) == link' = Sent(link, m, Neighbors(m), <<frame>>)
Received(from, to) == [link EXCEPT ![<<from, to>>] = Tail(@)]

NetInit ==
  /\ \E setup \in Setups :
       /\ servers = [s \in DOMAIN setup.pool |-> AddPool(InitServer, setup.pool[s])]
       /\ link = [l \in setup.links |-> <<>>]
       /\ left = setup.budget
       /\ ended = [s \in DOMAIN setup.pool |-> 0]
  /\ current_ip = [c \in Mac |-> NoIp]
  /\ old_IPs = [c \in Mac |-> {}]
  /\ offers = [c \in Mac |-> [ip \in AnyIp |-> -1]]
  /\ extending = {}
  /\ gets = 0
  /\ acks = [c \in Mac |-> 0]
  /\ faults = {}

-----------------------------------------------------------------------------
(* The servers. *)

\* The flaws the conditions of the properties name: a frame pointer was kept
\* ("kept"); a late release or extension by a client took another's lease
\* ("crossed"); the answer to an extension overtook the end of extend_lease
\* ("overtaken", set by the client).
NewFaults(s, before, f) ==
  faults' = faults
    \cup (IF s.pool[Kept] > 0 THEN {"kept"} ELSE {})
    \cup (IF /\ f.type \in {"DHCP_RELEASE", "DHCP_REQUEST_EXTEND"}
             /\ \E i \in Lease(before, f.ip) : before.given[i].mac # f.mac
          THEN {"crossed"} ELSE {})

ServerStep(s, from) ==
  /\ link[<<from, s>>] # <<>>
  /\ LET f == Head(link[<<from, s>>]) IN
     \E o \in Handle(servers[s], f) :
       /\ servers' = [servers EXCEPT ![s] = o.state]
       /\ link' = Sent(Received(from, s), s, {from}, o.out)
       /\ acks' = IF o.out # <<>> /\ o.out[1].type = "DHCP_ACK"
                  THEN [acks EXCEPT ![f.mac] = @ + 1] ELSE acks
       /\ NewFaults(o.state, servers[s], f)
  /\ UNCHANGED <<client, left, ended, gets>>

AdminAddTime(s, t) ==
  /\ ended[s] < left.time
  /\ ended' = [ended EXCEPT ![s] = @ + 1]
  /\ \E o \in AddTime(servers[s], t) :
       /\ servers' = [servers EXCEPT ![s] = o.state]
       /\ link' = Sent(link, s, Neighbors(s), o.out)
  /\ UNCHANGED <<client, left, gets, acks, faults>>

-----------------------------------------------------------------------------
(* The clients: the console commands. *)

Type(c, command) ==
  /\ left[command] > 0 /\ c \notin extending
  /\ left' = [left EXCEPT ![command] = @ - 1]

\* t_dhcp_discover
GetIp(c, t) ==
  /\ Type(c, "get")
  /\ gets' = gets + 1
  /\ Broadcast(c, Frame("DHCP_DISCOVER", c, NoIp, t))
  /\ UNCHANGED <<servers, client, ended, acks, faults>>

\* accept_dhcp_offer; offers stay in the list.
AcceptOffer(c, ip, t) ==
  /\ Type(c, "accept")
  /\ offers[c][ip] >= t
  /\ Broadcast(c, Frame("DHCP_REQUEST", c, ip, t))
  /\ UNCHANGED <<servers, client, ended, gets, acks, faults>>

ReleaseIp(c, ip) ==
  /\ Type(c, "release")
  /\ current_ip[c] = ip
  /\ current_ip' = [current_ip EXCEPT ![c] = NoIp]
  /\ Broadcast(c, Frame("DHCP_RELEASE", c, ip, 0))
  /\ UNCHANGED <<servers, old_IPs, offers, extending, ended, gets, acks, faults>>

ExtendLease(c, ip, t) ==
  /\ Type(c, "extend")
  /\ current_ip[c] = ip
  /\ extending' = extending \cup {c}
  /\ Broadcast(c, Frame("DHCP_REQUEST_EXTEND", c, ip, t))
  /\ UNCHANGED <<servers, current_ip, old_IPs, offers, ended, gets, acks, faults>>

ExtendLeaseClear(c) ==
  /\ c \in extending
  /\ extending' = extending \ {c}
  /\ current_ip' = [current_ip EXCEPT ![c] = NoIp]
  /\ UNCHANGED <<servers, old_IPs, offers, link, left, ended, gets, acks, faults>>

-----------------------------------------------------------------------------
(* The clients: processFrame. *)

\* distribute
Distribute(c, from, f) == Sent(Received(from, c), c, Neighbors(c) \ {from}, <<f>>)

\* Mutant: a timeout leaves the address alone.
TimeoutClearsNothing(c, ip) == current_ip

\* r_dhcp_timeout
TimedOut(c, ip) ==
  IF current_ip[c] = ip THEN [current_ip EXCEPT ![c] = NoIp] ELSE current_ip

\* find_IP keeps an address from being in old_IPs twice: a set of them.
Remember(c, ip) == old_IPs' = [old_IPs EXCEPT ![c] = @ \cup {ip}]

\* Mutant: an address the client has had before is not taken again.
TakeNew(c, ip) ==
  /\ Remember(c, ip)
  /\ current_ip' = IF ip \in old_IPs[c] THEN current_ip ELSE [current_ip EXCEPT ![c] = ip]
  /\ faults' = faults

\* What r_dhcp_ack and r_dhcp_extend_response do with the address.
TakeIp(c, ip) ==
  /\ Remember(c, ip)
  /\ current_ip' = [current_ip EXCEPT ![c] = ip]
  /\ faults' = IF c \in extending THEN faults \cup {"overtaken"} ELSE faults

\* r_dhcp_offer: an address that was offered before gets the new time.
DhcpOffer(c, from, f) ==
  /\ offers' = [offers EXCEPT ![c][f.ip] = f.time]
  /\ link' = Received(from, c)
  /\ UNCHANGED <<current_ip, old_IPs, faults>>

DhcpAck(c, from, f) ==
  /\ TakeIp(c, f.ip)
  /\ link' = Distribute(c, from, f)
  /\ UNCHANGED offers

DhcpTimeout(c, from, f) ==
  /\ current_ip' = TimedOut(c, f.ip)
  /\ link' = Received(from, c)
  /\ UNCHANGED <<old_IPs, offers, faults>>

DhcpExtendResponse(c, from, f) ==
  /\ TakeIp(c, f.ip)
  /\ link' = Received(from, c)
  /\ UNCHANGED offers

ClientStep(c, from) ==
  /\ link[<<from, c>>] # <<>>
  /\ LET f == Head(link[<<from, c>>]) IN
       \/ /\ f.mac # c
          /\ link' = Distribute(c, from, f)
          /\ UNCHANGED <<current_ip, old_IPs, offers, faults>>
       \/ f.mac = c /\ f.type = "DHCP_OFFER" /\ DhcpOffer(c, from, f)
       \/ f.mac = c /\ f.type = "DHCP_ACK" /\ DhcpAck(c, from, f)
       \/ f.mac = c /\ f.type = "DHCP_TIMEOUT" /\ DhcpTimeout(c, from, f)
       \/ f.mac = c /\ f.type = "DHCP_RESPONSE_EXTEND" /\ DhcpExtendResponse(c, from, f)
  /\ UNCHANGED <<servers, extending, left, ended, gets, acks>>

-----------------------------------------------------------------------------
Command(c) ==
  \/ \E t \in UserTimes : GetIp(c, t)
  \/ \E ip \in Ip, t \in UserTimes : AcceptOffer(c, ip, t)
  \/ \E ip \in Ip : ReleaseIp(c, ip)
  \/ \E ip \in Ip, t \in UserTimes : ExtendLease(c, ip, t)

FrameStep ==
  \/ \E s \in DOMAIN servers, from \in Machine : from \in Neighbors(s) /\ ServerStep(s, from)
  \/ \E c \in Mac, from \in Machine : from \in Neighbors(c) /\ ClientStep(c, from)

NetNext ==
  \/ \E c \in Mac : Command(c) \/ ExtendLeaseClear(c)
  \/ \E s \in DOMAIN servers, t \in AdminSteps : AdminAddTime(s, t)
  \/ FrameStep

NetSpec == NetInit /\ [][NetNext]_netVars

-----------------------------------------------------------------------------
(* Properties. *)

Quiet == extending = {} /\ \A l \in DOMAIN link : link[l] = <<>>

HasLease(c, ip) ==
  \E s \in DOMAIN servers : \E i \in 1..Len(servers[s].given) :
    servers[s].given[i].ip = ip /\ servers[s].given[i].mac = c

\* A frame of this type about this client's use of the address is under way.
UnderWay(type, c, ip) ==
  \E l \in DOMAIN link : \E i \in 1..Len(link[l]) :
    link[l][i].type = type /\ link[l][i].mac = c /\ link[l][i].ip = ip

\* A client uses an address only while it has the lease, or until the timeout
\* that ends it arrives.
NoSquatting ==
  faults \cap {"kept", "crossed"} = {} =>
    \A c \in Mac : current_ip[c] # NoIp =>
      HasLease(c, current_ip[c]) \/ UnderWay("DHCP_TIMEOUT", c, current_ip[c])

\* Two clients never use one address at a time, but for a timeout on its way.
NoConflict ==
  faults \cap {"kept", "crossed"} = {} =>
    \A c, d \in Mac : c # d /\ current_ip[c] = current_ip[d] /\ current_ip[c] # NoIp =>
      UnderWay("DHCP_TIMEOUT", c, current_ip[c]) \/ UnderWay("DHCP_TIMEOUT", d, current_ip[c])

\* When everything has been delivered, a client that was granted one address and
\* still has the lease uses it.
GrantedIsUsed ==
  faults = {} /\ Quiet =>
    \A c \in Mac, ip \in AnyIp : acks[c] = 1 /\ HasLease(c, ip) => current_ip[c] = ip

\* When everything has been delivered, a client that asked once and has a lease
\* leaves no offer of another server behind.
OffersTakenBack ==
  faults = {} /\ Quiet =>
    \A c \in Mac : acks[c] = 1 /\ gets = 1 =>
      \A s \in DOMAIN servers : \A i \in 1..Len(servers[s].offered) : servers[s].offered[i].mac # c
=============================================================================

------------------------------- MODULE Lease -------------------------------
(***************************************************************************)
(* The lease server of scratch1 (server_machine.cpp), as functions of its  *)
(* state: what each packet handler and each console command does.  Pools   *)
(* lie within one /24, so an address is its last byte; across prefixes the *)
(* comparison the code sorts with is no order, and std::sort is undefined. *)
(***************************************************************************)
EXTENDS Integers, Sequences, FiniteSets, Functions

CONSTANTS
  ByteSpace,    \* 256 in the code
  TimeSpace,    \* 2^32 in the code
  DefaultTime,  \* 10 in the code: the lease when no time is asked for
  Mac,          \* hardware addresses of the clients
  Kept          \* a pool entry that points into the shared frame buffer

ASSUME SpaceAssumption ==
  /\ ByteSpace \in Nat \ {0} /\ TimeSpace \in Nat \ {0}
  /\ DefaultTime \in 1..(TimeSpace - 1)
ASSUME KeptAssumption == Kept \notin Int

NoIp == -1                      \* 0.0.0.0, below every address
Ip == 0..(ByteSpace - 1)
AnyIp == Ip \cup {NoIp}
Time == 0..(TimeSpace - 1)
Entry == AnyIp \cup {Kept}

DhcpDataType ==
  { "DHCP_DISCOVER", "DHCP_OFFER", "DHCP_REQUEST", "DHCP_ACK", "DHCP_RELEASE", "DHCP_TIMEOUT",
    "DHCP_REQUEST_EXTEND", "DHCP_RESPONSE_EXTEND" }

Frame(type, mac, ip, time) == [type |-> type, mac |-> mac, ip |-> ip, time |-> time]

-----------------------------------------------------------------------------
(* The state: ip_pool as the number of times each entry is in it (it is     *)
(* sorted before it is read), offered_IPs, given_IPs, and the address in    *)
(* the frame buffer, which is what a kept pointer reads.                    *)

InitServer ==
  [pool |-> [e \in Entry |-> 0], offered |-> <<>>, given |-> <<>>, buffer |-> NoIp]

Value(s, e) == IF e = Kept THEN s.buffer ELSE e
InPool(s) == { e \in Entry : s.pool[e] > 0 }

Push(s, e) == [s EXCEPT !.pool[e] = @ + 1]
Erase(s, e) == [s EXCEPT !.pool[e] = @ - 1]
Without(seq, i) == SubSeq(seq, 1, i - 1) \o SubSeq(seq, i + 1, Len(seq))

\* What the sort may leave at ip_pool[0].
Lowest(s) == { e \in InPool(s) : \A d \in InPool(s) : Value(s, e) <= Value(s, d) }

\* The one find_if returns, of the matches at these indices.
First(S) == { i \in S : \A j \in S : i <= j }

\* What a handler may do: the new state and the answer, if it sends one.
Outcome(s, out) == [state |-> s, out |-> out]
Stay(s) == { Outcome(s, <<>>) }

Asked(time) == IF time = 0 THEN DefaultTime ELSE time

-----------------------------------------------------------------------------
(* The packet handlers; s is the state with f in the frame buffer. *)

\* Mutant: the address stays in the pool.
DiscoverKeep(s, f) ==
  IF InPool(s) = {} THEN Stay(s)
  ELSE { Outcome([s EXCEPT !.offered = Append(@, [ip |-> Value(s, e), mac |-> f.mac])],
                 <<Frame("DHCP_OFFER", f.mac, Value(s, e), Asked(f.time))>>) : e \in Lowest(s) }

\* r_dhcp_discover
Discover(s, f) ==
  IF InPool(s) = {} THEN Stay(s)
  ELSE { Outcome([Erase(s, e) EXCEPT
                    !.offered = Append(@, [ip |-> Value(s, e), mac |-> f.mac])],
                 <<Frame("DHCP_OFFER", f.mac, Value(s, e), Asked(f.time))>>) : e \in Lowest(s) }

\* r_dhcp_request: whoever the address was offered to.
Request(s, f) ==
  LET hit == First({ i \in 1..Len(s.offered) : s.offered[i].ip = f.ip })
  IN IF hit = {} THEN Stay(s)
     ELSE { Outcome([s EXCEPT
                       !.offered = Without(@, i),
                       !.given = Append(@, [ip |-> f.ip, mac |-> f.mac, time |-> Asked(f.time)])],
                    <<Frame("DHCP_ACK", f.mac, f.ip, Asked(f.time))>>) : i \in hit }

\* Mutant: the offer is looked up by the address in the ACK.
AckByIp(s, f) ==
  LET hit == { i \in 1..Len(s.offered) : s.offered[i].ip = f.ip }
  IN IF hit = {} THEN Stay(s)
     ELSE { Outcome([Push(s, s.offered[i].ip) EXCEPT !.offered = Without(@, i)], <<>>) : i \in hit }

\* r_dhcp_ack: the client has taken another server's offer.
Ack(s, f) ==
  LET hit == First({ i \in 1..Len(s.offered) : s.offered[i].mac = f.mac })
  IN IF hit = {} THEN Stay(s)
     ELSE { Outcome([Push(s, s.offered[i].ip) EXCEPT !.offered = Without(@, i)], <<>>)
            : i \in hit }

Lease(s, ip) == First({ i \in 1..Len(s.given) : s.given[i].ip = ip })

\* r_dhcp_release: whoever holds the address.  What goes back to the pool is a
\* pointer to the address in the frame.
Release(s, f) ==
  IF Lease(s, f.ip) = {} THEN Stay(s)
  ELSE { Outcome([Push(s, Kept) EXCEPT !.given = Without(@, i)], <<>>) : i \in Lease(s, f.ip) }

\* Mutant: the sum is not cut to 32 bits.
LongerWide(left, time) == left + Asked(time)

\* Mutant: what is left of the lease is lost.
LongerAnew(left, time) == Asked(time)

\* What is left of a lease and what is asked for, in 32 bits.
Longer(left, time) == (left + Asked(time)) % TimeSpace

\* r_dhcp_extend_request: the address goes through the pool, and the lowest one
\* there becomes the client's.
ExtendRequest(s, f) ==
  IF Lease(s, f.ip) = {} THEN Stay(s)
  ELSE { LET r == [Push(s, Kept) EXCEPT !.given = Without(@, i)]
             time == Longer(s.given[i].time, f.time)
         IN Outcome([Erase(r, e) EXCEPT
                       !.given = Append(@, [ip |-> Value(r, e), mac |-> f.mac, time |-> time])],
                    <<Frame("DHCP_RESPONSE_EXTEND", f.mac, Value(r, e), time)>>)
         : i \in Lease(s, f.ip), e \in Lowest(Push(s, Kept)) }

\* ServerMachine::processFrame
Handle(s, f) ==
  LET r == [s EXCEPT !.buffer = f.ip]
  IN CASE f.type = "DHCP_DISCOVER" -> Discover(r, f)
       [] f.type = "DHCP_REQUEST" -> Request(r, f)
       [] f.type = "DHCP_ACK" -> Ack(r, f)
       [] f.type = "DHCP_RELEASE" -> Release(r, f)
       [] f.type = "DHCP_REQUEST_EXTEND" -> ExtendRequest(r, f)
       [] OTHER -> Stay(r)

-----------------------------------------------------------------------------
(* The console commands. *)

\* The addresses "add pool <last byte>/<mask>" goes through; size is 2^(32 - mask),
\* and the last byte wraps.
PoolRange(last, size) ==
  { ((last \div size) * size + i) % ByteSpace : i \in 0..(size - 1) }

\* Mutant: find_ip_pool is not asked.
AddPoolTwice(s, range) ==
  [s EXCEPT !.pool = [e \in Entry |-> IF e \in range THEN @[e] + 1 ELSE @[e]]]

\* add_pool: an address that is in the pool is not added again.
AddPool(s, range) ==
  [s EXCEPT !.pool = [e \in Entry |->
     IF e \in range /\ \A d \in InPool(s) : Value(s, d) # e THEN @[e] + 1 ELSE @[e]]]

\* The addresses of ended leases, pushed one by one.
BackToPool(s, ended) ==
  [s EXCEPT !.pool = [e \in Entry |->
     @[e] + Cardinality({ i \in 1..Len(ended) : ended[i].ip = e })]]

\* The lists std::sort may leave, leases of equal time in any order, and how many at
\* the front of such a list the loop of add_time ends.
ByTime(given) ==
  LET Place == 1..Len(given) IN
  { [k \in Place |-> given[p[k]]] : p \in
      { p \in Bijection(Place, Place) : \A i, j \in Place : i < j => given[p[i]].time <= given[p[j]].time } }
Expired(given) == Cardinality({ i \in 1..Len(given) : \A j \in 1..i : given[j].time = 0 })

Aged(given, t) == [i \in 1..Len(given) |-> [given[i] EXCEPT !.time = (@ - t) % TimeSpace]]

\* End the first n leases of the list: t_dhcp_timeout, push_back, erase.
End(s, list, n) ==
  Outcome([BackToPool(s, SubSeq(list, 1, n)) EXCEPT !.given = SubSeq(list, n + 1, Len(list))],
          [i \in 1..n |-> Frame("DHCP_TIMEOUT", list[i].mac, list[i].ip, 0)])

\* Mutant: the leases are not sorted.
AddTimeUnsorted(s, t) ==
  LET list == Aged(s.given, t) IN { End(s, list, Expired(list)) }

\* add_time: what is left of a lease is unsigned, so only a lease that ends
\* exactly now has expired; a longer step goes round.
AddTime(s, t) ==
  { End(s, list, Expired(list)) : list \in ByTime(Aged(s.given, t)) }
=============================================================================

----------------------------- MODULE Allocation -----------------------------
(***************************************************************************)
(* What a lease server promises (implemented by LeaseServer): an address   *)
(* that was added is free, offered to one client, or leased to one until a *)
(* time it was told; it goes from one to the other in a few ways only, one *)
(* address at a time, and a lease ends when it is due.                     *)
(***************************************************************************)
EXTENDS Naturals

CONSTANTS
  Address,
  Client,
  Span       \* how long a lease may be granted or extended for

VARIABLES
  place,     \* the places each address is in
  now,
  broken     \* a flaw of the server has shown: it promises nothing any more

Free == [at |-> "pool"]
Offered(c) == [at |-> "offer", to |-> c]
Leased(c, end) == [at |-> "lease", to |-> c, end |-> end]

Init == place = [a \in Address |-> {}] /\ now = 0 /\ broken = FALSE

\* The lowest free address goes to a client that asks.
Offer(a) ==
  /\ place[a] = {Free} /\ \A b \in Address : place[b] = {Free} => a <= b
  /\ \E c \in Client : place'[a] = {Offered(c)}

\* Whoever asks for an address that is offered to anyone has the lease.
Grant(a) ==
  /\ \E c \in Client : place[a] = {Offered(c)}
  /\ \E c \in Client, t \in Span : place'[a] = {Leased(c, now + t)}

\* An offer that its client does not want is free again.
TakeBack(a) ==
  /\ \E c \in Client : place[a] = {Offered(c)}
  /\ place'[a] = {Free}

\* A lease lasts longer, and is from now on that of whoever asked.
Extend(a) ==
  \E old \in place[a] :
    /\ old.at = "lease" /\ place[a] = {old}
    /\ \E c \in Client, t \in Span : place'[a] = {Leased(c, old.end + t)}

\* One address moves.
Move(a) ==
  /\ now' = now /\ place'[a] # place[a] /\ place' = [place EXCEPT ![a] = place'[a]]
  /\ Offer(a) \/ Grant(a) \/ TakeBack(a) \/ Extend(a)

\* Addresses the server does not know yet come in.
Add ==
  /\ now' = now
  /\ place' = [a \in Address |-> IF place[a] = {} /\ place'[a] = {Free} THEN {Free} ELSE place[a]]

\* Time passes: the leases that are due end, and none is overdue.
Pass ==
  /\ now' \in Nat /\ now' > now
  /\ \A a \in Address : \A there \in place[a] : there.at = "lease" => there.end >= now'
  /\ place' = [a \in Address |-> IF \E c \in Client : place[a] = {Leased(c, now')} THEN {Free} ELSE place[a]]

Next == broken' \/ (~broken /\ ~broken' /\ ((\E a \in Address : Move(a)) \/ Add \/ Pass))

Spec == Init /\ [][Next]_<<place, now, broken>>

\* What a client may rely on while the server is whole: the lease of its address is
\* not taken away before it is due.
Lasts ==
  \A a \in Address : \A old \in place[a] :
    old.at = "lease" /\ now' < old.end /\ ~broken' =>
      \E new \in place'[a] : new.at = "lease" /\ new.end >= old.end
LeaseLasts == [][Lasts]_<<place, now, broken>>
=============================================================================

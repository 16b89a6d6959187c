----------------------------- MODULE NatProofs -----------------------------
(***************************************************************************)
(* Proofs about the NAT machine, for any clients, hosts, base ports and    *)
(* bounds: the type invariant, the uniqueness of mappings and addresses,   *)
(* and that inbound frames reach only the client that asked for them.      *)
(***************************************************************************)
EXTENDS Nat, TLAPS

-----------------------------------------------------------------------------
(* What the halves of a push_back and clear() do to a vector. *)

LEMMA ConstructVec ==
  ASSUME NEW S, NEW v \in VecOf(S), NEW x \in S
  PROVE  /\ Construct(v, x) \in VecOf(S)
         /\ Construct(v, x).size = v.size
         /\ v.size + 1 \in 1..Len(Construct(v, x).slots)
         /\ Len(v.slots) <= Len(Construct(v, x).slots)
         /\ Construct(v, x).slots[v.size + 1] = x
         /\ \A i \in 1..Len(Construct(v, x).slots) : i # v.size + 1 =>
              i \in 1..Len(v.slots) /\ Construct(v, x).slots[i] = v.slots[i]
         /\ \A i \in 1..v.size : Construct(v, x).slots[i] = v.slots[i]
<1> DEFINE w == Construct(v, x)
<1>1. v.slots \in Seq(S) /\ v.size \in Nat /\ v.size <= Len(v.slots)
  BY DEF VecOf
<1>2. CASE v.size < Len(v.slots)
  BY <1>2 DEF VecOf, Construct
<1>3. CASE ~(v.size < Len(v.slots))
  <2>1. w = [v EXCEPT !.slots = Append(v.slots, x)]
    BY <1>3 DEF Construct
  <2>a. Append(v.slots, x) \in Seq(S)
    BY <1>1
  <2>b. v \in [slots : Seq(S), size : Nat]
    BY DEF VecOf
  <2> HIDE DEF w
  <2>2. w.slots = Append(v.slots, x) /\ w.size = v.size /\ w \in [slots : Seq(S), size : Nat]
    BY <2>1, <2>a, <2>b
  <2>3. v.size = Len(v.slots) /\ Len(w.slots) = v.size + 1
    BY <2>2, <1>1, <1>3
  <2>4. w \in VecOf(S)
    BY <2>2, <2>3, <1>1 DEF VecOf
  <2>5. \A i \in 1..v.size : w.slots[i] = v.slots[i]
    BY <2>2, <2>3, <1>1
  <2>6. w.slots[v.size + 1] = x
    BY <2>2, <2>3, <1>1
  <2>7. QED BY <2>2, <2>3, <2>4, <2>5, <2>6, <1>1 DEF w
<1>4. QED BY <1>2, <1>3

LEMMA GrownVec ==
  ASSUME NEW S, NEW v \in VecOf(S), NEW seen \in Nat,
         v.size <= seen, seen < Len(v.slots), NEW w \in Grown(v, seen)
  PROVE  /\ w \in VecOf(S)
         /\ w.slots = v.slots
         /\ w.size \in {v.size + 1, seen + 1}
BY DEF VecOf, Grown

LEMMA ClearVec ==
  ASSUME NEW S, NEW v \in VecOf(S)
  PROVE  /\ Clear(v) \in VecOf(S)
         /\ Clear(v).slots = v.slots
         /\ Clear(v).size = 0
BY DEF VecOf, Clear

LEMMA SlotType ==
  ASSUME NEW S, NEW v \in VecOf(S), NEW i \in 1..Len(v.slots)
  PROVE  v.slots[i] \in S
BY DEF VecOf

\* Every address the machine can compute within the bounds is one of Public.
LEMMA NewAddressPublic ==
  ASSUME NEW b \in BasePorts \cup {DefaultBase}, NEW n \in 0..MaxCounter
  PROVE  NewAddress(b, n) \in Public
BY SMTT(30) DEF Public

\* A port fits in sixteen bits.
LEMMA PortUpTo ==
  \A b \in Port : b \in Nat /\ b < 65536
<1>1. \A n \in Nat : \A b \in 0..n : b \in Nat /\ b < n + 1
  OBVIOUS
<1>2. 65535 \in Nat
  OBVIOUS
<1>3. \A b \in 0..65535 : b \in Nat /\ b < 65535 + 1
  BY <1>1, <1>2, SMTT(60)
<1> QED
  BY <1>3, SMTT(60) DEF Port

\* A number's remainder, from zero up to twice the divisor.
LEMMA SmallRemainder ==
  ASSUME NEW b \in Nat, NEW n \in Nat \ {0}, b < n
  PROVE  b % n = b
BY SMTT(30)

LEMMA LargeRemainder ==
  ASSUME NEW b \in Nat, NEW n \in Nat \ {0}, n <= b, b < 2 * n
  PROVE  b % n = b - n
BY SMTT(30)

\* Ports 100 and 200 above a base port, around the end of the range, differ from it
\* and from each other.
LEMMA PortsApart ==
  ASSUME NEW b \in Port
  PROVE  /\ (b + 0 * 100) % 65536 # (b + 1 * 100) % 65536
         /\ (b + 0 * 100) % 65536 # (b + 2 * 100) % 65536
         /\ (b + 1 * 100) % 65536 # (b + 2 * 100) % 65536
<1> DEFINE Rest(m) == m % 65536
<1>1. b \in Nat /\ b < 65536
  BY PortUpTo
<1>0. ASSUME NEW m \in Nat, m < 2 * 65536
      PROVE  Rest(m) = IF m < 65536 THEN m ELSE m - 65536
  <2>1. CASE m < 65536
    BY <2>1, SmallRemainder
  <2>2. CASE 65536 <= m
    BY <1>0, <2>2, LargeRemainder
  <2> QED
    BY <2>1, <2>2
<1> HIDE DEF Rest
<1>2. Rest(b) = b
  BY <1>0, <1>1
<1>3. Rest(b + 100) = IF b + 100 < 65536 THEN b + 100 ELSE b + 100 - 65536
  BY <1>0, <1>1
<1>4. Rest(b + 200) = IF b + 200 < 65536 THEN b + 200 ELSE b + 200 - 65536
  BY <1>0, <1>1
<1>5. /\ b # (IF b + 100 < 65536 THEN b + 100 ELSE b + 100 - 65536)
      /\ b # (IF b + 200 < 65536 THEN b + 200 ELSE b + 200 - 65536)
      /\ (IF b + 100 < 65536 THEN b + 100 ELSE b + 100 - 65536)
           # (IF b + 200 < 65536 THEN b + 200 ELSE b + 200 - 65536)
  BY <1>1
<1>6. b + 0 * 100 = b /\ b + 1 * 100 = b + 100 /\ b + 2 * 100 = b + 200
  BY <1>1
<1>7. Rest(b) # Rest(b + 100) /\ Rest(b) # Rest(b + 200) /\ Rest(b + 100) # Rest(b + 200)
  BY <1>2, <1>3, <1>4, <1>5
<1> QED
  BY <1>6, <1>7 DEF Rest

\* Under one base port no two values of the counter give one address.
LEMMA NewAddressInjective ==
  ASSUME NEW b \in Port, NEW m \in Nat, NEW n \in Nat,
         NewAddress(b, m) = NewAddress(b, n)
  PROVE  m = n
<1> DEFINE ip(k) == k \div 3 + 1
           port(k) == (b + (k % 3) * 100) % 65536
<1>0. ip(m) = ip(n) /\ port(m) = port(n)
  <2>1. \A k : NewAddress(b, k) = [ip |-> ip(k), port |-> port(k)]
    BY DEF NewAddress
  <2> HIDE DEF ip, port
  <2>2. \A k : NewAddress(b, k).ip = ip(k) /\ NewAddress(b, k).port = port(k)
    BY <2>1
  <2> QED
    BY <2>2
<1>1. m \div 3 = n \div 3
  <2>1. m \div 3 + 1 = n \div 3 + 1
    BY <1>0
  <2> QED
    BY <2>1
<1>2. (b + (m % 3) * 100) % 65536 = (b + (n % 3) * 100) % 65536
  BY <1>0
<1> HIDE DEF ip, port
<1>3. /\ m % 3 \in {0, 1, 2} /\ m = 3 * (m \div 3) + (m % 3)
      /\ n % 3 \in {0, 1, 2} /\ n = 3 * (n \div 3) + (n % 3)
  BY SMTT(30)
<1> DEFINE f(k) == (b + k * 100) % 65536
<1>4. f(0) # f(1) /\ f(0) # f(2) /\ f(1) # f(2)
  BY PortsApart
<1>5. m % 3 = n % 3
  <2>1. f(m % 3) = f(n % 3)
    BY <1>2
  <2> HIDE DEF f
  <2>2. \A i, j \in {0, 1, 2} : f(i) = f(j) => i = j
    BY <1>4
  <2> DEFINE x == m % 3
             y == n % 3
  <2>3. x \in {0, 1, 2} /\ y \in {0, 1, 2} /\ f(x) = f(y)
    BY <2>1, <1>3
  <2>4. x = y
    <3> HIDE DEF x, y
    <3>1. QED BY <2>2, <2>3
  <2>5. QED BY <2>4
<1>6. QED BY <1>1, <1>3, <1>5

-----------------------------------------------------------------------------
(* The inductive invariant. *)

BaseInv == base_port \in BasePorts \cup {DefaultBase}

\* The history of addresses: one per value of the counter, computed from it.
IssuedInv ==
  /\ \A e \in issued : e.n < counter /\ e.public = NewAddress(e.base, e.n)
  /\ \A d, e \in issued : d.n = e.n => d = e

Issued(l, p) == \E e \in issued : e.local = l /\ e.public = p
SomeoneContacted(p, o) == \E l \in Insiders : <<l, p, o>> \in contacted

\* Every constructed slot of the table, in use or not, was handed out.
TableInv ==
  \A i \in 1..Len(table.slots) : Issued(table.slots[i].local, table.slots[i].public)

\* Every constructed session but the one being pushed was used to send.
SessionInv ==
  \A i \in 1..Len(sessions.slots) :
    \/ SomeoneContacted(sessions.slots[i].public, sessions.slots[i].outer)
    \/ main.pc = "OutForward" /\ i = main.seen + 1

\* What the main thread knows at each of its steps.
MainInv ==
  /\ main.pc \in {"InFilter", "InForward"} =>
       main.idx \in 1..Len(table.slots) /\ table.slots[main.idx].public = main.dst
  /\ main.pc = "InForward" => SomeoneContacted(main.dst, main.src)
  /\ main.pc = "OutAllocate" => \A i \in 1..table.size : table.slots[i].local # main.src
  /\ main.pc \in {"OutCheck", "OutLookup", "OutAllocate"} => counter < MaxCounter
  /\ main.pc = "OutGrow" =>
       /\ main.seen < Len(table.slots)
       /\ table.size <= main.seen
       /\ table.slots[main.seen + 1].local = main.src
       /\ \A i, j \in 1..(main.seen + 1) : table.slots[i].local = table.slots[j].local => i = j
       /\ "table" \notin race => table.size = main.seen
  /\ main.pc = "OutIndex" /\ "table" \notin race =>
       table.size > 0 /\ table.slots[table.size].local = main.src
  /\ main.pc \in {"OutSession", "OutForward"} =>
       /\ main.idx \in 1..Len(table.slots)
       /\ "table" \notin race => table.slots[main.idx].local = main.src
  /\ main.pc = "OutForward" =>
       /\ main.seen < Len(sessions.slots)
       /\ sessions.size <= main.seen
       /\ sessions.slots[main.seen + 1] =
            [public |-> table.slots[main.idx].public, outer |-> main.dst]

\* Whatever was let in had been handed out, and someone had asked for it.
DeliveredInv ==
  \A d \in delivered : Issued(d[1], d[2]) /\ SomeoneContacted(d[2], d[3])

IInv == /\ TypeOK /\ BaseInv /\ IssuedInv /\ TableInv /\ SessionInv /\ MainInv
        /\ OneMappingPerClient /\ OwnAddress /\ DeliveredInv

\* A step leaves alone what speaks of what it does not change.
LEMMA SameIssued ==
  ASSUME issued' = issued
  PROVE  /\ TableInv /\ table'.slots = table.slots => TableInv'
         /\ DeliveredInv /\ UNCHANGED <<contacted, delivered>> => DeliveredInv'
         /\ IssuedInv /\ counter' = counter => IssuedInv'
         /\ OwnAddress /\ UNCHANGED contacted /\ race \subseteq race' => OwnAddress'
BY DEF TableInv, DeliveredInv, IssuedInv, OwnAddress, Issued, SomeoneContacted

LEMMA SameVectors ==
  /\ BaseInv /\ base_port' = base_port => BaseInv'
  /\ OneMappingPerClient /\ table' = table => OneMappingPerClient'
  /\ SessionInv /\ UNCHANGED <<sessions, contacted>>
       /\ (main.pc = "OutForward" => main' = main) => SessionInv'
BY DEF BaseInv, OneMappingPerClient, SessionInv, SomeoneContacted

-----------------------------------------------------------------------------
(* The initial states and the steps. *)

LEMMA InitInv == Init => IInv
<1> SUFFICES ASSUME Init PROVE IInv
  OBVIOUS
<1>1. EmptyVec \in VecOf(Pair) /\ EmptyVec \in VecOf(SessionOf)
  BY DEF EmptyVec, VecOf
<1>2. TypeOK
  BY <1>1, BoundsAssumption DEF Init, TypeOK, MainState, DefaultBase, Port
<1>3. QED
  BY <1>2 DEF Init, IInv, EmptyVec, BaseInv, IssuedInv, TableInv, SessionInv, MainInv,
    OneMappingPerClient, OwnAddress, DeliveredInv

LEMMA ReceiveOutsideInv ==
  ASSUME IInv, NEW src \in Outsiders, NEW dst \in Public, ReceiveOutside(src, dst)
  PROVE  IInv'
<1>1. TypeOK'
  BY DEF IInv, TypeOK, ReceiveOutside, MainState, netVars, history
<1>2. /\ UNCHANGED <<table, sessions, counter, base_port, issued, contacted, delivered, race>>
      /\ main.pc = "idle" /\ main'.pc = "InLookup"
  BY DEF ReceiveOutside, netVars, history
<1>3. TableInv' /\ DeliveredInv' /\ IssuedInv' /\ OwnAddress'
  BY <1>2, SameIssued DEF IInv
<1>4. BaseInv' /\ OneMappingPerClient' /\ SessionInv'
  BY <1>2, SameVectors DEF IInv
<1>5. MainInv'
  BY <1>2 DEF MainInv
<1>6. QED
  BY <1>1, <1>3, <1>4, <1>5 DEF IInv

LEMMA InLookupInv == IInv /\ InLookup => IInv'
<1> SUFFICES ASSUME IInv, InLookup PROVE IInv'
  OBVIOUS
<1> USE DEF netVars, history
<1>1. TypeOK'
  BY DEF IInv, TypeOK, InLookup, MainState, Return, VecOf
<1>2. MainInv'
  BY DEF IInv, TypeOK, VecOf, MainInv, InLookup, Return, First, PublicMatches
<1>3. QED
  BY <1>1, <1>2 DEF IInv, BaseInv, IssuedInv, TableInv, SessionInv, OneMappingPerClient,
    OwnAddress, DeliveredInv, Issued, SomeoneContacted, InLookup, Return

LEMMA InFilterInv == IInv /\ InFilter => IInv'
<1> SUFFICES ASSUME IInv, InFilter PROVE IInv'
  OBVIOUS
<1> USE DEF netVars, history
<1>1. TypeOK'
  BY DEF IInv, TypeOK, InFilter, MainState, Goto, Return
<1>2. HasSession(main.dst, main.src) => SomeoneContacted(main.dst, main.src)
  BY DEF IInv, TypeOK, VecOf, SessionInv, HasSession, Live, InFilter
<1>3. MainInv'
  <2>1. CASE HasSession(main.dst, main.src)
    <3>1. /\ main'.pc = "InForward" /\ main'.src = main.src
          /\ main'.dst = main.dst /\ main'.idx = main.idx
      BY <2>1 DEF IInv, TypeOK, InFilter, MainState, Goto
    <3>2. QED BY <1>2, <2>1, <3>1 DEF IInv, MainInv, InFilter, SomeoneContacted
  <2>2. CASE ~HasSession(main.dst, main.src)
    BY <2>2 DEF MainInv, InFilter, Return
  <2>3. QED BY <2>1, <2>2
<1>4. QED
  BY <1>1, <1>3 DEF IInv, BaseInv, IssuedInv, TableInv, SessionInv, OneMappingPerClient,
    OwnAddress, DeliveredInv, Issued, SomeoneContacted, InFilter, Goto, Return

LEMMA InForwardInv == IInv /\ InForward => IInv'
<1> SUFFICES ASSUME IInv, InForward PROVE IInv'
  OBVIOUS
<1> USE DEF netVars, history
<1> DEFINE e == table.slots[main.idx]
<1>1. e \in Pair /\ e.public = main.dst /\ main.src \in Outsiders /\ main.dst \in Public
  BY DEF IInv, TypeOK, VecOf, MainInv, MainState, InForward
<1>2. TypeOK'
  BY <1>1 DEF IInv, TypeOK, InForward, MainState, Return, Pair
<1>3. Issued(e.local, main.dst) /\ SomeoneContacted(main.dst, main.src)
  BY <1>1 DEF IInv, MainInv, TableInv, InForward
<1>4. DeliveredInv'
  BY <1>3 DEF IInv, DeliveredInv, Issued, SomeoneContacted, InForward
<1>5. QED
  BY <1>2, <1>4 DEF IInv, BaseInv, IssuedInv, TableInv, SessionInv, MainInv,
    OneMappingPerClient, OwnAddress, Issued, SomeoneContacted, InForward, Return

LEMMA ReceiveInsideInv ==
  ASSUME IInv, NEW src \in Insiders, NEW dst \in Outsiders, ReceiveInside(src, dst)
  PROVE  IInv'
<1> USE DEF netVars, history
<1>1. TypeOK'
  BY DEF IInv, TypeOK, ReceiveInside, MainState
<1>2. QED
  BY <1>1 DEF IInv, BaseInv, IssuedInv, TableInv, SessionInv, MainInv, OneMappingPerClient,
    OwnAddress, DeliveredInv, Issued, SomeoneContacted, ReceiveInside

LEMMA OutCheckInv == IInv /\ OutCheck => IInv'
<1> SUFFICES ASSUME IInv, OutCheck PROVE IInv'
  OBVIOUS
<1> USE DEF netVars, history
<1>1. TypeOK'
  BY DEF IInv, TypeOK, OutCheck, MainState, Goto, Return
<1>2. MainInv'
  BY DEF IInv, TypeOK, VecOf, MainInv, OutCheck, Goto, Return, MainState
<1>3. QED
  BY <1>1, <1>2 DEF IInv, BaseInv, IssuedInv, TableInv, SessionInv, OneMappingPerClient,
    OwnAddress, DeliveredInv, Issued, SomeoneContacted, OutCheck, Goto, Return

LEMMA OutLookupInv == IInv /\ OutLookup => IInv'
<1> SUFFICES ASSUME IInv, OutLookup PROVE IInv'
  OBVIOUS
<1> USE DEF netVars, history
<1>1. TypeOK'
  BY DEF IInv, TypeOK, OutLookup, MainState, Goto, Return, First
<1>2. MainInv'
  BY DEF IInv, TypeOK, VecOf, MainInv, OutLookup, Goto, First, LocalMatches, MainState
<1>3. QED
  BY <1>1, <1>2 DEF IInv, BaseInv, IssuedInv, TableInv, SessionInv, OneMappingPerClient,
    OwnAddress, DeliveredInv, Issued, SomeoneContacted, OutLookup, Goto

LEMMA OutAllocateInv == IInv /\ OutAllocate => IInv'
<1> SUFFICES ASSUME IInv, OutAllocate PROVE IInv'
  OBVIOUS
<1> USE DEF netVars, history
<1> DEFINE p == NewAddress(base_port, counter)
           x == [local |-> main.src, public |-> p]
           rec == [n |-> counter, base |-> base_port, local |-> main.src, public |-> p]
<1>1. /\ counter \in 0..MaxCounter /\ counter + 1 \in 0..MaxCounter
      /\ main.src \in Insiders /\ main.dst \in Outsiders
  BY BoundsAssumption DEF IInv, TypeOK, MainInv, MainState, OutAllocate
<1>2. p \in Public
  BY <1>1, NewAddressPublic DEF IInv, BaseInv
<1>3. x \in Pair /\ table \in VecOf(Pair)
  BY <1>1, <1>2 DEF Pair, IInv, TypeOK
<1>4. rec \in [n : 0..MaxCounter, base : Port, local : Insiders, public : Public]
  BY <1>1, <1>2 DEF IInv, TypeOK
<1>5. /\ table' = Construct(table, x) /\ issued' = issued \cup {rec}
      /\ counter' = counter + 1
      /\ main' = [pc |-> "OutGrow", src |-> main.src, dst |-> main.dst, seen |-> table.size]
  BY DEF OutAllocate
<1> HIDE DEF p, x, rec
<1>6. /\ table' \in VecOf(Pair) /\ table'.size = table.size
      /\ table.size + 1 \in 1..Len(table'.slots)
      /\ Len(table.slots) <= Len(table'.slots)
      /\ table'.slots[table.size + 1] = x
      /\ \A i \in 1..Len(table'.slots) : i # table.size + 1 =>
           i \in 1..Len(table.slots) /\ table'.slots[i] = table.slots[i]
      /\ \A i \in 1..table.size : table'.slots[i] = table.slots[i]
  BY <1>3, <1>5, ConstructVec
<1>7. table.size \in Nat /\ x.local = main.src /\ x.public = p
  BY DEF IInv, TypeOK, VecOf, x
<1>8. TypeOK'
  <2>1. main' \in MainState
    BY <1>1, <1>5, <1>7 DEF MainState
  <2>2. issued' \subseteq [n : 0..MaxCounter, base : Port, local : Insiders, public : Public]
    BY <1>4, <1>5 DEF IInv, TypeOK
  <2>3. table' \in VecOf(Pair) /\ counter' \in 0..MaxCounter
    BY <1>1, <1>5, <1>6
  <2>4. UNCHANGED <<blocked, sessions, base_port, console, resets, contacted, delivered, race>>
    BY DEF OutAllocate
  <2> QED
    BY <2>1, <2>2, <2>3, <2>4 DEF IInv, TypeOK
<1>9. IssuedInv'
  BY <1>1, <1>5 DEF IInv, TypeOK, IssuedInv, rec, p
<1>10. \A l, q : Issued(l, q) => Issued(l, q)'
  BY <1>5 DEF Issued
<1>11. \E e \in issued' : e.local = x.local /\ e.public = x.public
  <2>1. rec \in issued'
    BY <1>5
  <2>2. rec.local = main.src /\ rec.public = p
    BY DEF rec
  <2>3. QED BY <2>1, <2>2, <1>7
<1>12. TableInv'
  <2> SUFFICES ASSUME NEW i \in 1..Len(table'.slots)
               PROVE  Issued(table.slots[i].local, table.slots[i].public)'
    BY DEF TableInv
  <2>1. CASE i = table.size + 1
    BY <2>1, <1>6, <1>11 DEF Issued
  <2>2. CASE i # table.size + 1
    BY <2>2, <1>5, <1>6 DEF IInv, TableInv, Issued
  <2>3. QED BY <2>1, <2>2
<1>13. MainInv'
  <2>1. \A i \in 1..table.size : table.slots[i].local # main.src
    BY DEF IInv, MainInv, OutAllocate
  <2>2. \A i, j \in 1..(table.size + 1) :
          table'.slots[i].local = table'.slots[j].local => i = j
    <3> SUFFICES ASSUME NEW i \in 1..(table.size + 1), NEW j \in 1..(table.size + 1),
                        table'.slots[i].local = table'.slots[j].local
                 PROVE  i = j
      OBVIOUS
    <3>1. CASE i \in 1..table.size /\ j \in 1..table.size
      BY <3>1, <1>6 DEF IInv, OneMappingPerClient
    <3>2. CASE i = table.size + 1 /\ j \in 1..table.size
      BY <3>2, <1>6, <1>7, <2>1
    <3>3. CASE j = table.size + 1 /\ i \in 1..table.size
      BY <3>3, <1>6, <1>7, <2>1
    <3>4. QED BY <3>1, <3>2, <3>3, <1>7
  <2>3. QED BY <2>2, <1>5, <1>6, <1>7 DEF MainInv
<1>14. OneMappingPerClient' /\ BaseInv'
  <2>1. base_port' = base_port /\ BaseInv /\ OneMappingPerClient
    BY DEF OutAllocate, IInv
  <2>2. table'.size = table.size /\ \A i \in 1..table.size : table'.slots[i] = table.slots[i]
    BY <1>6
  <2> QED
    BY <2>1, <2>2 DEF OneMappingPerClient, BaseInv
<1>15. OwnAddress' /\ DeliveredInv'
  BY <1>10 DEF IInv, OwnAddress, DeliveredInv, SomeoneContacted, OutAllocate, Issued
<1>16. SessionInv'
  BY <1>5 DEF IInv, SessionInv, SomeoneContacted, OutAllocate
<1>17. QED
  BY <1>8, <1>9, <1>12, <1>13, <1>14, <1>15, <1>16 DEF IInv

LEMMA OutGrowInv == IInv /\ OutGrow => IInv'
<1> SUFFICES ASSUME IInv, OutGrow PROVE IInv'
  OBVIOUS
<1> USE DEF netVars, history
<1>1. /\ main.seen \in Nat /\ main.src \in Insiders /\ main.dst \in Outsiders
      /\ table \in VecOf(Pair) /\ main.seen < Len(table.slots) /\ table.size <= main.seen
  BY DEF IInv, TypeOK, MainInv, MainState, OutGrow
<1>2. /\ table' \in VecOf(Pair) /\ table'.slots = table.slots
      /\ table'.size \in {table.size + 1, main.seen + 1}
  BY <1>1, GrownVec DEF OutGrow
<1>3. table.size \in Nat
  BY <1>1 DEF VecOf
<1>4. TypeOK'
  BY <1>1, <1>2 DEF IInv, TypeOK, OutGrow, MainState, Goto
<1>5. MainInv'
  BY <1>1, <1>2, <1>3 DEF IInv, TypeOK, MainInv, OutGrow, Goto
<1>6. OneMappingPerClient'
  BY <1>1, <1>2, <1>3, SMTT(30) DEF IInv, MainInv, OneMappingPerClient, OutGrow
<1>7. /\ UNCHANGED <<sessions, counter, base_port, issued, contacted, delivered, race>>
      /\ main.pc = "OutGrow" /\ main'.pc = "OutIndex"
  BY DEF OutGrow, Goto, IInv, TypeOK, MainState
<1>8. TableInv' /\ DeliveredInv' /\ IssuedInv' /\ OwnAddress'
  BY <1>2, <1>7, SameIssued DEF IInv
<1>9. BaseInv' /\ SessionInv'
  BY <1>7, SameVectors DEF IInv
<1>10. QED
  BY <1>4, <1>5, <1>6, <1>8, <1>9 DEF IInv

LEMMA OutIndexInv == IInv /\ OutIndex => IInv'
<1> SUFFICES ASSUME IInv, OutIndex PROVE IInv'
  OBVIOUS
<1> USE DEF netVars, history
<1>1. /\ main.src \in Insiders /\ main.dst \in Outsiders
      /\ table.size \in Nat /\ table.size <= Len(table.slots)
  BY DEF IInv, TypeOK, VecOf, MainState, OutIndex
<1>2. TypeOK'
  BY <1>1 DEF IInv, TypeOK, OutIndex, MainState
<1>3. MainInv'
  <2>1. CASE table.size = 0
    BY <2>1 DEF MainInv, OutIndex
  <2>2. CASE table.size # 0
    <3>1. main' = [pc |-> "OutSession", src |-> main.src, dst |-> main.dst, idx |-> table.size]
      BY <2>2 DEF OutIndex
    <3>2. table' = table /\ race' = race /\ sessions' = sessions
      BY DEF OutIndex
    <3>3. "table" \notin race => table.slots[table.size].local = main.src
      BY DEF IInv, MainInv, OutIndex
    <3>4. table.size \in 1..Len(table.slots)
      BY <1>1, <2>2 DEF IInv, TypeOK, VecOf
    <3>5. QED BY <3>1, <3>2, <3>3, <3>4 DEF MainInv
  <2>3. QED BY <2>1, <2>2
<1>4. QED
  BY <1>2, <1>3 DEF IInv, BaseInv, IssuedInv, TableInv, SessionInv, OneMappingPerClient,
    OwnAddress, DeliveredInv, Issued, SomeoneContacted, OutIndex

LEMMA OutSessionInv == IInv /\ OutSession => IInv'
<1> SUFFICES ASSUME IInv, OutSession PROVE IInv'
  OBVIOUS
<1> USE DEF netVars, history
<1> DEFINE x == [public |-> table.slots[main.idx].public, outer |-> main.dst]
<1>1. /\ main.src \in Insiders /\ main.dst \in Outsiders /\ main.idx \in Nat \ {0}
      /\ main.idx \in 1..Len(table.slots)
      /\ "table" \notin race => table.slots[main.idx].local = main.src
  BY DEF IInv, TypeOK, MainInv, MainState, OutSession
<1>2. x \in SessionOf /\ sessions \in VecOf(SessionOf)
  <2>1. table.slots[main.idx] \in Pair
    BY <1>1, SlotType DEF IInv, TypeOK
  <2>2. QED BY <1>1, <2>1 DEF IInv, TypeOK, Pair, SessionOf
<1>3. /\ sessions' = Construct(sessions, x)
      /\ main' = [pc |-> "OutForward", src |-> main.src, dst |-> main.dst,
                   idx |-> main.idx, seen |-> sessions.size]
      /\ table' = table /\ race' = race /\ contacted' = contacted
  BY DEF OutSession
<1>4. x.public = table.slots[main.idx].public /\ x.outer = main.dst
  OBVIOUS
<1>5. x = [public |-> table'.slots[main'.idx].public, outer |-> main'.dst]
  BY <1>3
<1> HIDE DEF x
<1>6. /\ sessions' \in VecOf(SessionOf) /\ sessions'.size = sessions.size
      /\ sessions.size + 1 \in 1..Len(sessions'.slots)
      /\ sessions'.slots[sessions.size + 1] = x
      /\ \A i \in 1..Len(sessions'.slots) : i # sessions.size + 1 =>
           i \in 1..Len(sessions.slots) /\ sessions'.slots[i] = sessions.slots[i]
  BY <1>2, <1>3, ConstructVec
<1>7. sessions.size \in Nat /\ Len(sessions'.slots) \in Nat
  BY <1>2, <1>6 DEF VecOf
<1>8. TypeOK'
  <2>1. main' \in MainState
    BY <1>1, <1>3, <1>7 DEF MainState
  <2>2. UNCHANGED <<blocked, table, base_port, counter, console, resets, issued, contacted,
                    delivered, race>>
    BY DEF OutSession
  <2> QED
    BY <1>6, <2>1, <2>2 DEF IInv, TypeOK
<1>9. SessionInv'
  <2> SUFFICES ASSUME NEW i \in 1..Len(sessions'.slots), i # sessions.size + 1
               PROVE  SomeoneContacted(sessions'.slots[i].public, sessions'.slots[i].outer)
    BY <1>3 DEF SessionInv, SomeoneContacted
  <2>1. i \in 1..Len(sessions.slots) /\ sessions'.slots[i] = sessions.slots[i]
    BY <1>6
  <2>2. QED BY <2>1 DEF IInv, SessionInv, OutSession
<1>10. MainInv'
  <2>1. main'.pc = "OutForward" /\ main'.seen = sessions.size /\ main'.src = main.src
        /\ main'.idx = main.idx
    BY <1>3
  <2>2. main'.seen < Len(sessions'.slots) /\ sessions'.size <= main'.seen
    BY <2>1, <1>6, <1>7
  <2>3. sessions'.slots[main'.seen + 1] =
          [public |-> table'.slots[main'.idx].public, outer |-> main'.dst]
    BY <2>1, <1>5, <1>6
  <2>4. QED BY <2>1, <2>2, <2>3, <1>1, <1>3 DEF MainInv
<1>11. QED
  BY <1>8, <1>9, <1>10 DEF IInv, BaseInv, IssuedInv, TableInv, OneMappingPerClient,
    OwnAddress, DeliveredInv, Issued, SomeoneContacted, OutSession

LEMMA OutForwardInv == IInv /\ OutForward => IInv'
<1> SUFFICES ASSUME IInv, OutForward PROVE IInv'
  OBVIOUS
<1> USE DEF netVars, history
<1> DEFINE p == table.slots[main.idx].public
           c == <<main.src, p, main.dst>>
<1>1. /\ main.src \in Insiders /\ main.dst \in Outsiders /\ main.seen \in Nat
      /\ main.idx \in 1..Len(table.slots)
      /\ "table" \notin race => table.slots[main.idx].local = main.src
      /\ main.seen < Len(sessions.slots) /\ sessions.size <= main.seen
      /\ sessions.slots[main.seen + 1] = [public |-> p, outer |-> main.dst]
  BY DEF IInv, TypeOK, MainInv, MainState, OutForward
<1>2. p \in Public /\ sessions \in VecOf(SessionOf)
  <2>1. table.slots[main.idx] \in Pair
    BY <1>1, SlotType DEF IInv, TypeOK
  <2>2. QED BY <2>1 DEF IInv, TypeOK, Pair
<1>3. sessions' \in VecOf(SessionOf) /\ sessions'.slots = sessions.slots
  BY <1>1, <1>2, GrownVec DEF OutForward
<1>4. contacted' = contacted \cup {c} /\ table' = table /\ issued' = issued /\ race' = race
  BY DEF OutForward
<1>5. TypeOK'
  BY <1>1, <1>2, <1>3, <1>4, SMTT(30) DEF IInv, TypeOK, MainState, OutForward, Return
<1>8. SessionInv'
  <2> SUFFICES ASSUME NEW i \in 1..Len(sessions.slots)
               PROVE  SomeoneContacted(sessions.slots[i].public, sessions.slots[i].outer)'
    BY <1>3 DEF SessionInv
  <2>1. CASE i = main.seen + 1
    <3>1. \E l \in Insiders : <<l, sessions.slots[i].public, sessions.slots[i].outer>> \in contacted'
      BY <2>1, <1>1, <1>4
    <3>2. QED BY <3>1, <1>3 DEF SomeoneContacted
  <2>2. CASE i # main.seen + 1
    <3>1. SomeoneContacted(sessions.slots[i].public, sessions.slots[i].outer)
      BY <2>2 DEF IInv, SessionInv, OutForward
    <3>2. QED BY <3>1, <1>3, <1>4 DEF SomeoneContacted
  <2>3. QED BY <2>1, <2>2
<1>9. OwnAddress'
  <2>1. "table" \notin race => Issued(main.src, p)
    BY <1>1 DEF IInv, TableInv
  <2>2. QED BY <2>1, <1>4 DEF IInv, OwnAddress, Issued
<1>10. DeliveredInv'
  BY <1>4 DEF IInv, DeliveredInv, Issued, SomeoneContacted, OutForward
<1>11. QED
  BY <1>4, <1>5, <1>8, <1>9, <1>10 DEF IInv, BaseInv, IssuedInv, TableInv, MainInv,
    OneMappingPerClient, Issued, OutForward, Return


(* The console's steps change at most the sizes of the vectors. *)

LEMMA BlockRangeInv == ASSUME IInv, NEW r \in Ranges, BlockRange(r) PROVE IInv'
<1> USE DEF netVars, history
<1>1. /\ main'.pc = main.pc
      /\ main.pc # "OutCheck" => main' = main
      /\ race \subseteq race' /\ race' \subseteq race \cup {"filter"}
  BY DEF IInv, TypeOK, MainState, BlockRange
<1>2. main' \in MainState
  <2>1. main \in MainState
    BY DEF IInv, TypeOK
  <2>2. main' = main \/ (main.pc = "OutCheck" /\ main' = [main EXCEPT !.torn = TRUE])
    BY DEF BlockRange
  <2>3. main.pc = "OutCheck" =>
          main \in [pc : {"OutCheck", "OutLookup", "OutAllocate"}, src : Insiders,
                   dst : Outsiders, torn : BOOLEAN]
    BY <2>1 DEF MainState
  <2> QED
    BY <2>1, <2>2, <2>3 DEF MainState
<1>3. TypeOK'
  BY <1>1, <1>2 DEF IInv, TypeOK, BlockRange
<1>4. table' = table /\ sessions' = sessions /\ counter' = counter /\ contacted' = contacted
      /\ issued' = issued /\ delivered' = delivered /\ base_port' = base_port
  BY DEF BlockRange
<1>5. MainInv'
  BY <1>1, <1>4 DEF IInv, MainInv, SomeoneContacted
<1>6. TableInv' /\ DeliveredInv' /\ IssuedInv' /\ OwnAddress'
  BY <1>1, <1>4, SameIssued DEF IInv
<1>7. BaseInv' /\ OneMappingPerClient' /\ SessionInv'
  BY <1>1, <1>4, SameVectors DEF IInv
<1>8. QED
  BY <1>3, <1>5, <1>6, <1>7 DEF IInv

LEMMA ResetBlockedInv == IInv /\ ResetBlocked => IInv'
<1> SUFFICES ASSUME IInv, ResetBlocked PROVE IInv'
  OBVIOUS
<1> USE DEF netVars, history
<1>1. TypeOK'
  BY BoundsAssumption DEF IInv, TypeOK, ResetBlocked
<1>2. UNCHANGED <<table, sessions, counter, base_port, main, issued, contacted, delivered, race>>
  BY DEF ResetBlocked
<1>3. TableInv' /\ DeliveredInv' /\ IssuedInv' /\ OwnAddress'
  BY <1>2, SameIssued DEF IInv
<1>4. BaseInv' /\ OneMappingPerClient' /\ SessionInv'
  BY <1>2, SameVectors DEF IInv
<1>5. MainInv'
  BY <1>2 DEF IInv, MainInv, SomeoneContacted
<1>6. QED
  BY <1>1, <1>3, <1>4, <1>5 DEF IInv

LEMMA ResetTableInv == IInv /\ ResetTable => IInv'
<1> SUFFICES ASSUME IInv, ResetTable PROVE IInv'
  OBVIOUS
<1> USE DEF netVars, history
<1>1. table' \in VecOf(Pair) /\ table'.slots = table.slots /\ table'.size = 0
  BY ClearVec DEF IInv, TypeOK, ResetTable
<1>2. /\ race \subseteq race' /\ race' \subseteq race \cup {"table"}
      /\ main.pc \in {"OutGrow", "OutIndex"} => "table" \in race'
      /\ main' = main /\ contacted' = contacted /\ issued' = issued /\ sessions' = sessions
      /\ counter' = counter
  BY DEF ResetTable
<1>3. TypeOK'
  BY <1>1, <1>2 DEF IInv, TypeOK, ResetTable
<1>4. MainInv'
  <2>1. table.size \in Nat /\ (main.pc = "OutGrow" => main.seen \in Nat)
    BY DEF IInv, TypeOK, VecOf, MainState
  <2>2. QED BY <1>1, <1>2, <2>1 DEF IInv, MainInv, SomeoneContacted
<1>5. OneMappingPerClient'
  BY <1>1 DEF OneMappingPerClient
<1>6. UNCHANGED <<delivered, base_port>>
  BY DEF ResetTable
<1>7. TableInv' /\ DeliveredInv' /\ IssuedInv' /\ OwnAddress'
  BY <1>1, <1>2, <1>6, SameIssued DEF IInv
<1>8. BaseInv' /\ SessionInv'
  BY <1>2, <1>6, SameVectors DEF IInv
<1>9. QED
  BY <1>3, <1>4, <1>5, <1>7, <1>8 DEF IInv

LEMMA ResetSessionsInv == IInv /\ ResetSessions => IInv'
<1> SUFFICES ASSUME IInv, ResetSessions PROVE IInv'
  OBVIOUS
<1> USE DEF netVars, history
<1>1. sessions' \in VecOf(SessionOf) /\ sessions'.slots = sessions.slots /\ sessions'.size = 0
  BY ClearVec DEF IInv, TypeOK, ResetSessions
<1>2. /\ race \subseteq race' /\ race' \subseteq race \cup {"session"}
      /\ main' = main /\ contacted' = contacted /\ issued' = issued /\ table' = table
      /\ counter' = counter
  BY DEF ResetSessions
<1>3. TypeOK'
  BY <1>1, <1>2 DEF IInv, TypeOK, ResetSessions
<1>4. MainInv'
  <2>1. main.pc = "OutForward" => main.seen \in Nat
    BY DEF IInv, TypeOK, MainState
  <2>2. QED BY <1>1, <1>2, <2>1 DEF IInv, MainInv, SomeoneContacted
<1>5. SessionInv'
  BY <1>1, <1>2 DEF IInv, SessionInv, SomeoneContacted
<1>6. UNCHANGED <<delivered, base_port>>
  BY DEF ResetSessions
<1>7. TableInv' /\ DeliveredInv' /\ IssuedInv' /\ OwnAddress'
  BY <1>2, <1>6, SameIssued DEF IInv
<1>8. BaseInv' /\ OneMappingPerClient'
  BY <1>2, <1>6, SameVectors DEF IInv
<1>9. QED
  BY <1>3, <1>4, <1>5, <1>7, <1>8 DEF IInv

LEMMA ReadBaseInv == ASSUME IInv, NEW b \in BasePorts, ReadBase(b) PROVE IInv'
<1> USE DEF netVars, history
<1>1. TypeOK'
  BY BasePortsAssumption DEF IInv, TypeOK, ReadBase
<1>2. QED
  BY <1>1 DEF IInv, BaseInv, IssuedInv, TableInv, SessionInv, MainInv, OneMappingPerClient,
    OwnAddress, DeliveredInv, Issued, SomeoneContacted, ReadBase

-----------------------------------------------------------------------------
(* The theorems. *)

THEOREM Invariance == Spec => []IInv
<1>1. Init => IInv
  BY InitInv
<1>2. IInv /\ [Next]_vars => IInv'
  <2> SUFFICES ASSUME IInv, [Next]_vars PROVE IInv'
    OBVIOUS
  <2>1. CASE UNCHANGED vars
    <3>1. /\ blocked' = blocked /\ table' = table /\ sessions' = sessions
          /\ base_port' = base_port /\ counter' = counter /\ main' = main
          /\ console' = console /\ resets' = resets /\ issued' = issued
          /\ contacted' = contacted /\ delivered' = delivered /\ race' = race
      BY <2>1 DEF vars, netVars, history
    <3>2. TypeOK' /\ BaseInv' /\ IssuedInv'
      BY <3>1 DEF IInv, TypeOK, BaseInv, IssuedInv
    <3>3. TableInv' /\ DeliveredInv' /\ OwnAddress'
      BY <3>1 DEF IInv, TableInv, DeliveredInv, OwnAddress, Issued, SomeoneContacted
    <3>4. SessionInv' /\ OneMappingPerClient'
      BY <3>1 DEF IInv, SessionInv, OneMappingPerClient, SomeoneContacted
    <3>5. MainInv'
      BY <3>1 DEF IInv, MainInv, SomeoneContacted
    <3>6. QED BY <3>2, <3>3, <3>4, <3>5 DEF IInv
  <2>2. CASE MainNext
    <3>1. CASE \E src \in Outsiders, dst \in Public : ReceiveOutside(src, dst)
      BY <3>1, ReceiveOutsideInv
    <3>2. CASE \E src \in Insiders, dst \in Outsiders : ReceiveInside(src, dst)
      BY <3>2, ReceiveInsideInv
    <3>3. CASE InLookup \/ InFilter \/ InForward
      BY <3>3, InLookupInv, InFilterInv, InForwardInv
    <3>4. CASE OutCheck \/ OutLookup \/ OutAllocate \/ OutGrow
      BY <3>4, OutCheckInv, OutLookupInv, OutAllocateInv, OutGrowInv
    <3>5. CASE OutIndex \/ OutSession \/ OutForward
      BY <3>5, OutIndexInv, OutSessionInv, OutForwardInv
    <3>6. QED BY <2>2, <3>1, <3>2, <3>3, <3>4, <3>5 DEF MainNext
  <2>3. CASE ConsoleNext
    BY <2>3, BlockRangeInv, ResetBlockedInv, ResetTableInv, ResetSessionsInv, ReadBaseInv
      DEF ConsoleNext
  <2>4. QED BY <2>1, <2>2, <2>3 DEF Next
<1>3. QED
  BY <1>1, <1>2, PTL DEF Spec

\* The state stays of the declared shape.
THEOREM TypeCorrect == Spec => []TypeOK
<1>1. IInv => TypeOK
  BY DEF IInv
<1>2. QED
  BY <1>1, Invariance, PTL

\* Whatever resets and pushes overlap, no client has two mappings at a time.
THEOREM OneMapping == Spec => []OneMappingPerClient
<1>1. IInv => OneMappingPerClient
  BY DEF IInv
<1>2. QED
  BY <1>1, Invariance, PTL

\* A frame leaves under an address of its own sender, outside the one race.
THEOREM OwnAddressHolds == Spec => []OwnAddress
<1>1. IInv => OwnAddress
  BY DEF IInv
<1>2. QED
  BY <1>1, Invariance, PTL

\* Under one base port every client gets an address of its own, over all resets.
THEOREM SameBaseUniqueHolds == Spec => []SameBaseUnique
<1>1. IInv => SameBaseUnique
  <2> SUFFICES ASSUME IInv, NEW d \in issued, NEW e \in issued,
                      d.base = e.base, d.public = e.public
               PROVE  d = e
    BY DEF SameBaseUnique
  <2>1. d.n \in Nat /\ e.n \in Nat /\ d.base \in Port
    BY BoundsAssumption DEF IInv, TypeOK
  <2>2. NewAddress(d.base, d.n) = NewAddress(d.base, e.n)
    BY DEF IInv, IssuedInv
  <2>3. QED BY <2>1, <2>2, NewAddressInjective DEF IInv, IssuedInv
<1>2. QED
  BY <1>1, Invariance, PTL

\* processFrame brings the process down only when a console command overlaps it.
THEOREM CrashOnlyInRaceHolds == Spec => []CrashOnlyInRace
<1> DEFINE TornInv == main.pc = "OutCheck" /\ main.torn => "filter" \in race
           CInv == TornInv /\ CrashOnlyInRace
<1>1. Init => CInv
  BY DEF Init, CrashOnlyInRace
<1>2. IInv /\ CInv /\ [Next]_vars => CInv'
  <2> SUFFICES ASSUME IInv, CInv, [Next]_vars PROVE CInv'
    OBVIOUS
  <2> USE DEF netVars, history, CrashOnlyInRace
  <2>1. CASE UNCHANGED vars
    BY <2>1 DEF vars
  <2>2. CASE OutCheck
    BY <2>2 DEF OutCheck, Goto, Return, IInv, TypeOK, MainState
  <2>3. CASE OutIndex
    BY <2>3 DEF OutIndex, IInv, MainInv
  <2>4. ASSUME NEW r \in Ranges, BlockRange(r) PROVE CInv'
    <3>1. race \subseteq race' /\ (main' # main => "filter" \in race') /\ main'.pc = main.pc
      BY <2>4 DEF BlockRange, IInv, TypeOK, MainState
    <3>2. QED BY <3>1
  <2>5. CASE ResetBlocked \/ ResetTable \/ ResetSessions
    BY <2>5 DEF ResetBlocked, ResetTable, ResetSessions
  <2>6. ASSUME NEW b \in BasePorts, ReadBase(b) PROVE CInv'
    BY <2>6 DEF ReadBase
  <2>7. ASSUME NEW src \in Outsiders, NEW dst \in Public, ReceiveOutside(src, dst) PROVE CInv'
    BY <2>7 DEF ReceiveOutside
  <2>8. ASSUME NEW src \in Insiders, NEW dst \in Outsiders, ReceiveInside(src, dst) PROVE CInv'
    BY <2>8 DEF ReceiveInside
  <2>9. CASE InLookup \/ InFilter \/ InForward \/ OutLookup
    BY <2>9 DEF InLookup, InFilter, InForward, OutLookup, Goto, Return, IInv, TypeOK, MainState
  <2>10. CASE OutAllocate \/ OutGrow \/ OutSession \/ OutForward
    BY <2>10 DEF OutAllocate, OutGrow, OutSession, OutForward, Goto, Return, IInv, TypeOK,
      MainState
  <2>11. QED
    BY <2>1, <2>2, <2>3, <2>4, <2>5, <2>6, <2>7, <2>8, <2>9, <2>10
      DEF Next, MainNext, ConsoleNext
<1>3. CInv => CrashOnlyInRace
  OBVIOUS
<1>4. QED
  BY <1>1, <1>2, <1>3, Invariance, PTL DEF Spec

\* Inbound frames reach only the client that had contacted their sender.
THEOREM NoMisdeliveryHolds == Spec => []NoMisdelivery
<1>1. IInv => NoMisdelivery
  <2> SUFFICES ASSUME IInv, "table" \notin race, ~Shared, NEW d \in delivered
               PROVE  d \in contacted
    BY DEF NoMisdelivery
  <2>1. d = <<d[1], d[2], d[3]>>
    BY DEF IInv, TypeOK
  <2>2. PICK e \in issued : e.local = d[1] /\ e.public = d[2]
    BY DEF IInv, DeliveredInv, Issued
  <2>3. PICK l \in Insiders : <<l, d[2], d[3]>> \in contacted
    BY DEF IInv, DeliveredInv, SomeoneContacted
  <2>4. PICK f \in issued : f.local = l /\ f.public = d[2]
    BY <2>3 DEF IInv, OwnAddress
  <2>5. e = f
    BY <2>2, <2>4 DEF Shared
  <2>6. QED BY <2>1, <2>2, <2>3, <2>4, <2>5
<1>2. QED
  BY <1>1, Invariance, PTL

-----------------------------------------------------------------------------
(* The way back: the sessions that belong to the mappings in use are there. *)

InUse(c) == [public |-> c[2], outer |-> c[3]] \in Live(sessions)

\* What the first n slots map is answered, whoever was contacted from it.
Answered(n) ==
  \A i \in 1..n, c \in contacted :
    table.slots[i].local = c[1] /\ table.slots[i].public = c[2] => InUse(c)

\* The slots up to the one being pushed count too: after a table.clear() the second
\* half of the push_back may bring them all back.
WayBack ==
  /\ Answered(table.size)
  /\ main.pc = "OutGrow" => Answered(main.seen + 1)
  /\ main.pc = "OutForward" => sessions.size = main.seen

ReplyInv ==
  /\ \A c \in contacted : \E e \in issued : e.public = c[2]
  /\ "session" \notin race /\ ~Shared => WayBack

\* The steps that touch neither the sessions, the table nor who was contacted, and
\* do not get to a place where the invariant says more.
LEMMA SameWayBack ==
  ASSUME ReplyInv, UNCHANGED <<sessions, contacted, issued>>, race \subseteq race',
         table'.slots = table.slots, table'.size \in {table.size, 0},
         main' = main \/ main'.pc \notin {"OutGrow", "OutForward"}
  PROVE  ReplyInv'
<1>1. Shared' = Shared
  BY DEF Shared
<1>2. \A n : Answered(n)' <=> Answered(n)
  BY DEF Answered, InUse
<1>3. Answered(0)
  BY DEF Answered
<1> QED
  BY <1>1, <1>2, <1>3 DEF ReplyInv, WayBack

\* A new mapping is nobody's yet.
LEMMA OutAllocateReply ==
  ASSUME IInv, ReplyInv, OutAllocate
  PROVE  ReplyInv'
<1> DEFINE p == NewAddress(base_port, counter)
           x == [local |-> main.src, public |-> p]
           rec == [n |-> counter, base |-> base_port, local |-> main.src, public |-> p]
<1>1. /\ table' = Construct(table, x) /\ issued' = issued \cup {rec}
      /\ main'.pc = "OutGrow" /\ main'.seen = table.size
      /\ UNCHANGED <<sessions, contacted, race>>
  BY DEF OutAllocate
<1>2. x \in Pair /\ table \in VecOf(Pair)
  <2>1. counter \in 0..MaxCounter /\ main.src \in Insiders /\ base_port \in BasePorts \cup {DefaultBase}
    BY BoundsAssumption DEF IInv, TypeOK, BaseInv, MainState, OutAllocate
  <2>2. p \in Public
    BY <2>1, NewAddressPublic
  <2> QED
    BY <2>1, <2>2 DEF Pair, IInv, TypeOK
<1>3. x.public = p /\ rec.public = p /\ rec.n = counter
  OBVIOUS
<1> HIDE DEF x, rec
<1>4. /\ table'.size = table.size /\ table.size \in Nat
      /\ table'.slots[table.size + 1] = x
      /\ \A i \in 1..table.size : table'.slots[i] = table.slots[i]
  <2>1. table.size \in Nat
    BY <1>2 DEF VecOf
  <2> QED
    BY <1>1, <1>2, <2>1, ConstructVec
<1>5. /\ \A c \in contacted' : \E e \in issued' : e.public = c[2]
      /\ Shared => Shared'
  BY <1>1 DEF ReplyInv, Shared
<1>6. ASSUME "session" \notin race, ~Shared'  PROVE WayBack'
  <2>1. Answered(table.size)
    BY <1>5, <1>6 DEF ReplyInv, WayBack
  <2>2. Answered(table.size)'
    BY <2>1, <1>1, <1>4 DEF Answered, InUse
  <2>3. ASSUME NEW c \in contacted  PROVE c[2] # p
    <3>1. PICK e \in issued : e.public = c[2]
      BY DEF ReplyInv
    <3>2. e # rec
      BY <1>3, BoundsAssumption DEF IInv, TypeOK, IssuedInv
    <3> QED
      BY <1>1, <1>3, <1>6, <3>1, <3>2 DEF Shared
  <2>4. Answered(table.size + 1)'
    <3> SUFFICES ASSUME NEW i \in 1..(table.size + 1), NEW c \in contacted,
                        table'.slots[i].local = c[1], table'.slots[i].public = c[2]
                 PROVE  InUse(c)'
      BY <1>1, <1>4 DEF Answered
    <3>1. i # table.size + 1
      BY <1>3, <1>4, <2>3
    <3>2. i \in 1..table.size
      BY <1>4, <3>1
    <3> QED
      BY <1>1, <1>4, <2>1, <3>2 DEF Answered, InUse
  <2> QED
    BY <1>1, <1>4, <2>2, <2>4 DEF WayBack
<1> QED
  BY <1>1, <1>5, <1>6 DEF ReplyInv

\* The end moves on by one, or to where it was when the push_back began.
LEMMA OutGrowReply ==
  ASSUME IInv, ReplyInv, OutGrow
  PROVE  ReplyInv'
<1>1. /\ main.seen \in Nat /\ table.size \in Nat /\ table.size <= main.seen
      /\ table \in VecOf(Pair) /\ main.seen < Len(table.slots)
  BY DEF IInv, TypeOK, MainInv, MainState, VecOf, OutGrow
<1>2. table'.slots = table.slots /\ table'.size \in {table.size + 1, main.seen + 1}
  BY <1>1, GrownVec DEF OutGrow
<1>3. UNCHANGED <<sessions, contacted, issued, race>> /\ main'.pc = "OutIndex" /\ Shared' = Shared
  BY DEF OutGrow, Goto, netVars, history, Shared, IInv, TypeOK, MainState
<1>4. ASSUME "session" \notin race, ~Shared  PROVE WayBack'
  <2>1. Answered(main.seen + 1)
    BY <1>4 DEF ReplyInv, WayBack, OutGrow
  <2>2. Answered(table'.size)
    BY <1>1, <1>2, <2>1 DEF Answered
  <2>3. Answered(table'.size) => Answered(table.size)'
    BY <1>2, <1>3 DEF Answered, InUse
  <2> QED
    BY <1>3, <2>2, <2>3 DEF WayBack
<1> QED
  BY <1>3, <1>4 DEF ReplyInv

\* The session being pushed replaces none that is in use.
LEMMA OutSessionReply ==
  ASSUME IInv, ReplyInv, OutSession
  PROVE  ReplyInv'
<1> DEFINE x == [public |-> table.slots[main.idx].public, outer |-> main.dst]
<1>1. /\ sessions' = Construct(sessions, x)
      /\ main'.pc = "OutForward" /\ main'.seen = sessions.size
      /\ UNCHANGED <<table, contacted, issued, race>>
  BY DEF OutSession, history
<1>2. x \in SessionOf /\ sessions \in VecOf(SessionOf)
  <2>1. main.idx \in 1..Len(table.slots) /\ main.dst \in Outsiders
    BY DEF IInv, TypeOK, MainInv, MainState, OutSession
  <2>2. table.slots[main.idx] \in Pair
    BY <2>1, SlotType DEF IInv, TypeOK
  <2> QED
    BY <2>1, <2>2 DEF IInv, TypeOK, Pair, SessionOf
<1> HIDE DEF x
<1>3. sessions'.size = sessions.size /\ \A i \in 1..sessions.size : sessions'.slots[i] = sessions.slots[i]
  BY <1>1, <1>2, ConstructVec
<1>4. Live(sessions') = Live(sessions) /\ Shared' = Shared
  BY <1>1, <1>3 DEF Live, Shared
<1>5. Answered(table.size) => Answered(table.size)'
  BY <1>1, <1>4 DEF Answered, InUse
<1> QED
  BY <1>1, <1>3, <1>4, <1>5 DEF ReplyInv, WayBack

\* When a host has been contacted its session is in use, and the others still are.
LEMMA OutForwardReply ==
  ASSUME IInv, ReplyInv, OutForward
  PROVE  ReplyInv'
<1> DEFINE p == table.slots[main.idx].public
           c == <<main.src, p, main.dst>>
<1>1. /\ main.seen \in Nat /\ sessions \in VecOf(SessionOf) /\ sessions.size \in Nat
      /\ main.idx \in 1..Len(table.slots)
      /\ main.seen < Len(sessions.slots) /\ sessions.size <= main.seen
      /\ sessions.slots[main.seen + 1] = [public |-> p, outer |-> main.dst]
  BY DEF IInv, TypeOK, MainInv, MainState, VecOf, OutForward
<1>2. sessions'.slots = sessions.slots /\ sessions'.size \in {sessions.size + 1, main.seen + 1}
  BY <1>1, GrownVec DEF OutForward
<1>3. /\ contacted' = contacted \cup {c} /\ main'.pc = "idle"
      /\ UNCHANGED <<table, issued, race>> /\ Shared' = Shared
  BY DEF OutForward, Return, Shared
<1>4. c[2] = p /\ c[3] = main.dst
  OBVIOUS
<1>5. \E e \in issued : e.public = p
  BY <1>1 DEF IInv, TableInv, Issued
<1> HIDE DEF c
<1>6. \A d \in contacted' : \E e \in issued' : e.public = d[2]
  BY <1>3, <1>4, <1>5 DEF ReplyInv
<1>7. ASSUME "session" \notin race, ~Shared  PROVE WayBack'
  <2>1. sessions.size = main.seen /\ Answered(table.size)
    BY <1>7 DEF ReplyInv, WayBack, OutForward
  <2>2. \A i \in 1..(main.seen + 1) : sessions'.slots[i] \in Live(sessions')
    BY <1>1, <1>2, <2>1 DEF Live
  <2>3. [public |-> p, outer |-> main.dst] \in Live(sessions')
    BY <1>1, <1>2, <2>2
  <2>4. Live(sessions) \subseteq Live(sessions')
    BY <1>1, <1>2, <2>1, <2>2 DEF Live
  <2>5. \A d \in contacted' : d = c \/ InUse(d) => InUse(d)'
    BY <1>4, <2>3, <2>4 DEF InUse
  <2>6. Answered(table.size)'
    BY <1>3, <2>1, <2>5 DEF Answered
  <2> QED
    BY <1>3, <2>6 DEF WayBack
<1> QED
  BY <1>3, <1>6, <1>7 DEF ReplyInv

\* sessions.clear(): nothing is mapped then, or it is the race.
LEMMA ResetSessionsReply ==
  ASSUME IInv, ReplyInv, ResetSessions
  PROVE  ReplyInv'
<1>1. /\ UNCHANGED <<table, main, contacted, issued>> /\ Shared' = Shared
      /\ "session" \notin race' =>
           table.size = 0 /\ main.pc \notin {"OutGrow", "OutIndex", "OutSession", "OutForward"}
  <2>1. table.size \in Nat
    BY DEF IInv, TypeOK, VecOf
  <2> QED
    BY <2>1 DEF ResetSessions, Shared
<1>2. Answered(0)'
  BY DEF Answered
<1> QED
  BY <1>1, <1>2 DEF ReplyInv, WayBack

LEMMA NextReply ==
  ASSUME IInv, ReplyInv, [Next]_vars
  PROVE  ReplyInv'
<1> USE DEF netVars, history
<1>1. CASE UNCHANGED vars
  BY <1>1, SameWayBack DEF vars
<1>2. ASSUME NEW src \in Outsiders, NEW dst \in Public, ReceiveOutside(src, dst)  PROVE ReplyInv'
  BY <1>2, SameWayBack DEF ReceiveOutside
<1>3. ASSUME NEW src \in Insiders, NEW dst \in Outsiders, ReceiveInside(src, dst)  PROVE ReplyInv'
  BY <1>3, SameWayBack DEF ReceiveInside
<1>4. CASE InLookup \/ InFilter \/ InForward
  <2>1. main'.pc \notin {"OutGrow", "OutForward"}
    BY <1>4 DEF InLookup, InFilter, InForward, Goto, Return, IInv, TypeOK, MainState
  <2>2. UNCHANGED <<sessions, contacted, issued, race, table>>
    BY <1>4 DEF InLookup, InFilter, InForward
  <2> QED
    BY <2>1, <2>2, SameWayBack
<1>5. CASE OutCheck \/ OutLookup \/ OutIndex
  <2>1. main'.pc \notin {"OutGrow", "OutForward"}
    BY <1>5 DEF OutCheck, OutLookup, OutIndex, Goto, Return, IInv, TypeOK, MainState
  <2>2. UNCHANGED <<sessions, contacted, issued, race, table>>
    BY <1>5 DEF OutCheck, OutLookup, OutIndex
  <2> QED
    BY <2>1, <2>2, SameWayBack
<1>6. ASSUME NEW r \in Ranges, BlockRange(r)  PROVE ReplyInv'
  <2>1. main' = main \/ main'.pc = "OutCheck"
    BY <1>6 DEF BlockRange, IInv, TypeOK, MainState
  <2>2. UNCHANGED <<sessions, contacted, issued, table>> /\ race \subseteq race'
    BY <1>6 DEF BlockRange
  <2> QED
    BY <2>1, <2>2, SameWayBack
<1>7. CASE ResetBlocked
  BY <1>7, SameWayBack DEF ResetBlocked
<1>8. CASE ResetTable
  <2>1. table'.slots = table.slots /\ table'.size = 0
    BY <1>8, ClearVec DEF IInv, TypeOK, ResetTable
  <2>2. UNCHANGED <<sessions, contacted, issued, main>> /\ race \subseteq race'
    BY <1>8 DEF ResetTable
  <2> QED
    BY <2>1, <2>2, SameWayBack
<1>9. ASSUME NEW b \in BasePorts, ReadBase(b)  PROVE ReplyInv'
  BY <1>9, SameWayBack DEF ReadBase
<1> QED
  BY <1>1, <1>2, <1>3, <1>4, <1>5, <1>6, <1>7, <1>8, <1>9, OutAllocateReply, OutGrowReply,
     OutSessionReply, OutForwardReply, ResetSessionsReply
  DEF Next, MainNext, ConsoleNext

\* A client that has contacted a host and still has its mapping can be answered,
\* whatever frames and commands overlap, unless a reset cleared the sessions after
\* the mapping was made.
THEOREM ReplyPathHolds == Spec => []ReplyPath
<1>1. Init => ReplyInv
  BY DEF Init, ReplyInv, WayBack, Answered, EmptyVec
<1>2. IInv /\ ReplyInv /\ [Next]_vars => ReplyInv'
  BY NextReply
<1>3. ReplyInv => ReplyPath
  <2> SUFFICES ASSUME ReplyInv, "session" \notin race, ~Shared, NEW c \in contacted,
                      [local |-> c[1], public |-> c[2]] \in Live(table)
               PROVE  InUse(c)
    BY DEF ReplyPath, InUse
  <2>1. PICK i \in 1..table.size : table.slots[i] = [local |-> c[1], public |-> c[2]]
    BY DEF Live
  <2>2. table.slots[i].local = c[1] /\ table.slots[i].public = c[2]
    BY <2>1
  <2> QED
    BY <2>2 DEF ReplyInv, WayBack, Answered
<1> QED
  BY <1>1, <1>2, <1>3, Invariance, PTL DEF Spec
=============================================================================

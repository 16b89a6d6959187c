---------------------------- MODULE LeaseProofs ----------------------------
(***************************************************************************)
(* Proofs about one lease server, for any pools, clients, times and widths *)
(* of the fields: its types, that an address is in one place only, and     *)
(* that leases run their time.  Then about servers and clients on links,   *)
(* for any network without cycles: who uses an address has the lease, no   *)
(* two use one, who was granted an address uses it, and the offers that    *)
(* nobody took go back.                                                    *)
(***************************************************************************)
EXTENDS LeaseServer, LeaseNet, FiniteSetTheorems, WellFoundedInduction, TLAPS

-----------------------------------------------------------------------------
(* How often an address is in a vector.                                     *)

Count(seq, ip) == Cardinality(Places(seq, ip))

LEMMA PlacesFinite ==
  ASSUME NEW T, NEW seq \in Seq(T), NEW ip
  PROVE  IsFiniteSet(Places(seq, ip)) /\ Count(seq, ip) \in Nat
<1>1. Len(seq) \in Nat /\ IsFiniteSet(1..Len(seq)) /\ Places(seq, ip) \in SUBSET (1..Len(seq))
  BY FS_Interval DEF Places
<1> QED
  BY <1>1, FS_Subset, FS_CardinalityType DEF Count

\* One that is not there is counted zero times, and the other way round.
LEMMA CountZero ==
  ASSUME NEW T, NEW seq \in Seq(T), NEW ip
  PROVE  Count(seq, ip) = 0 <=> \A i \in 1..Len(seq) : seq[i].ip # ip
<1>1. Count(seq, ip) = 0 <=> Places(seq, ip) = {}
  BY PlacesFinite, FS_EmptySet DEF Count
<1> QED
  BY <1>1 DEF Places

LEMMA CountAppend ==
  ASSUME NEW T, NEW seq \in Seq(T), NEW x \in T, NEW ip
  PROVE  Count(Append(seq, x), ip) = Count(seq, ip) + (IF x.ip = ip THEN 1 ELSE 0)
<1> DEFINE n == Len(seq)
           new == Append(seq, x)
<1>1. n \in Nat /\ Len(new) = n + 1 /\ new[n + 1] = x /\ \A i \in 1..n : new[i] = seq[i]
  OBVIOUS
<1> HIDE DEF n, new
<1>2. Places(new, ip) = Places(seq, ip) \cup (IF x.ip = ip THEN {n + 1} ELSE {})
  BY <1>1 DEF Places, n
<1>3. n + 1 \notin Places(seq, ip)
  BY <1>1 DEF Places, n
<1>4. CASE x.ip = ip
  BY <1>2, <1>3, <1>4, PlacesFinite, FS_AddElement DEF Count, new
<1>5. CASE x.ip # ip
  BY <1>2, <1>5, PlacesFinite DEF Count, new
<1> QED
  BY <1>4, <1>5

\* Two vectors whose elements correspond one to one have the same of each.
LEMMA CountSame ==
  ASSUME NEW T, NEW a \in Seq(T), NEW ip, NEW S, NEW h,
         h \in Bijection(Places(a, ip), S)
  PROVE  IsFiniteSet(S) /\ Cardinality(S) = Count(a, ip)
BY PlacesFinite, FS_Bijection DEF Count, ExistsBijection

\* What erase leaves of a vector.
LEMMA WithoutElements ==
  ASSUME NEW T, NEW seq \in Seq(T), NEW i \in 1..Len(seq)
  PROVE  /\ Without(seq, i) \in Seq(T) /\ Len(Without(seq, i)) = Len(seq) - 1
         /\ \A k \in 1..(Len(seq) - 1) :
              Without(seq, i)[k] = IF k < i THEN seq[k] ELSE seq[k + 1]
<1> DEFINE n == Len(seq)
           a == SubSeq(seq, 1, i - 1)
           b == SubSeq(seq, i + 1, n)
<1>1. n \in Nat
  OBVIOUS
<1>2. a \in Seq(T) /\ Len(a) = i - 1 /\ \A k \in 1..(i - 1) : a[k] = seq[k]
  BY <1>1
<1>3. b \in Seq(T) /\ Len(b) = n - i /\ \A k \in 1..(n - i) : b[k] = seq[i + k]
  BY <1>1
<1> HIDE DEF a, b
<1>4. a \o b \in Seq(T) /\ Len(a \o b) = n - 1
  <2>0. a \in Seq(T) /\ b \in Seq(T)
    BY <1>2, <1>3
  <2>1. a \o b \in Seq(T) /\ Len(a \o b) = Len(a) + Len(b)
    BY ONLY <2>0
  <2> QED
    BY <1>1, <1>2, <1>3, <2>1
<1>5. \A k \in 1..(n - 1) : (a \o b)[k] = IF k < i THEN seq[k] ELSE seq[k + 1]
  <2> TAKE k \in 1..(n - 1)
  <2>1. (a \o b)[k] = IF k <= Len(a) THEN a[k] ELSE b[k - Len(a)]
    BY <1>1, <1>2, <1>3
  <2>2. CASE k < i
    BY <1>1, <1>2, <2>1, <2>2
  <2>3. CASE ~(k < i)
    BY <1>1, <1>2, <1>3, <2>1, <2>3
  <2> QED
    BY <2>2, <2>3
<1> QED
  BY <1>4, <1>5 DEF Without, a, b

LEMMA CountWithout ==
  ASSUME NEW T, NEW seq \in Seq(T), NEW i \in 1..Len(seq), NEW ip
  PROVE  Count(Without(seq, i), ip) = Count(seq, ip) - (IF seq[i].ip = ip THEN 1 ELSE 0)
<1> DEFINE n == Len(seq)
           new == Without(seq, i)
           S == Places(seq, ip) \ {i}
           D == Places(new, ip)
           h == [k \in D |-> IF k < i THEN k ELSE k + 1]
<1>1. n \in Nat /\ new \in Seq(T) /\ Len(new) = n - 1
      /\ \A k \in 1..(n - 1) : new[k] = IF k < i THEN seq[k] ELSE seq[k + 1]
  BY WithoutElements
<1> HIDE DEF n, new
<1>2. \A k : k \in D <=> k \in 1..(n - 1) /\ (IF k < i THEN seq[k] ELSE seq[k + 1]).ip = ip
  BY <1>1 DEF Places
<1>3. \A j : j \in S <=> j \in 1..n /\ seq[j].ip = ip /\ j # i
  BY <1>1 DEF Places, n
<1> HIDE DEF D, S
<1>4. h \in [D -> S]
  BY <1>1, <1>2, <1>3, SMTT(30) DEF n
<1>5. \A j, k \in D : h[j] = h[k] => j = k
  BY <1>1, <1>2
<1>6. \A j \in S : \E k \in D : h[k] = j
  <2> TAKE j \in S
  <2>1. CASE j < i
    BY <1>1, <1>2, <1>3, <2>1 DEF n
  <2>2. CASE ~(j < i)
    <3>1. j \in 1..n /\ seq[j].ip = ip /\ i \in 1..n /\ j > i
      BY <1>1, <1>3, <2>2 DEF n
    <3>2. j - 1 \in 1..(n - 1) /\ ~(j - 1 < i) /\ (j - 1) + 1 = j
      BY <1>1, <3>1
    <3>3. j - 1 \in D
      BY <1>2, <3>1, <3>2
    <3>4. h[j - 1] = (j - 1) + 1
      BY <3>2, <3>3
    <3> QED
      BY <3>2, <3>3, <3>4
  <2> QED
    BY <2>1, <2>2
<1> HIDE DEF h
<1>7. h \in Bijection(D, S)
  BY <1>4, <1>5, <1>6 DEF Bijection, Injection, Surjection, IsInjective
<1>8. Cardinality(S) = Count(new, ip)
  BY <1>1, <1>7, CountSame DEF D
<1>9. Cardinality(S) = Count(seq, ip) - (IF i \in Places(seq, ip) THEN 1 ELSE 0)
  <2>1. IsFiniteSet(Places(seq, ip))
    BY PlacesFinite
  <2>2. Cardinality(Places(seq, ip) \ {i})
          = IF i \in Places(seq, ip) THEN Cardinality(Places(seq, ip)) - 1
            ELSE Cardinality(Places(seq, ip))
    BY <2>1, FS_RemoveElement
  <2>3. Count(seq, ip) \in Nat
    BY PlacesFinite
  <2> QED
    BY <2>2, <2>3 DEF S, Count
<1> QED
  BY <1>8, <1>9 DEF Places, new, n

\* The front of a vector, and what erasing it leaves.
LEMMA SubSeqElements ==
  ASSUME NEW T, NEW seq \in Seq(T), NEW n \in 0..Len(seq)
  PROVE  LET a == SubSeq(seq, 1, n)
             b == SubSeq(seq, n + 1, Len(seq))
         IN /\ a \in Seq(T) /\ Len(a) = n /\ \A k \in 1..n : a[k] = seq[k]
            /\ b \in Seq(T) /\ Len(b) = Len(seq) - n
            /\ \A k \in 1..(Len(seq) - n) : b[k] = seq[n + k]
<1> DEFINE a == SubSeq(seq, 1, n)
           b == SubSeq(seq, n + 1, Len(seq))
<1>1. a \in Seq(T) /\ Len(a) = n /\ \A k \in 1..n : a[k] = seq[k]
  OBVIOUS
<1>2. b \in Seq(T) /\ Len(b) = Len(seq) - n /\ \A k \in 1..(Len(seq) - n) : b[k] = seq[n + k]
  OBVIOUS
<1> QED
  BY <1>1, <1>2

LEMMA CountSplit ==
  ASSUME NEW T, NEW seq \in Seq(T), NEW n \in 0..Len(seq), NEW ip
  PROVE  Count(seq, ip) = Count(SubSeq(seq, 1, n), ip) + Count(SubSeq(seq, n + 1, Len(seq)), ip)
<1> DEFINE len == Len(seq)
           a == SubSeq(seq, 1, n)
           b == SubSeq(seq, n + 1, len)
           A == Places(a, ip)
           B == Places(b, ip)
           S == { j \in Places(seq, ip) : j > n }
           h == [k \in B |-> n + k]
<1>1. /\ len \in Nat /\ n \in 0..len
      /\ a \in Seq(T) /\ Len(a) = n /\ \A k \in 1..n : a[k] = seq[k]
      /\ b \in Seq(T) /\ Len(b) = len - n /\ \A k \in 1..(len - n) : b[k] = seq[n + k]
  BY SubSeqElements
<1> HIDE DEF len, a, b
<1>2. \A k : k \in A <=> k \in 1..n /\ seq[k].ip = ip
  BY <1>1 DEF Places
<1>3. \A k : k \in B <=> k \in 1..(len - n) /\ seq[n + k].ip = ip
  BY <1>1 DEF Places
<1>4. \A j : j \in S <=> j \in 1..len /\ seq[j].ip = ip /\ j > n
  BY DEF Places, len
<1> HIDE DEF A, B, S
<1>5. Places(seq, ip) = A \cup S /\ A \cap S = {}
  BY <1>1, <1>2, <1>4 DEF Places, len
<1>6. h \in [B -> S]
  <2>1. ASSUME NEW k \in B  PROVE n + k \in S
    <3>1. k \in 1..(len - n) /\ seq[n + k].ip = ip
      BY <1>3
    <3>2. n + k \in 1..len /\ n + k > n
      BY <1>1, <3>1
    <3> QED
      BY <1>4, <3>1, <3>2
  <2> QED
    BY <2>1
<1>7. \A j, k \in B : h[j] = h[k] => j = k
  BY <1>1, <1>3
<1>8. \A j \in S : \E k \in B : h[k] = j
  <2> TAKE j \in S
  <2>1. j - n \in 1..(len - n) /\ n + (j - n) = j
    BY <1>1, <1>4
  <2>2. j - n \in B
    BY <1>3, <1>4, <2>1
  <2> QED
    BY <2>1, <2>2
<1> HIDE DEF h
<1>9. h \in Bijection(B, S)
  BY <1>6, <1>7, <1>8 DEF Bijection, Injection, Surjection, IsInjective
<1>10. IsFiniteSet(S) /\ Cardinality(S) = Count(b, ip)
  BY <1>1, <1>9, CountSame DEF B
<1>11. IsFiniteSet(A) /\ Cardinality(A) = Count(a, ip) /\ Count(a, ip) \in Nat /\ Count(b, ip) \in Nat
  BY <1>1, PlacesFinite DEF A, Count
<1>12. Cardinality(A \cup S) = Cardinality(A) + Cardinality(S) - Cardinality(A \cap S)
  BY <1>10, <1>11, FS_Union
<1>13. Cardinality(A \cap S) = 0
  BY <1>5, FS_EmptySet
<1> QED
  BY <1>5, <1>10, <1>11, <1>12, <1>13 DEF Count, a, b, len

\* A vector with its elements in another order.
LEMMA CountPermuted ==
  ASSUME NEW T, NEW seq \in Seq(T), NEW p \in Bijection(1..Len(seq), 1..Len(seq)), NEW ip
  PROVE  LET list == [k \in 1..Len(seq) |-> seq[p[k]]]
         IN list \in Seq(T) /\ Len(list) = Len(seq) /\ Count(list, ip) = Count(seq, ip)
<1> DEFINE n == Len(seq)
           list == [k \in 1..n |-> seq[p[k]]]
           D == Places(list, ip)
           S == Places(seq, ip)
           h == [k \in D |-> p[k]]
<1>1. n \in Nat /\ p \in [1..n -> 1..n] /\ (\A j, k \in 1..n : p[j] = p[k] => j = k)
      /\ \A j \in 1..n : \E k \in 1..n : p[k] = j
  BY DEF Bijection, Injection, Surjection, IsInjective
<1>2. list \in Seq(T) /\ Len(list) = n /\ \A k \in 1..n : list[k] = seq[p[k]]
  <2>1. seq \in [1..n -> T]
    OBVIOUS
  <2>2. list \in [1..n -> T]
    BY <1>1, <2>1
  <2>3. \A k \in 1..n : list[k] = seq[p[k]]
    OBVIOUS
  <2> HIDE DEF list, n
  <2>4. n \in Nat
    BY <1>1
  <2>5. list \in Seq(T) /\ Len(list) = n
    BY ONLY <2>2, <2>4
  <2> QED
    BY <2>3, <2>5
<1> HIDE DEF list, n
<1>3. \A k : k \in D <=> k \in 1..n /\ seq[p[k]].ip = ip
  BY <1>2 DEF Places
<1>4. \A j : j \in S <=> j \in 1..n /\ seq[j].ip = ip
  BY DEF Places, n
<1> HIDE DEF D, S
<1>5. h \in [D -> S] /\ (\A j, k \in D : h[j] = h[k] => j = k) /\ \A j \in S : \E k \in D : h[k] = j
  <2>1. h \in [D -> S]
    BY <1>1, <1>3, <1>4
  <2>2. \A j, k \in D : h[j] = h[k] => j = k
    BY <1>1, <1>3
  <2>3. ASSUME NEW j \in S  PROVE \E k \in D : h[k] = j
    <3>1. PICK k \in 1..n : p[k] = j
      BY <1>1, <1>4
    <3>2. k \in D
      BY <1>3, <1>4, <3>1
    <3> QED
      BY <3>1, <3>2
  <2> QED
    BY <2>1, <2>2, <2>3
<1> HIDE DEF h
<1>6. h \in Bijection(D, S)
  BY <1>5 DEF Bijection, Injection, Surjection, IsInjective
<1>7. Cardinality(S) = Count(list, ip)
  BY <1>2, <1>6, CountSame DEF D
<1> QED
  BY <1>2, <1>7 DEF S, Count, n, list

-----------------------------------------------------------------------------
(* The state of the server, by its parts.                                   *)

St(pool, offered, given, buffer) ==
  [pool |-> pool, offered |-> offered, given |-> given, buffer |-> buffer]

Typed(s) ==
  /\ s = St(s.pool, s.offered, s.given, s.buffer)
  /\ s.pool \in [Entry -> Nat] /\ s.offered \in Seq(Offer) /\ s.given \in Seq(Grant)
  /\ s.buffer \in AnyIp

CopiesIn(s, ip) == s.pool[ip] + Count(s.offered, ip) + Count(s.given, ip)

\* What a frame does to the state: its types stay, and, as long as no pointer is
\* kept, no address comes or goes.
Keeps(s, t) ==
  /\ Typed(t)
  /\ s.pool[Kept] = 0 /\ t.pool[Kept] = 0 => \A ip \in AnyIp : CopiesIn(t, ip) = CopiesIn(s, ip)

LEMMA KeptNoAddress == Kept \notin AnyIp /\ Kept \in Entry /\ AnyIp \subseteq Int /\ AnyIp \subseteq Entry
<1>1. Ip \subseteq Int /\ NoIp \in Int
  BY SpaceAssumption DEF Ip, NoIp
<1> QED
  BY <1>1, KeptAssumption DEF AnyIp, Entry

LEMMA TimeTypes ==
  /\ \A t \in Time : Asked(t) \in Time
  /\ \A l, t \in Time : Longer(l, t) \in Time
  /\ \A l \in Time, t \in Nat : (l - t) % TimeSpace \in Time
<1>1. TimeSpace \in Nat \ {0} /\ DefaultTime \in 1..(TimeSpace - 1)
  BY SpaceAssumption
<1>2. \A x \in Int : x % TimeSpace \in Time
  <2> TAKE x \in Int
  <2>1. x % TimeSpace \in 0..(TimeSpace - 1)
    BY <1>1, Z3
  <2> QED
    BY <2>1 DEF Time
<1>3. Time \subseteq Int
  BY <1>1 DEF Time
<1>4. \A t \in Time : Asked(t) \in Time
  BY <1>1 DEF Time, Asked
<1>5. \A l, t \in Time : l + Asked(t) \in Int
  <2> TAKE l, t \in Time
  <2>1. l \in Int /\ Asked(t) \in Int
    BY <1>3, <1>4
  <2> QED
    BY <2>1
<1>6. \A l \in Time, t \in Nat : l - t \in Int
  BY <1>3
<1> QED
  BY <1>2, <1>4, <1>5, <1>6 DEF Longer

LEMMA StParts ==
  ASSUME NEW P, NEW O, NEW G, NEW B
  PROVE  /\ St(P, O, G, B).pool = P /\ St(P, O, G, B).offered = O
         /\ St(P, O, G, B).given = G /\ St(P, O, G, B).buffer = B
BY DEF St

\* An assignment to one part.
WithOffered(s, offered) == [s EXCEPT !.offered = offered]
WithGiven(s, given) == [s EXCEPT !.given = given]
WithBuffer(s, buffer) == [s EXCEPT !.buffer = buffer]

LEMMA WithParts ==
  ASSUME NEW P, NEW O, NEW G, NEW B, NEW x
  PROVE  /\ WithOffered(St(P, O, G, B), x) = St(P, x, G, B)
         /\ WithGiven(St(P, O, G, B), x) = St(P, O, x, B)
         /\ WithBuffer(St(P, O, G, B), x) = St(P, O, G, x)
BY DEF St, WithOffered, WithGiven, WithBuffer

LEMMA StTyped ==
  ASSUME NEW P \in [Entry -> Nat], NEW O \in Seq(Offer), NEW G \in Seq(Grant), NEW B \in AnyIp
  PROVE  Typed(St(P, O, G, B))
BY StParts DEF Typed

More(P, e) == [P EXCEPT ![e] = @ + 1]
Less(P, e) == [P EXCEPT ![e] = @ - 1]

LEMMA PushErase ==
  ASSUME NEW P, NEW O, NEW G, NEW B, NEW e
  PROVE  /\ Push(St(P, O, G, B), e) = St(More(P, e), O, G, B)
         /\ Erase(St(P, O, G, B), e) = St(Less(P, e), O, G, B)
BY DEF Push, Erase, St, More, Less

LEMMA PoolCounts ==
  ASSUME NEW P \in [Entry -> Nat], NEW e \in Entry
  PROVE  /\ More(P, e) \in [Entry -> Nat] /\ More(P, e)[e] = P[e] + 1
         /\ \A d \in Entry \ {e} : More(P, e)[d] = P[d] /\ Less(P, e)[d] = P[d]
         /\ P[e] > 0 => Less(P, e) \in [Entry -> Nat] /\ Less(P, e)[e] = P[e] - 1
BY DEF More, Less

-----------------------------------------------------------------------------
(* The packet handlers.                                                     *)

LEMMA KeepsSame == ASSUME NEW s, Typed(s) PROVE Keeps(s, s)
BY DEF Keeps

LEMMA OutcomeParts ==
  ASSUME NEW s, NEW out
  PROVE  Outcome(s, out).state = s /\ Outcome(s, out).out = out
BY DEF Outcome

LEMMA LowestEntry ==
  ASSUME NEW s, Typed(s), NEW e \in Lowest(s)
  PROVE  /\ e \in Entry /\ s.pool[e] > 0 /\ Value(s, e) \in AnyIp
         /\ s.pool[Kept] = 0 => e # Kept /\ Value(s, e) = e
<1>1. e \in Entry /\ s.pool[e] > 0
  BY DEF Lowest, InPool
<1>2. s.buffer \in AnyIp /\ (e # Kept => e \in AnyIp)
  BY <1>1 DEF Typed, Entry
<1>3. s.pool[Kept] = 0 => e # Kept
  BY <1>1
<1> QED
  BY <1>1, <1>2, <1>3 DEF Value

\* r_dhcp_discover: an address goes from the pool to the offers.
Offering(s, f, e) == [ip |-> Value(s, e), mac |-> f.mac]
Discovered(s, f, e) ==
  WithOffered(Erase(s, e), Append(Erase(s, e).offered, Offering(s, f, e)))

LEMMA DiscoverState ==
  ASSUME NEW s, NEW f, NEW o \in Discover(s, f)
  PROVE  \/ o.state = s /\ o.out = <<>>
         \/ \E e \in Lowest(s) :
              /\ o.state = Discovered(s, f, e)
              /\ o.out = <<Frame("DHCP_OFFER", f.mac, Value(s, e), Asked(f.time))>>
<1> DEFINE D(e) == [Erase(s, e) EXCEPT !.offered = Append(@, [ip |-> Value(s, e), mac |-> f.mac])]
           F(e) == <<Frame("DHCP_OFFER", f.mac, Value(s, e), Asked(f.time))>>
<1>1. \A e : D(e) = Discovered(s, f, e)
  BY DEF Discovered, WithOffered, Offering
<1>2. o \in IF InPool(s) = {} THEN {Outcome(s, <<>>)} ELSE {Outcome(D(e), F(e)) : e \in Lowest(s)}
  BY DEF Discover, Stay
<1> HIDE DEF D, F
<1>3. o = Outcome(s, <<>>) \/ \E e \in Lowest(s) : o = Outcome(D(e), F(e))
  BY <1>2
<1>4. CASE \E e \in Lowest(s) : o = Outcome(D(e), F(e))
  <2>1. PICK e \in Lowest(s) : o = Outcome(D(e), F(e))
    BY <1>4
  <2>2. o.state = Discovered(s, f, e) /\ o.out = F(e)
    BY <1>1, <2>1, OutcomeParts
  <2> QED
    BY <2>2 DEF F
<1> QED
  BY <1>3, <1>4, OutcomeParts

LEMMA DiscoverKeeps ==
  ASSUME NEW P \in [Entry -> Nat], NEW O \in Seq(Offer), NEW G \in Seq(Grant), NEW B \in AnyIp,
         NEW f, f.mac \in Mac, NEW o \in Discover(St(P, O, G, B), f)
  PROVE  Keeps(St(P, O, G, B), o.state)
<1> DEFINE s == St(P, O, G, B)
<1>1. Typed(s) /\ s.pool = P /\ s.offered = O /\ s.given = G
  BY StTyped, StParts
<1>2. CASE o.state = s
  BY <1>1, <1>2, KeepsSame
<1>3. ASSUME NEW e \in Lowest(s), o.state = Discovered(s, f, e)  PROVE Keeps(s, o.state)
  <2> DEFINE x == Offering(s, f, e)
             t == St(Less(P, e), Append(O, x), G, B)
  <2>1. Erase(s, e) = St(Less(P, e), O, G, B) /\ Erase(s, e).offered = O
    BY PushErase, StParts
  <2> HIDE DEF x
  <2>2. o.state = t
    BY <1>3, <2>1, WithParts DEF Discovered, x
  <2> HIDE DEF s
  <2>3. e \in Entry /\ P[e] > 0 /\ Value(s, e) \in AnyIp /\ (P[Kept] = 0 => e # Kept /\ Value(s, e) = e)
    BY <1>1, LowestEntry
  <2>4. x \in Offer /\ x.ip = Value(s, e)
    BY <2>3 DEF Offer, Offering, x
  <2>5. Less(P, e) \in [Entry -> Nat] /\ Append(O, x) \in Seq(Offer)
        /\ Less(P, e)[e] = P[e] - 1 /\ \A d \in Entry \ {e} : Less(P, e)[d] = P[d]
    BY <2>3, <2>4, PoolCounts
  <2>6. Typed(t) /\ t.pool = Less(P, e) /\ t.offered = Append(O, x) /\ t.given = G
    <3>1. Typed(t)
      BY <2>5, StTyped
    <3>2. t.pool = Less(P, e) /\ t.offered = Append(O, x) /\ t.given = G
      BY DEF St
    <3> QED
      BY <3>1, <3>2
  <2> HIDE DEF t
  <2>7. ASSUME P[Kept] = 0, NEW ip \in AnyIp  PROVE CopiesIn(t, ip) = CopiesIn(s, ip)
    <3>1. Count(Append(O, x), ip) = Count(O, ip) + (IF e = ip THEN 1 ELSE 0)
      BY <2>3, <2>4, <2>7, CountAppend
    <3>2. Less(P, e)[ip] = P[ip] - (IF e = ip THEN 1 ELSE 0) /\ P[ip] \in Nat
      BY <2>5, KeptNoAddress
    <3>3. Count(O, ip) \in Nat /\ Count(G, ip) \in Nat
      BY PlacesFinite
    <3> QED
      BY <1>1, <2>6, <3>1, <3>2, <3>3 DEF CopiesIn
  <2> QED
    BY <1>1, <2>2, <2>6, <2>7 DEF Keeps
<1> QED
  BY <1>2, <1>3, DiscoverState

\* r_dhcp_request: an address goes from the offers to the leases.
Granting(f) == [ip |-> f.ip, mac |-> f.mac, time |-> Asked(f.time)]
Requested(s, f, i) ==
  WithGiven(WithOffered(s, Without(s.offered, i)), Append(s.given, Granting(f)))

LEMMA RequestState ==
  ASSUME NEW P \in [Entry -> Nat], NEW O \in Seq(Offer), NEW G \in Seq(Grant), NEW B \in AnyIp,
         NEW f, NEW o \in Request(St(P, O, G, B), f)
  PROVE  \/ o.state = St(P, O, G, B) /\ o.out = <<>>
         \/ \E i \in 1..Len(O) :
              /\ O[i].ip = f.ip /\ o.state = St(P, Without(O, i), Append(G, Granting(f)), B)
              /\ o.out = <<Frame("DHCP_ACK", f.mac, f.ip, Asked(f.time))>>
<1> DEFINE s == St(P, O, G, B)
           S == { i \in 1..Len(O) : O[i].ip = f.ip }
           x == [ip |-> f.ip, mac |-> f.mac, time |-> Asked(f.time)]
           D(i) == [s EXCEPT !.offered = Without(@, i), !.given = Append(@, x)]
           F == <<Frame("DHCP_ACK", f.mac, f.ip, Asked(f.time))>>
<1>1. s.offered = O /\ s.given = G
  BY StParts
<1>2. ASSUME NEW i  PROVE D(i) = St(P, Without(O, i), Append(G, x), B)
  <2> HIDE DEF s, x
  <2>1. D(i) = WithGiven(WithOffered(s, Without(O, i)), Append(G, x))
    BY <1>1 DEF WithGiven, WithOffered
  <2> QED
    BY <2>1, WithParts DEF s
<1>3. o \in IF First(S) = {} THEN {Outcome(s, <<>>)} ELSE {Outcome(D(i), F) : i \in First(S)}
  <2> HIDE DEF x, F, s
  <2> QED
    BY <1>1 DEF Request, Stay, x, F, s
<1>4. x = Granting(f)
  BY DEF Granting
<1> HIDE DEF D, F, s, x
<1>5. o = Outcome(s, <<>>) \/ \E i \in First(S) : o = Outcome(D(i), F)
  BY <1>3
<1>6. CASE o = Outcome(s, <<>>)
  BY <1>6, OutcomeParts DEF s
<1>7. ASSUME NEW i \in First(S), o = Outcome(D(i), F)
      PROVE  /\ O[i].ip = f.ip /\ i \in 1..Len(O) /\ o.out = F
             /\ o.state = St(P, Without(O, i), Append(G, Granting(f)), B)
  <2>1. i \in 1..Len(O) /\ O[i].ip = f.ip
    BY DEF First
  <2>2. o.state = D(i) /\ o.out = F
    BY <1>7, OutcomeParts
  <2> QED
    BY <2>1, <2>2, <1>2, <1>4
<1> QED
  BY <1>5, <1>6, <1>7 DEF F

LEMMA RequestKeeps ==
  ASSUME NEW P \in [Entry -> Nat], NEW O \in Seq(Offer), NEW G \in Seq(Grant), NEW B \in AnyIp,
         NEW f, f.ip \in AnyIp, f.mac \in Mac, f.time \in Time,
         NEW o \in Request(St(P, O, G, B), f)
  PROVE  Keeps(St(P, O, G, B), o.state)
<1> DEFINE s == St(P, O, G, B)
           x == Granting(f)
<1>1. Typed(s) /\ s.pool = P /\ s.offered = O /\ s.given = G
  BY StTyped, StParts
<1>2. CASE o.state = s
  BY <1>1, <1>2, KeepsSame
<1>3. ASSUME NEW i \in 1..Len(O), O[i].ip = f.ip, o.state = St(P, Without(O, i), Append(G, x), B)
      PROVE  Keeps(s, o.state)
  <2> DEFINE t == St(P, Without(O, i), Append(G, x), B)
  <2>1. x \in Grant /\ x.ip = f.ip
    BY TimeTypes DEF Grant, Granting
  <2> HIDE DEF x, s
  <2>2. Without(O, i) \in Seq(Offer) /\ Append(G, x) \in Seq(Grant)
    <3>1. Without(O, i) \in Seq(Offer)
      BY <1>3, WithoutElements
    <3>2. Append(G, x) \in Seq(Grant)
      BY <2>1
    <3> QED
      BY <3>1, <3>2
  <2>3. Typed(t)
    BY <2>2, StTyped
  <2>4. t.pool = P /\ t.offered = Without(O, i) /\ t.given = Append(G, x)
    BY DEF St
  <2>5. o.state = t
    BY <1>3
  <2> HIDE DEF t
  <2>6. ASSUME NEW ip \in AnyIp  PROVE CopiesIn(t, ip) = CopiesIn(s, ip)
    <3>1. Count(Append(G, x), ip) = Count(G, ip) + (IF f.ip = ip THEN 1 ELSE 0)
      BY <2>1, CountAppend
    <3>2. Count(Without(O, i), ip) = Count(O, ip) - (IF f.ip = ip THEN 1 ELSE 0)
      BY <1>3, CountWithout
    <3>3. P[ip] \in Nat /\ Count(O, ip) \in Nat /\ Count(G, ip) \in Nat
      BY PlacesFinite, KeptNoAddress
    <3> QED
      BY <1>1, <2>4, <3>1, <3>2, <3>3 DEF CopiesIn
  <2> QED
    BY <2>3, <2>5, <2>6 DEF Keeps
<1> QED
  BY <1>2, <1>3, RequestState

\* Nothing is offered to the client in the frame.
Unoffered(O, f) == First({ i \in 1..Len(O) : O[i].mac = f.mac }) = {}

\* r_dhcp_ack: an address goes back from the offers to the pool.
LEMMA AckState ==
  ASSUME NEW P \in [Entry -> Nat], NEW O \in Seq(Offer), NEW G \in Seq(Grant), NEW B \in AnyIp,
         NEW f, NEW o \in Ack(St(P, O, G, B), f)
  PROVE  /\ o.out = <<>>
         /\ \/ o.state = St(P, O, G, B) /\ Unoffered(O, f)
            \/ \E i \in 1..Len(O) : o.state = St(More(P, O[i].ip), Without(O, i), G, B)
<1> DEFINE s == St(P, O, G, B)
           S == { i \in 1..Len(O) : O[i].mac = f.mac }
           D(i) == [Push(s, O[i].ip) EXCEPT !.offered = Without(@, i)]
<1>1. s.offered = O
  BY StParts
<1>2. ASSUME NEW i  PROVE D(i) = St(More(P, O[i].ip), Without(O, i), G, B)
  <2>1. Push(s, O[i].ip) = St(More(P, O[i].ip), O, G, B) /\ Push(s, O[i].ip).offered = O
    BY PushErase, StParts
  <2> HIDE DEF s
  <2>2. D(i) = WithOffered(Push(s, O[i].ip), Without(O, i))
    BY <2>1 DEF WithOffered
  <2> QED
    BY <2>1, <2>2, WithParts
<1>3. o \in IF First(S) = {} THEN {Outcome(s, <<>>)} ELSE {Outcome(D(i), <<>>) : i \in First(S)}
  <2> HIDE DEF s
  <2> QED
    BY <1>1 DEF Ack, Stay, s
<1> HIDE DEF D, s
<1>5. (o = Outcome(s, <<>>) /\ First(S) = {}) \/ \E i \in First(S) : o = Outcome(D(i), <<>>)
  BY <1>3
<1>6. CASE o = Outcome(s, <<>>) /\ First(S) = {}
  BY <1>6, OutcomeParts DEF s, Unoffered
<1>7. ASSUME NEW i \in First(S), o = Outcome(D(i), <<>>)
      PROVE  i \in 1..Len(O) /\ o.out = <<>> /\ o.state = St(More(P, O[i].ip), Without(O, i), G, B)
  BY <1>2, <1>7, OutcomeParts DEF First
<1> QED
  BY <1>5, <1>6, <1>7

LEMMA AckKeeps ==
  ASSUME NEW P \in [Entry -> Nat], NEW O \in Seq(Offer), NEW G \in Seq(Grant), NEW B \in AnyIp,
         NEW f, NEW o \in Ack(St(P, O, G, B), f)
  PROVE  Keeps(St(P, O, G, B), o.state)
<1> DEFINE s == St(P, O, G, B)
<1>1. Typed(s) /\ s.pool = P /\ s.offered = O /\ s.given = G
  BY StTyped, StParts
<1>2. CASE o.state = s
  BY <1>1, <1>2, KeepsSame
<1>3. ASSUME NEW i \in 1..Len(O), o.state = St(More(P, O[i].ip), Without(O, i), G, B)
      PROVE  Keeps(s, o.state)
  <2> DEFINE a == O[i].ip
             t == St(More(P, a), Without(O, i), G, B)
  <2>1. a \in AnyIp /\ a \in Entry
    <3>1. O[i] \in Offer
      OBVIOUS
    <3> QED
      BY <3>1, KeptNoAddress DEF Offer
  <2> HIDE DEF a, s
  <2>2. /\ Without(O, i) \in Seq(Offer) /\ More(P, a) \in [Entry -> Nat]
        /\ More(P, a)[a] = P[a] + 1 /\ \A d \in Entry \ {a} : More(P, a)[d] = P[d]
    BY <2>1, WithoutElements, PoolCounts
  <2>3. Typed(t)
    BY <2>2, StTyped
  <2>4. t.pool = More(P, a) /\ t.offered = Without(O, i) /\ t.given = G
    BY DEF St
  <2>5. o.state = t
    BY <1>3 DEF a
  <2> HIDE DEF t
  <2>6. ASSUME NEW ip \in AnyIp  PROVE CopiesIn(t, ip) = CopiesIn(s, ip)
    <3>1. More(P, a)[ip] = P[ip] + (IF a = ip THEN 1 ELSE 0)
      BY <2>1, <2>2, KeptNoAddress, SMTT(20)
    <3>2. Count(Without(O, i), ip) = Count(O, ip) - (IF a = ip THEN 1 ELSE 0)
      BY CountWithout DEF a
    <3>3. P[ip] \in Nat /\ Count(O, ip) \in Nat /\ Count(G, ip) \in Nat
      BY PlacesFinite, KeptNoAddress
    <3> QED
      BY <1>1, <2>4, <3>1, <3>2, <3>3 DEF CopiesIn
  <2> QED
    BY <2>3, <2>5, <2>6 DEF Keeps
<1> QED
  BY <1>2, <1>3, AckState

\* Nobody has the lease of the address in the frame.
Unleased(s, f) == Lease(s, f.ip) = {}

\* r_dhcp_release: a pointer is kept.
LEMMA ReleaseState ==
  ASSUME NEW P \in [Entry -> Nat], NEW O \in Seq(Offer), NEW G \in Seq(Grant), NEW B \in AnyIp,
         NEW f, NEW o \in Release(St(P, O, G, B), f)
  PROVE  /\ o.out = <<>>
         /\ \/ o.state = St(P, O, G, B) /\ Unleased(St(P, O, G, B), f)
            \/ \E i \in 1..Len(G) : o.state = St(More(P, Kept), O, Without(G, i), B)
<1> DEFINE s == St(P, O, G, B)
           D(i) == [Push(s, Kept) EXCEPT !.given = Without(@, i)]
<1>1. s.given = G
  BY StParts
<1>2. ASSUME NEW i  PROVE D(i) = St(More(P, Kept), O, Without(G, i), B)
  <2>1. Push(s, Kept) = St(More(P, Kept), O, G, B) /\ Push(s, Kept).given = G
    BY PushErase, StParts
  <2> HIDE DEF s
  <2>2. D(i) = WithGiven(Push(s, Kept), Without(G, i))
    BY <2>1 DEF WithGiven
  <2> QED
    BY <2>1, <2>2, WithParts
<1>3. o \in IF Lease(s, f.ip) = {} THEN {Outcome(s, <<>>)}
            ELSE {Outcome(D(i), <<>>) : i \in Lease(s, f.ip)}
  <2> HIDE DEF s
  <2> QED
    BY DEF Release, Stay, s
<1> HIDE DEF D, s
<1>4. (o = Outcome(s, <<>>) /\ Unleased(s, f)) \/ \E i \in Lease(s, f.ip) : o = Outcome(D(i), <<>>)
  BY <1>3 DEF Unleased
<1>5. CASE o = Outcome(s, <<>>) /\ Unleased(s, f)
  BY <1>5, OutcomeParts DEF s
<1>6. ASSUME NEW i \in Lease(s, f.ip), o = Outcome(D(i), <<>>)
      PROVE  i \in 1..Len(G) /\ o.out = <<>> /\ o.state = St(More(P, Kept), O, Without(G, i), B)
  BY <1>1, <1>2, <1>6, OutcomeParts DEF Lease, First
<1> QED
  BY <1>4, <1>5, <1>6

LEMMA ReleaseKeeps ==
  ASSUME NEW P \in [Entry -> Nat], NEW O \in Seq(Offer), NEW G \in Seq(Grant), NEW B \in AnyIp,
         NEW f, NEW o \in Release(St(P, O, G, B), f)
  PROVE  Keeps(St(P, O, G, B), o.state)
<1> DEFINE s == St(P, O, G, B)
<1>1. Typed(s)
  BY StTyped
<1>2. CASE o.state = s
  BY <1>1, <1>2, KeepsSame
<1>3. ASSUME NEW i \in 1..Len(G), o.state = St(More(P, Kept), O, Without(G, i), B)
      PROVE  Keeps(s, o.state)
  <2> DEFINE t == St(More(P, Kept), O, Without(G, i), B)
  <2>1. Without(G, i) \in Seq(Grant) /\ More(P, Kept) \in [Entry -> Nat]
        /\ More(P, Kept)[Kept] = P[Kept] + 1
    BY WithoutElements, PoolCounts, KeptNoAddress
  <2>2. Typed(t)
    BY <2>1, StTyped
  <2>3. t.pool = More(P, Kept) /\ P[Kept] \in Nat
    BY KeptNoAddress DEF St
  <2>4. o.state = t
    BY <1>3
  <2> HIDE DEF t, s
  <2>5. t.pool[Kept] # 0
    BY <2>1, <2>3
  <2> QED
    BY <2>2, <2>4, <2>5 DEF Keeps
<1> QED
  BY <1>2, <1>3, ReleaseState

\* r_dhcp_extend_request: the address goes through the pool, as a pointer, and what
\* comes out for the client is that pointer or the pointer is kept.
Extending(f, a, time) == [ip |-> a, mac |-> f.mac, time |-> time]

LEMMA ExtendState ==
  ASSUME NEW P \in [Entry -> Nat], NEW O \in Seq(Offer), NEW G \in Seq(Grant), NEW B \in AnyIp,
         NEW f, NEW o \in ExtendRequest(St(P, O, G, B), f)
  PROVE  \/ o.state = St(P, O, G, B) /\ o.out = <<>> /\ Unleased(St(P, O, G, B), f)
         \/ \E i \in Lease(St(P, O, G, B), f.ip), e \in Lowest(St(More(P, Kept), O, G, B)) :
              LET a == IF e = Kept THEN B ELSE e
                  time == Longer(G[i].time, f.time)
              IN /\ i \in 1..Len(G) /\ G[i].ip = f.ip
                 /\ o.state = St(Less(More(P, Kept), e), O, Append(Without(G, i), Extending(f, a, time)), B)
                 /\ o.out = <<Frame("DHCP_RESPONSE_EXTEND", f.mac, a, time)>>
<1> DEFINE s == St(P, O, G, B)
           r(i) == [Push(s, Kept) EXCEPT !.given = Without(@, i)]
           time(i) == Longer(s.given[i].time, f.time)
           D(i, e) == [Erase(r(i), e) EXCEPT
                         !.given = Append(@, [ip |-> Value(r(i), e), mac |-> f.mac, time |-> time(i)])]
           F(i, e) == <<Frame("DHCP_RESPONSE_EXTEND", f.mac, Value(r(i), e), time(i))>>
           a(e) == IF e = Kept THEN B ELSE e
           rest(i) == Longer(G[i].time, f.time)
           t(i, e) == St(Less(More(P, Kept), e), O, Append(Without(G, i), Extending(f, a(e), rest(i))), B)
<1>1. s.given = G /\ Push(s, Kept) = St(More(P, Kept), O, G, B)
  BY StParts, PushErase
<1>2. ASSUME NEW i, NEW e  PROVE D(i, e) = t(i, e) /\ Value(r(i), e) = a(e)
  <2>1. r(i) = St(More(P, Kept), O, Without(G, i), B)
    <3>1. Push(s, Kept).given = G
      BY <1>1, StParts
    <3> HIDE DEF s
    <3>2. r(i) = WithGiven(Push(s, Kept), Without(G, i))
      BY <3>1 DEF WithGiven
    <3> QED
      BY <1>1, <3>2, WithParts
  <2> HIDE DEF r
  <2>2. Erase(r(i), e) = St(Less(More(P, Kept), e), O, Without(G, i), B)
    BY <2>1, PushErase
  <2>3. r(i).buffer = B /\ Erase(r(i), e).given = Without(G, i)
    BY <2>1, <2>2, StParts
  <2> DEFINE y == Extending(f, Value(r(i), e), time(i))
  <2>4. D(i, e) = WithGiven(Erase(r(i), e), Append(Without(G, i), y))
    BY <2>3 DEF WithGiven, Extending
  <2>5. Value(r(i), e) = a(e) /\ y = Extending(f, a(e), rest(i))
    BY <1>1, <2>3 DEF Value
  <2> HIDE DEF y, D, a, rest
  <2> QED
    BY <2>2, <2>4, <2>5, WithParts
<1> DEFINE Result == IF Lease(s, f.ip) = {} THEN {Outcome(s, <<>>)}
                     ELSE {Outcome(D(i, e), F(i, e)) : i \in Lease(s, f.ip), e \in Lowest(Push(s, Kept))}
<1>3. o \in Result
  <2>1. ExtendRequest(s, f) = Result
    BY DEF ExtendRequest, Stay
  <2> HIDE DEF Result
  <2> QED
    BY <2>1
<1> HIDE DEF D, F, s, t, r, a, rest
<1>4. \/ o = Outcome(s, <<>>) /\ Unleased(s, f)
      \/ \E i \in Lease(s, f.ip), e \in Lowest(Push(s, Kept)) : o = Outcome(D(i, e), F(i, e))
  BY <1>3 DEF Unleased
<1>5. CASE o = Outcome(s, <<>>) /\ Unleased(s, f)
  BY <1>5, OutcomeParts DEF s
<1>6. ASSUME NEW i \in Lease(s, f.ip), NEW e \in Lowest(Push(s, Kept)), o = Outcome(D(i, e), F(i, e))
      PROVE  /\ i \in 1..Len(G) /\ G[i].ip = f.ip /\ o.state = t(i, e)
             /\ o.out = <<Frame("DHCP_RESPONSE_EXTEND", f.mac, a(e), rest(i))>>
  <2>1. i \in 1..Len(G) /\ G[i].ip = f.ip
    BY <1>1 DEF Lease, First
  <2>2. o.state = D(i, e) /\ o.out = F(i, e)
    BY <1>6, OutcomeParts
  <2>3. F(i, e) = <<Frame("DHCP_RESPONSE_EXTEND", f.mac, a(e), rest(i))>>
    BY <1>1, <1>2 DEF F, rest
  <2> QED
    BY <1>2, <2>1, <2>2, <2>3
<1>7. CASE \E i \in Lease(s, f.ip), e \in Lowest(Push(s, Kept)) : o = Outcome(D(i, e), F(i, e))
  <2>1. PICK i \in Lease(s, f.ip), e \in Lowest(Push(s, Kept)) : o = Outcome(D(i, e), F(i, e))
    BY <1>7
  <2>2. /\ i \in 1..Len(G) /\ G[i].ip = f.ip /\ o.state = t(i, e)
        /\ o.out = <<Frame("DHCP_RESPONSE_EXTEND", f.mac, a(e), rest(i))>>
    BY <1>6, <2>1
  <2>3. i \in Lease(St(P, O, G, B), f.ip) /\ e \in Lowest(St(More(P, Kept), O, G, B))
    BY <1>1 DEF s
  <2> QED
    BY <2>2, <2>3 DEF t, a, rest
<1> QED
  BY <1>4, <1>5, <1>7

LEMMA ExtendKeeps ==
  ASSUME NEW P \in [Entry -> Nat], NEW O \in Seq(Offer), NEW G \in Seq(Grant), NEW B \in AnyIp,
         NEW f, f.mac \in Mac, f.time \in Time, B = f.ip,
         NEW o \in ExtendRequest(St(P, O, G, B), f)
  PROVE  Keeps(St(P, O, G, B), o.state)
<1> DEFINE s == St(P, O, G, B)
           Q == More(P, Kept)
<1>1. Typed(s) /\ s.pool = P /\ s.offered = O /\ s.given = G
  BY StTyped, StParts
<1>2. CASE o.state = s
  BY <1>1, <1>2, KeepsSame
<1>3. ASSUME NEW i \in 1..Len(G), NEW e \in Lowest(St(Q, O, G, B)), G[i].ip = f.ip,
             o.state = St(Less(Q, e), O, Append(Without(G, i),
                         Extending(f, IF e = Kept THEN B ELSE e, Longer(G[i].time, f.time))), B)
      PROVE  Keeps(s, o.state)
  <2> DEFINE a == IF e = Kept THEN B ELSE e
             y == Extending(f, a, Longer(G[i].time, f.time))
             H == Append(Without(G, i), y)
             t == St(Less(Q, e), O, H, B)
  <2>1. Q \in [Entry -> Nat] /\ Q[Kept] = P[Kept] + 1 /\ \A d \in Entry \ {Kept} : Q[d] = P[d]
    BY PoolCounts, KeptNoAddress
  <2> HIDE DEF Q, s
  <2>2. e \in Entry /\ Q[e] > 0
    BY <2>1, LowestEntry, StTyped, StParts
  <2>3. a \in AnyIp
    BY <2>2 DEF Entry
  <2>4. y \in Grant /\ y.ip = a
    <3>1. G[i] \in Grant
      OBVIOUS
    <3>2. Longer(G[i].time, f.time) \in Time
      BY <3>1, TimeTypes DEF Grant
    <3> HIDE DEF a
    <3> QED
      BY <2>3, <3>2 DEF Grant, Extending
  <2> HIDE DEF y
  <2>5. Without(G, i) \in Seq(Grant) /\ H \in Seq(Grant)
    BY <2>4, WithoutElements
  <2>6. Less(Q, e) \in [Entry -> Nat] /\ Less(Q, e)[e] = Q[e] - 1
        /\ \A d \in Entry \ {e} : Less(Q, e)[d] = Q[d]
    BY <2>1, <2>2, PoolCounts
  <2> HIDE DEF H
  <2>7. Typed(t)
    BY <2>5, <2>6, StTyped
  <2>8. t.pool = Less(Q, e) /\ t.offered = O /\ t.given = H
    BY DEF St
  <2>9. o.state = t
    BY <1>3 DEF y, H
  <2> HIDE DEF t
  <2>10. ASSUME P[Kept] = 0, t.pool[Kept] = 0, NEW ip \in AnyIp  PROVE CopiesIn(t, ip) = CopiesIn(s, ip)
    <3>1. e = Kept
      BY <2>1, <2>2, <2>6, <2>8, <2>10, KeptNoAddress
    <3>2. t.pool[ip] = P[ip] /\ P[ip] \in Nat
      BY <2>1, <2>6, <2>8, <3>1, KeptNoAddress
    <3>3. Count(H, ip) = Count(Without(G, i), ip) + (IF f.ip = ip THEN 1 ELSE 0)
      BY <2>4, <2>5, <3>1, CountAppend DEF H
    <3>4. Count(Without(G, i), ip) = Count(G, ip) - (IF f.ip = ip THEN 1 ELSE 0)
      BY <1>3, CountWithout
    <3>5. Count(O, ip) \in Nat /\ Count(G, ip) \in Nat
      BY PlacesFinite
    <3> QED
      BY <1>1, <2>8, <3>2, <3>3, <3>4, <3>5 DEF CopiesIn
  <2> QED
    BY <1>1, <2>7, <2>9, <2>10 DEF Keeps, s
<1> QED
  BY <1>2, <1>3, ExtendState, SMTT(30)

\* Every frame is handled so.
LEMMA FrameTypes ==
  ASSUME NEW f \in ClientFrame
  PROVE  f.ip \in AnyIp /\ f.mac \in Mac /\ f.time \in Time
<1>1. PICK type \in DhcpDataType \ ServerType :
        \E m \in Mac, ip \in AddressIn(type), t \in TimeIn(type) : f = Frame(type, m, ip, t)
  BY DEF ClientFrame
<1>2. PICK m \in Mac, ip \in AddressIn(type), t \in TimeIn(type) : f = Frame(type, m, ip, t)
  BY <1>1
<1>3. ip \in AnyIp
  BY DEF AddressIn, AnyIp
<1>4. t \in Time
  BY ArgumentsAssumption, SpaceAssumption DEF TimeIn, Time
<1> QED
  BY <1>2, <1>3, <1>4 DEF Frame

LEMMA HandleKeeps ==
  ASSUME NEW s, Typed(s), NEW f, f.ip \in AnyIp, f.mac \in Mac, f.time \in Time,
         NEW o \in Handle(s, f)
  PROVE  Keeps(s, o.state)
<1> DEFINE P == s.pool
           O == s.offered
           G == s.given
           B == f.ip
           r == St(P, O, G, B)
<1>1. P \in [Entry -> Nat] /\ O \in Seq(Offer) /\ G \in Seq(Grant) /\ s = St(P, O, G, s.buffer)
  BY DEF Typed
<1>2. f.ip \in AnyIp /\ f.mac \in Mac /\ f.time \in Time
  OBVIOUS
<1>3. WithBuffer(s, f.ip) = r
  BY <1>1, WithParts
<1>4. o \in CASE f.type = "DHCP_DISCOVER" -> Discover(WithBuffer(s, f.ip), f)
            [] f.type = "DHCP_REQUEST" -> Request(WithBuffer(s, f.ip), f)
            [] f.type = "DHCP_ACK" -> Ack(WithBuffer(s, f.ip), f)
            [] f.type = "DHCP_RELEASE" -> Release(WithBuffer(s, f.ip), f)
            [] f.type = "DHCP_REQUEST_EXTEND" -> ExtendRequest(WithBuffer(s, f.ip), f)
            [] OTHER -> Stay(WithBuffer(s, f.ip))
  BY DEF Handle, WithBuffer
<1> HIDE DEF P, O, G, B
<1>5. \/ o \in Discover(r, f) \/ o \in Request(r, f) \/ o \in Ack(r, f) \/ o \in Release(r, f)
      \/ o \in ExtendRequest(r, f) \/ o \in Stay(r)
  BY <1>3, <1>4
<1>6. B \in AnyIp /\ B = f.ip
  BY <1>2 DEF B
<1>7. Keeps(r, o.state)
  <2>1. CASE o \in Stay(r)
    BY <1>1, <1>6, <2>1, StTyped, KeepsSame, OutcomeParts DEF Stay
  <2> QED
    BY <1>1, <1>2, <1>5, <1>6, <2>1, DiscoverKeeps, RequestKeeps, AckKeeps, ReleaseKeeps, ExtendKeeps
<1>8. r.pool = s.pool /\ r.offered = s.offered /\ r.given = s.given
  BY StParts DEF P, O, G
<1> HIDE DEF r
<1> QED
  BY <1>7, <1>8 DEF Keeps, CopiesIn

-----------------------------------------------------------------------------
(* The console commands.                                                    *)

LEMMA PoolRangeIps ==
  ASSUME NEW last \in Ip, NEW size \in Nat \ {0}
  PROVE  PoolRange(last, size) \subseteq Ip
<1>1. ByteSpace \in Nat \ {0} /\ last \in Nat
  BY SpaceAssumption DEF Ip
<1>2. ASSUME NEW i \in 0..(size - 1)
      PROVE  ((last \div size) * size + i) % ByteSpace \in Ip
  <2>1. last \div size \in Int
    BY <1>1, Z3
  <2>2. (last \div size) * size + i \in Int
    BY <2>1
  <2> QED
    BY <1>1, <2>2, Z3 DEF Ip
<1> QED
  BY <1>2 DEF PoolRange

\* add_pool: an address that is in the pool is there once, and one that is not comes in.
WithPool(s, pool) == [s EXCEPT !.pool = pool]

LEMMA WithPoolParts ==
  ASSUME NEW P, NEW O, NEW G, NEW B, NEW x
  PROVE  WithPool(St(P, O, G, B), x) = St(x, O, G, B)
BY DEF WithPool, St

Added(P, range) == [e \in Entry |-> IF e \in range /\ P[e] = 0 THEN P[e] + 1 ELSE P[e]]

LEMMA AddPoolState ==
  ASSUME NEW s, Typed(s), NEW range, range \subseteq Ip
  PROVE  LET t == AddPool(s, range)
         IN /\ Typed(t) /\ t.offered = s.offered /\ t.given = s.given
            /\ t.pool[Kept] = s.pool[Kept]
            /\ s.pool[Kept] = 0 => t.pool = Added(s.pool, range)
<1> DEFINE P == s.pool
           new == [e \in Entry |->
                     IF e \in range /\ \A d \in InPool(s) : Value(s, d) # e THEN P[e] + 1 ELSE P[e]]
<1>1. s = St(P, s.offered, s.given, s.buffer)
      /\ P \in [Entry -> Nat] /\ s.offered \in Seq(Offer) /\ s.given \in Seq(Grant) /\ s.buffer \in AnyIp
  BY DEF Typed
<1>2. AddPool(s, range) = WithPool(s, new)
  BY DEF AddPool, WithPool
<1>3. WithPool(St(P, s.offered, s.given, s.buffer), new) = St(new, s.offered, s.given, s.buffer)
  BY WithPoolParts
<1>4. new \in [Entry -> Nat]
  BY <1>1
<1>5. new[Kept] = P[Kept]
  <2>1. Kept \notin range /\ Kept \in Entry
    BY KeptNoAddress DEF AnyIp
  <2> QED
    BY <2>1
<1>6. ASSUME P[Kept] = 0  PROVE new = Added(P, range)
  <2>1. \A d \in Entry : d \in InPool(s) <=> P[d] > 0
    BY DEF InPool
  <2>2. \A d \in InPool(s) : d \in Entry /\ Value(s, d) = d
    BY <1>6 DEF InPool, Value
  <2>3. \A e \in Entry : (\A d \in InPool(s) : Value(s, d) # e) <=> P[e] = 0
    BY <1>1, <2>1, <2>2
  <2> HIDE DEF P
  <2> QED
    BY <2>3 DEF Added
<1> HIDE DEF new
<1>7. AddPool(s, range) = St(new, s.offered, s.given, s.buffer)
  BY <1>1, <1>2, <1>3
<1> QED
  BY <1>1, <1>4, <1>5, <1>6, <1>7, StTyped, StParts

\* add_time: the leases that end go back to the pool, whatever order the sort left.
LEMMA AgedTypes ==
  ASSUME NEW G \in Seq(Grant), NEW t \in Nat
  PROVE  LET A == Aged(G, t)
         IN A \in Seq(Grant) /\ Len(A) = Len(G) /\ \A ip : Count(A, ip) = Count(G, ip)
<1> DEFINE n == Len(G)
           A == Aged(G, t)
           x(i) == [G[i] EXCEPT !.time = (@ - t) % TimeSpace]
<1>1. n \in Nat /\ \A i \in 1..n : G[i] \in Grant
  OBVIOUS
<1>2. ASSUME NEW i \in 1..n  PROVE x(i) \in Grant /\ x(i).ip = G[i].ip
  <2>1. G[i] \in [ip : AnyIp, mac : Mac, time : Time]
    BY <1>1 DEF Grant
  <2>2. (G[i].time - t) % TimeSpace \in Time
    BY <2>1, TimeTypes
  <2> QED
    BY <2>1, <2>2 DEF Grant
<1>3. A = [i \in 1..n |-> x(i)]
  BY DEF Aged
<1> HIDE DEF x, n, A
<1>4. A \in [1..n -> Grant] /\ \A i \in 1..n : A[i] = x(i)
  BY <1>2, <1>3
<1>5. A \in Seq(Grant) /\ Len(A) = n
  BY ONLY <1>1, <1>4
<1>6. \A ip : Places(A, ip) = Places(G, ip)
  BY <1>2, <1>4, <1>5 DEF Places, n
<1> QED
  BY <1>5, <1>6 DEF Count, n, A

Back(P, front) == [e \in Entry |-> P[e] + Count(front, e)]

LEMMA EndState ==
  ASSUME NEW P \in [Entry -> Nat], NEW O, NEW G, NEW B, NEW list, NEW n
  PROVE  End(St(P, O, G, B), list, n).state
           = St(Back(P, SubSeq(list, 1, n)), O, SubSeq(list, n + 1, Len(list)), B)
<1> DEFINE s == St(P, O, G, B)
           a == SubSeq(list, 1, n)
           b == SubSeq(list, n + 1, Len(list))
           F == [i \in 1..n |-> Frame("DHCP_TIMEOUT", list[i].mac, list[i].ip, 0)]
<1>1. End(s, list, n) = Outcome(WithGiven(BackToPool(s, a), b), F)
  BY DEF End, WithGiven
<1>2. BackToPool(s, a) = WithPool(s, [e \in Entry |-> s.pool[e] + Count(a, e)])
  BY DEF BackToPool, WithPool, Count, Places
<1> HIDE DEF a, b, F
<1>3. BackToPool(s, a) = St(Back(P, a), O, G, B)
  <2>1. s.pool = P
    BY StParts
  <2>2. WithPool(St(P, O, G, B), Back(P, a)) = St(Back(P, a), O, G, B)
    BY WithPoolParts
  <2> HIDE DEF s
  <2>3. [e \in Entry |-> s.pool[e] + Count(a, e)] = Back(P, a)
    BY <2>1 DEF Back
  <2> QED
    BY <1>2, <2>2, <2>3 DEF s
<1>4. End(s, list, n).state = St(Back(P, a), O, b, B)
  BY <1>1, <1>3, WithParts, OutcomeParts
<1> QED
  BY <1>4 DEF a, b

LEMMA EndKeeps ==
  ASSUME NEW P \in [Entry -> Nat], NEW O \in Seq(Offer), NEW G \in Seq(Grant), NEW B \in AnyIp,
         NEW list \in Seq(Grant), \A ip : Count(list, ip) = Count(G, ip),
         NEW n \in 0..Len(list)
  PROVE  Keeps(St(P, O, G, B), End(St(P, O, G, B), list, n).state)
<1> DEFINE s == St(P, O, G, B)
           a == SubSeq(list, 1, n)
           b == SubSeq(list, n + 1, Len(list))
           t == St(Back(P, a), O, b, B)
<1>1. a \in Seq(Grant) /\ b \in Seq(Grant)
  BY SubSeqElements
<1>2. \A ip : Count(list, ip) = Count(a, ip) + Count(b, ip)
  BY CountSplit
<1>3. End(s, list, n).state = t
  BY EndState
<1> HIDE DEF a, b
<1>4. Back(P, a) \in [Entry -> Nat]
  BY <1>1, PlacesFinite DEF Back
<1>5. Typed(t)
  BY <1>1, <1>4, StTyped
<1>6. t.pool = Back(P, a) /\ t.offered = O /\ t.given = b
      /\ s.pool = P /\ s.offered = O /\ s.given = G
  BY StParts
<1> HIDE DEF s, t
<1>7. ASSUME NEW ip \in AnyIp  PROVE CopiesIn(t, ip) = CopiesIn(s, ip)
  <2>1. Back(P, a)[ip] = P[ip] + Count(a, ip)
    BY KeptNoAddress DEF Back
  <2>2. Count(G, ip) = Count(a, ip) + Count(b, ip)
    BY <1>2
  <2>3. P[ip] \in Nat /\ Count(O, ip) \in Nat /\ Count(a, ip) \in Nat /\ Count(b, ip) \in Nat
    BY <1>1, PlacesFinite, KeptNoAddress
  <2> QED
    BY <1>6, <2>1, <2>2, <2>3 DEF CopiesIn
<1> QED
  BY <1>3, <1>5, <1>7 DEF Keeps, s

LEMMA UpToLength ==
  ASSUME NEW n \in Nat
  PROVE  IsFiniteSet(1..n) /\ Cardinality(1..n) = n
<1>1. IsFiniteSet(1..n) /\ Cardinality(1..n) = IF 1 > n THEN 0 ELSE n - 1 + 1
  BY FS_Interval
<1> QED
  BY <1>1

LEMMA ExpiredBound ==
  ASSUME NEW list \in Seq(Grant)
  PROVE  Expired(list) \in 0..Len(list)
<1> DEFINE S == { i \in 1..Len(list) : \A j \in 1..i : list[j].time = 0 }
<1>1. Len(list) \in Nat /\ S \in SUBSET (1..Len(list))
  OBVIOUS
<1>2. IsFiniteSet(1..Len(list)) /\ Cardinality(1..Len(list)) = Len(list)
  BY <1>1, UpToLength
<1>3. IsFiniteSet(S) /\ Cardinality(S) <= Len(list) /\ Cardinality(S) \in Nat
  BY <1>1, <1>2, FS_Subset, FS_CardinalityType
<1> QED
  BY <1>1, <1>3 DEF Expired

LEMMA AddTimeKeeps ==
  ASSUME NEW s, Typed(s), NEW t \in Nat, NEW o \in AddTime(s, t)
  PROVE  Keeps(s, o.state)
<1> DEFINE G == s.given
           A == Aged(G, t)
<1>1. s = St(s.pool, s.offered, G, s.buffer)
      /\ s.pool \in [Entry -> Nat] /\ s.offered \in Seq(Offer) /\ G \in Seq(Grant) /\ s.buffer \in AnyIp
  BY DEF Typed
<1>2. A \in Seq(Grant) /\ \A ip : Count(A, ip) = Count(G, ip)
  BY <1>1, AgedTypes
<1>3. PICK list \in ByTime(A) : o = End(s, list, Expired(list))
  BY DEF AddTime
<1> HIDE DEF A
<1>4. PICK p \in Bijection(1..Len(A), 1..Len(A)) : list = [k \in 1..Len(A) |-> A[p[k]]]
  BY <1>3 DEF ByTime
<1>5. list \in Seq(Grant) /\ \A ip : Count(list, ip) = Count(A, ip)
  BY <1>2, <1>4, CountPermuted
<1>6. Expired(list) \in 0..Len(list)
  BY <1>5, ExpiredBound
<1>7. \A ip : Count(list, ip) = Count(G, ip)
  BY <1>2, <1>5
<1> HIDE DEF G
<1> QED
  BY <1>1, <1>3, <1>5, <1>6, <1>7, EndKeeps

-----------------------------------------------------------------------------
(* The specification.  Its invariant adds to ExactlyOnce what it is worth   *)
(* between two steps: the types of the parts, and that a pointer in the     *)
(* pool is a flaw that has been noted.                                      *)

IInv ==
  /\ Typed(server) /\ clock \in 0..MaxClock /\ added \subseteq Ip
  /\ flaws \subseteq {"kept", "overlap", "wrapped"}
  /\ server.pool[Kept] > 0 => "kept" \in flaws
  /\ ExactlyOnce

LEMMA CopiesOf == \A ip : Copies(ip) = CopiesIn(server, ip)
BY DEF Copies, CopiesIn, Count, Places

LEMMA InitIInv == Init => IInv
<1> SUFFICES ASSUME Init PROVE IInv
  OBVIOUS
<1> DEFINE P == [e \in Entry |-> 0]
<1>1. server = St(P, <<>>, <<>>, NoIp) /\ clock = 0 /\ added = {} /\ flaws = {}
  BY DEF Init, InitServer, St
<1>2. P \in [Entry -> Nat] /\ NoIp \in AnyIp /\ \A e \in Entry : P[e] = 0
  BY DEF AnyIp
<1> HIDE DEF P
<1>3. Typed(server)
  <2>1. <<>> \in Seq(Offer) /\ <<>> \in Seq(Grant)
    OBVIOUS
  <2> QED
    BY <1>1, <1>2, <2>1, StTyped
<1>4. server.pool = P /\ server.offered = <<>> /\ server.given = <<>>
  BY <1>1, StParts
<1>5. ASSUME NEW ip \in AnyIp  PROVE Copies(ip) = 0
  <2>1. Places(<<>>, ip) = {}
    BY DEF Places
  <2>2. Count(<<>>, ip) = 0
    BY <2>1, FS_EmptySet DEF Count
  <2>3. P[ip] = 0
    BY <1>2, KeptNoAddress
  <2> QED
    BY <1>4, <2>2, <2>3, CopiesOf DEF CopiesIn
<1>6. server.pool[Kept] = 0
  BY <1>2, <1>4, KeptNoAddress
<1>7. clock \in 0..MaxClock
  BY <1>1, ArgumentsAssumption
<1> QED
  BY <1>1, <1>3, <1>5, <1>6, <1>7 DEF IInv, ExactlyOnce

\* A step that keeps the addresses where they are and notes its flaws.
LEMMA KeepsIInv ==
  ASSUME IInv, Keeps(server, server'), clock' \in 0..MaxClock, added' = added,
         NEW overlap, NEW wrapped, NewFlaws(server', overlap, wrapped)
  PROVE  IInv'
<1>1. Typed(server') /\ Typed(server)
  BY DEF Keeps, IInv
<1>2. server.pool[Kept] \in Nat /\ server'.pool[Kept] \in Nat
  BY <1>1, KeptNoAddress DEF Typed
<1>3. /\ flaws \subseteq flaws' /\ flaws' \subseteq {"kept", "overlap", "wrapped"}
      /\ server'.pool[Kept] > 0 => "kept" \in flaws'
  BY DEF NewFlaws, IInv
<1>4. ExactlyOnce'
  <2> SUFFICES ASSUME flaws' \cap {"kept", "overlap"} = {}, NEW ip \in AnyIp
               PROVE  Copies(ip)' = IF ip \in added' THEN 1 ELSE 0
    BY DEF ExactlyOnce
  <2>1. flaws \cap {"kept", "overlap"} = {}
    BY <1>3
  <2>2. server.pool[Kept] = 0 /\ server'.pool[Kept] = 0
    BY <1>2, <1>3, <2>1 DEF IInv
  <2>3. CopiesIn(server', ip) = CopiesIn(server, ip)
    BY <2>2 DEF Keeps
  <2>4. Copies(ip) = IF ip \in added THEN 1 ELSE 0
    BY <2>1 DEF IInv, ExactlyOnce
  <2>5. Copies(ip)' = CopiesIn(server', ip)
    BY DEF Copies, CopiesIn, Count, Places
  <2> QED
    BY <2>3, <2>4, <2>5, CopiesOf
<1> QED
  BY <1>1, <1>3, <1>4 DEF IInv, Typed

\* "add pool": an address that is out may come in again, and that is noted.
LEMMA AddPoolIInv ==
  ASSUME IInv, NEW p \in Pools, TypeAddPool(p[1], p[2])
  PROVE  IInv'
<1> DEFINE range == PoolRange(p[1], p[2])
<1>1. p[1] \in Ip /\ p[2] \in Nat \ {0}
  BY ArgumentsAssumption
<1>2. range \subseteq Ip
  BY <1>1, PoolRangeIps
<1>3. /\ server' = AddPool(server, range) /\ added' = added \cup range
      /\ NewFlaws(server', range \cap Out(server) # {}, FALSE) /\ clock' = clock
  BY DEF TypeAddPool
<1> HIDE DEF range
<1>4. /\ Typed(server') /\ server'.offered = server.offered /\ server'.given = server.given
      /\ server'.pool[Kept] = server.pool[Kept]
      /\ server.pool[Kept] = 0 => server'.pool = Added(server.pool, range)
  BY <1>2, <1>3, AddPoolState DEF IInv
<1>5. /\ flaws \subseteq flaws' /\ flaws' \subseteq {"kept", "overlap", "wrapped"}
      /\ server'.pool[Kept] > 0 => "kept" \in flaws'
      /\ range \cap Out(server) # {} => "overlap" \in flaws'
  BY <1>3 DEF NewFlaws, IInv
<1>6. Typed(server)
  BY DEF IInv
<1>7. ExactlyOnce'
  <2> SUFFICES ASSUME flaws' \cap {"kept", "overlap"} = {}, NEW ip \in AnyIp
               PROVE  Copies(ip)' = IF ip \in added' THEN 1 ELSE 0
    BY DEF ExactlyOnce
  <2>1. flaws \cap {"kept", "overlap"} = {} /\ range \cap Out(server) = {}
    BY <1>5
  <2>2. server'.pool = Added(server.pool, range)
    <3>1. server.pool[Kept] \in Nat
      BY <1>6, KeptNoAddress DEF Typed
    <3> QED
      BY <1>4, <1>5, <3>1
  <2>3. Copies(ip) = CopiesIn(server, ip) /\ Copies(ip) = IF ip \in added THEN 1 ELSE 0
    BY <2>1, CopiesOf DEF IInv, ExactlyOnce
  <2>4. Copies(ip)' = CopiesIn(server', ip)
    BY DEF Copies, CopiesIn, Count, Places
  <2>5. /\ server.pool[ip] \in Nat /\ server'.pool[ip] = IF ip \in range /\ server.pool[ip] = 0
                                                       THEN server.pool[ip] + 1 ELSE server.pool[ip]
    BY <1>6, <2>2, KeptNoAddress DEF Typed, Added
  <2>6. Count(server.offered, ip) \in Nat /\ Count(server.given, ip) \in Nat
    BY <1>6, PlacesFinite DEF Typed
  <2>7. ip \in range => Count(server.offered, ip) = 0 /\ Count(server.given, ip) = 0
    <3> SUFFICES ASSUME ip \in range
                 PROVE  Count(server.offered, ip) = 0 /\ Count(server.given, ip) = 0
      OBVIOUS
    <3>1. ip \notin Out(server)
      BY <2>1
    <3>2. (\A i \in 1..Len(server.offered) : server.offered[i].ip # ip)
          /\ \A i \in 1..Len(server.given) : server.given[i].ip # ip
      BY <3>1 DEF Out
    <3> QED
      BY <1>6, <3>2, CountZero DEF Typed
  <2>8. CopiesIn(server', ip) = server'.pool[ip] + Count(server.offered, ip) + Count(server.given, ip)
    BY <1>4 DEF CopiesIn
  <2>9. CopiesIn(server, ip) = server.pool[ip] + Count(server.offered, ip) + Count(server.given, ip)
    BY DEF CopiesIn
  <2>10. ip \in added' <=> ip \in added \/ ip \in range
    BY <1>3
  <2> DEFINE old == server.pool[ip]
             new == server'.pool[ip]
             o == Count(server.offered, ip)
             g == Count(server.given, ip)
  <2>11. old \in Nat /\ o \in Nat /\ g \in Nat
         /\ new = IF ip \in range /\ old = 0 THEN old + 1 ELSE old
    BY <2>5, <2>6
  <2>12. old + o + g = IF ip \in added THEN 1 ELSE 0
    BY <2>3, <2>9
  <2> HIDE DEF old, new, o, g
  <2>13. new + o + g = IF ip \in added' THEN 1 ELSE 0
    <3>1. CASE ip \in range
      <4>1. o = 0 /\ g = 0
        BY <2>7, <3>1 DEF o, g
      <4> QED
        BY <2>10, <2>11, <2>12, <3>1, <4>1
    <3>2. CASE ip \notin range
      BY <2>10, <2>11, <2>12, <3>2
    <3> QED
      BY <3>1, <3>2
  <2> QED
    BY <2>4, <2>8, <2>13 DEF new, o, g
<1>8. added' \subseteq Ip
  BY <1>2, <1>3 DEF IInv
<1> QED
  BY <1>3, <1>4, <1>5, <1>7, <1>8 DEF IInv, Typed

LEMMA NextIInv == IInv /\ [Next]_vars => IInv'
<1> SUFFICES ASSUME IInv, [Next]_vars  PROVE IInv'
  OBVIOUS
<1>1. ASSUME NEW f \in ClientFrame, Receive(f)  PROVE IInv'
  <2>1. PICK o \in Handle(server, f) : server' = o.state
    BY <1>1 DEF Receive
  <2>2. Keeps(server, server')
    BY <2>1, FrameTypes, HandleKeeps DEF IInv
  <2>3. added' = added /\ clock' \in 0..MaxClock
    BY <1>1 DEF Receive, IInv
  <2>4. \E wrapped : NewFlaws(server', FALSE, wrapped)
    BY <1>1 DEF Receive
  <2> QED
    BY <2>2, <2>3, <2>4, KeepsIInv
<1>2. ASSUME NEW p \in Pools, TypeAddPool(p[1], p[2])  PROVE IInv'
  BY <1>2, AddPoolIInv
<1>3. ASSUME NEW t \in Steps, TypeAddTime(t)  PROVE IInv'
  <2>1. t \in Nat /\ clock \in Nat /\ MaxClock \in Nat
    BY ArgumentsAssumption DEF IInv
  <2>2. PICK o \in AddTime(server, t) : server' = o.state
    BY <1>3 DEF TypeAddTime
  <2>3. Keeps(server, server')
    BY <2>1, <2>2, AddTimeKeeps DEF IInv
  <2>4. added' = added /\ clock' \in 0..MaxClock
    BY <1>3, <2>1 DEF TypeAddTime
  <2>5. \E wrapped : NewFlaws(server', FALSE, wrapped)
    BY <1>3 DEF TypeAddTime
  <2> QED
    BY <2>3, <2>4, <2>5, KeepsIInv
<1>4. CASE UNCHANGED vars
  BY <1>4 DEF vars, IInv, Typed, ExactlyOnce, Copies
<1> QED
  BY <1>1, <1>2, <1>3, <1>4 DEF Next

LEMMA Inductive == Spec => []IInv
<1> QED
  BY InitIInv, NextIInv, PTL DEF Spec

\* The vectors of the server hold entries of their types, and the time left of a
\* lease stays within its 32 bits, through every frame and command.
THEOREM TypeCorrect == Spec => []TypeOK
<1>1. IInv => TypeOK
  BY DEF IInv, Typed, TypeOK
<1> QED
  BY <1>1, Inductive, PTL

\* As long as no pointer is kept (r_dhcp_release, r_dhcp_extend_request) and no pool
\* covers an address that is out (add_pool), an address that was added is in the
\* pool, in one offer or in one lease, and in one of them only; whatever order
\* std::sort leaves leases of equal time in.
THEOREM ExactlyOnceHolds == Spec => []ExactlyOnce
<1>1. IInv => ExactlyOnce
  BY DEF IInv
<1> QED
  BY <1>1, Inductive, PTL

-----------------------------------------------------------------------------
(* Leases run their time: what a handler does to the leases and what it     *)
(* answers, and what add_time leaves of a list in order.                    *)

\* Every lease ends when it should, and not before now.
Running(G, ends, now) ==
  \A i \in 1..Len(G) : G[i].time > 0 /\ G[i].time = ends[G[i].ip] - now

LEMMA RunningOf == RunsItsTime <=> (flaws = {} => Running(server.given, due, clock))
BY DEF RunsItsTime, Running

LEMMA TimeNat == Time \subseteq Nat /\ \A t \in Time : Asked(t) \in Nat /\ Asked(t) > 0
BY SpaceAssumption DEF Time, Asked

-----------------------------------------------------------------------------
(* Vectors of leases.                                                       *)

LEMMA WithoutRunning ==
  ASSUME NEW G \in Seq(Grant), NEW i \in 1..Len(G), NEW ends, NEW now, Running(G, ends, now)
  PROVE  Running(Without(G, i), ends, now)
<1>1. Len(Without(G, i)) = Len(G) - 1
      /\ \A k \in 1..(Len(G) - 1) : Without(G, i)[k] = IF k < i THEN G[k] ELSE G[k + 1]
  BY WithoutElements
<1>2. Len(G) \in Nat
  OBVIOUS
<1> SUFFICES ASSUME NEW k \in 1..(Len(G) - 1)
             PROVE  /\ Without(G, i)[k].time > 0
                    /\ Without(G, i)[k].time = ends[Without(G, i)[k].ip] - now
  BY <1>1 DEF Running
<1>3. k \in 1..Len(G) /\ k + 1 \in 1..Len(G)
  BY <1>2
<1> QED
  BY <1>1, <1>3 DEF Running

LEMMA AppendRunning ==
  ASSUME NEW G \in Seq(Grant), NEW ends \in [AnyIp -> Nat], NEW now \in Nat, Running(G, ends, now),
         NEW x \in Grant, \A i \in 1..Len(G) : G[i].ip # x.ip,
         NEW end \in Nat, x.time > 0, x.time = end - now
  PROVE  LET new == [ends EXCEPT ![x.ip] = end]
         IN new \in [AnyIp -> Nat] /\ Running(Append(G, x), new, now)
<1> DEFINE new == [ends EXCEPT ![x.ip] = end]
<1>1. x.ip \in AnyIp /\ \A i \in 1..Len(G) : G[i].ip \in AnyIp
  <2>1. \A i \in 1..Len(G) : G[i] \in Grant
    OBVIOUS
  <2> QED
    BY <2>1 DEF Grant
<1>2. new \in [AnyIp -> Nat] /\ new[x.ip] = end /\ \A ip \in AnyIp \ {x.ip} : new[ip] = ends[ip]
  BY <1>1
<1>3. /\ Len(G) \in Nat /\ Len(Append(G, x)) = Len(G) + 1 /\ Append(G, x)[Len(G) + 1] = x
      /\ \A i \in 1..Len(G) : Append(G, x)[i] = G[i]
  OBVIOUS
<1> HIDE DEF new
<1>4. ASSUME NEW k \in 1..(Len(G) + 1)
      PROVE  Append(G, x)[k].time > 0 /\ Append(G, x)[k].time = new[Append(G, x)[k].ip] - now
  <2>1. CASE k = Len(G) + 1
    BY <1>2, <1>3, <2>1
  <2>2. CASE k \in 1..Len(G)
    <3>1. G[k].ip \in AnyIp \ {x.ip} /\ Append(G, x)[k] = G[k]
      BY <1>1, <1>3, <2>2
    <3>2. new[G[k].ip] = ends[G[k].ip]
      BY <1>2, <3>1
    <3> QED
      BY <2>2, <3>1, <3>2 DEF Running
  <2>3. k = Len(G) + 1 \/ k \in 1..Len(G)
    BY <1>3
  <2> QED
    BY <2>1, <2>2, <2>3
<1> QED
  BY <1>2, <1>3, <1>4 DEF new, Running

\* Of a list in order, what the loop of add_time leaves has time left.
LEMMA ExpiredFront ==
  ASSUME NEW list \in Seq(Grant),
         \A i, j \in 1..Len(list) : i < j => list[i].time <= list[j].time,
         NEW k \in 1..Len(list), k > Expired(list)
  PROVE  list[k].time > 0
<1> DEFINE S == { i \in 1..Len(list) : \A j \in 1..i : list[j].time = 0 }
<1>1. Len(list) \in Nat /\ S \in SUBSET (1..Len(list)) /\ k \in Nat
  OBVIOUS
<1>2. IsFiniteSet(S)
  <2>1. IsFiniteSet(1..Len(list))
    BY <1>1, FS_Interval
  <2> QED
    BY <1>1, <2>1, FS_Subset
<1>3. k \notin S
  <2> SUFFICES ASSUME k \in S  PROVE FALSE
    OBVIOUS
  <2>1. 1..k \in SUBSET S
    OBVIOUS
  <2>2. Cardinality(1..k) = IF 1 > k THEN 0 ELSE k - 1 + 1
    BY <1>1, FS_Interval
  <2>3. Cardinality(1..k) = k
    BY <1>1, <2>2
  <2> HIDE DEF S
  <2>4. Cardinality(1..k) <= Cardinality(S)
    BY <1>2, <2>1, FS_Subset
  <2>5. Cardinality(S) = Expired(list) /\ Cardinality(S) \in Nat
    BY <1>2, FS_CardinalityType DEF S, Expired
  <2> QED
    BY <1>1, <2>3, <2>4, <2>5
<1>4. PICK j \in 1..k : list[j].time # 0
  BY <1>3
<1>5. j \in 1..Len(list) /\ (j < k \/ j = k)
  BY <1>1
<1>6. list[j].time \in Nat /\ list[k].time \in Nat
  <2>1. list[j] \in Grant /\ list[k] \in Grant
    BY <1>5
  <2> QED
    BY <2>1, TimeNat DEF Grant
<1>7. list[j].time <= list[k].time
  BY <1>5, <1>6
<1> QED
  BY <1>4, <1>6, <1>7

\* add_time on leases of which none has less time left than passes.
LEMMA EndRunning ==
  ASSUME NEW G \in Seq(Grant), NEW ends \in [AnyIp -> Nat], NEW now \in Nat, NEW t \in Nat,
         Running(G, ends, now), \A i \in 1..Len(G) : G[i].time >= t,
         NEW list \in ByTime(Aged(G, t))
  PROVE  Running(SubSeq(list, Expired(list) + 1, Len(list)), ends, now + t)
<1> DEFINE A == Aged(G, t)
           n == Len(G)
           m == Expired(list)
           b == SubSeq(list, m + 1, Len(list))
<1>1. A \in Seq(Grant) /\ Len(A) = n /\ n \in Nat
  BY AgedTypes
<1>2. \A i \in 1..n : /\ G[i].ip \in AnyIp /\ G[i].time \in Nat /\ G[i].time < TimeSpace
                      /\ ends[G[i].ip] \in Nat
  <2>1. \A i \in 1..n : G[i] \in Grant
    OBVIOUS
  <2>2. \A i \in 1..n : G[i].ip \in AnyIp /\ G[i].time \in Time
    BY <2>1 DEF Grant
  <2>3. \A x \in Time : x \in Nat /\ x < TimeSpace
    BY SpaceAssumption DEF Time
  <2> QED
    BY <2>2, <2>3
<1>3. ASSUME NEW i \in 1..n  PROVE A[i].ip = G[i].ip /\ A[i].time = G[i].time - t
  <2> DEFINE y == (G[i].time - t) % TimeSpace
  <2>1. G[i] \in [ip : AnyIp, mac : Mac, time : Time]
    <3>1. G[i] \in Grant
      OBVIOUS
    <3> QED
      BY <3>1 DEF Grant
  <2>2. A[i] = [G[i] EXCEPT !.time = y]
    BY DEF Aged
  <2>3. y = G[i].time - t
    <3>1. G[i].time - t \in 0..(TimeSpace - 1) /\ TimeSpace \in Nat \ {0}
      BY <1>2, SpaceAssumption
    <3>2. \A x \in 0..(TimeSpace - 1) : x % TimeSpace = x
      BY <3>1, Z3T(30)
    <3> QED
      BY <3>1, <3>2
  <2> HIDE DEF y
  <2> QED
    BY <2>1, <2>2, <2>3
<1> HIDE DEF A
<1>4. PICK p \in Bijection(1..Len(A), 1..Len(A)) :
        /\ list = [k \in 1..Len(A) |-> A[p[k]]]
        /\ \A i, j \in 1..Len(A) : i < j => A[p[i]].time <= A[p[j]].time
  BY DEF ByTime, A
<1>5. p \in [1..n -> 1..n]
  BY <1>1, <1>4 DEF Bijection, Injection
<1>6. list \in Seq(Grant) /\ Len(list) = n
  BY <1>1, <1>4, CountPermuted
<1> HIDE DEF n
<1>7. \A k \in 1..n : list[k] = A[p[k]] /\ p[k] \in 1..n
  BY <1>1, <1>4, <1>5
<1>8. \A i, j \in 1..n : i < j => list[i].time <= list[j].time
  BY <1>1, <1>4, <1>7
<1>9. \A k \in 1..n : list[k].time = ends[list[k].ip] - (now + t)
  <2> TAKE k \in 1..n
  <2> DEFINE i == p[k]
  <2>1. i \in 1..n /\ list[k] = A[i]
    BY <1>7
  <2> HIDE DEF i
  <2>2. A[i].ip = G[i].ip /\ A[i].time = G[i].time - t
    BY <1>3, <2>1
  <2>3. G[i].time = ends[G[i].ip] - now
    BY <2>1 DEF Running, n
  <2>4. ends[G[i].ip] \in Nat /\ G[i].time \in Nat
    BY <1>2, <2>1
  <2> QED
    BY <2>1, <2>2, <2>3, <2>4, SMTT(30)
<1>10. m \in 0..n
  BY <1>6, ExpiredBound
<1>11. Len(b) = n - m /\ \A k \in 1..(n - m) : b[k] = list[m + k]
  BY <1>6, <1>10, SubSeqElements
<1> HIDE DEF b
<1>12. ASSUME NEW k \in 1..(n - m)
       PROVE  b[k].time > 0 /\ b[k].time = ends[b[k].ip] - (now + t)
  <2>1. m + k \in 1..n /\ m + k > m
    BY <1>1, <1>10
  <2>2. list[m + k].time > 0
    BY <1>6, <1>8, <2>1, ExpiredFront
  <2> QED
    BY <1>9, <1>11, <2>1, <2>2
<1> HIDE DEF m
<1> QED
  BY <1>11, <1>12 DEF Running, b, m

-----------------------------------------------------------------------------
(* The packet handlers: what they do to the leases, and what they answer.   *)

\* One that leaves the leases alone answers an offer, if anything.
Silent(G, o) ==
  /\ o.state.given = G
  /\ o.out = <<>> \/ \E a, m, t : o.out = <<Frame("DHCP_OFFER", m, a, t)>>

\* One that grants, and one that extends, the lease of the address in the frame.
Grants(O, G, f, o) ==
  \E i \in 1..Len(O) :
    /\ O[i].ip = f.ip /\ o.state.given = Append(G, Granting(f))
    /\ o.out = <<Frame("DHCP_ACK", f.mac, f.ip, Asked(f.time))>>

Extends(G, i, f, o) ==
  LET time == Longer(G[i].time, f.time)
  IN /\ i \in 1..Len(G) /\ G[i].ip = f.ip
     /\ o.state.given = Append(Without(G, i), Extending(f, f.ip, time))
     /\ o.out = <<Frame("DHCP_RESPONSE_EXTEND", f.mac, f.ip, time)>>

LEMMA DiscoverAnswer ==
  ASSUME NEW P \in [Entry -> Nat], NEW O \in Seq(Offer), NEW G \in Seq(Grant), NEW B \in AnyIp,
         NEW f, NEW o \in Discover(St(P, O, G, B), f)
  PROVE  Silent(G, o)
<1> DEFINE s == St(P, O, G, B)
<1>1. s.given = G
  BY StParts
<1>2. CASE o.state = s /\ o.out = <<>>
  BY <1>1, <1>2 DEF Silent
<1>3. ASSUME NEW e \in Lowest(s), o.state = Discovered(s, f, e),
             o.out = <<Frame("DHCP_OFFER", f.mac, Value(s, e), Asked(f.time))>>
      PROVE  Silent(G, o)
  <2> DEFINE x == Offering(s, f, e)
  <2>1. Erase(s, e) = St(Less(P, e), O, G, B) /\ Erase(s, e).offered = O
    BY PushErase, StParts
  <2> HIDE DEF x
  <2>2. o.state = St(Less(P, e), Append(O, x), G, B)
    BY <1>3, <2>1, WithParts DEF Discovered, x
  <2>3. o.state.given = G
    BY <2>2, StParts
  <2> HIDE DEF s
  <2> QED
    BY <1>3, <2>3 DEF Silent
<1> QED
  BY <1>2, <1>3, DiscoverState

LEMMA RequestAnswer ==
  ASSUME NEW P \in [Entry -> Nat], NEW O \in Seq(Offer), NEW G \in Seq(Grant), NEW B \in AnyIp,
         NEW f, NEW o \in Request(St(P, O, G, B), f)
  PROVE  Silent(G, o) \/ Grants(O, G, f, o)
<1>1. CASE o.state = St(P, O, G, B) /\ o.out = <<>>
  BY <1>1, StParts DEF Silent
<1>2. ASSUME NEW i \in 1..Len(O), O[i].ip = f.ip,
             o.state = St(P, Without(O, i), Append(G, Granting(f)), B),
             o.out = <<Frame("DHCP_ACK", f.mac, f.ip, Asked(f.time))>>
      PROVE  Grants(O, G, f, o)
  <2> DEFINE H == Append(G, Granting(f))
             N == Without(O, i)
  <2>1. o.state.given = H
    <3> HIDE DEF H, N
    <3>1. o.state = St(P, N, H, B)
      BY <1>2 DEF H, N
    <3> QED
      BY <3>1, StParts
  <2> QED
    BY <1>2, <2>1 DEF Grants
<1> QED
  BY <1>1, <1>2, RequestState

LEMMA AckAnswer ==
  ASSUME NEW P \in [Entry -> Nat], NEW O \in Seq(Offer), NEW G \in Seq(Grant), NEW B \in AnyIp,
         NEW f, NEW o \in Ack(St(P, O, G, B), f)
  PROVE  Silent(G, o)
BY AckState, StParts DEF Silent

LEMMA ReleaseAnswer ==
  ASSUME NEW P \in [Entry -> Nat], NEW O \in Seq(Offer), NEW G \in Seq(Grant), NEW B \in AnyIp,
         NEW f, NEW o \in Release(St(P, O, G, B), f), o.state.pool[Kept] = 0
  PROVE  Silent(G, o) /\ Unleased(St(P, O, G, B), f)
<1>1. CASE o.state = St(P, O, G, B) /\ o.out = <<>> /\ Unleased(St(P, O, G, B), f)
  BY <1>1, StParts DEF Silent
<1>2. ASSUME NEW i \in 1..Len(G), o.state = St(More(P, Kept), O, Without(G, i), B)
      PROVE  FALSE
  <2>1. o.state.pool = More(P, Kept)
    BY <1>2, StParts
  <2>2. More(P, Kept)[Kept] = P[Kept] + 1 /\ P[Kept] \in Nat
    BY PoolCounts, KeptNoAddress
  <2> QED
    BY <2>1, <2>2
<1> DEFINE s == St(P, O, G, B)
           Stays == o.state = s /\ o.out = <<>> /\ Unleased(s, f)
           Goal == Silent(G, o) /\ Unleased(s, f)
<1>3. Stays \/ \E i \in 1..Len(G) : o.state = St(More(P, Kept), O, Without(G, i), B)
  BY ReleaseState
<1>4. Stays => Goal
  BY <1>1
<1> HIDE DEF Stays, Goal
<1>5. Goal
  BY <1>2, <1>3, <1>4
<1> QED
  BY <1>5 DEF Goal

LEMMA ExtendAnswer ==
  ASSUME NEW P \in [Entry -> Nat], NEW O \in Seq(Offer), NEW G \in Seq(Grant), NEW B \in AnyIp,
         NEW f, B = f.ip, NEW o \in ExtendRequest(St(P, O, G, B), f), o.state.pool[Kept] = 0
  PROVE  \/ Silent(G, o) /\ Unleased(St(P, O, G, B), f)
         \/ \E i \in Lease(St(P, O, G, B), f.ip) : Extends(G, i, f, o)
<1> DEFINE s == St(P, O, G, B)
           Q == More(P, Kept)
<1>1. CASE o.state = s /\ o.out = <<>> /\ Unleased(s, f)
  BY <1>1, StParts DEF Silent
<1>2. ASSUME NEW i \in Lease(s, f.ip), NEW e \in Lowest(St(Q, O, G, B)),
             i \in 1..Len(G), G[i].ip = f.ip,
             o.state = St(Less(Q, e), O, Append(Without(G, i),
                         Extending(f, IF e = Kept THEN B ELSE e, Longer(G[i].time, f.time))), B),
             o.out = <<Frame("DHCP_RESPONSE_EXTEND", f.mac, IF e = Kept THEN B ELSE e,
                             Longer(G[i].time, f.time))>>
      PROVE  Extends(G, i, f, o)
  <2> DEFINE a == IF e = Kept THEN B ELSE e
             time == Longer(G[i].time, f.time)
             H == Append(Without(G, i), Extending(f, a, time))
  <2>1. /\ i \in 1..Len(G) /\ G[i].ip = f.ip /\ o.state = St(Less(Q, e), O, H, B)
        /\ o.out = <<Frame("DHCP_RESPONSE_EXTEND", f.mac, a, time)>>
    BY <1>2
  <2>2. Q \in [Entry -> Nat] /\ Q[Kept] = P[Kept] + 1 /\ P[Kept] \in Nat
    BY PoolCounts, KeptNoAddress
  <2> HIDE DEF Q, s, H, time
  <2>3. o.state.pool = Less(Q, e) /\ o.state.given = H
    BY <2>1, StParts
  <2>4. e \in Entry
    BY <2>2, LowestEntry, StTyped
  <2>5. e = Kept
    <3>1. e # Kept => Less(Q, e)[Kept] = Q[Kept]
      BY <2>2, <2>4, PoolCounts, KeptNoAddress, SMTT(20)
    <3> QED
      BY <2>2, <2>3, <3>1
  <2>6. a = f.ip
    BY <2>5
  <2> HIDE DEF a
  <2> QED
    BY <2>1, <2>3, <2>6 DEF Extends, H, time
<1> DEFINE Stays == o.state = s /\ o.out = <<>> /\ Unleased(s, f)
           Goal == \/ Silent(G, o) /\ Unleased(s, f)
                   \/ \E i \in Lease(s, f.ip) : Extends(G, i, f, o)
<1>3. Stays => Goal
  BY <1>1
<1> HIDE DEF Stays, Goal, Q
<1>4. Stays \/ \E i \in Lease(s, f.ip) : Extends(G, i, f, o)
  BY <1>2, ExtendState DEF Stays, Q
<1>5. Goal
  BY <1>3, <1>4 DEF Goal
<1> QED
  BY <1>5 DEF Goal

LEMMA HandleAnswer ==
  ASSUME NEW s, Typed(s), NEW f, f.ip \in AnyIp, NEW o \in Handle(s, f), o.state.pool[Kept] = 0
  PROVE  \/ /\ Silent(s.given, o)
            /\ f.type \in {"DHCP_RELEASE", "DHCP_REQUEST_EXTEND"} => Unleased(s, f)
         \/ f.type = "DHCP_REQUEST" /\ Grants(s.offered, s.given, f, o)
         \/ /\ f.type = "DHCP_REQUEST_EXTEND"
            /\ \E i \in Lease(s, f.ip) : Extends(s.given, i, f, o)
<1> DEFINE P == s.pool
           O == s.offered
           G == s.given
           B == f.ip
           r == St(P, O, G, B)
<1>1. P \in [Entry -> Nat] /\ O \in Seq(Offer) /\ G \in Seq(Grant) /\ s = St(P, O, G, s.buffer)
  BY DEF Typed
<1>2. WithBuffer(s, f.ip) = r
  BY <1>1, WithParts
<1>3. o \in CASE f.type = "DHCP_DISCOVER" -> Discover(WithBuffer(s, f.ip), f)
            [] f.type = "DHCP_REQUEST" -> Request(WithBuffer(s, f.ip), f)
            [] f.type = "DHCP_ACK" -> Ack(WithBuffer(s, f.ip), f)
            [] f.type = "DHCP_RELEASE" -> Release(WithBuffer(s, f.ip), f)
            [] f.type = "DHCP_REQUEST_EXTEND" -> ExtendRequest(WithBuffer(s, f.ip), f)
            [] OTHER -> Stay(WithBuffer(s, f.ip))
  BY DEF Handle, WithBuffer
<1>4. B \in AnyIp
  OBVIOUS
<1>5. Lease(r, f.ip) = Lease(s, f.ip) /\ Unleased(r, f) = Unleased(s, f)
  <2>1. r.given = s.given
    BY StParts
  <2> HIDE DEF r
  <2> QED
    BY <2>1 DEF Lease, Unleased
<1> HIDE DEF P, O, G, r
<1> DEFINE Asks == f.type \in {"DHCP_RELEASE", "DHCP_REQUEST_EXTEND"}
<1>6. \/ ~Asks /\ o \in Discover(r, f)
      \/ ~Asks /\ f.type = "DHCP_REQUEST" /\ o \in Request(r, f)
      \/ ~Asks /\ o \in Ack(r, f)
      \/ o \in Release(r, f)
      \/ f.type = "DHCP_REQUEST_EXTEND" /\ o \in ExtendRequest(r, f)
      \/ ~Asks /\ o \in Stay(r)
  BY <1>2, <1>3
<1> HIDE DEF Asks
<1>7. CASE ~Asks /\ o \in Stay(r)
  BY <1>7, OutcomeParts, StParts DEF Stay, Silent, r, G, Asks
<1>8. CASE ~Asks /\ o \in Discover(r, f)
  BY <1>1, <1>4, <1>8, DiscoverAnswer DEF r, G, Asks
<1>9. CASE ~Asks /\ f.type = "DHCP_REQUEST" /\ o \in Request(r, f)
  BY <1>1, <1>4, <1>9, RequestAnswer DEF r, G, O, Asks
<1>10. CASE ~Asks /\ o \in Ack(r, f)
  BY <1>1, <1>4, <1>10, AckAnswer DEF r, G, Asks
<1>11. CASE o \in Release(r, f)
  BY <1>1, <1>4, <1>5, <1>11, ReleaseAnswer DEF r, G
<1>12. CASE f.type = "DHCP_REQUEST_EXTEND" /\ o \in ExtendRequest(r, f)
  BY <1>1, <1>4, <1>5, <1>12, ExtendAnswer DEF r, G
<1> QED
  BY <1>6, <1>7, <1>8, <1>9, <1>10, <1>11, <1>12

-----------------------------------------------------------------------------
(* The specification: while nothing has gone wrong every lease runs.        *)

RInv == flaws = {} => due \in [AnyIp -> Nat] /\ Running(server.given, due, clock)

LEMMA InitRInv == Init => RInv
<1> SUFFICES ASSUME Init PROVE RInv
  OBVIOUS
<1>1. server.given = <<>> /\ due = [ip \in AnyIp |-> 0]
  BY DEF Init, InitServer
<1>2. Running(<<>>, due, clock)
  BY DEF Running
<1> QED
  BY <1>1, <1>2 DEF RInv

\* A frame: the address of a new lease is in no other, and that of an extended one in
\* no other either.
LEMMA ReceiveRInv ==
  ASSUME IInv, RInv, NEW f \in ClientFrame, Receive(f), flaws' = {}, server'.pool[Kept] = 0
  PROVE  due' \in [AnyIp -> Nat] /\ Running(server'.given, due', clock')
<1> DEFINE G == server.given
           O == server.offered
           spent == Asked(f.time)
<1>1. PICK o \in Handle(server, f) :
        /\ server' = o.state
        /\ due' = IF o.out = <<>> THEN due ELSE [due EXCEPT ![o.out[1].ip] = Due(f, o.out[1])]
        /\ NewFlaws(o.state, FALSE, f.type = "DHCP_REQUEST_EXTEND" /\ \E i \in Lease(server, f.ip) :
             server.given[i].time + Asked(f.time) >= TimeSpace)
  BY DEF Receive
<1>2. /\ flaws = {} /\ clock' = clock
      /\ f.type = "DHCP_REQUEST_EXTEND" =>
           \A i \in Lease(server, f.ip) : ~(G[i].time + spent >= TimeSpace)
  BY <1>1 DEF NewFlaws, Receive
<1>3. Typed(server) /\ due \in [AnyIp -> Nat] /\ Running(G, due, clock) /\ clock \in Nat
      /\ O \in Seq(Offer) /\ G \in Seq(Grant)
  BY <1>2 DEF IInv, RInv, Typed
<1>4. f.ip \in AnyIp /\ f.mac \in Mac /\ f.time \in Time /\ spent \in Nat /\ spent > 0
  BY FrameTypes, TimeNat
<1>5. server.pool[f.ip] \in Nat /\ Count(O, f.ip) \in Nat /\ Count(G, f.ip) \in Nat
      /\ server.pool[f.ip] + Count(O, f.ip) + Count(G, f.ip) <= 1
  <2>1. Copies(f.ip) = IF f.ip \in added THEN 1 ELSE 0
    BY <1>2, <1>4 DEF IInv, ExactlyOnce
  <2>2. CopiesIn(server, f.ip) <= 1
    BY <2>1, CopiesOf
  <2>3. server.pool[f.ip] \in Nat /\ Count(O, f.ip) \in Nat /\ Count(G, f.ip) \in Nat
    BY <1>3, <1>4, PlacesFinite, KeptNoAddress DEF Typed
  <2> QED
    BY <2>2, <2>3 DEF CopiesIn
<1>6. \/ Silent(G, o) \/ Grants(O, G, f, o)
      \/ /\ f.type = "DHCP_REQUEST_EXTEND"
         /\ \E i \in Lease(server, f.ip) : Extends(G, i, f, o)
  BY <1>1, <1>3, FrameTypes, HandleAnswer
<1> HIDE DEF G, O, spent
<1>7. CASE Silent(G, o)
  <2>1. due' = due
    <3>1. CASE o.out = <<>>
      BY <1>1, <3>1
    <3>2. ASSUME NEW a, NEW m, NEW t, o.out = <<Frame("DHCP_OFFER", m, a, t)>>
          PROVE  due' = due
      <4>1. o.out # <<>> /\ o.out[1] = Frame("DHCP_OFFER", m, a, t)
        BY <3>2
      <4>2. o.out[1].ip = a /\ o.out[1].type = "DHCP_OFFER"
        BY <4>1 DEF Frame
      <4>3. Due(f, o.out[1]) = due[a]
        BY <4>2 DEF Due
      <4>4. due' = [due EXCEPT ![a] = due[a]]
        BY <1>1, <4>1, <4>2, <4>3
      <4> QED
        BY <1>3, <4>4
    <3> QED
      BY <1>7, <3>1, <3>2 DEF Silent
  <2> QED
    BY <1>1, <1>2, <1>3, <1>7, <2>1 DEF Silent
<1>8. CASE Grants(O, G, f, o)
  <2>1. PICK i \in 1..Len(O) :
          /\ O[i].ip = f.ip /\ o.state.given = Append(G, Granting(f))
          /\ o.out = <<Frame("DHCP_ACK", f.mac, f.ip, spent)>>
    BY <1>8 DEF Grants, spent
  <2>2. Count(O, f.ip) # 0
    BY <1>3, <2>1, CountZero
  <2>3. Count(G, f.ip) = 0
    BY <1>5, <2>2
  <2>4. \A j \in 1..Len(G) : G[j].ip # f.ip
    BY <1>3, <2>3, CountZero
  <2> DEFINE x == Granting(f)
             end == clock + spent
  <2>5. x \in Grant /\ x.ip = f.ip /\ x.time = spent
    BY <1>4, TimeTypes DEF Granting, Grant, spent
  <2>6. o.out # <<>> /\ o.out[1] = Frame("DHCP_ACK", f.mac, f.ip, spent)
    BY <2>1
  <2>7. o.out[1].ip = f.ip /\ o.out[1].type = "DHCP_ACK" /\ o.out[1].time = spent
    BY <2>6 DEF Frame
  <2>8. Due(f, o.out[1]) = end
    BY <2>7 DEF Due
  <2>9. due' = [due EXCEPT ![f.ip] = end]
    BY <1>1, <2>6, <2>7, <2>8
  <2>10. end \in Nat /\ x.time > 0 /\ x.time = end - clock
    BY <1>3, <1>4, <2>5
  <2> HIDE DEF x, end
  <2>11. [due EXCEPT ![x.ip] = end] \in [AnyIp -> Nat]
         /\ Running(Append(G, x), [due EXCEPT ![x.ip] = end], clock)
    BY <1>3, <2>4, <2>5, <2>10, AppendRunning
  <2> QED
    BY <1>1, <1>2, <2>1, <2>5, <2>9, <2>11 DEF x
<1>9. ASSUME f.type = "DHCP_REQUEST_EXTEND", NEW i \in Lease(server, f.ip), Extends(G, i, f, o)
      PROVE  due' \in [AnyIp -> Nat] /\ Running(server'.given, due', clock')
  <2> DEFINE time == Longer(G[i].time, f.time)
             x == Extending(f, f.ip, time)
             H == Without(G, i)
             end == due[f.ip] + spent
  <2>1. /\ i \in 1..Len(G) /\ G[i].ip = f.ip /\ o.state.given = Append(H, x)
        /\ o.out = <<Frame("DHCP_RESPONSE_EXTEND", f.mac, f.ip, time)>>
    BY <1>9 DEF Extends
  <2>2. G[i].time \in Nat /\ G[i].time > 0 /\ G[i].time = due[f.ip] - clock /\ due[f.ip] \in Nat
    <3>1. G[i] \in Grant
      BY <1>3, <2>1
    <3>2. G[i].time \in Nat
      BY <3>1, TimeNat DEF Grant
    <3> QED
      BY <1>3, <1>4, <2>1, <3>2 DEF Running
  <2>3. time = G[i].time + spent /\ time \in Time
    <3>1. G[i].time + spent \in 0..(TimeSpace - 1) /\ TimeSpace \in Nat \ {0}
      BY <1>2, <1>4, <1>9, <2>2, SpaceAssumption
    <3>2. \A y \in 0..(TimeSpace - 1) : y % TimeSpace = y
      BY <3>1, Z3
    <3> QED
      BY <3>1, <3>2 DEF Longer, spent, Time
  <2>4. x \in Grant /\ x.ip = f.ip /\ x.time = time
    BY <1>4, <2>3 DEF Extending, Grant
  <2>5. o.out # <<>> /\ o.out[1] = Frame("DHCP_RESPONSE_EXTEND", f.mac, f.ip, time)
    BY <2>1
  <2>6. o.out[1].ip = f.ip /\ o.out[1].type = "DHCP_RESPONSE_EXTEND"
    BY <2>5 DEF Frame
  <2>7. Due(f, o.out[1]) = end
    BY <2>6 DEF Due, spent
  <2>8. due' = [due EXCEPT ![f.ip] = end]
    BY <1>1, <2>5, <2>6, <2>7
  <2>9. end \in Nat /\ x.time > 0 /\ x.time = end - clock
    BY <1>3, <1>4, <2>2, <2>3, <2>4
  <2> HIDE DEF x, end, H, time
  <2>10. H \in Seq(Grant) /\ Running(H, due, clock)
    BY <1>3, <2>1, WithoutElements, WithoutRunning DEF H
  <2>11. \A j \in 1..Len(H) : H[j].ip # f.ip
    <3>1. Count(H, f.ip) = Count(G, f.ip) - 1
      BY <1>3, <2>1, CountWithout DEF H
    <3>2. Count(H, f.ip) \in Nat
      BY <2>10, PlacesFinite
    <3>3. Count(H, f.ip) = 0
      BY <1>5, <3>1, <3>2
    <3> QED
      BY <2>10, <3>3, CountZero
  <2>12. [due EXCEPT ![x.ip] = end] \in [AnyIp -> Nat]
         /\ Running(Append(H, x), [due EXCEPT ![x.ip] = end], clock)
    BY <1>3, <2>4, <2>9, <2>10, <2>11, AppendRunning
  <2> QED
    BY <1>1, <1>2, <2>1, <2>4, <2>8, <2>12
<1> QED
  BY <1>6, <1>7, <1>8, <1>9

LEMMA AddTimeRInv ==
  ASSUME IInv, RInv, NEW t \in Steps, TypeAddTime(t), flaws' = {}
  PROVE  due' \in [AnyIp -> Nat] /\ Running(server'.given, due', clock')
<1> DEFINE G == server.given
<1>1. PICK o \in AddTime(server, t) : server' = o.state
  BY DEF TypeAddTime
<1>2. /\ flaws = {} /\ due' = due /\ clock' = clock + t
      /\ ~ \E i \in 1..Len(G) : G[i].time < t
  BY DEF TypeAddTime, NewFlaws
<1>3. /\ server = St(server.pool, server.offered, G, server.buffer)
      /\ server.pool \in [Entry -> Nat] /\ G \in Seq(Grant)
      /\ due \in [AnyIp -> Nat] /\ Running(G, due, clock) /\ clock \in Nat /\ t \in Nat
  BY <1>2, ArgumentsAssumption DEF IInv, RInv, Typed
<1>4. PICK list \in ByTime(Aged(G, t)) : o = End(server, list, Expired(list))
  BY DEF AddTime
<1>5. server'.given = SubSeq(list, Expired(list) + 1, Len(list))
  <2> DEFINE P == server.pool
             O == server.offered
             B == server.buffer
             n == Expired(list)
  <2>1. P \in [Entry -> Nat] /\ server = St(P, O, G, B)
    BY <1>3
  <2> HIDE DEF P, O, G, B, n
  <2>2. End(St(P, O, G, B), list, n).state
          = St(Back(P, SubSeq(list, 1, n)), O, SubSeq(list, n + 1, Len(list)), B)
    BY <2>1, EndState
  <2> DEFINE b == SubSeq(list, n + 1, Len(list))
             Q == Back(P, SubSeq(list, 1, n))
  <2>3. End(St(P, O, G, B), list, n).state.given = b
    <3> HIDE DEF b, Q
    <3>1. End(St(P, O, G, B), list, n).state = St(Q, O, b, B)
      BY <2>2 DEF b, Q
    <3> QED
      BY <3>1, StParts
  <2>4. server' = End(St(P, O, G, B), list, n).state
    BY <1>1, <1>4, <2>1 DEF n
  <2> QED
    BY <2>3, <2>4 DEF n
<1>6. \A i \in 1..Len(G) : G[i].time >= t
  <2> TAKE i \in 1..Len(G)
  <2>1. G[i] \in Grant
    BY <1>3
  <2>2. G[i].time \in Nat
    BY <2>1, TimeNat DEF Grant
  <2> QED
    BY <1>2, <1>3, <2>2
<1> HIDE DEF G
<1> QED
  BY <1>2, <1>3, <1>4, <1>5, <1>6, EndRunning

LEMMA NextRInv == IInv /\ IInv' /\ RInv /\ [Next]_vars => RInv'
<1> SUFFICES ASSUME IInv, IInv', RInv, [Next]_vars, flaws' = {}
             PROVE  due' \in [AnyIp -> Nat] /\ Running(server'.given, due', clock')
  BY DEF RInv
<1>1. ASSUME NEW f \in ClientFrame, Receive(f)
      PROVE  due' \in [AnyIp -> Nat] /\ Running(server'.given, due', clock')
  <2>1. server'.pool[Kept] \in Nat /\ ~(server'.pool[Kept] > 0)
    BY KeptNoAddress DEF IInv, Typed
  <2>2. server'.pool[Kept] = 0
    BY <2>1
  <2> QED
    BY <1>1, <2>2, ReceiveRInv
<1>2. ASSUME NEW p \in Pools, TypeAddPool(p[1], p[2])
      PROVE  due' \in [AnyIp -> Nat] /\ Running(server'.given, due', clock')
  <2>1. flaws = {} /\ due' = due /\ clock' = clock
    BY <1>2 DEF TypeAddPool, NewFlaws
  <2>2. server'.given = server.given
    <3>1. PoolRange(p[1], p[2]) \subseteq Ip
      BY ArgumentsAssumption, PoolRangeIps
    <3>2. server' = AddPool(server, PoolRange(p[1], p[2]))
      BY <1>2 DEF TypeAddPool
    <3> QED
      BY <3>1, <3>2, AddPoolState DEF IInv
  <2> QED
    BY <2>1, <2>2 DEF RInv
<1>3. ASSUME NEW t \in Steps, TypeAddTime(t)
      PROVE  due' \in [AnyIp -> Nat] /\ Running(server'.given, due', clock')
  BY <1>3, AddTimeRInv
<1>4. CASE UNCHANGED vars
  BY <1>4 DEF vars, RInv
<1> QED
  BY <1>1, <1>2, <1>3, <1>4 DEF Next

\* While nothing has gone wrong (no pointer kept, no pool added over an address that is
\* out, no time gone round 32 bits) a lease has exactly the time left that it was
\* granted and extended for, and one that has none left is ended by add_time, whatever
\* other leases end with it and whatever order std::sort leaves equal ones in.
THEOREM RunsItsTimeHolds == Spec => []RunsItsTime
<1>1. RInv => RunsItsTime
  BY RunningOf DEF RInv
<1> QED
  BY <1>1, Inductive, InitRInv, NextRInv, PTL DEF Spec

-----------------------------------------------------------------------------
(* The vectors are a book of where each address is (Allocation).            *)

LEMMA WhereIs ==
  ASSUME NEW s, NEW now, NEW ip, NEW x
  PROVE  x \in Whereabouts(s, now, ip) <=>
           \/ s.pool[ip] > 0 /\ x = Promise!Free
           \/ \E i \in 1..Len(s.offered) : s.offered[i].ip = ip /\ x = Promise!Offered(s.offered[i].mac)
           \/ \E i \in 1..Len(s.given) :
                s.given[i].ip = ip /\ x = Promise!Leased(s.given[i].mac, now + s.given[i].time)
<1>1. x \in (IF s.pool[ip] > 0 THEN {Promise!Free} ELSE {}) <=> s.pool[ip] > 0 /\ x = Promise!Free
  OBVIOUS
<1>2. x \in { Promise!Offered(o.mac) : o \in Entries(s.offered, ip) } <=>
        \E i \in 1..Len(s.offered) : s.offered[i].ip = ip /\ x = Promise!Offered(s.offered[i].mac)
  BY DEF Entries, Places
<1>3. x \in { Promise!Leased(g.mac, now + g.time) : g \in Entries(s.given, ip) } <=>
        \E i \in 1..Len(s.given) :
          s.given[i].ip = ip /\ x = Promise!Leased(s.given[i].mac, now + s.given[i].time)
  BY DEF Entries, Places
<1>4. Whereabouts(s, now, ip) =
        (IF s.pool[ip] > 0 THEN {Promise!Free} ELSE {})
        \cup { Promise!Offered(o.mac) : o \in Entries(s.offered, ip) }
        \cup { Promise!Leased(g.mac, now + g.time) : g \in Entries(s.given, ip) }
  BY DEF Whereabouts, Promise!Free, Promise!Offered, Promise!Leased
<1> QED
  BY <1>1, <1>2, <1>3, <1>4

LEMMA OneCounted ==
  ASSUME NEW T, NEW seq \in Seq(T), NEW ip, Count(seq, ip) <= 1,
         NEW i \in 1..Len(seq), NEW j \in 1..Len(seq), seq[i].ip = ip, seq[j].ip = ip
  PROVE  i = j
<1>1. IsFiniteSet(Places(seq, ip)) /\ Count(seq, ip) \in Nat
  BY PlacesFinite
<1>2. i \in Places(seq, ip) /\ j \in Places(seq, ip)
  BY DEF Places
<1>3. Cardinality(Places(seq, ip)) # 0
  BY <1>1, <1>2, FS_EmptySet
<1>4. Cardinality(Places(seq, ip)) = 1
  BY <1>1, <1>3 DEF Count
<1>5. \E x : Places(seq, ip) = {x}
  BY <1>1, <1>4, FS_Singleton
<1> QED
  BY <1>2, <1>5

\* An address that is somewhere once is in one place, and one that is nowhere in none.
LEMMA OnePlace ==
  ASSUME NEW s, Typed(s), NEW now, NEW ip \in AnyIp, CopiesIn(s, ip) <= 1
  PROVE  /\ \A x \in Whereabouts(s, now, ip) : Whereabouts(s, now, ip) = {x}
         /\ Whereabouts(s, now, ip) = {} <=> CopiesIn(s, ip) = 0
<1> DEFINE p == s.pool[ip]
           o == Count(s.offered, ip)
           g == Count(s.given, ip)
           W == Whereabouts(s, now, ip)
           InO(x) == \E i \in 1..Len(s.offered) : s.offered[i].ip = ip /\ x = Promise!Offered(s.offered[i].mac)
           InG(x) == \E i \in 1..Len(s.given) :
                s.given[i].ip = ip /\ x = Promise!Leased(s.given[i].mac, now + s.given[i].time)
<1>1. p \in Nat /\ o \in Nat /\ g \in Nat /\ s.offered \in Seq(Offer) /\ s.given \in Seq(Grant)
  BY PlacesFinite, KeptNoAddress DEF Typed
<1>2. p + o + g <= 1 /\ CopiesIn(s, ip) = p + o + g
  BY DEF CopiesIn
<1>3. (o = 0 <=> \A i \in 1..Len(s.offered) : s.offered[i].ip # ip)
      /\ (g = 0 <=> \A i \in 1..Len(s.given) : s.given[i].ip # ip)
  BY <1>1, CountZero
<1>4. \A x : x \in W <=> (p > 0 /\ x = Promise!Free) \/ InO(x) \/ InG(x)
  BY WhereIs
<1>5. (\E x : InO(x)) <=> o # 0
  BY <1>3
<1>6. (\E x : InG(x)) <=> g # 0
  BY <1>3
<1>7. \A x, y : InO(x) /\ InO(y) => x = y
  <2> SUFFICES ASSUME NEW i \in 1..Len(s.offered), NEW j \in 1..Len(s.offered),
                      s.offered[i].ip = ip, s.offered[j].ip = ip
               PROVE  i = j
    OBVIOUS
  <2>1. o <= 1
    BY <1>1, <1>2
  <2> QED
    BY <1>1, <2>1, OneCounted
<1>8. \A x, y : InG(x) /\ InG(y) => x = y
  <2> SUFFICES ASSUME NEW i \in 1..Len(s.given), NEW j \in 1..Len(s.given),
                      s.given[i].ip = ip, s.given[j].ip = ip
               PROVE  i = j
    OBVIOUS
  <2>1. g <= 1
    BY <1>1, <1>2
  <2> QED
    BY <1>1, <2>1, OneCounted
<1> HIDE DEF p, o, g, W, InO, InG
<1>9. (p = 0 /\ o = 0 /\ g = 0) \/ (p = 1 /\ o = 0 /\ g = 0) \/ (p = 0 /\ o = 1 /\ g = 0)
      \/ (p = 0 /\ o = 0 /\ g = 1)
  BY <1>1, <1>2
<1>10. \A x, y \in W : x = y
  <2>1. CASE p = 0 /\ o = 0 /\ g = 0
    BY <1>4, <1>5, <1>6, <2>1
  <2>2. CASE p = 1 /\ o = 0 /\ g = 0
    BY <1>4, <1>5, <1>6, <2>2
  <2>3. CASE p = 0 /\ o = 1 /\ g = 0
    BY <1>4, <1>6, <1>7, <2>3
  <2>4. CASE p = 0 /\ o = 0 /\ g = 1
    BY <1>4, <1>5, <1>8, <2>4
  <2> QED
    BY <1>9, <2>1, <2>2, <2>3, <2>4
<1>11. W = {} <=> p = 0 /\ o = 0 /\ g = 0
  <2>1. p > 0 <=> p # 0
    BY <1>1
  <2> QED
    BY <1>4, <1>5, <1>6, <2>1
<1>12. CopiesIn(s, ip) = 0 <=> p = 0 /\ o = 0 /\ g = 0
  BY <1>1, <1>2
<1> QED
  BY <1>10, <1>11, <1>12 DEF W

\* What is in a vector stays in it when something is appended, and when something else
\* is erased.
LEMMA InAppended ==
  ASSUME NEW T, NEW seq \in Seq(T), NEW x
  PROVE  /\ \A j \in 1..Len(seq) : \E k \in 1..Len(Append(seq, x)) : Append(seq, x)[k] = seq[j]
         /\ \E k \in 1..Len(Append(seq, x)) : Append(seq, x)[k] = x
<1>1. Len(seq) \in Nat /\ Len(Append(seq, x)) = Len(seq) + 1 /\ Append(seq, x)[Len(seq) + 1] = x
      /\ \A j \in 1..Len(seq) : Append(seq, x)[j] = seq[j]
  OBVIOUS
<1>2. \A j \in 1..Len(seq) : j \in 1..Len(Append(seq, x))
  BY <1>1
<1>3. Len(seq) + 1 \in 1..Len(Append(seq, x))
  BY <1>1
<1> QED
  BY <1>1, <1>2, <1>3

LEMMA InWithout ==
  ASSUME NEW T, NEW seq \in Seq(T), NEW i \in 1..Len(seq), NEW j \in 1..Len(seq) \ {i}
  PROVE  \E k \in 1..Len(Without(seq, i)) : Without(seq, i)[k] = seq[j]
<1>1. Len(seq) \in Nat /\ Len(Without(seq, i)) = Len(seq) - 1
      /\ \A k \in 1..(Len(seq) - 1) : Without(seq, i)[k] = IF k < i THEN seq[k] ELSE seq[k + 1]
  BY WithoutElements
<1>2. CASE j < i
  BY <1>1, <1>2
<1>3. CASE j > i
  <2>1. j - 1 \in 1..(Len(seq) - 1) /\ ~(j - 1 < i) /\ (j - 1) + 1 = j
    BY <1>1, <1>3
  <2> QED
    BY <1>1, <2>1
<1> QED
  BY <1>1, <1>2, <1>3

\* Where the other addresses are, they stay.
Others(s, t, now, a) ==
  \A b \in AnyIp \ {a} : Whereabouts(s, now, b) \subseteq Whereabouts(t, now, b)

LEMMA OthersStay ==
  ASSUME NEW s, NEW t, NEW now, NEW a,
         \A b \in AnyIp \ {a} : s.pool[b] > 0 => t.pool[b] > 0,
         \A j \in 1..Len(s.offered) : s.offered[j].ip # a =>
            \E k \in 1..Len(t.offered) : t.offered[k] = s.offered[j],
         \A j \in 1..Len(s.given) : s.given[j].ip # a =>
            \E k \in 1..Len(t.given) : t.given[k] = s.given[j]
  PROVE  Others(s, t, now, a)
<1> SUFFICES ASSUME NEW b \in AnyIp \ {a}, NEW y \in Whereabouts(s, now, b)
             PROVE  y \in Whereabouts(t, now, b)
  BY DEF Others
<1>1. CASE s.pool[b] > 0 /\ y = Promise!Free
  BY <1>1, WhereIs
<1>2. ASSUME NEW j \in 1..Len(s.offered), s.offered[j].ip = b, y = Promise!Offered(s.offered[j].mac)
      PROVE  y \in Whereabouts(t, now, b)
  <2>1. PICK k \in 1..Len(t.offered) : t.offered[k] = s.offered[j]
    BY <1>2
  <2> QED
    BY <1>2, <2>1, WhereIs
<1>3. ASSUME NEW j \in 1..Len(s.given), s.given[j].ip = b,
             y = Promise!Leased(s.given[j].mac, now + s.given[j].time)
      PROVE  y \in Whereabouts(t, now, b)
  <2>1. PICK k \in 1..Len(t.given) : t.given[k] = s.given[j]
    BY <1>3
  <2> QED
    BY <1>3, <2>1, WhereIs
<1> QED
  BY <1>1, <1>2, <1>3, WhereIs

\* Nothing is held by a pointer, before and after a step.
Unkept(s, t) == s.pool[Kept] = 0 /\ t.pool[Kept] = 0

\* What of the state the book shows.
Shown(s) == <<s.pool, s.offered, s.given>>

OfferMoves(s, t, now, c) ==
  \E a \in AnyIp :
    /\ Others(s, t, now, a) /\ s.pool[a] > 0 /\ \A b \in AnyIp : s.pool[b] > 0 => a <= b
    /\ Promise!Offered(c) \in Whereabouts(t, now, a)

GrantMoves(s, t, now, c, time) ==
  \E a \in AnyIp, d \in Mac :
    /\ Others(s, t, now, a) /\ Promise!Offered(d) \in Whereabouts(s, now, a)
    /\ Promise!Leased(c, now + Asked(time)) \in Whereabouts(t, now, a)

BackMoves(s, t, now) ==
  \E a \in AnyIp, d \in Mac :
    /\ Others(s, t, now, a) /\ Promise!Offered(d) \in Whereabouts(s, now, a)
    /\ Promise!Free \in Whereabouts(t, now, a)

ExtendMoves(s, t, now, ip, c, time) ==
  \E i \in Lease(s, ip) :
    /\ i \in 1..Len(s.given) /\ s.given[i].ip = ip /\ Others(s, t, now, ip)
    /\ Promise!Leased(c, now + Longer(s.given[i].time, time)) \in Whereabouts(t, now, ip)

LEMMA DiscoverMoves ==
  ASSUME NEW P \in [Entry -> Nat], NEW O \in Seq(Offer), NEW G \in Seq(Grant), NEW B \in AnyIp,
         NEW f, f.mac \in Mac, NEW now, NEW o \in Discover(St(P, O, G, B), f),
         Unkept(St(P, O, G, B), o.state)
  PROVE  \/ Shown(o.state) = Shown(St(P, O, G, B))
         \/ OfferMoves(St(P, O, G, B), o.state, now, f.mac)
<1> DEFINE s == St(P, O, G, B)
<1>1. Typed(s) /\ s.pool = P /\ s.offered = O /\ s.given = G
  BY StTyped, StParts
<1>2. CASE o.state = s
  BY <1>2
<1>3. ASSUME NEW e \in Lowest(s), o.state = Discovered(s, f, e)
      PROVE  OfferMoves(s, o.state, now, f.mac)
  <2> DEFINE x == Offering(s, f, e)
             t == St(Less(P, e), Append(O, x), G, B)
  <2>1. e \in Entry /\ P[e] > 0 /\ e # Kept /\ Value(s, e) = e
    BY <1>1, LowestEntry DEF Unkept
  <2>2. e \in AnyIp
    BY <2>1 DEF Entry
  <2>3. o.state = t
    <3>1. Erase(s, e) = St(Less(P, e), O, G, B) /\ Erase(s, e).offered = O
      BY PushErase, StParts
    <3> HIDE DEF x
    <3> QED
      BY <1>3, <3>1, WithParts DEF Discovered, x
  <2>4. x.ip = e /\ x.mac = f.mac
    BY <2>1 DEF Offering
  <2> HIDE DEF x
  <2>5. t.pool = Less(P, e) /\ t.offered = Append(O, x) /\ t.given = G
    BY DEF St
  <2>6. \A b \in AnyIp : P[b] > 0 => e <= b
    <3>1. \A d \in InPool(s) : Value(s, e) <= Value(s, d)
      BY DEF Lowest
    <3> TAKE b \in AnyIp
    <3>2. b \in Entry /\ Value(s, b) = b
      BY KeptNoAddress DEF Value
    <3> HIDE DEF s
    <3> QED
      BY <1>1, <2>1, <3>1, <3>2 DEF InPool
  <2>7. \A b \in AnyIp \ {e} : Less(P, e)[b] = P[b]
    BY <2>1, PoolCounts, KeptNoAddress
  <2> HIDE DEF s, t, x
  <2>8. Others(s, t, now, e)
    <3>1. \A j \in 1..Len(s.offered) : s.offered[j].ip # e =>
            \E k \in 1..Len(t.offered) : t.offered[k] = s.offered[j]
      BY <1>1, <2>5, InAppended
    <3>2. \A j \in 1..Len(s.given) : s.given[j].ip # e =>
            \E k \in 1..Len(t.given) : t.given[k] = s.given[j]
      BY <1>1, <2>5
    <3>3. \A b \in AnyIp \ {e} : s.pool[b] > 0 => t.pool[b] > 0
      BY <1>1, <2>5, <2>7
    <3> QED
      BY <3>1, <3>2, <3>3, OthersStay
  <2>9. Promise!Offered(f.mac) \in Whereabouts(t, now, e)
    <3>1. \E k \in 1..Len(Append(O, x)) : Append(O, x)[k] = x
      BY InAppended
    <3> QED
      BY <2>4, <2>5, <3>1, WhereIs
  <2> QED
    BY <1>1, <2>1, <2>2, <2>3, <2>6, <2>8, <2>9 DEF OfferMoves
<1> HIDE DEF s
<1> QED
  BY <1>2, <1>3, DiscoverState DEF s
LEMMA RequestMoves ==
  ASSUME NEW P \in [Entry -> Nat], NEW O \in Seq(Offer), NEW G \in Seq(Grant), NEW B \in AnyIp,
         NEW f, f.ip \in AnyIp, NEW now, NEW o \in Request(St(P, O, G, B), f)
  PROVE  \/ Shown(o.state) = Shown(St(P, O, G, B))
         \/ GrantMoves(St(P, O, G, B), o.state, now, f.mac, f.time)
<1> DEFINE s == St(P, O, G, B)
<1>1. Typed(s) /\ s.pool = P /\ s.offered = O /\ s.given = G
  BY StTyped, StParts
<1>2. CASE o.state = s
  BY <1>2
<1>3. ASSUME NEW i \in 1..Len(O), O[i].ip = f.ip,
             o.state = St(P, Without(O, i), Append(G, Granting(f)), B)
      PROVE  GrantMoves(s, o.state, now, f.mac, f.time)
  <2> DEFINE x == Granting(f)
             t == St(P, Without(O, i), Append(G, x), B)
  <2>1. x.ip = f.ip /\ x.mac = f.mac /\ x.time = Asked(f.time)
    BY DEF Granting
  <2>2. o.state = t
    BY <1>3
  <2> HIDE DEF x
  <2>3. t.pool = P /\ t.offered = Without(O, i) /\ t.given = Append(G, x)
    BY DEF St
  <2> HIDE DEF s, t
  <2>4. Others(s, t, now, f.ip)
    <3>1. \A j \in 1..Len(G) : \E k \in 1..Len(Append(G, x)) : Append(G, x)[k] = G[j]
      BY InAppended
    <3>2. \A j \in 1..Len(O) \ {i} : \E k \in 1..Len(Without(O, i)) : Without(O, i)[k] = O[j]
      BY InWithout
    <3>3. \A j \in 1..Len(O) : O[j].ip # f.ip =>
            \E k \in 1..Len(Without(O, i)) : Without(O, i)[k] = O[j]
      BY <1>3, <3>2
    <3>4. \A b \in AnyIp \ {f.ip} : s.pool[b] > 0 => t.pool[b] > 0
      BY <1>1, <2>3
    <3>5. \A j \in 1..Len(s.offered) : s.offered[j].ip # f.ip =>
            \E k \in 1..Len(t.offered) : t.offered[k] = s.offered[j]
      BY <1>1, <2>3, <3>3
    <3>6. \A j \in 1..Len(s.given) : s.given[j].ip # f.ip =>
            \E k \in 1..Len(t.given) : t.given[k] = s.given[j]
      BY <1>1, <2>3, <3>1
    <3> QED
      BY <3>4, <3>5, <3>6, OthersStay
  <2>5. Promise!Leased(f.mac, now + Asked(f.time)) \in Whereabouts(t, now, f.ip)
    <3>1. \E k \in 1..Len(Append(G, x)) : Append(G, x)[k] = x
      BY InAppended
    <3> QED
      BY <2>1, <2>3, <3>1, WhereIs
  <2>6. Promise!Offered(O[i].mac) \in Whereabouts(s, now, f.ip)
    BY <1>1, <1>3, WhereIs
  <2>7. O[i].mac \in Mac
    <3>1. O[i] \in Offer
      OBVIOUS
    <3> QED
      BY <3>1 DEF Offer
  <2> QED
    BY <2>2, <2>4, <2>5, <2>6, <2>7 DEF GrantMoves
<1> HIDE DEF s
<1> QED
  BY <1>2, <1>3, RequestState DEF s

LEMMA AckMoves ==
  ASSUME NEW P \in [Entry -> Nat], NEW O \in Seq(Offer), NEW G \in Seq(Grant), NEW B \in AnyIp,
         NEW f, NEW now, NEW o \in Ack(St(P, O, G, B), f)
  PROVE  \/ Shown(o.state) = Shown(St(P, O, G, B))
         \/ BackMoves(St(P, O, G, B), o.state, now)
<1> DEFINE s == St(P, O, G, B)
<1>1. Typed(s) /\ s.pool = P /\ s.offered = O /\ s.given = G
  BY StTyped, StParts
<1>2. CASE o.state = s
  BY <1>2
<1>3. ASSUME NEW i \in 1..Len(O), o.state = St(More(P, O[i].ip), Without(O, i), G, B)
      PROVE  BackMoves(s, o.state, now)
  <2> DEFINE a == O[i].ip
             t == St(More(P, a), Without(O, i), G, B)
  <2>1. a \in AnyIp /\ O[i].mac \in Mac
    <3>1. O[i] \in Offer
      OBVIOUS
    <3> QED
      BY <3>1 DEF Offer
  <2>2. o.state = t
    BY <1>3
  <2> HIDE DEF a
  <2>3. t.pool = More(P, a) /\ t.offered = Without(O, i) /\ t.given = G
    BY DEF St
  <2>4. More(P, a)[a] = P[a] + 1 /\ P[a] \in Nat /\ \A b \in AnyIp \ {a} : More(P, a)[b] = P[b]
    <3>1. a \in Entry /\ \A b \in AnyIp \ {a} : b \in Entry \ {a}
      BY <2>1, KeptNoAddress
    <3> QED
      BY <3>1, PoolCounts
  <2> HIDE DEF s, t
  <2>5. Others(s, t, now, a)
    <3>1. \A j \in 1..Len(O) \ {i} : \E k \in 1..Len(Without(O, i)) : Without(O, i)[k] = O[j]
      BY InWithout
    <3>2. \A j \in 1..Len(O) : O[j].ip # a =>
            \E k \in 1..Len(Without(O, i)) : Without(O, i)[k] = O[j]
      BY <3>1 DEF a
    <3>3. \A b \in AnyIp \ {a} : P[b] > 0 => More(P, a)[b] > 0
      BY <2>4
    <3> QED
      BY <1>1, <2>3, <3>2, <3>3, OthersStay
  <2>6. Promise!Free \in Whereabouts(t, now, a)
    <3>1. t.pool[a] > 0
      BY <2>3, <2>4
    <3> QED
      BY <3>1, WhereIs
  <2>7. Promise!Offered(O[i].mac) \in Whereabouts(s, now, a)
    BY <1>1, WhereIs DEF a
  <2> QED
    BY <2>1, <2>2, <2>5, <2>6, <2>7 DEF BackMoves
<1> HIDE DEF s
<1> QED
  BY <1>2, <1>3, AckState DEF s
LEMMA ExtendMovesOne ==
  ASSUME NEW P \in [Entry -> Nat], NEW O \in Seq(Offer), NEW G \in Seq(Grant), NEW B \in AnyIp,
         NEW f, B = f.ip, NEW now, NEW o \in ExtendRequest(St(P, O, G, B), f),
         Unkept(St(P, O, G, B), o.state)
  PROVE  \/ Shown(o.state) = Shown(St(P, O, G, B))
         \/ ExtendMoves(St(P, O, G, B), o.state, now, f.ip, f.mac, f.time)
<1> DEFINE s == St(P, O, G, B)
           Q == More(P, Kept)
<1>1. Typed(s) /\ s.pool = P /\ s.offered = O /\ s.given = G
  BY StTyped, StParts
<1>2. CASE o.state = s
  BY <1>2
<1>3. ASSUME NEW i \in Lease(s, f.ip), NEW e \in Lowest(St(Q, O, G, B)),
             i \in 1..Len(G), G[i].ip = f.ip,
             o.state = St(Less(Q, e), O, Append(Without(G, i),
                         Extending(f, IF e = Kept THEN B ELSE e, Longer(G[i].time, f.time))), B)
      PROVE  ExtendMoves(s, o.state, now, f.ip, f.mac, f.time)
  <2> DEFINE a == IF e = Kept THEN B ELSE e
             x == Extending(f, a, Longer(G[i].time, f.time))
             H == Append(Without(G, i), x)
             t == St(Less(Q, e), O, H, B)
  <2>1. o.state = t
    BY <1>3
  <2>2. Q \in [Entry -> Nat] /\ Q[Kept] = P[Kept] + 1 /\ P[Kept] = 0
        /\ \A b \in Entry \ {Kept} : Q[b] = P[b]
    BY <1>1, PoolCounts, KeptNoAddress DEF Unkept
  <2> HIDE DEF Q, x, H
  <2>3. e \in Entry
    BY <2>2, LowestEntry, StTyped
  <2>4. t.pool = Less(Q, e) /\ t.offered = O /\ t.given = H
    BY DEF St
  <2>5. e = Kept
    <3>1. e # Kept => Less(Q, e)[Kept] = Q[Kept]
      BY <2>2, <2>3, KeptNoAddress DEF Less
    <3> QED
      BY <2>1, <2>2, <2>4, <3>1 DEF Unkept
  <2>6. \A b \in AnyIp : t.pool[b] = P[b]
    <3>1. \A b \in AnyIp : b \in Entry \ {Kept}
      BY KeptNoAddress
    <3>2. \A b \in Entry \ {Kept} : Less(Q, Kept)[b] = Q[b]
      BY <2>2, PoolCounts, KeptNoAddress
    <3> QED
      BY <2>2, <2>4, <2>5, <3>1, <3>2
  <2>7. x.ip = f.ip /\ x.mac = f.mac /\ x.time = Longer(G[i].time, f.time)
    BY <2>5 DEF x, Extending
  <2>8. Without(G, i) \in Seq(Grant)
    BY <1>3, WithoutElements
  <2>9. /\ \A j \in 1..Len(Without(G, i)) : \E k \in 1..Len(H) : H[k] = Without(G, i)[j]
        /\ \E k \in 1..Len(H) : H[k] = x
    BY <2>8, InAppended DEF H
  <2>10. \A j \in 1..Len(G) : G[j].ip # f.ip => \E k \in 1..Len(H) : H[k] = G[j]
    <3> SUFFICES ASSUME NEW j \in 1..Len(G), G[j].ip # f.ip
                 PROVE  \E k \in 1..Len(H) : H[k] = G[j]
      OBVIOUS
    <3>1. j \in 1..Len(G) \ {i}
      BY <1>3
    <3>2. PICK k \in 1..Len(Without(G, i)) : Without(G, i)[k] = G[j]
      BY <1>3, <3>1, InWithout
    <3> QED
      BY <2>9, <3>2
  <2> HIDE DEF s, t, a
  <2>11. Others(s, t, now, f.ip)
    BY <1>1, <2>4, <2>6, <2>10, OthersStay
  <2>12. Promise!Leased(f.mac, now + Longer(G[i].time, f.time)) \in Whereabouts(t, now, f.ip)
    BY <2>4, <2>7, <2>9, WhereIs
  <2> QED
    BY <1>1, <1>3, <2>1, <2>11, <2>12 DEF ExtendMoves
<1> DEFINE Stays == o.state = s
           Goal == Shown(o.state) = Shown(s) \/ ExtendMoves(s, o.state, now, f.ip, f.mac, f.time)
<1>4. Stays => Goal
  BY <1>2
<1> HIDE DEF Stays, Goal, Q
<1>5. Stays \/ \E i \in Lease(s, f.ip) : ExtendMoves(s, o.state, now, f.ip, f.mac, f.time)
  BY <1>3, ExtendState DEF Stays, Q
<1>6. Goal
  BY <1>4, <1>5 DEF Goal
<1> QED
  BY <1>6 DEF Goal
\* Every frame moves one address in the book, or none.
LEMMA HandleMoves ==
  ASSUME NEW s, Typed(s), NEW f, f.ip \in AnyIp, f.mac \in Mac, NEW now,
         NEW o \in Handle(s, f), Unkept(s, o.state)
  PROVE  \/ Shown(o.state) = Shown(s)
         \/ OfferMoves(s, o.state, now, f.mac)
         \/ GrantMoves(s, o.state, now, f.mac, f.time)
         \/ BackMoves(s, o.state, now)
         \/ f.type = "DHCP_REQUEST_EXTEND" /\ ExtendMoves(s, o.state, now, f.ip, f.mac, f.time)
<1> DEFINE P == s.pool
           O == s.offered
           G == s.given
           B == f.ip
           r == St(P, O, G, B)
           Goal(x) == \/ Shown(o.state) = Shown(x)
                      \/ OfferMoves(x, o.state, now, f.mac)
                      \/ GrantMoves(x, o.state, now, f.mac, f.time)
                      \/ BackMoves(x, o.state, now)
                      \/ f.type = "DHCP_REQUEST_EXTEND" /\ ExtendMoves(x, o.state, now, f.ip, f.mac, f.time)
<1>1. P \in [Entry -> Nat] /\ O \in Seq(Offer) /\ G \in Seq(Grant) /\ s = St(P, O, G, s.buffer)
  BY DEF Typed
<1>2. WithBuffer(s, f.ip) = r
  BY <1>1, WithParts
<1>3. o \in CASE f.type = "DHCP_DISCOVER" -> Discover(WithBuffer(s, f.ip), f)
            [] f.type = "DHCP_REQUEST" -> Request(WithBuffer(s, f.ip), f)
            [] f.type = "DHCP_ACK" -> Ack(WithBuffer(s, f.ip), f)
            [] f.type = "DHCP_RELEASE" -> Release(WithBuffer(s, f.ip), f)
            [] f.type = "DHCP_REQUEST_EXTEND" -> ExtendRequest(WithBuffer(s, f.ip), f)
            [] OTHER -> Stay(WithBuffer(s, f.ip))
  BY DEF Handle, WithBuffer
<1>4. r.pool = s.pool /\ r.offered = s.offered /\ r.given = s.given
  BY StParts
<1>5. Goal(r) => Goal(s)
  <2> HIDE DEF r
  <2>1. \A now1, b : Whereabouts(r, now1, b) = Whereabouts(s, now1, b)
    BY <1>4 DEF Whereabouts
  <2>2. Lease(r, f.ip) = Lease(s, f.ip) /\ Shown(r) = Shown(s)
    BY <1>4 DEF Lease, Shown
  <2>3. OfferMoves(r, o.state, now, f.mac) <=> OfferMoves(s, o.state, now, f.mac)
    BY <1>4, <2>1 DEF OfferMoves, Others
  <2>4. GrantMoves(r, o.state, now, f.mac, f.time) <=> GrantMoves(s, o.state, now, f.mac, f.time)
    BY <1>4, <2>1 DEF GrantMoves, Others
  <2>5. BackMoves(r, o.state, now) <=> BackMoves(s, o.state, now)
    BY <1>4, <2>1 DEF BackMoves, Others
  <2>6. ExtendMoves(r, o.state, now, f.ip, f.mac, f.time)
        <=> ExtendMoves(s, o.state, now, f.ip, f.mac, f.time)
    BY <1>4, <2>1, <2>2 DEF ExtendMoves, Others
  <2> QED
    BY <2>2, <2>3, <2>4, <2>5, <2>6
<1>6. B \in AnyIp /\ Unkept(r, o.state)
  BY <1>4 DEF Unkept
<1> HIDE DEF P, O, G, r
<1>7. \/ o \in Discover(r, f)
      \/ o \in Request(r, f)
      \/ o \in Ack(r, f)
      \/ o \in Release(r, f)
      \/ f.type = "DHCP_REQUEST_EXTEND" /\ o \in ExtendRequest(r, f)
      \/ o \in Stay(r)
  BY <1>2, <1>3
<1>8. CASE o \in Stay(r)
  <2>1. o.state = r
    BY <1>8, OutcomeParts DEF Stay
  <2> QED
    BY <1>5, <2>1
<1>9. CASE o \in Discover(r, f)
  <2>1. Goal(r)
    BY <1>1, <1>6, <1>9, DiscoverMoves DEF r
  <2> HIDE DEF Goal
  <2> QED
    BY <1>5, <2>1 DEF Goal
<1>10. CASE o \in Request(r, f)
  <2>1. Goal(r)
    BY <1>1, <1>6, <1>10, RequestMoves DEF r
  <2> HIDE DEF Goal
  <2> QED
    BY <1>5, <2>1 DEF Goal
<1>11. CASE o \in Ack(r, f)
  <2>1. Goal(r)
    BY <1>1, <1>6, <1>11, AckMoves DEF r
  <2> HIDE DEF Goal
  <2> QED
    BY <1>5, <2>1 DEF Goal
<1>12. CASE o \in Release(r, f)
  <2>1. o.state = r \/ \E i \in 1..Len(G) : o.state = St(More(P, Kept), O, Without(G, i), B)
    BY <1>1, <1>6, <1>12, ReleaseState DEF r
  <2>2. ASSUME NEW i \in 1..Len(G), o.state = St(More(P, Kept), O, Without(G, i), B)
        PROVE  FALSE
    <3>1. o.state.pool = More(P, Kept)
      BY <2>2, StParts
    <3>2. More(P, Kept)[Kept] = P[Kept] + 1 /\ P[Kept] \in Nat
      BY <1>1, PoolCounts, KeptNoAddress
    <3> QED
      BY <1>6, <3>1, <3>2 DEF Unkept
  <2> QED
    BY <1>5, <2>1, <2>2
<1>13. CASE f.type = "DHCP_REQUEST_EXTEND" /\ o \in ExtendRequest(r, f)
  <2>1. Goal(r)
    BY <1>1, <1>6, <1>13, ExtendMovesOne DEF r
  <2> HIDE DEF Goal
  <2> QED
    BY <1>5, <2>1 DEF Goal
<1> QED
  BY <1>7, <1>8, <1>9, <1>10, <1>11, <1>12, <1>13
-----------------------------------------------------------------------------
(* Time passes in the book.                                                 *)

\* Of a list, what the loop of add_time ends has no time left.
LEMMA ExpiredEnded ==
  ASSUME NEW list \in Seq(Grant), NEW k \in 1..Expired(list)
  PROVE  list[k].time = 0
<1> DEFINE S == { i \in 1..Len(list) : \A j \in 1..i : list[j].time = 0 }
<1>1. Expired(list) = Cardinality(S) /\ Expired(list) \in 0..Len(list) /\ Len(list) \in Nat
  BY ExpiredBound DEF Expired
<1>2. k \in Nat /\ k \in 1..Len(list)
  BY <1>1
<1>3. ASSUME k \notin S  PROVE FALSE
  <2>1. \A i \in S : i < k
    <3> SUFFICES ASSUME NEW i \in S, i >= k  PROVE FALSE
      BY <1>2
    <3>1. \A j \in 1..i : list[j].time = 0
      OBVIOUS
    <3>2. \A j \in 1..k : list[j].time = 0
      BY <3>1
    <3> QED
      BY <1>2, <1>3, <3>2
  <2>2. S \in SUBSET (1..(k - 1))
    BY <1>2, <2>1
  <2>3. k - 1 \in Nat
    BY <1>2
  <2>4. IsFiniteSet(1..(k - 1)) /\ Cardinality(1..(k - 1)) = k - 1
    BY <2>3, UpToLength
  <2> HIDE DEF S
  <2>5. IsFiniteSet(S) /\ Cardinality(S) <= k - 1
    BY <2>2, <2>4, FS_Subset
  <2>6. Expired(list) <= k - 1 /\ k <= Expired(list) /\ Expired(list) \in Nat
    BY <1>1, <2>5
  <2> QED
    BY <1>2, <2>6
<1> QED
  BY <1>2, <1>3

\* Each lease that is due goes to the pool and each other one stays, with less time left.
LEMMA AgedParts ==
  ASSUME NEW s, Typed(s), NEW t \in Nat, NEW o \in AddTime(s, t),
         \A i \in 1..Len(s.given) : s.given[i].time >= t
  PROVE  /\ o.state.offered = s.offered /\ \A ip \in AnyIp : s.pool[ip] > 0 => o.state.pool[ip] > 0
         /\ \A i \in 1..Len(s.given) :
              IF s.given[i].time = t THEN o.state.pool[s.given[i].ip] > 0
              ELSE \E k \in 1..Len(o.state.given) :
                     /\ o.state.given[k].ip = s.given[i].ip /\ o.state.given[k].mac = s.given[i].mac
                     /\ o.state.given[k].time = s.given[i].time - t
<1> DEFINE P == s.pool
           O == s.offered
           G == s.given
           A == Aged(G, t)
           n == Len(G)
<1>1. s = St(P, O, G, s.buffer)
      /\ P \in [Entry -> Nat] /\ O \in Seq(Offer) /\ G \in Seq(Grant) /\ n \in Nat
  BY DEF Typed
<1>2. A \in Seq(Grant) /\ Len(A) = n
  BY <1>1, AgedTypes
<1>3. ASSUME NEW i \in 1..n
      PROVE  A[i].ip = G[i].ip /\ A[i].mac = G[i].mac /\ A[i].time = G[i].time - t
             /\ G[i].time - t \in Nat /\ G[i].ip \in AnyIp /\ (G[i].time - t = 0 <=> G[i].time = t)
  <2>1. G[i] \in [ip : AnyIp, mac : Mac, time : Time]
    <3>1. G[i] \in Grant
      BY <1>1
    <3> QED
      BY <3>1 DEF Grant
  <2>2. A[i] = [G[i] EXCEPT !.time = (G[i].time - t) % TimeSpace]
    BY DEF Aged
  <2>3. G[i].time - t \in 0..(TimeSpace - 1) /\ TimeSpace \in Nat \ {0}
        /\ (G[i].time - t = 0 <=> G[i].time = t)
    <3>1. G[i].time \in Time /\ G[i].time >= t
      BY <2>1
    <3> QED
      BY <3>1, SpaceAssumption DEF Time
  <2>4. \A x \in 0..(TimeSpace - 1) : x % TimeSpace = x
    BY <2>3, Z3T(30)
  <2>5. (G[i].time - t) % TimeSpace = G[i].time - t
    BY <2>3, <2>4
  <2> HIDE DEF A, G
  <2> QED
    BY <2>1, <2>2, <2>3, <2>5
<1>4. PICK list \in ByTime(A) : o = End(s, list, Expired(list))
  BY DEF AddTime
<1> HIDE DEF A
<1>5. PICK p \in Bijection(1..Len(A), 1..Len(A)) :
        /\ list = [k \in 1..Len(A) |-> A[p[k]]]
        /\ \A i, j \in 1..Len(A) : i < j => A[p[i]].time <= A[p[j]].time
  BY <1>4 DEF ByTime
<1>6. p \in [1..n -> 1..n] /\ \A j \in 1..n : \E k \in 1..n : p[k] = j
  BY <1>2, <1>5 DEF Bijection, Injection, Surjection
<1>7. list \in Seq(Grant) /\ Len(list) = n /\ \A k \in 1..n : list[k] = A[p[k]]
  BY <1>2, <1>5, CountPermuted
<1>8. \A i, j \in 1..Len(list) : i < j => list[i].time <= list[j].time
  BY <1>2, <1>5, <1>7
<1> DEFINE m == Expired(list)
           a == SubSeq(list, 1, m)
           b == SubSeq(list, m + 1, Len(list))
           B == s.buffer
<1>9. m \in 0..Len(list)
  BY <1>7, ExpiredBound
<1> HIDE DEF m, n
<1>10. /\ a \in Seq(Grant) /\ Len(a) = m /\ (\A k \in 1..m : a[k] = list[k])
       /\ Len(b) = n - m /\ \A k \in 1..(n - m) : b[k] = list[m + k]
  BY <1>7, <1>9, SubSeqElements
<1>11. o.state = St(Back(P, a), O, b, B)
  <2> HIDE DEF P, O, G, B
  <2>1. s = St(P, O, G, B)
    BY <1>1 DEF B
  <2>2. End(St(P, O, G, B), list, m).state = St(Back(P, a), O, b, B)
    BY <1>1, EndState
  <2> QED
    BY <1>4, <2>1, <2>2 DEF m
<1> HIDE DEF a, b
<1>12. o.state.pool = Back(P, a) /\ o.state.offered = O /\ o.state.given = b
  <2> HIDE DEF P, O, B
  <2> QED
    BY <1>11, StParts
<1>13. \A ip \in AnyIp : Back(P, a)[ip] = P[ip] + Count(a, ip) /\ P[ip] \in Nat /\ Count(a, ip) \in Nat
  <2>1. \A ip \in AnyIp : ip \in Entry
    BY KeptNoAddress
  <2> QED
    BY <1>1, <1>10, <2>1, PlacesFinite DEF Back
<1>14. \A ip \in AnyIp : P[ip] > 0 => Back(P, a)[ip] > 0
  BY <1>13
<1>15. ASSUME NEW i \in 1..n
       PROVE  IF G[i].time = t THEN Back(P, a)[G[i].ip] > 0
              ELSE \E k \in 1..Len(b) : b[k].ip = G[i].ip /\ b[k].mac = G[i].mac /\ b[k].time = G[i].time - t
  <2>1. PICK k \in 1..n : p[k] = i
    BY <1>6
  <2>2. list[k] = A[i] /\ k \in 1..Len(list)
    BY <1>7, <2>1
  <2>3. list[k].time = 0 <=> G[i].time = t
    BY <1>3, <2>2
  <2>4. m \in Nat /\ k \in Nat /\ n \in Nat /\ m <= n /\ k >= 1 /\ k <= n
    BY <1>1, <1>7, <1>9 DEF n
  <2>5. CASE k <= m
    <3>1. k \in 1..m
      BY <2>4, <2>5
    <3>2. G[i].time = t
      BY <1>7, <2>3, <3>1, ExpiredEnded DEF m
    <3>3. a[k].ip = G[i].ip /\ k \in 1..Len(a)
      BY <1>3, <1>10, <2>2, <3>1
    <3>4. Count(a, G[i].ip) # 0
      BY <1>10, <3>3, CountZero
    <3>5. Back(P, a)[G[i].ip] > 0
      BY <1>3, <1>13, <3>4
    <3> QED
      BY <3>2, <3>5
  <2>6. CASE k > m
    <3>1. list[k].time > 0
      BY <1>7, <1>8, <2>2, <2>6, ExpiredFront DEF m
    <3>2. G[i].time # t
      BY <2>3, <3>1
    <3>3. k - m \in 1..(n - m) /\ m + (k - m) = k
      BY <2>4, <2>6
    <3>4. b[k - m] = A[i] /\ k - m \in 1..Len(b)
      BY <1>10, <2>2, <3>3
    <3> QED
      BY <1>3, <3>2, <3>4
  <2> QED
    BY <2>4, <2>5, <2>6
<1> QED
  BY <1>12, <1>14, <1>15 DEF n
-----------------------------------------------------------------------------
(* The specification implements Allocation.                                 *)

Book(s, now) == [ip \in Ip |-> Whereabouts(s, now, ip)]

\* While no flaw has shown, nothing is held by a pointer and an address that was added
\* is in one place.
LEMMA Unbroken ==
  ASSUME IInv, flaws = {}
  PROVE  /\ server.pool[Kept] = 0
         /\ \A ip \in AnyIp : /\ CopiesIn(server, ip) = IF ip \in added THEN 1 ELSE 0
                              /\ \A now : /\ Whereabouts(server, now, ip) = {} <=> ip \notin added
                                          /\ \A x \in Whereabouts(server, now, ip) :
                                               ip \in Ip /\ Whereabouts(server, now, ip) = {x}
<1>1. server.pool[Kept] \in Nat /\ ~(server.pool[Kept] > 0)
  BY KeptNoAddress DEF IInv, Typed
<1>2. ASSUME NEW ip \in AnyIp, NEW now
      PROVE  /\ CopiesIn(server, ip) = IF ip \in added THEN 1 ELSE 0
             /\ Whereabouts(server, now, ip) = {} <=> ip \notin added
             /\ \A x \in Whereabouts(server, now, ip) :
                  ip \in Ip /\ Whereabouts(server, now, ip) = {x}
  <2>1. CopiesIn(server, ip) = IF ip \in added THEN 1 ELSE 0
    BY CopiesOf DEF IInv, ExactlyOnce
  <2>2. Whereabouts(server, now, ip) = {} <=> CopiesIn(server, ip) = 0
    BY <2>1, OnePlace DEF IInv
  <2>3. \A x \in Whereabouts(server, now, ip) : Whereabouts(server, now, ip) = {x}
    BY <2>1, OnePlace DEF IInv
  <2>4. ip \in added => ip \in Ip
    BY DEF IInv
  <2>5. Whereabouts(server, now, ip) = {} <=> ip \notin added
    BY <2>1, <2>2
  <2> QED
    BY <2>1, <2>3, <2>4, <2>5
<1> QED
  BY <1>1, <1>2

LEMMA UnbrokenNext ==
  ASSUME IInv', flaws' = {}
  PROVE  /\ server'.pool[Kept] = 0
         /\ \A ip \in AnyIp : /\ CopiesIn(server', ip) = IF ip \in added' THEN 1 ELSE 0
                              /\ \A now : /\ Whereabouts(server', now, ip) = {} <=> ip \notin added'
                                          /\ \A x \in Whereabouts(server', now, ip) :
                                               ip \in Ip /\ Whereabouts(server', now, ip) = {x}
<1>1. server'.pool[Kept] \in Nat /\ ~(server'.pool[Kept] > 0)
  BY KeptNoAddress DEF IInv, Typed
<1>2. ASSUME NEW ip \in AnyIp, NEW now
      PROVE  /\ CopiesIn(server', ip) = IF ip \in added' THEN 1 ELSE 0
             /\ Whereabouts(server', now, ip) = {} <=> ip \notin added'
             /\ \A x \in Whereabouts(server', now, ip) :
                  ip \in Ip /\ Whereabouts(server', now, ip) = {x}
  <2>0. Copies(ip)' = CopiesIn(server', ip)
    BY DEF Copies, CopiesIn, Count
  <2>1. CopiesIn(server', ip) = IF ip \in added' THEN 1 ELSE 0
    BY <2>0 DEF IInv, ExactlyOnce
  <2>2. Whereabouts(server', now, ip) = {} <=> CopiesIn(server', ip) = 0
    BY <2>1, OnePlace DEF IInv
  <2>3. \A x \in Whereabouts(server', now, ip) : Whereabouts(server', now, ip) = {x}
    BY <2>1, OnePlace DEF IInv
  <2>4. ip \in added' => ip \in Ip
    BY DEF IInv
  <2>5. Whereabouts(server', now, ip) = {} <=> ip \notin added'
    BY <2>1, <2>2
  <2> QED
    BY <2>1, <2>3, <2>4, <2>5
<1> QED
  BY <1>1, <1>2

\* One address moves and the others stay.
LEMMA BookMoves ==
  ASSUME IInv, IInv', flaws = {}, flaws' = {}, added' = added, NEW now,
         NEW a \in AnyIp, Others(server, server', now, a),
         NEW x \in Whereabouts(server, now, a), NEW y \in Whereabouts(server', now, a)
  PROVE  /\ a \in Ip /\ Book(server, now)[a] = {x} /\ Book(server', now)[a] = {y}
         /\ Book(server', now) = [Book(server, now) EXCEPT ![a] = {y}]
<1>1. a \in Ip /\ Whereabouts(server, now, a) = {x} /\ Whereabouts(server', now, a) = {y}
  BY Unbroken, UnbrokenNext
<1>2. ASSUME NEW b \in Ip \ {a}  PROVE Whereabouts(server', now, b) = Whereabouts(server, now, b)
  <2>1. b \in AnyIp /\ b \in AnyIp \ {a}
    BY DEF AnyIp
  <2>2. Whereabouts(server, now, b) \subseteq Whereabouts(server', now, b)
    BY <2>1 DEF Others
  <2>3. CASE b \in added
    <3>1. PICK z : z \in Whereabouts(server, now, b)
      BY <2>1, <2>3, Unbroken
    <3>2. Whereabouts(server, now, b) = {z}
      BY <2>1, <3>1, Unbroken
    <3>3. Whereabouts(server', now, b) = {z}
      BY <2>1, <2>2, <3>1, UnbrokenNext
    <3> QED
      BY <3>2, <3>3
  <2>4. CASE b \notin added
    BY <2>1, <2>4, Unbroken, UnbrokenNext
  <2> QED
    BY <2>3, <2>4
<1> QED
  BY <1>1, <1>2 DEF Book

LEMMA BookSame ==
  ASSUME Shown(server') = Shown(server), NEW now
  PROVE  Book(server', now) = Book(server, now)
BY DEF Shown, Book, Whereabouts

\* The places of an address are told apart.
LEMMA Apart ==
  ASSUME NEW c, NEW d, NEW end, NEW until
  PROVE  /\ Promise!Free # Promise!Offered(c) /\ Promise!Free # Promise!Leased(c, end)
         /\ Promise!Offered(c) # Promise!Leased(d, end)
         /\ Promise!Leased(c, end) = Promise!Leased(d, until) => c = d /\ end = until
         /\ Promise!Leased(c, end).at = "lease" /\ Promise!Leased(c, end).end = end
         /\ Promise!Free.at # "lease" /\ Promise!Offered(c).at # "lease"
<1>1. /\ Promise!Free.at = "pool" /\ Promise!Offered(c).at = "offer"
      /\ Promise!Leased(c, end).at = "lease" /\ Promise!Leased(d, end).at = "lease"
      /\ Promise!Leased(c, end).to = c /\ Promise!Leased(c, end).end = end
      /\ Promise!Leased(d, until).to = d /\ Promise!Leased(d, until).end = until
  BY DEF Promise!Free, Promise!Offered, Promise!Leased
<1> QED
  BY <1>1

LEMMA PromiseInit == Init => Promise!Init
<1> SUFFICES ASSUME Init PROVE Promise!Init
  OBVIOUS
<1>1. IInv /\ flaws = {} /\ added = {} /\ clock = 0
  BY InitIInv DEF Init
<1>2. \A ip \in Ip : Whereabouts(server, clock, ip) = {}
  BY <1>1, Unbroken DEF AnyIp
<1> QED
  BY <1>1, <1>2 DEF Promise!Init

\* What a step of the server has to be, in terms of its book.
Moved(a, old, new) ==
  \/ /\ old = Promise!Free /\ \E c \in Mac : new = Promise!Offered(c)
     /\ \A b \in Ip : Book(server, clock)[b] = {Promise!Free} => a <= b
  \/ /\ \E c \in Mac : old = Promise!Offered(c)
     /\ \E c \in Mac, t \in Time \ {0} : new = Promise!Leased(c, clock + t)
  \/ (\E c \in Mac : old = Promise!Offered(c)) /\ new = Promise!Free
  \/ \E d, c \in Mac, end \in Nat, t \in Time \ {0} :
       old = Promise!Leased(d, end) /\ new = Promise!Leased(c, end + t)

LEMMA MovedIsMove ==
  ASSUME NEW a \in Ip, NEW old, NEW new, Moved(a, old, new), clock' = clock,
         Book(server, clock)[a] = {old}, Book(server', clock')[a] = {new},
         Book(server', clock') = [Book(server, clock) EXCEPT ![a] = {new}]
  PROVE  Promise!Move(a)
<1>1. old # new
  <2>1. ASSUME NEW d, NEW c, NEW end \in Nat, NEW t \in Time \ {0},
               old = Promise!Leased(d, end), new = Promise!Leased(c, end + t)
        PROVE  old # new
    <3>1. t \in Nat \ {0}
      BY TimeNat
    <3> QED
      BY <2>1, <3>1, Apart
  <2> QED
    BY <2>1, Apart DEF Moved
<1>2. [ip \in Ip |-> Whereabouts(server, clock, ip)] = Book(server, clock)
      /\ [ip \in Ip |-> Whereabouts(server', clock', ip)] = Book(server', clock')
  BY DEF Book
<1> DEFINE place == Book(server, clock)
           next == Book(server', clock')
<1>3. /\ place[a] = {old} /\ next[a] = {new} /\ next[a] # place[a]
      /\ next = [place EXCEPT ![a] = next[a]]
  BY <1>1
<1>4. Promise!Offer(a) \/ Promise!Grant(a) \/ Promise!TakeBack(a) \/ Promise!Extend(a)
  <2>1. CASE /\ old = Promise!Free /\ \E c \in Mac : new = Promise!Offered(c)
             /\ \A b \in Ip : place[b] = {Promise!Free} => a <= b
    <3> HIDE DEF place, next
    <3>1. Promise!Offer(a)
      BY <1>2, <1>3, <2>1 DEF Promise!Offer, place, next
    <3> QED
      BY <3>1
  <2>2. CASE /\ \E c \in Mac : old = Promise!Offered(c)
             /\ \E c \in Mac, t \in Time \ {0} : new = Promise!Leased(c, clock + t)
    <3>1. Promise!Grant(a)
      BY <1>2, <1>3, <2>2 DEF Promise!Grant, place, next
    <3> QED
      BY <3>1
  <2>3. CASE (\E c \in Mac : old = Promise!Offered(c)) /\ new = Promise!Free
    <3>1. Promise!TakeBack(a)
      BY <1>2, <1>3, <2>3 DEF Promise!TakeBack, place, next
    <3> QED
      BY <3>1
  <2>4. CASE \E d, c \in Mac, end \in Nat, t \in Time \ {0} :
               old = Promise!Leased(d, end) /\ new = Promise!Leased(c, end + t)
    <3>1. PICK d \in Mac, c \in Mac, end \in Nat, t \in Time \ {0} :
            old = Promise!Leased(d, end) /\ new = Promise!Leased(c, end + t)
      BY <2>4
    <3>2. old.at = "lease" /\ old.end = end
      BY <3>1, Apart
    <3>3. Promise!Extend(a)
      BY <1>2, <1>3, <3>1, <3>2 DEF Promise!Extend, place, next
    <3> QED
      BY <3>3
  <2> QED
    BY <2>1, <2>2, <2>3, <2>4 DEF Moved
<1> QED
  BY <1>2, <1>3, <1>4 DEF Promise!Move, place, next

LEMMA ReceivePromise ==
  ASSUME IInv, IInv', RInv, flaws = {}, flaws' = {}, NEW f \in ClientFrame, Receive(f)
  PROVE  clock' = clock /\ (Book(server', clock') = Book(server, clock) \/ \E a \in Ip : Promise!Move(a))
<1> DEFINE Same == Book(server', clock') = Book(server, clock)
           Goal == Same \/ \E a \in Ip : Promise!Move(a)
<1>1. PICK o \in Handle(server, f) :
        /\ server' = o.state
        /\ NewFlaws(o.state, FALSE, f.type = "DHCP_REQUEST_EXTEND" /\ \E i \in Lease(server, f.ip) :
             server.given[i].time + Asked(f.time) >= TimeSpace)
  BY DEF Receive
<1>2. clock' = clock /\ added' = added /\ clock \in Nat
  BY DEF Receive, IInv
<1> SUFFICES Goal
  BY <1>2
<1>3. f.type = "DHCP_REQUEST_EXTEND" =>
        \A i \in Lease(server, f.ip) : ~(server.given[i].time + Asked(f.time) >= TimeSpace)
  BY <1>1 DEF NewFlaws
<1>4. Typed(server) /\ f.ip \in AnyIp /\ f.mac \in Mac /\ f.time \in Time
  BY FrameTypes DEF IInv
<1>5. Unkept(server, server')
  BY Unbroken, UnbrokenNext DEF Unkept
<1>6. \/ Shown(server') = Shown(server)
      \/ OfferMoves(server, server', clock, f.mac)
      \/ GrantMoves(server, server', clock, f.mac, f.time)
      \/ BackMoves(server, server', clock)
      \/ f.type = "DHCP_REQUEST_EXTEND" /\ ExtendMoves(server, server', clock, f.ip, f.mac, f.time)
  BY <1>1, <1>4, <1>5, HandleMoves
<1> DEFINE Moves(a, old, new) ==
             /\ a \in AnyIp /\ old \in Whereabouts(server, clock, a)
             /\ new \in Whereabouts(server', clock, a)
             /\ Others(server, server', clock, a) /\ Moved(a, old, new)
<1>7. ASSUME NEW a, NEW old, NEW new, Moves(a, old, new)
      PROVE  Goal
  <2>1. /\ a \in Ip /\ Book(server, clock)[a] = {old} /\ Book(server', clock)[a] = {new}
        /\ Book(server', clock) = [Book(server, clock) EXCEPT ![a] = {new}]
    BY <1>2, <1>7, BookMoves
  <2>2. Promise!Move(a)
    BY <1>2, <1>7, <2>1, MovedIsMove
  <2> QED
    BY <2>1, <2>2
<1> HIDE DEF Goal, Moves
<1>8. CASE Shown(server') = Shown(server)
  BY <1>2, <1>8, BookSame DEF Goal
<1>9. CASE OfferMoves(server, server', clock, f.mac)
  <2>1. PICK a \in AnyIp :
          /\ Others(server, server', clock, a) /\ server.pool[a] > 0
          /\ \A b \in AnyIp : server.pool[b] > 0 => a <= b
          /\ Promise!Offered(f.mac) \in Whereabouts(server', clock, a)
    BY <1>9 DEF OfferMoves
  <2>2. Promise!Free \in Whereabouts(server, clock, a)
    BY <2>1, WhereIs
  <2>3. ASSUME NEW b \in Ip, Book(server, clock)[b] = {Promise!Free}  PROVE a <= b
    <3>1. b \in AnyIp /\ Promise!Free \in Whereabouts(server, clock, b)
      BY <2>3 DEF AnyIp, Book
    <3>2. server.pool[b] > 0
      BY <3>1, WhereIs, Apart
    <3> QED
      BY <2>1, <3>1, <3>2
  <2>4. Moved(a, Promise!Free, Promise!Offered(f.mac))
    BY <1>4, <2>3 DEF Moved
  <2>5. Moves(a, Promise!Free, Promise!Offered(f.mac))
    BY <2>1, <2>2, <2>4 DEF Moves
  <2> QED
    BY <1>7, <2>5
<1>10. CASE GrantMoves(server, server', clock, f.mac, f.time)
  <2>1. PICK a \in AnyIp, d \in Mac :
          /\ Others(server, server', clock, a) /\ Promise!Offered(d) \in Whereabouts(server, clock, a)
          /\ Promise!Leased(f.mac, clock + Asked(f.time)) \in Whereabouts(server', clock, a)
    BY <1>10 DEF GrantMoves
  <2>2. Asked(f.time) \in Time \ {0}
    <3>1. Asked(f.time) \in Time
      BY <1>4, TimeTypes
    <3>2. Asked(f.time) > 0 /\ Asked(f.time) \in Nat
      BY <1>4, TimeNat
    <3> QED
      BY <3>1, <3>2
  <2>3. Moved(a, Promise!Offered(d), Promise!Leased(f.mac, clock + Asked(f.time)))
    BY <1>4, <2>2 DEF Moved
  <2>4. Moves(a, Promise!Offered(d), Promise!Leased(f.mac, clock + Asked(f.time)))
    BY <2>1, <2>3 DEF Moves
  <2> QED
    BY <1>7, <2>4
<1>11. CASE BackMoves(server, server', clock)
  <2>1. PICK a \in AnyIp, d \in Mac :
          /\ Others(server, server', clock, a) /\ Promise!Offered(d) \in Whereabouts(server, clock, a)
          /\ Promise!Free \in Whereabouts(server', clock, a)
    BY <1>11 DEF BackMoves
  <2>2. Moved(a, Promise!Offered(d), Promise!Free)
    BY DEF Moved
  <2>3. Moves(a, Promise!Offered(d), Promise!Free)
    BY <2>1, <2>2 DEF Moves
  <2> QED
    BY <1>7, <2>3
<1>12. CASE f.type = "DHCP_REQUEST_EXTEND" /\ ExtendMoves(server, server', clock, f.ip, f.mac, f.time)
  <2>1. PICK i \in Lease(server, f.ip) :
          /\ i \in 1..Len(server.given) /\ server.given[i].ip = f.ip
          /\ Others(server, server', clock, f.ip)
          /\ Promise!Leased(f.mac, clock + Longer(server.given[i].time, f.time))
               \in Whereabouts(server', clock, f.ip)
    BY <1>12 DEF ExtendMoves
  <2> DEFINE g == server.given[i]
             end == clock + g.time
             spent == Asked(f.time)
  <2>2. g \in Grant
    BY <1>4, <2>1 DEF Typed
  <2>3. g.time \in Nat /\ g.mac \in Mac /\ end \in Nat
    <3>1. g.time \in Time /\ g.mac \in Mac
      BY <2>2 DEF Grant
    <3>2. g.time \in Nat
      BY <3>1, TimeNat
    <3> QED
      BY <1>2, <3>1, <3>2
  <2>4. spent \in Time \ {0} /\ spent \in Nat /\ ~(g.time + spent >= TimeSpace)
    <3>1. spent \in Time
      BY <1>4, TimeTypes
    <3>2. spent > 0 /\ spent \in Nat
      BY <1>4, TimeNat
    <3>3. ~(g.time + spent >= TimeSpace)
      BY <1>3, <1>12, <2>1
    <3> HIDE DEF g, spent
    <3> QED
      BY <3>1, <3>2, <3>3
  <2>5. Longer(g.time, f.time) = g.time + spent
    <3>1. g.time + spent \in 0..(TimeSpace - 1) /\ TimeSpace \in Nat \ {0}
      BY <2>3, <2>4, SpaceAssumption
    <3>2. \A y \in 0..(TimeSpace - 1) : y % TimeSpace = y
      BY <3>1, Z3T(30)
    <3> QED
      BY <3>1, <3>2 DEF Longer
  <2>6. Promise!Leased(g.mac, end) \in Whereabouts(server, clock, f.ip)
    BY <2>1, WhereIs
  <2>7. clock + Longer(g.time, f.time) = end + spent
    BY <1>2, <2>3, <2>4, <2>5
  <2> HIDE DEF g, end, spent
  <2>8. Moved(f.ip, Promise!Leased(g.mac, end), Promise!Leased(f.mac, end + spent))
    BY <1>4, <2>3, <2>4 DEF Moved
  <2>9. Promise!Leased(f.mac, end + spent) \in Whereabouts(server', clock, f.ip)
    BY <2>1, <2>7 DEF g
  <2>10. Moves(f.ip, Promise!Leased(g.mac, end), Promise!Leased(f.mac, end + spent))
    <3>1. Promise!Leased(g.mac, end) \in Whereabouts(server, clock, f.ip)
      BY <2>6
    <3> QED
      BY <1>4, <2>1, <2>8, <2>9, <3>1 DEF Moves
  <2> QED
    BY <1>7, <2>10
<1> QED
  BY <1>6, <1>8, <1>9, <1>10, <1>11, <1>12

LEMMA AddPromise ==
  ASSUME IInv, IInv', flaws = {}, flaws' = {}, NEW p \in Pools, TypeAddPool(p[1], p[2])
  PROVE  Promise!Add
<1>1. PoolRange(p[1], p[2]) \subseteq Ip
  BY ArgumentsAssumption, PoolRangeIps
<1>2. server' = AddPool(server, PoolRange(p[1], p[2])) /\ clock' = clock /\ added \subseteq added'
  BY DEF TypeAddPool
<1>3. Typed(server) /\ server.pool[Kept] = 0
  BY Unbroken DEF IInv
<1>4. /\ server'.offered = server.offered /\ server'.given = server.given
      /\ server'.pool = Added(server.pool, PoolRange(p[1], p[2]))
  BY <1>1, <1>2, <1>3, AddPoolState
<1>5. ASSUME NEW ip \in AnyIp, server.pool[ip] > 0  PROVE server'.pool[ip] > 0
  <2>1. ip \in Entry
    BY DEF Entry
  <2>2. server.pool[ip] \in Nat
    BY <1>3, <2>1 DEF Typed
  <2>3. server'.pool[ip] = server.pool[ip] \/ server'.pool[ip] = server.pool[ip] + 1
    BY <1>4, <2>1 DEF Added
  <2> QED
    BY <1>5, <2>2, <2>3
<1> DEFINE was(ip) == Whereabouts(server, clock, ip)
           is(ip) == Whereabouts(server', clock', ip)
<1>6. ASSUME NEW ip \in Ip
      PROVE  is(ip) = IF was(ip) = {} /\ is(ip) = {Promise!Free} THEN {Promise!Free} ELSE was(ip)
  <2>0. ip \in AnyIp
    BY DEF AnyIp
  <2>1. was(ip) \subseteq is(ip)
    <3> SUFFICES ASSUME NEW x \in was(ip)  PROVE x \in is(ip)
      OBVIOUS
    <3> QED
      BY <1>2, <1>4, <1>5, <2>0, WhereIs
  <2>2. CASE was(ip) # {}
    <3>1. PICK x : x \in was(ip)
      BY <2>2
    <3>2. was(ip) = {x}
      BY <2>0, <3>1, Unbroken
    <3>3. is(ip) = {x}
      BY <2>0, <2>1, <3>1, UnbrokenNext
    <3> QED
      BY <3>2, <3>3
  <2>3. CASE was(ip) = {} /\ is(ip) # {}
    <3>1. PICK x : x \in is(ip)
      BY <2>3
    <3>2. is(ip) = {x}
      BY <2>0, <3>1, UnbrokenNext
    <3>3. x = Promise!Free
      <4>1. x \in was(ip) \/ x = Promise!Free
        BY <1>2, <1>4, <3>1, WhereIs
      <4> QED
        BY <2>3, <4>1
    <3> QED
      BY <3>2, <3>3, <2>3
  <2> HIDE DEF was, is
  <2> QED
    BY <2>2, <2>3
<1> QED
  BY <1>2, <1>6 DEF Promise!Add, Book

\* While time passes, what is somewhere stays there, save the leases that are due.
LEMMA PlaceAges ==
  ASSUME IInv, NEW t \in Steps, TypeAddTime(t), flaws' = {},
         NEW ip \in Ip, NEW x \in Whereabouts(server, clock, ip)
  PROVE  /\ \/ x \in Whereabouts(server', clock', ip) /\ ~ \E c \in Mac : x = Promise!Leased(c, clock')
            \/ /\ Promise!Free \in Whereabouts(server', clock', ip)
               /\ \E c \in Mac : x = Promise!Leased(c, clock')
               /\ \E i \in 1..Len(server.given) : server.given[i].time = t
         /\ x.at = "lease" => x.end >= clock'
<1> DEFINE G == server.given
<1>1. PICK o \in AddTime(server, t) : server' = o.state
  BY DEF TypeAddTime
<1>2. /\ clock' = clock + t /\ ~ \E i \in 1..Len(G) : G[i].time < t
      /\ clock \in Nat /\ t \in Nat /\ clock' \in Nat
  <2>1. clock' = clock + t /\ ~ \E i \in 1..Len(G) : G[i].time < t
    BY DEF TypeAddTime, NewFlaws
  <2> QED
    BY <2>1, ArgumentsAssumption DEF IInv
<1>3. /\ G \in Seq(Grant) /\ Typed(server)
      /\ \A i \in 1..Len(G) : G[i].time \in Nat /\ G[i].time >= t /\ G[i].mac \in Mac
  <2>1. G \in Seq(Grant) /\ Typed(server)
    BY DEF IInv, Typed
  <2>2. ASSUME NEW i \in 1..Len(G)
        PROVE  G[i].time \in Nat /\ G[i].time >= t /\ G[i].mac \in Mac
    <3>1. G[i] \in Grant
      BY <2>1
    <3>2. G[i].time \in Nat /\ G[i].mac \in Mac
      BY <3>1, TimeNat DEF Grant
    <3>3. ~(G[i].time < t)
      BY <1>2
    <3> QED
      BY <1>2, <3>2, <3>3
  <2> QED
    BY <2>1, <2>2
<1>4. /\ server'.offered = server.offered /\ \A a \in AnyIp : server.pool[a] > 0 => server'.pool[a] > 0
      /\ \A i \in 1..Len(G) :
           IF G[i].time = t THEN server'.pool[G[i].ip] > 0
           ELSE \E k \in 1..Len(server'.given) :
                  /\ server'.given[k].ip = G[i].ip /\ server'.given[k].mac = G[i].mac
                  /\ server'.given[k].time = G[i].time - t
  BY <1>1, <1>2, <1>3, AgedParts
<1> HIDE DEF G
<1>5. CASE server.pool[ip] > 0 /\ x = Promise!Free
  <2>1. server'.pool[ip] > 0
    BY <1>4, <1>5 DEF AnyIp
  <2>2. x \in Whereabouts(server', clock', ip)
    BY <1>5, <2>1, WhereIs
  <2> QED
    BY <1>5, <2>2, Apart
<1>6. CASE \E i \in 1..Len(server.offered) :
             server.offered[i].ip = ip /\ x = Promise!Offered(server.offered[i].mac)
  <2>1. x \in Whereabouts(server', clock', ip)
    BY <1>4, <1>6, WhereIs
  <2> QED
    BY <1>6, <2>1, Apart
<1>7. ASSUME NEW i \in 1..Len(G), G[i].ip = ip, x = Promise!Leased(G[i].mac, clock + G[i].time)
      PROVE  /\ \/ x \in Whereabouts(server', clock', ip) /\ ~ \E c \in Mac : x = Promise!Leased(c, clock')
                \/ /\ Promise!Free \in Whereabouts(server', clock', ip)
                   /\ \E c \in Mac : x = Promise!Leased(c, clock')
                   /\ \E j \in 1..Len(G) : G[j].time = t
             /\ x.at = "lease" => x.end >= clock'
  <2>1. x.end = clock + G[i].time
    BY <1>7, Apart
  <2>2. x.end >= clock'
    BY <1>2, <1>3, <2>1
  <2>3. CASE G[i].time = t
    <3>1. Promise!Free \in Whereabouts(server', clock', ip)
      BY <1>4, <1>7, <2>3, WhereIs
    <3>2. x = Promise!Leased(G[i].mac, clock') /\ G[i].mac \in Mac
      BY <1>2, <1>3, <1>7, <2>3
    <3> QED
      BY <2>2, <2>3, <3>1, <3>2
  <2>4. CASE G[i].time # t
    <3>1. PICK k \in 1..Len(server'.given) :
            /\ server'.given[k].ip = G[i].ip /\ server'.given[k].mac = G[i].mac
            /\ server'.given[k].time = G[i].time - t
      BY <1>4, <2>4
    <3>2. clock' + (G[i].time - t) = clock + G[i].time
      BY <1>2, <1>3
    <3>3. Promise!Leased(server'.given[k].mac, clock' + server'.given[k].time) = x
      BY <1>7, <3>1, <3>2
    <3>4. x \in Whereabouts(server', clock', ip)
      BY <1>7, <3>1, <3>3, WhereIs
    <3>5. clock + G[i].time # clock'
      BY <1>2, <1>3, <2>4
    <3>6. ASSUME NEW c \in Mac, x = Promise!Leased(c, clock')  PROVE FALSE
      BY <2>1, <3>5, <3>6, Apart
    <3> QED
      BY <2>2, <3>4, <3>6
  <2> QED
    BY <2>3, <2>4
<1>8. \/ server.pool[ip] > 0 /\ x = Promise!Free
      \/ \E i \in 1..Len(server.offered) :
           server.offered[i].ip = ip /\ x = Promise!Offered(server.offered[i].mac)
      \/ \E i \in 1..Len(G) : G[i].ip = ip /\ x = Promise!Leased(G[i].mac, clock + G[i].time)
  BY WhereIs DEF G
<1> QED
  <2>1. CASE \E i \in 1..Len(G) : G[i].ip = ip /\ x = Promise!Leased(G[i].mac, clock + G[i].time)
    BY <1>7, <2>1 DEF G
  <2> QED
    BY <1>5, <1>6, <1>8, <2>1

LEMMA TimePromise ==
  ASSUME IInv, IInv', RInv, flaws = {}, flaws' = {}, NEW t \in Steps, TypeAddTime(t)
  PROVE  \/ clock' = clock /\ Book(server', clock') = Book(server, clock)
         \/ Promise!Pass
<1> DEFINE was(ip) == Whereabouts(server, clock, ip)
           is(ip) == Whereabouts(server', clock', ip)
           Ends(ip) == \E c \in Mac : was(ip) = {Promise!Leased(c, clock')}
<1>1. clock' = clock + t /\ added' = added /\ clock \in Nat /\ t \in Nat /\ clock' \in Nat
  <2>1. clock' = clock + t /\ added' = added
    BY DEF TypeAddTime
  <2> QED
    BY <2>1, ArgumentsAssumption DEF IInv
<1>2. ASSUME NEW ip \in Ip
      PROVE  /\ is(ip) = IF Ends(ip) THEN {Promise!Free} ELSE was(ip)
             /\ Ends(ip) => \E i \in 1..Len(server.given) : server.given[i].time = t
             /\ \A x \in was(ip) : x.at = "lease" => x.end >= clock'
  <2>0. ip \in AnyIp
    BY DEF AnyIp
  <2>1. CASE was(ip) = {}
    <3>1. is(ip) = {}
      BY <1>1, <2>0, <2>1, Unbroken, UnbrokenNext
    <3> QED
      BY <2>1, <3>1
  <2>2. ASSUME NEW x \in was(ip)
        PROVE  /\ is(ip) = IF Ends(ip) THEN {Promise!Free} ELSE was(ip)
               /\ Ends(ip) => \E i \in 1..Len(server.given) : server.given[i].time = t
               /\ \A y \in was(ip) : y.at = "lease" => y.end >= clock'
    <3>1. was(ip) = {x} /\ \A y \in is(ip) : is(ip) = {y}
      BY <2>0, <2>2, Unbroken, UnbrokenNext
    <3>2. Ends(ip) <=> \E c \in Mac : x = Promise!Leased(c, clock')
      BY <3>1
    <3>3. /\ \/ x \in is(ip) /\ ~Ends(ip)
             \/ /\ Promise!Free \in is(ip) /\ Ends(ip)
                /\ \E i \in 1..Len(server.given) : server.given[i].time = t
          /\ x.at = "lease" => x.end >= clock'
      BY <2>2, <3>2, PlaceAges
    <3> HIDE DEF was, is, Ends
    <3> QED
      BY <3>1, <3>3
  <2> QED
    BY <2>1, <2>2
<1>3. CASE t = 0
  <2>1. \A i \in 1..Len(server.given) : server.given[i].time > 0
    BY DEF RInv, Running
  <2>2. \A ip \in Ip : is(ip) = was(ip)
    <3> HIDE DEF was, is, Ends
    <3> QED
      BY <1>2, <1>3, <2>1
  <2>3. clock' = clock
    BY <1>1, <1>3
  <2> QED
    BY <2>2, <2>3 DEF Book
<1>4. CASE t # 0
  <2>1. clock' \in Nat /\ clock' > clock
    BY <1>1, <1>4
  <2>2. /\ [ip \in Ip |-> is(ip)] = [ip \in Ip |-> IF Ends(ip) THEN {Promise!Free} ELSE was(ip)]
        /\ \A ip \in Ip : \A x \in was(ip) : x.at = "lease" => x.end >= clock'
    <3> HIDE DEF was, is, Ends
    <3> QED
      BY <1>2
  <2>3. Promise!Pass
    BY <2>1, <2>2 DEF Promise!Pass
  <2> QED
    BY <2>3
<1> QED
  BY <1>3, <1>4

Keeping == <<[ip \in Ip |-> Whereabouts(server, clock, ip)], clock, flaws # {}>>

LEMMA StepPromise ==
  ASSUME IInv, IInv', RInv, [Next]_vars
  PROVE  [Promise!Next]_Keeping
<1>1. CASE UNCHANGED vars
  BY <1>1 DEF vars, Keeping
<1>2. CASE flaws' # {}
  BY <1>2 DEF Promise!Next
<1>3. CASE Next /\ flaws' = {}
  <2>1. flaws = {}
    <3>1. flaws \subseteq flaws'
      BY <1>3 DEF Next, Receive, TypeAddPool, TypeAddTime, NewFlaws
    <3> QED
      BY <1>3, <3>1
  <2>2. CASE \E f \in ClientFrame : Receive(f)
    <3>1. \/ clock' = clock /\ Book(server', clock') = Book(server, clock)
          \/ \E a \in Ip : Promise!Move(a)
      BY <1>3, <2>1, <2>2, ReceivePromise
    <3>2. CASE clock' = clock /\ Book(server', clock') = Book(server, clock)
      BY <1>3, <2>1, <3>2 DEF Book, Keeping
    <3>3. CASE \E a \in Ip : Promise!Move(a)
      <4>1. Promise!Next
        BY <1>3, <2>1, <3>3 DEF Promise!Next
      <4> QED
        BY <4>1
    <3> QED
      BY <3>1, <3>2, <3>3
  <2>3. CASE \E p \in Pools : TypeAddPool(p[1], p[2])
    <3>1. Promise!Add
      BY <1>3, <2>1, <2>3, AddPromise
    <3>2. Promise!Next
      BY <1>3, <2>1, <3>1 DEF Promise!Next
    <3> QED
      BY <3>2
  <2>4. CASE \E t \in Steps : TypeAddTime(t)
    <3>1. \/ clock' = clock /\ Book(server', clock') = Book(server, clock)
          \/ Promise!Pass
      BY <1>3, <2>1, <2>4, TimePromise
    <3>2. CASE clock' = clock /\ Book(server', clock') = Book(server, clock)
      BY <1>3, <2>1, <3>2 DEF Book, Keeping
    <3>3. CASE Promise!Pass
      <4>1. Promise!Next
        BY <1>3, <2>1, <3>3 DEF Promise!Next
      <4> QED
        BY <4>1
    <3> QED
      BY <3>1, <3>2, <3>3
  <2> QED
    BY <1>3, <2>2, <2>3, <2>4 DEF Next
<1> QED
  BY <1>1, <1>2, <1>3

\* Until a flaw shows (a kept pointer, a pool over addresses that are out, a time
\* that leaves its 32 bits), the vectors of a server are a book of where each address
\* is, and every frame and command moves the addresses in it as Allocation says.
THEOREM KeepsPromiseHolds == Spec => KeepsPromise
<1>1. Spec => []RInv
  BY Inductive, InitRInv, NextRInv, PTL DEF Spec
<1> QED
  BY <1>1, Inductive, PromiseInit, StepPromise, PTL DEF Spec, KeepsPromise, Promise!Spec, Keeping

\* An action of Allocation leaves a lease that is not due a lease, at least as long.
LEMMA NextLasts ==
  ASSUME NEW a \in Ip, NEW old, old.at = "lease", old.end \in Nat,
         Whereabouts(server, clock, a) = {old}, clock' < old.end, flaws' = {}, Promise!Next
  PROVE  \E new \in Whereabouts(server', clock', a) : new.at = "lease" /\ new.end >= old.end
<1> DEFINE place == Book(server, clock)
           next == Book(server', clock')
<1>1. place[a] = {old} /\ next[a] = Whereabouts(server', clock', a)
  BY DEF Book
<1>2. old # Promise!Free /\ \A d : old # Promise!Offered(d)
  BY Apart
<1> SUFFICES \E new \in next[a] : new.at = "lease" /\ new.end >= old.end
  BY <1>1
<1>3. CASE next[a] = place[a]
  <2>1. old \in next[a] /\ old.end >= old.end
    BY <1>1, <1>3
  <2> QED
    BY <2>1
<1>4. ASSUME NEW b \in Ip, Promise!Move(b)
      PROVE  \E new \in next[a] : new.at = "lease" /\ new.end >= old.end
  <2>1. next = [place EXCEPT ![b] = next[b]]
    BY <1>4 DEF Promise!Move, Book
  <2>2. CASE a # b
    <3>1. next[a] = place[a]
      BY <2>1, <2>2 DEF Book
    <3> QED
      BY <1>3, <3>1
  <2>3. CASE a = b
    <3>1. Promise!Extend(a)
      BY <1>1, <1>2, <1>4, <2>3
      DEF Promise!Move, Promise!Offer, Promise!Grant, Promise!TakeBack, Book
    <3>2. PICK d \in Mac, t \in Time \ {0} : next[a] = {Promise!Leased(d, old.end + t)}
      BY <1>1, <3>1 DEF Promise!Extend, Book
    <3>3. t \in Nat /\ old.end + t >= old.end
      BY TimeNat
    <3>4. Promise!Leased(d, old.end + t).at = "lease" /\ Promise!Leased(d, old.end + t).end = old.end + t
      BY Apart
    <3> QED
      BY <3>2, <3>3, <3>4
  <2> QED
    BY <2>2, <2>3
<1>5. CASE Promise!Add
  <2>1. next[a] = place[a]
    BY <1>1, <1>5 DEF Promise!Add, Book
  <2> QED
    BY <1>3, <2>1
<1>6. CASE Promise!Pass
  <2>1. clock' \in Nat
    BY <1>6 DEF Promise!Pass
  <2>2. ASSUME NEW d \in Mac, {old} = {Promise!Leased(d, clock')}  PROVE FALSE
    <3>1. old.end = clock'
      BY <2>2, Apart
    <3> QED
      BY <2>1, <3>1
  <2>3. next[a] = place[a]
    BY <1>1, <1>6, <2>2 DEF Promise!Pass, Book
  <2> QED
    BY <1>3, <2>3
<1> QED
  BY <1>4, <1>5, <1>6 DEF Promise!Next

\* Until a flaw shows, a lease that is not due is still one in the next state, and no
\* shorter: neither a frame of anyone nor "add pool" takes it away.
THEOREM LeaseLastsHolds == Spec => Promise!LeaseLasts
<1>1. IInv /\ IInv' /\ RInv /\ [Next]_vars => [Promise!Lasts]_Keeping
  <2> SUFFICES ASSUME IInv, IInv', RInv, [Next]_vars
               PROVE  [Promise!Lasts]_Keeping
    OBVIOUS
  <2>1. CASE UNCHANGED Keeping
    BY <2>1
  <2>2. CASE Promise!Next
    <3>1. ASSUME NEW a \in Ip, NEW old \in Whereabouts(server, clock, a),
                 old.at = "lease", clock' < old.end, flaws' = {}
          PROVE  \E new \in Whereabouts(server', clock', a) : new.at = "lease" /\ new.end >= old.end
      <4>1. flaws = {}
        BY <2>2, <3>1 DEF Promise!Next
      <4>2. Whereabouts(server, clock, a) = {old}
        BY <3>1, <4>1, Unbroken DEF AnyIp
      <4>3. PICK i \in 1..Len(server.given) : old = Promise!Leased(server.given[i].mac, clock + server.given[i].time)
        BY <3>1, WhereIs, Apart
      <4>4. server.given[i] \in Grant
        BY DEF IInv, Typed
      <4>5. server.given[i].time \in Nat /\ clock \in Nat
        <5>1. server.given[i].time \in Time
          BY <4>4 DEF Grant
        <5>2. server.given[i].time \in Nat
          BY <5>1, TimeNat
        <5> QED
          BY <5>2, ArgumentsAssumption DEF IInv
      <4>6. old.end \in Nat
        BY <4>3, <4>5, Apart
      <4> QED
        BY <2>2, <3>1, <4>2, <4>6, NextLasts
    <3> QED
      BY <3>1 DEF Promise!Lasts
  <2> QED
    BY <2>1, <2>2, StepPromise
<1>2. Spec => []RInv
  BY Inductive, InitRInv, NextRInv, PTL DEF Spec
<1> QED
  BY <1>1, <1>2, Inductive, PTL DEF Spec, Promise!LeaseLasts, Keeping

-----------------------------------------------------------------------------
(* Servers and clients on links: what lies where.                           *)

Links == DOMAIN link
Reach(l) == Beyond(Links)[l]

Shape ==
  /\ Links \subseteq Machine \X Machine /\ \A l \in Links : Rev(l) \in Links
  /\ NoCycle(Links)
  /\ DOMAIN servers \subseteq Server

LEMMA LinkPairs ==
  ASSUME Shape, NEW l \in Links
  PROVE  /\ l = <<l[1], l[2]>> /\ l[1] \in Machine /\ l[2] \in Machine
         /\ Rev(l) \in Links /\ Rev(l)[1] = l[2] /\ Rev(l)[2] = l[1] /\ Rev(Rev(l)) = l
<1>1. PICK a \in Machine, b \in Machine : l = <<a, b>>
  BY DEF Shape
<1> QED
  BY <1>1 DEF Shape, Rev

LEMMA ReachEnd ==
  ASSUME Shape, NEW l \in Links
  PROVE  l[2] \in Reach(l)
BY DEF Shape, NoCycle, Reach

\* What is beyond a link is not beyond its way back.
LEMMA ReachApart ==
  ASSUME Shape, NEW l \in Links, NEW x \in Reach(l)
  PROVE  x \notin Reach(Rev(l)) /\ x # l[1]
<1>1. x \notin Reach(Rev(l))
  BY DEF Shape, NoCycle, Reach
<1>2. l[1] \in Reach(Rev(l))
  BY LinkPairs, ReachEnd
<1> QED
  BY <1>1, <1>2

\* What a frame comes to when it is handed on, and what is behind it then.
LEMMA ReachOnward ==
  ASSUME Shape, NEW l \in Links, NEW k \in Onward(Links, l)
  PROVE  /\ k \in Links /\ k[1] = l[2] /\ k[2] # l[1]
         /\ Reach(k) \subseteq Reach(l) /\ Reach(Rev(l)) \subseteq Reach(Rev(k))
         /\ l[2] \in Reach(Rev(k))
<1>1. k \in Links /\ k[1] = l[2] /\ k[2] # l[1] /\ l[2] \in Mac
  BY DEF Onward
<1>2. Reach(k) \subseteq Reach(l)
  BY DEF Shape, NoCycle, Reach
<1>3. /\ Rev(l) \in Links /\ Rev(l)[1] = l[2] /\ Rev(l)[2] = l[1]
      /\ Rev(k) \in Links /\ Rev(k)[1] = k[2] /\ Rev(k)[2] = k[1]
  BY <1>1, LinkPairs
<1>4. Rev(l) \in Onward(Links, Rev(k))
  BY <1>1, <1>3 DEF Onward
<1>5. Reach(Rev(l)) \subseteq Reach(Rev(k))
  BY <1>3, <1>4 DEF Shape, NoCycle, Reach
<1>6. l[2] \in Reach(Rev(k))
  BY <1>1, <1>3, ReachEnd
<1> QED
  BY <1>1, <1>2, <1>5, <1>6

\* A machine beyond a link gets the frame from its end, which hands it on.
LEMMA ReachNext ==
  ASSUME Shape, NEW l \in Links, NEW x \in Reach(l), x # l[2]
  PROVE  l[2] \in Mac /\ \E k \in Onward(Links, l) : x \in Reach(k)
<1>1. Reach(l) = {l[2]} \cup UNION { Reach(k) : k \in Onward(Links, l) }
  BY DEF Shape, NoCycle, Reach
<1>2. PICK k \in Onward(Links, l) : x \in Reach(k)
  BY <1>1
<1> QED
  BY <1>2 DEF Onward

LEMMA ReachClosed ==
  ASSUME Shape, NEW l \in Links, NEW k \in Links, k[1] \in Reach(l), k[1] \in Mac
  PROVE  k[2] \in Reach(l) \/ k = Rev(l)
BY DEF Shape, NoCycle, Reach

-----------------------------------------------------------------------------
(* Frames on the links: a step takes the first from one link, and puts some *)
(* on links that leave one machine.                                         *)

NetFrame == [type : DhcpDataType, mac : Mac, ip : AnyIp, time : Time]

Dropped(l, got) == IF l = got THEN 1 ELSE 0
Put(l, m, to, out) == IF l[1] = m /\ l[2] \in to THEN out ELSE <<>>

Flows(got, m, to, out) ==
  /\ link' \in [Links -> Seq(NetFrame)] /\ out \in Seq(NetFrame)
  /\ \A l \in Links :
       /\ l = got => Len(link[l]) > 0
       /\ Len(link'[l]) = Len(link[l]) - Dropped(l, got) + Len(Put(l, m, to, out))
       /\ \A i \in 1..(Len(link[l]) - Dropped(l, got)) :
            link'[l][i] = link[l][i + Dropped(l, got)]
       /\ \A j \in 1..Len(Put(l, m, to, out)) :
            link'[l][Len(link[l]) - Dropped(l, got) + j] = Put(l, m, to, out)[j]

Queues == link \in [Links -> Seq(NetFrame)]

LEMMA ConcatParts ==
  ASSUME NEW T, NEW q \in Seq(T), NEW o \in Seq(T)
  PROVE  /\ q \o o \in Seq(T) /\ Len(q \o o) = Len(q) + Len(o)
         /\ \A i \in 1..Len(q) : (q \o o)[i] = q[i]
         /\ \A j \in 1..Len(o) : (q \o o)[Len(q) + j] = o[j]
OBVIOUS

LEMMA TailParts ==
  ASSUME NEW T, NEW q \in Seq(T), q # <<>>
  PROVE  /\ Tail(q) \in Seq(T) /\ Len(q) > 0 /\ Len(Tail(q)) = Len(q) - 1
         /\ \A i \in 1..(Len(q) - 1) : Tail(q)[i] = q[i + 1]
         /\ Head(q) = q[1] /\ q[1] \in T
OBVIOUS

\* Frames are received, and sent.
LEMMA FlowReceive ==
  ASSUME Shape, Queues, NEW from, NEW m, <<from, m>> \in Links, link[<<from, m>>] # <<>>,
         NEW to, NEW out \in Seq(NetFrame),
         link' = Sent(Received(from, m), m, to, out)
  PROVE  Flows(<<from, m>>, m, to, out)
<1> DEFINE got == <<from, m>>
           old(l) == IF l = got THEN Tail(link[l]) ELSE link[l]
<1>1. Received(from, m) = [l \in Links |-> old(l)]
  BY DEF Received, Queues, Links
<1>2. link' = [l \in Links |-> link'[l]] /\ \A l \in Links :
        link'[l] = IF l[1] = m /\ l[2] \in to THEN old(l) \o out ELSE old(l)
  BY <1>1 DEF Sent
<1>3. ASSUME NEW l \in Links
      PROVE  /\ old(l) \in Seq(NetFrame)
             /\ l = got => Len(link[l]) > 0
             /\ Len(old(l)) = Len(link[l]) - Dropped(l, got)
             /\ \A i \in 1..(Len(link[l]) - Dropped(l, got)) : old(l)[i] = link[l][i + Dropped(l, got)]
  <2>1. link[l] \in Seq(NetFrame)
    BY DEF Queues
  <2>2. CASE l = got
    BY <2>1, <2>2, TailParts DEF Dropped
  <2>3. CASE l # got
    BY <2>1, <2>3 DEF Dropped
  <2> QED
    BY <2>2, <2>3
<1> HIDE DEF old, got
<1>4. ASSUME NEW l \in Links
      PROVE  /\ link'[l] \in Seq(NetFrame)
             /\ Len(link'[l]) = Len(old(l)) + Len(Put(l, m, to, out))
             /\ \A i \in 1..Len(old(l)) : link'[l][i] = old(l)[i]
             /\ \A j \in 1..Len(Put(l, m, to, out)) : link'[l][Len(old(l)) + j] = Put(l, m, to, out)[j]
  <2>1. old(l) \in Seq(NetFrame)
    BY <1>3
  <2>2. CASE l[1] = m /\ l[2] \in to
    <3>1. link'[l] = old(l) \o out /\ Put(l, m, to, out) = out
      BY <1>2, <2>2 DEF Put
    <3> QED
      BY <2>1, <3>1, ConcatParts
  <2>3. CASE ~(l[1] = m /\ l[2] \in to)
    <3>1. link'[l] = old(l) /\ Put(l, m, to, out) = <<>>
      BY <1>2, <2>3 DEF Put
    <3> QED
      BY <2>1, <3>1
  <2> QED
    BY <2>2, <2>3
<1>5. ASSUME NEW l \in Links
      PROVE  /\ link'[l] \in Seq(NetFrame)
             /\ l = got => Len(link[l]) > 0
             /\ Len(link'[l]) = Len(link[l]) - Dropped(l, got) + Len(Put(l, m, to, out))
             /\ \A i \in 1..(Len(link[l]) - Dropped(l, got)) :
                  link'[l][i] = link[l][i + Dropped(l, got)]
             /\ \A j \in 1..Len(Put(l, m, to, out)) :
                  link'[l][Len(link[l]) - Dropped(l, got) + j] = Put(l, m, to, out)[j]
  <2> DEFINE n == Len(link[l]) - Dropped(l, got)
             put == Put(l, m, to, out)
  <2>1. /\ l = got => Len(link[l]) > 0
        /\ Len(old(l)) = n /\ \A i \in 1..n : old(l)[i] = link[l][i + Dropped(l, got)]
    BY <1>3
  <2>2. /\ link'[l] \in Seq(NetFrame) /\ Len(link'[l]) = n + Len(put)
        /\ \A i \in 1..n : link'[l][i] = old(l)[i]
        /\ \A j \in 1..Len(put) : link'[l][n + j] = put[j]
    BY <1>4, <2>1
  <2> HIDE DEF n, put
  <2>3. \A i \in 1..n : link'[l][i] = link[l][i + Dropped(l, got)]
    BY <2>1, <2>2
  <2> QED
    BY <2>1, <2>2, <2>3 DEF n, put
<1> QED
  BY <1>2, <1>5 DEF Flows, got

\* Nothing is taken from a link: no link is this one.
NoLink == <<>>

LEMMA NoLinkIs == ASSUME Shape PROVE NoLink \notin Links
BY DEF Shape, NoLink

LEMMA FlowSend ==
  ASSUME Shape, Queues, NEW m, NEW to, NEW out \in Seq(NetFrame),
         link' = Sent(link, m, to, out)
  PROVE  Flows(NoLink, m, to, out)
<1>1. link' = [l \in Links |-> link'[l]] /\ \A l \in Links :
        link'[l] = IF l[1] = m /\ l[2] \in to THEN link[l] \o out ELSE link[l]
  BY DEF Sent, Links
<1>2. ASSUME NEW l \in Links
      PROVE  /\ link'[l] \in Seq(NetFrame)
             /\ l # NoLink /\ Dropped(l, NoLink) = 0
             /\ Len(link[l]) \in Nat
             /\ Len(link'[l]) = Len(link[l]) + Len(Put(l, m, to, out))
             /\ \A i \in 1..Len(link[l]) : link'[l][i] = link[l][i]
             /\ \A j \in 1..Len(Put(l, m, to, out)) : link'[l][Len(link[l]) + j] = Put(l, m, to, out)[j]
  <2>1. link[l] \in Seq(NetFrame) /\ l # NoLink
    BY NoLinkIs DEF Queues
  <2>2. CASE l[1] = m /\ l[2] \in to
    <3>1. link'[l] = link[l] \o out /\ Put(l, m, to, out) = out
      BY <1>1, <2>2 DEF Put
    <3> QED
      BY <2>1, <3>1, ConcatParts DEF Dropped
  <2>3. CASE ~(l[1] = m /\ l[2] \in to)
    <3>1. link'[l] = link[l] /\ Put(l, m, to, out) = <<>>
      BY <1>1, <2>3 DEF Put
    <3> QED
      BY <2>1, <3>1 DEF Dropped
  <2> QED
    BY <2>2, <2>3
<1> QED
  BY <1>1, <1>2 DEF Flows

LEMMA FlowSame ==
  ASSUME Shape, Queues, link' = link, NEW m
  PROVE  Flows(NoLink, m, {}, <<>>)
<1>1. <<>> \in Seq(NetFrame)
  OBVIOUS
<1>2. link' = Sent(link, m, {}, <<>>)
  BY DEF Sent, Queues, Links
<1> QED
  BY <1>1, <1>2, FlowSend

\* Where a frame is after the step, and where it was before.
LEMMA FlowLengths ==
  ASSUME Queues, NEW got, NEW m, NEW to, NEW out, Flows(got, m, to, out), NEW l \in Links
  PROVE  /\ Len(link[l]) \in Nat /\ Len(link'[l]) \in Nat /\ Len(Put(l, m, to, out)) \in Nat
         /\ Dropped(l, got) \in {0, 1} /\ Len(out) \in Nat
         /\ Len(link'[l]) = Len(link[l]) - Dropped(l, got) + Len(Put(l, m, to, out))
         /\ l = got => Len(link[l]) > 0
         /\ link[l] \in Seq(NetFrame) /\ link'[l] \in Seq(NetFrame)
<1>1. link[l] \in Seq(NetFrame) /\ link'[l] \in Seq(NetFrame) /\ out \in Seq(NetFrame)
  BY DEF Queues, Flows
<1>2. Put(l, m, to, out) \in Seq(NetFrame)
  BY <1>1 DEF Put
<1>3. Dropped(l, got) \in {0, 1}
  BY DEF Dropped
<1> QED
  BY <1>1, <1>2, <1>3 DEF Flows

LEMMA OldPlace ==
  ASSUME Queues, NEW got, NEW m, NEW to, NEW out, Flows(got, m, to, out),
         NEW l \in Links, NEW i \in 1..Len(link[l]), ~(l = got /\ i = 1)
  PROVE  /\ i - Dropped(l, got) \in 1..Len(link'[l])
         /\ link'[l][i - Dropped(l, got)] = link[l][i]
<1> DEFINE d == Dropped(l, got)
           n == Len(link[l])
<1>1. /\ n \in Nat /\ Len(link'[l]) \in Nat /\ Len(Put(l, m, to, out)) \in Nat /\ d \in {0, 1}
      /\ Len(link'[l]) = n - d + Len(Put(l, m, to, out))
  BY FlowLengths
<1>2. d = 0 \/ i > 1
  BY DEF Dropped
<1>3. \A j \in 1..(n - d) : link'[l][j] = link[l][j + d]
  BY DEF Flows
<1> HIDE DEF d
<1>4. i \in 1..n
  OBVIOUS
<1> HIDE DEF n
<1>5. i - d \in 1..(n - d) /\ (i - d) + d = i /\ i - d \in 1..Len(link'[l])
  BY <1>1, <1>2, <1>4
<1>6. link'[l][i - d] = link[l][i]
  BY <1>3, <1>5
<1> QED
  BY <1>5, <1>6 DEF d

LEMMA PutPlace ==
  ASSUME Queues, NEW got, NEW m, NEW to, NEW out, Flows(got, m, to, out),
         NEW l \in Links, l[1] = m, l[2] \in to, NEW j \in 1..Len(out)
  PROVE  /\ Len(link[l]) - Dropped(l, got) + j \in 1..Len(link'[l])
         /\ link'[l][Len(link[l]) - Dropped(l, got) + j] = out[j]
<1> DEFINE d == Dropped(l, got)
           n == Len(link[l])
<1>1. Put(l, m, to, out) = out
  BY DEF Put
<1>2. /\ n \in Nat /\ Len(link'[l]) \in Nat /\ Len(out) \in Nat /\ d \in {0, 1}
      /\ Len(link'[l]) = n - d + Len(out) /\ (l = got => n > 0)
  BY <1>1, FlowLengths
<1>3. \A k \in 1..Len(out) : link'[l][n - d + k] = out[k]
  BY <1>1 DEF Flows
<1>4. d = 1 => n > 0
  BY <1>2 DEF Dropped
<1> HIDE DEF d, n
<1>5. n - d + j \in 1..Len(link'[l])
  BY <1>2, <1>4
<1> QED
  BY <1>3, <1>5 DEF d, n

LEMMA NewPlace ==
  ASSUME Queues, NEW got, NEW m, NEW to, NEW out, Flows(got, m, to, out),
         NEW l \in Links, NEW i \in 1..Len(link'[l])
  PROVE  \/ \E h \in 1..Len(link[l]) :
              i = h - Dropped(l, got) /\ ~(l = got /\ h = 1) /\ link'[l][i] = link[l][h]
         \/ l[1] = m /\ l[2] \in to /\ \E j \in 1..Len(out) :
              i = Len(link[l]) - Dropped(l, got) + j /\ link'[l][i] = out[j]
<1> DEFINE d == Dropped(l, got)
           n == Len(link[l])
           put == Put(l, m, to, out)
<1>1. /\ n \in Nat /\ Len(link'[l]) \in Nat /\ Len(put) \in Nat /\ d \in {0, 1}
      /\ Len(link'[l]) = n - d + Len(put)
      /\ l = got => n > 0
  BY FlowLengths
<1>2. l = got <=> d = 1
  BY DEF Dropped
<1>3. \A j \in 1..(n - d) : link'[l][j] = link[l][j + d]
  BY DEF Flows
<1>4. \A k \in 1..Len(put) : link'[l][n - d + k] = put[k]
  BY DEF Flows
<1>5. put = <<>> \/ (l[1] = m /\ l[2] \in to /\ put = out)
  <2>1. CASE l[1] = m /\ l[2] \in to
    BY <2>1 DEF Put
  <2>2. CASE ~(l[1] = m /\ l[2] \in to)
    BY <2>2 DEF Put
  <2> QED
    BY <2>1, <2>2
<1> HIDE DEF d, n, put
<1>6. CASE i <= n - d
  <2>1. i + d \in 1..n /\ i = (i + d) - d /\ i \in 1..(n - d) /\ ~(d = 1 /\ i + d = 1)
    BY <1>1, <1>6
  <2> QED
    BY <1>2, <1>3, <2>1 DEF d, n
<1>7. CASE i > n - d
  <2>1. i - (n - d) \in 1..Len(put) /\ i = n - d + (i - (n - d))
    BY <1>1, <1>7
  <2>2. put # <<>>
    BY <2>1
  <2>3. link'[l][i] = put[i - (n - d)]
    BY <1>4, <2>1
  <2> QED
    BY <1>5, <2>1, <2>2, <2>3 DEF d, n
<1> QED
  BY <1>1, <1>6, <1>7

-----------------------------------------------------------------------------
(* The types of the network.                                                *)

NetTyped ==
  /\ Shape /\ Queues
  /\ servers = [s \in DOMAIN servers |-> servers[s]]
  /\ \A s \in DOMAIN servers : Typed(servers[s])
  /\ current_ip \in [Mac -> AnyIp] /\ extending \subseteq Mac
  /\ acks \in [Mac -> Nat] /\ gets \in Nat
  /\ faults \subseteq {"kept", "crossed", "overtaken"}

Answer == {"DHCP_OFFER", "DHCP_ACK", "DHCP_RESPONSE_EXTEND"}

\* What a server answers is a frame to the client that asked.
LEMMA HandleOut ==
  ASSUME NEW s, Typed(s), NEW f \in NetFrame, NEW o \in Handle(s, f)
  PROVE  /\ Typed(o.state)
         /\ o.out = <<>> \/ \E g \in NetFrame : g.mac = f.mac /\ g.type \in Answer /\ o.out = <<g>>
<1> DEFINE P == s.pool
           O == s.offered
           G == s.given
           B == f.ip
           r == St(P, O, G, B)
<1>1. f.ip \in AnyIp /\ f.mac \in Mac /\ f.time \in Time /\ Asked(f.time) \in Time
  BY TimeTypes DEF NetFrame
<1>2. Typed(o.state)
  BY <1>1, HandleKeeps DEF Keeps
<1>3. P \in [Entry -> Nat] /\ O \in Seq(Offer) /\ G \in Seq(Grant) /\ s = St(P, O, G, s.buffer)
  BY DEF Typed
<1>4. WithBuffer(s, f.ip) = r
  BY <1>3, WithParts
<1>5. o \in CASE f.type = "DHCP_DISCOVER" -> Discover(WithBuffer(s, f.ip), f)
            [] f.type = "DHCP_REQUEST" -> Request(WithBuffer(s, f.ip), f)
            [] f.type = "DHCP_ACK" -> Ack(WithBuffer(s, f.ip), f)
            [] f.type = "DHCP_RELEASE" -> Release(WithBuffer(s, f.ip), f)
            [] f.type = "DHCP_REQUEST_EXTEND" -> ExtendRequest(WithBuffer(s, f.ip), f)
            [] OTHER -> Stay(WithBuffer(s, f.ip))
  BY DEF Handle, WithBuffer
<1> HIDE DEF P, O, G, B
<1>6. \/ o \in Discover(r, f) \/ o \in Request(r, f) \/ o \in Ack(r, f) \/ o \in Release(r, f)
      \/ o \in ExtendRequest(r, f) \/ o \in Stay(r)
  BY <1>4, <1>5
<1>7. B \in AnyIp /\ B = f.ip /\ Typed(r)
  BY <1>1, <1>3, StTyped DEF B
<1> HIDE DEF r
<1> DEFINE Good == o.out = <<>> \/ \E g \in NetFrame : g.mac = f.mac /\ g.type \in Answer /\ o.out = <<g>>
<1>8. \A type \in Answer, ip \in AnyIp, t \in Time :
        /\ Frame(type, f.mac, ip, t) \in NetFrame /\ Frame(type, f.mac, ip, t).mac = f.mac
        /\ Frame(type, f.mac, ip, t).type \in Answer
  BY <1>1 DEF Frame, NetFrame, Answer, DhcpDataType
<1>9. "DHCP_OFFER" \in Answer /\ "DHCP_ACK" \in Answer /\ "DHCP_RESPONSE_EXTEND" \in Answer
  BY DEF Answer
<1>10. ASSUME o \in Stay(r)  PROVE Good
  BY <1>10, OutcomeParts DEF Stay
<1>11. ASSUME o \in Discover(r, f)  PROVE Good
  <2>1. o.out = <<>> \/ \E e \in Lowest(r) :
          o.out = <<Frame("DHCP_OFFER", f.mac, Value(r, e), Asked(f.time))>>
    BY <1>11, DiscoverState
  <2>2. \A e \in Lowest(r) : Value(r, e) \in AnyIp
    BY <1>7, LowestEntry
  <2> QED
    BY <1>1, <1>8, <1>9, <2>1, <2>2
<1>12. ASSUME o \in Request(r, f)  PROVE Good
  <2>1. o.out = <<>> \/ o.out = <<Frame("DHCP_ACK", f.mac, f.ip, Asked(f.time))>>
    BY <1>3, <1>7, <1>12, RequestState DEF r
  <2> QED
    BY <1>1, <1>8, <1>9, <2>1
<1>13. ASSUME o \in Ack(r, f)  PROVE Good
  BY <1>3, <1>7, <1>13, AckState DEF r
<1>14. ASSUME o \in Release(r, f)  PROVE Good
  BY <1>3, <1>7, <1>14, ReleaseState DEF r
<1>15. ASSUME o \in ExtendRequest(r, f)  PROVE Good
  <2> DEFINE W(e) == IF e = Kept THEN B ELSE e
             T(i) == Longer(G[i].time, f.time)
  <2>1. \A e \in Lowest(St(More(P, Kept), O, G, B)) : W(e) \in AnyIp
    <3>1. \A e \in Lowest(St(More(P, Kept), O, G, B)) : e \in Entry
      BY DEF Lowest, InPool
    <3> QED
      BY <1>7, <3>1 DEF Entry
  <2>2. ASSUME NEW i \in 1..Len(G)  PROVE T(i) \in Time
    <3>1. G[i] \in Grant
      BY <1>3
    <3> QED
      BY <1>1, <3>1, TimeTypes DEF Grant
  <2>3. ASSUME NEW i \in 1..Len(G), NEW e \in Lowest(St(More(P, Kept), O, G, B)),
               o.out = <<Frame("DHCP_RESPONSE_EXTEND", f.mac, W(e), T(i))>>
        PROVE  Good
    <3> HIDE DEF W, T
    <3> QED
      BY <1>8, <1>9, <2>1, <2>2, <2>3
  <2>4. ASSUME o.out = <<>>  PROVE Good
    BY <2>4
  <2> HIDE DEF Good
  <2>5. o \in ExtendRequest(St(P, O, G, B), f)
    BY <1>15 DEF r
  <2> QED
    BY <1>3, <1>7, <2>3, <2>4, <2>5, ExtendState, SMTT(30)
<1> QED
  BY <1>2, <1>6, <1>10, <1>11, <1>12, <1>13, <1>14, <1>15

Is(f, type, c, ip) == f.type = type /\ f.mac = c /\ f.ip = ip
LeaseIn(G, c, ip) == \E i \in 1..Len(G) : G[i].ip = ip /\ G[i].mac = c

\* What add_time does with the leases: in the order p, the first n are ended, with a
\* frame each, and the others stay.
Ages(G, o, p, n) ==
  /\ p \in [1..Len(G) -> 1..Len(G)] /\ n \in 0..Len(G)
  /\ \A j, k \in 1..Len(G) : p[j] = p[k] => j = k
  /\ \A j \in 1..Len(G) : \E k \in 1..Len(G) : p[k] = j
  /\ Len(o.state.given) = Len(G) - n /\ Len(o.out) = n
  /\ \A k \in 1..(Len(G) - n) : /\ o.state.given[k].ip = G[p[n + k]].ip
                                /\ o.state.given[k].mac = G[p[n + k]].mac
  /\ \A k \in 1..n : Is(o.out[k], "DHCP_TIMEOUT", G[p[k]].mac, G[p[k]].ip)

LEMMA AgingFacts ==
  ASSUME NEW s, Typed(s), NEW t \in Nat, NEW o \in AddTime(s, t)
  PROVE  /\ Typed(o.state) /\ o.state.offered = s.offered /\ o.state.pool[Kept] = s.pool[Kept]
         /\ o.out \in Seq(NetFrame)
         /\ \E p, n : Ages(s.given, o, p, n)
<1> DEFINE G == s.given
           A == Aged(G, t)
           n == Len(G)
<1>1. s = St(s.pool, s.offered, G, s.buffer)
      /\ s.pool \in [Entry -> Nat] /\ s.offered \in Seq(Offer) /\ G \in Seq(Grant) /\ n \in Nat
  BY DEF Typed
<1>2. A \in Seq(Grant) /\ Len(A) = n
  BY <1>1, AgedTypes
<1>3. \A k \in 1..n : A[k].ip = G[k].ip /\ A[k].mac = G[k].mac
  <2> TAKE k \in 1..n
  <2>1. G[k] \in Grant
    BY <1>1
  <2>2. A[k] = [G[k] EXCEPT !.time = (@ - t) % TimeSpace]
    BY DEF Aged
  <2> HIDE DEF A, G
  <2> QED
    BY <2>1, <2>2 DEF Grant
<1>4. PICK list \in ByTime(A) : o = End(s, list, Expired(list))
  BY DEF AddTime
<1> HIDE DEF A
<1>5. PICK p \in Bijection(1..Len(A), 1..Len(A)) : list = [k \in 1..Len(A) |-> A[p[k]]]
  BY <1>4 DEF ByTime
<1>6. /\ p \in [1..n -> 1..n] /\ (\A j, k \in 1..n : p[j] = p[k] => j = k)
      /\ \A j \in 1..n : \E k \in 1..n : p[k] = j
  BY <1>2, <1>5 DEF Bijection, Injection, Surjection, IsInjective
<1>7. list \in Seq(Grant) /\ Len(list) = n
  BY <1>2, <1>5, CountPermuted
<1> DEFINE x == Expired(list)
<1>8. x \in 0..n
  BY <1>7, ExpiredBound
<1>9. \A k \in 1..n : list[k].ip = G[p[k]].ip /\ list[k].mac = G[p[k]].mac
  BY <1>2, <1>3, <1>5, <1>6
<1>10. \A k \in 1..n : list[k] \in Grant
  BY <1>7
<1> HIDE DEF x, G, n
<1>11. o.state = St(Back(s.pool, SubSeq(list, 1, x)), s.offered, SubSeq(list, x + 1, Len(list)), s.buffer)
  <2> DEFINE P == s.pool
             O == s.offered
             B == s.buffer
  <2>1. s = St(P, O, G, B) /\ P \in [Entry -> Nat]
    BY <1>1
  <2>2. o = End(s, list, x)
    BY <1>4 DEF x
  <2> HIDE DEF P, O, B
  <2>3. End(St(P, O, G, B), list, x).state
          = St(Back(P, SubSeq(list, 1, x)), O, SubSeq(list, x + 1, Len(list)), B)
    BY <2>1, EndState
  <2>4. o.state = St(Back(P, SubSeq(list, 1, x)), O, SubSeq(list, x + 1, Len(list)), B)
    BY <2>1, <2>2, <2>3
  <2> QED
    BY <2>4 DEF P, O, B
<1>12. o.state.offered = s.offered /\ o.state.given = SubSeq(list, x + 1, n)
  <2> DEFINE P == Back(s.pool, SubSeq(list, 1, x))
             H == SubSeq(list, x + 1, Len(list))
             O == s.offered
             B == s.buffer
  <2>1. o.state = St(P, O, H, B)
    BY <1>11
  <2> HIDE DEF P, H, O, B
  <2>2. o.state.offered = O /\ o.state.given = H
    BY <2>1, StParts
  <2> QED
    BY <1>7, <2>2 DEF O, H
<1>13. o.out = [i \in 1..x |-> Frame("DHCP_TIMEOUT", list[i].mac, list[i].ip, 0)]
  BY <1>4, OutcomeParts DEF End, x
<1>14. x \in Nat /\ x <= n /\ n \in Nat
  BY <1>1, <1>8
<1>15. \A k \in 1..x : k \in 1..n
  BY <1>14
<1>16. ASSUME NEW k \in 1..x
       PROVE  /\ Frame("DHCP_TIMEOUT", list[k].mac, list[k].ip, 0) \in NetFrame
              /\ Is(Frame("DHCP_TIMEOUT", list[k].mac, list[k].ip, 0), "DHCP_TIMEOUT",
                    G[p[k]].mac, G[p[k]].ip)
  <2>1. list[k] \in Grant /\ list[k].ip = G[p[k]].ip /\ list[k].mac = G[p[k]].mac
    BY <1>9, <1>10, <1>15
  <2>2. 0 \in Time
    BY SpaceAssumption DEF Time
  <2>3. "DHCP_TIMEOUT" \in DhcpDataType
    BY DEF DhcpDataType
  <2> QED
    BY <2>1, <2>2, <2>3 DEF Grant, Frame, NetFrame, Is
<1>17. o.out \in [1..x -> NetFrame]
  BY <1>13, <1>16
<1>18. o.out \in Seq(NetFrame) /\ Len(o.out) = x
  BY ONLY <1>14, <1>17
<1>19. \A k \in 1..x : Is(o.out[k], "DHCP_TIMEOUT", G[p[k]].mac, G[p[k]].ip)
  BY <1>13, <1>16
<1>20. Len(o.state.given) = n - x /\ \A k \in 1..(n - x) : o.state.given[k] = list[x + k]
  BY <1>7, <1>8, <1>12, SubSeqElements
<1>21. \A k \in 1..(n - x) : x + k \in 1..n
  BY <1>14
<1>22. \A k \in 1..(n - x) : /\ o.state.given[k].ip = G[p[x + k]].ip
                             /\ o.state.given[k].mac = G[p[x + k]].mac
  BY <1>9, <1>20, <1>21
<1>23. Typed(o.state)
  BY AddTimeKeeps DEF Keeps
<1>24. Ages(G, o, p, x)
  BY <1>6, <1>8, <1>18, <1>19, <1>20, <1>22 DEF Ages, n
<1>25. o.state.pool[Kept] = s.pool[Kept]
  <2> DEFINE front == SubSeq(list, 1, x)
             P == s.pool
             O == s.offered
             B == s.buffer
             H == SubSeq(list, x + 1, Len(list))
  <2>1. o.state = St(Back(P, front), O, H, B)
    BY <1>11
  <2>2. front \in Seq(Grant)
    BY <1>7, <1>8, SubSeqElements
  <2> HIDE DEF front, O, B, H
  <2>3. o.state.pool = Back(P, front)
    BY <2>1, StParts
  <2>4. \A i \in 1..Len(front) : front[i].ip # Kept
    <3>1. \A i \in 1..Len(front) : front[i] \in Grant
      BY <2>2
    <3> QED
      BY <3>1, KeptNoAddress DEF Grant
  <2>5. Count(front, Kept) = 0
    BY <2>2, <2>4, CountZero
  <2>6. P[Kept] \in Nat /\ Back(P, front)[Kept] = P[Kept] + Count(front, Kept)
    BY <1>1, KeptNoAddress DEF Back
  <2> QED
    BY <2>3, <2>5, <2>6 DEF P
<1> QED
  BY <1>12, <1>18, <1>23, <1>24, <1>25 DEF G

LEMMA AgedLease ==
  ASSUME NEW G, Len(G) \in Nat, NEW o, NEW p, NEW n, Ages(G, o, p, n), NEW c, NEW ip, LeaseIn(G, c, ip)
  PROVE  \/ LeaseIn(o.state.given, c, ip)
         \/ \E k \in 1..Len(o.out) : Is(o.out[k], "DHCP_TIMEOUT", c, ip)
<1>1. PICK i \in 1..Len(G) : G[i].ip = ip /\ G[i].mac = c
  BY DEF LeaseIn
<1>2. PICK k \in 1..Len(G) : p[k] = i
  BY DEF Ages
<1>3. CASE k <= n
  <2>1. k \in 1..n
    BY <1>3
  <2> QED
    BY <1>1, <1>2, <2>1 DEF Ages
<1>4. CASE k > n
  <2>1. n \in Nat
    BY DEF Ages
  <2>2. k - n \in 1..(Len(G) - n) /\ n + (k - n) = k
    BY <1>4, <2>1
  <2>3. o.state.given[k - n].ip = ip /\ o.state.given[k - n].mac = c
    BY <1>1, <1>2, <2>2 DEF Ages
  <2> QED
    BY <2>2, <2>3 DEF Ages, LeaseIn
<1> QED
  BY <1>3, <1>4 DEF Ages

-----------------------------------------------------------------------------
(* What the steps of the network do.                                        *)

LEMMA NeighborsAll ==
  ASSUME Shape, NEW k \in Links
  PROVE  k[2] \in Neighbors(k[1])
BY LinkPairs DEF Neighbors, Links

LEMMA NeighborLink ==
  ASSUME NEW m, NEW n \in Neighbors(m)
  PROVE  n \in Machine /\ <<m, n>> \in Links
BY DEF Neighbors, Links

LEMMA OneFrame ==
  ASSUME NEW f \in NetFrame
  PROVE  <<f>> \in Seq(NetFrame) /\ Len(<<f>>) = 1 /\ <<f>>[1] = f
OBVIOUS

\* A command: what client c sends, and what else it changes.
Commands(c, f) ==
  /\ f \in NetFrame /\ f.mac = c /\ Flows(NoLink, c, Neighbors(c), <<f>>)
  /\ servers' = servers /\ faults' = faults /\ acks' = acks
  /\ \/ f.type = "DHCP_DISCOVER" /\ current_ip' = current_ip /\ extending' = extending
        /\ gets' = gets + 1
     \/ f.type = "DHCP_REQUEST" /\ current_ip' = current_ip /\ extending' = extending
        /\ gets' = gets
     \/ /\ f.type = "DHCP_RELEASE" /\ current_ip' = [current_ip EXCEPT ![c] = NoIp]
        /\ f.ip = current_ip[c] /\ c \notin extending /\ extending' = extending /\ gets' = gets
     \/ /\ f.type = "DHCP_REQUEST_EXTEND" /\ current_ip' = current_ip
        /\ f.ip = current_ip[c] /\ extending' = extending \cup {c} /\ gets' = gets

LEMMA CommandFrame ==
  ASSUME NEW type \in DhcpDataType, NEW c \in Mac, NEW ip \in AnyIp, NEW t \in Time
  PROVE  LET f == Frame(type, c, ip, t)
         IN f \in NetFrame /\ f.type = type /\ f.mac = c /\ f.ip = ip
BY DEF Frame, NetFrame

LEMMA CommandDoes ==
  ASSUME NetTyped, NEW c \in Mac, Command(c)
  PROVE  \E f : Commands(c, f)
<1>0. Shape /\ Queues
  BY DEF NetTyped
<1>1. /\ \A t \in UserTimes : t \in Time
      /\ 0 \in Time /\ NoIp \in AnyIp /\ \A ip \in Ip : ip \in AnyIp
  BY TimesAssumption, SpaceAssumption DEF Time, AnyIp
<1>2. ASSUME NEW f \in NetFrame, Broadcast(c, f)  PROVE Flows(NoLink, c, Neighbors(c), <<f>>)
  BY <1>0, <1>2, OneFrame, FlowSend DEF Broadcast
<1>3. ASSUME NEW t \in UserTimes, GetIp(c, t)  PROVE \E f : Commands(c, f)
  <2> DEFINE f == Frame("DHCP_DISCOVER", c, NoIp, t)
  <2>1. f \in NetFrame /\ f.type = "DHCP_DISCOVER" /\ f.mac = c
    BY <1>1, CommandFrame DEF DhcpDataType
  <2>2. Broadcast(c, f)
    BY <1>3 DEF GetIp
  <2> HIDE DEF f
  <2> QED
    BY <1>2, <1>3, <2>1, <2>2 DEF GetIp, Commands, client
<1>4. ASSUME NEW ip \in Ip, NEW t \in UserTimes, AcceptOffer(c, ip, t)  PROVE \E f : Commands(c, f)
  <2> DEFINE f == Frame("DHCP_REQUEST", c, ip, t)
  <2>1. f \in NetFrame /\ f.type = "DHCP_REQUEST" /\ f.mac = c
    BY <1>1, CommandFrame DEF DhcpDataType
  <2>2. Broadcast(c, f)
    BY <1>4 DEF AcceptOffer
  <2> HIDE DEF f
  <2> QED
    BY <1>2, <1>4, <2>1, <2>2 DEF AcceptOffer, Commands, client
<1>5. ASSUME NEW ip \in Ip, ReleaseIp(c, ip)  PROVE \E f : Commands(c, f)
  <2> DEFINE f == Frame("DHCP_RELEASE", c, ip, 0)
  <2>1. f \in NetFrame /\ f.type = "DHCP_RELEASE" /\ f.mac = c /\ f.ip = ip
    BY <1>1, CommandFrame DEF DhcpDataType
  <2>2. Broadcast(c, f)
    BY <1>5 DEF ReleaseIp
  <2> HIDE DEF f
  <2> QED
    BY <1>2, <1>5, <2>1, <2>2 DEF ReleaseIp, Type, Commands
<1>6. ASSUME NEW ip \in Ip, NEW t \in UserTimes, ExtendLease(c, ip, t)  PROVE \E f : Commands(c, f)
  <2> DEFINE f == Frame("DHCP_REQUEST_EXTEND", c, ip, t)
  <2>1. f \in NetFrame /\ f.type = "DHCP_REQUEST_EXTEND" /\ f.mac = c /\ f.ip = ip
    BY <1>1, CommandFrame DEF DhcpDataType
  <2>2. Broadcast(c, f)
    BY <1>6 DEF ExtendLease
  <2> HIDE DEF f
  <2> QED
    BY <1>2, <1>6, <2>1, <2>2 DEF ExtendLease, Commands
<1> QED
  BY <1>3, <1>4, <1>5, <1>6 DEF Command

\* The end of extend_lease.
Clears(c) ==
  /\ Flows(NoLink, c, {}, <<>>) /\ servers' = servers /\ faults' = faults /\ acks' = acks /\ gets' = gets
  /\ c \in extending /\ extending' = extending \ {c}
  /\ current_ip' = [current_ip EXCEPT ![c] = NoIp]

LEMMA ClearDoes ==
  ASSUME NetTyped, NEW c \in Mac, ExtendLeaseClear(c)
  PROVE  Clears(c)
BY FlowSame DEF NetTyped, ExtendLeaseClear, Clears

\* A server ends leases.
EndsLeases(s, o) ==
  /\ s \in DOMAIN servers /\ servers' = [servers EXCEPT ![s] = o.state]
  /\ Typed(o.state) /\ o.state.offered = servers[s].offered
  /\ o.state.pool[Kept] = servers[s].pool[Kept]
  /\ \E t \in Nat : o \in AddTime(servers[s], t)
  /\ \E p, n : Ages(servers[s].given, o, p, n)
  /\ Flows(NoLink, s, Neighbors(s), o.out)
  /\ current_ip' = current_ip /\ extending' = extending
  /\ faults' = faults /\ acks' = acks /\ gets' = gets

LEMMA TimeDoes ==
  ASSUME NetTyped, NEW s \in DOMAIN servers, NEW t \in AdminSteps, AdminAddTime(s, t)
  PROVE  \E o : EndsLeases(s, o)
<1>1. t \in Nat /\ Typed(servers[s]) /\ Shape /\ Queues
  BY TimesAssumption DEF NetTyped
<1>2. PICK o \in AddTime(servers[s], t) :
        /\ servers' = [servers EXCEPT ![s] = o.state]
        /\ link' = Sent(link, s, Neighbors(s), o.out)
  BY DEF AdminAddTime
<1>3. /\ Typed(o.state) /\ o.state.offered = servers[s].offered
      /\ o.state.pool[Kept] = servers[s].pool[Kept] /\ o.out \in Seq(NetFrame)
      /\ \E p, n : Ages(servers[s].given, o, p, n)
  BY <1>1, AgingFacts
<1>4. Flows(NoLink, s, Neighbors(s), o.out)
  BY <1>1, <1>2, <1>3, FlowSend
<1> QED
  BY <1>1, <1>2, <1>3, <1>4 DEF AdminAddTime, EndsLeases, client

\* A server handles the first frame of the link from a neighbor.
Serves(s, from, f, o) ==
  /\ s \in DOMAIN servers /\ <<from, s>> \in Links /\ f \in NetFrame /\ f = link[<<from, s>>][1]
  /\ o \in Handle(servers[s], f) /\ servers' = [servers EXCEPT ![s] = o.state]
  /\ Typed(o.state)
  /\ o.out = <<>> \/ \E g \in NetFrame : g.mac = f.mac /\ g.type \in Answer /\ o.out = <<g>>
  /\ Flows(<<from, s>>, s, {from}, o.out)
  /\ acks' = IF o.out # <<>> /\ o.out[1].type = "DHCP_ACK"
             THEN [acks EXCEPT ![f.mac] = @ + 1] ELSE acks
  /\ NewFaults(o.state, servers[s], f)
  /\ current_ip' = current_ip /\ extending' = extending /\ gets' = gets

LEMMA ServeDoes ==
  ASSUME NetTyped, NEW s \in DOMAIN servers, NEW from \in Neighbors(s), ServerStep(s, from)
  PROVE  \E f, o : Serves(s, from, f, o)
<1>1. Typed(servers[s]) /\ Shape /\ Queues
  BY DEF NetTyped
<1>2. <<from, s>> \in Links
  <2>1. <<s, from>> \in Links
    BY NeighborLink
  <2> QED
    BY <1>1, <2>1 DEF Shape, Rev
<1> DEFINE q == link[<<from, s>>]
           f == Head(q)
<1>3. q \in Seq(NetFrame) /\ q # <<>>
  BY <1>1, <1>2 DEF Queues, ServerStep
<1>4. f = q[1] /\ f \in NetFrame
  BY <1>3, TailParts
<1>5. PICK o \in Handle(servers[s], f) :
        /\ servers' = [servers EXCEPT ![s] = o.state]
        /\ link' = Sent(Received(from, s), s, {from}, o.out)
        /\ acks' = IF o.out # <<>> /\ o.out[1].type = "DHCP_ACK"
                   THEN [acks EXCEPT ![f.mac] = @ + 1] ELSE acks
        /\ NewFaults(o.state, servers[s], f)
  BY DEF ServerStep
<1> HIDE DEF f
<1>6. /\ Typed(o.state)
      /\ o.out = <<>> \/ \E g \in NetFrame : g.mac = f.mac /\ g.type \in Answer /\ o.out = <<g>>
  BY <1>1, <1>4, HandleOut
<1>7. o.out \in Seq(NetFrame)
  <2>1. CASE o.out = <<>>
    BY <2>1
  <2>2. ASSUME NEW g \in NetFrame, o.out = <<g>>  PROVE o.out \in Seq(NetFrame)
    BY <2>2, OneFrame
  <2> QED
    BY <1>6, <2>1, <2>2
<1>8. Flows(<<from, s>>, s, {from}, o.out)
  BY <1>1, <1>2, <1>3, <1>5, <1>7, FlowReceive
<1>9. current_ip' = current_ip /\ extending' = extending /\ gets' = gets
  BY DEF ServerStep, client
<1>10. Serves(s, from, f, o)
  BY <1>2, <1>4, <1>5, <1>6, <1>8, <1>9 DEF Serves
<1> QED
  BY <1>10

\* A client handles the first frame of a link.
Takes(c, ip) ==
  /\ current_ip' = [current_ip EXCEPT ![c] = ip]
  /\ faults' = IF c \in extending THEN faults \cup {"overtaken"} ELSE faults

Handles(c, from, f) ==
  /\ <<from, c>> \in Links /\ f \in NetFrame /\ f = link[<<from, c>>][1]
  /\ servers' = servers /\ extending' = extending /\ gets' = gets /\ acks' = acks
  /\ \/ /\ f.mac # c /\ Flows(<<from, c>>, c, Neighbors(c) \ {from}, <<f>>)
        /\ current_ip' = current_ip /\ faults' = faults
     \/ /\ f.mac = c /\ f.type = "DHCP_OFFER" /\ Flows(<<from, c>>, c, {}, <<>>)
        /\ current_ip' = current_ip /\ faults' = faults
     \/ /\ f.mac = c /\ f.type = "DHCP_ACK" /\ Flows(<<from, c>>, c, Neighbors(c) \ {from}, <<f>>)
        /\ Takes(c, f.ip)
     \/ /\ f.mac = c /\ f.type = "DHCP_TIMEOUT" /\ Flows(<<from, c>>, c, {}, <<>>)
        /\ current_ip' = (IF current_ip[c] = f.ip THEN [current_ip EXCEPT ![c] = NoIp] ELSE current_ip)
        /\ faults' = faults
     \/ /\ f.mac = c /\ f.type = "DHCP_RESPONSE_EXTEND" /\ Flows(<<from, c>>, c, {}, <<>>)
        /\ Takes(c, f.ip)

LEMMA HandleDoes ==
  ASSUME NetTyped, NEW c \in Mac, NEW from \in Neighbors(c), ClientStep(c, from)
  PROVE  \E f : Handles(c, from, f)
<1>1. Shape /\ Queues
  BY DEF NetTyped
<1>2. <<from, c>> \in Links
  <2>1. <<c, from>> \in Links
    BY NeighborLink
  <2> QED
    BY <1>1, <2>1 DEF Shape, Rev
<1> DEFINE q == link[<<from, c>>]
           f == Head(q)
<1>3. q \in Seq(NetFrame) /\ q # <<>>
  BY <1>1, <1>2 DEF Queues, ClientStep
<1>4. f = q[1] /\ f \in NetFrame
  BY <1>3, TailParts
<1> DEFINE Rest == UNCHANGED <<servers, extending, left, ended, gets, acks>>
<1>5. /\ Rest
      /\ \/ /\ f.mac # c
            /\ link' = Distribute(c, from, f)
            /\ UNCHANGED <<current_ip, old_IPs, offers, faults>>
         \/ f.mac = c /\ f.type = "DHCP_OFFER" /\ DhcpOffer(c, from, f)
         \/ f.mac = c /\ f.type = "DHCP_ACK" /\ DhcpAck(c, from, f)
         \/ f.mac = c /\ f.type = "DHCP_TIMEOUT" /\ DhcpTimeout(c, from, f)
         \/ f.mac = c /\ f.type = "DHCP_RESPONSE_EXTEND" /\ DhcpExtendResponse(c, from, f)
  BY DEF ClientStep
<1> HIDE DEF f
<1>6. ASSUME link' = Distribute(c, from, f)
      PROVE  Flows(<<from, c>>, c, Neighbors(c) \ {from}, <<f>>)
  BY <1>1, <1>2, <1>3, <1>4, <1>6, OneFrame, FlowReceive DEF Distribute
<1>7. ASSUME link' = Received(from, c)
      PROVE  Flows(<<from, c>>, c, {}, <<>>)
  <2>1. link' = Sent(Received(from, c), c, {}, <<>>)
    BY <1>7 DEF Sent, Received, Queues
  <2>2. <<>> \in Seq(NetFrame)
    OBVIOUS
  <2> QED
    BY <1>1, <1>2, <1>3, <2>1, <2>2, FlowReceive
<1>8. /\ <<from, c>> \in Links /\ f \in NetFrame /\ f = link[<<from, c>>][1]
      /\ servers' = servers /\ extending' = extending /\ gets' = gets /\ acks' = acks
  BY <1>2, <1>4, <1>5
<1>9. ASSUME TakeIp(c, f.ip)  PROVE Takes(c, f.ip)
  BY <1>9 DEF TakeIp, Takes
<1> HIDE DEF q, Rest
<1>10. Handles(c, from, f)
  BY <1>5, <1>6, <1>7, <1>8, <1>9
     DEF Handles, DhcpOffer, DhcpAck, DhcpTimeout, DhcpExtendResponse, TimedOut
<1> QED
  BY <1>10

\* A step of the network is one of these.
NetStep ==
  \/ \E c \in Mac : (\E f : Commands(c, f)) \/ Clears(c)
  \/ \E s \in Server : \E o : EndsLeases(s, o)
  \/ \E s \in Server, from \in Machine : \E f, o : Serves(s, from, f, o)
  \/ \E c \in Mac, from \in Machine : \E f : Handles(c, from, f)

LEMMA NextIsStep ==
  ASSUME NetTyped, NetNext
  PROVE  NetStep
<1>1. ASSUME NEW c \in Mac, Command(c) \/ ExtendLeaseClear(c)  PROVE NetStep
  BY <1>1, CommandDoes, ClearDoes DEF NetStep
<1>2. DOMAIN servers \subseteq Server
  BY DEF NetTyped, Shape
<1>3. ASSUME NEW s \in DOMAIN servers, NEW t \in AdminSteps, AdminAddTime(s, t)  PROVE NetStep
  BY <1>2, <1>3, TimeDoes DEF NetStep
<1>4. ASSUME NEW s \in DOMAIN servers, NEW from \in Machine, from \in Neighbors(s), ServerStep(s, from)
      PROVE  NetStep
  BY <1>2, <1>4, ServeDoes DEF NetStep
<1>5. ASSUME NEW c \in Mac, NEW from \in Machine, from \in Neighbors(c), ClientStep(c, from)
      PROVE  NetStep
  BY <1>5, HandleDoes DEF NetStep
<1> QED
  BY <1>1, <1>3, <1>4, <1>5 DEF NetNext, FrameStep

-----------------------------------------------------------------------------
(* No squatting.                                                            *)

GrantType == {"DHCP_ACK", "DHCP_RESPONSE_EXTEND"}

Leased(m, c, ip) == m \in DOMAIN servers /\ LeaseIn(servers[m].given, c, ip)

\* On link l, behind place i, the end of the lease is on its way.
Ends(l, i, c, ip) ==
  \E j \in 1..Len(link[l]) : j > i /\ Is(link[l][j], "DHCP_TIMEOUT", c, ip)

\* Where l starts there is the lease, or its end is on l.
Holds(l, i, c, ip) == Leased(l[1], c, ip) \/ Ends(l, i, c, ip)

\* A client's lease holds, or its end is on its way to the client.
Covered(c, ip) == \E k \in Links : c \in Reach(k) /\ Holds(k, 0, c, ip)

\* So it is behind place i of link l, on the way that a frame there has come.
Behind(l, i, c, ip) ==
  \E k \in Links :
    /\ c \in Reach(k)
    /\ \/ k = l /\ Holds(k, i, c, ip)
       \/ k[2] \in Reach(Rev(l)) /\ Holds(k, 0, c, ip)

UsersCovered == \A c \in Mac : current_ip[c] # NoIp => Covered(c, current_ip[c])
GrantsCovered ==
  \A l \in Links : \A i \in 1..Len(link[l]) :
    link[l][i].type \in GrantType /\ link[l][i].mac \in Reach(l) =>
      Behind(l, i, link[l][i].mac, link[l][i].ip)

SquatInv == faults \cap {"kept", "crossed"} = {} => UsersCovered /\ GrantsCovered

\* What a step does to leases: one that ends is told to all neighbors.
LeasesStay(got, m, to, out) ==
  \A s \in DOMAIN servers : \A c, ip :
    LeaseIn(servers[s].given, c, ip) =>
      \/ s \in DOMAIN servers' /\ LeaseIn(servers'[s].given, c, ip)
      \/ /\ s = m /\ got = NoLink /\ \A k \in Links : k[1] = m => k[2] \in to
         /\ \E j \in 1..Len(out) : Is(out[j], "DHCP_TIMEOUT", c, ip)

\* What it does with the end of a lease it receives: its client takes it, others hand
\* it on.
EndsHandedOn(got, m, to, out) ==
  got \in Links =>
    /\ got[2] = m
    /\ link[got][1].type = "DHCP_TIMEOUT" /\ link[got][1].mac \in Reach(got) =>
         \/ link[got][1].mac = m
         \/ out = <<link[got][1]>> /\ \A k \in Onward(Links, got) : k[2] \in to

LEMMA SameLinks ==
  ASSUME NEW got, NEW m, NEW to, NEW out, Flows(got, m, to, out)
  PROVE  Links' = Links /\ \A l : Reach(l)' = Reach(l)
BY DEF Flows, Links, Reach

LEMMA HoldsKept ==
  ASSUME NetTyped, NEW got, NEW m, NEW to, NEW out, Flows(got, m, to, out),
         LeasesStay(got, m, to, out), EndsHandedOn(got, m, to, out),
         NEW k \in Links, NEW i \in 0..Len(link[k]), NEW c, NEW ip,
         c \in Reach(k), Holds(k, i, c, ip)
  PROVE  \/ Holds(k, IF i = 0 THEN 0 ELSE i - Dropped(k, got), c, ip)'
         \/ /\ k = got /\ i = 0 /\ Is(link[got][1], "DHCP_TIMEOUT", c, ip)
            /\ \/ c = m
               \/ \E k2 \in Onward(Links, got) : c \in Reach(k2) /\ Holds(k2, 0, c, ip)'
                    /\ \A h \in 0..Len(link[k2]) : Ends(k2, h, c, ip)'
<1> DEFINE i2 == IF i = 0 THEN 0 ELSE i - Dropped(k, got)
<1>0. Shape /\ Queues
  BY DEF NetTyped
<1>1. /\ Len(link[k]) \in Nat /\ Len(link'[k]) \in Nat /\ Dropped(k, got) \in {0, 1}
      /\ got # k => Dropped(k, got) = 0
  BY <1>0, FlowLengths DEF Dropped
<1>2. i \in Nat /\ i <= Len(link[k]) /\ i2 \in Int /\ i2 <= i
  BY <1>1
<1>3. ASSUME Leased(k[1], c, ip), ~Leased(k[1], c, ip)'
      PROVE  Ends(k, i2, c, ip)'
  <2>1. PICK j \in 1..Len(out) : Is(out[j], "DHCP_TIMEOUT", c, ip)
    BY <1>3 DEF Leased, LeasesStay
  <2>2. k[1] = m /\ k[2] \in to /\ got = NoLink
    BY <1>3 DEF Leased, LeasesStay
  <2>3. Dropped(k, got) = 0
    BY <1>0, <1>1, <2>2, NoLinkIs
  <2>4. /\ Len(link[k]) - Dropped(k, got) + j \in 1..Len(link'[k])
        /\ link'[k][Len(link[k]) - Dropped(k, got) + j] = out[j]
    BY <1>0, <2>2, PutPlace
  <2>5. Len(link[k]) + j > i2 /\ Len(link[k]) - 0 + j = Len(link[k]) + j
    BY <1>1, <1>2
  <2> HIDE DEF i2
  <2> QED
    BY <2>1, <2>3, <2>4, <2>5 DEF Ends
<1>4. ASSUME Ends(k, i, c, ip)
      PROVE  \/ Ends(k, i2, c, ip)'
             \/ k = got /\ i = 0 /\ Is(link[got][1], "DHCP_TIMEOUT", c, ip)
  <2>1. PICK j \in 1..Len(link[k]) : j > i /\ Is(link[k][j], "DHCP_TIMEOUT", c, ip)
    BY <1>4 DEF Ends
  <2>2. CASE ~(k = got /\ j = 1)
    <3>1. /\ j - Dropped(k, got) \in 1..Len(link'[k])
          /\ link'[k][j - Dropped(k, got)] = link[k][j]
      BY <1>0, <2>2, OldPlace
    <3>2. j - Dropped(k, got) > i2
      BY <1>1, <1>2, <2>1, <3>1
    <3> HIDE DEF i2
    <3> QED
      BY <2>1, <3>1, <3>2 DEF Ends
  <2>3. CASE k = got /\ j = 1
    BY <1>2, <2>1, <2>3
  <2> QED
    BY <2>2, <2>3
<1>5. ASSUME k = got, Is(link[got][1], "DHCP_TIMEOUT", c, ip), c # m
      PROVE  \E k2 \in Onward(Links, got) : c \in Reach(k2) /\ Holds(k2, 0, c, ip)'
               /\ \A h \in 0..Len(link[k2]) : Ends(k2, h, c, ip)'
  <2>1. got[2] = m /\ out = <<link[got][1]>> /\ \A k2 \in Onward(Links, got) : k2[2] \in to
    BY <1>5 DEF EndsHandedOn, Is
  <2>2. PICK k2 \in Onward(Links, got) : c \in Reach(k2)
    BY <1>0, <1>5, <2>1, ReachNext
  <2>3. k2 \in Links /\ k2[1] = m /\ k2[2] \in to /\ k2 # got
    <3>1. k2 \in Links /\ k2[1] = got[2] /\ got[2] \in Reach(got)
      BY <1>0, <1>5, ReachOnward, ReachEnd
    <3>2. got[1] # got[2]
      BY <1>0, <1>5, <3>1, ReachApart
    <3> QED
      BY <2>1, <3>1, <3>2
  <2>4. 1 \in 1..Len(out) /\ out[1] = link[got][1]
    BY <2>1
  <2>5. Dropped(k2, got) = 0 /\ Len(link[k2]) \in Nat
    BY <1>0, <2>3, FlowLengths DEF Dropped
  <2>6. /\ Len(link[k2]) + 1 \in 1..Len(link'[k2])
        /\ link'[k2][Len(link[k2]) + 1] = out[1]
    <3>1. /\ Len(link[k2]) - Dropped(k2, got) + 1 \in 1..Len(link'[k2])
          /\ link'[k2][Len(link[k2]) - Dropped(k2, got) + 1] = out[1]
      BY <1>0, <2>3, <2>4, PutPlace
    <3> QED
      BY <2>5, <3>1
  <2>7. \A h \in 0..Len(link[k2]) : Ends(k2, h, c, ip)'
    <3> TAKE h \in 0..Len(link[k2])
    <3>1. Len(link[k2]) + 1 > h
      BY <2>5
    <3> QED
      BY <1>5, <2>4, <2>6, <3>1 DEF Ends
  <2>8. Ends(k2, 0, c, ip)'
    BY <2>5, <2>7
  <2> QED
    BY <2>2, <2>7, <2>8 DEF Holds
<1> HIDE DEF i2
<1>6. Leased(k[1], c, ip) \/ Ends(k, i, c, ip)
  BY DEF Holds
<1>7. Holds(k, i2, c, ip)' \/ (k = got /\ i = 0 /\ Is(link[got][1], "DHCP_TIMEOUT", c, ip))
  BY <1>3, <1>4, <1>6 DEF Holds
<1> QED
  BY <1>5, <1>7 DEF i2

LEMMA CoveredKept ==
  ASSUME NetTyped, NEW got, NEW m, NEW to, NEW out, Flows(got, m, to, out),
         LeasesStay(got, m, to, out), EndsHandedOn(got, m, to, out),
         NEW c, NEW ip, Covered(c, ip)
  PROVE  Covered(c, ip)' \/ (got \in Links /\ c = m /\ Is(link[got][1], "DHCP_TIMEOUT", c, ip))
<1>1. PICK k \in Links : c \in Reach(k) /\ Holds(k, 0, c, ip)
  BY DEF Covered
<1>2. 0 \in 0..Len(link[k])
  BY FlowLengths DEF NetTyped
<1>3. Links' = Links /\ \A l : Reach(l)' = Reach(l)
  BY SameLinks
<1>4. \/ Holds(k, 0, c, ip)'
      \/ /\ k = got /\ Is(link[got][1], "DHCP_TIMEOUT", c, ip)
         /\ c = m \/ \E k2 \in Onward(Links, got) : c \in Reach(k2) /\ Holds(k2, 0, c, ip)'
  BY <1>1, <1>2, HoldsKept
<1>5. \A k2 \in Onward(Links, got) : k2 \in Links
  BY DEF Onward
<1> QED
  BY <1>1, <1>3, <1>4, <1>5 DEF Covered

LEMMA BehindKept ==
  ASSUME NetTyped, NEW got, NEW m, NEW to, NEW out, Flows(got, m, to, out),
         LeasesStay(got, m, to, out), EndsHandedOn(got, m, to, out),
         NEW l \in Links, NEW i \in 1..Len(link[l]), ~(l = got /\ i = 1),
         NEW c, NEW ip, c \in Reach(l), Behind(l, i, c, ip)
  PROVE  Behind(l, i - Dropped(l, got), c, ip)'
<1>0. Shape /\ Queues
  BY DEF NetTyped
<1>1. Links' = Links /\ \A k : Reach(k)' = Reach(k)
  BY SameLinks
<1>2. i \in 0..Len(link[l]) /\ i # 0
  BY <1>0, FlowLengths
<1>3. CASE Holds(l, i, c, ip)
  <2>1. Holds(l, i - Dropped(l, got), c, ip)'
    BY <1>2, <1>3, HoldsKept
  <2> QED
    BY <1>1, <2>1 DEF Behind
<1>4. ASSUME NEW k \in Links, c \in Reach(k), k[2] \in Reach(Rev(l)), Holds(k, 0, c, ip)
      PROVE  Behind(l, i - Dropped(l, got), c, ip)'
  <2>1. 0 \in 0..Len(link[k])
    BY <1>0, FlowLengths
  <2>2. CASE Holds(k, 0, c, ip)'
    BY <1>1, <1>4, <2>2 DEF Behind
  <2>3. CASE k = got /\ c = m
    <3>1. c = k[2]
      BY <2>3 DEF EndsHandedOn
    <3> QED
      BY <1>0, <1>4, <3>1, ReachApart
  <2>4. ASSUME k = got, NEW k2 \in Onward(Links, got), c \in Reach(k2), Holds(k2, 0, c, ip)',
               \A h \in 0..Len(link[k2]) : Ends(k2, h, c, ip)'
        PROVE  Behind(l, i - Dropped(l, got), c, ip)'
    <3>1. k2 \in Links /\ k2[1] = k[2] /\ k2[1] \in Mac /\ k2[1] # k[1] /\ k2[2] # k[1]
      <4>1. k2 \in Links /\ k2[1] = k[2] /\ k2[1] \in Mac /\ k2[2] # k[1]
        BY <2>4 DEF Onward
      <4>2. k[2] \in Reach(k)
        BY <1>0, ReachEnd
      <4> QED
        BY <1>0, <4>1, <4>2, ReachApart
    <3>2. Rev(l) \in Links /\ Rev(Rev(l)) = l
      BY <1>0, LinkPairs
    <3>3. k2[2] \in Reach(Rev(l)) \/ k2 = l
      BY <1>0, <1>4, <3>1, <3>2, ReachClosed
    <3>4. CASE k2[2] \in Reach(Rev(l))
      BY <1>1, <2>4, <3>1, <3>4 DEF Behind
    <3>5. CASE k2 = l
      <4>1. l # got
        BY <2>4, <3>1, <3>5
      <4>2. i - Dropped(l, got) = i
        BY <1>0, <4>1, FlowLengths DEF Dropped
      <4>3. Holds(l, i, c, ip)'
        BY <1>2, <2>4, <3>5 DEF Holds
      <4>4. Behind(l, i, c, ip)'
        BY <1>1, <1>4, <3>5, <4>3, <2>4 DEF Behind
      <4> QED
        BY <4>2, <4>4
    <3> QED
      BY <3>3, <3>4, <3>5
  <2> QED
    BY <1>4, <2>1, <2>2, <2>3, <2>4, HoldsKept
<1> QED
  BY <1>3, <1>4 DEF Behind

\* The same of a grant that is handed on from got to l: what is behind it stays so.
LEMMA BehindMoved ==
  ASSUME NetTyped, NEW got \in Links, NEW m, NEW to, NEW out, Flows(got, m, to, out),
         LeasesStay(got, m, to, out), EndsHandedOn(got, m, to, out),
         link[got][1].type \in GrantType,
         NEW l \in Onward(Links, got), NEW i, NEW c, NEW ip, Behind(got, 1, c, ip)
  PROVE  Behind(l, i, c, ip)'
<1>0. Shape /\ Queues
  BY DEF NetTyped
<1>1. Links' = Links /\ \A k : Reach(k)' = Reach(k)
  BY SameLinks
<1>2. /\ l \in Links /\ Reach(Rev(got)) \subseteq Reach(Rev(l)) /\ got[2] \in Reach(Rev(l))
  BY <1>0, ReachOnward
<1>3. ~Is(link[got][1], "DHCP_TIMEOUT", c, ip)
  BY DEF Is, GrantType
<1>4. 1 \in 0..Len(link[got]) /\ Dropped(got, got) = 1
  <2>1. Len(link[got]) \in Nat /\ Len(link[got]) > 0
    BY <1>0, FlowLengths
  <2> QED
    BY <2>1 DEF Dropped
<1>5. CASE c \in Reach(got) /\ Holds(got, 1, c, ip)
  <2>1. Holds(got, 1 - 1, c, ip)'
    BY <1>3, <1>4, <1>5, HoldsKept
  <2> QED
    BY <1>1, <1>2, <1>5, <2>1 DEF Behind
<1>6. ASSUME NEW k \in Links, c \in Reach(k), k[2] \in Reach(Rev(got)), Holds(k, 0, c, ip)
      PROVE  Behind(l, i, c, ip)'
  <2>1. 0 \in 0..Len(link[k])
    BY <1>0, FlowLengths
  <2>2. Holds(k, 0, c, ip)'
    BY <1>3, <1>6, <2>1, HoldsKept
  <2> QED
    BY <1>1, <1>2, <1>6, <2>2 DEF Behind
<1> QED
  BY <1>5, <1>6 DEF Behind

\* And of a grant that its client takes.
LEMMA BehindTaken ==
  ASSUME NetTyped, NEW got \in Links, NEW m, NEW to, NEW out, Flows(got, m, to, out),
         LeasesStay(got, m, to, out), EndsHandedOn(got, m, to, out),
         link[got][1].type \in GrantType, NEW c, NEW ip, Behind(got, 1, c, ip)
  PROVE  Covered(c, ip)'
<1>0. Shape /\ Queues
  BY DEF NetTyped
<1>1. Links' = Links /\ \A k : Reach(k)' = Reach(k)
  BY SameLinks
<1>2. ~Is(link[got][1], "DHCP_TIMEOUT", c, ip)
  BY DEF Is, GrantType
<1>3. 1 \in 0..Len(link[got]) /\ Dropped(got, got) = 1
  <2>1. Len(link[got]) \in Nat /\ Len(link[got]) > 0
    BY <1>0, FlowLengths
  <2> QED
    BY <2>1 DEF Dropped
<1>4. CASE c \in Reach(got) /\ Holds(got, 1, c, ip)
  <2>1. Holds(got, 1 - 1, c, ip)'
    BY <1>2, <1>3, <1>4, HoldsKept
  <2> QED
    BY <1>1, <1>4, <2>1 DEF Covered
<1>5. ASSUME NEW k \in Links, c \in Reach(k), k[2] \in Reach(Rev(got)), Holds(k, 0, c, ip)
      PROVE  Covered(c, ip)'
  <2>1. 0 \in 0..Len(link[k])
    BY <1>0, FlowLengths
  <2>2. Holds(k, 0, c, ip)'
    BY <1>2, <1>5, <2>1, HoldsKept
  <2> QED
    BY <1>1, <1>5, <2>2 DEF Covered
<1> QED
  BY <1>4, <1>5 DEF Behind

\* The frames and the types stay what they are.
LEMMA FlowShape ==
  ASSUME Shape, NEW got, NEW m, NEW to, NEW out, Flows(got, m, to, out),
         DOMAIN servers' = DOMAIN servers
  PROVE  Shape' /\ Queues'
<1>1. Links' = Links /\ link' \in [Links -> Seq(NetFrame)]
  BY DEF Flows, Links
<1>2. NoCycle(Links)'
  BY <1>1 DEF Shape
<1> QED
  BY <1>1, <1>2 DEF Shape, Queues

LEMMA ServerTyped ==
  ASSUME NetTyped, NEW s \in DOMAIN servers, NEW t, Typed(t), servers' = [servers EXCEPT ![s] = t]
  PROVE  /\ DOMAIN servers' = DOMAIN servers
         /\ servers' = [r \in DOMAIN servers' |-> servers'[r]]
         /\ \A r \in DOMAIN servers' : Typed(servers'[r])
         /\ \A r \in DOMAIN servers : servers'[r] = IF r = s THEN t ELSE servers[r]
<1>1. servers = [r \in DOMAIN servers |-> servers[r]] /\ \A r \in DOMAIN servers : Typed(servers[r])
  BY DEF NetTyped
<1>2. servers' = [r \in DOMAIN servers |-> IF r = s THEN t ELSE servers[r]]
  BY <1>1
<1>3. \A r \in DOMAIN servers : servers'[r] = IF r = s THEN t ELSE servers[r]
  BY <1>2
<1>4. DOMAIN servers' = DOMAIN servers
  BY <1>2
<1> QED
  BY <1>1, <1>2, <1>3, <1>4

LEMMA TypedKept == NetTyped /\ NetStep => NetTyped'
<1> SUFFICES ASSUME NetTyped, NetStep PROVE NetTyped'
  OBVIOUS
<1> DEFINE History == /\ current_ip' \in [Mac -> AnyIp] /\ extending' \subseteq Mac
                      /\ acks' \in [Mac -> Nat] /\ gets' \in Nat
                      /\ faults' \subseteq {"kept", "crossed", "overtaken"}
<1>0. /\ Shape /\ Queues /\ current_ip \in [Mac -> AnyIp] /\ extending \subseteq Mac
      /\ acks \in [Mac -> Nat] /\ gets \in Nat /\ faults \subseteq {"kept", "crossed", "overtaken"}
      /\ NoIp \in AnyIp
  BY DEF NetTyped, AnyIp
<1>1. ASSUME servers' = servers, History, NEW got, NEW m, NEW to, NEW out, Flows(got, m, to, out)
      PROVE  NetTyped'
  BY <1>0, <1>1, FlowShape DEF NetTyped
<1>2. ASSUME NEW s \in DOMAIN servers, NEW t, Typed(t), servers' = [servers EXCEPT ![s] = t],
             History, NEW got, NEW m, NEW to, NEW out, Flows(got, m, to, out)
      PROVE  NetTyped'
  BY <1>0, <1>2, FlowShape, ServerTyped DEF NetTyped
<1>3. ASSUME NEW c \in Mac, NEW f, Commands(c, f)  PROVE NetTyped'
  <2>1. History
    BY <1>0, <1>3 DEF Commands
  <2> HIDE DEF History
  <2> QED
    BY <1>1, <1>3, <2>1 DEF Commands
<1>4. ASSUME NEW c \in Mac, Clears(c)  PROVE NetTyped'
  <2>1. History
    BY <1>0, <1>4 DEF Clears
  <2> HIDE DEF History
  <2> QED
    BY <1>1, <1>4, <2>1 DEF Clears
<1>5. ASSUME NEW s \in Server, NEW o, EndsLeases(s, o)  PROVE NetTyped'
  <2>1. History
    BY <1>0, <1>5 DEF EndsLeases
  <2> HIDE DEF History
  <2> QED
    BY <1>2, <1>5, <2>1 DEF EndsLeases
<1>6. ASSUME NEW s \in Server, NEW from \in Machine, NEW f, NEW o, Serves(s, from, f, o)
      PROVE  NetTyped'
  <2>1. f.mac \in Mac
    BY <1>6 DEF Serves, NetFrame
  <2>2. acks' \in [Mac -> Nat]
    BY <1>0, <1>6, <2>1 DEF Serves
  <2>3. faults' \subseteq {"kept", "crossed", "overtaken"}
    BY <1>0, <1>6 DEF Serves, NewFaults
  <2>4. History
    BY <1>0, <1>6, <2>2, <2>3 DEF Serves
  <2> HIDE DEF History
  <2> QED
    BY <1>2, <1>6, <2>4 DEF Serves
<1>7. ASSUME NEW c \in Mac, NEW from \in Machine, NEW f, Handles(c, from, f)  PROVE NetTyped'
  <2>1. f.ip \in AnyIp
    BY <1>7 DEF Handles, NetFrame
  <2>2. ASSUME Takes(c, f.ip)
        PROVE  current_ip' \in [Mac -> AnyIp] /\ faults' \subseteq {"kept", "crossed", "overtaken"}
    BY <1>0, <2>1, <2>2 DEF Takes
  <2>3. current_ip' \in [Mac -> AnyIp] /\ faults' \subseteq {"kept", "crossed", "overtaken"}
    BY <1>0, <1>7, <2>2 DEF Handles
  <2>4. History
    BY <1>0, <1>7, <2>3 DEF Handles
  <2>5. servers' = servers /\ \E got, m, to, out : Flows(got, m, to, out)
    BY <1>7 DEF Handles
  <2> HIDE DEF History
  <2> QED
    BY <1>1, <2>4, <2>5
<1> QED
  BY <1>3, <1>4, <1>5, <1>6, <1>7 DEF NetStep

\* What the handlers do with the leases, while nothing has gone wrong.
LEMMA LeaseAppend ==
  ASSUME NEW G \in Seq(Grant), NEW x \in Grant
  PROVE  /\ \A c, ip : LeaseIn(G, c, ip) => LeaseIn(Append(G, x), c, ip)
         /\ LeaseIn(Append(G, x), x.mac, x.ip)
<1> DEFINE H == Append(G, x)
           n == Len(G)
<1>1. n \in Nat /\ Len(H) = n + 1 /\ H[n + 1] = x /\ \A i \in 1..n : H[i] = G[i]
  OBVIOUS
<1> HIDE DEF H, n
<1>2. n + 1 \in 1..Len(H) /\ \A i \in 1..n : i \in 1..Len(H)
  BY <1>1
<1>3. LeaseIn(H, x.mac, x.ip)
  BY <1>1, <1>2 DEF LeaseIn
<1>4. ASSUME NEW c, NEW ip, LeaseIn(G, c, ip)  PROVE LeaseIn(H, c, ip)
  BY <1>1, <1>2, <1>4 DEF LeaseIn, n
<1> QED
  BY <1>3, <1>4 DEF H

LEMMA LeaseMoved ==
  ASSUME NEW G \in Seq(Grant), NEW i \in 1..Len(G), NEW x \in Grant,
         G[i].ip = x.ip, G[i].mac = x.mac,
         NEW c, NEW ip, LeaseIn(G, c, ip)
  PROVE  LeaseIn(Append(Without(G, i), x), c, ip)
<1> DEFINE H == Without(G, i)
           n == Len(G)
<1>1. n \in Nat /\ H \in Seq(Grant) /\ Len(H) = n - 1
      /\ \A k \in 1..(n - 1) : H[k] = IF k < i THEN G[k] ELSE G[k + 1]
  BY WithoutElements
<1>2. PICK k \in 1..n : G[k].ip = ip /\ G[k].mac = c
  BY DEF LeaseIn
<1>3. CASE k = i
  <2> HIDE DEF H
  <2>1. c = x.mac /\ ip = x.ip
    BY <1>2, <1>3
  <2>2. LeaseIn(Append(H, x), x.mac, x.ip)
    BY <1>1, LeaseAppend
  <2> QED
    BY <2>1, <2>2 DEF H
<1>4. CASE k # i
  <2> HIDE DEF H
  <2>1. \E h \in 1..(n - 1) : H[h] = G[k]
    <3>1. CASE k < i
      BY <1>1, <1>2, <3>1
    <3>2. CASE k > i
      <4>1. k - 1 \in 1..(n - 1) /\ ~(k - 1 < i) /\ (k - 1) + 1 = k
        BY <1>1, <1>2, <3>2
      <4> QED
        BY <1>1, <4>1
    <3> QED
      BY <1>2, <1>4, <3>1, <3>2
  <2>2. LeaseIn(H, c, ip)
    BY <1>1, <1>2, <2>1 DEF LeaseIn
  <2>3. LeaseIn(Append(H, x), c, ip)
    BY <1>1, <2>2, LeaseAppend
  <2> QED
    BY <2>3 DEF H
<1> QED
  BY <1>3, <1>4

Crosses(s, f) ==
  f.type \in {"DHCP_RELEASE", "DHCP_REQUEST_EXTEND"} /\ \E i \in Lease(s, f.ip) : s.given[i].mac # f.mac

\* A handler keeps all leases, and a client that it grants an address has the lease.
LEMMA HandleLeases ==
  ASSUME NEW s, Typed(s), NEW f \in NetFrame, NEW o \in Handle(s, f), o.state.pool[Kept] = 0,
         ~Crosses(s, f)
  PROVE  /\ \A c, ip : LeaseIn(s.given, c, ip) => LeaseIn(o.state.given, c, ip)
         /\ \A j \in 1..Len(o.out) :
              /\ o.out[j].type # "DHCP_TIMEOUT"
              /\ o.out[j].type \in GrantType =>
                   /\ o.out[j].mac = f.mac /\ o.out[j].ip = f.ip
                   /\ LeaseIn(o.state.given, f.mac, f.ip)
<1> DEFINE G == s.given
           Kept1 == \A c, ip : LeaseIn(G, c, ip) => LeaseIn(o.state.given, c, ip)
           Said == \A j \in 1..Len(o.out) :
              /\ o.out[j].type # "DHCP_TIMEOUT"
              /\ o.out[j].type \in GrantType =>
                   /\ o.out[j].mac = f.mac /\ o.out[j].ip = f.ip
                   /\ LeaseIn(o.state.given, f.mac, f.ip)
<1>1. f.ip \in AnyIp /\ f.mac \in Mac /\ f.time \in Time /\ Asked(f.time) \in Time
  BY TimeTypes DEF NetFrame
<1>2. G \in Seq(Grant)
  BY DEF Typed
<1>3. ASSUME NEW g, o.out = <<g>>, g.type # "DHCP_TIMEOUT",
             g.type \in GrantType => g.mac = f.mac /\ g.ip = f.ip /\ LeaseIn(o.state.given, f.mac, f.ip)
      PROVE  Said
  <2>1. \A j \in 1..Len(o.out) : o.out[j] = g
    BY <1>3
  <2> QED
    BY <1>3, <2>1
<1>4. ASSUME Silent(G, o)  PROVE Kept1 /\ Said
  <2>1. Kept1
    BY <1>4 DEF Silent
  <2>2. CASE o.out = <<>>
    <3>1. 1..Len(o.out) = {}
      BY <2>2
    <3> QED
      BY <2>1, <3>1
  <2>3. ASSUME NEW a, NEW m, NEW t, o.out = <<Frame("DHCP_OFFER", m, a, t)>>  PROVE Said
    <3> DEFINE g == Frame("DHCP_OFFER", m, a, t)
    <3>1. g.type = "DHCP_OFFER"
      BY DEF Frame
    <3>2. o.out = <<g>>
      BY <2>3
    <3>3. g.type # "DHCP_TIMEOUT" /\ g.type \notin GrantType
      BY <3>1 DEF GrantType
    <3> HIDE DEF g, Said
    <3> QED
      BY <1>3, <3>2, <3>3
  <2> HIDE DEF Said, Kept1
  <2> QED
    BY <1>4, <2>1, <2>2, <2>3 DEF Silent
<1>5. ASSUME Grants(s.offered, G, f, o)  PROVE Kept1 /\ Said
  <2> DEFINE g == Frame("DHCP_ACK", f.mac, f.ip, Asked(f.time))
             x == Granting(f)
  <2>1. x \in Grant /\ x.mac = f.mac /\ x.ip = f.ip
    BY <1>1 DEF Granting, Grant
  <2>2. o.state.given = Append(G, x) /\ o.out = <<g>>
    BY <1>5 DEF Grants
  <2> HIDE DEF x, G
  <2>3. Kept1 /\ LeaseIn(o.state.given, f.mac, f.ip)
    BY <1>2, <2>1, <2>2, LeaseAppend
  <2>4. g.type = "DHCP_ACK" /\ g.mac = f.mac /\ g.ip = f.ip
    BY DEF Frame
  <2>5. g.type # "DHCP_TIMEOUT"
    BY <2>4
  <2> HIDE DEF g, Said, Kept1
  <2> QED
    BY <1>3, <2>2, <2>3, <2>4, <2>5
<1>6. ASSUME f.type = "DHCP_REQUEST_EXTEND", NEW i \in Lease(s, f.ip), Extends(G, i, f, o)
      PROVE  Kept1 /\ Said
  <2> DEFINE time == Longer(G[i].time, f.time)
             g == Frame("DHCP_RESPONSE_EXTEND", f.mac, f.ip, time)
             x == Extending(f, f.ip, time)
  <2>1. /\ i \in 1..Len(G) /\ G[i].ip = f.ip /\ o.state.given = Append(Without(G, i), x)
        /\ o.out = <<g>>
    BY <1>6 DEF Extends
  <2>2. G[i].mac = f.mac
    BY <1>6 DEF Crosses
  <2>3. time \in Time
    <3>1. G[i] \in Grant
      BY <1>2, <2>1
    <3> QED
      BY <1>1, <3>1, TimeTypes DEF Grant
  <2>4. x \in Grant /\ x.mac = f.mac /\ x.ip = f.ip
    <3> HIDE DEF time
    <3> QED
      BY <1>1, <2>3 DEF Extending, Grant
  <2>5. g.type = "DHCP_RESPONSE_EXTEND" /\ g.mac = f.mac /\ g.ip = f.ip
    BY DEF Frame
  <2> HIDE DEF x, g, G, time
  <2>6. \A c, ip : LeaseIn(G, c, ip) => LeaseIn(o.state.given, c, ip)
    BY <1>2, <2>1, <2>2, <2>4, LeaseMoved
  <2>7. LeaseIn(o.state.given, f.mac, f.ip)
    <3>1. LeaseIn(G, f.mac, f.ip)
      BY <2>1, <2>2 DEF LeaseIn
    <3> QED
      BY <2>6, <3>1
  <2>8. g.type # "DHCP_TIMEOUT"
    BY <2>5
  <2> HIDE DEF Said
  <2>9. Said
    BY <1>3, <2>1, <2>5, <2>7, <2>8
  <2> QED
    BY <2>6, <2>9
<1> HIDE DEF Said, Kept1
<1>7. Kept1 /\ Said
  BY <1>1, <1>4, <1>5, <1>6, HandleAnswer DEF G
<1> QED
  BY <1>7 DEF Kept1, Said

-----------------------------------------------------------------------------
\* The grants among the frames m sends are covered.
SentCovered(m, to, out) ==
  \A l \in Links : l[1] = m /\ l[2] \in to => \A j \in 1..Len(out) :
    out[j].type \in GrantType /\ out[j].mac \in Reach(l) =>
      \A i : Behind(l, i, out[j].mac, out[j].ip)

\* New frames apart, every grant stays covered, and every user whose address stays.
LEMMA GrantsKept ==
  ASSUME NetTyped, GrantsCovered, NEW got, NEW m, NEW to, NEW out, Flows(got, m, to, out),
         LeasesStay(got, m, to, out), EndsHandedOn(got, m, to, out), SentCovered(m, to, out)'
  PROVE  GrantsCovered'
<1>0. Shape /\ Queues
  BY DEF NetTyped
<1>1. Links' = Links /\ \A k : Reach(k)' = Reach(k)
  BY SameLinks
<1>2. ASSUME NEW l \in Links, NEW i \in 1..Len(link'[l]),
             link'[l][i].type \in GrantType, link'[l][i].mac \in Reach(l),
             NEW c, NEW ip, c = link'[l][i].mac, ip = link'[l][i].ip
      PROVE  Behind(l, i, c, ip)'
  <2>1. ASSUME NEW h \in 1..Len(link[l]), i = h - Dropped(l, got), ~(l = got /\ h = 1),
               link'[l][i] = link[l][h]
        PROVE  Behind(l, i, c, ip)'
    <3>1. Behind(l, h, c, ip) /\ c \in Reach(l)
      BY <1>2, <2>1 DEF GrantsCovered
    <3>2. Behind(l, h - Dropped(l, got), c, ip)'
      BY <2>1, <3>1, BehindKept
    <3> QED
      BY <2>1, <3>2
  <2>2. ASSUME l[1] = m, l[2] \in to, NEW j \in 1..Len(out), link'[l][i] = out[j]
        PROVE  Behind(l, i, c, ip)'
    <3>1. \A h : Behind(l, h, out[j].mac, out[j].ip)'
      BY <1>1, <1>2, <2>2 DEF SentCovered
    <3>2. \A d, a : d = out[j].mac /\ a = out[j].ip => Behind(l, i, d, a)'
      BY <3>1
    <3> QED
      BY <1>2, <2>2, <3>2
  <2> QED
    BY <1>0, <2>1, <2>2, NewPlace
<1>3. \A l \in Links : \A i \in 1..Len(link'[l]) :
        link'[l][i].type \in GrantType /\ link'[l][i].mac \in Reach(l) =>
          Behind(l, i, link[l][i].mac, link[l][i].ip)'
  <2> TAKE l \in Links
  <2> TAKE i \in 1..Len(link'[l])
  <2> HAVE link'[l][i].type \in GrantType /\ link'[l][i].mac \in Reach(l)
  <2>1. \A c, ip : c = link'[l][i].mac /\ ip = link'[l][i].ip => Behind(l, i, c, ip)'
    BY <1>2
  <2> QED
    BY <2>1
<1> QED
  BY <1>1, <1>3 DEF GrantsCovered

\* Client c takes a timeout about the address.
TimeoutTaken(got, m, c, ip) == got \in Links /\ c = m /\ Is(link[got][1], "DHCP_TIMEOUT", c, ip)

LEMMA UsersKept ==
  ASSUME NetTyped, UsersCovered, NEW got, NEW m, NEW to, NEW out, Flows(got, m, to, out),
         LeasesStay(got, m, to, out), EndsHandedOn(got, m, to, out),
         \A c \in Mac : \A ip : ip = current_ip'[c] /\ ip # NoIp =>
           Covered(c, ip)' \/ (ip = current_ip[c] /\ ~TimeoutTaken(got, m, c, ip))
  PROVE  UsersCovered'
<1>1. ASSUME NEW c \in Mac, NEW ip, ip = current_ip'[c], ip # NoIp  PROVE Covered(c, ip)'
  <2>1. CASE ip = current_ip[c] /\ ~TimeoutTaken(got, m, c, ip)
    <3>1. Covered(c, ip)
      BY <1>1, <2>1 DEF UsersCovered
    <3> QED
      BY <2>1, <3>1, CoveredKept DEF TimeoutTaken
  <2> QED
    BY <1>1, <2>1
<1>2. \A c \in Mac : current_ip'[c] # NoIp => Covered(c, current_ip[c])'
  BY <1>1
<1> QED
  BY <1>2 DEF UsersCovered

\* The faults of the condition, which only grow.
Sound == faults \cap {"kept", "crossed"} = {}

LEMMA SoundBefore == NetTyped /\ NetStep /\ Sound' => Sound
<1> SUFFICES ASSUME NetStep, Sound' PROVE Sound
  OBVIOUS
<1>1. ASSUME NEW c \in Mac, NEW from, NEW f, Commands(c, f) \/ Clears(c) \/ Handles(c, from, f)
      PROVE  faults \subseteq faults'
  BY <1>1 DEF Commands, Clears, Handles, Takes
<1>2. ASSUME NEW s, NEW from, NEW f, NEW o, EndsLeases(s, o) \/ Serves(s, from, f, o)
      PROVE  faults \subseteq faults'
  BY <1>2 DEF EndsLeases, Serves, NewFaults
<1>3. faults \subseteq faults'
  BY <1>1, <1>2 DEF NetStep
<1> QED
  BY <1>3 DEF Sound

\* While nothing goes wrong a server keeps what it has, and says no timeouts.
LEMMA ServesSound ==
  ASSUME NetTyped, NEW s \in Server, NEW from \in Machine, NEW f, NEW o, Serves(s, from, f, o), Sound'
  PROVE  /\ \A c, ip : LeaseIn(servers[s].given, c, ip) => LeaseIn(o.state.given, c, ip)
         /\ \A j \in 1..Len(o.out) :
              /\ o.out[j].type # "DHCP_TIMEOUT"
              /\ o.out[j].type \in GrantType =>
                   /\ o.out[j].mac = f.mac /\ o.out[j].ip = f.ip
                   /\ LeaseIn(o.state.given, f.mac, f.ip)
<1>1. Typed(servers[s]) /\ f \in NetFrame /\ o \in Handle(servers[s], f) /\ Typed(o.state)
  BY DEF Serves, NetTyped
<1>2. o.state.pool[Kept] = 0
  <2>1. o.state.pool[Kept] \in Nat
    BY <1>1, KeptNoAddress DEF Typed
  <2>2. ~(o.state.pool[Kept] > 0)
    BY DEF Serves, NewFaults, Sound
  <2> QED
    BY <2>1, <2>2
<1>3. ~Crosses(servers[s], f)
  BY DEF Serves, NewFaults, Sound, Crosses
<1> QED
  BY <1>1, <1>2, <1>3, HandleLeases

LEMMA SquatCommands ==
  ASSUME NetTyped, UsersCovered, GrantsCovered, NEW c \in Mac, (\E f : Commands(c, f)) \/ Clears(c)
  PROVE  UsersCovered' /\ GrantsCovered'
<1>0. Shape /\ Queues /\ current_ip \in [Mac -> AnyIp]
  BY DEF NetTyped
<1>1. PICK to, out : /\ Flows(NoLink, c, to, out)
                     /\ \A j \in 1..Len(out) : out[j].type \notin GrantType
  <2>1. ASSUME NEW f, Commands(c, f)  PROVE \A j \in 1..Len(<<f>>) : <<f>>[j].type \notin GrantType
    <3>1. f.type \notin GrantType
      BY <2>1 DEF Commands, GrantType
    <3>2. f \in NetFrame
      BY <2>1 DEF Commands
    <3> QED
      BY <3>1, <3>2
  <2>2. ASSUME Clears(c)  PROVE \E to, out : /\ Flows(NoLink, c, to, out)
                                             /\ \A j \in 1..Len(out) : out[j].type \notin GrantType
    <3>1. 1..Len(<<>>) = {}
      OBVIOUS
    <3>2. Flows(NoLink, c, {}, <<>>)
      BY <2>2 DEF Clears
    <3> QED
      BY <3>1, <3>2
  <2> QED
    BY <2>1, <2>2 DEF Commands
<1>2. servers' = servers
  BY DEF Commands, Clears
<1>3. NoLink \notin Links
  BY <1>0, NoLinkIs
<1>4. LeasesStay(NoLink, c, to, out) /\ EndsHandedOn(NoLink, c, to, out)
  BY <1>2, <1>3 DEF LeasesStay, EndsHandedOn
<1>5. \A d \in Mac : current_ip'[d] = current_ip[d] \/ current_ip'[d] = NoIp
  BY <1>0 DEF Commands, Clears
<1>6. \A d, ip : ~TimeoutTaken(NoLink, c, d, ip)
  BY <1>3 DEF TimeoutTaken
<1>7. SentCovered(c, to, out)'
  BY <1>1 DEF SentCovered
<1> QED
  BY <1>1, <1>4, <1>5, <1>6, <1>7, GrantsKept, UsersKept

LEMMA SquatTime ==
  ASSUME NetTyped, UsersCovered, GrantsCovered, NEW s \in Server, NEW o, EndsLeases(s, o)
  PROVE  UsersCovered' /\ GrantsCovered'
<1> DEFINE G == servers[s].given
<1>a. PICK N : N = Neighbors(s)
  OBVIOUS
<1>0. Shape /\ Queues /\ s \in DOMAIN servers /\ Typed(servers[s]) /\ Typed(o.state)
  BY DEF NetTyped, EndsLeases
<1>1. Flows(NoLink, s, N, o.out)
  BY <1>a DEF EndsLeases
<1>2. /\ DOMAIN servers' = DOMAIN servers
      /\ \A r \in DOMAIN servers : servers'[r] = IF r = s THEN o.state ELSE servers[r]
  BY <1>0, ServerTyped DEF EndsLeases
<1>3. PICK p, n : Ages(G, o, p, n)
  BY DEF EndsLeases
<1>4. Len(G) \in Nat
  BY <1>0 DEF Typed
<1>5. \A j \in 1..Len(o.out) : o.out[j].type \notin GrantType
  BY <1>3 DEF Ages, Is, GrantType
<1>6. NoLink \notin Links
  BY <1>0, NoLinkIs
<1>7. EndsHandedOn(NoLink, s, N, o.out)
  BY <1>6 DEF EndsHandedOn
<1>8. \A k \in Links : k[1] = s => k[2] \in N
  BY <1>0, <1>a, NeighborsAll
<1>9. LeasesStay(NoLink, s, N, o.out)
  <2>1. ASSUME NEW r \in DOMAIN servers, NEW c, NEW ip, LeaseIn(servers[r].given, c, ip)
        PROVE  \/ r \in DOMAIN servers' /\ LeaseIn(servers'[r].given, c, ip)
               \/ r = s /\ \E j \in 1..Len(o.out) : Is(o.out[j], "DHCP_TIMEOUT", c, ip)
    <3>1. CASE r # s
      BY <1>2, <2>1, <3>1
    <3>2. CASE r = s
      <4>1. \/ LeaseIn(o.state.given, c, ip)
            \/ \E k \in 1..Len(o.out) : Is(o.out[k], "DHCP_TIMEOUT", c, ip)
        BY <1>3, <1>4, <2>1, <3>2, AgedLease
      <4> QED
        BY <1>2, <3>2, <4>1
    <3> QED
      BY <3>1, <3>2
  <2> QED
    BY <1>8, <2>1 DEF LeasesStay
<1>10. \A d, ip : ~TimeoutTaken(NoLink, s, d, ip)
  BY <1>6 DEF TimeoutTaken
<1>11. current_ip' = current_ip
  BY DEF EndsLeases
<1>12. GrantsCovered'
  <2>1. SentCovered(s, N, o.out)'
    BY <1>5 DEF SentCovered
  <2> QED
    BY <1>1, <1>7, <1>9, <2>1, GrantsKept
<1>13. UsersCovered'
  BY <1>1, <1>7, <1>9, <1>10, <1>11, UsersKept
<1> QED
  BY <1>12, <1>13

LEMMA SquatServes ==
  ASSUME NetTyped, UsersCovered, GrantsCovered, Sound',
         NEW s \in Server, NEW from \in Machine, NEW f, NEW o, Serves(s, from, f, o)
  PROVE  UsersCovered' /\ GrantsCovered'
<1> DEFINE got == <<from, s>>
<1>0. Shape /\ Queues /\ s \in DOMAIN servers /\ Typed(servers[s]) /\ Typed(o.state)
  BY DEF NetTyped, Serves
<1>1. /\ Flows(got, s, {from}, o.out) /\ got \in Links /\ f = link[got][1] /\ f.mac \in Mac
      /\ current_ip' = current_ip
  BY DEF Serves, NetFrame
<1>2. /\ DOMAIN servers' = DOMAIN servers
      /\ \A r \in DOMAIN servers : servers'[r] = IF r = s THEN o.state ELSE servers[r]
  BY <1>0, ServerTyped DEF Serves
<1>3. /\ \A c, ip : LeaseIn(servers[s].given, c, ip) => LeaseIn(o.state.given, c, ip)
      /\ \A j \in 1..Len(o.out) : o.out[j].type \in GrantType =>
                   /\ o.out[j].mac = f.mac /\ o.out[j].ip = f.ip
                   /\ LeaseIn(o.state.given, f.mac, f.ip)
  BY ServesSound
<1>4. got[1] = from /\ got[2] = s
  OBVIOUS
<1> HIDE DEF got
<1>5. LeasesStay(got, s, {from}, o.out)
  BY <1>2, <1>3 DEF LeasesStay
<1>6. f.mac \notin Reach(got) /\ f.mac # s
  BY <1>0, <1>1, <1>4, ReachNext, MachinesAssumption
<1>7. EndsHandedOn(got, s, {from}, o.out)
  BY <1>1, <1>4, <1>6 DEF EndsHandedOn
<1>8. \A d \in Mac : \A ip : ~TimeoutTaken(got, s, d, ip)
  BY MachinesAssumption DEF TimeoutTaken
<1>9. UsersCovered'
  BY <1>1, <1>5, <1>7, <1>8, UsersKept
<1>10. Links' = Links /\ \A k : Reach(k)' = Reach(k)
  BY <1>1, SameLinks
<1>11. ASSUME NEW l \in Links, l[1] = s, NEW j \in 1..Len(o.out), o.out[j].type \in GrantType,
              o.out[j].mac \in Reach(l), NEW c, NEW ip, c = o.out[j].mac, ip = o.out[j].ip, NEW i
       PROVE  Behind(l, i, c, ip)'
  <2>1. LeaseIn(o.state.given, c, ip)
    BY <1>3, <1>11
  <2>2. Leased(l[1], c, ip)'
    BY <1>0, <1>2, <1>11, <2>1 DEF Leased
  <2>3. Holds(l, i, c, ip)'
    BY <2>2 DEF Holds
  <2> QED
    BY <1>10, <1>11, <2>3 DEF Behind
<1>12. ASSUME NEW l \in Links, l[1] = s, NEW j \in 1..Len(o.out), o.out[j].type \in GrantType,
              o.out[j].mac \in Reach(l), NEW i
       PROVE  Behind(l, i, o.out[j].mac, o.out[j].ip)'
  <2>1. \A c, ip : c = o.out[j].mac /\ ip = o.out[j].ip => Behind(l, i, c, ip)'
    BY <1>11, <1>12
  <2> QED
    BY <2>1
<1>13. SentCovered(s, {from}, o.out)'
  BY <1>10, <1>12 DEF SentCovered
<1>14. GrantsCovered'
  BY <1>1, <1>5, <1>7, <1>13, GrantsKept
<1> QED
  BY <1>9, <1>14

LEMMA SquatHandles ==
  ASSUME NetTyped, UsersCovered, GrantsCovered,
         NEW c \in Mac, NEW from \in Machine, NEW f, Handles(c, from, f)
  PROVE  UsersCovered' /\ GrantsCovered'
<1> DEFINE got == <<from, c>>
           Goal == UsersCovered' /\ GrantsCovered'
<1>a. PICK on : on = Neighbors(c) \ {from}
  OBVIOUS
<1>0. Shape /\ Queues /\ current_ip \in [Mac -> AnyIp]
  BY DEF NetTyped
<1>1. got \in Links /\ f = link[got][1] /\ f.mac \in Mac /\ f \in NetFrame /\ servers' = servers
  BY DEF Handles, NetFrame
<1>2. got[1] = from /\ got[2] = c
  OBVIOUS
<1>3. \A l \in Links : l[1] = c /\ l[2] \in on => l \in Onward(Links, got)
  BY <1>2, <1>a DEF Onward
<1>4. \A l \in Onward(Links, got) : l \in Links /\ l[1] = c /\ l[2] \in on
  <2> TAKE l \in Onward(Links, got)
  <2>1. l \in Links /\ l[1] = c /\ l[2] # from
    BY <1>2 DEF Onward
  <2> QED
    BY <1>0, <1>a, <2>1, NeighborsAll
<1> HIDE DEF got
<1>5. \A to, out : LeasesStay(got, c, to, out)
  BY <1>1 DEF LeasesStay
<1>6. 1 \in 1..Len(link[got]) /\ got[2] \in Reach(got)
  <2>1. Len(link[got]) \in Nat /\ Len(link[got]) > 0
    <3>1. \E to, out : Flows(got, c, to, out)
      BY DEF Handles, got
    <3> QED
      BY <1>0, <1>1, <3>1, FlowLengths
  <2> QED
    BY <1>0, <1>1, <2>1, ReachEnd
<1>7. f.type \in GrantType /\ f.mac \in Reach(got) => Behind(got, 1, f.mac, f.ip)
  BY <1>1, <1>6 DEF GrantsCovered
<1>8. ASSUME f.mac # c, Flows(got, c, on, <<f>>), current_ip' = current_ip  PROVE Goal
  <2>1. EndsHandedOn(got, c, on, <<f>>)
    BY <1>1, <1>2, <1>4 DEF EndsHandedOn
  <2>2. \A d \in Mac : \A ip : ~TimeoutTaken(got, c, d, ip)
    BY <1>1, <1>8 DEF TimeoutTaken, Is
  <2>3. UsersCovered'
    BY <1>5, <1>8, <2>1, <2>2, UsersKept
  <2>4. ASSUME NEW l \in Links, l[1] = c, l[2] \in on, f.type \in GrantType, f.mac \in Reach(l), NEW i
        PROVE  Behind(l, i, f.mac, f.ip)'
    <3>1. l \in Onward(Links, got)
      BY <1>3, <2>4
    <3>2. f.mac \in Reach(got)
      BY <1>0, <1>1, <2>4, <3>1, ReachOnward
    <3>3. Behind(got, 1, f.mac, f.ip)
      BY <1>7, <2>4, <3>2
    <3> QED
      BY <1>1, <1>5, <1>8, <2>1, <2>4, <3>1, <3>3, BehindMoved
  <2>5. \A j \in 1..Len(<<f>>) : <<f>>[j] = f
    BY <1>1
  <2>6. GrantsCovered'
    <3>1. Links' = Links /\ \A k : Reach(k)' = Reach(k)
      BY <1>8, SameLinks
    <3>2. SentCovered(c, on, <<f>>)'
      BY <2>4, <2>5, <3>1 DEF SentCovered
    <3> QED
      BY <1>5, <1>8, <2>1, <3>2, GrantsKept
  <2> QED
    BY <2>3, <2>6
<1>9. ASSUME f.mac = c, NEW to, NEW out, Flows(got, c, to, out),
             out = <<>> \/ (f.type = "DHCP_ACK" /\ out = <<f>> /\ to = on),
             \/ /\ f.type \in GrantType /\ Takes(c, f.ip)
             \/ /\ f.type = "DHCP_OFFER" /\ current_ip' = current_ip
             \/ /\ f.type = "DHCP_TIMEOUT"
                /\ current_ip' = (IF current_ip[c] = f.ip THEN [current_ip EXCEPT ![c] = NoIp] ELSE current_ip)
      PROVE  Goal
  <2>1. EndsHandedOn(got, c, to, out)
    BY <1>1, <1>2, <1>9 DEF EndsHandedOn
  <2>2. ASSUME NEW l \in Links, l[1] = c, l[2] \in to, NEW j \in 1..Len(out)
        PROVE  out[j].mac \notin Reach(l)
    <3>1. out = <<f>> /\ to = on
      <4>1. out = <<>> => 1..Len(out) = {}
        OBVIOUS
      <4> QED
        BY <1>9, <2>2, <4>1
    <3>2. out[j] = f
      BY <1>1, <2>2, <3>1
    <3>3. l \in Onward(Links, got)
      BY <1>3, <2>2, <3>1
    <3>4. c \in Reach(Rev(l)) /\ Rev(l) \in Links /\ Rev(Rev(l)) = l
      BY <1>0, <1>1, <1>2, <2>2, <3>3, ReachOnward, LinkPairs
    <3>5. c \notin Reach(l)
      BY <1>0, <3>4, ReachApart
    <3> QED
      BY <1>9, <3>2, <3>5
  <2>3. GrantsCovered'
    <3>1. Links' = Links /\ \A k : Reach(k)' = Reach(k)
      BY <1>9, SameLinks
    <3>2. SentCovered(c, to, out)'
      BY <2>2, <3>1 DEF SentCovered
    <3> QED
      BY <1>5, <1>9, <2>1, <3>2, GrantsKept
  <2>4. ASSUME NEW d \in Mac, NEW ip, ip = current_ip'[d], ip # NoIp
        PROVE  Covered(d, ip)' \/ (ip = current_ip[d] /\ ~TimeoutTaken(got, c, d, ip))
    <3>1. CASE f.type = "DHCP_OFFER" /\ current_ip' = current_ip
      BY <1>1, <2>4, <3>1 DEF TimeoutTaken, Is
    <3>2. CASE /\ f.type = "DHCP_TIMEOUT"
               /\ current_ip' = (IF current_ip[c] = f.ip THEN [current_ip EXCEPT ![c] = NoIp] ELSE current_ip)
      <4>1. CASE d # c
        BY <1>0, <2>4, <3>2, <4>1 DEF TimeoutTaken
      <4>2. CASE d = c
        <5>1. current_ip' = current_ip /\ current_ip[c] # f.ip
          BY <1>0, <2>4, <3>2, <4>2
        <5> QED
          BY <1>1, <2>4, <4>2, <5>1 DEF TimeoutTaken, Is
      <4> QED
        BY <4>1, <4>2
    <3>3. CASE f.type \in GrantType /\ Takes(c, f.ip)
      <4>1. CASE d # c
        BY <1>0, <2>4, <3>3, <4>1 DEF TimeoutTaken, Takes
      <4>2. CASE d = c
        <5>1. ip = f.ip
          BY <1>0, <2>4, <3>3, <4>2 DEF Takes
        <5>2. Behind(got, 1, c, ip)
          BY <1>2, <1>6, <1>7, <1>9, <3>3, <5>1
        <5>3. Covered(c, ip)'
          BY <1>1, <1>5, <1>9, <2>1, <3>3, <5>2, BehindTaken
        <5> QED
          BY <4>2, <5>3
      <4> QED
        BY <4>1, <4>2
    <3> QED
      BY <1>9, <3>1, <3>2, <3>3
  <2>5. UsersCovered'
    BY <1>5, <1>9, <2>1, <2>4, UsersKept
  <2> QED
    BY <2>3, <2>5
<1> HIDE DEF Goal
<1>10. "DHCP_ACK" \in GrantType /\ "DHCP_RESPONSE_EXTEND" \in GrantType
  BY DEF GrantType
<1>11. Goal
  BY <1>8, <1>9, <1>10, <1>a DEF Handles, got
<1> QED
  BY <1>11 DEF Goal

LEMMA InitServerTyped ==
  Typed(InitServer) /\ InitServer.given = <<>> /\ InitServer.offered = <<>>
  /\ InitServer.pool = [e \in Entry |-> 0]
<1> DEFINE P == [e \in Entry |-> 0]
<1>1. InitServer = St(P, <<>>, <<>>, NoIp)
  BY DEF InitServer, St
<1>2. P \in [Entry -> Nat] /\ NoIp \in AnyIp
  BY DEF AnyIp
<1> HIDE DEF P
<1>3. <<>> \in Seq(Offer) /\ <<>> \in Seq(Grant)
  OBVIOUS
<1>4. Typed(InitServer)
  BY <1>1, <1>2, <1>3, StTyped
<1>5. InitServer.pool = P /\ InitServer.offered = <<>> /\ InitServer.given = <<>>
  BY <1>1, StParts
<1> QED
  BY <1>4, <1>5 DEF P

LEMMA InitNet ==
  ASSUME NEW setup \in Setups,
         servers = [s \in DOMAIN setup.pool |-> AddPool(InitServer, setup.pool[s])],
         link = [l \in setup.links |-> <<>>]
  PROVE  /\ Shape /\ Queues /\ DOMAIN servers = DOMAIN setup.pool
         /\ \A s \in DOMAIN servers :
              /\ setup.pool[s] \subseteq Ip
              /\ servers[s] = AddPool(InitServer, setup.pool[s])
              /\ Typed(servers[s]) /\ servers[s].given = <<>>
<1>1. /\ setup.links \subseteq Machine \X Machine /\ \A l \in setup.links : Rev(l) \in setup.links
      /\ NoCycle(setup.links)
  BY SetupsAssumption
<1>2. PICK S \in SUBSET Server : setup.pool \in [S -> SUBSET Ip]
  BY SetupsAssumption
<1>3. Links = setup.links
  BY DEF Links
<1>4. DOMAIN servers = DOMAIN setup.pool /\ DOMAIN servers \subseteq Server
  BY <1>2
<1>5. Shape
  BY <1>1, <1>3, <1>4 DEF Shape
<1>6. Queues
  <2>1. <<>> \in Seq(NetFrame)
    OBVIOUS
  <2> QED
    BY <1>3, <2>1 DEF Queues
<1>7. ASSUME NEW s \in DOMAIN servers
      PROVE  /\ setup.pool[s] \subseteq Ip
             /\ servers[s] = AddPool(InitServer, setup.pool[s])
             /\ Typed(servers[s]) /\ servers[s].given = <<>>
  <2>1. setup.pool[s] \subseteq Ip
    BY <1>2, <1>4
  <2>2. servers[s] = AddPool(InitServer, setup.pool[s])
    BY <1>4
  <2>3. /\ Typed(AddPool(InitServer, setup.pool[s]))
        /\ AddPool(InitServer, setup.pool[s]).given = InitServer.given
    BY <2>1, InitServerTyped, AddPoolState
  <2> QED
    BY <2>1, <2>2, <2>3, InitServerTyped
<1> QED
  BY <1>4, <1>5, <1>6, <1>7

LEMMA InitSquat == NetInit => NetTyped /\ SquatInv
<1> SUFFICES ASSUME NetInit PROVE NetTyped /\ SquatInv
  OBVIOUS
<1>1. PICK setup \in Setups :
        /\ servers = [s \in DOMAIN setup.pool |-> AddPool(InitServer, setup.pool[s])]
        /\ link = [l \in setup.links |-> <<>>]
  BY DEF NetInit
<1>2. Shape /\ Queues /\ \A s \in DOMAIN servers : Typed(servers[s])
  BY <1>1, InitNet
<1>3. servers = [s \in DOMAIN servers |-> servers[s]]
  BY <1>1
<1>4. \A c \in Mac : current_ip[c] = NoIp
  BY DEF NetInit
<1>5. NetTyped
  BY <1>2, <1>3 DEF NetInit, NetTyped, AnyIp
<1>6. \A l \in Links : 1..Len(link[l]) = {}
  BY <1>1 DEF Links
<1>7. SquatInv
  BY <1>4, <1>6 DEF SquatInv, UsersCovered, GrantsCovered
<1> QED
  BY <1>5, <1>7

LEMMA NextSquat == NetTyped /\ SquatInv /\ [NetNext]_netVars => NetTyped' /\ SquatInv'
<1> SUFFICES ASSUME NetTyped, SquatInv, [NetNext]_netVars PROVE NetTyped' /\ SquatInv'
  OBVIOUS
<1>1. CASE UNCHANGED netVars
  <2>1. NetTyped'
    BY <1>1 DEF netVars, client, NetTyped, Shape, Queues, Links
  <2>2. UsersCovered' = UsersCovered /\ GrantsCovered' = GrantsCovered
    BY <1>1 DEF netVars, client, UsersCovered, GrantsCovered, Covered, Behind, Holds, Leased, Ends,
       Links, Reach
  <2>3. SquatInv'
    BY <1>1, <2>2 DEF netVars, SquatInv
  <2> QED
    BY <2>1, <2>3
<1>2. CASE NetNext
  <2>1. NetStep /\ NetTyped'
    BY <1>2, NextIsStep, TypedKept
  <2>2. ASSUME Sound'  PROVE UsersCovered' /\ GrantsCovered'
    <3>1. UsersCovered /\ GrantsCovered
      BY <2>1, <2>2, SoundBefore DEF Sound, SquatInv
    <3> QED
      BY <2>1, <2>2, <3>1, SquatCommands, SquatTime, SquatServes, SquatHandles DEF NetStep
  <2>3. SquatInv'
    BY <2>2 DEF SquatInv, Sound
  <2> QED
    BY <2>1, <2>3
<1> QED
  BY <1>1, <1>2

LEMMA NetInductive == NetSpec => [](NetTyped /\ SquatInv)
<1>1. NetInit => NetTyped /\ SquatInv
  BY InitSquat
<1>2. NetTyped /\ SquatInv /\ [NetNext]_netVars => (NetTyped /\ SquatInv)'
  BY NextSquat
<1> QED
  BY <1>1, <1>2, PTL DEF NetSpec

LEMMA SquatMeans == NetTyped /\ SquatInv => NoSquatting
<1> SUFFICES ASSUME NetTyped, SquatInv, faults \cap {"kept", "crossed"} = {},
                    NEW c \in Mac, current_ip[c] # NoIp
             PROVE  HasLease(c, current_ip[c]) \/ UnderWay("DHCP_TIMEOUT", c, current_ip[c])
  BY DEF NoSquatting
<1> DEFINE ip == current_ip[c]
<1>1. PICK k \in Links : Holds(k, 0, c, ip)
  BY DEF SquatInv, UsersCovered, Covered
<1> HIDE DEF ip
<1>2. CASE Leased(k[1], c, ip)
  BY <1>2 DEF Leased, LeaseIn, HasLease, ip
<1>3. CASE Ends(k, 0, c, ip)
  BY <1>1, <1>3 DEF Ends, Is, UnderWay, Links, ip
<1> QED
  BY <1>1, <1>2, <1>3 DEF Holds

\* A client uses an address only while it has the lease, or until the timeout that
\* ends it arrives: in every network without cycles, however its frames are ordered,
\* as long as no server keeps a pointer into a frame and no late release or extension
\* takes another's lease.
THEOREM NoSquattingHolds == NetSpec => []NoSquatting
<1>1. NetTyped /\ SquatInv => NoSquatting
  BY SquatMeans
<1> QED
  BY <1>1, NetInductive, PTL

-----------------------------------------------------------------------------
(* No conflict: each address stays at the server it was added to, in one    *)
(* place.                                                                   *)

Stock(setup) ==
  /\ DOMAIN servers = DOMAIN setup.pool
  /\ \A s \in DOMAIN servers :
       /\ servers[s].pool[Kept] = 0
       /\ \A ip \in AnyIp : CopiesIn(servers[s], ip) = IF ip \in setup.pool[s] THEN 1 ELSE 0

StockInv == "kept" \notin faults => \E setup \in Setups : Stock(setup)

LEMMA InitStock == NetInit => StockInv
<1> SUFFICES ASSUME NetInit PROVE StockInv
  OBVIOUS
<1>1. PICK setup \in Setups :
        /\ servers = [s \in DOMAIN setup.pool |-> AddPool(InitServer, setup.pool[s])]
        /\ link = [l \in setup.links |-> <<>>]
  BY DEF NetInit
<1> DEFINE P == InitServer.pool
<1>2. \A e \in Entry : P[e] = 0
  BY InitServerTyped
<1>3. ASSUME NEW s \in DOMAIN servers
      PROVE  /\ servers[s].pool[Kept] = 0
             /\ \A ip \in AnyIp : CopiesIn(servers[s], ip) = IF ip \in setup.pool[s] THEN 1 ELSE 0
  <2> DEFINE range == setup.pool[s]
             t == AddPool(InitServer, range)
  <2>1. servers[s] = t /\ range \subseteq Ip
    BY <1>1, InitNet
  <2>2. P[Kept] = 0 /\ Kept \in Entry /\ AnyIp \subseteq Entry
    BY <1>2, KeptNoAddress
  <2>3. /\ t.offered = InitServer.offered /\ t.given = InitServer.given /\ t.pool[Kept] = 0
        /\ t.pool = Added(P, range)
    BY <2>1, <2>2, InitServerTyped, AddPoolState
  <2> HIDE DEF t, range, P
  <2>4. ASSUME NEW ip \in AnyIp  PROVE CopiesIn(t, ip) = IF ip \in range THEN 1 ELSE 0
    <3>1. t.offered = <<>> /\ t.given = <<>>
      BY <2>3, InitServerTyped
    <3>2. Places(<<>>, ip) = {}
      BY DEF Places
    <3>3. Count(<<>>, ip) = 0
      BY <3>2, FS_EmptySet DEF Count
    <3>4. t.pool[ip] = IF ip \in range THEN 1 ELSE 0
      BY <1>2, <2>2, <2>3 DEF Added
    <3> QED
      BY <3>1, <3>3, <3>4 DEF CopiesIn
  <2> QED
    BY <2>1, <2>3, <2>4 DEF range
<1>4. DOMAIN servers = DOMAIN setup.pool
  BY <1>1
<1> QED
  BY <1>3, <1>4 DEF StockInv, Stock

LEMMA StockKept ==
  ASSUME NetTyped, NEW s \in DOMAIN servers, NEW t, Keeps(servers[s], t), t.pool[Kept] = 0,
         servers' = [servers EXCEPT ![s] = t], NEW setup \in Setups, Stock(setup)
  PROVE  Stock(setup)'
<1>1. /\ DOMAIN servers' = DOMAIN servers
      /\ \A r \in DOMAIN servers : servers'[r] = IF r = s THEN t ELSE servers[r]
  BY ServerTyped DEF Keeps
<1>2. \A ip \in AnyIp : CopiesIn(t, ip) = CopiesIn(servers[s], ip)
  BY DEF Keeps, Stock
<1>3. ASSUME NEW r \in DOMAIN servers
      PROVE  /\ servers'[r].pool[Kept] = 0
             /\ \A ip \in AnyIp : CopiesIn(servers'[r], ip) = IF ip \in setup.pool[r] THEN 1 ELSE 0
  <2>1. CASE r = s
    BY <1>1, <1>2, <2>1 DEF Stock
  <2>2. CASE r # s
    BY <1>1, <2>2 DEF Stock
  <2> QED
    BY <2>1, <2>2
<1>4. DOMAIN servers' = DOMAIN setup.pool
  BY <1>1 DEF Stock
<1> QED
  BY <1>1, <1>3, <1>4 DEF Stock

LEMMA NextStock == NetTyped /\ StockInv /\ [NetNext]_netVars => StockInv'
<1> SUFFICES ASSUME NetTyped, StockInv, [NetNext]_netVars, "kept" \notin faults'
             PROVE  \E setup \in Setups : Stock(setup)'
  BY DEF StockInv
<1>1. ASSUME servers' = servers, faults \subseteq faults'  PROVE \E setup \in Setups : Stock(setup)'
  BY <1>1 DEF Stock, StockInv
<1>2. ASSUME UNCHANGED netVars  PROVE \E setup \in Setups : Stock(setup)'
  BY <1>1, <1>2 DEF netVars
<1>3. ASSUME NEW c \in Mac, NEW from, NEW f, Commands(c, f) \/ Clears(c) \/ Handles(c, from, f)
      PROVE  \E setup \in Setups : Stock(setup)'
  BY <1>1, <1>3 DEF Commands, Clears, Handles, Takes
<1>4. ASSUME NEW s \in DOMAIN servers, NEW t, Keeps(servers[s], t), t.pool[Kept] = 0,
             servers' = [servers EXCEPT ![s] = t], faults \subseteq faults'
      PROVE  \E setup \in Setups : Stock(setup)'
  <2>1. PICK setup \in Setups : Stock(setup)
    BY <1>4 DEF StockInv
  <2> QED
    BY <1>4, <2>1, StockKept
<1>5. ASSUME NEW s \in Server, NEW o, EndsLeases(s, o)  PROVE \E setup \in Setups : Stock(setup)'
  <2>1. /\ s \in DOMAIN servers /\ servers' = [servers EXCEPT ![s] = o.state] /\ Typed(servers[s])
        /\ o.state.pool[Kept] = servers[s].pool[Kept] /\ faults' = faults
    BY <1>5 DEF EndsLeases, NetTyped
  <2>2. Keeps(servers[s], o.state)
    BY <1>5, <2>1, AddTimeKeeps DEF EndsLeases
  <2>3. servers[s].pool[Kept] = 0
    BY <2>1 DEF StockInv, Stock
  <2> QED
    BY <1>4, <2>1, <2>2, <2>3
<1>6. ASSUME NEW s \in Server, NEW from \in Machine, NEW f, NEW o, Serves(s, from, f, o)
      PROVE  \E setup \in Setups : Stock(setup)'
  <2>1. /\ s \in DOMAIN servers /\ servers' = [servers EXCEPT ![s] = o.state] /\ Typed(servers[s])
        /\ Typed(o.state) /\ o \in Handle(servers[s], f)
        /\ f.ip \in AnyIp /\ f.mac \in Mac /\ f.time \in Time
    BY <1>6 DEF Serves, NetTyped, NetFrame
  <2>2. Keeps(servers[s], o.state)
    BY <2>1, HandleKeeps
  <2>3. o.state.pool[Kept] = 0 /\ faults \subseteq faults'
    <3>1. o.state.pool[Kept] \in Nat
      BY <2>1, KeptNoAddress DEF Typed
    <3>2. ~(o.state.pool[Kept] > 0) /\ faults \subseteq faults'
      BY <1>6 DEF Serves, NewFaults
    <3> QED
      BY <3>1, <3>2
  <2> QED
    BY <1>4, <2>1, <2>2, <2>3
<1> QED
  BY <1>2, <1>3, <1>5, <1>6, NextIsStep DEF NetStep

\* An address of which there is one copy is in one lease at most.
LEMMA OneLease ==
  ASSUME NEW s, Typed(s), NEW ip \in AnyIp, CopiesIn(s, ip) \in {0, 1},
         NEW i \in 1..Len(s.given), NEW j \in 1..Len(s.given), s.given[i].ip = ip, s.given[j].ip = ip
  PROVE  i = j /\ CopiesIn(s, ip) = 1
<1> DEFINE G == s.given
           S == Places(G, ip)
<1>1. G \in Seq(Grant) /\ s.offered \in Seq(Offer) /\ s.pool[ip] \in Nat
  BY KeptNoAddress DEF Typed
<1>2. IsFiniteSet(S) /\ Count(G, ip) \in Nat /\ Count(s.offered, ip) \in Nat
  BY <1>1, PlacesFinite
<1>3. i \in S /\ j \in S
  BY DEF Places
<1>4. Cardinality(S) = Count(G, ip)
  BY DEF Count
<1>5. CopiesIn(s, ip) = s.pool[ip] + Count(s.offered, ip) + Count(G, ip)
  BY DEF CopiesIn
<1> HIDE DEF S, G
<1>6. IsFiniteSet(S \ {i}) /\ Cardinality(S \ {i}) = Cardinality(S) - 1
  BY <1>2, <1>3, FS_RemoveElement
<1>7. Cardinality(S \ {i}) \in Nat
  BY <1>6, FS_CardinalityType
<1>8. Cardinality(S \ {i}) = 0 /\ CopiesIn(s, ip) = 1
  BY <1>1, <1>2, <1>4, <1>5, <1>6, <1>7
<1>9. S \ {i} = {}
  BY <1>6, <1>8, FS_EmptySet
<1> QED
  BY <1>3, <1>8, <1>9

LEMMA LeaseOfOne ==
  ASSUME NetTyped, StockInv, "kept" \notin faults, NEW c, NEW d, NEW ip,
         HasLease(c, ip), HasLease(d, ip)
  PROVE  c = d
<1>a. PICK s \in DOMAIN servers : \E i \in 1..Len(servers[s].given) :
        servers[s].given[i].ip = ip /\ servers[s].given[i].mac = c
  BY DEF HasLease
<1>1. PICK i \in 1..Len(servers[s].given) :
        servers[s].given[i].ip = ip /\ servers[s].given[i].mac = c
  BY <1>a
<1>b. PICK r \in DOMAIN servers : \E j \in 1..Len(servers[r].given) :
        servers[r].given[j].ip = ip /\ servers[r].given[j].mac = d
  BY DEF HasLease
<1>2. PICK j \in 1..Len(servers[r].given) :
        servers[r].given[j].ip = ip /\ servers[r].given[j].mac = d
  BY <1>b
<1>3. PICK setup \in Setups : Stock(setup)
  BY DEF StockInv
<1>4. Typed(servers[s]) /\ Typed(servers[r])
  BY DEF NetTyped
<1>5. ip \in AnyIp
  <2>1. servers[s].given \in Seq(Grant)
    BY <1>4 DEF Typed
  <2>2. servers[s].given[i] \in Grant
    BY <2>1
  <2> QED
    BY <1>1, <2>2 DEF Grant
<1>6. \A t \in DOMAIN servers : CopiesIn(servers[t], ip) = IF ip \in setup.pool[t] THEN 1 ELSE 0
  BY <1>3, <1>5 DEF Stock
<1>7. \A t \in DOMAIN servers : CopiesIn(servers[t], ip) \in {0, 1}
  BY <1>6
<1>8. CopiesIn(servers[s], ip) = 1 /\ CopiesIn(servers[r], ip) = 1
  BY <1>1, <1>2, <1>4, <1>5, <1>7, OneLease
<1>9. ip \in setup.pool[s] /\ ip \in setup.pool[r]
  BY <1>6, <1>8
<1>10. s = r
  BY <1>3, <1>9, PoolsAssumption DEF Stock
<1>11. i = j
  BY <1>1, <1>2, <1>4, <1>5, <1>7, <1>10, OneLease
<1> QED
  BY <1>1, <1>2, <1>10, <1>11

\* Two clients never use one address at a time, but for a timeout on its way: when no
\* two administrators add the same address, under the conditions of NoSquatting.
THEOREM NoConflictHolds == NetSpec => []NoConflict
<1>1. NetInit => StockInv
  BY InitStock
<1>2. NetTyped /\ StockInv /\ [NetNext]_netVars => StockInv'
  BY NextStock
<1>3. NetTyped /\ SquatInv /\ StockInv => NoConflict
  <2> SUFFICES ASSUME NetTyped, SquatInv, StockInv, faults \cap {"kept", "crossed"} = {},
                      NEW c \in Mac, NEW d \in Mac,
                      c # d, current_ip[c] = current_ip[d], current_ip[c] # NoIp
               PROVE  \/ UnderWay("DHCP_TIMEOUT", c, current_ip[c])
                      \/ UnderWay("DHCP_TIMEOUT", d, current_ip[d])
    BY DEF NoConflict
  <2>1. /\ HasLease(c, current_ip[c]) \/ UnderWay("DHCP_TIMEOUT", c, current_ip[c])
        /\ HasLease(d, current_ip[d]) \/ UnderWay("DHCP_TIMEOUT", d, current_ip[d])
    BY SquatMeans DEF NoSquatting
  <2>2. HasLease(c, current_ip[c]) /\ HasLease(d, current_ip[d]) => FALSE
    <3> SUFFICES ASSUME NEW ip, ip = current_ip[c], HasLease(c, ip), HasLease(d, ip)  PROVE FALSE
      OBVIOUS
    <3>1. "kept" \notin faults
      OBVIOUS
    <3> QED
      BY <3>1, LeaseOfOne
  <2> QED
    BY <2>1, <2>2
<1> QED
  BY <1>1, <1>2, <1>3, NetInductive, PTL DEF NetSpec

-----------------------------------------------------------------------------
(* Granted is used.  Here it matters which frames are on a link, not where. *)

On(l, g) == \E i \in 1..Len(link[l]) : link[l][i] = g
Lies(g) == \E l \in Links : On(l, g)

\* A link on the way from x to y.
Between(x, y, l) == y \in Reach(l) /\ x \in Reach(Rev(l))

LEMMA OnKept ==
  ASSUME Queues, NEW got, NEW m, NEW to, NEW out, Flows(got, m, to, out), NEW l \in Links, NEW g, On(l, g)
  PROVE  On(l, g)' \/ (l = got /\ g = link[got][1])
<1>1. PICK i \in 1..Len(link[l]) : link[l][i] = g
  BY DEF On
<1>2. CASE l = got /\ i = 1
  BY <1>1, <1>2
<1>3. CASE ~(l = got /\ i = 1)
  <2>1. i - Dropped(l, got) \in 1..Len(link'[l]) /\ link'[l][i - Dropped(l, got)] = g
    BY <1>1, <1>3, OldPlace
  <2> QED
    BY <2>1 DEF On
<1> QED
  BY <1>2, <1>3

LEMMA OnNew ==
  ASSUME Queues, NEW got, NEW m, NEW to, NEW out, Flows(got, m, to, out), NEW l \in Links, NEW g, On(l, g)'
  PROVE  On(l, g) \/ (l[1] = m /\ l[2] \in to /\ \E j \in 1..Len(out) : out[j] = g)
<1>1. PICK i \in 1..Len(link'[l]) : link'[l][i] = g
  BY DEF On
<1>2. \/ \E h \in 1..Len(link[l]) : link'[l][i] = link[l][h]
      \/ l[1] = m /\ l[2] \in to /\ \E j \in 1..Len(out) : link'[l][i] = out[j]
  BY NewPlace
<1> QED
  BY <1>1, <1>2 DEF On

LEMMA OnPut ==
  ASSUME Queues, NEW got, NEW m, NEW to, NEW out, Flows(got, m, to, out), NEW l \in Links,
         l[1] = m, l[2] \in to, NEW j \in 1..Len(out)
  PROVE  On(l, out[j])'
<1>1. /\ Len(link[l]) - Dropped(l, got) + j \in 1..Len(link'[l])
      /\ link'[l][Len(link[l]) - Dropped(l, got) + j] = out[j]
  BY PutPlace
<1> QED
  BY <1>1 DEF On

LEMMA LiesNew ==
  ASSUME Queues, NEW got, NEW m, NEW to, NEW out, Flows(got, m, to, out), NEW g, Lies(g)'
  PROVE  Lies(g) \/ \E j \in 1..Len(out) : out[j] = g
<1>1. Links' = Links
  BY SameLinks
<1> QED
  BY <1>1, OnNew DEF Lies

\* The frame that is received lies on its link.
LEMMA OnGot ==
  ASSUME Queues, NEW got \in Links, NEW m, NEW to, NEW out, Flows(got, m, to, out)
  PROVE  On(got, link[got][1]) /\ Lies(link[got][1])
<1>1. Len(link[got]) \in Nat /\ Len(link[got]) > 0
  BY FlowLengths
<1>2. 1 \in 1..Len(link[got])
  BY <1>1
<1> QED
  BY <1>2 DEF On, Lies

\* A frame on the way from x to y stays on it until it comes to y, if everyone hands it on.
LEMMA BetweenMoves ==
  ASSUME Shape, Queues, NEW got, NEW m, NEW to, NEW out, Flows(got, m, to, out),
         NEW x, NEW y, NEW l \in Links, NEW g, Between(x, y, l), On(l, g),
         got \in Links /\ g = link[got][1] /\ Between(x, y, got) /\ y # got[2] =>
           got[2] = m /\ out = <<g>> /\ \A k \in Onward(Links, got) : k[2] \in to
  PROVE  \/ \E k \in Links : Between(x, y, k)' /\ On(k, g)'
         \/ l = got /\ g = link[got][1] /\ y = got[2]
<1>1. Links' = Links /\ \A k : Reach(k)' = Reach(k)
  BY SameLinks
<1>2. \A k \in Links : Between(x, y, k) <=> Between(x, y, k)'
  BY <1>1 DEF Between
<1>3. CASE On(l, g)'
  BY <1>2, <1>3
<1>4. CASE l = got /\ g = link[got][1] /\ y # got[2]
  <2>1. got[2] = m /\ out = <<g>> /\ \A k \in Onward(Links, got) : k[2] \in to
    BY <1>4
  <2>2. PICK k \in Onward(Links, got) : y \in Reach(k)
    BY <1>4, ReachNext DEF Between
  <2>3. k \in Links /\ k[1] = m /\ k[2] \in to /\ x \in Reach(Rev(k))
    BY <1>4, <2>1, ReachOnward DEF Between
  <2>4. 1 \in 1..Len(out) /\ out[1] = g
    BY <2>1
  <2>5. On(k, out[1])'
    BY <2>3, <2>4, OnPut
  <2>6. Between(x, y, k)'
    BY <1>2, <2>2, <2>3 DEF Between
  <2> QED
    BY <2>3, <2>4, <2>5, <2>6
<1> QED
  BY <1>3, <1>4, OnKept

-----------------------------------------------------------------------------
\* What a client asks is on its way from him, and he reaches whom it comes to.
Asking == {"DHCP_DISCOVER", "DHCP_REQUEST", "DHCP_REQUEST_EXTEND", "DHCP_RELEASE"}
Around(c) == {c} \cup UNION { Reach(k) : k \in { k \in Links : k[1] = c } }
From(c, l) == l[1] \in Mac /\ c \in Reach(Rev(l)) /\ l[1] \in Around(c) /\ Reach(l) \subseteq Around(c)
Asks == \A l \in Links : \A g : On(l, g) /\ g.type \in Asking => From(g.mac, l)

LEMMA FromSelf ==
  ASSUME Shape, NEW l \in Links, l[1] \in Mac
  PROVE  From(l[1], l)
<1>1. l[1] \in Reach(Rev(l))
  BY LinkPairs, ReachEnd
<1> QED
  BY <1>1 DEF From, Around

LEMMA FromOnward ==
  ASSUME Shape, NEW l \in Links, NEW k \in Onward(Links, l), NEW c, From(c, l)
  PROVE  From(c, k)
<1>1. l[2] \in Mac /\ l[2] \in Reach(l)
  BY ReachEnd DEF Onward
<1> QED
  BY <1>1, ReachOnward DEF From

LEMMA FromSame ==
  ASSUME NEW got, NEW m, NEW to, NEW out, Flows(got, m, to, out)
  PROVE  /\ \A c : Around(c)' = Around(c)
         /\ \A c, l : From(c, l)' = From(c, l)
<1>1. Links' = Links /\ \A k : Reach(k)' = Reach(k)
  BY SameLinks
<1>2. ASSUME NEW c  PROVE Around(c)' = Around(c)
  BY <1>1 DEF Around
<1> QED
  BY <1>1, <1>2 DEF From

LEMMA AsksNew ==
  ASSUME NetTyped, Asks, NEW got, NEW m, NEW to, NEW out, Flows(got, m, to, out),
         \A j \in 1..Len(out), l \in Links :
           out[j].type \in Asking /\ l[1] = m /\ l[2] \in to => From(out[j].mac, l)
  PROVE  Asks'
<1>1. Links' = Links /\ \A c, l : From(c, l)' = From(c, l)
  BY SameLinks, FromSame
<1>2. ASSUME NEW l \in Links, NEW g, On(l, g)', g.type \in Asking  PROVE From(g.mac, l)
  <2>1. CASE On(l, g)
    BY <1>2, <2>1 DEF Asks
  <2>2. ASSUME l[1] = m, l[2] \in to, NEW j \in 1..Len(out), out[j] = g
        PROVE  From(g.mac, l)
    BY <1>2, <2>2
  <2> QED
    BY <1>2, <2>1, <2>2, OnNew DEF NetTyped
<1>3. \A l \in Links : \A g : On(l, g)' /\ g.type \in Asking => From(g.mac, l)
  BY <1>2
<1> QED
  BY <1>1, <1>3 DEF Asks

LEMMA NextAsks == NetTyped /\ Asks /\ NetStep => Asks'
<1> SUFFICES ASSUME NetTyped, Asks, NetStep PROVE Asks'
  OBVIOUS
<1>0. Shape /\ Queues
  BY DEF NetTyped
<1>1. ASSUME NEW got, NEW m, NEW to, NEW out, Flows(got, m, to, out),
             \A j \in 1..Len(out) : out[j].type \notin Asking
      PROVE  Asks'
  BY <1>1, AsksNew
<1>2. ASSUME NEW got, NEW m, NEW to, Flows(got, m, to, <<>>)  PROVE Asks'
  <2>1. 1..Len(<<>>) = {}
    OBVIOUS
  <2> QED
    BY <1>1, <1>2, <2>1
<1>3. ASSUME NEW c \in Mac, NEW f, Commands(c, f)  PROVE Asks'
  <2>1. PICK to : to = Neighbors(c)
    OBVIOUS
  <2>2. f.mac = c /\ f \in NetFrame /\ Flows(NoLink, c, to, <<f>>)
    BY <1>3, <2>1 DEF Commands
  <2>3. \A j \in 1..Len(<<f>>) : <<f>>[j] = f
    BY <2>2
  <2>4. \A l \in Links : l[1] = c => From(c, l)
    BY <1>0, FromSelf
  <2> QED
    BY <2>2, <2>3, <2>4, AsksNew
<1>4. ASSUME NEW c \in Mac, Clears(c)  PROVE Asks'
  BY <1>2, <1>4 DEF Clears
<1>5. ASSUME NEW s \in Server, NEW o, EndsLeases(s, o)  PROVE Asks'
  <2>1. \A j \in 1..Len(o.out) : o.out[j].type \notin Asking
    BY <1>5 DEF EndsLeases, Ages, Is, Asking
  <2>2. \E to : Flows(NoLink, s, to, o.out)
    BY <1>5 DEF EndsLeases
  <2> QED
    BY <1>1, <2>1, <2>2
<1>6. ASSUME NEW s \in Server, NEW from \in Machine, NEW f, NEW o, Serves(s, from, f, o)
      PROVE  Asks'
  <2>1. Flows(<<from, s>>, s, {from}, o.out)
    BY <1>6 DEF Serves
  <2>2. CASE o.out = <<>>
    BY <1>2, <2>1, <2>2
  <2>3. ASSUME NEW g \in NetFrame, g.type \in Answer, o.out = <<g>>  PROVE Asks'
    <3>1. \A j \in 1..Len(o.out) : o.out[j] = g
      BY <2>3
    <3>2. g.type \notin Asking
      BY <2>3 DEF Answer, Asking
    <3> QED
      BY <1>1, <2>1, <3>1, <3>2
  <2> QED
    BY <1>6, <2>2, <2>3 DEF Serves
<1>7. ASSUME NEW c \in Mac, NEW from \in Machine, NEW f, Handles(c, from, f)  PROVE Asks'
  <2> DEFINE got == <<from, c>>
  <2>1. PICK to : to = Neighbors(c) \ {from}
    OBVIOUS
  <2>2. got \in Links /\ f \in NetFrame /\ f = link[got][1] /\ got[1] = from /\ got[2] = c
    BY <1>7 DEF Handles
  <2>3. ASSUME Flows(got, c, to, <<f>>)  PROVE Asks'
    <3> HIDE DEF got
    <3>1. \A j \in 1..Len(<<f>>) : <<f>>[j] = f
      BY <2>2
    <3>2. ASSUME f.type \in Asking, NEW l \in Links, l[1] = c, l[2] \in to
          PROVE  From(f.mac, l)
      <4>1. l \in Onward(Links, got)
        BY <2>1, <2>2, <3>2 DEF Onward
      <4>2. On(got, f)
        BY <1>0, <2>2, <2>3, OnGot
      <4>3. From(f.mac, got)
        BY <2>2, <3>2, <4>2 DEF Asks
      <4> QED
        BY <1>0, <2>2, <4>1, <4>3, FromOnward
    <3> QED
      BY <2>3, <3>1, <3>2, AsksNew
  <2> QED
    BY <1>2, <1>7, <2>1, <2>3 DEF Handles
<1> QED
  BY <1>3, <1>4, <1>5, <1>6, <1>7 DEF NetStep

-----------------------------------------------------------------------------
\* A client that was never granted an address has no lease and is told nothing; one
\* that was granted one address has one lease at most, is told nothing else, and the
\* lease is in use, or the client will hear of it, or the server that he wants it changed.
NoLease(c) == \A s, ip : ~Leased(s, c, ip)
Told(g, c) == Lies(g) /\ g.mac = c /\ g.type \in GrantType \cup {"DHCP_TIMEOUT"}
Fresh(c) == NoLease(c) /\ \A g : ~Told(g, c)

Single(c) ==
  \A s, r \in DOMAIN servers : \A i \in 1..Len(servers[s].given), j \in 1..Len(servers[r].given) :
    servers[s].given[i].mac = c /\ servers[r].given[j].mac = c => s = r /\ i = j

Settled(s, c, ip) == c \notin extending /\ current_ip[c] = ip /\ \E l \in Links : l[1] = c /\ s \in Reach(l)
Coming(s, c, ip) ==
  \E l \in Links : \E g : Between(s, c, l) /\ On(l, g) /\ g.type \in GrantType /\ g.mac = c /\ g.ip = ip
Going(s, c, ip) ==
  \E l \in Links : \E g : Between(c, s, l) /\ On(l, g)
    /\ g.type \in {"DHCP_REQUEST_EXTEND", "DHCP_RELEASE"} /\ g.mac = c /\ g.ip = ip

Located(s, c, ip) == Settled(s, c, ip) \/ Coming(s, c, ip) \/ Going(s, c, ip)

Known(s, c, ip) ==
  /\ \A g : Told(g, c) => g.type \in GrantType /\ g.ip = ip
  /\ Located(s, c, ip)

Granted(c) ==
  /\ acks[c] = 0 => Fresh(c)
  /\ acks[c] = 1 => Single(c) /\ \A s, ip : Leased(s, c, ip) => Known(s, c, ip)

UseInv == Asks /\ (faults = {} => \A c \in Mac : Granted(c))

LEMMA SingleIp ==
  ASSUME NEW c, Single(c), NEW s, NEW r, NEW ip, NEW other, Leased(s, c, ip), Leased(r, c, other)
  PROVE  s = r /\ ip = other
<1>1. PICK i \in 1..Len(servers[s].given) : servers[s].given[i].ip = ip /\ servers[s].given[i].mac = c
  BY DEF Leased, LeaseIn
<1>2. PICK j \in 1..Len(servers[r].given) : servers[r].given[j].ip = other /\ servers[r].given[j].mac = c
  BY DEF Leased, LeaseIn
<1>3. s \in DOMAIN servers /\ r \in DOMAIN servers
  BY DEF Leased
<1> QED
  BY <1>1, <1>2, <1>3 DEF Single

\* Every lease of c in H was in G, at place q[i].
Follows(G, H, c) ==
  \E q : \A i \in 1..Len(H) : H[i].mac = c =>
    /\ q[i] \in 1..Len(G) /\ G[q[i]].mac = c /\ G[q[i]].ip = H[i].ip
    /\ \A j \in 1..Len(H) : H[j].mac = c /\ q[i] = q[j] => i = j

LeasesFollow(c) ==
  /\ DOMAIN servers' = DOMAIN servers
  /\ \A s \in DOMAIN servers : Follows(servers[s].given, servers'[s].given, c)

LEMMA FollowsSame == ASSUME NEW G, NEW c, Len(G) \in Nat PROVE Follows(G, G, c)
<1> DEFINE q == [i \in 1..Len(G) |-> i]
<1>1. \A i \in 1..Len(G) : q[i] = i
  OBVIOUS
<1> HIDE DEF q
<1> QED
  BY <1>1 DEF Follows

LEMMA FollowsLeases ==
  ASSUME NEW c, LeasesFollow(c)
  PROVE  /\ \A s, ip : Leased(s, c, ip)' => Leased(s, c, ip)
         /\ Single(c) => Single(c)'
<1>1. ASSUME NEW s, NEW ip, Leased(s, c, ip)'  PROVE Leased(s, c, ip)
  <2>1. s \in DOMAIN servers /\ Follows(servers[s].given, servers'[s].given, c)
    BY <1>1 DEF Leased, LeasesFollow
  <2>2. PICK i \in 1..Len(servers'[s].given) : servers'[s].given[i].ip = ip /\ servers'[s].given[i].mac = c
    BY <1>1 DEF Leased, LeaseIn
  <2>3. PICK q : \A j \in 1..Len(servers'[s].given) : servers'[s].given[j].mac = c =>
           /\ q[j] \in 1..Len(servers[s].given) /\ servers[s].given[q[j]].mac = c
           /\ servers[s].given[q[j]].ip = servers'[s].given[j].ip
    BY <2>1 DEF Follows
  <2>4. /\ q[i] \in 1..Len(servers[s].given) /\ servers[s].given[q[i]].mac = c
        /\ servers[s].given[q[i]].ip = ip
    BY <2>2, <2>3
  <2> QED
    BY <2>1, <2>4 DEF Leased, LeaseIn
<1>2. ASSUME Single(c), NEW s \in DOMAIN servers, NEW r \in DOMAIN servers,
             NEW i \in 1..Len(servers'[s].given), NEW j \in 1..Len(servers'[r].given),
             servers'[s].given[i].mac = c, servers'[r].given[j].mac = c
      PROVE  s = r /\ i = j
  <2>0. Follows(servers[s].given, servers'[s].given, c) /\ Follows(servers[r].given, servers'[r].given, c)
    BY DEF LeasesFollow
  <2>1. PICK q : \A k \in 1..Len(servers'[s].given) : servers'[s].given[k].mac = c =>
           /\ q[k] \in 1..Len(servers[s].given) /\ servers[s].given[q[k]].mac = c
           /\ \A h \in 1..Len(servers'[s].given) : servers'[s].given[h].mac = c /\ q[k] = q[h] => k = h
    BY <2>0 DEF Follows
  <2>2. PICK p : \A k \in 1..Len(servers'[r].given) : servers'[r].given[k].mac = c =>
           p[k] \in 1..Len(servers[r].given) /\ servers[r].given[p[k]].mac = c
    BY <2>0 DEF Follows
  <2>3. s = r
    BY <1>2, <2>1, <2>2 DEF Single
  <2>4. q[i] \in 1..Len(servers[s].given) /\ servers[s].given[q[i]].mac = c
        /\ q[j] \in 1..Len(servers[s].given) /\ servers[s].given[q[j]].mac = c
    BY <1>2, <2>1, <2>3
  <2>5. q[i] = q[j]
    BY <1>2, <2>4 DEF Single
  <2> QED
    BY <1>2, <2>1, <2>3, <2>5
<1>3. DOMAIN servers' = DOMAIN servers
  BY DEF LeasesFollow
<1> QED
  BY <1>1, <1>2, <1>3 DEF Single

\* A frame about c that is received on the way from x to y is handed on.
PassesOn(got, m, to, out, c, x, y) ==
  got \in Links /\ link[got][1].mac = c /\ Between(x, y, got) /\ y # got[2] =>
    got[2] = m /\ out = <<link[got][1]>> /\ \A k \in Onward(Links, got) : k[2] \in to

\* What a step tells c is nothing new, or grants a lease that c has, or ends one.
Tells(out, c) ==
  \A j \in 1..Len(out) : out[j].mac = c /\ out[j].type \in GrantType \cup {"DHCP_TIMEOUT"} =>
    \/ Told(out[j], c)
    \/ out[j].type \in GrantType /\ \E s : Leased(s, c, out[j].ip)
    \/ ~NoLease(c) /\ (Single(c) => NoLease(c)')

StaysLocated(c) ==
  \A s, ip : Leased(s, c, ip) /\ Single(c) /\ Known(s, c, ip) => Located(s, c, ip)'

LEMMA GrantedKept ==
  ASSUME NetTyped, NEW got, NEW m, NEW to, NEW out, Flows(got, m, to, out),
         NEW c, Granted(c), acks'[c] = acks[c], LeasesFollow(c), Tells(out, c), StaysLocated(c)
  PROVE  Granted(c)'
<1>0. Queues
  BY DEF NetTyped
<1>1. /\ \A s, ip : Leased(s, c, ip)' => Leased(s, c, ip)
      /\ Single(c) => Single(c)'
  BY FollowsLeases
<1>2. ASSUME NEW g, Told(g, c)'
      PROVE  \/ Told(g, c)
             \/ g.type \in GrantType /\ \E s : Leased(s, c, g.ip)
             \/ ~NoLease(c) /\ (Single(c) => NoLease(c)')
  <2>1. g.mac = c /\ g.type \in GrantType \cup {"DHCP_TIMEOUT"} /\ Lies(g)'
    BY <1>2 DEF Told
  <2>2. Lies(g) \/ \E j \in 1..Len(out) : out[j] = g
    BY <1>0, <2>1, LiesNew
  <2>3. CASE Lies(g)
    BY <2>1, <2>3 DEF Told
  <2>4. CASE \E j \in 1..Len(out) : out[j] = g
    BY <2>1, <2>4 DEF Tells
  <2> QED
    BY <2>2, <2>3, <2>4
<1>3. ASSUME acks[c] = 0  PROVE Fresh(c)'
  <2>1. NoLease(c) /\ \A g : ~Told(g, c)
    BY <1>3 DEF Granted, Fresh
  <2>2. NoLease(c)'
    BY <1>1, <2>1 DEF NoLease
  <2>3. \A g : ~Told(g, c)'
    BY <1>2, <2>1 DEF NoLease
  <2> QED
    BY <2>2, <2>3 DEF Fresh
<1>4. ASSUME acks[c] = 1, NEW s, NEW ip, Leased(s, c, ip)'  PROVE Known(s, c, ip)'
  <2>1. Leased(s, c, ip) /\ Single(c) /\ Known(s, c, ip)
    BY <1>1, <1>4 DEF Granted
  <2>2. Located(s, c, ip)'
    BY <2>1 DEF StaysLocated
  <2>3. ~NoLease(c)'
    BY <1>4 DEF NoLease
  <2>4. ASSUME NEW g, Told(g, c)'  PROVE g.type \in GrantType /\ g.ip = ip
    <3>1. CASE Told(g, c)
      BY <2>1, <3>1 DEF Known
    <3>2. ASSUME g.type \in GrantType, NEW r, Leased(r, c, g.ip)  PROVE g.type \in GrantType /\ g.ip = ip
      BY <2>1, <3>2, SingleIp
    <3> QED
      BY <1>2, <2>1, <2>3, <2>4, <3>1, <3>2
  <2> QED
    BY <2>2, <2>4 DEF Known
<1>5. acks[c] = 1 => Single(c)'
  BY <1>1 DEF Granted
<1> QED
  BY <1>3, <1>4, <1>5 DEF Granted

\* What is on its way stays so until it is there.
LEMMA ComingKept ==
  ASSUME Shape, Queues, NEW got, NEW m, NEW to, NEW out, Flows(got, m, to, out),
         NEW s, NEW c, NEW ip, Coming(s, c, ip), PassesOn(got, m, to, out, c, s, c)
  PROVE  \/ Coming(s, c, ip)'
         \/ /\ got \in Links /\ Between(s, c, got) /\ c = got[2]
            /\ link[got][1].type \in GrantType /\ link[got][1].mac = c /\ link[got][1].ip = ip
<1>1. PICK l, g : /\ l \in Links /\ Between(s, c, l) /\ On(l, g)
                  /\ g.type \in GrantType /\ g.mac = c /\ g.ip = ip
  BY DEF Coming
<1>2. \/ \E k \in Links : Between(s, c, k)' /\ On(k, g)'
      \/ l = got /\ g = link[got][1] /\ c = got[2]
  BY <1>1, BetweenMoves DEF PassesOn
<1>3. Links' = Links
  BY SameLinks
<1> QED
  BY <1>1, <1>2, <1>3 DEF Coming

LEMMA GoingKept ==
  ASSUME Shape, Queues, NEW got, NEW m, NEW to, NEW out, Flows(got, m, to, out),
         NEW s, NEW c, NEW ip, Going(s, c, ip), PassesOn(got, m, to, out, c, c, s)
  PROVE  \/ Going(s, c, ip)'
         \/ /\ got \in Links /\ Between(c, s, got) /\ s = got[2]
            /\ link[got][1].type \in {"DHCP_REQUEST_EXTEND", "DHCP_RELEASE"}
            /\ link[got][1].mac = c /\ link[got][1].ip = ip
<1>1. PICK l, g : /\ l \in Links /\ Between(c, s, l) /\ On(l, g)
                  /\ g.type \in {"DHCP_REQUEST_EXTEND", "DHCP_RELEASE"} /\ g.mac = c /\ g.ip = ip
  BY DEF Going
<1>2. \/ \E k \in Links : Between(c, s, k)' /\ On(k, g)'
      \/ l = got /\ g = link[got][1] /\ s = got[2]
  BY <1>1, BetweenMoves DEF PassesOn
<1>3. Links' = Links
  BY SameLinks
<1> QED
  BY <1>1, <1>2, <1>3 DEF Going

LEMMA NoLinkPasses ==
  ASSUME Shape, NEW m, NEW to, NEW out, NEW c, NEW x, NEW y
  PROVE  PassesOn(NoLink, m, to, out, c, x, y)
BY NoLinkIs DEF PassesOn

\* Nothing is taken from a link: what was on its way still is.
LEMMA LocatedSent ==
  ASSUME Shape, Queues, NEW m, NEW to, NEW out, Flows(NoLink, m, to, out), NEW s, NEW c, NEW ip
  PROVE  /\ Coming(s, c, ip) => Coming(s, c, ip)'
         /\ Going(s, c, ip) => Going(s, c, ip)'
BY NoLinkIs, NoLinkPasses, ComingKept, GoingKept

LEMMA SettledKept ==
  ASSUME NEW got, NEW m, NEW to, NEW out, Flows(got, m, to, out), NEW s, NEW c, NEW ip,
         Settled(s, c, ip), current_ip'[c] = current_ip[c], c \in extending' => c \in extending
  PROVE  Settled(s, c, ip)'
<1>1. Links' = Links /\ \A l : Reach(l)' = Reach(l)
  BY SameLinks
<1> QED
  BY <1>1 DEF Settled

LEMMA SameFollows ==
  ASSUME NetTyped, servers' = servers, NEW c
  PROVE  LeasesFollow(c)
<1>1. ASSUME NEW s \in DOMAIN servers  PROVE Len(servers[s].given) \in Nat
  <2>1. servers[s].given \in Seq(Grant)
    BY DEF NetTyped, Typed
  <2> QED
    BY <2>1
<1> QED
  BY <1>1, FollowsSame DEF LeasesFollow

LEMMA UseCommands ==
  ASSUME NetTyped, NEW d \in Mac, NEW f, Commands(d, f), NEW c \in Mac, Granted(c)
  PROVE  Granted(c)'
<1>0. Shape /\ Queues
  BY DEF NetTyped
<1> PICK to : to = Neighbors(d)
  OBVIOUS
<1>1. /\ f \in NetFrame /\ f.mac = d /\ Flows(NoLink, d, to, <<f>>)
      /\ servers' = servers /\ acks' = acks
  BY DEF Commands
<1>2. \A j \in 1..Len(<<f>>) : <<f>>[j] = f
  BY <1>1
<1>3. f.type \notin GrantType \cup {"DHCP_TIMEOUT"}
  BY DEF Commands, GrantType
<1>4. Tells(<<f>>, c)
  BY <1>2, <1>3 DEF Tells
<1>5. ASSUME NEW s, NEW ip, Settled(s, c, ip)  PROVE Located(s, c, ip)'
  <2>1. CASE c # d \/ f.type \in {"DHCP_DISCOVER", "DHCP_REQUEST"}
    <3>1. current_ip'[c] = current_ip[c] /\ (c \in extending' => c \in extending)
      BY <2>1 DEF Commands, NetTyped
    <3> QED
      BY <1>1, <1>5, <3>1, SettledKept DEF Located
  <2>2. CASE c = d /\ f.type \in {"DHCP_REQUEST_EXTEND", "DHCP_RELEASE"}
    <3>1. f.ip = ip
      BY <1>5, <2>2 DEF Commands, Settled
    <3>2. PICK l \in Links : l[1] = c /\ s \in Reach(l)
      BY <1>5 DEF Settled
    <3>3. l[2] \in to
      BY <1>0, <2>2, <3>2, NeighborsAll
    <3>4. 1 \in 1..Len(<<f>>) /\ <<f>>[1] = f
      BY <1>1, OneFrame
    <3>5. On(l, <<f>>[1])'
      BY <1>0, <1>1, <2>2, <3>2, <3>3, <3>4, OnPut
    <3>6. c \in Reach(Rev(l))
      BY <1>0, <3>2, LinkPairs, ReachEnd
    <3>7. Links' = Links /\ \A k : Reach(k)' = Reach(k)
      BY <1>1, SameLinks
    <3>8. Between(c, s, l)'
      BY <3>2, <3>6, <3>7 DEF Between
    <3>9. Going(s, c, ip)'
      BY <1>1, <2>2, <3>1, <3>4, <3>5, <3>7, <3>8 DEF Going
    <3> QED
      BY <3>9 DEF Located
  <2> QED
    BY <2>1, <2>2 DEF Commands
<1>6. ASSUME NEW s, NEW ip, Located(s, c, ip)  PROVE Located(s, c, ip)'
  BY <1>0, <1>1, <1>5, <1>6, LocatedSent DEF Located
<1>7. StaysLocated(c)
  BY <1>6 DEF StaysLocated, Known
<1>8. LeasesFollow(c)
  BY <1>1, SameFollows
<1> QED
  BY <1>1, <1>4, <1>7, <1>8, GrantedKept

LEMMA NothingTells == ASSUME NEW c PROVE Tells(<<>>, c)
<1>1. 1..Len(<<>>) = {}
  OBVIOUS
<1> QED
  BY <1>1 DEF Tells

LEMMA UseClears ==
  ASSUME NetTyped, NEW d \in Mac, Clears(d), NEW c \in Mac, Granted(c)
  PROVE  Granted(c)'
<1>0. Shape /\ Queues
  BY DEF NetTyped
<1>1. Flows(NoLink, d, {}, <<>>) /\ servers' = servers /\ acks' = acks
  BY DEF Clears
<1>2. ASSUME NEW s, NEW ip, Settled(s, c, ip)  PROVE Settled(s, c, ip)'
  <2>1. c # d
    BY <1>2 DEF Settled, Clears
  <2>2. current_ip'[c] = current_ip[c] /\ (c \in extending' => c \in extending)
    BY <2>1 DEF Clears, NetTyped
  <2> QED
    BY <1>1, <1>2, <2>2, SettledKept
<1>3. ASSUME NEW s, NEW ip, Located(s, c, ip)  PROVE Located(s, c, ip)'
  BY <1>0, <1>1, <1>2, <1>3, LocatedSent DEF Located
<1>4. StaysLocated(c)
  BY <1>3 DEF StaysLocated, Known
<1>5. LeasesFollow(c)
  BY <1>1, SameFollows
<1> QED
  BY <1>1, <1>4, <1>5, NothingTells, GrantedKept

\* One server's leases change.
LEMMA OneFollows ==
  ASSUME NetTyped, NEW s \in DOMAIN servers, NEW t, Typed(t), servers' = [servers EXCEPT ![s] = t],
         NEW c, Follows(servers[s].given, t.given, c)
  PROVE  LeasesFollow(c)
<1>1. /\ DOMAIN servers' = DOMAIN servers
      /\ \A r \in DOMAIN servers : servers'[r] = IF r = s THEN t ELSE servers[r]
  BY ServerTyped
<1>2. ASSUME NEW r \in DOMAIN servers  PROVE Len(servers[r].given) \in Nat
  <2>1. servers[r].given \in Seq(Grant)
    BY DEF NetTyped, Typed
  <2> QED
    BY <2>1
<1> QED
  BY <1>1, <1>2, FollowsSame DEF LeasesFollow

LEMMA AgesFollow ==
  ASSUME NEW G, Len(G) \in Nat, NEW o, NEW p, NEW n, Ages(G, o, p, n), NEW c
  PROVE  Follows(G, o.state.given, c)
<1> DEFINE H == o.state.given
           q == [k \in 1..Len(H) |-> p[n + k]]
<1>1. /\ \A k \in 1..Len(G) : p[k] \in 1..Len(G)
      /\ n \in Nat /\ n <= Len(G) /\ Len(H) = Len(G) - n
  <2>1. p \in [1..Len(G) -> 1..Len(G)] /\ n \in 0..Len(G) /\ Len(H) = Len(G) - n
    BY DEF Ages
  <2> HIDE DEF H
  <2>2. \A k \in 1..Len(G) : p[k] \in 1..Len(G)
    BY <2>1
  <2> QED
    BY <2>1, <2>2
<1>2. \A k \in 1..(Len(G) - n) : H[k].ip = G[p[n + k]].ip /\ H[k].mac = G[p[n + k]].mac
  BY DEF Ages
<1>3. \A j, k \in 1..Len(G) : p[j] = p[k] => j = k
  BY DEF Ages
<1>4. \A k \in 1..Len(H) : q[k] = p[n + k]
  OBVIOUS
<1> HIDE DEF H, q
<1>5. \A k \in 1..Len(H) : n + k \in 1..Len(G) /\ k \in 1..(Len(G) - n)
  BY <1>1
<1>6. ASSUME NEW i \in 1..Len(H), H[i].mac = c
      PROVE  /\ q[i] \in 1..Len(G) /\ G[q[i]].mac = c /\ G[q[i]].ip = H[i].ip
             /\ \A j \in 1..Len(H) : H[j].mac = c /\ q[i] = q[j] => i = j
  <2>1. q[i] \in 1..Len(G) /\ G[q[i]].mac = c /\ G[q[i]].ip = H[i].ip
    BY <1>1, <1>2, <1>4, <1>5, <1>6
  <2>2. ASSUME NEW j \in 1..Len(H), q[i] = q[j]  PROVE i = j
    <3>1. n + i = n + j
      BY <1>3, <1>4, <1>5, <2>2
    <3> QED
      BY <1>1, <3>1
  <2> QED
    BY <2>1, <2>2
<1>7. Follows(G, H, c)
  BY <1>6 DEF Follows
<1> QED
  BY <1>7 DEF H

LEMMA UseTime ==
  ASSUME NetTyped, NEW s \in Server, NEW o, EndsLeases(s, o), NEW c \in Mac, Granted(c)
  PROVE  Granted(c)'
<1>0. Shape /\ Queues
  BY DEF NetTyped
<1> PICK to : to = Neighbors(s)
  OBVIOUS
<1>1. /\ s \in DOMAIN servers /\ servers' = [servers EXCEPT ![s] = o.state] /\ Typed(o.state)
      /\ Flows(NoLink, s, to, o.out)
      /\ current_ip' = current_ip /\ extending' = extending /\ acks' = acks
  BY DEF EndsLeases
<1> DEFINE G == servers[s].given
           H == o.state.given
<1>2. \E p, n : Ages(G, o, p, n)
  BY DEF EndsLeases
<1>3. G \in Seq(Grant) /\ Len(G) \in Nat
  <2>1. G \in Seq(Grant)
    BY <1>1 DEF NetTyped, Typed
  <2> QED
    BY <2>1
<1>4. /\ DOMAIN servers' = DOMAIN servers
      /\ \A r \in DOMAIN servers : servers'[r] = IF r = s THEN o.state ELSE servers[r]
  BY <1>1, ServerTyped
<1>5. Follows(G, H, c)
  <2> HIDE DEF G, H
  <2> QED
    BY <1>2, <1>3, AgesFollow DEF H
<1>6. LeasesFollow(c)
  BY <1>1, <1>5, OneFollows
<1>7. ASSUME NEW j \in 1..Len(o.out), o.out[j].mac = c
      PROVE  ~NoLease(c) /\ (Single(c) => NoLease(c)')
  <2> HIDE DEF G, H
  <2>1. PICK p, n : Ages(G, o, p, n)
    BY <1>2
  <2>2. /\ Len(H) = Len(G) - n /\ Len(o.out) = n /\ n \in 0..Len(G)
        /\ \A k \in 1..Len(G) : p[k] \in 1..Len(G)
        /\ \A k, h \in 1..Len(G) : p[k] = p[h] => k = h
    BY <2>1 DEF Ages, H
  <2>3. j \in 1..n /\ j \in 1..Len(G)
    BY <1>3, <2>2
  <2>4. G[p[j]].mac = c
    BY <1>7, <2>1, <2>3 DEF Ages, Is
  <2>5. p[j] \in 1..Len(G)
    BY <2>2, <2>3
  <2>6. Leased(s, c, G[p[j]].ip)
    BY <1>1, <2>4, <2>5 DEF Leased, LeaseIn, G
  <2>7. ASSUME Single(c), NEW r, NEW ip, Leased(r, c, ip)'  PROVE FALSE
    <3>1. r \in DOMAIN servers
      BY <1>4, <2>7 DEF Leased
    <3>2. Leased(r, c, ip)
      BY <1>6, <2>7, FollowsLeases
    <3>3. r = s
      BY <2>6, <2>7, <3>2, SingleIp
    <3>4. PICK k \in 1..Len(H) : H[k].mac = c
      BY <1>4, <2>7, <3>1, <3>3 DEF Leased, LeaseIn, H
    <3>5. k \in 1..(Len(G) - n) /\ n + k \in 1..Len(G) /\ n + k # j
      BY <1>3, <2>2, <2>3
    <3>6. G[p[n + k]].mac = c
      BY <2>1, <3>4, <3>5 DEF Ages, H
    <3>7. p[n + k] \in 1..Len(G)
      BY <2>2, <3>5
    <3>8. p[n + k] = p[j]
      BY <1>1, <2>4, <2>5, <2>7, <3>6, <3>7 DEF Single, G
    <3> QED
      BY <2>2, <2>3, <3>5, <3>8
  <2> QED
    BY <2>6, <2>7 DEF NoLease
<1> HIDE DEF G, H
<1>8. Tells(o.out, c)
  BY <1>7 DEF Tells
<1>9. ASSUME NEW r, NEW ip, Located(r, c, ip)  PROVE Located(r, c, ip)'
  BY <1>0, <1>1, <1>9, LocatedSent, SettledKept DEF Located
<1>10. StaysLocated(c)
  BY <1>9 DEF StaysLocated, Known
<1> QED
  BY <1>1, <1>6, <1>8, <1>10, GrantedKept

LEMMA UseHandles ==
  ASSUME NetTyped, NEW d \in Mac, NEW from \in Machine, NEW f, Handles(d, from, f),
         faults' = {}, NEW c \in Mac, Granted(c)
  PROVE  Granted(c)'
<1> DEFINE got == <<from, d>>
<1>0. Shape /\ Queues
  BY DEF NetTyped
<1>1. /\ got \in Links /\ f \in NetFrame /\ f = link[got][1] /\ got[1] = from /\ got[2] = d
      /\ servers' = servers /\ extending' = extending /\ acks' = acks
  BY DEF Handles
<1>2. LeasesFollow(c)
  BY <1>1, SameFollows
<1>3. /\ \A s, ip : Leased(s, c, ip) => s \notin Mac
      /\ \A s : Between(c, s, got) => c # d
  <2>1. \A s, ip : Leased(s, c, ip) => s \notin Mac
    BY <1>0, MachinesAssumption DEF Leased, Shape
  <2>2. d \notin Reach(Rev(got))
    BY <1>0, <1>1, ReachEnd, ReachApart
  <2> QED
    BY <2>1, <2>2 DEF Between
<1>4. ASSUME NEW to, NEW out, Flows(got, d, to, out), out \in {<<>>, <<f>>}
      PROVE  Tells(out, c)
  <2> HIDE DEF got
  <2>1. Lies(f)
    BY <1>0, <1>1, <1>4, OnGot
  <2>2. ASSUME NEW j \in 1..Len(out)  PROVE out[j] = f
    BY <1>1, <1>4, <2>2
  <2> QED
    BY <2>1, <2>2 DEF Tells, Told
<1>5. ASSUME NEW to, NEW out, Flows(got, d, to, out), out \in {<<>>, <<f>>},
             \A s : PassesOn(got, d, to, out, c, s, c) /\ PassesOn(got, d, to, out, c, c, s),
             \A s, ip : Leased(s, c, ip) /\ Single(c) /\ Known(s, c, ip) =>
               /\ Settled(s, c, ip) => Settled(s, c, ip)'
               /\ f.type \in GrantType /\ f.mac = c /\ c = d /\ f.ip = ip /\ Between(s, c, got) =>
                    Settled(s, c, ip)'
      PROVE  Granted(c)'
  <2> HIDE DEF got
  <2>1. Tells(out, c)
    BY <1>4, <1>5
  <2>2. \A s : PassesOn(got, d, to, out, c, s, c) /\ PassesOn(got, d, to, out, c, c, s)
    BY <1>5
  <2>3. ASSUME NEW s, NEW ip, Leased(s, c, ip), Single(c), Known(s, c, ip)
        PROVE  Located(s, c, ip)'
    <3>1. Settled(s, c, ip) => Settled(s, c, ip)'
      BY <1>5, <2>3
    <3>2. Coming(s, c, ip) => Coming(s, c, ip)' \/ Settled(s, c, ip)'
      BY <1>0, <1>1, <1>5, <2>2, <2>3, ComingKept
    <3>3. Going(s, c, ip) => Going(s, c, ip)'
      <4>1. s # d
        BY <1>3, <2>3
      <4> QED
        BY <1>0, <1>1, <1>5, <2>2, <4>1, GoingKept
    <3> QED
      BY <2>3, <3>1, <3>2, <3>3 DEF Located, Known
  <2>4. StaysLocated(c)
    BY <2>3 DEF StaysLocated
  <2> QED
    BY <1>1, <1>2, <1>5, <2>1, <2>4, GrantedKept
<1>6. ASSUME f.mac # d  PROVE Granted(c)'
  <2>1. PICK to : to = Neighbors(d) \ {from}
    OBVIOUS
  <2>2. Flows(got, d, to, <<f>>) /\ current_ip' = current_ip
    BY <1>6, <2>1 DEF Handles
  <2> HIDE DEF got
  <2>3. \A k \in Onward(Links, got) : k[2] \in to
    BY <1>0, <1>1, <2>1, ReachOnward, NeighborsAll
  <2>4. \A x, y : PassesOn(got, d, to, <<f>>, c, x, y)
    BY <1>1, <2>3 DEF PassesOn
  <2>5. \A s, ip : Settled(s, c, ip) => Settled(s, c, ip)'
    BY <1>1, <2>2, SettledKept
  <2> QED
    BY <1>5, <1>6, <2>2, <2>4, <2>5
<1>7. ASSUME f.mac = d  PROVE Granted(c)'
  <2>1. PICK to, out : Flows(got, d, to, out) /\ out \in {<<>>, <<f>>}
    <3>1. PICK all : all = Neighbors(d) \ {from}
      OBVIOUS
    <3>2. Flows(got, d, {}, <<>>) \/ Flows(got, d, all, <<f>>)
      BY <1>7, <3>1 DEF Handles
    <3> QED
      BY <3>2
  <2>2. \A s : PassesOn(got, d, to, out, c, s, c) /\ PassesOn(got, d, to, out, c, c, s)
    BY <1>1, <1>3, <1>7 DEF PassesOn
  <2>3. ASSUME c # d  PROVE current_ip'[c] = current_ip[c]
    BY <1>7, <2>3 DEF Handles, Takes, NetTyped
  <2>4. ASSUME NEW s, NEW ip, Leased(s, c, ip), Single(c), Known(s, c, ip), c = d
        PROVE  /\ Settled(s, c, ip) => Settled(s, c, ip)'
               /\ f.type \in GrantType /\ Between(s, c, got) => Settled(s, c, ip)'
    <3> HIDE DEF got
    <3>1. Lies(f)
      BY <1>0, <1>1, <2>1, OnGot
    <3>2. f.type # "DHCP_TIMEOUT" /\ (f.type \in GrantType => f.ip = ip)
      BY <1>7, <2>4, <3>1 DEF Known, Told, GrantType
    <3>3. CASE f.type = "DHCP_OFFER"
      <4>1. current_ip' = current_ip /\ f.type \notin GrantType
        BY <1>7, <3>3 DEF Handles, GrantType
      <4> QED
        BY <1>1, <2>1, <4>1, SettledKept
    <3>4. CASE f.type \in GrantType
      <4>1. Takes(c, ip)
        BY <1>7, <2>4, <3>2, <3>4 DEF Handles, GrantType
      <4>2. c \notin extending /\ current_ip'[c] = ip
        BY <4>1 DEF Takes, NetTyped
      <4>3. Settled(s, c, ip) => Settled(s, c, ip)'
        <5>1. Settled(s, c, ip) => current_ip[c] = ip
          BY DEF Settled
        <5> QED
          BY <1>1, <2>1, <4>2, <5>1, SettledKept
      <4>4. Between(s, c, got) => \E l \in Links : l[1] = c /\ s \in Reach(l)
        BY <1>0, <1>1, <2>4, LinkPairs DEF Between
      <4>5. Links' = Links /\ \A l : Reach(l)' = Reach(l)
        BY <2>1, SameLinks
      <4>6. Between(s, c, got) => Settled(s, c, ip)'
        BY <1>1, <4>2, <4>4, <4>5 DEF Settled
      <4> QED
        BY <4>3, <4>6
    <3>5. f.type = "DHCP_OFFER" \/ f.type \in GrantType
      BY <1>7, <3>2 DEF Handles, GrantType
    <3> QED
      BY <3>3, <3>4, <3>5
  <2>5. ASSUME NEW s, NEW ip, c # d, Settled(s, c, ip)  PROVE Settled(s, c, ip)'
    BY <1>1, <2>1, <2>3, <2>5, SettledKept
  <2> HIDE DEF got
  <2> QED
    BY <1>5, <2>1, <2>2, <2>4, <2>5
<1> QED
  BY <1>6, <1>7

Below == {n \in Nat \X Nat : n[1] < n[2]}

LEMMA FirstThere ==
  ASSUME NEW S \in SUBSET Nat, NEW x \in S
  PROVE  First(S) # {}
<1>1. IsWellFoundedOn(Below, Nat)
  BY NatLessThanWellFounded DEF OpToRel, Below
<1>2. PICK i \in S : \A j \in S : <<j, i>> \notin Below
  BY <1>1, WFMin
<1>3. \A j \in S : ~(j < i)
  BY <1>2 DEF Below
<1>4. \A j \in S : i <= j
  BY <1>3
<1> QED
  BY <1>4 DEF First

\* A lease of the address is found.
LEMMA LeaseThere ==
  ASSUME NEW s, Typed(s), NEW f, NEW c, LeaseIn(s.given, c, f.ip)
  PROVE  ~Unleased(s, f)
<1> DEFINE S == { i \in 1..Len(s.given) : s.given[i].ip = f.ip }
<1>1. PICK i \in 1..Len(s.given) : s.given[i].ip = f.ip
  BY DEF LeaseIn
<1>2. s.given \in Seq(Grant)
  BY DEF Typed
<1>3. S \in SUBSET Nat /\ i \in S
  BY <1>1, <1>2
<1> HIDE DEF S
<1>4. First(S) # {}
  BY <1>3, FirstThere
<1> QED
  BY <1>4 DEF Unleased, Lease, S

\* What comes to a server goes no further.
LEMMA ServerTakes ==
  ASSUME Shape, NEW got \in Links, got[2] \in Server, NEW x, NEW y, Between(x, y, got)
  PROVE  y = got[2]
BY ReachNext, MachinesAssumption DEF Between

LEMMA AppendFollows ==
  ASSUME NEW G \in Seq(Grant), NEW x \in Grant, NEW c, x.mac # c
  PROVE  Follows(G, Append(G, x), c)
<1> DEFINE H == Append(G, x)
           n == Len(G)
           q == [i \in 1..n |-> i]
<1>1. n \in Nat /\ Len(H) = n + 1 /\ H[n + 1] = x /\ \A i \in 1..n : H[i] = G[i]
  OBVIOUS
<1>2. \A i \in 1..n : q[i] = i
  OBVIOUS
<1> HIDE DEF H, n, q
<1>3. \A i \in 1..Len(H) : H[i].mac = c => i \in 1..n
  BY <1>1
<1>4. ASSUME NEW i \in 1..Len(H), H[i].mac = c
      PROVE  /\ q[i] \in 1..n /\ G[q[i]].mac = c /\ G[q[i]].ip = H[i].ip
             /\ \A j \in 1..Len(H) : H[j].mac = c /\ q[i] = q[j] => i = j
  BY <1>1, <1>2, <1>3, <1>4
<1>5. Follows(G, H, c)
  BY <1>4 DEF Follows, n
<1> QED
  BY <1>5 DEF H

LEMMA MovedFollows ==
  ASSUME NEW G \in Seq(Grant), NEW i \in 1..Len(G), NEW x \in Grant,
         G[i].ip = x.ip, G[i].mac = x.mac, NEW c
  PROVE  Follows(G, Append(Without(G, i), x), c)
<1> DEFINE W == Without(G, i)
           H == Append(W, x)
           n == Len(G)
           q == [k \in 1..n |-> IF k = n THEN i ELSE IF k < i THEN k ELSE k + 1]
<1>0. n \in Nat
  OBVIOUS
<1>1. W \in Seq(Grant) /\ Len(W) = n - 1
      /\ \A k \in 1..(n - 1) : W[k] = IF k < i THEN G[k] ELSE G[k + 1]
  BY WithoutElements
<1> HIDE DEF W
<1>2. Len(H) = n /\ H[n] = x /\ \A k \in 1..(n - 1) : H[k] = W[k]
  BY <1>0, <1>1
<1>3. \A k \in 1..n : q[k] = IF k = n THEN i ELSE IF k < i THEN k ELSE k + 1
  OBVIOUS
<1> HIDE DEF H, n, q
<1>4. i \in 1..n
  BY DEF n
<1>5. ASSUME NEW k \in 1..n
      PROVE  q[k] \in 1..n /\ G[q[k]].mac = H[k].mac /\ G[q[k]].ip = H[k].ip
  <2>1. CASE k = n
    BY <1>2, <1>3, <1>4, <2>1
  <2>2. CASE k # n
    <3>1. k \in 1..(n - 1) /\ k + 1 \in 1..n
      BY <1>0, <1>1, <2>2
    <3>2. H[k] = IF k < i THEN G[k] ELSE G[k + 1]
      BY <1>0, <1>1, <1>2, <3>1
    <3>3. q[k] = IF k < i THEN k ELSE k + 1
      BY <1>3, <2>2
    <3> QED
      BY <3>1, <3>2, <3>3
  <2> QED
    BY <2>1, <2>2
<1>6. ASSUME NEW j \in 1..n, NEW k \in 1..n, q[j] = q[k]  PROVE j = k
  <2> DEFINE r(k0) == IF k0 = n THEN i ELSE IF k0 < i THEN k0 ELSE k0 + 1
  <2>1. q[j] = r(j) /\ q[k] = r(k)
    BY <1>3
  <2>2. r(j) = r(k)
    BY <1>6, <2>1
  <2>3. n \in Nat /\ i \in 1..n /\ j \in 1..n /\ k \in 1..n
    BY <1>0, <1>1, <1>4
  <2>4. CASE j = n
    BY <2>2, <2>3, <2>4
  <2>5. CASE k = n
    BY <2>2, <2>3, <2>5
  <2>6. CASE j # n /\ k # n
    BY <2>2, <2>3, <2>6
  <2> QED
    BY <2>4, <2>5, <2>6
<1>7. ASSUME NEW k \in 1..Len(H), H[k].mac = c
      PROVE  /\ q[k] \in 1..n /\ G[q[k]].mac = c /\ G[q[k]].ip = H[k].ip
             /\ \A j \in 1..Len(H) : H[j].mac = c /\ q[k] = q[j] => k = j
  BY <1>2, <1>5, <1>6, <1>7
<1>8. Follows(G, H, c)
  BY <1>7 DEF Follows, n
<1> QED
  BY <1>8 DEF H, W

\* A grant goes back the way the client's frame came.
LEMMA AnswerComing ==
  ASSUME Shape, Queues, NEW from, NEW s, <<from, s>> \in Links,
         NEW g, Flows(<<from, s>>, s, {from}, <<g>>), g.type \in GrantType,
         g.mac \in Reach(Rev(<<from, s>>))
  PROVE  Coming(s, g.mac, g.ip)'
<1> DEFINE l == Rev(<<from, s>>)
<1>1. /\ l \in Links /\ l[1] = s /\ l[2] = from /\ Rev(l) = <<from, s>>
      /\ s \in Reach(Rev(l))
  BY LinkPairs, ReachEnd
<1> HIDE DEF l
<1>2. 1 \in 1..Len(<<g>>) /\ <<g>>[1] = g
  OBVIOUS
<1>3. On(l, <<g>>[1])'
  BY <1>1, <1>2, OnPut
<1>4. Links' = Links /\ \A k : Reach(k)' = Reach(k)
  BY SameLinks
<1>5. Between(s, g.mac, l)'
  BY <1>1, <1>4 DEF Between, l
<1> QED
  BY <1>1, <1>2, <1>3, <1>4, <1>5 DEF Coming

LEMMA UseServes ==
  ASSUME NetTyped, Asks, NEW s \in Server, NEW from \in Machine, NEW f, NEW o, Serves(s, from, f, o),
         faults' = {}, NEW c \in Mac, Granted(c)
  PROVE  Granted(c)'
<1> DEFINE got == <<from, s>>
           G == servers[s].given
           H == o.state.given
<1>0. Shape /\ Queues /\ Typed(servers[s])
  BY DEF NetTyped, Serves
<1>1. /\ got \in Links /\ f \in NetFrame /\ f = link[got][1] /\ got[1] = from /\ got[2] = s
      /\ s \in DOMAIN servers /\ servers' = [servers EXCEPT ![s] = o.state] /\ Typed(o.state)
      /\ Flows(got, s, {from}, o.out)
      /\ current_ip' = current_ip /\ extending' = extending
  BY DEF Serves
<1>2. G \in Seq(Grant)
  BY <1>0 DEF Typed
<1>3. ~Crosses(servers[s], f) /\ o.state.pool[Kept] = 0
  <2>1. ~(o.state.pool[Kept] > 0) /\ ~Crosses(servers[s], f)
    BY DEF Serves, NewFaults, Crosses
  <2>2. o.state.pool[Kept] \in Nat
    BY <1>1, KeptNoAddress DEF Typed
  <2> QED
    BY <2>1, <2>2
<1>4. \/ /\ Silent(G, o)
         /\ f.type \in {"DHCP_RELEASE", "DHCP_REQUEST_EXTEND"} => Unleased(servers[s], f)
      \/ f.type = "DHCP_REQUEST" /\ Grants(servers[s].offered, G, f, o)
      \/ /\ f.type = "DHCP_REQUEST_EXTEND"
         /\ \E i \in Lease(servers[s], f.ip) : Extends(G, i, f, o)
  <2>1. f.ip \in AnyIp /\ o \in Handle(servers[s], f)
    BY <1>1 DEF NetFrame, Serves
  <2> QED
    BY <1>0, <1>3, <2>1, HandleAnswer
<1>5. f.mac \in Mac /\ acks \in [Mac -> Nat] /\ f.ip \in AnyIp /\ f.time \in Time /\ Asked(f.time) \in Time
  BY <1>1, TimeTypes DEF NetFrame, NetTyped
<1> HIDE DEF got, G, H
<1>6. ASSUME acks'[c] = acks[c], Follows(G, H, c), Tells(o.out, c),
             f.mac = c /\ f.type \in {"DHCP_RELEASE", "DHCP_REQUEST_EXTEND"} /\ LeaseIn(G, c, f.ip)
               /\ Between(c, s, got) => Coming(s, c, f.ip)'
      PROVE  Granted(c)'
  <2>1. LeasesFollow(c)
    BY <1>1, <1>6, OneFollows DEF G, H
  <2>2. \A x, y : PassesOn(got, s, {from}, o.out, c, x, y)
    BY <1>0, <1>1, ServerTakes DEF PassesOn
  <2>3. ASSUME NEW r, NEW ip, Leased(r, c, ip), Located(r, c, ip)  PROVE Located(r, c, ip)'
    <3>1. CASE Settled(r, c, ip)
      BY <1>1, <3>1, SettledKept DEF Located
    <3>2. CASE Coming(r, c, ip)
      <4>1. c # s
        BY MachinesAssumption
      <4>2. Coming(r, c, ip)'
        BY <1>0, <1>1, <2>2, <3>2, <4>1, ComingKept
      <4> QED
        BY <4>2 DEF Located
    <3>3. CASE Going(r, c, ip)
      <4>1. \/ Going(r, c, ip)'
            \/ /\ Between(c, r, got) /\ r = s
               /\ f.type \in {"DHCP_REQUEST_EXTEND", "DHCP_RELEASE"} /\ f.mac = c /\ f.ip = ip
        BY <1>0, <1>1, <2>2, <3>3, GoingKept
      <4>2. CASE Going(r, c, ip)'
        BY <4>2 DEF Located
      <4>3. CASE /\ Between(c, r, got) /\ r = s
                 /\ f.type \in {"DHCP_REQUEST_EXTEND", "DHCP_RELEASE"} /\ f.mac = c /\ f.ip = ip
        <5>1. LeaseIn(G, c, f.ip)
          BY <2>3, <4>3 DEF Leased, G
        <5>2. Coming(r, c, ip)'
          BY <1>6, <4>3, <5>1
        <5> QED
          BY <5>2 DEF Located
      <4> QED
        BY <4>1, <4>2, <4>3
    <3> QED
      BY <2>3, <3>1, <3>2, <3>3 DEF Located
  <2>4. StaysLocated(c)
    BY <2>3 DEF StaysLocated, Known
  <2> QED
    BY <1>1, <1>6, <2>1, <2>4, GrantedKept
<1>7. ASSUME NEW g, o.out = <<g>>, g.mac # c \/ g.type \notin GrantType \cup {"DHCP_TIMEOUT"}
      PROVE  Tells(o.out, c)
  <2>1. \A j \in 1..Len(o.out) : o.out[j] = g
    BY <1>7
  <2> QED
    BY <1>7, <2>1 DEF Tells
<1>8. ASSUME Silent(G, o), f.type \in {"DHCP_RELEASE", "DHCP_REQUEST_EXTEND"} => Unleased(servers[s], f)
      PROVE  Granted(c)'
  <2>1. Len(G) \in Nat
    BY <1>2
  <2>2. Follows(G, H, c)
    BY <1>8, <2>1, FollowsSame DEF Silent, H
  <2>3. CASE o.out = <<>>
    <3>1. acks' = acks /\ Tells(o.out, c)
      BY <2>3, NothingTells DEF Serves
    <3> QED
      BY <1>0, <1>6, <1>8, <2>2, <3>1, LeaseThere DEF G
  <2>4. ASSUME NEW a, NEW m, NEW t, o.out = <<Frame("DHCP_OFFER", m, a, t)>>  PROVE Granted(c)'
    <3> DEFINE g == Frame("DHCP_OFFER", m, a, t)
    <3>1. g.type = "DHCP_OFFER" /\ o.out = <<g>>
      BY <2>4 DEF Frame
    <3> HIDE DEF g
    <3>2. g.type \notin GrantType \cup {"DHCP_TIMEOUT"} /\ o.out[1].type # "DHCP_ACK"
      BY <3>1 DEF GrantType
    <3>3. acks' = acks
      BY <3>2 DEF Serves
    <3>4. Tells(o.out, c)
      BY <1>7, <3>1, <3>2
    <3> QED
      BY <1>0, <1>6, <1>8, <2>2, <3>3, <3>4, LeaseThere DEF G
  <2> QED
    BY <1>8, <2>3, <2>4 DEF Silent
<1>9. ASSUME f.type = "DHCP_REQUEST", Grants(servers[s].offered, G, f, o)  PROVE Granted(c)'
  <2> DEFINE g == Frame("DHCP_ACK", f.mac, f.ip, Asked(f.time))
             x == Granting(f)
  <2>1. x \in Grant /\ x.mac = f.mac /\ x.ip = f.ip
    BY <1>5 DEF Granting, Grant
  <2>2. H = Append(G, x) /\ o.out = <<g>>
    BY <1>9 DEF Grants, H
  <2>3. g.type = "DHCP_ACK" /\ g.mac = f.mac /\ g.ip = f.ip
    BY DEF Frame
  <2> HIDE DEF g, x
  <2>4. acks' = [acks EXCEPT ![f.mac] = @ + 1]
    <3>1. o.out # <<>> /\ o.out[1].type = "DHCP_ACK"
      BY <2>2, <2>3
    <3> QED
      BY <3>1 DEF Serves
  <2>5. CASE c # f.mac
    <3>1. acks'[c] = acks[c]
      BY <1>5, <2>4, <2>5
    <3>2. Follows(G, H, c)
      BY <1>2, <2>1, <2>2, <2>5, AppendFollows
    <3>3. Tells(o.out, c)
      BY <1>7, <2>2, <2>3, <2>5
    <3> QED
      BY <1>6, <2>5, <3>1, <3>2, <3>3
  <2>6. CASE c = f.mac /\ acks[c] # 0
    <3>1. acks'[c] # 0 /\ acks'[c] # 1
      BY <1>5, <2>4, <2>6
    <3> QED
      BY <3>1 DEF Granted
  <2>7. CASE c = f.mac /\ acks[c] = 0
    <3>1. acks'[c] = 1 /\ NoLease(c) /\ \A h : ~Told(h, c)
      BY <1>5, <2>4, <2>7 DEF Granted, Fresh
    <3>2. /\ DOMAIN servers' = DOMAIN servers
          /\ \A r \in DOMAIN servers : servers'[r] = IF r = s THEN o.state ELSE servers[r]
      BY <1>1, ServerTyped
    <3>3. ASSUME NEW r \in DOMAIN servers, NEW i \in 1..Len(servers'[r].given), servers'[r].given[i].mac = c
          PROVE  r = s /\ i = Len(G) + 1 /\ servers'[r].given[i].ip = f.ip
      <4>1. r = s
        <5>1. ASSUME r # s  PROVE Leased(r, c, servers'[r].given[i].ip)
          BY <3>2, <3>3, <5>1 DEF Leased, LeaseIn
        <5> QED
          BY <3>1, <5>1 DEF NoLease
      <4>2. i \in 1..Len(H) /\ H[i].mac = c /\ servers'[r].given[i] = H[i]
        BY <3>2, <3>3, <4>1 DEF H
      <4>3. Len(G) \in Nat /\ Len(H) = Len(G) + 1 /\ H[Len(G) + 1] = x /\ \A k \in 1..Len(G) : H[k] = G[k]
        BY <1>2, <2>2
      <4>4. ASSUME i \in 1..Len(G)  PROVE FALSE
        <5>1. G[i].mac = c
          BY <4>2, <4>3, <4>4
        <5>2. Leased(s, c, G[i].ip)
          BY <1>1, <4>4, <5>1 DEF Leased, LeaseIn, G
        <5> QED
          BY <3>1, <5>2 DEF NoLease
      <4>5. i = Len(G) + 1
        BY <4>2, <4>3, <4>4
      <4> QED
        BY <2>1, <4>1, <4>2, <4>3, <4>5
    <3>4. Single(c)'
      BY <3>2, <3>3 DEF Single
    <3>5. Coming(s, c, f.ip)'
      <4>1. On(got, f)
        BY <1>0, <1>1, OnGot
      <4>2. f.mac \in Reach(Rev(got))
        BY <1>1, <1>9, <4>1 DEF Asks, Asking, From
      <4>3. g.type \in GrantType
        BY <2>3 DEF GrantType
      <4> QED
        BY <1>0, <1>1, <2>2, <2>3, <2>7, <4>2, <4>3, AnswerComing DEF got
    <3>6. ASSUME NEW h, Told(h, c)'  PROVE h.type \in GrantType /\ h.ip = f.ip
      <4>1. Lies(h)' /\ h.mac = c /\ h.type \in GrantType \cup {"DHCP_TIMEOUT"}
        BY <3>6 DEF Told
      <4>2. ~Lies(h)
        BY <3>1, <4>1 DEF Told
      <4>3. \E j \in 1..Len(o.out) : o.out[j] = h
        BY <1>0, <1>1, <4>1, <4>2, LiesNew
      <4>4. h = g
        BY <2>2, <4>3
      <4> QED
        BY <2>3, <4>4 DEF GrantType
    <3>7. ASSUME NEW r, NEW ip, Leased(r, c, ip)'  PROVE Known(r, c, ip)'
      <4>1. r \in DOMAIN servers /\ \E i \in 1..Len(servers'[r].given) :
              servers'[r].given[i].ip = ip /\ servers'[r].given[i].mac = c
        BY <3>2, <3>7 DEF Leased, LeaseIn
      <4>2. r = s /\ ip = f.ip
        BY <3>3, <4>1
      <4> QED
        BY <3>5, <3>6, <4>2 DEF Known, Located
    <3> QED
      BY <3>1, <3>4, <3>7 DEF Granted
  <2> QED
    BY <2>5, <2>6, <2>7
<1>10. ASSUME f.type = "DHCP_REQUEST_EXTEND", NEW i \in Lease(servers[s], f.ip), Extends(G, i, f, o)
       PROVE  Granted(c)'
  <2> DEFINE time == Longer(G[i].time, f.time)
             g == Frame("DHCP_RESPONSE_EXTEND", f.mac, f.ip, time)
             x == Extending(f, f.ip, time)
  <2>1. i \in 1..Len(G) /\ G[i].ip = f.ip /\ H = Append(Without(G, i), x) /\ o.out = <<g>>
    BY <1>10 DEF Extends, H
  <2>2. G[i].mac = f.mac
    BY <1>3, <1>10 DEF Crosses, G
  <2>3. time \in Time
    <3>1. G[i] \in Grant
      BY <1>2, <2>1
    <3> QED
      BY <1>5, <3>1, TimeTypes DEF Grant
  <2>4. x \in Grant /\ x.mac = f.mac /\ x.ip = f.ip
    <3> HIDE DEF time
    <3> QED
      BY <1>5, <2>3 DEF Extending, Grant
  <2>5. g.type = "DHCP_RESPONSE_EXTEND" /\ g.mac = f.mac /\ g.ip = f.ip
    BY DEF Frame
  <2> HIDE DEF g, x, time
  <2>6. acks' = acks
    <3>1. o.out[1].type # "DHCP_ACK"
      BY <2>1, <2>5
    <3> QED
      BY <3>1 DEF Serves
  <2>7. Follows(G, H, c)
    BY <1>2, <2>1, <2>2, <2>4, MovedFollows
  <2>8. Leased(s, f.mac, f.ip)
    BY <1>1, <2>1, <2>2 DEF Leased, LeaseIn, G
  <2>9. g.type \in GrantType
    BY <2>5 DEF GrantType
  <2>10. Tells(o.out, c)
    <3>1. \A j \in 1..Len(o.out) : o.out[j] = g
      BY <2>1
    <3> QED
      BY <2>5, <2>8, <2>9, <3>1 DEF Tells
  <2>11. ASSUME f.mac = c, Between(c, s, got)  PROVE Coming(s, c, f.ip)'
    <3>1. g.mac \in Reach(Rev(got))
      BY <2>5, <2>11 DEF Between
    <3> QED
      BY <1>0, <1>1, <2>1, <2>5, <2>9, <2>11, <3>1, AnswerComing DEF got
  <2> QED
    BY <1>6, <2>6, <2>7, <2>10, <2>11
<1> QED
  BY <1>4, <1>8, <1>9, <1>10

LEMMA InitUse == NetInit => UseInv
<1> SUFFICES ASSUME NetInit PROVE UseInv
  OBVIOUS
<1>1. PICK setup \in Setups :
        /\ servers = [s \in DOMAIN setup.pool |-> AddPool(InitServer, setup.pool[s])]
        /\ link = [l \in setup.links |-> <<>>]
  BY DEF NetInit
<1>2. \A s \in DOMAIN servers : servers[s].given = <<>>
  BY <1>1, InitNet
<1>3. \A l \in Links : \A g : ~On(l, g)
  <2>1. \A l \in Links : 1..Len(link[l]) = {}
    BY <1>1 DEF Links
  <2> QED
    BY <2>1 DEF On
<1>4. Asks
  BY <1>3 DEF Asks
<1>5. ASSUME NEW c \in Mac  PROVE Granted(c)
  <2>1. acks[c] = 0
    BY DEF NetInit
  <2>2. NoLease(c)
    <3>1. \A s \in DOMAIN servers : 1..Len(servers[s].given) = {}
      BY <1>2
    <3> QED
      BY <3>1 DEF NoLease, Leased, LeaseIn
  <2>3. \A g : ~Told(g, c)
    BY <1>3 DEF Told, Lies
  <2> QED
    BY <2>1, <2>2, <2>3 DEF Granted, Fresh
<1> QED
  BY <1>4, <1>5 DEF UseInv

LEMMA NextUse == NetTyped /\ UseInv /\ [NetNext]_netVars => UseInv'
<1> SUFFICES ASSUME NetTyped, UseInv, [NetNext]_netVars PROVE UseInv'
  OBVIOUS
<1>1. CASE UNCHANGED netVars
  <2>1. Asks' = Asks
    BY <1>1 DEF netVars, Asks, From, Around, On, Links, Reach
  <2>2. \A c : Granted(c)' = Granted(c)
    BY <1>1 DEF netVars, client, Granted, Fresh, NoLease, Told, Lies, Single, Leased, Known, Located,
       Settled, Coming, Going, Between, On, Links, Reach
  <2> QED
    BY <1>1, <2>1, <2>2 DEF UseInv, netVars
<1>2. CASE NetNext
  <2>1. NetStep /\ Asks /\ Asks'
    BY <1>2, NextIsStep, NextAsks DEF UseInv
  <2>2. ASSUME faults' = {}, NEW c \in Mac  PROVE Granted(c)'
    <3>1. faults = {}
      <4>1. \A d, f : Commands(d, f) => faults \subseteq faults'
        BY DEF Commands
      <4>2. \A d : Clears(d) => faults \subseteq faults'
        BY DEF Clears
      <4>3. \A s, o : EndsLeases(s, o) => faults \subseteq faults'
        BY DEF EndsLeases
      <4>4. \A s, from, f, o : Serves(s, from, f, o) => faults \subseteq faults'
        BY DEF Serves, NewFaults
      <4>5. \A d, from, f : Handles(d, from, f) => faults \subseteq faults'
        BY DEF Handles, Takes
      <4>6. faults \subseteq faults'
        BY <2>1, <4>1, <4>2, <4>3, <4>4, <4>5 DEF NetStep
      <4> QED
        BY <2>2, <4>6
    <3>2. Granted(c)
      BY <3>1 DEF UseInv
    <3> QED
      BY <2>1, <2>2, <3>2, UseCommands, UseClears, UseTime, UseServes, UseHandles DEF NetStep
  <2> QED
    BY <2>1, <2>2 DEF UseInv
<1> QED
  BY <1>1, <1>2

LEMMA UseMeans == NetTyped /\ UseInv => GrantedIsUsed
<1> SUFFICES ASSUME NetTyped, UseInv, faults = {}, Quiet, NEW c \in Mac, NEW ip \in AnyIp,
                    acks[c] = 1, HasLease(c, ip)
             PROVE  current_ip[c] = ip
  BY DEF GrantedIsUsed
<1>1. \A l \in Links : \A g : ~On(l, g)
  <2>1. \A l \in Links : 1..Len(link[l]) = {}
    BY DEF Quiet, Links
  <2> QED
    BY <2>1 DEF On
<1>2. PICK s : Leased(s, c, ip)
  BY DEF HasLease, Leased, LeaseIn
<1>3. Located(s, c, ip)
  BY <1>2 DEF UseInv, Granted, Known
<1>4. Settled(s, c, ip)
  BY <1>1, <1>3 DEF Located, Coming, Going
<1> QED
  BY <1>4 DEF Settled

\* When everything has been delivered, a client that was granted one address and still
\* has the lease uses it: in every network without cycles, as long as no server keeps a
\* pointer into a frame, no late release or extension takes another's lease, and no
\* answer overtakes the end of extend_lease.
THEOREM GrantedIsUsedHolds == NetSpec => []GrantedIsUsed
<1>1. NetInit => UseInv
  BY InitUse
<1>2. NetTyped /\ UseInv /\ [NetNext]_netVars => UseInv'
  BY NextUse
<1>3. NetTyped /\ UseInv => GrantedIsUsed
  BY UseMeans
<1> QED
  BY <1>1, <1>2, <1>3, NetInductive, PTL DEF NetSpec

-----------------------------------------------------------------------------
(* Offers are taken back.                                                   *)

NoAck(o) == o.out = <<>> \/ o.out[1].type # "DHCP_ACK"

\* What a handler does with the offers.
OffersStay(s, f, o) ==
  /\ o.state.offered = s.offered /\ NoAck(o)
  /\ f.type = "DHCP_ACK" => Unoffered(s.offered, f)
Offers(s, f, o) ==
  /\ f.type = "DHCP_DISCOVER" /\ NoAck(o)
  /\ \E ip \in AnyIp : o.state.offered = Append(s.offered, [ip |-> ip, mac |-> f.mac])
Taken(s, f, o) ==
  /\ f.type = "DHCP_REQUEST" /\ \E i \in 1..Len(s.offered) : o.state.offered = Without(s.offered, i)
  /\ \E t : o.out = <<Frame("DHCP_ACK", f.mac, f.ip, t)>>
TakenBack(s, f, o) ==
  /\ f.type = "DHCP_ACK" /\ \E i \in 1..Len(s.offered) : o.state.offered = Without(s.offered, i)
  /\ o.out = <<>>

LEMMA HandleOffers ==
  ASSUME NEW s, Typed(s), NEW f, f.ip \in AnyIp, NEW o \in Handle(s, f)
  PROVE  OffersStay(s, f, o) \/ Offers(s, f, o) \/ Taken(s, f, o) \/ TakenBack(s, f, o)
<1> DEFINE P == s.pool
           O == s.offered
           G == s.given
           B == f.ip
           r == St(P, O, G, B)
           Goal == OffersStay(s, f, o) \/ Offers(s, f, o) \/ Taken(s, f, o) \/ TakenBack(s, f, o)
<1>1. P \in [Entry -> Nat] /\ O \in Seq(Offer) /\ G \in Seq(Grant) /\ s = St(P, O, G, s.buffer)
  BY DEF Typed
<1>2. WithBuffer(s, f.ip) = r
  BY <1>1, WithParts
<1>3. o \in CASE f.type = "DHCP_DISCOVER" -> Discover(WithBuffer(s, f.ip), f)
            [] f.type = "DHCP_REQUEST" -> Request(WithBuffer(s, f.ip), f)
            [] f.type = "DHCP_ACK" -> Ack(WithBuffer(s, f.ip), f)
            [] f.type = "DHCP_RELEASE" -> Release(WithBuffer(s, f.ip), f)
            [] f.type = "DHCP_REQUEST_EXTEND" -> ExtendRequest(WithBuffer(s, f.ip), f)
            [] OTHER -> Stay(WithBuffer(s, f.ip))
  BY DEF Handle, WithBuffer
<1>4. B \in AnyIp /\ r.offered = O
  BY StParts
<1>5. Typed(r)
  BY <1>1, <1>4, StTyped
<1> HIDE DEF P, O, G, B, r
<1>6. \/ f.type = "DHCP_DISCOVER" /\ o \in Discover(r, f)
      \/ f.type = "DHCP_REQUEST" /\ o \in Request(r, f)
      \/ f.type = "DHCP_ACK" /\ o \in Ack(r, f)
      \/ f.type # "DHCP_ACK" /\ o \in Release(r, f)
      \/ f.type # "DHCP_ACK" /\ o \in ExtendRequest(r, f)
      \/ f.type # "DHCP_ACK" /\ o \in Stay(r)
  BY <1>2, <1>3
<1>7. ASSUME f.type # "DHCP_ACK", o.state.offered = O, NoAck(o)  PROVE Goal
  BY <1>7 DEF OffersStay, O
<1>8. ASSUME f.type # "DHCP_ACK", o \in Stay(r)  PROVE Goal
  <2>1. o.state = r /\ o.out = <<>>
    BY <1>8, OutcomeParts DEF Stay
  <2> HIDE DEF Goal
  <2> QED
    BY <1>4, <1>7, <1>8, <2>1 DEF NoAck
<1>9. ASSUME f.type = "DHCP_DISCOVER", o \in Discover(r, f)  PROVE Goal
  <2>1. CASE o.state = r /\ o.out = <<>>
    <3> HIDE DEF Goal
    <3> QED
      BY <1>4, <1>7, <1>9, <2>1 DEF NoAck
  <2>2. ASSUME NEW e \in Lowest(r), o.state = Discovered(r, f, e),
               o.out = <<Frame("DHCP_OFFER", f.mac, Value(r, e), Asked(f.time))>>
        PROVE  Goal
    <3> DEFINE x == Offering(r, f, e)
    <3>1. Erase(r, e) = St(Less(P, e), O, G, B) /\ Erase(r, e).offered = O
      BY PushErase, StParts DEF r
    <3> HIDE DEF x
    <3>2. o.state = St(Less(P, e), Append(O, x), G, B)
      BY <2>2, <3>1, WithParts DEF Discovered, x
    <3>3. o.state.offered = Append(O, x)
      <4> DEFINE H == Append(O, x)
                 Q == Less(P, e)
      <4>1. o.state = St(Q, H, G, B)
        BY <3>2
      <4> HIDE DEF H, Q
      <4>2. o.state.offered = H
        BY <4>1, StParts
      <4> QED
        BY <4>2 DEF H
    <3>4. Value(r, e) \in AnyIp
      BY <1>5, <2>2, LowestEntry
    <3>5. x = [ip |-> Value(r, e), mac |-> f.mac]
      BY DEF x, Offering
    <3>6. o.out[1].type = "DHCP_OFFER"
      BY <2>2 DEF Frame
    <3>7. Offers(s, f, o)
      BY <1>9, <3>3, <3>4, <3>5, <3>6 DEF Offers, NoAck, O
    <3> QED
      BY <3>7
  <2> HIDE DEF Goal
  <2> QED
    BY <1>9, <2>1, <2>2, DiscoverState
<1>10. ASSUME f.type = "DHCP_REQUEST", o \in Request(r, f)  PROVE Goal
  <2>1. CASE o.state = r /\ o.out = <<>>
    <3> HIDE DEF Goal
    <3> QED
      BY <1>4, <1>7, <1>10, <2>1 DEF NoAck
  <2>2. ASSUME NEW i \in 1..Len(O), o.state = St(P, Without(O, i), Append(G, Granting(f)), B),
               o.out = <<Frame("DHCP_ACK", f.mac, f.ip, Asked(f.time))>>
        PROVE  Goal
    <3>1. o.state.offered = Without(O, i)
      BY <2>2, StParts
    <3>2. Taken(s, f, o)
      BY <1>10, <2>2, <3>1 DEF Taken, O
    <3> QED
      BY <3>2
  <2> HIDE DEF Goal
  <2> QED
    BY <1>1, <1>4, <1>10, <2>1, <2>2, RequestState DEF r
<1>11. ASSUME f.type = "DHCP_ACK", o \in Ack(r, f)  PROVE Goal
  <2>1. /\ o.out = <<>>
        /\ \/ o.state = r /\ Unoffered(O, f)
           \/ \E i \in 1..Len(O) : o.state = St(More(P, O[i].ip), Without(O, i), G, B)
    BY <1>1, <1>4, <1>11, AckState DEF r
  <2>2. CASE o.state = r /\ Unoffered(O, f)
    BY <1>4, <2>1, <2>2 DEF OffersStay, NoAck, O
  <2>3. ASSUME NEW i \in 1..Len(O), o.state = St(More(P, O[i].ip), Without(O, i), G, B)
        PROVE  TakenBack(s, f, o)
    <3>1. o.state.offered = Without(O, i)
      BY <2>3, StParts
    <3> QED
      BY <1>11, <2>1, <3>1 DEF TakenBack, O
  <2> QED
    BY <2>1, <2>2, <2>3
<1>12. ASSUME f.type # "DHCP_ACK", o \in Release(r, f)  PROVE Goal
  <2>1. o.out = <<>> /\ o.state.offered = O
    <3>1. /\ o.out = <<>>
          /\ o.state = r \/ \E i \in 1..Len(G) : o.state = St(More(P, Kept), O, Without(G, i), B)
      BY <1>1, <1>4, <1>12, ReleaseState DEF r
    <3> QED
      BY <1>4, <3>1, StParts
  <2> HIDE DEF Goal
  <2> QED
    BY <1>7, <1>12, <2>1 DEF NoAck
<1>13. ASSUME f.type # "DHCP_ACK", o \in ExtendRequest(r, f)  PROVE Goal
  <2> DEFINE g(i, e) == Frame("DHCP_RESPONSE_EXTEND", f.mac, IF e = Kept THEN B ELSE e, Longer(G[i].time, f.time))
             t(i, e) == St(Less(More(P, Kept), e), O,
                           Append(Without(G, i), Extending(f, IF e = Kept THEN B ELSE e, Longer(G[i].time, f.time))), B)
  <2>1. \/ o.state = r /\ o.out = <<>>
        \/ \E i, e : o.state = t(i, e) /\ o.out = <<g(i, e)>>
    BY <1>1, <1>4, <1>13, ExtendState, SMTT(30) DEF r
  <2>2. \A i, e : g(i, e).type = "DHCP_RESPONSE_EXTEND"
    BY DEF Frame
  <2>3. \A i, e : t(i, e).offered = O
    BY StParts
  <2> HIDE DEF Goal, g, t
  <2>4. o.state.offered = O /\ NoAck(o)
    BY <1>4, <2>1, <2>2, <2>3 DEF NoAck
  <2> QED
    BY <1>7, <1>13, <2>4
<1> HIDE DEF Goal
<1>14. Goal
  BY <1>6, <1>8, <1>9, <1>10, <1>11, <1>12, <1>13
<1> QED
  BY <1>14 DEF Goal

\* Frame f is at place i of link l.
At(l, i, f) == l \in Links /\ i \in 1..Len(link[l]) /\ link[l][i] = f

LEMMA AtOld ==
  ASSUME Queues, NEW got, NEW m, NEW to, NEW out, Flows(got, m, to, out),
         NEW l, NEW i, NEW f, At(l, i, f), ~(l = got /\ i = 1)
  PROVE  At(l, i - Dropped(l, got), f)'
<1>1. Links' = Links
  BY SameLinks
<1> QED
  BY <1>1, OldPlace DEF At

LEMMA AtNew ==
  ASSUME Queues, NEW got, NEW m, NEW to, NEW out, Flows(got, m, to, out),
         NEW l, NEW i, NEW f, At(l, i, f)'
  PROVE  \/ \E h : At(l, h, f) /\ i = h - Dropped(l, got) /\ ~(l = got /\ h = 1)
         \/ /\ l \in Links /\ l[1] = m /\ l[2] \in to
            /\ \E j \in 1..Len(out) : out[j] = f /\ i = Len(link[l]) - Dropped(l, got) + j
<1>1. l \in Links /\ i \in 1..Len(link'[l]) /\ link'[l][i] = f
  BY SameLinks DEF At
<1>2. ASSUME NEW h \in 1..Len(link[l]), i = h - Dropped(l, got), ~(l = got /\ h = 1), link'[l][i] = link[l][h]
      PROVE  At(l, h, f) /\ i = h - Dropped(l, got) /\ ~(l = got /\ h = 1)
  BY <1>1, <1>2 DEF At
<1>3. ASSUME NEW j \in 1..Len(out), i = Len(link[l]) - Dropped(l, got) + j, link'[l][i] = out[j]
      PROVE  out[j] = f
  BY <1>1, <1>3
<1> QED
  BY <1>1, <1>2, <1>3, NewPlace

LEMMA AtGot ==
  ASSUME Queues, NEW got \in Links, NEW m, NEW to, NEW out, Flows(got, m, to, out)
  PROVE  At(got, 1, link[got][1])
<1>1. Len(link[got]) \in Nat /\ Len(link[got]) > 0
  BY FlowLengths
<1>2. 1 \in 1..Len(link[got])
  BY <1>1
<1> QED
  BY <1>2 DEF At

LEMMA AtPut ==
  ASSUME Queues, NEW got, NEW m, NEW to, NEW f, Flows(got, m, to, <<f>>),
         NEW l \in Links, l[1] = m, l[2] \in to, NEW i, i = Len(link[l]) - Dropped(l, got) + 1
  PROVE  At(l, i, f)'
<1>1. 1 \in 1..Len(<<f>>) /\ <<f>>[1] = f
  OBVIOUS
<1>2. Links' = Links
  BY SameLinks
<1>3. PICK out : out = <<f>>
  OBVIOUS
<1>4. /\ Len(link[l]) - Dropped(l, got) + 1 \in 1..Len(link'[l])
      /\ link'[l][Len(link[l]) - Dropped(l, got) + 1] = out[1]
  BY <1>1, <1>3, PutPlace
<1> QED
  BY <1>1, <1>2, <1>3, <1>4 DEF At

\* From a client there is one way to a server.
LEMMA OneWay ==
  ASSUME Shape, NEW l \in Links, NEW k \in Links, l[1] = k[1], l[1] \in Mac,
         NEW x \in Reach(l), x \in Reach(k)
  PROVE  l = k
<1>1. /\ l = <<l[1], l[2]>> /\ k = <<k[1], k[2]>>
      /\ Rev(k) \in Links /\ Rev(k)[1] = k[2] /\ Rev(k)[2] = k[1] /\ Rev(Rev(k)) = k
  BY LinkPairs
<1>2. ASSUME l[2] # k[2]  PROVE FALSE
  <2>1. l \in Onward(Links, Rev(k))
    BY <1>1, <1>2 DEF Onward
  <2>2. x \in Reach(Rev(k))
    BY <1>1, <2>1, ReachOnward
  <2> QED
    BY <2>2, ReachApart
<1> QED
  BY <1>1, <1>2

\* What a step does with requests for an address and with acknowledgements: a client
\* hands them on, and nobody else sends a request.
HandsOn(got, m, to, out) ==
  /\ got \in Links => got[2] = m
  /\ got \in Links /\ m \in Mac /\ link[got][1].type \in {"DHCP_DISCOVER", "DHCP_ACK"} =>
       out = <<link[got][1]>> /\ \A k \in Onward(Links, got) : k[2] \in to
  /\ \A j \in 1..Len(out) : out[j].type = "DHCP_DISCOVER" =>
       /\ got \in Links /\ m \in Mac /\ out = <<link[got][1]>>
       /\ \A l \in Links : l[1] = m /\ l[2] \in to => l \in Onward(Links, got)

\* A request for an address comes to server s.
Heads(s, l, i, f) == At(l, i, f) /\ f.type = "DHCP_DISCOVER" /\ s \in Reach(l)

\* Where the request for an address on its way to s was.
LEMMA HeadsNew ==
  ASSUME NetTyped, NEW got, NEW m, NEW to, NEW out, Flows(got, m, to, out), HandsOn(got, m, to, out),
         NEW s, NEW l, NEW i, NEW f, Heads(s, l, i, f)'
  PROVE  \/ \E h : Heads(s, l, h, f) /\ i = h - Dropped(l, got) /\ ~(l = got /\ h = 1)
         \/ /\ got \in Links /\ m \in Mac /\ l \in Onward(Links, got)
            /\ Heads(s, got, 1, f) /\ i = Len(link[l]) - Dropped(l, got) + 1
<1>0. Shape /\ Queues /\ Links' = Links /\ \A k : Reach(k)' = Reach(k)
  BY SameLinks DEF NetTyped
<1>1. At(l, i, f)' /\ f.type = "DHCP_DISCOVER" /\ s \in Reach(l)
  BY <1>0 DEF Heads
<1>2. CASE \E h : At(l, h, f) /\ i = h - Dropped(l, got) /\ ~(l = got /\ h = 1)
  BY <1>1, <1>2 DEF Heads
<1>3. ASSUME l \in Links, l[1] = m, l[2] \in to, NEW j \in 1..Len(out), out[j] = f,
             i = Len(link[l]) - Dropped(l, got) + j
      PROVE  /\ got \in Links /\ m \in Mac /\ l \in Onward(Links, got)
             /\ Heads(s, got, 1, f) /\ i = Len(link[l]) - Dropped(l, got) + 1
  <2>1. got \in Links /\ m \in Mac /\ out = <<link[got][1]>> /\ l \in Onward(Links, got)
    BY <1>1, <1>3 DEF HandsOn
  <2>2. j = 1 /\ f = link[got][1]
    BY <1>3, <2>1
  <2>3. s \in Reach(got)
    BY <1>0, <1>1, <2>1, ReachOnward
  <2>4. At(got, 1, f)
    BY <1>0, <2>1, <2>2, AtGot
  <2> QED
    BY <1>1, <1>3, <2>1, <2>2, <2>3, <2>4 DEF Heads
<1> QED
  BY <1>0, <1>1, <1>2, <1>3, AtNew

-----------------------------------------------------------------------------
\* A server that was asked once has one offer out, or one request to come.
OneHeads(s) == \A l, k, i, j, f, g : Heads(s, l, i, f) /\ Heads(s, k, j, g) => l = k /\ i = j
NoHeads(s) == \A l, i, f : ~Heads(s, l, i, f)
Offered(s) == Len(servers[s].offered)
Token(s) == OneHeads(s) /\ Offered(s) <= 1 /\ (Offered(s) = 1 => NoHeads(s))

LEMMA OfferedNat == NetTyped => \A s \in DOMAIN servers : Offered(s) \in Nat
<1> SUFFICES ASSUME NetTyped, NEW s \in DOMAIN servers PROVE Offered(s) \in Nat
  OBVIOUS
<1>1. servers[s].offered \in Seq(Offer)
  BY DEF NetTyped, Typed
<1> QED
  BY <1>1 DEF Offered

LEMMA TokenKept ==
  ASSUME NetTyped, NetTyped', NEW got, NEW m, NEW to, NEW out,
         Flows(got, m, to, out), HandsOn(got, m, to, out),
         NEW s \in DOMAIN servers, s \in DOMAIN servers', Token(s),
         \/ Offered(s)' <= Offered(s)
         \/ /\ got \in Links /\ m \notin Mac /\ \E f : Heads(s, got, 1, f)
            /\ Offered(s)' = Offered(s) + 1
  PROVE  Token(s)'
<1>0. Shape /\ Offered(s) \in Nat /\ Offered(s)' \in Nat
  <2>1. Typed(servers'[s])
    BY DEF NetTyped
  <2>2. servers'[s].offered \in Seq(Offer)
    BY <2>1 DEF Typed
  <2>3. Offered(s)' \in Nat
    BY <2>2 DEF Offered
  <2> QED
    BY <2>3, OfferedNat DEF NetTyped
<1>1. ASSUME NEW l, NEW i, NEW f, Heads(s, l, i, f)', NEW k, NEW j, NEW g, Heads(s, k, j, g)'
      PROVE  l = k /\ i = j
  <2> DEFINE Old(a, b) == \E h, x : Heads(s, a, h, x) /\ b = h - Dropped(a, got) /\ ~(a = got /\ h = 1)
             New(a, b) == /\ got \in Links /\ m \in Mac /\ a \in Onward(Links, got)
                          /\ \E x : Heads(s, got, 1, x) /\ b = Len(link[a]) - Dropped(a, got) + 1
  <2>1. (Old(l, i) \/ New(l, i)) /\ (Old(k, j) \/ New(k, j))
    BY <1>1, HeadsNew
  <2>2. ASSUME Old(l, i), Old(k, j)  PROVE l = k /\ i = j
    BY <2>2 DEF Token, OneHeads
  <2>3. ASSUME NEW a, NEW b, Old(a, b), NEW x, Heads(s, got, 1, x)  PROVE FALSE
    BY <2>3 DEF Token, OneHeads
  <2>4. ASSUME New(l, i), New(k, j)  PROVE l = k /\ i = j
    <3>1. s \in Reach(l) /\ s \in Reach(k)
      BY <1>1, SameLinks DEF Heads
    <3>2. l \in Links /\ k \in Links /\ l[1] = k[1] /\ l[1] \in Mac
      BY <1>0, <2>4, ReachOnward DEF Onward
    <3>3. l = k
      BY <1>0, <3>1, <3>2, OneWay
    <3> QED
      BY <2>4, <3>3
  <2> QED
    BY <2>1, <2>2, <2>3, <2>4
<1>2. OneHeads(s)'
  BY <1>1 DEF OneHeads
<1>3. CASE Offered(s)' <= Offered(s)
  <2>1. Offered(s)' <= 1
    BY <1>0, <1>3 DEF Token
  <2>2. ASSUME Offered(s)' = 1, NEW l, NEW i, NEW f, Heads(s, l, i, f)'  PROVE FALSE
    <3>1. Offered(s) = 1
      BY <1>0, <1>3, <2>2 DEF Token
    <3>2. NoHeads(s)
      BY <3>1 DEF Token
    <3> QED
      BY <2>2, <3>2, HeadsNew DEF NoHeads
  <2> QED
    BY <1>2, <2>1, <2>2 DEF Token, NoHeads
<1>4. ASSUME got \in Links, m \notin Mac, NEW x, Heads(s, got, 1, x), Offered(s)' = Offered(s) + 1
      PROVE  Token(s)'
  <2>1. Offered(s)' <= 1
    BY <1>0, <1>4 DEF Token, NoHeads
  <2>2. ASSUME NEW l, NEW i, NEW f, Heads(s, l, i, f)'  PROVE FALSE
    <3>1. PICK h : Heads(s, l, h, f) /\ ~(l = got /\ h = 1)
      BY <1>4, <2>2, HeadsNew
    <3> QED
      BY <1>4, <3>1 DEF Token, OneHeads
  <2> QED
    BY <1>2, <2>1, <2>2 DEF Token, NoHeads
<1> QED
  BY <1>3, <1>4

\* The first request.
LEMMA TokenStarts ==
  ASSUME NetTyped, NEW d \in Mac, NEW to, NEW f, Flows(NoLink, d, to, <<f>>),
         \A l, i, g : At(l, i, g) => g.type # "DHCP_DISCOVER",
         NEW s \in DOMAIN servers, Offered(s)' = 0
  PROVE  Token(s)'
<1>0. Shape /\ Queues /\ \A k : Reach(k)' = Reach(k)
  BY SameLinks DEF NetTyped
<1>1. ASSUME NEW l, NEW i, NEW g, Heads(s, l, i, g)'
      PROVE  l \in Links /\ l[1] = d /\ s \in Reach(l) /\ i = Len(link[l]) - Dropped(l, NoLink) + 1
  <2>1. At(l, i, g)' /\ g.type = "DHCP_DISCOVER" /\ s \in Reach(l)
    BY <1>0, <1>1 DEF Heads
  <2>2. \A j \in 1..Len(<<f>>) : j = 1
    OBVIOUS
  <2> QED
    BY <1>0, <2>1, <2>2, AtNew
<1>2. ASSUME NEW l, NEW i, NEW x, Heads(s, l, i, x)', NEW k, NEW j, NEW g, Heads(s, k, j, g)'
      PROVE  l = k /\ i = j
  <2>1. /\ l \in Links /\ l[1] = d /\ s \in Reach(l) /\ i = Len(link[l]) - Dropped(l, NoLink) + 1
        /\ k \in Links /\ k[1] = d /\ s \in Reach(k) /\ j = Len(link[k]) - Dropped(k, NoLink) + 1
    BY <1>1, <1>2
  <2>2. l = k
    BY <1>0, <2>1, OneWay
  <2> QED
    BY <2>1, <2>2
<1>3. OneHeads(s)'
  BY <1>2 DEF OneHeads
<1> QED
  BY <1>3 DEF Token

-----------------------------------------------------------------------------
\* An acknowledgement of c on its way to s.
Acks(c, s, k, j, g) == At(k, j, g) /\ g.type = "DHCP_ACK" /\ g.mac = c /\ s \in Reach(k)

\* What is at place j of k comes where what is at place i of l comes, and later.
After(l, i, k, j) == (k = l /\ j > i) \/ k[2] \in Reach(Rev(l))

OfferedTo(s, c) == \E i \in 1..Len(servers[s].offered) : servers[s].offered[i].mac = c

\* An acknowledgement follows what c asked, and comes where he has an offer.
TakesBack(c) ==
  \A s \in DOMAIN servers :
    /\ OfferedTo(s, c) => \E k, j, g : Acks(c, s, k, j, g)
    /\ \A l, i, f : Heads(s, l, i, f) /\ f.mac = c =>
         \E k, j, g : Acks(c, s, k, j, g) /\ After(l, i, k, j)

LEMMA AcksMoves ==
  ASSUME NetTyped, NEW got, NEW m, NEW to, NEW out, Flows(got, m, to, out), HandsOn(got, m, to, out),
         NEW c, NEW s, NEW k, NEW j, NEW g, Acks(c, s, k, j, g)
  PROVE  \/ ~(k = got /\ j = 1) /\ Acks(c, s, k, j - Dropped(k, got), g)'
         \/ k = got /\ j = 1 /\ s = got[2]
         \/ k = got /\ j = 1 /\ got \in Links /\ \E h \in Onward(Links, got) : \E i :
              i = Len(link[h]) - Dropped(h, got) + 1 /\ Acks(c, s, h, i, g)'
<1>0. Shape /\ Queues /\ \A l : Reach(l)' = Reach(l)
  BY SameLinks DEF NetTyped
<1>1. At(k, j, g) /\ g.type = "DHCP_ACK" /\ g.mac = c /\ s \in Reach(k)
  BY DEF Acks
<1>2. CASE ~(k = got /\ j = 1)
  <2>1. At(k, j - Dropped(k, got), g)'
    BY <1>0, <1>1, <1>2, AtOld
  <2> QED
    BY <1>0, <1>1, <1>2, <2>1 DEF Acks
<1>3. ASSUME k = got, j = 1, s # got[2]
      PROVE  /\ got \in Links
             /\ \E h \in Onward(Links, got) : \E i : i = Len(link[h]) - Dropped(h, got) + 1 /\ Acks(c, s, h, i, g)'
  <2>1. got \in Links /\ g = link[got][1]
    BY <1>1, <1>3 DEF At
  <2>2. got[2] \in Mac /\ \E h \in Onward(Links, got) : s \in Reach(h)
    BY <1>0, <1>1, <1>3, <2>1, ReachNext
  <2>3. PICK h \in Onward(Links, got) : s \in Reach(h)
    BY <2>2
  <2>4. out = <<g>> /\ h[2] \in to /\ got[2] = m
    BY <1>1, <2>1, <2>2 DEF HandsOn
  <2>5. h \in Links /\ h[1] = m
    BY <1>0, <2>1, <2>4, ReachOnward
  <2>6. PICK i : i = Len(link[h]) - Dropped(h, got) + 1
    OBVIOUS
  <2>7. At(h, i, g)'
    BY <1>0, <2>4, <2>5, <2>6, AtPut
  <2> QED
    BY <1>0, <1>1, <2>1, <2>3, <2>6, <2>7 DEF Acks
<1> QED
  BY <1>2, <1>3

\* What it follows stays where it is.
LEMMA FollowMoves ==
  ASSUME NetTyped, NEW got, NEW m, NEW to, NEW out, Flows(got, m, to, out), HandsOn(got, m, to, out),
         NEW c, NEW s, NEW l, NEW i, NEW f, Heads(s, l, i, f), ~(l = got /\ i = 1),
         NEW k, NEW j, NEW g, Acks(c, s, k, j, g), After(l, i, k, j)
  PROVE  \E k2, j2 : Acks(c, s, k2, j2, g)' /\ After(l, i - Dropped(l, got), k2, j2)'
<1>0. Shape /\ Queues /\ \A h : Reach(h)' = Reach(h)
  BY SameLinks DEF NetTyped
<1>1. l \in Links /\ i \in 1..Len(link[l]) /\ s \in Reach(l) /\ k \in Links /\ j \in 1..Len(link[k])
  BY DEF Heads, Acks, At
<1>2. Len(link[l]) \in Nat /\ Len(link[k]) \in Nat /\ Dropped(l, got) \in {0, 1}
  BY <1>0, <1>1, FlowLengths
<1>3. ASSUME Acks(c, s, k, j - Dropped(k, got), g)'
      PROVE  After(l, i - Dropped(l, got), k, j - Dropped(k, got))'
  <2>1. CASE k = l /\ j > i
    <3>1. j - Dropped(k, got) > i - Dropped(l, got)
      BY <1>1, <1>2, <2>1
    <3> QED
      BY <2>1, <3>1 DEF After
  <2>2. CASE k[2] \in Reach(Rev(l))
    BY <1>0, <2>2 DEF After
  <2> QED
    BY <2>1, <2>2 DEF After
<1>4. ASSUME k = got, j = 1  PROVE got[2] \in Reach(Rev(l))
  BY <1>1, <1>2, <1>4 DEF After
<1>5. ASSUME k = got, j = 1, s = got[2]  PROVE FALSE
  BY <1>0, <1>1, <1>4, <1>5, ReachApart
<1>6. ASSUME k = got, j = 1, NEW h \in Onward(Links, got), NEW n,
             n = Len(link[h]) - Dropped(h, got) + 1, Acks(c, s, h, n, g)'
      PROVE  After(l, i - Dropped(l, got), h, n)'
  <2>1. /\ Rev(l) \in Links /\ Rev(Rev(l)) = l
        /\ h \in Links /\ h[1] \in Reach(Rev(l)) /\ h[1] \in Mac
    BY <1>0, <1>1, <1>4, <1>6, LinkPairs DEF Onward
  <2>2. h[2] \in Reach(Rev(l)) \/ h = l
    BY <1>0, <2>1, ReachClosed
  <2>3. CASE h = l
    <3>1. n > i - Dropped(l, got)
      BY <1>1, <1>2, <1>6, <2>3
    <3> QED
      BY <2>3, <3>1 DEF After
  <2>4. CASE h[2] \in Reach(Rev(l))
    BY <1>0, <2>4 DEF After
  <2> QED
    BY <2>2, <2>3, <2>4
<1> QED
  BY <1>3, <1>5, <1>6, AcksMoves

\* What it follows is handed on.
LEMMA FollowOn ==
  ASSUME NetTyped, NEW got, NEW m, NEW to, NEW out, Flows(got, m, to, out), HandsOn(got, m, to, out),
         NEW c, NEW s, got \in Links, NEW l \in Onward(Links, got), NEW i,
         NEW k, NEW j, NEW g, Acks(c, s, k, j, g), After(got, 1, k, j)
  PROVE  \E k2, j2 : Acks(c, s, k2, j2, g)' /\ After(l, i, k2, j2)'
<1>0. Shape /\ Queues /\ \A h : Reach(h)' = Reach(h)
  BY SameLinks DEF NetTyped
<1>1. got[2] \notin Reach(Rev(got)) /\ Reach(Rev(got)) \subseteq Reach(Rev(l)) /\ got[2] \in Reach(Rev(l))
  BY <1>0, ReachEnd, ReachApart, ReachOnward
<1>2. ~(k = got /\ j = 1)
  BY <1>1 DEF After
<1>3. Acks(c, s, k, j - Dropped(k, got), g)'
  BY <1>2, AcksMoves
<1>4. k[2] \in Reach(Rev(l))
  BY <1>1 DEF After
<1>5. After(l, i, k, j - Dropped(k, got))'
  BY <1>0, <1>4 DEF After
<1> QED
  BY <1>3, <1>5

\* What is received, is received as a request or an acknowledgement of c.
Receives(got, type, c) == got \in Links /\ link[got][1].type = type /\ link[got][1].mac = c

LEMMA BackKept ==
  ASSUME NetTyped, NEW got, NEW m, NEW to, NEW out, Flows(got, m, to, out), HandsOn(got, m, to, out),
         DOMAIN servers' = DOMAIN servers, NEW c, TakesBack(c),
         \A s \in DOMAIN servers : OfferedTo(s, c)' =>
           \/ OfferedTo(s, c) /\ ~(Receives(got, "DHCP_ACK", c) /\ s = got[2])
           \/ Receives(got, "DHCP_DISCOVER", c) /\ s = got[2]
  PROVE  TakesBack(c)'
<1>0. Shape /\ Queues
  BY DEF NetTyped
<1>1. ASSUME NEW s \in DOMAIN servers, OfferedTo(s, c)'  PROVE (\E k, j, g : Acks(c, s, k, j, g))'
  <2>1. CASE OfferedTo(s, c) /\ ~(Receives(got, "DHCP_ACK", c) /\ s = got[2])
    <3>1. PICK k, j, g : Acks(c, s, k, j, g)
      BY <2>1 DEF TakesBack
    <3>2. ~(k = got /\ j = 1 /\ s = got[2])
      BY <2>1, <3>1 DEF Acks, At, Receives
    <3> QED
      BY <3>1, <3>2, AcksMoves
  <2>2. CASE Receives(got, "DHCP_DISCOVER", c) /\ s = got[2]
    <3>1. PICK f : f = link[got][1]
      OBVIOUS
    <3>2. Heads(s, got, 1, f) /\ f.mac = c
      BY <1>0, <2>2, <3>1, AtGot, ReachEnd DEF Heads, Receives
    <3>3. PICK k, j, g : Acks(c, s, k, j, g) /\ After(got, 1, k, j)
      BY <3>2 DEF TakesBack
    <3>4. ~(k = got /\ j = 1)
      BY <3>1, <3>2, <3>3 DEF Acks, At, Heads
    <3> QED
      BY <3>3, <3>4, AcksMoves
  <2> QED
    BY <1>1, <2>1, <2>2
<1>2. ASSUME NEW s \in DOMAIN servers, NEW l, NEW i, NEW f, Heads(s, l, i, f)', f.mac = c
      PROVE  \E k, j, g : Acks(c, s, k, j, g)' /\ After(l, i, k, j)'
  <2>1. ASSUME NEW h, Heads(s, l, h, f), i = h - Dropped(l, got), ~(l = got /\ h = 1)
        PROVE  \E k, j, g : Acks(c, s, k, j, g)' /\ After(l, i, k, j)'
    <3>1. PICK k, j, g : Acks(c, s, k, j, g) /\ After(l, h, k, j)
      BY <1>2, <2>1 DEF TakesBack
    <3>2. \E k2, j2 : Acks(c, s, k2, j2, g)' /\ After(l, h - Dropped(l, got), k2, j2)'
      BY <2>1, <3>1, FollowMoves
    <3> QED
      BY <2>1, <3>2
  <2>2. ASSUME got \in Links, l \in Onward(Links, got), Heads(s, got, 1, f)
        PROVE  \E k, j, g : Acks(c, s, k, j, g)' /\ After(l, i, k, j)'
    <3>1. PICK k, j, g : Acks(c, s, k, j, g) /\ After(got, 1, k, j)
      BY <1>2, <2>2 DEF TakesBack
    <3> QED
      BY <2>2, <3>1, FollowOn
  <2> QED
    BY <1>2, <2>1, <2>2, HeadsNew
<1> QED
  BY <1>1, <1>2 DEF TakesBack

\* The offer that c takes is the only one of its server: all others are taken back.
LEMMA BackStarts ==
  ASSUME NetTyped, Asks, NEW s \in DOMAIN servers, NEW from, <<from, s>> \in Links,
         NEW g, Flows(<<from, s>>, s, {from}, <<g>>), g.type = "DHCP_ACK",
         DOMAIN servers' = DOMAIN servers, NEW c, g.mac = c, Receives(<<from, s>>, "DHCP_REQUEST", c),
         NoHeads(s), ~OfferedTo(s, c)',
         \A r \in DOMAIN servers : OfferedTo(r, c)' => OfferedTo(r, c) /\ r \in Around(c)
  PROVE  TakesBack(c)'
<1> DEFINE got == <<from, s>>
           back == Rev(got)
<1>0. Shape /\ Queues /\ Links' = Links /\ \A h : Reach(h)' = Reach(h)
  BY SameLinks DEF NetTyped
<1>1. /\ got \in Links /\ got[1] = from /\ got[2] = s /\ back \in Links /\ back[1] = s /\ back[2] = from
      /\ Rev(back) = got
  BY <1>0, LinkPairs
<1>2. DOMAIN servers \cap Mac = {}
  BY <1>0, MachinesAssumption DEF Shape
<1>3. From(c, got)
  <2>1. On(got, link[got][1])
    BY <1>0, <1>1, OnGot
  <2> QED
    BY <1>1, <2>1 DEF Asks, Asking, Receives
<1> HIDE DEF got, back
<1>4. Reach(got) \subseteq {s}
  BY <1>0, <1>1, <1>2, ReachNext
<1>5. c \in Reach(back) /\ from \in Mac /\ from \in Around(c) /\ s \in Around(c)
  BY <1>0, <1>1, <1>3, ReachEnd DEF From, back
\* Whom c reaches, is on one side of a link.
<1>6. ASSUME NEW l \in Links, c \in Reach(l), c \in Mac, NEW x \in Around(c)
      PROVE  x \in Reach(l) \/ x \in Reach(Rev(l))
  <2>1. x = c \/ \E k \in Links : k[1] = c /\ x \in Reach(k)
    BY <1>6 DEF Around
  <2> QED
    BY <1>0, <1>6, <2>1 DEF Shape, NoCycle, Reach
<1>7. c \in Mac
  <2>1. link[got] \in Seq(NetFrame) /\ Len(link[got]) \in Nat /\ Len(link[got]) > 0
    BY <1>0, <1>1, FlowLengths DEF got
  <2>2. link[got][1] \in NetFrame
    BY <2>1
  <2> QED
    BY <2>2 DEF Receives, NetFrame, got
<1>8. \A r \in DOMAIN servers : r \in Around(c) /\ r # s => r \in Reach(back)
  BY <1>1, <1>4, <1>5, <1>6, <1>7
<1> PICK n : n = Len(link[back]) - Dropped(back, got) + 1
  OBVIOUS
<1>9. At(back, n, g)'
  BY <1>0, <1>1, AtPut DEF got
<1>10. ASSUME NEW r \in DOMAIN servers, r \in Around(c), r # s  PROVE Acks(c, r, back, n, g)'
  BY <1>0, <1>8, <1>9, <1>10 DEF Acks
<1>11. ASSUME NEW r \in DOMAIN servers, NEW l, NEW i, NEW f, Heads(r, l, i, f)', f.mac = c
       PROVE  \E k, j, h : Acks(c, r, k, j, h)' /\ After(l, i, k, j)'
  <2>1. PICK h : At(l, h, f) /\ i = h - Dropped(l, got) /\ ~(l = got /\ h = 1)
    <3>1. At(l, i, f)' /\ f.type = "DHCP_DISCOVER"
      BY <1>11 DEF Heads
    <3>2. \A j \in 1..Len(<<g>>) : <<g>>[j] = g
      OBVIOUS
    <3> QED
      BY <1>0, <3>1, <3>2, AtNew DEF got
  <2>2. Heads(r, l, h, f)
    BY <1>0, <1>11, <2>1 DEF Heads
  <2>3. From(c, l) /\ l \in Links
    BY <1>11, <2>2 DEF Heads, At, On, Asks, Asking
  <2>4. r # s /\ s \notin Reach(l)
    BY <2>2 DEF NoHeads, Heads
  <2>5. r \in Around(c)
    BY <2>2, <2>3 DEF From, Heads
  <2>6. Acks(c, r, back, n, g)'
    BY <1>10, <2>4, <2>5
  <2>7. CASE l = back
    <3>1. Len(link[back]) \in Nat /\ Dropped(back, got) \in {0, 1} /\ h \in 1..Len(link[back])
      BY <1>0, <1>1, <2>1, <2>7, FlowLengths DEF got, At
    <3>2. n > i
      BY <2>1, <2>7, <3>1
    <3> QED
      BY <2>6, <2>7, <3>2 DEF After
  <2>8. CASE l # back
    <3>1. /\ Rev(l) \in Links /\ Rev(Rev(l)) = l /\ c \in Reach(Rev(l))
      BY <1>0, <2>3, LinkPairs DEF From
    <3>2. from \in Reach(Rev(l)) \/ from \in Reach(l)
      BY <1>5, <1>6, <1>7, <3>1
    <3>3. ASSUME from \in Reach(l)  PROVE FALSE
      <4>1. s \in Reach(l) \/ got = Rev(l)
        BY <1>0, <1>1, <1>5, <2>3, <3>3, ReachClosed
      <4>2. got # Rev(l)
        BY <2>8, <3>1 DEF back
      <4> QED
        BY <2>4, <4>1, <4>2
    <3>4. After(l, i, back, n)'
      BY <1>0, <1>1, <3>2, <3>3 DEF After
    <3> QED
      BY <2>6, <3>4
  <2> QED
    BY <2>7, <2>8
<1>12. ASSUME NEW r \in DOMAIN servers, OfferedTo(r, c)'  PROVE \E k, j, h : Acks(c, r, k, j, h)'
  <2>1. r # s /\ r \in Around(c)
    BY <1>12
  <2> QED
    BY <1>10, <2>1
<1> QED
  BY <1>11, <1>12 DEF TakesBack

NothingAsked ==
  /\ \A c \in Mac : acks[c] = 0
  /\ \A s \in DOMAIN servers : Offered(s) = 0
  /\ \A l, i, f : At(l, i, f) => f.type # "DHCP_DISCOVER"

OffersAround == \A s \in DOMAIN servers : \A c : OfferedTo(s, c) => s \in Around(c)

OfferInv ==
  /\ OffersAround
  /\ gets = 0 => NothingAsked
  /\ gets = 1 => /\ \A s \in DOMAIN servers : Token(s)
                 /\ \A c \in Mac : acks[c] = 1 => TakesBack(c)

\* What a step that asks nothing does with the offers.
OffersMove(got, m) ==
  \A s \in DOMAIN servers :
    /\ \A c : OfferedTo(s, c)' => OfferedTo(s, c) \/ (Receives(got, "DHCP_DISCOVER", c) /\ s = got[2])
    /\ \/ Offered(s)' <= Offered(s)
       \/ /\ got \in Links /\ m \notin Mac /\ s = got[2] /\ link[got][1].type = "DHCP_DISCOVER"
          /\ Offered(s)' = Offered(s) + 1

LEMMA OfferKept ==
  ASSUME NetTyped, NetTyped', Asks, OfferInv,
         NEW got, NEW m, NEW to, NEW out, Flows(got, m, to, out), HandsOn(got, m, to, out),
         DOMAIN servers' = DOMAIN servers, gets' = gets, OffersMove(got, m),
         acks' = acks \/ \E s \in DOMAIN servers : Offered(s) # 0,
         gets = 1 => \A c \in Mac : acks'[c] = 1 => TakesBack(c)'
  PROVE  OfferInv'
<1>0. Shape /\ Queues /\ \A s \in DOMAIN servers : Offered(s) \in Nat
  BY OfferedNat DEF NetTyped
<1>1. \A s \in DOMAIN servers : Offered(s)' \in Nat
  <2> TAKE s \in DOMAIN servers
  <2>1. servers'[s].offered \in Seq(Offer)
    BY DEF NetTyped, Typed
  <2> QED
    BY <2>1 DEF Offered
<1>2. ASSUME got \in Links, NEW f, f = link[got][1], f.type = "DHCP_DISCOVER"
      PROVE  Heads(got[2], got, 1, f) /\ At(got, 1, f)
  <2>1. At(got, 1, f)
    BY <1>0, <1>2, AtGot
  <2>2. got[2] \in Reach(got)
    BY <1>0, <1>2, ReachEnd
  <2> QED
    BY <1>2, <2>1, <2>2 DEF Heads
<1>3. ASSUME NEW s \in DOMAIN servers, NEW c, OfferedTo(s, c)'  PROVE s \in Around(c)'
  <2>1. Around(c)' = Around(c)
    BY FromSame
  <2>2. CASE OfferedTo(s, c)
    BY <2>1, <2>2 DEF OfferInv, OffersAround
  <2>3. CASE Receives(got, "DHCP_DISCOVER", c) /\ s = got[2]
    <3>1. On(got, link[got][1])
      BY <1>0, <2>3, OnGot DEF Receives
    <3>2. From(c, got)
      BY <2>3, <3>1 DEF Receives, Asks, Asking
    <3>3. s \in Reach(got)
      BY <1>0, <2>3, ReachEnd DEF Receives
    <3> QED
      BY <2>1, <3>2, <3>3 DEF From
  <2> QED
    BY <1>3, <2>2, <2>3 DEF OffersMove
<1>4. ASSUME gets = 0  PROVE NothingAsked'
  <2>1. /\ \A c \in Mac : acks[c] = 0
        /\ \A s \in DOMAIN servers : Offered(s) = 0
        /\ \A l, i, f : At(l, i, f) => f.type # "DHCP_DISCOVER"
    BY <1>4 DEF OfferInv, NothingAsked
  <2>2. acks' = acks
    BY <2>1
  <2>3. \A s \in DOMAIN servers : Offered(s)' = 0
    <3> TAKE s \in DOMAIN servers
    <3>1. ~(got \in Links /\ link[got][1].type = "DHCP_DISCOVER")
      BY <1>2, <2>1
    <3>2. Offered(s)' <= Offered(s)
      BY <3>1 DEF OffersMove
    <3> QED
      BY <1>1, <2>1, <3>2
  <2>4. ASSUME NEW l, NEW i, NEW f, At(l, i, f)', f.type = "DHCP_DISCOVER"  PROVE FALSE
    <3>1. PICK j \in 1..Len(out) : out[j] = f
      BY <1>0, <2>1, <2>4, AtNew
    <3>2. got \in Links /\ out = <<link[got][1]>>
      BY <2>4, <3>1 DEF HandsOn
    <3>3. f = link[got][1]
      BY <3>1, <3>2
    <3> QED
      BY <1>2, <2>1, <2>4, <3>2, <3>3
  <2> QED
    BY <2>1, <2>2, <2>3, <2>4 DEF NothingAsked
<1>5. ASSUME gets = 1, NEW s \in DOMAIN servers  PROVE Token(s)'
  <2>1. Token(s)
    BY <1>5 DEF OfferInv
  <2>2. CASE Offered(s)' <= Offered(s)
    BY <2>1, <2>2, TokenKept
  <2>3. CASE /\ got \in Links /\ m \notin Mac /\ s = got[2] /\ link[got][1].type = "DHCP_DISCOVER"
             /\ Offered(s)' = Offered(s) + 1
    <3>1. \E f : Heads(s, got, 1, f)
      BY <1>2, <2>3
    <3> QED
      BY <2>1, <2>3, <3>1, TokenKept
  <2> QED
    BY <2>2, <2>3 DEF OffersMove
<1> QED
  BY <1>3, <1>4, <1>5 DEF OfferInv, OffersAround

\* A step that leaves the servers' offers alone.
OffersSame ==
  /\ DOMAIN servers' = DOMAIN servers
  /\ \A s \in DOMAIN servers : servers'[s].offered = servers[s].offered

LEMMA SameMove ==
  ASSUME NetTyped, OffersSame, NEW got, NEW m
  PROVE  OffersMove(got, m) /\ \A s \in DOMAIN servers, c \in Mac : OfferedTo(s, c)' <=> OfferedTo(s, c)
<1>1. \A s \in DOMAIN servers : Offered(s)' = Offered(s) /\ Offered(s) \in Nat
  BY OfferedNat DEF OffersSame, Offered
<1>2. \A s \in DOMAIN servers : \A c : OfferedTo(s, c)' <=> OfferedTo(s, c)
  BY DEF OffersSame, OfferedTo
<1>3. \A s \in DOMAIN servers : Offered(s)' <= Offered(s)
  BY <1>1
<1> QED
  BY <1>2, <1>3 DEF OffersMove

LEMMA OfferStill ==
  ASSUME NetTyped, NetTyped', Asks, OfferInv,
         NEW got, NEW m, NEW to, NEW out, Flows(got, m, to, out), HandsOn(got, m, to, out),
         gets' = gets, acks' = acks, OffersSame, got \in Links => m \in Mac
  PROVE  OfferInv'
<1>1. OffersMove(got, m) /\ \A s \in DOMAIN servers, c \in Mac : OfferedTo(s, c)' <=> OfferedTo(s, c)
  BY SameMove
<1>2. DOMAIN servers' = DOMAIN servers
  BY DEF OffersSame
<1>3. \A s \in DOMAIN servers : ~(got \in Links /\ s = got[2])
  BY MachinesAssumption DEF HandsOn, NetTyped, Shape
<1>4. ASSUME gets = 1, NEW c \in Mac, acks'[c] = 1  PROVE TakesBack(c)'
  <2>1. TakesBack(c)
    BY <1>4 DEF OfferInv
  <2>2. \A s \in DOMAIN servers : OfferedTo(s, c)' =>
          OfferedTo(s, c) /\ ~(Receives(got, "DHCP_ACK", c) /\ s = got[2])
    BY <1>1, <1>3 DEF Receives
  <2> QED
    BY <1>2, <2>1, <2>2, BackKept
<1> QED
  BY <1>1, <1>2, <1>4, OfferKept

\* Nobody but a client that hands it on, and the one that asks, sends a request.
LEMMA SendsHandsOn ==
  ASSUME Shape, NEW m, NEW to, NEW out, \A j \in 1..Len(out) : out[j].type # "DHCP_DISCOVER"
  PROVE  HandsOn(NoLink, m, to, out)
BY NoLinkIs DEF HandsOn

LEMMA ServesHandsOn ==
  ASSUME NEW s \in Server, NEW from, NEW f, NEW o, Serves(s, from, f, o)
  PROVE  HandsOn(<<from, s>>, s, {from}, o.out)
<1>1. s \notin Mac
  BY MachinesAssumption
<1>2. ASSUME NEW j \in 1..Len(o.out)  PROVE o.out[j].type # "DHCP_DISCOVER"
  <2>1. CASE o.out = <<>>
    BY <1>2, <2>1
  <2>2. ASSUME NEW g, g.type \in Answer, o.out = <<g>>  PROVE o.out[j].type # "DHCP_DISCOVER"
    BY <1>2, <2>2 DEF Answer
  <2> QED
    BY <2>1, <2>2 DEF Serves
<1> QED
  BY <1>1, <1>2 DEF HandsOn

LEMMA OfferCommands ==
  ASSUME NetTyped, NetTyped', Asks, OfferInv, NEW d \in Mac, NEW f, Commands(d, f)
  PROVE  OfferInv'
<1>0. Shape /\ gets \in Nat
  BY DEF NetTyped
<1> PICK to : to = Neighbors(d)
  OBVIOUS
<1>1. Flows(NoLink, d, to, <<f>>) /\ servers' = servers /\ acks' = acks
  BY DEF Commands
<1>2. OffersSame
  BY <1>1 DEF OffersSame
<1>3. CASE f.type # "DHCP_DISCOVER"
  <2>1. \A j \in 1..Len(<<f>>) : <<f>>[j].type # "DHCP_DISCOVER"
    BY <1>3
  <2>2. HandsOn(NoLink, d, to, <<f>>)
    BY <1>0, <2>1, SendsHandsOn
  <2>3. gets' = gets
    BY <1>3 DEF Commands
  <2> QED
    BY <1>0, <1>1, <1>2, <2>2, <2>3, NoLinkIs, OfferStill
<1>4. CASE f.type = "DHCP_DISCOVER"
  <2>1. gets' = gets + 1
    BY <1>4 DEF Commands
  <2>2. OffersAround'
    <3>1. \A c : Around(c)' = Around(c)
      BY <1>1, FromSame
    <3> QED
      BY <1>1, <3>1 DEF OfferInv, OffersAround, OfferedTo
  <2>3. ASSUME gets' = 1
        PROVE  (\A s \in DOMAIN servers : Token(s))' /\ \A c \in Mac : acks'[c] # 1
    <3>1. NothingAsked
      BY <1>0, <2>1, <2>3 DEF OfferInv
    <3>2. \A s \in DOMAIN servers : Offered(s)' = 0
      BY <1>1, <3>1 DEF NothingAsked, Offered
    <3>3. \A l, i, g : At(l, i, g) => g.type # "DHCP_DISCOVER"
      BY <3>1 DEF NothingAsked
    <3>4. \A s \in DOMAIN servers : Token(s)'
      BY <1>1, <3>2, <3>3, TokenStarts
    <3> QED
      BY <1>1, <3>1, <3>4 DEF NothingAsked
  <2> QED
    BY <1>0, <2>1, <2>2, <2>3 DEF OfferInv
<1> QED
  BY <1>3, <1>4

LEMMA OfferClears ==
  ASSUME NetTyped, NetTyped', Asks, OfferInv, NEW d \in Mac, Clears(d)
  PROVE  OfferInv'
<1>0. Shape
  BY DEF NetTyped
<1>1. Flows(NoLink, d, {}, <<>>) /\ OffersSame /\ acks' = acks /\ gets' = gets
  BY DEF Clears, OffersSame
<1>2. 1..Len(<<>>) = {}
  OBVIOUS
<1>3. HandsOn(NoLink, d, {}, <<>>)
  BY <1>0, <1>2, SendsHandsOn
<1> QED
  BY <1>0, <1>1, <1>3, NoLinkIs, OfferStill

LEMMA OfferTime ==
  ASSUME NetTyped, NetTyped', Asks, OfferInv, NEW s \in Server, NEW o, EndsLeases(s, o)
  PROVE  OfferInv'
<1>0. Shape
  BY DEF NetTyped
<1> PICK to : to = Neighbors(s)
  OBVIOUS
<1>1. Flows(NoLink, s, to, o.out) /\ acks' = acks /\ gets' = gets
  BY DEF EndsLeases
<1>2. OffersSame
  <2>1. /\ s \in DOMAIN servers /\ Typed(o.state) /\ servers' = [servers EXCEPT ![s] = o.state]
        /\ o.state.offered = servers[s].offered
    BY DEF EndsLeases
  <2>2. /\ DOMAIN servers' = DOMAIN servers
        /\ \A r \in DOMAIN servers : servers'[r] = IF r = s THEN o.state ELSE servers[r]
    BY <2>1, ServerTyped
  <2> QED
    BY <2>1, <2>2 DEF OffersSame
<1>3. \A j \in 1..Len(o.out) : o.out[j].type # "DHCP_DISCOVER"
  BY DEF EndsLeases, Ages, Is
<1>4. HandsOn(NoLink, s, to, o.out)
  BY <1>0, <1>3, SendsHandsOn
<1> QED
  BY <1>0, <1>1, <1>2, <1>4, NoLinkIs, OfferStill

LEMMA OfferHandles ==
  ASSUME NetTyped, NetTyped', Asks, OfferInv, NEW d \in Mac, NEW from \in Machine, NEW f, Handles(d, from, f)
  PROVE  OfferInv'
<1> DEFINE got == <<from, d>>
<1>0. Shape
  BY DEF NetTyped
<1>1. /\ got \in Links /\ f = link[got][1] /\ got[1] = from /\ got[2] = d
      /\ OffersSame /\ acks' = acks /\ gets' = gets
  BY DEF Handles, OffersSame
<1> PICK all : all = Neighbors(d) \ {from}
  OBVIOUS
<1>2. \/ Flows(got, d, all, <<f>>)
      \/ f.type \notin {"DHCP_DISCOVER", "DHCP_ACK"} /\ Flows(got, d, {}, <<>>)
  BY DEF Handles
<1>3. \A k \in Onward(Links, got) : k[2] \in all
  BY <1>0, <1>1, ReachOnward, NeighborsAll
<1>4. \A l \in Links : l[1] = d /\ l[2] \in all => l \in Onward(Links, got)
  BY <1>1 DEF Onward
<1> HIDE DEF got
<1>5. HandsOn(got, d, all, <<f>>)
  BY <1>1, <1>3, <1>4 DEF HandsOn
<1>6. ASSUME f.type \notin {"DHCP_DISCOVER", "DHCP_ACK"}  PROVE HandsOn(got, d, {}, <<>>)
  <2>1. 1..Len(<<>>) = {}
    OBVIOUS
  <2> QED
    BY <1>1, <1>6, <2>1 DEF HandsOn
<1> QED
  BY <1>1, <1>2, <1>5, <1>6, OfferStill

-----------------------------------------------------------------------------
\* Where an offer is made or taken, by a server.
LEMMA ServesMoves ==
  ASSUME NetTyped, NEW s \in Server, NEW from, NEW f, NEW o, Serves(s, from, f, o),
         OffersStay(servers[s], f, o) \/ Offers(servers[s], f, o)
           \/ \E i \in 1..Offered(s) : o.state.offered = Without(servers[s].offered, i)
  PROVE  OffersMove(<<from, s>>, s)
<1> DEFINE got == <<from, s>>
           O == servers[s].offered
<1>1. /\ got \in Links /\ got[2] = s /\ f = link[got][1] /\ s \in DOMAIN servers /\ s \notin Mac
      /\ Typed(o.state) /\ servers' = [servers EXCEPT ![s] = o.state]
  BY MachinesAssumption DEF Serves
<1>2. O \in Seq(Offer) /\ Len(O) \in Nat
  <2>1. O \in Seq(Offer)
    BY <1>1 DEF NetTyped, Typed
  <2> QED
    BY <2>1
<1>3. \A r \in DOMAIN servers : servers'[r] = IF r = s THEN o.state ELSE servers[r]
  BY <1>1, ServerTyped
<1> HIDE DEF got, O
<1>4. ASSUME NEW r \in DOMAIN servers, r # s
      PROVE  (\A c : OfferedTo(r, c)' <=> OfferedTo(r, c)) /\ Offered(r)' <= Offered(r)
  <2>1. servers'[r] = servers[r]
    BY <1>3, <1>4
  <2>2. Offered(r)' = Offered(r) /\ Offered(r) \in Nat
    BY <2>1, OfferedNat DEF Offered
  <2> QED
    BY <2>1, <2>2 DEF OfferedTo
<1>5. Offered(s) = Len(O) /\ Offered(s)' = Len(o.state.offered)
  BY <1>1, <1>3 DEF Offered, O
<1>6. \A c : OfferedTo(s, c)' <=> \E i \in 1..Len(o.state.offered) : o.state.offered[i].mac = c
  BY <1>1, <1>3 DEF OfferedTo
<1>7. \A c : OfferedTo(s, c) <=> \E i \in 1..Len(O) : O[i].mac = c
  BY DEF OfferedTo, O
<1>8. CASE OffersStay(servers[s], f, o)
  <2>1. o.state.offered = O
    BY <1>8 DEF OffersStay, O
  <2>2. (\A c : OfferedTo(s, c)' <=> OfferedTo(s, c)) /\ Offered(s)' <= Offered(s)
    BY <1>2, <1>5, <1>6, <1>7, <2>1
  <2> QED
    BY <1>4, <2>2 DEF OffersMove
<1>9. CASE Offers(servers[s], f, o)
  <2>1. PICK ip \in AnyIp : o.state.offered = Append(O, [ip |-> ip, mac |-> f.mac])
    BY <1>9 DEF Offers, O
  <2> PICK x : x = [ip |-> ip, mac |-> f.mac]
    OBVIOUS
  <2>2. x.mac = f.mac /\ o.state.offered = Append(O, x)
    BY <2>1
  <2>3. Len(Append(O, x)) = Len(O) + 1 /\ Append(O, x)[Len(O) + 1] = x /\ \A i \in 1..Len(O) : Append(O, x)[i] = O[i]
    BY <1>2
  <2>4. Offered(s)' = Offered(s) + 1
    BY <1>5, <2>2, <2>3
  <2>5. ASSUME NEW c, OfferedTo(s, c)'
        PROVE  OfferedTo(s, c) \/ (Receives(got, "DHCP_DISCOVER", c) /\ s = got[2])
    <3>1. PICK i \in 1..Len(o.state.offered) : o.state.offered[i].mac = c
      BY <1>6, <2>5
    <3>2. i \in 1..Len(O) \/ i = Len(O) + 1
      BY <1>2, <2>2, <2>3, <3>1
    <3>3. CASE i \in 1..Len(O)
      BY <1>7, <2>2, <2>3, <3>1, <3>3
    <3>4. CASE i = Len(O) + 1
      <4>1. f.mac = c
        BY <2>2, <2>3, <3>1, <3>4
      <4> QED
        BY <1>1, <1>9, <4>1 DEF Receives, Offers
    <3> QED
      BY <3>2, <3>3, <3>4
  <2>6. got \in Links /\ s \notin Mac /\ s = got[2] /\ link[got][1].type = "DHCP_DISCOVER"
    BY <1>1, <1>9 DEF Offers
  <2>7. ASSUME NEW r \in DOMAIN servers
        PROVE  /\ \A c : OfferedTo(r, c)' => OfferedTo(r, c) \/ (Receives(got, "DHCP_DISCOVER", c) /\ r = got[2])
               /\ \/ Offered(r)' <= Offered(r)
                  \/ /\ got \in Links /\ s \notin Mac /\ r = got[2] /\ link[got][1].type = "DHCP_DISCOVER"
                     /\ Offered(r)' = Offered(r) + 1
    BY <1>4, <2>4, <2>5, <2>6
  <2> QED
    BY <2>7 DEF OffersMove, got
<1>10. ASSUME NEW i \in 1..Offered(s), o.state.offered = Without(servers[s].offered, i)
       PROVE  OffersMove(<<from, s>>, s)
  <2>1. i \in 1..Len(O) /\ o.state.offered = Without(O, i)
    BY <1>5, <1>10 DEF O
  <2>2. /\ Len(o.state.offered) = Len(O) - 1
        /\ \A k \in 1..(Len(O) - 1) : o.state.offered[k] = IF k < i THEN O[k] ELSE O[k + 1]
    BY <1>2, <2>1, WithoutElements
  <2>3. Offered(s)' <= Offered(s)
    BY <1>2, <1>5, <2>2
  <2>4. ASSUME NEW c, OfferedTo(s, c)'  PROVE OfferedTo(s, c)
    <3>1. PICK k \in 1..(Len(O) - 1) : o.state.offered[k].mac = c
      BY <1>6, <2>2, <2>4
    <3>2. k \in 1..Len(O) /\ k + 1 \in 1..Len(O)
      BY <1>2
    <3> QED
      BY <1>7, <2>2, <3>1, <3>2
  <2> QED
    BY <1>4, <2>3, <2>4 DEF OffersMove
<1> QED
  BY <1>8, <1>9, <1>10

\* An offer that is taken or taken back, is the last of its server.
LEMMA OfferGone ==
  ASSUME NetTyped, NEW s \in Server, NEW from, NEW f, NEW o, Serves(s, from, f, o), Token(s),
         NEW i \in 1..Offered(s), o.state.offered = Without(servers[s].offered, i)
  PROVE  Offered(s) = 1 /\ NoHeads(s) /\ \A c : ~OfferedTo(s, c)'
<1> DEFINE O == servers[s].offered
<1>1. s \in DOMAIN servers /\ Typed(o.state) /\ servers' = [servers EXCEPT ![s] = o.state]
  BY DEF Serves
<1>2. O \in Seq(Offer) /\ Offered(s) \in Nat
  <2>1. O \in Seq(Offer)
    BY <1>1 DEF NetTyped, Typed
  <2> QED
    BY <1>1, <2>1, OfferedNat
<1>3. Offered(s) = 1 /\ NoHeads(s)
  BY <1>2 DEF Token
<1>4. Len(Without(O, i)) = 0
  <2>1. i \in 1..Len(O) /\ Len(O) = 1
    BY <1>3 DEF Offered
  <2> HIDE DEF O
  <2>2. Len(Without(O, i)) = Len(O) - 1
    BY <1>2, <2>1, WithoutElements
  <2> QED
    BY <2>1, <2>2
<1>5. servers'[s].offered = Without(O, i)
  BY <1>1, ServerTyped
<1>6. 1..Len(servers'[s].offered) = {}
  BY <1>4, <1>5
<1> QED
  BY <1>3, <1>6 DEF OfferedTo

LEMMA OfferServes ==
  ASSUME NetTyped, NetTyped', Asks, OfferInv,
         NEW s \in Server, NEW from \in Machine, NEW f, NEW o, Serves(s, from, f, o)
  PROVE  OfferInv'
<1> DEFINE got == <<from, s>>
           O == servers[s].offered
<1>1. /\ got \in Links /\ got[2] = s /\ f \in NetFrame /\ f = link[got][1]
      /\ s \in DOMAIN servers /\ o \in Handle(servers[s], f)
      /\ Flows(got, s, {from}, o.out) /\ gets' = gets
      /\ Typed(o.state) /\ servers' = [servers EXCEPT ![s] = o.state]
  BY DEF Serves
<1>2. DOMAIN servers' = DOMAIN servers
  BY <1>1, ServerTyped
<1>3. f.ip \in AnyIp /\ f.mac \in Mac /\ Typed(servers[s]) /\ acks \in [Mac -> Nat]
  BY <1>1 DEF NetTyped, NetFrame
<1>4. HandsOn(got, s, {from}, o.out)
  BY ServesHandsOn
<1>5. NoAck(o) => acks' = acks
  BY DEF Serves, NoAck
<1> HIDE DEF got
\* What was taken back, stays so, unless this server's offer to c is not.
<1>6. ASSUME OffersMove(got, s), acks' = acks \/ \E r \in DOMAIN servers : Offered(r) # 0,
             gets = 1 => \A c \in Mac : acks'[c] = 1 => TakesBack(c)'
      PROVE  OfferInv'
  BY <1>1, <1>2, <1>4, <1>6, OfferKept
<1>7. ASSUME OffersMove(got, s), NEW c, TakesBack(c), f.type = "DHCP_ACK" /\ f.mac = c => ~OfferedTo(s, c)'
      PROVE  TakesBack(c)'
  <2>1. \A r \in DOMAIN servers : OfferedTo(r, c)' =>
          \/ OfferedTo(r, c) /\ ~(Receives(got, "DHCP_ACK", c) /\ r = got[2])
          \/ Receives(got, "DHCP_DISCOVER", c) /\ r = got[2]
    BY <1>1, <1>7 DEF OffersMove, Receives
  <2> QED
    BY <1>1, <1>2, <1>4, <1>7, <2>1, BackKept
<1>8. ASSUME OffersMove(got, s), NoAck(o), gets = 1, f.type = "DHCP_ACK" => ~OfferedTo(s, f.mac)'
      PROVE  \A c \in Mac : acks'[c] = 1 => TakesBack(c)'
  <2>1. \A c \in Mac : acks'[c] = 1 => TakesBack(c)
    BY <1>5, <1>8 DEF OfferInv
  <2> QED
    BY <1>7, <1>8, <2>1
<1>9. CASE OffersStay(servers[s], f, o)
  <2>1. OffersMove(got, s)
    BY <1>9, ServesMoves DEF got
  <2>2. ASSUME f.type = "DHCP_ACK", OfferedTo(s, f.mac)'  PROVE FALSE
    <3>1. Unoffered(O, f) /\ servers'[s].offered = O
      <4>1. servers'[s] = o.state
        BY <1>1, ServerTyped
      <4> QED
        BY <1>9, <2>2, <4>1 DEF OffersStay
    <3>2. O \in Seq(Offer)
      BY <1>3 DEF Typed
    <3> HIDE DEF O
    <3>3. PICK i \in 1..Len(O) : O[i].mac = f.mac
      BY <2>2, <3>1 DEF OfferedTo
    <3> DEFINE S == { j \in 1..Len(O) : O[j].mac = f.mac }
    <3>4. S \in SUBSET Nat /\ i \in S
      BY <3>2, <3>3
    <3>5. First(S) = {}
      BY <3>1 DEF Unoffered
    <3> HIDE DEF S
    <3> QED
      BY <3>4, <3>5, FirstThere
  <2> QED
    BY <1>5, <1>6, <1>8, <1>9, <2>1, <2>2 DEF OffersStay
<1>10. CASE Offers(servers[s], f, o)
  <2>1. OffersMove(got, s)
    BY <1>10, ServesMoves DEF got
  <2> QED
    BY <1>5, <1>6, <1>8, <1>10, <2>1 DEF Offers
<1>11. ASSUME NEW i \in 1..Len(O), o.state.offered = Without(O, i)
       PROVE  /\ OffersMove(got, s) /\ i \in 1..Offered(s) /\ Offered(s) # 0
              /\ gets = 1 => NoHeads(s) /\ \A c : ~OfferedTo(s, c)'
  <2>1. i \in 1..Offered(s)
    BY DEF Offered
  <2>2. OffersMove(got, s)
    BY <1>11, <2>1, ServesMoves DEF got
  <2>3. Offered(s) # 0
    BY <2>1
  <2>4. ASSUME gets = 1  PROVE NoHeads(s) /\ \A c : ~OfferedTo(s, c)'
    <3>1. Token(s)
      BY <1>1, <2>4 DEF OfferInv
    <3> QED
      BY <1>11, <2>1, <3>1, OfferGone
  <2> QED
    BY <2>1, <2>2, <2>3, <2>4
<1>12. CASE TakenBack(servers[s], f, o)
  <2>1. PICK i \in 1..Len(O) : o.state.offered = Without(O, i)
    BY <1>12 DEF TakenBack
  <2>2. NoAck(o)
    BY <1>12 DEF TakenBack, NoAck
  <2> QED
    BY <1>5, <1>6, <1>8, <1>11, <2>1, <2>2
<1>13. CASE Taken(servers[s], f, o)
  <2>1. f.type = "DHCP_REQUEST" /\ \E i \in 1..Len(O) : o.state.offered = Without(O, i)
    BY <1>13 DEF Taken
  <2>2. PICK i \in 1..Len(O) : o.state.offered = Without(O, i)
    BY <2>1
  <2>3. /\ OffersMove(got, s) /\ Offered(s) # 0
        /\ gets = 1 => NoHeads(s) /\ \A c : ~OfferedTo(s, c)'
    BY <1>11, <2>2
  <2>4. PICK t : o.out = <<Frame("DHCP_ACK", f.mac, f.ip, t)>>
    BY <1>13 DEF Taken
  <2> DEFINE g == Frame("DHCP_ACK", f.mac, f.ip, t)
  <2>5. g.type = "DHCP_ACK" /\ g.mac = f.mac /\ o.out = <<g>>
    BY <2>4 DEF Frame
  <2> HIDE DEF g
  <2>6. acks' = [acks EXCEPT ![f.mac] = @ + 1]
    <3>1. o.out # <<>> /\ o.out[1].type = "DHCP_ACK"
      BY <2>5
    <3> QED
      BY <3>1 DEF Serves
  <2>7. ASSUME gets = 1, NEW c \in Mac, acks'[c] = 1  PROVE TakesBack(c)'
    <3>1. CASE c # f.mac
      <4>1. acks[c] = 1
        BY <1>3, <2>6, <2>7, <3>1
      <4>2. TakesBack(c)
        BY <2>7, <4>1 DEF OfferInv
      <4> QED
        BY <1>7, <2>1, <2>3, <4>2
    <3>2. CASE c = f.mac
      <4>1. Receives(got, "DHCP_REQUEST", c)
        BY <1>1, <2>1, <3>2 DEF Receives
      <4>2. \A r \in DOMAIN servers : OfferedTo(r, c)' => OfferedTo(r, c) /\ r \in Around(c)
        BY <1>1, <2>1, <2>3 DEF OffersMove, OfferInv, OffersAround, Receives
      <4> HIDE DEF O
      <4> QED
        BY <1>1, <1>2, <2>3, <2>5, <2>7, <3>2, <4>1, <4>2, BackStarts DEF got
    <3> QED
      BY <3>1, <3>2
  <2> QED
    BY <1>1, <1>6, <2>3, <2>7
<1>14. OffersStay(servers[s], f, o) \/ Offers(servers[s], f, o) \/ Taken(servers[s], f, o) \/ TakenBack(servers[s], f, o)
  BY <1>1, <1>3, HandleOffers
<1> QED
  BY <1>9, <1>10, <1>12, <1>13, <1>14

LEMMA InitOffer == NetInit => OfferInv
<1> SUFFICES ASSUME NetInit PROVE OfferInv
  OBVIOUS
<1>1. PICK setup \in Setups :
        /\ servers = [s \in DOMAIN setup.pool |-> AddPool(InitServer, setup.pool[s])]
        /\ link = [l \in setup.links |-> <<>>]
  BY DEF NetInit
<1>2. ASSUME NEW s \in DOMAIN servers  PROVE servers[s].offered = <<>>
  <2>1. setup.pool[s] \subseteq Ip /\ servers[s] = AddPool(InitServer, setup.pool[s])
    BY <1>1, InitNet
  <2>2. AddPool(InitServer, setup.pool[s]).offered = InitServer.offered
    BY <2>1, InitServerTyped, AddPoolState
  <2> QED
    BY <2>1, <2>2 DEF InitServer
<1>3. \A s \in DOMAIN servers : Offered(s) = 0 /\ \A c : ~OfferedTo(s, c)
  <2>1. Len(<<>>) = 0 /\ 1..Len(<<>>) = {}
    OBVIOUS
  <2> QED
    BY <1>2, <2>1 DEF Offered, OfferedTo
<1>4. \A l, i, f : ~At(l, i, f)
  <2>1. \A l \in Links : 1..Len(link[l]) = {}
    BY <1>1 DEF Links
  <2> QED
    BY <2>1 DEF At
<1>5. gets = 0 /\ \A c \in Mac : acks[c] = 0
  BY DEF NetInit
<1> QED
  BY <1>3, <1>4, <1>5 DEF OfferInv, OffersAround, NothingAsked

LEMMA NextOffer == NetTyped /\ NetTyped' /\ UseInv /\ OfferInv /\ [NetNext]_netVars => OfferInv'
<1> SUFFICES ASSUME NetTyped, NetTyped', UseInv, OfferInv, [NetNext]_netVars PROVE OfferInv'
  OBVIOUS
<1>1. CASE UNCHANGED netVars
  <2>1. Links' = Links /\ \A k : Reach(k)' = Reach(k)
    BY <1>1 DEF netVars, Links, Reach
  <2>2. \A l, i, f : At(l, i, f)' <=> At(l, i, f)
    BY <1>1, <2>1 DEF netVars, At
  <2>3. \A s : (Offered(s)' = Offered(s)) /\ \A c : OfferedTo(s, c)' <=> OfferedTo(s, c)
    BY <1>1 DEF netVars, Offered, OfferedTo
  <2>4. \A s, l, i, f : Heads(s, l, i, f)' <=> Heads(s, l, i, f)
    BY <2>1, <2>2 DEF Heads
  <2>5. \A c, s, k, j, g : Acks(c, s, k, j, g)' <=> Acks(c, s, k, j, g)
    BY <2>1, <2>2 DEF Acks
  <2>6. \A l, i, k, j : After(l, i, k, j)' <=> After(l, i, k, j)
    BY <2>1 DEF After
  <2>7. \A c : Around(c)' = Around(c)
    BY <2>1 DEF Around
  <2>8. servers' = servers /\ acks' = acks /\ gets' = gets
    BY <1>1 DEF netVars
  <2>9. \A s : Token(s)' <=> Token(s)
    BY <2>3, <2>4 DEF Token, OneHeads, NoHeads
  <2>10. \A c : TakesBack(c)' <=> TakesBack(c)
    BY <2>3, <2>4, <2>5, <2>6, <2>8 DEF TakesBack
  <2>11. NothingAsked' <=> NothingAsked
    BY <2>2, <2>3, <2>8 DEF NothingAsked
  <2>12. OffersAround' <=> OffersAround
    BY <2>3, <2>7, <2>8 DEF OffersAround
  <2> QED
    BY <2>8, <2>9, <2>10, <2>11, <2>12 DEF OfferInv
<1>2. CASE NetNext
  <2>1. NetStep /\ Asks
    BY <1>2, NextIsStep DEF UseInv
  <2> QED
    BY <2>1, OfferCommands, OfferClears, OfferTime, OfferServes, OfferHandles DEF NetStep
<1> QED
  BY <1>1, <1>2

LEMMA OfferMeans == OfferInv => OffersTakenBack
<1> SUFFICES ASSUME OfferInv, Quiet, NEW c \in Mac, acks[c] = 1, gets = 1, NEW s \in DOMAIN servers,
                    NEW i \in 1..Len(servers[s].offered), servers[s].offered[i].mac = c
             PROVE  FALSE
  BY DEF OffersTakenBack
<1>1. OfferedTo(s, c)
  BY DEF OfferedTo
<1>2. \E k, j, g : At(k, j, g)
  BY <1>1 DEF OfferInv, TakesBack, Acks
<1>3. \A l \in Links : 1..Len(link[l]) = {}
  BY DEF Quiet, Links
<1> QED
  BY <1>2, <1>3 DEF At

\* When everything has been delivered, a client that asked once and has a lease leaves
\* no offer of another server behind: its acknowledgement, which every client hands on,
\* comes to all the servers that its request came to, and after it.
THEOREM OffersTakenBackHolds == NetSpec => []OffersTakenBack
<1>1. NetInit => UseInv /\ OfferInv
  BY InitUse, InitOffer
<1>2. NetTyped /\ UseInv /\ [NetNext]_netVars => UseInv'
  BY NextUse
<1>3. NetTyped /\ NetTyped' /\ UseInv /\ OfferInv /\ [NetNext]_netVars => OfferInv'
  BY NextOffer
<1>4. OfferInv => OffersTakenBack
  BY OfferMeans
<1> QED
  BY <1>1, <1>2, <1>3, <1>4, NetInductive, PTL DEF NetSpec
=============================================================================

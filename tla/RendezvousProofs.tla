-------------------------- MODULE RendezvousProofs --------------------------
(***************************************************************************)
(* Proofs about the rendezvous server for any width of the id field, any   *)
(* addresses and any number of registrations, and about the headers of the *)
(* packets on their way to it, over any network.                           *)
(***************************************************************************)
EXTENDS Rendezvous, Routing, WellFoundedInduction, TLAPS

\* Given ids are non-zero values of the field, and the field stays in range.
LEMMA FreeIdRange ==
  ASSUME NEW c \in Id
  PROVE  FreeId(c) \in Id /\ FreeId(c) # 0 /\ NextId(FreeId(c)) \in Id
BY IdSpaceAssumption DEF Id, FreeId, NextId

LEMMA NextIdValue ==
  ASSUME NEW id \in Id
  PROVE  NextId(id) = IF id = IdSpace - 1 THEN 0 ELSE id + 1
<1>1. id \in Nat /\ id < IdSpace /\ IdSpace \in Nat /\ IdSpace >= 2
  BY IdSpaceAssumption DEF Id
<1>2. CASE id = IdSpace - 1
  BY <1>1, <1>2 DEF NextId
<1>3. CASE id # IdSpace - 1
  BY <1>1, <1>3 DEF NextId
<1>4. QED BY <1>2, <1>3

\* The packet of a handler is read back with the id it was filled with.
LEMMA PacketFields ==
  ASSUME NEW id \in Id, NEW type, NEW src, NEW dst, NEW pl
  PROVE  LET p == Packet(type, src, dst, id, pl) IN
         p = [code |-> TypeCode(type), id |-> id, src |-> src, dst |-> dst, pl |-> pl]
<1>1. id % IdSpace = id
  BY IdSpaceAssumption DEF Id
<1>2. QED BY <1>1 DEF Packet

-----------------------------------------------------------------------------
(* The inductive invariant. *)

\* Ids count up from 1 until the field wraps; the free id follows the last one.
IdInv ==
  /\ information = <<>> => current_free_id = 0
  /\ \A i \in 1..Len(information) : information[i].ID # 0
  /\ \A i \in 1..Len(information) : i < IdSpace => information[i].ID = i
  /\ information # <<>> => current_free_id = NextId(information[Len(information)].ID)

IInv == TypeOK /\ IdInv /\ NeverAssignsDrop /\ OnlyRegisteredAsk /\ FirstOwnerAnswered

LEMMA InitInv == Init => IInv
BY IdSpaceAssumption DEF Init, IInv, TypeOK, IdInv, NeverAssignsDrop, OnlyRegisteredAsk,
  FirstOwnerAnswered, Id

\* A handler that returns early.
LEMMA NoReplyInv == IInv /\ UNCHANGED <<information, current_free_id>> /\ reply' = None => IInv'
BY DEF IInv, TypeOK, IdInv, NeverAssignsDrop, OnlyRegisteredAsk, FirstOwnerAnswered

LEMMA RecRequestIdInv ==
  ASSUME IInv, NEW src \in SourceAddr, NEW local \in LocalAddr, RecRequestId(src, local)
  PROVE  IInv'
<1>1. CASE ByLocal(NToHS(local.ip)) # {}
  BY <1>1, NoReplyInv DEF RecRequestId, Send
<1>2. CASE ByLocal(NToHS(local.ip)) = {}
  <2> DEFINE id == FreeId(current_free_id)
             n == Len(information)
             ci == [ID |-> id, local |-> local, public |-> src]
  <2>1. /\ information' = Append(information, ci)
        /\ current_free_id' = NextId(id)
        /\ reply' = Packet("RESPONSE_ASSIGNING_ID", ServerAddr, src, id, None)
    BY <1>2 DEF RecRequestId, Send
  <2>2. current_free_id \in Id /\ information \in Seq(ClientInfo)
    BY DEF IInv, TypeOK
  <2>3. id \in Id /\ id # 0 /\ NextId(id) \in Id
    BY <2>2, FreeIdRange
  <2> HIDE DEF id
  <2>4. ci \in ClientInfo
    BY <2>3 DEF ClientInfo
  <2>5. /\ n \in Nat /\ Len(information') = n + 1 /\ information' \in Seq(ClientInfo)
        /\ information'[n + 1] = ci
        /\ \A i \in 1..n : information'[i] = information[i]
    BY <2>1, <2>2, <2>4
  <2>6. TypeCode("RESPONSE_ASSIGNING_ID") = 0
    BY DEF TypeCode
  <2>7. reply' = [code |-> 0, id |-> id, src |-> ServerAddr, dst |-> src, pl |-> None]
    BY <2>1, <2>3, <2>6, PacketFields
  <2>8. TypeOK'
    BY <2>1, <2>3, <2>5, <2>7 DEF TypeOK, Reply
  <2>9. IdInv'
    <3>1. \A i \in 1..(n + 1) : information'[i].ID # 0
      BY <2>3, <2>5 DEF IInv, IdInv
    <3>2. current_free_id' = NextId(information'[n + 1].ID) /\ information' # <<>>
      BY <2>1, <2>5
    <3>3. ASSUME NEW i \in 1..(n + 1), i < IdSpace PROVE information'[i].ID = i
      <4>1. CASE i \in 1..n
        BY <3>3, <4>1, <2>5 DEF IInv, IdInv
      <4>2. CASE i = n + 1 /\ n = 0
        BY <4>2, <2>2, <2>5 DEF IInv, IdInv, id, FreeId
      <4>3. CASE i = n + 1 /\ n > 0
        <5>1. information[n].ID = n /\ n \in Id /\ n # IdSpace - 1
          BY <3>3, <4>3, <2>5, IdSpaceAssumption DEF IInv, IdInv, Id
        <5>2. current_free_id = NextId(n)
          BY <5>1, <4>3, <2>2 DEF IInv, IdInv
        <5>3. current_free_id = n + 1
          BY <5>1, <5>2, NextIdValue
        <5>4. QED BY <5>3, <4>3, <2>5 DEF id, FreeId
      <4>4. QED BY <4>1, <4>2, <4>3, <2>5
    <3>4. QED BY <3>1, <3>2, <3>3, <2>5 DEF IdInv
  <2>10. NeverAssignsDrop'
    BY <2>3, <2>7 DEF NeverAssignsDrop, ClientDetect
  <2>11. OnlyRegisteredAsk' /\ FirstOwnerAnswered'
    BY <2>7 DEF OnlyRegisteredAsk, FirstOwnerAnswered
  <2>12. QED BY <2>8, <2>9, <2>10, <2>11 DEF IInv
<1>3. QED BY <1>1, <1>2

LEMMA RecIpRequestInv ==
  ASSUME IInv, NEW src \in SourceAddr, NEW id \in Id, RecIpRequest(src, id)
  PROVE  IInv'
<1>a. CASE ByPublic(src) = {} \/ ByID(id) = {}
  BY <1>a, NoReplyInv DEF RecIpRequest, Send
<1> SUFFICES ASSUME ByPublic(src) # {}, ByID(id) # {} PROVE IInv'
  BY <1>a
<1>1. PICK b \in 1..Len(information) :
        /\ First(b, ByID(id))
        /\ reply' = Packet("RESPONSE_GETTING_IP", ServerAddr, src, information[b].ID,
                      [local |-> information[b].local, public |-> information[b].public])
  BY DEF RecIpRequest, Send
<1>2. information' = information /\ current_free_id' = current_free_id
  BY DEF RecIpRequest
<1>3. information[b] \in ClientInfo /\ information[b].ID \in Id
  <2>1. information[b] \in ClientInfo
    BY DEF IInv, TypeOK
  <2>2. QED BY <2>1 DEF ClientInfo
<1>4. TypeCode("RESPONSE_GETTING_IP") = 1
  BY DEF TypeCode
<1>5. reply' = [code |-> 1, id |-> information[b].ID, src |-> ServerAddr, dst |-> src,
                pl |-> [local |-> information[b].local, public |-> information[b].public]]
  BY <1>1, <1>3, <1>4, PacketFields
<1>6. TypeOK'
  BY <1>2, <1>3, <1>5 DEF IInv, TypeOK, Reply, Metadata, ClientInfo
<1>7. NeverAssignsDrop'
  BY <1>5 DEF NeverAssignsDrop
<1>8. OnlyRegisteredAsk'
  BY <1>2, <1>5 DEF OnlyRegisteredAsk, RecIpRequest, ByPublic
<1>9. FirstOwnerAnswered'
  <2>1. b \in Nat /\ information[b].ID = id
    BY <1>1 DEF First, ByID
  <2>2. ASSUME NEW j \in 1..(b - 1) PROVE information[j].ID # information[b].ID
    <3>1. j \in 1..Len(information) /\ ~(b <= j)
      BY <2>1
    <3>2. QED BY <3>1, <2>1, <1>1 DEF First, ByID
  <2>3. QED BY <1>2, <1>5, <2>2 DEF FirstOwnerAnswered
<1>10. QED
  BY <1>2, <1>6, <1>7, <1>8, <1>9 DEF IInv, IdInv

LEMMA RecUpdateRequestInv ==
  ASSUME IInv, NEW id \in Id, NEW local \in LocalAddr, RecUpdateRequest(id, local)
  PROVE  IInv'
<1>a. CASE ByID(id) = {}
  BY <1>a, NoReplyInv DEF RecUpdateRequest, Send
<1> SUFFICES ASSUME ByID(id) # {} PROVE IInv'
  BY <1>a
<1>1. PICK k \in 1..Len(information) :
        information' = [information EXCEPT ![k].local = local]
  BY DEF RecUpdateRequest
<1>2. current_free_id' = current_free_id /\ reply' = None
  BY DEF RecUpdateRequest, Send
<1>3. information \in Seq(ClientInfo) /\ information[k] \in ClientInfo
  BY DEF IInv, TypeOK
<1>4. [information[k] EXCEPT !.local = local] \in ClientInfo
  BY <1>3 DEF ClientInfo
<1>5. information' \in Seq(ClientInfo) /\ Len(information') = Len(information)
  BY <1>1, <1>3, <1>4
<1>6. \A i \in 1..Len(information) :
        information'[i].ID = information[i].ID /\ information'[i].public = information[i].public
  BY <1>1, <1>3 DEF ClientInfo
<1>7. information # <<>> /\ information' # <<>>
  BY <1>3, <1>5
<1>8. IdInv'
  <2>1. Len(information) \in 1..Len(information)
    BY <1>3, <1>7
  <2>2. QED BY <2>1, <1>2, <1>5, <1>6, <1>7 DEF IInv, IdInv
<1>9. QED
  BY <1>2, <1>5, <1>8
    DEF IInv, TypeOK, NeverAssignsDrop, OnlyRegisteredAsk, FirstOwnerAnswered

LEMMA ReceiveStatusInv ==
  ASSUME IInv, NEW src \in SourceAddr, NEW local \in LocalAddr, ReceiveStatus(src, local)
  PROVE  IInv'
<1>1. TypeCode("STATUS_RESPONSE") = 7
  BY DEF TypeCode
<1>2. \A flag \in {0, 1} : flag \in Id
  BY IdSpaceAssumption DEF Id
<1>3. PICK flag \in {0, 1} :
        reply' = [code |-> 7, id |-> flag, src |-> ServerAddr, dst |-> local, pl |-> None]
  BY <1>1, <1>2, PacketFields DEF ReceiveStatus, Send
<1>4. information' = information /\ current_free_id' = current_free_id
  BY DEF ReceiveStatus
<1>5. TypeOK'
  BY <1>2, <1>3, <1>4 DEF IInv, TypeOK, Reply
<1>6. QED
  BY <1>3, <1>4, <1>5 DEF IInv, IdInv, NeverAssignsDrop, OnlyRegisteredAsk, FirstOwnerAnswered

-----------------------------------------------------------------------------
(* The theorems. *)

LEMMA Consecution == IInv /\ [Next]_vars => IInv'
<1> SUFFICES ASSUME IInv, [Next]_vars PROVE IInv'
  OBVIOUS
<1>1. CASE UNCHANGED vars
  BY <1>1 DEF vars, IInv, TypeOK, IdInv, NeverAssignsDrop, OnlyRegisteredAsk, FirstOwnerAnswered
<1>2. CASE Next
  BY <1>2, RecRequestIdInv, RecIpRequestInv, RecUpdateRequestInv, ReceiveStatusInv DEF Next
<1>3. QED BY <1>1, <1>2

THEOREM Invariance == Spec => []IInv
BY InitInv, Consecution, PTL DEF Spec

\* The server's state stays within its declared types.
THEOREM TypeCorrect == Spec => []TypeOK
<1>1. IInv => TypeOK
  BY DEF IInv
<1>2. QED BY <1>1, Invariance, PTL

\* No answer to an id request reads as DROP, for any width of the id field.
THEOREM NeverAssignsDropHolds == Spec => []NeverAssignsDrop
<1>1. IInv => NeverAssignsDrop
  BY DEF IInv
<1>2. QED BY <1>1, Invariance, PTL

\* As long as the ids have not wrapped, an id names one registration.
THEOREM IdsUniqueHolds == Spec => []IdsUnique
<1>1. IInv => IdsUnique
  <2> SUFFICES ASSUME IInv, Len(information) < IdSpace,
                      NEW i \in 1..Len(information), NEW j \in 1..Len(information),
                      information[i].ID = information[j].ID
               PROVE  i = j
    BY DEF IdsUnique
  <2>1. i < IdSpace /\ j < IdSpace
    BY IdSpaceAssumption DEF IInv, TypeOK
  <2>2. QED BY <2>1 DEF IInv, IdInv
<1>2. QED BY <1>1, Invariance, PTL

\* Only registered addresses are answered.
THEOREM OnlyRegisteredAskHolds == Spec => []OnlyRegisteredAsk
<1>1. IInv => OnlyRegisteredAsk
  BY DEF IInv
<1>2. QED BY <1>1, Invariance, PTL

\* An answer names the first owner of the id, before and after the wrap.
THEOREM FirstOwnerAnsweredHolds == Spec => []FirstOwnerAnswered
<1>1. IInv => FirstOwnerAnswered
  BY DEF IInv
<1>2. QED BY <1>1, Invariance, PTL

\* No step loses a registration, its id or its public address.
THEOREM RegistrationStableHolds == Spec => RegistrationStable
<1> DEFINE Kept == \A i \in 1..Len(information) :
                     /\ i \in 1..Len(information')
                     /\ information'[i].ID = information[i].ID
                     /\ information'[i].public = information[i].public
<1>1. IInv /\ [Next]_vars => [Kept]_vars
  <2> SUFFICES ASSUME IInv, Next PROVE Kept
    OBVIOUS
  <2>1. information \in Seq(ClientInfo)
    BY DEF IInv, TypeOK
  <2>2. information' = information => Kept
    OBVIOUS
  <2>3. ASSUME NEW src \in SourceAddr, NEW local \in LocalAddr, RecRequestId(src, local)
        PROVE  Kept
    <3>1. \/ information' = information
          \/ \E x \in ClientInfo : information' = Append(information, x)
      <4>1. [ID |-> FreeId(current_free_id), local |-> local, public |-> src] \in ClientInfo
        BY FreeIdRange DEF IInv, TypeOK, ClientInfo
      <4>2. QED BY <4>1, <2>3 DEF RecRequestId, vars
    <3>2. QED BY <3>1, <2>1
  <2>4. ASSUME NEW id \in Id, NEW local \in LocalAddr, RecUpdateRequest(id, local)
        PROVE  Kept
    <3>a. CASE ByID(id) = {}
      BY <3>a, <2>2, <2>4 DEF RecUpdateRequest
    <3> SUFFICES ASSUME ByID(id) # {} PROVE Kept
      BY <3>a
    <3>1. PICK k \in 1..Len(information) :
            information' = [information EXCEPT ![k].local = local]
      BY <2>4 DEF RecUpdateRequest
    <3>2. information[k] \in ClientInfo
      BY <2>1
    <3>3. QED BY <3>1, <3>2, <2>1 DEF ClientInfo
  <2>5. QED
    BY <2>2, <2>3, <2>4 DEF Next, RecIpRequest, ReceiveStatus
<1>2. QED
  BY <1>1, Invariance, PTL DEF Spec, RegistrationStable
-----------------------------------------------------------------------------
(* The way of packets (Routing).  The words of a header are added up in    *)
(* ones' complement, which is the sum modulo 2^16 - 1: a header with its   *)
(* own checksum in it adds up to 2^16 - 1, and the checksum of that is 0.  *)

\* What get_checksum has in acc when the numbers it has added come to x.
Residue(x) == ((x - 1) % Ones) + 1

LEMMA OnesNat == Ones \in Nat /\ Ones >= 1
BY SMT DEF Ones

\* Quotient and remainder.
LEMMA Division ==
  ASSUME NEW y \in Nat
  PROVE  y = Ones * (y \div Ones) + (y % Ones) /\ y % Ones \in 0..(Ones - 1) /\ y \div Ones \in Nat
<1>1. y = Ones * (y \div Ones) + (y % Ones)
  BY OnesNat, SMT
<1>2. y % Ones \in 0..(Ones - 1)
  BY OnesNat, SMT
<1>3. y \div Ones \in Nat
  BY OnesNat, SMT
<1> QED
  BY <1>1, <1>2, <1>3

LEMMA QuotientUnique ==
  ASSUME NEW m \in Nat, NEW p \in Nat, NEW q \in Nat, NEW r \in Nat, NEW t \in Nat,
         r < m, t < m, m * p + t = m * q + r
  PROVE  t = r
<1>1. p = q
  BY SMT
<1> QED
  BY <1>1, SMT

LEMMA ResidueIs ==
  ASSUME NEW x \in Nat, x >= 1
  PROVE  /\ Residue(x) \in 1..Ones
         /\ \E q \in Nat : x - 1 = Ones * q + (Residue(x) - 1)
<1>1. x - 1 \in Nat
  OBVIOUS
<1>2. /\ x - 1 = Ones * ((x - 1) \div Ones) + ((x - 1) % Ones)
      /\ (x - 1) % Ones \in 0..(Ones - 1) /\ (x - 1) \div Ones \in Nat
  BY <1>1, Division
<1>3. Residue(x) - 1 = (x - 1) % Ones /\ Residue(x) \in 1..Ones
  BY <1>2, OnesNat, SMT DEF Residue
<1> QED
  BY <1>2, <1>3

\* A residue is known by a quotient.
LEMMA ResidueBy ==
  ASSUME NEW x \in Nat, x >= 1, NEW q \in Nat, NEW r \in 1..Ones, x - 1 = Ones * q + (r - 1)
  PROVE  Residue(x) = r
<1>1. PICK t \in 1..Ones : t = Residue(x)
  BY ResidueIs
<1>2. PICK p \in Nat : x - 1 = Ones * p + (t - 1)
  BY <1>1, ResidueIs
<1>3. t - 1 \in Nat /\ t - 1 < Ones /\ r - 1 \in Nat /\ r - 1 < Ones
  BY OnesNat
<1>4. t - 1 = r - 1
  BY <1>2, <1>3, OnesNat, QuotientUnique
<1> QED
  BY <1>1, <1>4

\* One word more.
LEMMA OnesAddResidue ==
  ASSUME NEW x \in Nat, x >= 1, NEW w \in Nat
  PROVE  OnesAdd(Residue(x), w) = Residue(x + w)
<1>1. PICK q \in Nat : x - 1 = Ones * q + (Residue(x) - 1)
  BY ResidueIs
<1>2. PICK a \in 1..Ones : a = Residue(x)
  BY ResidueIs
<1>3. OnesAdd(a, w) = Residue(a + w)
  BY DEF OnesAdd, Residue
<1>4. a + w \in Nat /\ a + w >= 1 /\ x + w \in Nat /\ x + w >= 1
  BY OnesNat
<1>5. PICK b \in 1..Ones : b = Residue(a + w)
  BY <1>4, ResidueIs
<1>6. PICK p \in Nat : a + w - 1 = Ones * p + (b - 1)
  BY <1>4, <1>5, ResidueIs
<1>7. x - 1 = Ones * q + (a - 1)
  BY <1>1, <1>2
<1>8. x + w - 1 = Ones * (q + p) + (b - 1) /\ q + p \in Nat
  <2>1. Ones * (q + p) = Ones * q + Ones * p
    BY OnesNat, SMT
  <2>2. Ones * q \in Nat /\ Ones * p \in Nat
    BY OnesNat
  <2> QED
    BY <1>6, <1>7, <2>1, <2>2, OnesNat
<1>9. Residue(x + w) = b
  BY <1>4, <1>8, ResidueBy
<1> QED
  BY <1>2, <1>3, <1>5, <1>9

\* A non-empty set of natural numbers has a least one.
Less == {n \in Nat \X Nat : n[1] < n[2]}
LEMMA Least ==
  ASSUME NEW T \in SUBSET Nat, T # {}
  PROVE  \E x \in T : \A y \in T : x <= y
<1>1. IsWellFoundedOn(Less, Nat)
  BY NatLessThanWellFounded DEF OpToRel, Less
<1>2. PICK x \in T : \A y \in T : <<y, x>> \notin Less
  BY <1>1, WFMin
<1>3. \A y \in T : ~(y < x)
  BY <1>2 DEF Less
<1> QED
  BY <1>3

\* The recursion of the sums.
LEMMA SumsAre ==
  ASSUME NEW d, Len(d) \in Nat
  PROVE  Sums(d) = [n \in 0..Len(d) |-> IF n = 0 THEN Ones ELSE OnesAdd(Sums(d)[n - 1], d[n])]
<1> DEFINE P(k, g) == g = [n \in 0..k |-> IF n = 0 THEN Ones ELSE OnesAdd(g[n - 1], d[n])]
           T == { k \in Nat : ~ \E g : P(k, g) }
<1>1. T = {}
  <2> SUFFICES ASSUME T # {} PROVE FALSE
    OBVIOUS
  <2>1. PICK k \in T : \A y \in T : k <= y
    BY Least
  <2>2. k # 0
    <3>1. P(0, [n \in 0..0 |-> Ones])
      OBVIOUS
    <3> QED
      BY <2>1, <3>1
  <2>3. k - 1 \in Nat /\ k - 1 \notin T /\ k \in Nat
    <3> HIDE DEF P
    <3>1. k \in Nat
      BY <2>1
    <3>2. k - 1 \in Nat /\ ~(k <= k - 1)
      BY <2>2, <3>1
    <3> QED
      BY <2>1, <3>1, <3>2
  <2>4. PICK g : P(k - 1, g)
    BY <2>3
  <2> DEFINE h == [n \in 0..k |-> IF n < k THEN g[n] ELSE OnesAdd(g[k - 1], d[k])]
  <2>5. ASSUME NEW n \in 0..k
        PROVE  h[n] = IF n = 0 THEN Ones ELSE OnesAdd(h[n - 1], d[n])
    <3>1. CASE n = 0
      BY <2>2, <2>3, <2>4, <3>1
    <3>2. CASE n > 0 /\ n < k
      <4>1. n \in 0..(k - 1) /\ n - 1 \in 0..k /\ n - 1 < k
        BY <2>3, <3>2
      <4>2. g[n] = OnesAdd(g[n - 1], d[n])
        BY <2>4, <3>2, <4>1
      <4> QED
        BY <3>2, <4>1, <4>2
    <3>3. CASE n = k
      BY <2>2, <2>3, <3>3
    <3> QED
      BY <2>3, <3>1, <3>2, <3>3
  <2>6. P(k, h)
    BY <2>5
  <2> QED
    BY <2>1, <2>6
<1>2. PICK f : P(Len(d), f)
  BY <1>1
<1>3. Sums(d) = CHOOSE g : P(Len(d), g)
  BY DEF Sums
<1> HIDE DEF P
<1>4. P(Len(d), Sums(d))
  BY <1>2, <1>3
<1> QED
  BY <1>4 DEF P

\* Ten words.
LEMMA TenWords ==
  ASSUME NEW d, Len(d) = 10, \A n \in 1..10 : d[n] \in Nat
  PROVE  Sums(d)[10] =
           Residue(Ones + d[1] + d[2] + d[3] + d[4] + d[5] + d[6] + d[7] + d[8] + d[9] + d[10])
<1> DEFINE s == Sums(d)
           x1 == Ones + d[1]
           x2 == x1 + d[2]
           x3 == x2 + d[3]
           x4 == x3 + d[4]
           x5 == x4 + d[5]
           x6 == x5 + d[6]
           x7 == x6 + d[7]
           x8 == x7 + d[8]
           x9 == x8 + d[9]
           x10 == x9 + d[10]
           Made(n, x) == s[n] = Residue(x) /\ x \in Nat /\ x >= 1
<1>1. s = [n \in 0..10 |-> IF n = 0 THEN Ones ELSE OnesAdd(s[n - 1], d[n])]
  <2>1. Len(d) \in Nat
    OBVIOUS
  <2> QED
    BY <2>1, SumsAre
<1> HIDE DEF s
<1>2. s[0] = Ones /\ \A n \in 1..10 : s[n] = OnesAdd(s[n - 1], d[n])
  <2>1. \A n \in 1..10 : n \in 0..10 /\ n # 0
    OBVIOUS
  <2> QED
    BY <1>1, <2>1
<1>3. Made(0, Ones)
  <2>1. Ones - 1 \in Nat /\ (Ones - 1) % Ones = Ones - 1
    BY SMT DEF Ones
  <2>2. Residue(Ones) = Ones
    BY <2>1, OnesNat, SMT DEF Residue
  <2> QED
    BY <1>2, <2>2, OnesNat
<1>4. ASSUME NEW n \in 1..10, NEW x, Made(n - 1, x)
      PROVE  Made(n, x + d[n])
  <2>1. d[n] \in Nat /\ x + d[n] \in Nat /\ x + d[n] >= 1
    BY <1>4
  <2> QED
    BY <1>2, <1>4, <2>1, OnesAddResidue
<1> HIDE DEF Made, x1, x2, x3, x4, x5, x6, x7, x8, x9, x10
<1>5. Made(1, x1)
  <2>1. Made(1 - 1, Ones)
    BY <1>3
  <2> QED
    BY <1>4, <2>1 DEF x1
<1>6. Made(2, x2)
  <2>1. Made(2 - 1, x1)
    BY <1>5
  <2> QED
    BY <1>4, <2>1 DEF x2
<1>7. Made(3, x3)
  <2>1. Made(3 - 1, x2)
    BY <1>6
  <2> QED
    BY <1>4, <2>1 DEF x3
<1>8. Made(4, x4)
  <2>1. Made(4 - 1, x3)
    BY <1>7
  <2> QED
    BY <1>4, <2>1 DEF x4
<1>9. Made(5, x5)
  <2>1. Made(5 - 1, x4)
    BY <1>8
  <2> QED
    BY <1>4, <2>1 DEF x5
<1>10. Made(6, x6)
  <2>1. Made(6 - 1, x5)
    BY <1>9
  <2> QED
    BY <1>4, <2>1 DEF x6
<1>11. Made(7, x7)
  <2>1. Made(7 - 1, x6)
    BY <1>10
  <2> QED
    BY <1>4, <2>1 DEF x7
<1>12. Made(8, x8)
  <2>1. Made(8 - 1, x7)
    BY <1>11
  <2> QED
    BY <1>4, <2>1 DEF x8
<1>13. Made(9, x9)
  <2>1. Made(9 - 1, x8)
    BY <1>12
  <2> QED
    BY <1>4, <2>1 DEF x9
<1>14. Made(10, x10)
  <2>1. Made(10 - 1, x9)
    BY <1>13
  <2> QED
    BY <1>4, <2>1 DEF x10
<1> QED
  BY <1>14 DEF Made, s, x1, x2, x3, x4, x5, x6, x7, x8, x9, x10

\* The octets of addresses, and ports.
LEMMA Remainder ==
  ASSUME NEW n \in Nat, NEW m \in Nat
  PROVE  n % (m + 1) \in 0..m
<1>1. m + 1 \in Nat /\ m + 1 >= 1
  OBVIOUS
<1>2. PICK k \in Nat : k = m + 1 /\ k >= 1
  BY <1>1
<1>3. n % k \in 0..(k - 1)
  BY <1>2, SMT
<1> QED
  BY <1>2, <1>3, SMT

Full == 255   \* the greatest value of an octet

LEMMA OctetCut ==
  ASSUME NEW n \in Nat
  PROVE  n % 256 \in Octet
<1>1. Full \in Nat /\ Full + 1 = 256
  BY SMT DEF Full
<1>2. n % (Full + 1) \in 0..Full
  BY <1>1, Remainder
<1>3. Octet = 0..Full
  BY DEF Octet, Full
<1> QED
  BY <1>1, <1>2, <1>3

\* An octet of 0 goes down to 255.
LEMMA OctetDown ==
  ASSUME NEW n \in Nat
  PROVE  (n - 1) % 256 \in Octet
<1>1. Full \in Nat /\ Full + 1 = 256
  BY SMT DEF Full
<1>2. PICK k \in Int : k = n - 1
  OBVIOUS
<1>3. PICK m \in Nat : m = Full + 1 /\ m >= 1
  BY <1>1
<1>4. k % m \in 0..(m - 1)
  BY <1>3, SMT
<1>5. Octet = 0..Full
  BY DEF Octet, Full
<1>6. m - 1 = Full /\ m = 256
  BY <1>1, <1>3, SMT
<1> QED
  BY <1>2, <1>4, <1>5, <1>6, SMT

LEMMA OctetNumber ==
  ASSUME NEW n \in Octet
  PROVE  n \in Nat
<1>1. Octet = 0..Full
  BY DEF Octet, Full
<1>2. Full \in Nat
  BY SMT DEF Full
<1> QED
  BY <1>1, <1>2

LEMMA FourOctets ==
  ASSUME NEW a \in Nat, NEW b \in Nat, NEW c \in Nat, NEW d \in Nat
  PROVE  <<a % 256, b % 256, c % 256, d % 256>> \in Ip
<1>1. /\ a % 256 \in Octet /\ b % 256 \in Octet
      /\ c % 256 \in Octet /\ d % 256 \in Octet
  BY OctetCut
<1>2. \A w, x, y, z \in Octet : <<w, x, y, z>> \in Ip
  BY SMT DEF Ip
<1> QED
  BY <1>1, <1>2

LEMMA PortCut ==
  ASSUME NEW n \in Nat
  PROVE  n % 65536 \in Port
<1>1. Port = 0..Ones
  BY DEF Port, Ones
<1>2. n % (Ones + 1) \in 0..Ones
  BY OnesNat, Remainder
<1>3. Ones + 1 = 65536
  BY SMT DEF Ones
<1>4. n % 65536 = n % (Ones + 1)
  BY <1>3, SMTT(30)
<1> QED
  BY <1>1, <1>2, <1>4

LEMMA PortNumber ==
  ASSUME NEW p \in Port
  PROVE  p \in Nat
<1>1. Port = 0..Ones
  BY DEF Port, Ones
<1>2. p \in 0..Ones
  BY <1>1, Zenon
<1> QED
  BY <1>2, OnesNat, SMTT(30)

LEMMA IpNumbers ==
  ASSUME NEW ip \in Ip
  PROVE  ip[1] \in Nat /\ ip[2] \in Nat /\ ip[3] \in Nat /\ ip[4] \in Nat
<1>1. ip[1] \in Octet /\ ip[2] \in Octet /\ ip[3] \in Octet /\ ip[4] \in Octet
  BY DEF Ip
<1> QED
  BY <1>1, OctetNumber

LEMMA ServerAddress == Address(ServerIp, 1234) \in IpAddress
<1>1. 1 \in Octet /\ 1234 \in Port
  BY SMT DEF Octet, Port
<1>2. <<1, 1, 1, 1>> \in Ip
  BY <1>1, SMT DEF Ip
<1> QED
  BY <1>1, <1>2, SMT DEF Address, ServerIp, IpAddress

\* A header as fill_header and the machines on the way leave it.
Header ==
  [version_IHL : {69}, TTL : Octet, protocol : {17}, header_checksum : 0..Ones,
   total_length : Nat, src : IpAddress, dst : IpAddress, data_type : 0..7, id : Nat]

\* The words of a header without its checksum.
Bare(h) ==
  69 * 256 + h.total_length + (h.TTL * 256 + 17)
    + (h.src.ip[1] * 256 + h.src.ip[2]) + (h.src.ip[3] * 256 + h.src.ip[4])
    + (h.dst.ip[1] * 256 + h.dst.ip[2]) + (h.dst.ip[3] * 256 + h.dst.ip[4])

LEMMA HeaderWords ==
  ASSUME NEW h \in Header
  PROVE  Bare(h) \in Nat /\ GetChecksum(h) = Ones - Residue(Ones + Bare(h) + h.header_checksum)
<1>1. /\ h.version_IHL = 69 /\ h.protocol = 17 /\ h.TTL \in Nat /\ h.total_length \in Nat
      /\ h.header_checksum \in Nat /\ h.src.ip \in Ip /\ h.dst.ip \in Ip
  BY OnesNat, OctetNumber DEF Header, IpAddress
<1>2. \A ip \in Ip : ip[1] \in Nat /\ ip[2] \in Nat /\ ip[3] \in Nat /\ ip[4] \in Nat
  BY IpNumbers
<1> DEFINE d == IpWords(h)
           a == h.src.ip[1] * 256 + h.src.ip[2]
           b == h.src.ip[3] * 256 + h.src.ip[4]
           c == h.dst.ip[1] * 256 + h.dst.ip[2]
           e == h.dst.ip[3] * 256 + h.dst.ip[4]
<1>3. a \in Nat /\ b \in Nat /\ c \in Nat /\ e \in Nat
  BY <1>1, <1>2
<1>4. d = << 69 * 256, h.total_length, 0, 0, h.TTL * 256 + 17, h.header_checksum, a, b, c, e >>
  BY <1>1 DEF IpWords
<1>5. 69 * 256 \in Nat /\ h.TTL * 256 + 17 \in Nat
  BY <1>1
<1>6. Bare(h) = 69 * 256 + h.total_length + (h.TTL * 256 + 17) + a + b + c + e
  BY DEF Bare
<1>7. GetChecksum(h) = Ones - Sums(d)[10]
  BY DEF GetChecksum
<1> HIDE DEF a, b, c, e, d
<1>8. Len(d) = 10 /\ \A n \in 1..10 : d[n] \in Nat
  <2>1. Len(d) = 10
    BY <1>4
  <2>2. /\ d[1] \in Nat /\ d[2] \in Nat /\ d[3] \in Nat /\ d[4] \in Nat /\ d[5] \in Nat
        /\ d[6] \in Nat /\ d[7] \in Nat /\ d[8] \in Nat /\ d[9] \in Nat /\ d[10] \in Nat
    BY <1>1, <1>3, <1>4, <1>5
  <2> QED
    BY <2>1, <2>2
<1>9. Ones + d[1] + d[2] + d[3] + d[4] + d[5] + d[6] + d[7] + d[8] + d[9] + d[10] =
        Ones + Bare(h) + h.header_checksum
  BY <1>1, <1>3, <1>4, <1>5, <1>6, OnesNat
<1>10. Bare(h) \in Nat
  BY <1>1, <1>3, <1>5, <1>6
<1> QED
  BY <1>7, <1>8, <1>9, <1>10, TenWords

\* What is written into the checksum field changes nothing else.
LEMMA ChecksumSet ==
  ASSUME NEW h \in Header, NEW c \in 0..Ones
  PROVE  LET n == [h EXCEPT !.header_checksum = c] IN
         n \in Header /\ n.header_checksum = c /\ n.protocol = 17 /\ Bare(n) = Bare(h)
<1> DEFINE n == [h EXCEPT !.header_checksum = c]
<1>1. n \in Header /\ n.header_checksum = c /\ n.protocol = 17
  BY DEF Header
<1>2. /\ n.total_length = h.total_length /\ n.TTL = h.TTL
      /\ n.src = h.src /\ n.dst = h.dst
  BY DEF Header
<1> HIDE DEF n
<1>3. Bare(n) = Bare(h)
  BY <1>2 DEF Bare
<1> QED
  BY <1>1, <1>3 DEF n

\* Whatever the checksum field held: with the checksum in it, a header passes
\* the test of the machines.
LEMMA CheckedValid ==
  ASSUME NEW h \in Header
  PROVE  Checked(h) \in Header /\ Valid(Checked(h))
<1> DEFINE z == [h EXCEPT !.header_checksum = 0]
           c == GetChecksum(z)
           n == [h EXCEPT !.header_checksum = c]
<1>1. z \in Header /\ z.header_checksum = 0 /\ Bare(z) = Bare(h)
  <2>1. 0 \in 0..Ones
    BY OnesNat
  <2> QED
    BY <2>1, ChecksumSet
<1> HIDE DEF z
<1>2. Bare(h) \in Nat /\ c = Ones - Residue(Ones + Bare(h))
  <2>1. Bare(z) \in Nat /\ c = Ones - Residue(Ones + Bare(z) + 0)
    BY <1>1, HeaderWords
  <2>2. Ones + Bare(z) + 0 = Ones + Bare(z)
    BY <2>1, OnesNat
  <2> QED
    BY <1>1, <2>1, <2>2
<1> DEFINE x == Ones + Bare(h)
<1>3. x \in Nat /\ x >= 1
  BY <1>2, OnesNat
<1>4. c = Ones - Residue(x)
  BY <1>2
<1> HIDE DEF c, x
<1>5. PICK r \in 1..Ones : r = Residue(x)
  BY <1>3, ResidueIs
<1>6. PICK q \in Nat : x - 1 = Ones * q + (r - 1)
  BY <1>3, <1>5, ResidueIs
<1>7. c = Ones - r /\ c \in 0..Ones
  BY <1>4, <1>5, OnesNat
<1>8. n \in Header /\ n.header_checksum = c /\ Bare(n) = Bare(h) /\ n.protocol = 17
  BY <1>7, ChecksumSet
<1>9. Residue(x + c) = Ones
  <2>1. x + c \in Nat /\ x + c >= 1 /\ Ones \in 1..Ones
    BY <1>3, <1>7, OnesNat
  <2>2. x + c - 1 = Ones * q + (Ones - 1)
    <3>1. Ones * q \in Nat
      BY OnesNat
    <3> QED
      BY <1>3, <1>6, <1>7, <3>1, OnesNat
  <2>3. PICK y \in Nat : y = x + c
    BY <2>1
  <2>4. y >= 1 /\ y - 1 = Ones * q + (Ones - 1)
    BY <1>3, <1>7, <2>1, <2>2, <2>3, OnesNat
  <2>5. Residue(y) = Ones
    BY <2>1, <2>4, ResidueBy
  <2> QED
    BY <2>3, <2>5
<1> HIDE DEF n
<1>10. GetChecksum(n) = Ones - Residue(x + c)
  BY <1>8, HeaderWords DEF x
<1>11. GetChecksum(n) = 0
  BY <1>9, <1>10, OnesNat
<1> QED
  BY <1>8, <1>11 DEF Checked, Valid, n, c, z

\* What the machines write into headers.
LEMMA FilledValid ==
  ASSUME NEW type \in DataType, NEW src \in IpAddress, NEW dst \in IpAddress
  PROVE  FillHeader(type, src, dst) \in Header /\ Valid(FillHeader(type, src, dst))
<1>1. GetDataLength(type) \in Nat
  BY DEF GetDataLength, DataType
<1>2. TypeCode(type) \in 0..7
  BY DEF TypeCode, DataType
<1> DEFINE h == [version_IHL |-> 69, TTL |-> 64, protocol |-> 17, header_checksum |-> 0,
                 total_length |-> 20 + 8 + 1 + GetDataLength(type),
                 src |-> src, dst |-> dst, data_type |-> TypeCode(type), id |-> 0]
<1>3. 64 \in Octet /\ 0 \in 0..Ones
  BY OnesNat, SMT DEF Octet
<1>4. h \in Header
  BY <1>1, <1>2, <1>3 DEF Header
<1> HIDE DEF h
<1> QED
  BY <1>4, CheckedValid DEF FillHeader, h

LEMMA OwnAddress ==
  ASSUME NEW m \in Machine, NEW port \in Port
  PROVE  Iface[m][1].ip \in Ip /\ Own(m, port) \in IpAddress
<1>1. Iface[m] \in Seq([ip : Ip, mask : 0..4]) /\ Iface[m] # <<>>
  BY IfaceAssumption
<1>2. Iface[m][1] \in [ip : Ip, mask : 0..4]
  <2> DEFINE A == [ip : Ip, mask : 0..4]
  <2>1. \A s \in Seq(A) : s # <<>> => s[1] \in A
    <3> HIDE DEF A
    <3> QED
      OBVIOUS
  <2> QED
    BY <1>1, <2>1
<1> QED
  BY <1>2 DEF Own, Address, IpAddress

LEMMA PublicAddressTyped ==
  ASSUME NEW m \in Machine, NEW k \in Nat, k >= 1
  PROVE  PublicAddress(m, k) \in IpAddress
<1>1. 5000 \in Port
  BY SMT DEF Port
<1>2. Iface[m][1].ip \in Ip
  BY <1>1, OwnAddress
<1> DEFINE ip == Iface[m][1].ip
<1>3. ip[1] \in Nat /\ ip[2] \in Nat /\ ip[3] \in Nat /\ ip[4] \in Nat
  <2>1. \A a \in Ip : a[1] \in Nat /\ a[2] \in Nat /\ a[3] \in Nat /\ a[4] \in Nat
    BY IpNumbers
  <2> QED
    BY <1>2, <2>1
<1> HIDE DEF ip
<1>4. IpNumber(ip) \in Nat
  BY <1>3 DEF IpNumber
<1>5. (k - 1) \div 3 \in Nat
  BY SMT
<1>6. ASSUME NEW n \in Nat  PROVE IpOctets(n) \in Ip
  <2>1. PICK x \in Nat : x = n \div 16777216
    BY SMT
  <2>2. PICK y \in Nat : y = n \div 65536
    BY SMT
  <2>3. PICK z \in Nat : z = n \div 256
    BY SMT
  <2>4. IpOctets(n) = <<x % 256, y % 256, z % 256, n % 256>>
    BY <2>1, <2>2, <2>3, SMT DEF IpOctets
  <2> QED
    BY <2>4, FourOctets, SMT
<1>7. IpOctets(IpNumber(ip) + (k - 1) \div 3 + 1) \in Ip
  BY <1>4, <1>5, <1>6
<1>8. (BasePort + ((k - 1) % 3) * 100) % 65536 \in Port
  <2>1. BasePort \in Port
    BY AddressAssumption
  <2>2. BasePort \in Nat
    BY <2>1, PortNumber
  <2>3. PICK r \in Nat : r = (k - 1) % 3
    BY SMT
  <2>4. PICK p \in Nat : p = BasePort + r * 100
    BY <2>2, SMT
  <2>5. p % 65536 \in Port
    BY PortCut
  <2> QED
    BY <2>3, <2>4, <2>5
<1> QED
  BY <1>7, <1>8 DEF PublicAddress, Address, IpAddress, ip

-----------------------------------------------------------------------------
\* A packet under way has a header its checksum is right for; a NAT has
\* mapped addresses, and knows no others.
PacketInv == packet # None =>
  packet.hdr \in Header /\ Valid(packet.hdr) /\ packet.at \in Machine
TableInv == table \in [Machine -> Seq(IpAddress)]
WayInv == PacketInv /\ TableInv

\* A frame that is sent is right, or is sent nowhere.
LEMMA EmitInv ==
  ASSUME NEW h \in Header, Valid(h), NEW m, NEW i, Emit(h, m, i)
  PROVE  PacketInv'
<1>1. CASE <<m, i>> \notin DOMAIN Link
  BY <1>1 DEF Emit, PacketInv
<1>2. CASE <<m, i>> \in DOMAIN Link
  <2>1. packet' = [hdr |-> h, at |-> Link[<<m, i>>][1], iface |-> Link[<<m, i>>][2]]
    BY <1>2 DEF Emit
  <2>2. Link[<<m, i>>][1] \in Machine
    BY <1>2, LinkAssumption
  <2> QED
    BY <2>1, <2>2 DEF PacketInv
<1> QED
  BY <1>1, <1>2

LEMMA DropInv == Drop => PacketInv'
BY DEF Drop, PacketInv

\* Forwarding makes up for what was changed in the header, whether its
\* checksum was right before or not.
LEMMA ForwardInv ==
  ASSUME NEW h \in Header, NEW m, NEW i, Forward(h, m, i)
  PROVE  PacketInv'
<1> DEFINE n == [h EXCEPT !.TTL = (@ - 1) % 256]
<1>1. (h.TTL - 1) % 256 \in Octet
  <2>1. h.TTL \in Nat
    BY OctetNumber DEF Header
  <2> QED
    BY <2>1, OctetDown
<1>2. n \in Header
  BY <1>1 DEF Header
<1>3. Emit(Checked(n), m, i)
  BY DEF Forward
<1> HIDE DEF n
<1> QED
  BY <1>2, <1>3, CheckedValid, EmitInv

LEMMA SendPacketInv ==
  ASSUME WayInv, NEW c \in Machine, NEW type \in DataType, NEW dst \in IpAddress,
         SendPacket(c, type, dst)
  PROVE  WayInv'
<1>1. Own(c, ClientPort) \in IpAddress
  BY AddressAssumption, OwnAddress
<1>2. PICK i : Emit(FillHeader(type, Own(c, ClientPort), dst), c, i)
  BY DEF SendPacket
<1>3. PacketInv'
  BY <1>1, <1>2, FilledValid, EmitInv
<1> QED
  BY <1>3 DEF SendPacket, WayInv, TableInv

LEMMA ServerInv ==
  ASSUME WayInv, NEW h \in Header, NEW m \in Machine, NEW i, ServerProcess(h, m, i)
  PROVE  WayInv'
<1>1. CASE ~Valid(h)
  BY <1>1, DropInv DEF ServerProcess, WayInv, TableInv
<1>2. CASE Valid(h) /\ h.dst.ip = ServerIp
  <2>1. CASE ServerDetect([code |-> h.data_type]) = "REQUEST_ASSIGNING_ID"
    <3> DEFINE f == FillHeader("RESPONSE_ASSIGNING_ID", Address(ServerIp, 1234), h.src)
               n == [f EXCEPT !.id = 1]
    <3>1. Address(ServerIp, 1234) \in IpAddress
      BY ServerAddress
    <3>2. h.src \in IpAddress /\ "RESPONSE_ASSIGNING_ID" \in DataType
      BY DEF Header, DataType
    <3>3. f \in Header /\ Valid(f)
      BY <3>1, <3>2, FilledValid
    <3>4. Emit(n, m, i)
      BY <1>2, <2>1 DEF ServerProcess, ServerTakes
    <3> HIDE DEF f
    <3>5. n \in Header /\ IpWords(n) = IpWords(f) /\ n.protocol = f.protocol
      BY <3>3 DEF Header, IpWords
    <3>6. Valid(n)
      BY <3>3, <3>5 DEF Valid, GetChecksum
    <3> HIDE DEF n
    <3>7. PacketInv'
      BY <3>4, <3>5, <3>6, EmitInv
    <3> QED
      BY <3>7 DEF ServerProcess, WayInv, TableInv
  <2>2. CASE ServerDetect([code |-> h.data_type]) # "REQUEST_ASSIGNING_ID"
    BY <1>2, <2>2, DropInv DEF ServerProcess, ServerTakes, WayInv, TableInv
  <2> QED
    BY <2>1, <2>2
<1>3. CASE Valid(h) /\ h.dst.ip # ServerIp
  <2>1. Forward(h, m, FindGateway(m, h.dst.ip))
    BY <1>3 DEF ServerProcess
  <2>2. PacketInv'
    BY <2>1, ForwardInv
  <2> QED
    BY <2>2 DEF ServerProcess, WayInv, TableInv
<1> QED
  BY <1>1, <1>2, <1>3

LEMMA ClientInv ==
  ASSUME WayInv, NEW h \in Header, NEW m \in Machine, ClientProcess(h, m)
  PROVE  WayInv'
<1>1. Drop \/ Forward(h, m, FindGateway(m, h.dst.ip))
  BY DEF ClientProcess
<1>2. PacketInv'
  BY <1>1, DropInv, ForwardInv
<1> QED
  BY <1>2 DEF ClientProcess, WayInv, TableInv

LEMMA NatOuterInv ==
  ASSUME WayInv, NEW h \in Header, NEW m \in Machine, NatProcessOuter(h, m)
  PROVE  WayInv'
<1> DEFINE Refuses == Emit(FillHeader("DROP", Own(m, 4321), h.src), m, FindGateway(m, h.src.ip))
           LetsIn(k) == Forward([h EXCEPT !.dst = table[m][k]], m, FindGateway(m, table[m][k].ip))
<1>1. table[m] \in Seq(IpAddress) /\ h.src \in IpAddress
  BY DEF WayInv, TableInv, Header
<1>2. Refuses => PacketInv'
  <2>1. 4321 \in Port /\ "DROP" \in DataType
    BY SMT DEF Port, DataType
  <2>2. Own(m, 4321) \in IpAddress
    BY <2>1, OwnAddress
  <2> QED
    BY <1>1, <2>1, <2>2, FilledValid, EmitInv
<1>3. ASSUME NEW k \in 1..Len(table[m]), LetsIn(k)
      PROVE  PacketInv'
  <2>1. table[m][k] \in IpAddress
    BY <1>1
  <2>2. [h EXCEPT !.dst = table[m][k]] \in Header
    BY <2>1 DEF Header
  <2> QED
    BY <1>3, <2>2, ForwardInv
<1>4. ASSUME ~Drop
      PROVE  \E k \in 1..Len(table[m]) : IF <<k, h.src>> \in sessions[m] THEN LetsIn(k)
                                         ELSE Refuses /\ wrapped' = FALSE
  BY <1>4 DEF NatProcessOuter
<1> HIDE DEF Refuses, LetsIn
<1>5. PacketInv'
  BY <1>2, <1>3, <1>4, DropInv
<1> QED
  BY <1>5 DEF NatProcessOuter, WayInv, TableInv

LEMMA NatInnerInv ==
  ASSUME WayInv, NEW h \in Header, NEW m \in Machine, NatProcessInner(h, m)
  PROVE  WayInv'
<1> DEFINE known == IF \E k \in 1..Len(table[m]) : table[m][k] = h.src
                    THEN table[m] ELSE Append(table[m], h.src)
           k == CHOOSE j \in 1..Len(known) : known[j] = h.src
<1>1. table[m] \in Seq(IpAddress) /\ h.src \in IpAddress
  BY DEF WayInv, TableInv, Header
<1>2. known \in Seq(IpAddress) /\ \E j \in 1..Len(known) : known[j] = h.src
  <2>1. CASE \E j \in 1..Len(table[m]) : table[m][j] = h.src
    BY <1>1, <2>1
  <2>2. CASE ~ \E j \in 1..Len(table[m]) : table[m][j] = h.src
    <3>1. known = Append(table[m], h.src)
      BY <2>2
    <3>2. Append(table[m], h.src)[Len(table[m]) + 1] = h.src
      BY <1>1
    <3>3. Len(Append(table[m], h.src)) = Len(table[m]) + 1 /\ Len(table[m]) + 1 \in 1..(Len(table[m]) + 1)
      BY <1>1
    <3>4. Append(table[m], h.src) \in Seq(IpAddress)
      BY <1>1
    <3> HIDE DEF known
    <3> QED
      BY <3>1, <3>2, <3>3, <3>4
  <2> QED
    BY <2>1, <2>2
<1>3. table' = [table EXCEPT ![m] = known]
  BY DEF NatProcessInner
<1>4. Forward([h EXCEPT !.src = PublicAddress(m, k)], m, FindGateway(m, h.dst.ip))
  BY DEF NatProcessInner
<1> HIDE DEF known
<1>5. k \in Nat /\ k >= 1
  BY <1>2
<1> HIDE DEF k
<1>6. PublicAddress(m, k) \in IpAddress
  BY <1>5, PublicAddressTyped
<1>7. [h EXCEPT !.src = PublicAddress(m, k)] \in Header
  BY <1>6 DEF Header
<1>8. PacketInv'
  BY <1>4, <1>7, ForwardInv
<1>9. TableInv'
  BY <1>2, <1>3 DEF WayInv, TableInv
<1> QED
  BY <1>8, <1>9 DEF WayInv

LEMMA WayInitInv == WayInit => WayInv
BY DEF WayInit, WayInv, PacketInv, TableInv

LEMMA WayConsecution == WayInv /\ [WayNext]_wayvars => WayInv'
<1> SUFFICES ASSUME WayInv, [WayNext]_wayvars PROVE WayInv'
  OBVIOUS
<1>1. CASE UNCHANGED wayvars
  BY <1>1 DEF wayvars, WayInv, PacketInv, TableInv
<1>2. ASSUME NEW c \in Machine, SendPacket(c, "REQUEST_ASSIGNING_ID", Address(ServerIp, 1234))
      PROVE  WayInv'
  <2>1. Address(ServerIp, 1234) \in IpAddress /\ "REQUEST_ASSIGNING_ID" \in DataType
    BY ServerAddress DEF DataType
  <2> QED
    BY <1>2, <2>1, SendPacketInv
<1>3. ASSUME NEW c \in Machine, NEW dst \in Destination, SendPacket(c, "MESSAGE", dst)
      PROVE  WayInv'
  <2>1. dst \in IpAddress /\ "MESSAGE" \in DataType
    BY AddressAssumption DEF DataType
  <2> QED
    BY <1>3, <2>1, SendPacketInv
<1>4. CASE ProcessFrame
  <2>1. packet.hdr \in Header /\ packet.at \in Machine
    BY <1>4 DEF ProcessFrame, WayInv, PacketInv
  <2>2. \/ ServerProcess(packet.hdr, packet.at, packet.iface)
        \/ ClientProcess(packet.hdr, packet.at)
        \/ NatProcessOuter(packet.hdr, packet.at)
        \/ NatProcessInner(packet.hdr, packet.at)
    BY <1>4 DEF ProcessFrame, NatProcess
  <2> QED
    BY <2>1, <2>2, ServerInv, ClientInv, NatOuterInv, NatInnerInv
<1> QED
  BY <1>1, <1>2, <1>3, <1>4 DEF WayNext

THEOREM WayInvariance == WaySpec => []WayInv
BY WayInitInv, WayConsecution, PTL DEF WaySpec

\* On any network of clients, NAT machines and servers, every packet under way
\* passes the checksum test of the machine it comes to.
THEOREM HeadersValidHolds == WaySpec => []HeadersValid
<1>1. WayInv => HeadersValid
  BY DEF WayInv, PacketInv, HeadersValid
<1> QED
  BY <1>1, WayInvariance, PTL
=============================================================================

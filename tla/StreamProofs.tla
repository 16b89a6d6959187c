---------------------------- MODULE StreamProofs ----------------------------
(***************************************************************************)
(* Proofs about the byte stream of a running client, for any frames,       *)
(* interfaces, values, messages of the server and numbers of calls: what   *)
(* is called goes out whole or not at all, the frames copied are those     *)
(* that were sent, and the addresses here are those the server is told.    *)
(***************************************************************************)
EXTENDS Stream, SequenceTheorems, WellFoundedInduction, TLAPS

-----------------------------------------------------------------------------
(* A non-empty set of natural numbers has a least element, a bounded one a  *)
(* greatest.                                                                *)

Less == {n \in Nat \X Nat : n[1] < n[2]}

LEMMA Least ==
  ASSUME NEW T \in SUBSET Nat, T # {}
  PROVE  \E x \in T : \A y \in T : x <= y
<1>1. IsWellFoundedOn(Less, Nat)
  BY NatLessThanWellFounded DEF OpToRel, Less
<1>2. PICK x \in T : \A y \in T : <<y, x>> \notin Less
  BY <1>1, WFMin
<1>3. \A y \in T : ~(y < x)
  BY <1>2 DEF Less
<1> QED
  BY <1>3

LEMMA Greatest ==
  ASSUME NEW n \in Nat, NEW T \in SUBSET (1..n), T # {}
  PROVE  Max(T) \in T /\ \A y \in T : y <= Max(T)
<1> DEFINE U == {n - x : x \in T}
<1>1. U \in SUBSET Nat /\ U # {}
  <2>1. \A x \in T : n - x \in Nat
    OBVIOUS
  <2> QED
    BY <2>1
<1>2. PICK u \in U : \A y \in U : u <= y
  BY <1>1, Least
<1>3. PICK x \in T : u = n - x
  BY <1>2
<1>4. \A y \in T : x >= y
  <2> TAKE y \in T
  <2>1. n - y \in U
    OBVIOUS
  <2>2. u <= n - y
    BY <1>2, <2>1
  <2> QED
    BY <1>3, <2>2
<1>5. \E m \in T : \A y \in T : m >= y
  BY <1>4
<1>6. Max(T) \in T /\ \A y \in T : Max(T) >= y
  BY <1>5 DEF Max
<1> QED
  BY <1>6

LEMMA Induct ==
  ASSUME NEW T \in SUBSET Nat, 0 \in T, \A n \in T : n + 1 \in T
  PROVE  T = Nat
<1> SUFFICES ASSUME Nat \ T # {}  PROVE FALSE
  OBVIOUS
<1>1. Nat \ T \in SUBSET Nat
  OBVIOUS
<1>2. PICK x \in Nat \ T : \A y \in Nat \ T : x <= y
  BY <1>1, Least
<1>3. x - 1 \in Nat /\ x - 1 \notin Nat \ T /\ x - 1 + 1 = x
  BY <1>2
<1> QED
  BY <1>3

-----------------------------------------------------------------------------
(* Commands, and how the server reads them. *)

IsList(s) == \E V : s \in Seq(V)
Begins(c, k) == SubSeq(c, 1, k)

\* A command is known by its first units to end where it ends.
Proper(c) ==
  /\ IsList(c) /\ Len(c) \in Nat \ {0}
  /\ Whole(c) /\ \A k \in 1..(Len(c) - 1) : ~Whole(Begins(c, k))
  /\ FirstPiece(c) \in 1..Len(c)

LEMMA BeginsIs ==
  ASSUME NEW V, NEW c \in Seq(V), NEW k \in 0..Len(c)
  PROVE  /\ Begins(c, k) \in Seq(V) /\ Len(Begins(c, k)) = k
         /\ \A i \in 1..k : Begins(c, k)[i] = c[i]
BY DEF Begins

LEMMA BeginsAll ==
  ASSUME NEW c, IsList(c)
  PROVE  Begins(c, Len(c)) = c /\ Begins(c, 0) = <<>>
BY DEF Begins, IsList

LEMMA BeginsNext ==
  ASSUME NEW c, IsList(c), NEW k \in Nat, k < Len(c)
  PROVE  Append(Begins(c, k), c[k + 1]) = Begins(c, k + 1)
<1>1. PICK V : c \in Seq(V)
  BY DEF IsList
<1>2. k \in 0..Len(c) /\ k + 1 \in 0..Len(c) /\ k + 1 \in 1..Len(c)
  BY <1>1
<1>3. c[k + 1] \in V
  BY <1>1, <1>2
<1>4. /\ Begins(c, k) \in Seq(V) /\ Len(Begins(c, k)) = k
      /\ \A i \in 1..k : Begins(c, k)[i] = c[i]
  BY <1>1, <1>2, BeginsIs
<1>5. /\ Begins(c, k + 1) \in Seq(V) /\ Len(Begins(c, k + 1)) = k + 1
      /\ \A i \in 1..(k + 1) : Begins(c, k + 1)[i] = c[i]
  BY <1>1, <1>2, BeginsIs
<1>6. /\ Append(Begins(c, k), c[k + 1]) \in Seq(V)
      /\ Len(Append(Begins(c, k), c[k + 1])) = k + 1
      /\ \A i \in 1..k : Append(Begins(c, k), c[k + 1])[i] = Begins(c, k)[i]
      /\ Append(Begins(c, k), c[k + 1])[k + 1] = c[k + 1]
  BY <1>3, <1>4, AppendProperties
<1>7. \A i \in 1..(k + 1) : Append(Begins(c, k), c[k + 1])[i] = Begins(c, k + 1)[i]
  <2> TAKE i \in 1..(k + 1)
  <2>1. i \in 1..k \/ i = k + 1
    OBVIOUS
  <2> QED
    BY <1>4, <1>5, <1>6, <2>1
<1> QED
  BY <1>5, <1>6, <1>7, SeqEqual

LEMMA WalkProper == Proper(<<WalkCommand>>)
<1> DEFINE c == <<WalkCommand>>
<1>1. c \in Seq({WalkCommand}) /\ Len(c) = 1 /\ c[1] = WalkCommand
  OBVIOUS
<1> HIDE DEF c
<1>2. Whole(c) /\ FirstPiece(c) = 1
  BY <1>1 DEF Whole, FirstPiece, IsFrame, WalkCommand, SendFrameCommand,
     ChangeIPAddressCommand, ChangeNetmaskCommand
<1>3. IsList(c) /\ Len(c) = 1
  BY <1>1 DEF IsList
<1>4. Proper(c)
  BY <1>2, <1>3 DEF Proper
<1> QED
  BY <1>4 DEF c

LEMMA SetProper ==
  ASSUME NEW f \in Field, NEW i, NEW v
  PROVE  Proper(SetCommand(f, i, v))
<1> DEFINE type == IF f = "ip" THEN ChangeIPAddressCommand ELSE ChangeNetmaskCommand
           c == SetCommand(f, i, v)
<1>1. c \in Seq({type, i, v}) /\ Len(c) = 3 /\ c[1] = type /\ c = <<type, i, v>>
  BY DEF SetCommand
<1>2. type \in {ChangeIPAddressCommand, ChangeNetmaskCommand}
  OBVIOUS
<1> HIDE DEF c, type
<1>3. \A k \in 1..2 : Len(Begins(c, k)) = k /\ Begins(c, k)[1] = type
  <2>1. PICK V : c \in Seq(V)
    BY <1>1
  <2> TAKE k \in 1..2
  <2>2. k \in 0..Len(c) /\ 1 \in 1..k
    BY <1>1
  <2>3. Len(Begins(c, k)) = k /\ \A j \in 1..k : Begins(c, k)[j] = c[j]
    BY <2>1, <2>2, BeginsIs
  <2> QED
    BY <1>1, <2>2, <2>3
<1>4. Whole(c) /\ \A k \in 1..2 : ~Whole(Begins(c, k))
  BY <1>1, <1>2, <1>3 DEF Whole, SendFrameCommand, ChangeIPAddressCommand, ChangeNetmaskCommand
<1>5. FirstPiece(c) = 3
  BY <1>1, <1>2 DEF FirstPiece, IsFrame, SendFrameCommand, ChangeIPAddressCommand, ChangeNetmaskCommand
<1>6. IsList(c)
  BY <1>1 DEF IsList
<1>7. Proper(c)
  BY <1>1, <1>4, <1>5, <1>6 DEF Proper
<1> QED
  BY <1>7 DEF c

LEMMA FrameProper ==
  ASSUME NEW V, NEW data \in Seq(V), NEW i
  PROVE  Proper(FrameCommand(data, i)) /\ FrameCommand(data, i)[1] = SendFrameCommand
<1> DEFINE c == FrameCommand(data, i)
           h == <<SendFrameCommand, 1 + Len(data), i>>
           W == V \cup {SendFrameCommand, 1 + Len(data), i}
<1>1. h \in Seq(W) /\ data \in Seq(W) /\ Len(h) = 3 /\ Len(data) \in Nat
  OBVIOUS
<1>2. /\ c \in Seq(W) /\ Len(c) = 3 + Len(data)
      /\ c[1] = SendFrameCommand /\ c[2] = 1 + Len(data)
  BY <1>1, ConcatProperties DEF FrameCommand
<1> HIDE DEF c, W
<1>3. \A k \in 1..(Len(c) - 1) :
        /\ Len(Begins(c, k)) = k /\ Begins(c, k)[1] = SendFrameCommand
        /\ k > 1 => Begins(c, k)[2] = 1 + Len(data)
  <2> TAKE k \in 1..(Len(c) - 1)
  <2>1. k \in 0..Len(c) /\ 1 \in 1..k /\ (k > 1 => 2 \in 1..k)
    BY <1>1, <1>2
  <2>2. Len(Begins(c, k)) = k /\ \A j \in 1..k : Begins(c, k)[j] = c[j]
    BY <1>2, <2>1, BeginsIs
  <2> QED
    BY <1>2, <2>1, <2>2
<1>4. Whole(c) /\ \A k \in 1..(Len(c) - 1) : ~Whole(Begins(c, k))
  <2>1. Whole(c)
    BY <1>1, <1>2 DEF Whole, SendFrameCommand, ChangeIPAddressCommand, ChangeNetmaskCommand
  <2>2. ASSUME NEW k \in 1..(Len(c) - 1)  PROVE ~Whole(Begins(c, k))
    <3>1. k \in Nat /\ k < 3 + Len(data)
      BY <1>1, <1>2
    <3> QED
      BY <1>1, <1>3, <3>1 DEF Whole, SendFrameCommand, ChangeIPAddressCommand, ChangeNetmaskCommand
  <2> QED
    BY <2>1, <2>2
<1>5. FirstPiece(c) = 3 /\ 3 \in 1..Len(c)
  BY <1>1, <1>2 DEF FirstPiece, IsFrame
<1> QED
  BY <1>1, <1>2, <1>4, <1>5 DEF Proper, IsList, c

\* A stretch of a list of units, unit by unit.
LEMMA StretchIs ==
  ASSUME NEW V, NEW c \in Seq(V), NEW p \in Nat, NEW n \in Nat \ {0}, p + n <= Len(c)
  PROVE  /\ Len(SubSeq(c, p + 1, p + n)) = n
         /\ \A k \in 1..n : SubSeq(c, p + 1, p + n)[k] = c[p + k]
<1> DEFINE units == SubSeq(c, p + 1, p + n)
<1>1. p + 1 \in 1..(Len(c) + 1) /\ p + n \in Nat /\ p + n >= p + 1 - 1
  OBVIOUS
<1>2. /\ Len(units) = (p + n) - (p + 1) + 1
      /\ \A k \in 1..Len(units) : units[k] = c[p + 1 + k - 1]
  BY <1>1, SubSeqProperties
<1> HIDE DEF units
<1>3. Len(units) = n
  BY <1>2
<1>4. ASSUME NEW k \in 1..n  PROVE units[k] = c[p + k]
  <2>1. p + 1 + k - 1 = p + k
    OBVIOUS
  <2> QED
    BY <1>2, <1>3, <2>1
<1> QED
  BY <1>3, <1>4 DEF units

\* What the server has after reading some more units of a command: the beginning up
\* to there, or the whole command and nothing more.
LEMMA ReadAllOf ==
  ASSUME NEW c, Proper(c), NEW p \in Nat, NEW n \in Nat \ {0}, p + n <= Len(c),
         NEW s, s = [heard |-> s.heard, part |-> Begins(c, p)]
  PROVE  ReadAll(s, SubSeq(c, p + 1, p + n)) =
           IF p + n < Len(c) THEN [heard |-> s.heard, part |-> Begins(c, p + n)]
           ELSE [heard |-> Append(s.heard, c), part |-> <<>>]
<1> DEFINE units == SubSeq(c, p + 1, p + n)
           Read(k) == IF p + k < Len(c) THEN [heard |-> s.heard, part |-> Begins(c, p + k)]
                      ELSE [heard |-> Append(s.heard, c), part |-> <<>>]
           IsAfter(f) == f = [k \in 0..Len(units) |->
                                IF k = 0 THEN s ELSE Reads(f[k - 1], units[k])]
<1>1. Len(units) = n /\ \A k \in 1..n : units[k] = c[p + k]
  <2>1. PICK V : c \in Seq(V)
    BY DEF Proper, IsList
  <2> QED
    BY <2>1, StretchIs
<1> HIDE DEF units
<1>2. p < Len(c) /\ Len(c) \in Nat
  BY DEF Proper
<1>3. Read(0) = s
  BY <1>2
<1>4. ASSUME NEW k \in 1..n  PROVE Reads(Read(k - 1), units[k]) = Read(k)
  <2>1. p + (k - 1) < Len(c) /\ p + (k - 1) \in Nat /\ units[k] = c[p + (k - 1) + 1]
    BY <1>1, <1>2
  <2>2. Read(k - 1) = [heard |-> s.heard, part |-> Begins(c, p + (k - 1))]
    BY <2>1
  <2>3. Append(Begins(c, p + (k - 1)), units[k]) = Begins(c, p + k)
    <3>1. Append(Begins(c, p + (k - 1)), c[p + (k - 1) + 1]) = Begins(c, p + (k - 1) + 1)
      BY <2>1, BeginsNext DEF Proper
    <3>2. p + (k - 1) + 1 = p + k
      OBVIOUS
    <3> QED
      BY <2>1, <3>1, <3>2
  <2> DEFINE b == Begins(c, p + (k - 1))
             a == Begins(c, p + k)
             r == [heard |-> s.heard, part |-> b]
  <2>4. CASE p + k < Len(c)
    <3>1. ~Whole(a)
      BY <1>2, <2>4 DEF Proper
    <3>2. Read(k) = [heard |-> s.heard, part |-> a]
      BY <2>4
    <3> HIDE DEF a, b, Read
    <3>3. Reads(r, units[k]) = [heard |-> s.heard, part |-> a]
      BY <2>3, <3>1 DEF Reads, a, b
    <3> QED
      BY <2>2, <3>2, <3>3 DEF b
  <2>5. CASE p + k = Len(c)
    <3>1. a = c /\ Whole(c)
      BY <2>5, BeginsAll DEF Proper
    <3>2. Read(k) = [heard |-> Append(s.heard, c), part |-> <<>>]
      BY <2>5
    <3>3. Append(b, units[k]) = c
      BY <2>3, <3>1
    <3> HIDE DEF a, b, Read
    <3>4. Reads(r, units[k]) = [heard |-> Append(s.heard, c), part |-> <<>>]
      BY <3>1, <3>3 DEF Reads
    <3> QED
      BY <2>2, <3>2, <3>4 DEF b
  <2> QED
    BY <1>2, <2>4, <2>5
<1> HIDE DEF Read
<1>5. IsAfter([k \in 0..n |-> Read(k)])
  <2> DEFINE f == [k \in 0..n |-> Read(k)]
  <2>1. \A k \in 0..n : f[k] = IF k = 0 THEN s ELSE Reads(f[k - 1], units[k])
    <3> TAKE k \in 0..n
    <3>1. CASE k = 0
      BY <1>3, <3>1
    <3>2. CASE k # 0
      <4>1. k \in 1..n /\ k - 1 \in 0..n
        BY <3>2
      <4> QED
        BY <1>4, <3>2, <4>1
    <3> QED
      BY <3>1, <3>2
  <2> QED
    BY <1>1, <2>1
<1>6. ASSUME NEW f, IsAfter(f)  PROVE f[n] = Read(n)
  <2> DEFINE T == {k \in 0..n : f[k] # Read(k)}
  <2>1. \A k \in 0..n : f[k] = IF k = 0 THEN s ELSE Reads(f[k - 1], units[k])
    BY <1>1, <1>6
  <2>2. SUFFICES ASSUME T # {}  PROVE FALSE
    OBVIOUS
  <2>3. T \in SUBSET Nat
    OBVIOUS
  <2>4. PICK k \in T : \A j \in T : k <= j
    BY <2>2, <2>3, Least
  <2>5. k # 0
    BY <1>3, <2>1
  <2>6. k \in 1..n /\ k - 1 \in 0..n /\ k - 1 \notin T
    BY <2>4, <2>5
  <2>7. f[k - 1] = Read(k - 1)
    BY <2>6
  <2> QED
    BY <1>4, <2>1, <2>5, <2>6, <2>7
<1>7. ReadAll(s, units) = (CHOOSE f : IsAfter(f))[Len(units)]
  BY DEF ReadAll
<1>8. IsAfter(CHOOSE f : IsAfter(f))
  BY <1>5
<1>9. ReadAll(s, units) = Read(n)
  BY <1>1, <1>6, <1>7, <1>8
<1> QED
  BY <1>9 DEF units, Read

\* ReadAll, unit by unit.
ReadsUpto(f, s, units) ==
  f = [k \in 0..Len(units) |-> IF k = 0 THEN s ELSE Reads(f[k - 1], units[k])]

LEMMA ReadsSome ==
  ASSUME NEW s, NEW units, IsList(units)
  PROVE  \E f : ReadsUpto(f, s, units)
<1> DEFINE Upto(n, f) == \A k \in 0..n : f[k] = IF k = 0 THEN s ELSE Reads(f[k - 1], units[k])
           T == {n \in Nat : \E f : Upto(n, f)}
<1>1. 0 \in T
  <2>1. Upto(0, [k \in {0} |-> s])
    OBVIOUS
  <2> HIDE DEF Upto
  <2> QED
    BY <2>1
<1>2. ASSUME NEW n \in T  PROVE n + 1 \in T
  <2>1. PICK f : Upto(n, f)
    OBVIOUS
  <2> DEFINE new == Reads(f[n], units[n + 1])
             g == [k \in 0..(n + 1) |-> IF k <= n THEN f[k] ELSE new]
  <2>2. (\A k \in 0..n : g[k] = f[k]) /\ g[n + 1] = new
    OBVIOUS
  <2> HIDE DEF g
  <2>3. ASSUME NEW k \in 0..(n + 1)
        PROVE  g[k] = IF k = 0 THEN s ELSE Reads(g[k - 1], units[k])
    <3>1. CASE k \in 0..n
      <4>1. k # 0 => k - 1 \in 0..n
        BY <3>1
      <4> QED
        BY <2>1, <2>2, <3>1, <4>1
    <3>2. CASE k = n + 1
      <4>1. k # 0 /\ k - 1 = n /\ n \in 0..n
        BY <3>2
      <4> QED
        BY <2>2, <3>2, <4>1
    <3> QED
      BY <3>1, <3>2
  <2>4. Upto(n + 1, g)
    BY <2>3
  <2> HIDE DEF Upto
  <2> QED
    BY <2>4
<1>3. T = Nat
  <2>1. T \in SUBSET Nat
    OBVIOUS
  <2> HIDE DEF T, Upto
  <2> QED
    BY <1>1, <1>2, <2>1, Induct
<1>4. PICK n \in Nat : n = Len(units)
  BY DEF IsList
<1>5. PICK f : Upto(n, f)
  <2> HIDE DEF Upto
  <2>1. n \in T
    BY <1>3
  <2> QED
    BY <2>1
<1> DEFINE g == [k \in 0..n |-> f[k]]
<1>6. \A k \in 0..n : g[k] = f[k] /\ (k # 0 => k - 1 \in 0..n)
  OBVIOUS
<1>7. \A k \in 0..n : g[k] = IF k = 0 THEN s ELSE Reads(g[k - 1], units[k])
  BY <1>5, <1>6
<1>8. g = [k \in 0..n |-> IF k = 0 THEN s ELSE Reads(g[k - 1], units[k])]
  <2>1. g = [k \in 0..n |-> g[k]]
    OBVIOUS
  <2> HIDE DEF g
  <2> QED
    BY <1>7, <2>1
<1> HIDE DEF g
<1> QED
  BY <1>4, <1>8 DEF ReadsUpto

LEMMA ReadAllIs ==
  ASSUME NEW s, NEW units, IsList(units)
  PROVE  /\ Len(units) \in Nat
         /\ \E f : /\ f[0] = s /\ ReadAll(s, units) = f[Len(units)]
                   /\ \A k \in 1..Len(units) : f[k] = Reads(f[k - 1], units[k])
<1> DEFINE f == CHOOSE g : ReadsUpto(g, s, units)
<1>1. ReadsUpto(f, s, units)
  BY ReadsSome
<1>2. ReadAll(s, units) = f[Len(units)]
  BY DEF ReadAll, ReadsUpto
<1> HIDE DEF f
<1>3. Len(units) \in Nat
  BY DEF IsList
<1>4. \A k \in 0..Len(units) : f[k] = IF k = 0 THEN s ELSE Reads(f[k - 1], units[k])
  BY <1>1 DEF ReadsUpto
<1>5. f[0] = s
  BY <1>3, <1>4
<1>6. \A k \in 1..Len(units) : f[k] = Reads(f[k - 1], units[k])
  <2> TAKE k \in 1..Len(units)
  <2>1. k \in 0..Len(units) /\ k # 0
    BY <1>3
  <2> QED
    BY <1>4, <2>1
<1> QED
  BY <1>2, <1>3, <1>5, <1>6

\* Two lists are read one after the other.
LEMMA ReadAllBoth ==
  ASSUME NEW s, NEW a, IsList(a), NEW b, IsList(b)
  PROVE  ReadAll(s, a \o b) = ReadAll(ReadAll(s, a), b) /\ IsList(a \o b)
<1> DEFINE c == a \o b
<1>1. /\ Len(a) \in Nat /\ Len(b) \in Nat /\ Len(c) = Len(a) + Len(b)
      /\ \A k \in 1..Len(a) : c[k] = a[k]
      /\ \A k \in 1..Len(b) : c[Len(a) + k] = b[k]
      /\ IsList(c)
  <2>1. PICK V, W : a \in Seq(V) /\ b \in Seq(W)
    BY DEF IsList
  <2>2. a \in Seq(V \cup W) /\ b \in Seq(V \cup W)
    BY <2>1
  <2>3. c \in Seq(V \cup W)
    BY <2>2
  <2>4. IsList(c)
    BY <2>3 DEF IsList
  <2> QED
    BY <2>2, <2>4, ConcatProperties
<1> HIDE DEF c
<1>2. PICK f : /\ f[0] = s /\ ReadAll(s, c) = f[Len(c)]
               /\ \A k \in 1..Len(c) : f[k] = Reads(f[k - 1], c[k])
  <2>1. IsList(c)
    BY <1>1
  <2> QED
    BY <2>1, ReadAllIs
<1>3. PICK g : /\ g[0] = s /\ ReadAll(s, a) = g[Len(a)]
               /\ \A k \in 1..Len(a) : g[k] = Reads(g[k - 1], a[k])
  BY ReadAllIs
<1>4. PICK h : /\ h[0] = ReadAll(s, a) /\ ReadAll(ReadAll(s, a), b) = h[Len(b)]
               /\ \A k \in 1..Len(b) : h[k] = Reads(h[k - 1], b[k])
  BY ReadAllIs
<1>5. PICK n \in Nat, m \in Nat : n = Len(a) /\ m = Len(b) /\ Len(c) = n + m
  BY <1>1
<1>6. \A k \in 0..n : f[k] = g[k]
  <2> DEFINE T == {k \in 0..n : f[k] # g[k]}
  <2> SUFFICES ASSUME T # {}  PROVE FALSE
    OBVIOUS
  <2>1. T \in SUBSET Nat
    OBVIOUS
  <2>2. PICK k \in T : \A j \in T : k <= j
    BY <2>1, Least
  <2>3. k \in 1..n /\ k - 1 \in 0..n /\ k - 1 \notin T /\ k \in 1..(n + m)
    BY <1>2, <1>3, <2>2
  <2>4. f[k - 1] = g[k - 1] /\ c[k] = a[k]
    BY <1>1, <1>5, <2>3
  <2> QED
    BY <1>2, <1>3, <1>5, <2>3, <2>4
<1>7. \A k \in 0..m : f[n + k] = h[k]
  <2> DEFINE T == {k \in 0..m : f[n + k] # h[k]}
  <2> SUFFICES ASSUME T # {}  PROVE FALSE
    OBVIOUS
  <2>1. T \in SUBSET Nat
    OBVIOUS
  <2>2. PICK k \in T : \A j \in T : k <= j
    BY <2>1, Least
  <2>3. k # 0
    <3>1. f[n + 0] = h[0]
      BY <1>3, <1>4, <1>5, <1>6
    <3> QED
      BY <2>2, <3>1
  <2>4. k \in 1..m /\ k - 1 \in 0..m /\ k - 1 \notin T /\ n + k \in 1..(n + m) /\ (n + k) - 1 = n + (k - 1)
    BY <2>2, <2>3
  <2>5. f[n + (k - 1)] = h[k - 1] /\ c[n + k] = b[k]
    BY <1>1, <1>5, <2>4
  <2> QED
    BY <1>2, <1>4, <1>5, <2>4, <2>5
<1>8. f[n + m] = h[m]
  BY <1>7
<1> QED
  BY <1>1, <1>2, <1>4, <1>5, <1>8 DEF c

LEMMA ReadAllOne ==
  ASSUME NEW s, NEW unit
  PROVE  ReadAll(s, <<unit>>) = Reads(s, unit) /\ ReadAll(s, <<>>) = s
<1>1. <<unit>> \in Seq({unit}) /\ Len(<<unit>>) = 1 /\ <<unit>>[1] = unit /\ <<>> \in Seq({}) /\ Len(<<>>) = 0
  OBVIOUS
<1>2. IsList(<<unit>>) /\ IsList(<<>>)
  BY <1>1 DEF IsList
<1>3. PICK f : /\ f[0] = s /\ ReadAll(s, <<unit>>) = f[1]
               /\ \A k \in 1..1 : f[k] = Reads(f[k - 1], <<unit>>[k])
  BY <1>1, <1>2, ReadAllIs
<1>4. ReadAll(s, <<>>) = s
  BY <1>1, <1>2, ReadAllIs
<1>5. f[1] = Reads(f[1 - 1], <<unit>>[1])
  BY <1>3
<1> QED
  BY <1>1, <1>3, <1>4, <1>5

\* What has arrived may be read before the rest does.
LEMMA ReadAllNext ==
  ASSUME NEW s, NEW units, IsList(units), units # <<>>
  PROVE  /\ ReadAll(s, units) = ReadAll(Reads(s, Head(units)), Tail(units))
         /\ IsList(Tail(units))
<1>1. PICK V : units \in Seq(V)
  BY DEF IsList
<1>2. Tail(units) \in Seq(V) /\ units = <<Head(units)>> \o Tail(units)
  BY <1>1
<1>3. IsList(Tail(units)) /\ IsList(<<Head(units)>>)
  <2>1. <<Head(units)>> \in Seq({Head(units)})
    OBVIOUS
  <2> QED
    BY <1>2, <2>1 DEF IsList
<1>4. ReadAll(s, <<Head(units)>> \o Tail(units)) = ReadAll(ReadAll(s, <<Head(units)>>), Tail(units))
  BY <1>3, ReadAllBoth
<1> QED
  BY <1>2, <1>3, <1>4, ReadAllOne

\* Whole commands, and a part of one; another list starts with these.
State(s) == s = [heard |-> s.heard, part |-> s.part] /\ IsList(s.heard)
Starts(a, b) == Len(a) <= Len(b) /\ \A i \in 1..Len(a) : b[i] = a[i]

LEMMA ReadsState ==
  ASSUME NEW s, State(s), NEW unit
  PROVE  State(Reads(s, unit)) /\ Starts(s.heard, Reads(s, unit).heard)
<1> DEFINE part == Append(s.part, unit)
<1>1. PICK V : s.heard \in Seq(V)
  BY DEF State, IsList
<1>2. CASE Whole(part)
  <2>1. Reads(s, unit) = [heard |-> Append(s.heard, part), part |-> <<>>]
    BY <1>2 DEF Reads
  <2> HIDE DEF part
  <2>2. s.heard \in Seq(V \cup {part})
    BY <1>1
  <2>3. /\ Append(s.heard, part) \in Seq(V \cup {part})
        /\ Len(Append(s.heard, part)) = Len(s.heard) + 1 /\ Len(s.heard) \in Nat
        /\ \A i \in 1..Len(s.heard) : Append(s.heard, part)[i] = s.heard[i]
    BY <2>2, AppendProperties
  <2>4. Reads(s, unit).heard = Append(s.heard, part) /\ Reads(s, unit).part = <<>>
    BY <2>1
  <2> QED
    BY <2>1, <2>3, <2>4 DEF State, Starts, IsList
<1>3. CASE ~Whole(part)
  <2>1. Reads(s, unit) = [s EXCEPT !.part = part]
    BY <1>3 DEF Reads
  <2> HIDE DEF part
  <2>2. Reads(s, unit) = [heard |-> s.heard, part |-> part]
    BY <2>1 DEF State
  <2> QED
    BY <1>1, <2>2 DEF State, Starts
<1> QED
  BY <1>2, <1>3

\* What has been read stays read.
LEMMA ReadAllState ==
  ASSUME NEW s, State(s), NEW units, IsList(units)
  PROVE  State(ReadAll(s, units)) /\ Starts(s.heard, ReadAll(s, units).heard)
<1>1. PICK n \in Nat : n = Len(units)
  BY DEF IsList
<1>2. PICK f : /\ f[0] = s /\ ReadAll(s, units) = f[n]
               /\ \A k \in 1..n : f[k] = Reads(f[k - 1], units[k])
  BY <1>1, ReadAllIs
<1> DEFINE T == {k \in 0..n : ~(State(f[k]) /\ Starts(s.heard, f[k].heard))}
<1>3. T = {}
  <2> SUFFICES ASSUME T # {}  PROVE FALSE
    OBVIOUS
  <2>1. T \in SUBSET Nat
    OBVIOUS
  <2>2. PICK k \in T : \A j \in T : k <= j
    BY <2>1, Least
  <2>3. Starts(s.heard, s.heard)
    BY DEF State, IsList, Starts
  <2>4. k # 0
    BY <1>2, <2>2, <2>3
  <2>5. k \in 1..n /\ k - 1 \in 0..n /\ k - 1 \notin T
    BY <2>2, <2>4
  <2>6. State(f[k - 1]) /\ Starts(s.heard, f[k - 1].heard) /\ f[k] = Reads(f[k - 1], units[k])
    BY <1>2, <2>5
  <2>7. State(f[k]) /\ Starts(f[k - 1].heard, f[k].heard)
    BY <2>6, ReadsState
  <2>8. Len(s.heard) \in Nat /\ Len(f[k - 1].heard) \in Nat /\ Len(f[k].heard) \in Nat
    BY <2>6, <2>7 DEF State, IsList
  <2>9. Starts(s.heard, f[k].heard)
    <3> DEFINE a == s.heard
               b == f[k - 1].heard
               c == f[k].heard
    <3>1. Starts(a, b) /\ Starts(b, c) /\ Len(a) \in Nat /\ Len(b) \in Nat /\ Len(c) \in Nat
      BY <2>6, <2>7, <2>8
    <3> HIDE DEF a, b, c
    <3>2. Starts(a, c)
      BY <3>1 DEF Starts
    <3> QED
      BY <3>2 DEF a, c
  <2> QED
    BY <2>2, <2>7, <2>9
<1> QED
  BY <1>2, <1>3

\* Starts is IsPrefix.
LEMMA StartsIsPrefix ==
  ASSUME NEW a, IsList(a), NEW b, IsList(b), Starts(a, b)
  PROVE  IsPrefix(a, b)
<1>1. PICK V, W : a \in Seq(V) /\ b \in Seq(W)
  BY DEF IsList
<1>2. PICK n \in Nat : n = Len(a) /\ n \in 0..Len(a) /\ n \in 0..Len(b) /\ Len(a) <= Len(b)
  BY <1>1 DEF Starts
<1>3. /\ Begins(a, n) \in Seq(V) /\ Len(Begins(a, n)) = n
      /\ Begins(b, n) \in Seq(W) /\ Len(Begins(b, n)) = n
      /\ \A i \in 1..n : Begins(a, n)[i] = a[i] /\ Begins(b, n)[i] = b[i]
  BY <1>1, <1>2, BeginsIs
<1>4. Begins(a, n) = Begins(b, n)
  BY <1>2, <1>3, SeqEqual DEF Starts
<1> QED
  BY <1>2, <1>4 DEF IsPrefix, Begins

-----------------------------------------------------------------------------
(* The calls and what has gone out: the inductive invariant.                *)

\* What a command is, and of which of the calls.
IsCommand(c) ==
  /\ Proper(c.command)
  /\ IF c.set = "none" THEN c.command[1] \in {SendFrameCommand, WalkCommand}
     ELSE /\ c.set \in Field
          /\ \E i \in Interfaces, v \in Values : c.command = SetCommand(c.set, i, v)

\* How far sendOrReceive is: in the first piece of the command or in the last.
Midway(c) ==
  /\ c.at \in Nat /\ c.size \in Nat /\ c.count \in Nat /\ c.count < c.size
  /\ c.at + c.size \in {FirstPiece(c.command), Len(c.command)}

\* What is sent while a command is being sent lies within it.
LEMMA MidwayWithin ==
  ASSUME NEW c, Proper(c.command), Midway(c)
  PROVE  /\ c.at + c.count \in Nat /\ c.at + c.count < Len(c.command)
         /\ Len(c.command) \in Nat /\ IsList(c.command)
<1>1. FirstPiece(c.command) \in 1..Len(c.command) /\ Len(c.command) \in Nat /\ IsList(c.command)
  BY DEF Proper
<1>2. /\ c.at \in Nat /\ c.size \in Nat /\ c.count \in Nat /\ c.count < c.size
      /\ c.at + c.size <= Len(c.command)
  BY <1>1 DEF Midway
<1> QED
  BY <1>1, <1>2

\* What is left of a piece ends where the piece does.
LEMMA PieceLeft ==
  ASSUME NEW at \in Nat, NEW size \in Nat, NEW count \in Nat, count < size
  PROVE  at + count \in Nat /\ size - count \in Nat \ {0} /\ (at + count) + (size - count) = at + size
OBVIOUS

\* The next piece starts where the last one ended and ends with the command.
LEMMA NextPiece ==
  ASSUME NEW at \in Nat, NEW count \in Nat, NEW end \in Nat, at + count < end
  PROVE  /\ (at + count) + 0 = at + count /\ at + count \in Nat /\ 0 \in Nat
         /\ end - at - count \in Nat /\ 0 < end - at - count
         /\ (at + count) + (end - at - count) = end
OBVIOUS

CallOf(c) ==
  /\ DOMAIN c = {"pc", "command", "at", "size", "count", "set", "ok"}
  /\ c.pc \in {"idle", "lock", "send", "unlock", "return"}
  /\ c.ok => c.pc \in {"unlock", "return"}
  /\ c.pc = "idle" => c = Idle
  /\ c.pc = "lock" => c.at = 0 /\ c.count = 0
  /\ c.pc # "idle" => IsCommand(c)
  /\ c.pc = "send" => Midway(c)

Calls ==
  /\ DOMAIN call = Thread
  /\ \A t \in Thread : CallOf(call[t]) /\ (call[t].pc \in {"send", "unlock"} => mutex = t)

\* What has gone out, and will be what the server has read once it has arrived.
Out ==
  /\ State(server) /\ IsList(outgoing)
  /\ State(Sent) /\ Sent.heard = returned
  /\ Connected =>
       \/ Sent.part = <<>> /\ \A t \in Thread : call[t].pc # "send"
       \/ \E t \in Thread : /\ call[t].pc = "send"
                            /\ Sent.part = Begins(call[t].command, call[t].at + call[t].count)

CallInv == Calls /\ Out

LEMMA OutIsDelivered == CallInv => Delivered
<1> SUFFICES ASSUME CallInv  PROVE Delivered
  OBVIOUS
<1>1. Sent.heard = returned /\ IsList(returned) /\ IsList(server.heard) /\ IsList(outgoing)
  BY DEF CallInv, Out, State
<1>2. IsPrefix(server.heard, returned)
  <2>1. Starts(server.heard, returned)
    BY <1>1, ReadAllState DEF CallInv, Out, Sent
  <2> QED
    BY <1>1, <2>1, StartsIsPrefix
<1>3. outgoing = <<>> => server.heard = returned
  BY <1>1, ReadAllOne DEF Sent
<1>4. ASSUME Sent.part # <<>>, Connected
      PROVE  \E t \in Thread : /\ call[t].pc = "send"
                               /\ IsStrictPrefix(Sent.part, call[t].command)
  <2>1. PICK t \in Thread : /\ call[t].pc = "send"
                            /\ Sent.part = Begins(call[t].command, call[t].at + call[t].count)
    BY <1>4 DEF CallInv, Out
  <2> DEFINE c == call[t].command
             k == call[t].at + call[t].count
  <2>2. Proper(c) /\ Midway(call[t])
    BY <2>1 DEF CallInv, Calls, CallOf, IsCommand
  <2>3. k \in Nat /\ k < Len(c) /\ Len(c) \in Nat /\ IsList(c)
    BY <2>2, MidwayWithin
  <2> HIDE DEF c, k
  <2>4. Sent.part = Begins(c, k)
    BY <2>1 DEF c, k
  <2>5. PICK V : c \in Seq(V)
    BY <2>3 DEF IsList
  <2>6. Len(Begins(c, k)) = k
    BY <2>3, <2>5, BeginsIs
  <2>7. SubSeq(Begins(c, k), 1, k) = SubSeq(c, 1, k)
    <3>1. Begins(c, k) \in Seq(V)
      BY <2>3, <2>5, BeginsIs
    <3>2. IsList(Begins(c, k))
      BY <3>1 DEF IsList
    <3> QED
      BY <3>2, <2>6, BeginsAll DEF Begins
  <2>8. IsStrictPrefix(Sent.part, c)
    BY <2>3, <2>4, <2>6, <2>7 DEF IsStrictPrefix, IsPrefix
  <2> QED
    BY <2>1, <2>8 DEF c
<1> QED
  BY <1>1, <1>2, <1>3, <1>4 DEF Delivered

LEMMA InitCalls == Init => CallInv
<1> SUFFICES ASSUME Init  PROVE CallInv
  OBVIOUS
<1>1. Calls
  BY DEF Init, Calls, CallOf, Idle
<1>2. State(server) /\ IsList(outgoing) /\ Sent = server
  <2>1. IsList(<<>>)
    <3>1. <<>> \in Seq({})
      OBVIOUS
    <3> QED
      BY <3>1 DEF IsList
  <2> QED
    BY <2>1, ReadAllOne DEF Init, Sent, State
<1>3. \A t \in Thread : call[t].pc # "send"
  BY DEF Init, Idle
<1>4. server.heard = returned /\ server.part = <<>>
  BY DEF Init
<1>5. Out
  BY <1>2, <1>3, <1>4 DEF Out
<1> QED
  BY <1>1, <1>5 DEF CallInv

\* A connection that is over stays so.
LEMMA StillOver == [Next]_vars /\ Connected' => Connected
BY DEF Next, vars, SendFrame, Walk, Set, Begin, Lock, Send, SendFails, Unlock, Return, Interrupt,
   SystemInterrupt, Arrive, Receive, Crash, ReceiveFails, ProcessFrameReturns, StreamEnds,
   RecoveryFails, Shutdown, CloseSocket, DeleteMachine, ExitProcess, Reset, Connected, End

LEMMA SentStays == UNCHANGED <<server, outgoing>> => UNCHANGED Sent
BY DEF Sent

LEMMA OtherStep ==
  ASSUME CallInv, [Next]_vars, UNCHANGED <<mutex, call, server, outgoing, returned>>
  PROVE  CallInv'
<1>1. (Connected' => Connected) /\ UNCHANGED Sent
  BY StillOver, SentStays
<1> QED
  BY <1>1 DEF CallInv, Calls, Out

\* A unit arrives: what will have been read stays the same.
LEMMA ArriveStep ==
  ASSUME CallInv, [Next]_vars, Arrive
  PROVE  CallInv'
<1>1. /\ outgoing # <<>> /\ server' = Reads(server, Head(outgoing)) /\ outgoing' = Tail(outgoing)
      /\ UNCHANGED <<mutex, call, returned>>
  BY DEF Arrive
<1>2. UNCHANGED Sent /\ IsList(outgoing')
  BY <1>1, ReadAllNext DEF CallInv, Out, Sent
<1>3. State(server')
  BY <1>1, ReadsState DEF CallInv, Out
<1> QED
  BY <1>1, <1>2, <1>3, StillOver DEF CallInv, Calls, Out

\* A call that is not sending goes on without anything being sent.
LEMMA CallStep ==
  ASSUME CallInv, [Next]_vars, UNCHANGED <<server, outgoing, returned>>, NEW t \in Thread, NEW d,
         call' = [call EXCEPT ![t] = d], CallOf(d), call[t].pc # "send", d.pc # "send",
         d.pc = "unlock" => mutex' = t,
         \A u \in Thread \ {t} : call[u].pc \in {"send", "unlock"} => mutex' = mutex
  PROVE  CallInv'
<1>1. (Connected' => Connected) /\ UNCHANGED Sent
  BY StillOver, SentStays
<1>2. /\ DOMAIN call' = Thread /\ call'[t] = d
      /\ \A u \in Thread : u # t => call'[u] = call[u]
  BY DEF CallInv, Calls
<1>3. Calls'
  BY <1>2 DEF CallInv, Calls
<1>4. Out'
  BY <1>1, <1>2 DEF CallInv, Out
<1> QED
  BY <1>3, <1>4 DEF CallInv

LEMMA BeginStep ==
  ASSUME CallInv, [Next]_vars, NEW t \in Thread, MayCall(t), NEW command, NEW set,
         Begin(t, command, set), Proper(command),
         IF set = "none" THEN command[1] \in {SendFrameCommand, WalkCommand}
         ELSE set \in Field /\ \E i \in Interfaces, v \in Values : command = SetCommand(set, i, v)
  PROVE  CallInv'
<1> DEFINE d == [Idle EXCEPT !.pc = "lock", !.command = command, !.set = set]
<1>1. /\ d.pc = "lock" /\ d.command = command /\ d.at = 0 /\ d.count = 0 /\ d.set = set /\ ~d.ok
      /\ DOMAIN d = {"pc", "command", "at", "size", "count", "set", "ok"}
  BY DEF Idle
<1>2. CallOf(d)
  <2> HIDE DEF d
  <2> QED
    BY <1>1 DEF CallOf, IsCommand
<1>3. call[t].pc # "send" /\ d.pc = "lock"
  BY <1>1 DEF MayCall
<1>4. call' = [call EXCEPT ![t] = d] /\ UNCHANGED <<mutex, server, outgoing, returned>>
  BY DEF Begin
<1> HIDE DEF d
<1> QED
  BY <1>2, <1>3, <1>4, CallStep

LEMMA SendFrameStep ==
  ASSUME CallInv, [Next]_vars, NEW t \in Thread, SendFrame(t)
  PROVE  CallInv'
<1>1. MayCall(t)
  BY DEF SendFrame
<1>2. PICK length \in Lengths, i \in Interfaces :
        Begin(t, FrameCommand(Data(t, left[t], length), i), "none")
  BY DEF SendFrame
<1> DEFINE data == Data(t, left[t], length)
<1>3. data \in Seq({data[j] : j \in 1..length})
  BY UnitsAssumption DEF Data
<1> HIDE DEF data
<1>4. PICK V : data \in Seq(V)
  BY <1>3
<1>5. Proper(FrameCommand(data, i)) /\ FrameCommand(data, i)[1] = SendFrameCommand
  BY <1>4, FrameProper
<1> QED
  BY <1>1, <1>2, <1>5, BeginStep DEF data

LEMMA WalkStep ==
  ASSUME CallInv, [Next]_vars, NEW t \in Thread, Walk(t)
  PROVE  CallInv'
<1>1. MayCall(t) /\ Begin(t, <<WalkCommand>>, "none")
  BY DEF Walk
<1> QED
  BY <1>1, WalkProper, BeginStep

LEMMA SetStep ==
  ASSUME CallInv, [Next]_vars, NEW t \in Thread, NEW f \in Field, Set(t, f)
  PROVE  CallInv'
<1>1. PICK i \in Interfaces, v \in Values : MayCall(t) /\ Begin(t, SetCommand(f, i, v), f)
  BY DEF Set
<1>2. f # "none"
  BY DEF Field
<1> QED
  BY <1>1, <1>2, SetProper, BeginStep

LEMMA LockStep ==
  ASSUME CallInv, [Next]_vars, NEW t \in Thread, Lock(t)
  PROVE  CallInv'
<1> DEFINE c == call[t]
           d == Begun(c)
<1>1. /\ c.pc = "lock" /\ mutex = "none" /\ mutex' = t
      /\ call' = [call EXCEPT ![t] = d] /\ UNCHANGED <<server, outgoing, returned>>
  BY DEF Lock
<1>2. CallOf(c) /\ IsCommand(c) /\ ~c.ok /\ c.at = 0 /\ c.count = 0
  BY <1>1 DEF CallInv, Calls, CallOf
<1>3. \A u \in Thread : call[u].pc \notin {"send", "unlock"}
  <2>1. "none" \notin Thread
    BY DEF Thread
  <2> QED
    BY <1>1, <2>1 DEF CallInv, Calls
<1>4. CASE Refused(c.command)
  <2>1. d = [c EXCEPT !.pc = "unlock"]
    BY <1>4 DEF Begun
  <2>2. CallOf(d) /\ d.pc = "unlock"
    BY <1>2, <2>1 DEF CallOf, IsCommand
  <2> HIDE DEF c, d
  <2> QED
    BY <1>1, <1>3, <2>2, CallStep DEF c
<1>5. CASE ~Refused(c.command)
  <2>1. d = [c EXCEPT !.pc = "send", !.size = FirstPiece(c.command)]
    BY <1>5 DEF Begun
  <2>2. FirstPiece(c.command) \in Nat \ {0} /\ IsList(c.command)
    BY <1>2 DEF IsCommand, Proper
  <2>3. /\ d.pc = "send" /\ d.command = c.command /\ d.at = 0 /\ d.count = 0
        /\ d.size = FirstPiece(c.command) /\ d.set = c.set /\ d.ok = c.ok
        /\ DOMAIN d = DOMAIN c
    BY <1>2, <2>1 DEF CallOf
  <2> HIDE DEF d
  <2>4. CallOf(d)
    BY <1>2, <2>2, <2>3 DEF CallOf, IsCommand, Midway
  <2>5. /\ DOMAIN call' = Thread /\ call'[t] = d
        /\ \A u \in Thread : u # t => call'[u] = call[u]
    BY <1>1 DEF CallInv, Calls
  <2>6. Calls'
    BY <1>1, <1>3, <2>3, <2>4, <2>5 DEF CallInv, Calls
  <2>7. (Connected' => Sent.part = <<>>) /\ UNCHANGED Sent
    BY <1>1, <1>3, StillOver, SentStays DEF CallInv, Out
  <2>8. Begins(d.command, d.at + d.count) = <<>>
    BY <2>2, <2>3, BeginsAll
  <2>9. Out'
    BY <1>1, <2>3, <2>5, <2>7, <2>8 DEF CallInv, Out
  <2> QED
    BY <2>6, <2>9 DEF CallInv
<1> QED
  BY <1>4, <1>5

LEMMA SendStep ==
  ASSUME CallInv, [Next]_vars, NEW t \in Thread, Send(t)
  PROVE  CallInv'
<1> DEFINE c == call[t]
           size == c.size - c.count
           at == c.at + c.count
           end == Len(c.command)
<1>1. PICK count \in 1..size :
        /\ outgoing' = outgoing \o SubSeq(c.command, at + 1, at + count)
        /\ call' = [call EXCEPT ![t] =
             IF count < size THEN [c EXCEPT !.size = size, !.at = at, !.count = count]
             ELSE IF at + count < end
                  THEN [c EXCEPT !.at = at + count, !.size = end - at - count, !.count = 0]
             ELSE [c EXCEPT !.pc = "unlock", !.ok = TRUE]]
        /\ returned' = IF count = size /\ at + count = end THEN Append(returned, c.command)
                       ELSE returned
  BY DEF Send
<1>2. c.pc = "send" /\ Connected /\ UNCHANGED <<mutex, server>>
  BY DEF Send
<1>3. CallOf(c) /\ IsCommand(c) /\ Midway(c) /\ ~c.ok /\ mutex = t
  BY <1>2 DEF CallInv, Calls, CallOf
<1>4. \A u \in Thread : u # t => call[u].pc \notin {"send", "unlock"}
  BY <1>3 DEF CallInv, Calls
<1>5. Sent = [heard |-> Sent.heard, part |-> Begins(c.command, at)] /\ IsList(outgoing)
  BY <1>2, <1>4 DEF CallInv, Out, State
<1>6. /\ Proper(c.command) /\ end \in Nat /\ at \in Nat /\ size \in Nat \ {0}
      /\ FirstPiece(c.command) \in Nat /\ FirstPiece(c.command) <= end
      /\ at + size \in {FirstPiece(c.command), end}
  <2>1. Proper(c.command)
    BY <1>3 DEF IsCommand
  <2>2. Len(c.command) \in Nat /\ FirstPiece(c.command) \in Nat /\ FirstPiece(c.command) <= Len(c.command)
    BY <2>1 DEF Proper
  <2>3. /\ c.at \in Nat /\ c.size \in Nat /\ c.count \in Nat /\ c.count < c.size
        /\ c.at + c.size \in {FirstPiece(c.command), Len(c.command)}
    BY <1>3 DEF Midway
  <2>4. at \in Nat /\ size \in Nat \ {0} /\ at + size = c.at + c.size
    <3> HIDE DEF c
    <3> QED
      BY <2>3, PieceLeft
  <2> QED
    BY <2>1, <2>2, <2>3, <2>4
<1> DEFINE d == call'[t]
<1>7. /\ DOMAIN call' = Thread
      /\ d = IF count < size THEN [c EXCEPT !.size = size, !.at = at, !.count = count]
             ELSE IF at + count < end
                  THEN [c EXCEPT !.at = at + count, !.size = end - at - count, !.count = 0]
             ELSE [c EXCEPT !.pc = "unlock", !.ok = TRUE]
      /\ \A u \in Thread : u # t => call'[u] = call[u]
  BY <1>1 DEF CallInv, Calls
<1>8. at + count <= end
  BY <1>6
<1>9. /\ Sent' = IF at + count < end
                 THEN [heard |-> Sent.heard, part |-> Begins(c.command, at + count)]
                 ELSE [heard |-> Append(Sent.heard, c.command), part |-> <<>>]
      /\ IsList(outgoing')
  <2> HIDE DEF c, at, end, size
  <2> DEFINE units == SubSeq(c.command, at + 1, at + count)
  <2>1. /\ Proper(c.command) /\ at \in Nat /\ count \in Nat \ {0}
        /\ at + count <= Len(c.command)
        /\ Sent = [heard |-> Sent.heard, part |-> Begins(c.command, at)]
    BY <1>5, <1>6, <1>8 DEF end
  <2>2. ReadAll(Sent, units) =
          IF at + count < Len(c.command)
          THEN [heard |-> Sent.heard, part |-> Begins(c.command, at + count)]
          ELSE [heard |-> Append(Sent.heard, c.command), part |-> <<>>]
    BY <2>1, ReadAllOf
  <2>3. IsList(units)
    <3>1. PICK V : c.command \in Seq(V)
      BY <2>1 DEF Proper, IsList
    <3>2. units \in Seq(V)
      <4>1. \A k \in (at + 1)..(at + count) : k \in 1..Len(c.command)
        BY <2>1, <3>1
      <4> QED
        BY <2>1, <3>1, <4>1
    <3> QED
      BY <3>2 DEF IsList
  <2> HIDE DEF units
  <2>4. IsList(outgoing') /\ Sent' = ReadAll(Sent, units)
    BY <1>1, <1>2, <1>5, <2>3, ReadAllBoth DEF Sent, units
  <2> QED
    BY <2>2, <2>4 DEF end
<1>10. Connected'
  BY <1>2 DEF Send, Connected
<1>11. CASE at + count < end
  <2>1. /\ d.pc = "send" /\ d.command = c.command /\ d.set = c.set /\ d.ok = c.ok
        /\ DOMAIN d = DOMAIN c
        /\ \/ d.at = at /\ d.size = size /\ d.count = count /\ count < size
           \/ d.at = at + count /\ d.size = end - at - count /\ d.count = 0
    <3>1. CASE count < size
      <4>1. d = [c EXCEPT !.size = size, !.at = at, !.count = count]
        BY <1>7, <3>1
      <4> HIDE DEF d, at, size
      <4> QED
        BY <1>2, <1>3, <3>1, <4>1 DEF CallOf
    <3>2. CASE ~(count < size)
      <4>1. d = [c EXCEPT !.at = at + count, !.size = end - at - count, !.count = 0]
        BY <1>7, <1>11, <3>2
      <4> HIDE DEF d, at, size, end
      <4> QED
        BY <1>2, <1>3, <4>1 DEF CallOf
    <3> QED
      BY <3>1, <3>2
  <2> HIDE DEF d, at, size
  <2>2. d.at + d.count = at + count /\ Midway(d)
    <3>1. CASE d.at = at /\ d.size = size /\ d.count = count /\ count < size
      <4>1. d.at + d.count = at + count
        BY <3>1
      <4>2. d.at + d.size \in {FirstPiece(d.command), Len(d.command)}
        BY <1>6, <2>1, <3>1
      <4>3. d.at \in Nat /\ d.size \in Nat /\ d.count \in Nat /\ d.count < d.size
        BY <1>6, <3>1
      <4> QED
        BY <4>1, <4>2, <4>3 DEF Midway
    <3>2. CASE d.at = at + count /\ d.size = end - at - count /\ d.count = 0
      <4>1. at \in Nat /\ count \in Nat /\ end \in Nat /\ Len(d.command) = end
        BY <1>6, <2>1
      <4>2. /\ (at + count) + 0 = at + count /\ at + count \in Nat /\ 0 \in Nat
            /\ end - at - count \in Nat /\ 0 < end - at - count
            /\ (at + count) + (end - at - count) = end
        <5> HIDE DEF end
        <5> QED
          BY <1>11, <4>1, NextPiece
      <4>3. d.at + d.count = at + count /\ d.at + d.size = Len(d.command)
        BY <3>2, <4>1, <4>2, Zenon
      <4>4. d.at \in Nat /\ d.size \in Nat /\ d.count \in Nat /\ d.count < d.size
        BY <3>2, <4>2, Zenon
      <4> QED
        BY <4>3, <4>4, Zenon DEF Midway
    <3> QED
      BY <2>1, <3>1, <3>2
  <2>3. CallOf(d)
    BY <1>3, <2>1, <2>2 DEF CallOf, IsCommand
  <2>4. Calls'
    BY <1>2, <1>3, <1>4, <1>7, <2>3 DEF CallInv, Calls, d
  <2>5. /\ Sent' = [heard |-> Sent.heard, part |-> Begins(c.command, at + count)]
        /\ returned' = returned
    BY <1>1, <1>6, <1>9, <1>11 DEF size
  <2>6. Sent'.heard = Sent.heard /\ Sent'.part = Begins(c.command, at + count) /\ State(Sent')
    BY <2>5 DEF CallInv, Out, State
  <2>7. Out'
    BY <1>2, <1>9, <1>10, <2>1, <2>2, <2>5, <2>6 DEF CallInv, Out, d
  <2> QED
    BY <2>4, <2>7 DEF CallInv
<1>12. CASE at + count = end
  <2>1. count = size
    BY <1>6, <1>12
  <2>2. d = [c EXCEPT !.pc = "unlock", !.ok = TRUE]
    BY <1>6, <1>7, <1>12, <2>1
  <2>3. CallOf(d) /\ d.pc = "unlock"
    BY <1>3, <2>2 DEF CallOf, IsCommand
  <2> HIDE DEF d, at, size
  <2>4. Calls'
    BY <1>2, <1>3, <1>4, <1>7, <2>3 DEF CallInv, Calls, d
  <2>5. /\ Sent' = [heard |-> Append(Sent.heard, c.command), part |-> <<>>]
        /\ returned' = Append(returned, c.command)
    <3> HIDE DEF c, end
    <3>1. ~(at + count < end)
      BY <1>6, <1>12
    <3> QED
      BY <1>1, <1>9, <1>12, <2>1, <3>1
  <2>6. IsList(Append(Sent.heard, c.command))
    <3>1. PICK V : Sent.heard \in Seq(V)
      BY DEF CallInv, Out, State, IsList
    <3>2. Append(Sent.heard, c.command) \in Seq(V \cup {c.command})
      BY <3>1
    <3> QED
      BY <3>2 DEF IsList
  <2>7. \A u \in Thread : call'[u].pc # "send"
    BY <1>4, <1>7, <2>3 DEF d
  <2>8. Sent'.heard = Append(Sent.heard, c.command) /\ Sent'.part = <<>> /\ State(Sent')
    BY <2>5, <2>6 DEF State
  <2>9. Out'
    BY <1>2, <1>9, <2>5, <2>7, <2>8 DEF CallInv, Out
  <2> QED
    BY <2>4, <2>9 DEF CallInv
<1> QED
  BY <1>6, <1>8, <1>11, <1>12, SMTT(30)

LEMMA SendFailsStep ==
  ASSUME CallInv, [Next]_vars, NEW t \in Thread, SendFails(t)
  PROVE  CallInv'
<1>1. UNCHANGED <<mutex, server, outgoing, returned>> /\ call[t].pc = "send" /\ ~Connected
  BY DEF SendFails
<1>2. CASE UNCHANGED call
  BY <1>1, <1>2, OtherStep
<1>3. CASE call' = [call EXCEPT ![t].pc = "unlock"]
  <2> DEFINE d == [call[t] EXCEPT !.pc = "unlock"]
  <2>1. CallOf(call[t]) /\ mutex = t
    BY <1>1 DEF CallInv, Calls
  <2>2. CallOf(d) /\ d.pc = "unlock"
    BY <1>1, <2>1 DEF CallOf, IsCommand
  <2>3. /\ DOMAIN call' = Thread /\ call'[t] = d
        /\ \A u \in Thread : u # t => call'[u] = call[u]
    BY <1>3 DEF CallInv, Calls
  <2>4. Calls'
    BY <1>1, <2>1, <2>2, <2>3 DEF CallInv, Calls
  <2>5. ~Connected' /\ UNCHANGED Sent
    BY <1>1, StillOver, SentStays
  <2>6. Out'
    BY <1>1, <2>5 DEF CallInv, Out
  <2> QED
    BY <2>4, <2>6 DEF CallInv
<1> QED
  BY <1>2, <1>3 DEF SendFails

LEMMA UnlockStep ==
  ASSUME CallInv, [Next]_vars, NEW t \in Thread, Unlock(t)
  PROVE  CallInv'
<1> DEFINE d == [call[t] EXCEPT !.pc = "return"]
<1>1. /\ call[t].pc = "unlock" /\ call' = [call EXCEPT ![t] = d]
      /\ UNCHANGED <<server, outgoing, returned>>
  BY DEF Unlock
<1>2. CallOf(call[t]) /\ mutex = t
  BY <1>1 DEF CallInv, Calls
<1>3. CallOf(d) /\ d.pc = "return"
  BY <1>1, <1>2 DEF CallOf, IsCommand
<1>4. \A u \in Thread \ {t} : call[u].pc \notin {"send", "unlock"}
  BY <1>2 DEF CallInv, Calls
<1> HIDE DEF d
<1> QED
  BY <1>1, <1>3, <1>4, CallStep

LEMMA ReturnStep ==
  ASSUME CallInv, [Next]_vars, NEW t \in Thread, Return(t)
  PROVE  CallInv'
<1>1. /\ call[t].pc = "return" /\ call' = [call EXCEPT ![t] = Idle]
      /\ UNCHANGED <<mutex, server, outgoing, returned>>
  BY DEF Return
<1>2. CallOf(Idle) /\ Idle.pc = "idle"
  BY DEF CallOf, Idle
<1> QED
  BY <1>1, <1>2, CallStep

LEMMA NextCalls == CallInv /\ [Next]_vars => CallInv'
<1> SUFFICES ASSUME CallInv, [Next]_vars  PROVE CallInv'
  OBVIOUS
<1>1. ASSUME NEW t \in Thread, SendFrame(t)  PROVE CallInv'
  BY <1>1, SendFrameStep
<1>2. ASSUME NEW t \in Thread, Walk(t)  PROVE CallInv'
  BY <1>2, WalkStep
<1>3. ASSUME NEW t \in Thread, NEW f \in Field, Set(t, f)  PROVE CallInv'
  BY <1>3, SetStep
<1>4. ASSUME NEW t \in Thread, Lock(t)  PROVE CallInv'
  BY <1>4, LockStep
<1>5. ASSUME NEW t \in Thread, Send(t)  PROVE CallInv'
  BY <1>5, SendStep
<1>6. ASSUME NEW t \in Thread, SendFails(t)  PROVE CallInv'
  BY <1>6, SendFailsStep
<1>7. ASSUME NEW t \in Thread, Unlock(t)  PROVE CallInv'
  BY <1>7, UnlockStep
<1>8. ASSUME NEW t \in Thread, Return(t)  PROVE CallInv'
  BY <1>8, ReturnStep
<1>9. CASE Arrive
  BY <1>9, ArriveStep
<1>10. CASE \/ \E t \in Thread : Interrupt(t)
            \/ Receive \/ Crash \/ ReceiveFails \/ ProcessFrameReturns \/ StreamEnds \/ RecoveryFails
            \/ Shutdown \/ Reset \/ UNCHANGED vars
  <2>1. UNCHANGED <<mutex, call, server, outgoing, returned>>
    BY <1>10 DEF Interrupt, SystemInterrupt, Receive, Crash, ReceiveFails, ProcessFrameReturns,
       StreamEnds, RecoveryFails, Shutdown, CloseSocket, DeleteMachine, ExitProcess, Reset, vars,
       sending
  <2> QED
    BY <2>1, OtherStep
<1> QED
  BY <1>1, <1>2, <1>3, <1>4, <1>5, <1>6, <1>7, <1>8, <1>9, <1>10 DEF Next

\* For any frames, interfaces, values and number of calls, however the sends are cut up,
\* whenever the units arrive and wherever the connection breaks or the program ends: a
\* call has been successful exactly when its whole command is on its way, in that order,
\* and the server has read the first of these commands, all once everything has arrived
\* (sendFrame, walk, setIp, setMask, sendOrReceive, systemInterrupt).
THEOREM DeliveredHolds == Spec => []Delivered
BY InitCalls, NextCalls, OutIsDelivered, PTL DEF Spec

-----------------------------------------------------------------------------
(* The addresses: what the last call has told, or is about to store.        *)

SetsOf(heard, i, f) ==
  { k \in 1..Len(heard) : heard[k][1] = SetCommand(f, i, 0)[1] /\ heard[k][2] = i }

LEMMA ToldIs ==
  \A heard, i, f : Told(heard, i, f) =
    IF SetsOf(heard, i, f) = {} THEN FirstValue ELSE heard[Max(SetsOf(heard, i, f))][3]
BY DEF Told, SetsOf

\* The server has been told, and the value is not stored yet.
ToBeStored(c, i, f) == c.ok /\ c.set = f /\ c.command[2] = i

OneSetter == \A t, u \in Thread : call[t].set # "none" /\ call[u].set # "none" => t = u
Stored ==
  \A i \in Interfaces, f \in Field :
    /\ \A t \in Thread : ToBeStored(call[t], i, f) => Told(returned, i, f) = call[t].command[3]
    /\ (\A t \in Thread : ~ToBeStored(call[t], i, f)) => iface[i][f] = Told(returned, i, f)

AddressInv ==
  /\ DOMAIN iface = Interfaces /\ \A i \in Interfaces : DOMAIN iface[i] = Field
  /\ ~crossed => OneSetter
  /\ ~crossed /\ ~overrun => Stored

LEMMA ToldNext ==
  ASSUME NEW heard, IsList(heard), NEW c, NEW i, NEW f
  PROVE  Told(Append(heard, c), i, f) =
           IF c[1] = SetCommand(f, i, 0)[1] /\ c[2] = i THEN c[3] ELSE Told(heard, i, f)
<1> DEFINE n == Len(heard)
           next == Append(heard, c)
<1>1. n \in Nat /\ Len(next) = n + 1 /\ next[n + 1] = c /\ \A k \in 1..n : next[k] = heard[k]
  <2>1. PICK V : heard \in Seq(V)
    BY DEF IsList
  <2>2. heard \in Seq(V \cup {c}) /\ c \in V \cup {c}
    BY <2>1
  <2> QED
    BY <2>1, <2>2, AppendProperties
<1> HIDE DEF n, next
<1>2. SetsOf(heard, i, f) \in SUBSET (1..n) /\ SetsOf(next, i, f) \in SUBSET (1..(n + 1))
  BY <1>1 DEF SetsOf, n
<1>3. \A k \in 1..n : k \in SetsOf(next, i, f) <=> k \in SetsOf(heard, i, f)
  <2>1. \A k \in 1..n : k \in 1..(n + 1)
    BY <1>1
  <2> QED
    BY <1>1, <2>1 DEF SetsOf, n
<1>4. n + 1 \in SetsOf(next, i, f) <=> c[1] = SetCommand(f, i, 0)[1] /\ c[2] = i
  BY <1>1 DEF SetsOf
<1>5. CASE n + 1 \in SetsOf(next, i, f)
  <2>1. Max(SetsOf(next, i, f)) \in 1..(n + 1) /\ n + 1 <= Max(SetsOf(next, i, f))
    <3>1. PICK m \in Nat : m = n + 1
      BY <1>1
    <3>2. SetsOf(next, i, f) \in SUBSET (1..m) /\ SetsOf(next, i, f) # {}
      BY <1>2, <1>5, <3>1
    <3>3. Max(SetsOf(next, i, f)) \in SetsOf(next, i, f) /\ m <= Max(SetsOf(next, i, f))
      BY <1>5, <3>1, <3>2, Greatest
    <3> QED
      BY <1>2, <3>1, <3>3
  <2>2. Max(SetsOf(next, i, f)) = n + 1
    BY <1>1, <2>1
  <2> QED
    BY <1>1, <1>4, <1>5, <2>2, ToldIs DEF next
<1>6. CASE n + 1 \notin SetsOf(next, i, f)
  <2>1. SetsOf(next, i, f) = SetsOf(heard, i, f)
    <3>1. \A k \in 1..(n + 1) : k \in 1..n \/ k = n + 1
      BY <1>1
    <3> QED
      BY <1>2, <1>3, <1>6, <3>1
  <2>2. SetsOf(heard, i, f) # {} => Max(SetsOf(heard, i, f)) \in 1..n
    BY <1>1, <1>2, Greatest
  <2>3. Told(next, i, f) = Told(heard, i, f)
    BY <1>1, <2>1, <2>2, ToldIs
  <2> QED
    BY <1>4, <1>6, <2>3 DEF next
<1> QED
  BY <1>5, <1>6

\* The fields of a command that sets, and that no other command looks like it.
LEMMA SetFields ==
  ASSUME NEW f \in Field, NEW i, NEW v
  PROVE  /\ SetCommand(f, i, v)[2] = i /\ SetCommand(f, i, v)[3] = v
         /\ SetCommand(f, i, v)[1] \notin {SendFrameCommand, WalkCommand}
         /\ \A g \in Field : \A j, w : SetCommand(f, i, v)[1] = SetCommand(g, j, w)[1] => f = g
         /\ \A j, w : SetCommand(f, i, v)[1] = SetCommand(f, j, w)[1]
BY DEF SetCommand, Field, SendFrameCommand, WalkCommand, ChangeIPAddressCommand, ChangeNetmaskCommand

LEMMA StoredAgrees == CallInv /\ AddressInv => AddressAgrees
<1> SUFFICES ASSUME CallInv, AddressInv, ~overrun, ~crossed, \A t \in Thread : call[t].pc = "idle",
                    NEW i \in Interfaces, NEW f \in Field
             PROVE  /\ iface[i][f] = Told(Sent.heard, i, f)
                    /\ outgoing = <<>> => iface[i][f] = Told(server.heard, i, f)
  BY DEF AddressAgrees
<1>1. \A t \in Thread : ~call[t].ok
  BY DEF CallInv, Calls, CallOf
<1>2. iface[i][f] = Told(returned, i, f)
  BY <1>1 DEF AddressInv, Stored, ToBeStored
<1>3. outgoing = <<>> => Sent = server
  BY ReadAllOne DEF Sent
<1> QED
  BY <1>2, <1>3 DEF CallInv, Out

LEMMA InitAddress == Init => AddressInv
<1> SUFFICES ASSUME Init  PROVE AddressInv
  OBVIOUS
<1>1. \A i, f : Told(returned, i, f) = FirstValue
  <2>1. \A i, f : SetsOf(returned, i, f) = {}
    BY DEF Init, SetsOf
  <2> QED
    BY <2>1, ToldIs
<1>2. \A t \in Thread : ~call[t].ok /\ call[t].set = "none"
  BY DEF Init, Idle
<1>3. Stored
  BY <1>1, <1>2 DEF Init, Stored, ToBeStored
<1>4. OneSetter
  BY <1>2 DEF OneSetter
<1> QED
  BY <1>3, <1>4 DEF Init, AddressInv

\* Where nothing is told and nothing stored.
LEMMA AddressKept ==
  ASSUME CallInv, AddressInv, UNCHANGED returned,
         UNCHANGED <<iface, overrun>> \/ (overrun' /\ iface' \in [Interfaces -> [Field -> Values]]),
         ~crossed' => ~crossed,
         \A t \in Thread :
           \/ /\ call'[t].ok = call[t].ok /\ call'[t].set = call[t].set
              /\ call'[t].command = call[t].command
           \/ /\ ~call[t].ok /\ ~call'[t].ok
              /\ \/ call'[t].set = "none"
                 \/ ~crossed' => \A u \in Thread : u # t => call'[u].set = "none"
  PROVE  AddressInv'
<1>1. \A t \in Thread, i \in Interfaces, f \in Field :
        /\ ToBeStored(call'[t], i, f) <=> ToBeStored(call[t], i, f)
        /\ ToBeStored(call[t], i, f) => call'[t].command = call[t].command
  BY DEF ToBeStored
<1>2. ~crossed' /\ ~overrun' => Stored'
  <2>1. SUFFICES ASSUME ~crossed', ~overrun'  PROVE Stored'
    OBVIOUS
  <2>2. UNCHANGED iface /\ Stored
    BY <2>1 DEF AddressInv
  <2> QED
    BY <1>1, <2>2 DEF Stored
<1>3. ~crossed' => OneSetter'
  BY DEF AddressInv, OneSetter
<1>4. DOMAIN iface' = Interfaces /\ \A i \in Interfaces : DOMAIN iface'[i] = Field
  BY DEF AddressInv
<1> QED
  BY <1>2, <1>3, <1>4 DEF AddressInv

LEMMA AddressBegins ==
  ASSUME CallInv, AddressInv, NEW t \in Thread, MayCall(t), NEW command, NEW set,
         Begin(t, command, set), ~crossed' => ~crossed,
         set = "none" \/ (~crossed' => \A u \in Thread : call[u].set = "none")
  PROVE  AddressInv'
<1> DEFINE d == [Idle EXCEPT !.pc = "lock", !.command = command, !.set = set]
<1>1. ~d.ok /\ d.set = set
  BY DEF Idle
<1> HIDE DEF d
<1>2. call' = [call EXCEPT ![t] = d] /\ UNCHANGED <<iface, overrun, returned>>
  BY DEF Begin, receiving, d
<1>3. call'[t] = d /\ \A u \in Thread : u # t => call'[u] = call[u]
  BY <1>2 DEF CallInv, Calls
<1>4. ~call[t].ok
  BY DEF MayCall, CallInv, Calls, CallOf
<1> QED
  BY <1>1, <1>2, <1>3, <1>4, AddressKept

LEMMA AddressSets ==
  ASSUME CallInv, AddressInv, NEW t \in Thread, NEW f \in Field, Set(t, f)
  PROVE  AddressInv'
<1>1. PICK i \in Interfaces, v \in Values : MayCall(t) /\ Begin(t, SetCommand(f, i, v), f)
  BY DEF Set
<1>2. crossed' = (crossed \/ \E u \in Thread : call[u].set # "none")
  BY DEF Set
<1> QED
  BY <1>1, <1>2, AddressBegins

\* A command has gone out whole: it is now what the server was told last.
LEMMA AddressTold ==
  ASSUME CallInv, AddressInv, NEW t \in Thread, Send(t),
         returned' = Append(returned, call[t].command),
         call' = [call EXCEPT ![t] = [@ EXCEPT !.pc = "unlock", !.ok = TRUE]]
  PROVE  AddressInv'
<1> DEFINE c == call[t]
<1>1. UNCHANGED <<iface, crossed, overrun>>
  BY DEF Send, receiving
<1>2. IsCommand(c) /\ CallOf(c) /\ ~c.ok /\ IsList(returned)
  BY DEF Send, CallInv, Calls, CallOf, Out, State
<1>3. /\ call'[t].command = c.command /\ call'[t].set = c.set /\ call'[t].ok
      /\ \A u \in Thread : u # t => call'[u] = call[u]
  BY <1>2 DEF CallInv, Calls, CallOf
<1>4. ~crossed' => OneSetter'
  BY <1>1, <1>3 DEF AddressInv, OneSetter
<1>5. ASSUME ~crossed, ~overrun, NEW i \in Interfaces, NEW f \in Field,
             c.set = f, c.command[2] = i
      PROVE  /\ \A u \in Thread : ToBeStored(call'[u], i, f) => Told(returned', i, f) = call'[u].command[3]
             /\ \E u \in Thread : ToBeStored(call'[u], i, f)
  <2>1. PICK j \in Interfaces, v \in Values : c.command = SetCommand(f, j, v)
    BY <1>2, <1>5 DEF IsCommand, Field
  <2>2. c.command[1] = SetCommand(f, i, 0)[1]
    BY <2>1, SetFields
  <2>3. Told(returned', i, f) = c.command[3]
    BY <1>2, <1>5, <2>2, ToldNext
  <2>4. \A u \in Thread : u # t => ~ToBeStored(call[u], i, f)
    BY <1>5 DEF AddressInv, OneSetter, ToBeStored, Field
  <2> QED
    BY <1>3, <1>5, <2>3, <2>4 DEF ToBeStored
<1>6. ASSUME NEW i \in Interfaces, NEW f \in Field, ~(c.set = f /\ c.command[2] = i)
      PROVE  /\ Told(returned', i, f) = Told(returned, i, f)
             /\ \A u \in Thread : /\ ToBeStored(call'[u], i, f) <=> ToBeStored(call[u], i, f)
                                  /\ ToBeStored(call[u], i, f) => call'[u] = call[u]
  <2>1. ~(c.command[1] = SetCommand(f, i, 0)[1] /\ c.command[2] = i)
    <3>1. CASE c.set = "none"
      BY <1>2, <3>1, SetFields DEF IsCommand
    <3>2. CASE c.set # "none"
      <4>1. PICK g \in Field, j \in Interfaces, v \in Values : c.set = g /\ c.command = SetCommand(g, j, v)
        BY <1>2, <3>2 DEF IsCommand
      <4>2. c.command[2] = j /\ (c.command[1] = SetCommand(f, i, 0)[1] => g = f)
        BY <4>1, SetFields
      <4> QED
        BY <1>6, <4>1, <4>2
    <3> QED
      BY <3>1, <3>2
  <2>2. Told(returned', i, f) = Told(returned, i, f)
    BY <1>2, <2>1, ToldNext
  <2> QED
    BY <1>2, <1>3, <1>6, <2>2 DEF ToBeStored
<1>7. ~crossed' /\ ~overrun' => Stored'
  <2> SUFFICES ASSUME ~crossed, ~overrun, NEW i \in Interfaces, NEW f \in Field
               PROVE  /\ \A u \in Thread :
                           ToBeStored(call'[u], i, f) => Told(returned', i, f) = call'[u].command[3]
                      /\ (\A u \in Thread : ~ToBeStored(call'[u], i, f)) =>
                           iface'[i][f] = Told(returned', i, f)
    BY <1>1 DEF Stored
  <2>1. CASE c.set = f /\ c.command[2] = i
    BY <1>5, <2>1
  <2>2. CASE ~(c.set = f /\ c.command[2] = i)
    BY <1>1, <1>6, <2>2 DEF AddressInv, Stored
  <2> QED
    BY <2>1, <2>2
<1> QED
  BY <1>1, <1>4, <1>7 DEF AddressInv

LEMMA AddressSends ==
  ASSUME CallInv, AddressInv, NEW t \in Thread, Send(t)
  PROVE  AddressInv'
<1> DEFINE c == call[t]
           size == c.size - c.count
           at == c.at + c.count
           end == Len(c.command)
<1>1. PICK count \in 1..size :
        /\ call' = [call EXCEPT ![t] =
             IF count < size THEN [c EXCEPT !.size = size, !.at = at, !.count = count]
             ELSE IF at + count < end
                  THEN [c EXCEPT !.at = at + count, !.size = end - at - count, !.count = 0]
             ELSE [c EXCEPT !.pc = "unlock", !.ok = TRUE]]
        /\ returned' = IF count = size /\ at + count = end THEN Append(returned, c.command)
                       ELSE returned
  BY DEF Send
<1>2. UNCHANGED <<iface, crossed, overrun>>
  BY DEF Send, receiving
<1>3. CallOf(c) /\ c.pc = "send" /\ Midway(c) /\ Proper(c.command)
  BY DEF Send, CallInv, Calls, CallOf, IsCommand
<1>4. count \in Nat /\ size \in Nat /\ at \in Nat /\ end \in Nat /\ count <= size /\ at + size <= end
  <2>1. FirstPiece(c.command) \in Nat /\ FirstPiece(c.command) <= end /\ end \in Nat
    BY <1>3 DEF Proper
  <2>2. /\ c.at \in Nat /\ c.size \in Nat /\ c.count \in Nat /\ c.count < c.size
        /\ c.at + c.size \in {FirstPiece(c.command), end}
    BY <1>3 DEF Midway
  <2> HIDE DEF c
  <2>3. size \in Nat /\ at \in Nat /\ at + size = c.at + c.size
    BY <2>2
  <2> HIDE DEF size, at
  <2> QED
    BY <2>1, <2>2, <2>3
<1>5. CASE count < size \/ at + count < end
  <2> DEFINE d == call'[t]
  <2>1. d.ok = c.ok /\ d.set = c.set /\ d.command = c.command
    <3>1. d = IF count < size THEN [c EXCEPT !.size = size, !.at = at, !.count = count]
              ELSE [c EXCEPT !.at = at + count, !.size = end - at - count, !.count = 0]
      BY <1>1, <1>5 DEF CallInv, Calls
    <3> HIDE DEF d, size, at, end
    <3>2. CASE count < size
      BY <1>3, <3>1, <3>2 DEF CallOf
    <3>3. CASE ~(count < size)
      BY <1>3, <3>1, <3>3 DEF CallOf
    <3> QED
      BY <3>2, <3>3
  <2>2. \A u \in Thread : u # t => call'[u] = call[u]
    BY <1>1 DEF CallInv, Calls
  <2>3. returned' = returned
    <3> HIDE DEF size, at, end
    <3> QED
      BY <1>1, <1>4, <1>5
  <2> QED
    BY <1>2, <2>1, <2>2, <2>3, AddressKept
<1>6. CASE ~(count < size \/ at + count < end)
  <2> HIDE DEF size, at, end
  <2>1. count = size /\ at + count = end
    BY <1>4, <1>6
  <2>2. call' = [call EXCEPT ![t] = [@ EXCEPT !.pc = "unlock", !.ok = TRUE]]
    BY <1>1, <1>6, <2>1
  <2> QED
    BY <1>1, <2>1, <2>2, AddressTold
<1> QED
  BY <1>5, <1>6

LEMMA AddressReturns ==
  ASSUME CallInv, AddressInv, NEW t \in Thread, Return(t)
  PROVE  AddressInv'
<1> DEFINE c == call[t]
<1>1. /\ c.pc = "return" /\ UNCHANGED <<returned, crossed, overrun>>
      /\ iface' = IF c.set # "none" /\ c.ok THEN [iface EXCEPT ![c.command[2]][c.set] = c.command[3]]
                  ELSE iface
  BY DEF Return, receiving
<1>2. call'[t] = Idle /\ \A u \in Thread : u # t => call'[u] = call[u]
  BY DEF Return, CallInv, Calls
<1>3. Idle.set = "none" /\ ~Idle.ok
  BY DEF Idle
<1>4. ~crossed' => OneSetter'
  BY <1>1, <1>2, <1>3 DEF AddressInv, OneSetter
<1>5. CASE ~(c.set # "none" /\ c.ok)
  <2>1. \A u \in Thread, i \in Interfaces, f \in Field :
          /\ ToBeStored(call'[u], i, f) <=> ToBeStored(call[u], i, f)
          /\ ToBeStored(call[u], i, f) => call'[u] = call[u]
    BY <1>2, <1>3, <1>5 DEF ToBeStored, Field
  <2>2. ~crossed' /\ ~overrun' => Stored'
    BY <1>1, <1>5, <2>1 DEF AddressInv, Stored
  <2> QED
    BY <1>1, <1>4, <1>5, <2>2 DEF AddressInv
<1>6. CASE c.set # "none" /\ c.ok
  <2>1. PICK g \in Field, j \in Interfaces, v \in Values : c.set = g /\ c.command = SetCommand(g, j, v)
    BY <1>1, <1>6 DEF CallInv, Calls, CallOf, IsCommand
  <2>2. c.command[2] = j /\ c.command[3] = v
    BY <2>1, SetFields
  <2>3. /\ DOMAIN iface' = Interfaces /\ \A i \in Interfaces : DOMAIN iface'[i] = Field
        /\ \A i \in Interfaces, f \in Field :
             iface'[i][f] = IF i = j /\ f = g THEN v ELSE iface[i][f]
    BY <1>1, <1>6, <2>1, <2>2 DEF AddressInv
  <2>4. ~crossed => \A u \in Thread : u # t =>
                    \A i \in Interfaces, f \in Field : ~ToBeStored(call[u], i, f)
    BY <1>6 DEF AddressInv, OneSetter, ToBeStored, Field
  <2>5. ~crossed => \A u \in Thread, i \in Interfaces, f \in Field : ~ToBeStored(call'[u], i, f)
    BY <1>2, <1>3, <2>4 DEF ToBeStored
  <2>6. ~crossed /\ ~overrun => Told(returned, j, g) = v
    BY <1>6, <2>1, <2>2 DEF AddressInv, Stored, ToBeStored
  <2>7. ASSUME ~crossed, ~overrun, NEW i \in Interfaces, NEW f \in Field, ~(i = j /\ f = g)
        PROVE  iface[i][f] = Told(returned, i, f)
    <3>1. ~ToBeStored(c, i, f)
      BY <2>1, <2>2, <2>7 DEF ToBeStored
    <3>2. \A u \in Thread : ~ToBeStored(call[u], i, f)
      BY <2>4, <2>7, <3>1
    <3> QED
      BY <2>7, <3>2 DEF AddressInv, Stored
  <2>8. ~crossed' /\ ~overrun' => Stored'
    BY <1>1, <2>3, <2>5, <2>6, <2>7 DEF Stored
  <2> QED
    BY <1>4, <2>3, <2>8 DEF AddressInv
<1> QED
  BY <1>5, <1>6

LEMMA NextAddress == CallInv /\ AddressInv /\ [Next]_vars => AddressInv'
<1> SUFFICES ASSUME CallInv, AddressInv, [Next]_vars  PROVE AddressInv'
  OBVIOUS
<1>1. ASSUME NEW t \in Thread, SendFrame(t)  PROVE AddressInv'
  BY <1>1, AddressBegins DEF SendFrame
<1>2. ASSUME NEW t \in Thread, Walk(t)  PROVE AddressInv'
  BY <1>2, AddressBegins DEF Walk
<1>3. ASSUME NEW t \in Thread, NEW f \in Field, Set(t, f)  PROVE AddressInv'
  BY <1>3, AddressSets
<1>4. ASSUME NEW t \in Thread, Lock(t)  PROVE AddressInv'
  <2>1. CallOf(call[t])
    BY DEF CallInv, Calls
  <2>2. /\ call' = [call EXCEPT ![t] = Begun(call[t])] /\ UNCHANGED <<iface, overrun, returned, crossed>>
    BY <1>4 DEF Lock, receiving
  <2>3. /\ Begun(call[t]).ok = call[t].ok /\ Begun(call[t]).set = call[t].set
        /\ Begun(call[t]).command = call[t].command
    BY <2>1 DEF CallOf, Begun
  <2>4. call'[t] = Begun(call[t]) /\ \A u \in Thread : u # t => call'[u] = call[u]
    BY <2>2 DEF CallInv, Calls
  <2> QED
    BY <2>2, <2>3, <2>4, AddressKept
<1>5. ASSUME NEW t \in Thread, Send(t)  PROVE AddressInv'
  BY <1>5, AddressSends
<1>6. ASSUME NEW t \in Thread, SendFails(t) \/ Unlock(t)  PROVE AddressInv'
  <2>1. UNCHANGED <<iface, overrun, returned, crossed>>
    BY <1>6 DEF SendFails, Unlock, receiving
  <2>2. \A u \in Thread : DOMAIN call[u] = {"pc", "command", "at", "size", "count", "set", "ok"}
    BY DEF CallInv, Calls, CallOf
  <2>3. call' = call \/ \E pc : call' = [call EXCEPT ![t].pc = pc]
    BY <1>6 DEF SendFails, Unlock
  <2>4. \A u \in Thread : /\ call'[u].ok = call[u].ok /\ call'[u].set = call[u].set
                          /\ call'[u].command = call[u].command
    BY <2>2, <2>3 DEF CallInv, Calls
  <2> QED
    BY <2>1, <2>4, AddressKept
<1>7. ASSUME NEW t \in Thread, Return(t)  PROVE AddressInv'
  BY <1>7, AddressReturns
<1>8. CASE Receive
  <2>1. UNCHANGED <<call, returned, crossed>>
    BY <1>8 DEF Receive
  <2>2. UNCHANGED <<overrun, iface>> \/ WriteOver
    BY <1>8 DEF Receive
  <2> QED
    BY <2>1, <2>2, AddressKept DEF WriteOver
<1>9. CASE \/ \E t \in Thread : Interrupt(t)
           \/ Arrive \/ Crash \/ ReceiveFails \/ ProcessFrameReturns \/ StreamEnds \/ RecoveryFails
           \/ Shutdown \/ Reset \/ UNCHANGED vars
  <2>1. UNCHANGED <<call, iface, overrun, returned, crossed>>
    BY <1>9 DEF Interrupt, SystemInterrupt, Arrive, Crash, ReceiveFails, ProcessFrameReturns,
       StreamEnds, RecoveryFails, Shutdown, CloseSocket, DeleteMachine, ExitProcess, Reset, vars,
       sending, receiving
  <2> QED
    BY <2>1, AddressKept, SMTT(30)
<1> QED
  BY <1>1, <1>2, <1>3, <1>4, <1>5, <1>6, <1>7, <1>8, <1>9 DEF Next

\* Unless two threads have been in setIp or setMask at a time or a warning has been
\* written past the buffer, and while nobody is in a call: getIp and getMask are what the
\* server has been told and will know once everything has arrived, over every partial
\* send, broken connection and end of the program (Interface::setIp, setMask).
THEOREM AddressAgreesHolds == Spec => []AddressAgrees
<1>1. Init => CallInv /\ AddressInv
  BY InitCalls, InitAddress
<1>2. CallInv /\ AddressInv /\ [Next]_vars => (CallInv /\ AddressInv)'
  BY NextCalls, NextAddress
<1> QED
  BY <1>1, <1>2, StoredAgrees, PTL DEF Spec

-----------------------------------------------------------------------------
(* Messages one behind the other: FlattenSeq from the front.                *)

\* What FlattenSeq takes up to each message.
Flattens(f, s) ==
  f = [i \in 1..Len(s) |-> IF i = 1 THEN s[i] ELSE f[i - 1] \o s[i]]

LEMMA FlattensSome ==
  ASSUME NEW V, NEW s \in Seq(Seq(V))
  PROVE  \E f : Flattens(f, s)
<1> DEFINE Upto(n, f) == \A i \in 1..n : f[i] = IF i = 1 THEN s[i] ELSE f[i - 1] \o s[i]
           T == {n \in Nat : \E f : Upto(n, f)}
<1>1. 0 \in T
  OBVIOUS
<1>2. ASSUME NEW n \in T  PROVE n + 1 \in T
  <2>1. PICK f : Upto(n, f)
    OBVIOUS
  <2> DEFINE new == IF n + 1 = 1 THEN s[n + 1] ELSE f[n] \o s[n + 1]
             g == [i \in 1..(n + 1) |-> IF i <= n THEN f[i] ELSE new]
  <2>2. \A i \in 1..n : g[i] = f[i]
    OBVIOUS
  <2>3. g[n + 1] = new
    OBVIOUS
  <2> HIDE DEF g
  <2>4. ASSUME NEW i \in 1..(n + 1)
        PROVE  g[i] = IF i = 1 THEN s[i] ELSE g[i - 1] \o s[i]
    <3>1. i \in 1..n \/ i = n + 1
      OBVIOUS
    <3>2. i # 1 => i - 1 \in 1..n
      OBVIOUS
    <3>3. i # 1 => g[i - 1] = f[i - 1]
      BY <2>2, <3>2
    <3>4. CASE i \in 1..n
      BY <2>1, <2>2, <3>3, <3>4
    <3>5. CASE i = n + 1
      BY <2>3, <3>3, <3>5
    <3> QED
      BY <3>1, <3>4, <3>5
  <2>5. Upto(n + 1, g)
    BY <2>4
  <2> HIDE DEF Upto
  <2> QED
    BY <2>5
<1>3. T = Nat
  <2> HIDE DEF Upto
  <2>1. T \in SUBSET Nat
    OBVIOUS
  <2> HIDE DEF T
  <2> QED
    BY <1>1, <1>2, <2>1, Induct
<1>4. PICK f : Upto(Len(s), f)
  <2>1. Len(s) \in T
    <3>1. Len(s) \in Nat
      OBVIOUS
    <3> HIDE DEF T
    <3> QED
      BY <1>3, <3>1
  <2> QED
    BY <2>1
<1> DEFINE g == [i \in 1..Len(s) |-> f[i]]
<1>5. \A i \in 1..Len(s) : g[i] = f[i] /\ (i # 1 => i - 1 \in 1..Len(s))
  OBVIOUS
<1>6. \A i \in 1..Len(s) : g[i] = IF i = 1 THEN s[i] ELSE g[i - 1] \o s[i]
  BY <1>4, <1>5
<1>7. g = [i \in 1..Len(s) |-> IF i = 1 THEN s[i] ELSE g[i - 1] \o s[i]]
  <2>1. DOMAIN g = 1..Len(s) /\ g = [i \in 1..Len(s) |-> g[i]]
    OBVIOUS
  <2> HIDE DEF g
  <2> QED
    BY <1>6, <2>1
<1> HIDE DEF g
<1> QED
  BY <1>7 DEF Flattens

LEMMA FlattensTyped ==
  ASSUME NEW V, NEW s \in Seq(Seq(V)), NEW f, Flattens(f, s)
  PROVE  /\ \A i \in 1..Len(s) : f[i] = IF i = 1 THEN s[i] ELSE f[i - 1] \o s[i]
         /\ \A i \in 1..Len(s) : f[i] \in Seq(V)
<1>1. \A i \in 1..Len(s) : f[i] = IF i = 1 THEN s[i] ELSE f[i - 1] \o s[i]
  BY DEF Flattens
<1> DEFINE T == {i \in 1..Len(s) : f[i] \notin Seq(V)}
<1>2. SUFFICES ASSUME T # {}  PROVE FALSE
  BY <1>1
<1>3. T \in SUBSET Nat
  OBVIOUS
<1>4. PICK i \in T : \A j \in T : i <= j
  BY <1>2, <1>3, Least
<1>5. s[i] \in Seq(V)
  OBVIOUS
<1>6. i # 1 => i - 1 \in 1..Len(s) /\ i - 1 \notin T
  BY <1>4
<1>7. i # 1 => f[i - 1] \in Seq(V)
  BY <1>6
<1>8. i # 1 => f[i - 1] \o s[i] \in Seq(V)
  BY <1>5, <1>7, ConcatProperties
<1> QED
  BY <1>1, <1>5, <1>8

LEMMA FlattenIs ==
  ASSUME NEW V, NEW s \in Seq(Seq(V)), s # <<>>
  PROVE  \E f : Flattens(f, s) /\ FlattenSeq(s) = f[Len(s)]
<1>1. FlattenSeq(s) = (CHOOSE f : Flattens(f, s))[Len(s)]
  <2>1. Len(s) # 0
    OBVIOUS
  <2> QED
    BY <2>1 DEF FlattenSeq, Flattens
<1> QED
  BY <1>1, FlattensSome

\* One sequence and then another.
Then(a, b) == a \o b

LEMMA Associates ==
  \A V : \A a \in Seq(V), b \in Seq(V), c \in Seq(V) : Then(Then(a, b), c) = Then(a, Then(b, c))
<1> SUFFICES ASSUME NEW V, NEW a \in Seq(V), NEW b \in Seq(V), NEW c \in Seq(V)
             PROVE  (a \o b) \o c = a \o (b \o c)
  BY DEF Then
<1> QED
  BY ConcatAssociative

\* The first message, and then the others.
LEMMA FlattenCons ==
  ASSUME NEW V, NEW s \in Seq(Seq(V)), s # <<>>
  PROVE  FlattenSeq(s) = Then(Head(s), FlattenSeq(Tail(s))) /\ FlattenSeq(s) \in Seq(V)
<1> DEFINE N == Len(s)
           r == Tail(s)
<1>1. /\ N \in Nat \ {0} /\ Head(s) = s[1] /\ s[1] \in Seq(V) /\ 1 \in 1..N /\ N \in 1..N
      /\ r \in Seq(Seq(V)) /\ Len(r) = N - 1 /\ \A i \in 1..(N - 1) : r[i] = s[i + 1]
  BY HeadTailProperties
<1>2. PICK f : Flattens(f, s) /\ FlattenSeq(s) = f[N]
  BY FlattenIs
<1>3. /\ \A i \in 1..N : f[i] = IF i = 1 THEN s[i] ELSE Then(f[i - 1], s[i])
      /\ \A i \in 1..N : f[i] \in Seq(V)
  BY <1>2, FlattensTyped DEF Then
<1> HIDE DEF N, r
<1>4. FlattenSeq(s) \in Seq(V)
  BY <1>1, <1>2, <1>3
<1>5. CASE N = 1
  <2>1. r = <<>> /\ FlattenSeq(r) = <<>>
    BY <1>1, <1>5, EmptySeq DEF FlattenSeq
  <2>2. FlattenSeq(s) = s[1]
    BY <1>1, <1>2, <1>3, <1>5
  <2>3. Then(s[1], <<>>) = s[1]
    BY <1>1, ConcatEmptySeq DEF Then
  <2> QED
    BY <1>1, <1>4, <2>1, <2>2, <2>3 DEF r
<1>6. CASE N # 1
  <2>1. r # <<>>
    BY <1>1, <1>6
  <2>2. PICK g : Flattens(g, r) /\ FlattenSeq(r) = g[N - 1]
    BY <1>1, <2>1, FlattenIs
  <2>3. /\ \A i \in 1..(N - 1) : g[i] = IF i = 1 THEN r[i] ELSE Then(g[i - 1], r[i])
        /\ \A i \in 1..(N - 1) : g[i] \in Seq(V)
    BY <1>1, <2>2, FlattensTyped DEF Then
  <2>6. ASSUME NEW j \in 1..(N - 1), NEW k \in 1..N
        PROVE  Then(Then(s[1], g[j]), s[k]) = Then(s[1], Then(g[j], s[k]))
    <3>1. s[1] \in Seq(V) /\ g[j] \in Seq(V) /\ s[k] \in Seq(V)
      BY <1>1, <2>3 DEF N
    <3> QED
      BY <3>1, Associates
  <2> DEFINE T == {i \in 2..N : f[i] # Then(s[1], g[i - 1])}
  <2>4. T = {}
    <3> SUFFICES ASSUME T # {}  PROVE FALSE
      OBVIOUS
    <3>0. \A i \in 2..N : i \in Nat /\ i # 1 /\ i \in 1..N /\ i - 1 \in 1..N /\ i - 1 \in 1..(N - 1)
      BY <1>1
    <3>1. T \in SUBSET Nat
      BY <3>0
    <3>2. PICK i \in T : \A j \in T : i <= j
      BY <3>1, Least
    <3>3. /\ i \in Nat /\ i # 1 /\ i \in 1..N /\ i - 1 \in 1..N /\ i - 1 \in 1..(N - 1)
          /\ f[i] # Then(s[1], g[i - 1])
      BY <3>0
    <3>7. i - 1 + 1 = i /\ s[i] = r[i - 1]
      BY <1>1, <3>3
    <3>4. f[i] = Then(f[i - 1], s[i]) /\ s[i] \in Seq(V)
      <4>1. s[i] \in Seq(V)
        BY <3>3 DEF N
      <4> QED
        BY <1>3, <3>3, <4>1
    <3>5. CASE i = 2
      <4>1. f[1] = s[1] /\ g[1] = r[1] /\ i - 1 = 1
        BY <1>1, <1>3, <2>3, <3>3, <3>5
      <4> QED
        BY <3>3, <3>4, <3>7, <4>1
    <3>6. CASE i # 2
      <4>1. /\ i - 1 \in 2..N /\ i - 1 \notin T /\ i - 1 # 1
            /\ i - 1 - 1 \in 1..(N - 1)
        <5>1. i - 1 \in 2..N /\ i - 1 # 1 /\ i - 1 - 1 \in 1..(N - 1) /\ i - 1 < i
          BY <1>1, <3>3, <3>6
        <5> HIDE DEF T
        <5>2. i - 1 \notin T
          BY <3>2, <3>3, <5>1
        <5> QED
          BY <5>1, <5>2
      <4>2. f[i - 1] = Then(s[1], g[i - 1 - 1])
        BY <4>1
      <4>3. g[i - 1] = Then(g[i - 1 - 1], r[i - 1])
        BY <2>3, <3>3, <4>1
      <4>4. Then(Then(s[1], g[i - 1 - 1]), s[i]) = Then(s[1], Then(g[i - 1 - 1], s[i]))
        <5>1. i - 1 - 1 \in 1..(N - 1) /\ i \in 1..N
          BY <3>3, <4>1
        <5> QED
          BY <2>6, <5>1
      <4> QED
        BY <3>3, <3>4, <3>7, <4>2, <4>3, <4>4
    <3> QED
      BY <3>5, <3>6
  <2>5. f[N] = Then(s[1], g[N - 1])
    <3>1. N \in 2..N
      BY <1>1, <1>6
    <3> QED
      BY <2>4, <3>1
  <2> QED
    BY <1>1, <1>2, <1>4, <2>2, <2>5 DEF r
<1> QED
  BY <1>5, <1>6

-----------------------------------------------------------------------------
(* The messages of the server, and where the event loop is in them.         *)

Msgs == { m \in Seq(Nat) : Len(m) >= 2 /\ m[2] = Len(m) - 2 }
Raw(m) == m[1] = RawFrameReceivedNotificationType
From(s, k) == SubSeq(s, k + 1, Len(s))

LEMMA StreamOfMsgs ==
  ASSUME NEW stream \in Streams
  PROVE  stream \in Seq(Msgs)
<1>1. stream \in Seq(Seq(Nat)) /\ Len(stream) \in Nat /\ DOMAIN stream = 1..Len(stream)
  BY StreamsAssumption
<1>2. ASSUME NEW k \in 1..Len(stream)  PROVE stream[k] \in Msgs
  <2> DEFINE m == stream[k]
             body == SubSeq(m, 3, Len(m))
             head == <<m[1], Len(body)>>
  <2>1. m \in Seq(Nat)
    BY <1>1
  <2>2. m = head \o body
    BY StreamsAssumption DEF Message
  <2> HIDE DEF m
  <2>3. body \in Seq(Nat) /\ Len(body) \in Nat
    <3>1. \A i \in 3..Len(m) : m[i] \in Nat
      BY <2>1
    <3> QED
      BY <2>1, <3>1, SubSeqProperties
  <2> HIDE DEF body
  <2>4. PICK V : head \in Seq(V) /\ body \in Seq(V)
    <3>1. head \in Seq(Nat \cup {m[1]}) /\ body \in Seq(Nat \cup {m[1]})
      BY <2>3
    <3> QED
      BY <3>1
  <2>5. Len(head) = 2 /\ head[2] = Len(body)
    OBVIOUS
  <2> HIDE DEF head
  <2>6. Len(m) = 2 + Len(body) /\ m[2] = head[2]
    <3>1. /\ Len(head \o body) = Len(head) + Len(body)
          /\ \A i \in 1..(Len(head) + Len(body)) :
               (head \o body)[i] = IF i <= Len(head) THEN head[i] ELSE body[i - Len(head)]
      BY <2>4, ConcatProperties
    <3>2. 2 \in 1..(Len(head) + Len(body)) /\ 2 <= Len(head)
      BY <2>3, <2>5
    <3> QED
      BY <2>2, <2>5, <3>1, <3>2
  <2> QED
    BY <2>1, <2>3, <2>5, <2>6 DEF Msgs, m
<1> DEFINE n == Len(stream)
<1>3. stream = [k \in 1..n |-> stream[k]] /\ n \in Nat
  BY <1>1
<1> HIDE DEF n
<1>4. [k \in 1..n |-> stream[k]] \in Seq(Msgs)
  BY <1>2, <1>3 DEF n
<1> QED
  BY <1>3, <1>4

LEMMA AllOf ==
  ASSUME NEW rest \in Seq(Msgs)
  PROVE  /\ FlattenSeq(rest) \in Seq(Nat)
         /\ rest = <<>> => FlattenSeq(rest) = <<>>
         /\ rest # <<>> =>
              /\ Head(rest) \in Msgs /\ Tail(rest) \in Seq(Msgs)
              /\ Len(FlattenSeq(rest)) = Len(Head(rest)) + Len(FlattenSeq(Tail(rest)))
              /\ \A k \in 1..Len(Head(rest)) : FlattenSeq(rest)[k] = Head(rest)[k]
              /\ From(FlattenSeq(rest), Len(Head(rest))) = FlattenSeq(Tail(rest))
<1>1. \A s \in Seq(Msgs) : s \in Seq(Seq(Nat))
  BY SeqMonotonic DEF Msgs
<1>2. \A s : s = <<>> => FlattenSeq(s) = <<>>
  BY DEF FlattenSeq
<1>3. \A s \in Seq(Msgs) : FlattenSeq(s) \in Seq(Nat)
  <2> TAKE s \in Seq(Msgs)
  <2>1. s = <<>> => FlattenSeq(s) \in Seq(Nat)
    BY <1>2, EmptySeq
  <2> QED
    BY <1>1, <2>1, FlattenCons
<1>4. ASSUME rest # <<>>
      PROVE  /\ Head(rest) \in Msgs /\ Tail(rest) \in Seq(Msgs)
             /\ Len(FlattenSeq(rest)) = Len(Head(rest)) + Len(FlattenSeq(Tail(rest)))
             /\ \A k \in 1..Len(Head(rest)) : FlattenSeq(rest)[k] = Head(rest)[k]
             /\ From(FlattenSeq(rest), Len(Head(rest))) = FlattenSeq(Tail(rest))
  <2>1. Head(rest) \in Msgs /\ Tail(rest) \in Seq(Msgs)
    BY <1>4, HeadTailProperties
  <2>2. PICK h \in Seq(Nat), t \in Seq(Nat), a \in Seq(Nat) :
          h = Head(rest) /\ t = FlattenSeq(Tail(rest)) /\ a = FlattenSeq(rest)
    BY <1>3, <2>1 DEF Msgs
  <2>3. a = h \o t
    BY <1>1, <1>4, <2>2, FlattenCons DEF Then
  <2>4. /\ Len(a) = Len(h) + Len(t) /\ Len(h) \in Nat /\ Len(t) \in Nat
        /\ \A i \in 1..(Len(h) + Len(t)) : a[i] = IF i <= Len(h) THEN h[i] ELSE t[i - Len(h)]
    BY <2>3, ConcatProperties
  <2>5. \A k \in 1..Len(h) : a[k] = h[k]
    BY <2>4
  <2>6. From(a, Len(h)) = t
    <3>1. PICK m \in Nat, n \in Nat : m = Len(h) /\ n = Len(t) /\ Len(a) = m + n
      BY <2>4
    <3>2. \A i \in (m + 1)..(m + n) : a[i] \in Nat
      BY <3>1, SMTT(30)
    <3> DEFINE s == SubSeq(a, m + 1, m + n)
    <3>3. s \in Seq(Nat) /\ Len(s) = n /\ \A i \in 1..n : s[i] = a[m + i]
      <4>1. /\ s \in Seq(Nat)
            /\ Len(s) = IF m + 1 <= m + n THEN (m + n) - (m + 1) + 1 ELSE 0
            /\ \A i \in 1..((m + n) - (m + 1) + 1) : s[i] = a[(m + 1) + i - 1]
        BY <3>2, SubSeqProperties
      <4> HIDE DEF s
      <4> QED
        BY <4>1
    <3> HIDE DEF s
    <3>4. \A i \in 1..n : a[m + i] = t[i]
      <4> TAKE i \in 1..n
      <4>1. m + i \in 1..(m + n) /\ ~(m + i <= m) /\ m + i - m = i
        OBVIOUS
      <4>2. \A j \in 1..(m + n) : a[j] = IF j <= m THEN h[j] ELSE t[j - m]
        BY <2>4, <3>1
      <4> QED
        BY <4>1, <4>2
    <3>5. s = t
      BY <3>1, <3>3, <3>4, SeqEqual
    <3> QED
      BY <3>1, <3>5 DEF From, s
  <2> QED
    BY <2>1, <2>2, <2>4, <2>5, <2>6
<1> QED
  BY <1>2, <1>3, <1>4

LEMMA FramesOf ==
  ASSUME NEW rest \in Seq(Msgs)
  PROVE  /\ Frames(rest) \in Seq(Msgs)
         /\ rest # <<>> =>
              Frames(rest) = IF Raw(Head(rest)) THEN Then(<<Head(rest)>>, Frames(Tail(rest)))
                             ELSE Frames(Tail(rest))
<1> DEFINE Map(s) == [k \in 1..Len(s) |-> IF Raw(s[k]) THEN <<s[k]>> ELSE <<>>]
<1>1. \A s : Frames(s) = FlattenSeq(Map(s))
  BY DEF Frames, Raw
<1>2. ASSUME NEW s \in Seq(Msgs)  PROVE Map(s) \in Seq(Seq(Msgs)) /\ Len(Map(s)) = Len(s)
  <2>1. Len(s) \in Nat /\ \A k \in 1..Len(s) : s[k] \in Msgs
    OBVIOUS
  <2>2. \A k \in 1..Len(s) : (IF Raw(s[k]) THEN <<s[k]>> ELSE <<>>) \in Seq(Msgs)
    BY <2>1
  <2> QED
    BY <2>1, <2>2
<1>3. CASE rest = <<>>
  <2>1. Map(rest) = <<>>
    BY <1>3
  <2>2. Frames(rest) = <<>>
    <3> HIDE DEF Map
    <3> QED
      BY <1>1, <2>1 DEF FlattenSeq
  <2> QED
    BY <1>3, <2>2
<1>4. CASE rest # <<>>
  <2>1. Map(rest) \in Seq(Seq(Msgs)) /\ Len(Map(rest)) = Len(rest) /\ Len(rest) \in Nat \ {0}
    BY <1>2, <1>4
  <2>2. /\ Head(rest) = rest[1] /\ Tail(rest) \in Seq(Msgs) /\ Len(Tail(rest)) = Len(rest) - 1
        /\ \A i \in 1..(Len(rest) - 1) : Tail(rest)[i] = rest[i + 1]
    BY <1>4, HeadTailProperties
  <2>3. Map(rest) # <<>>
    BY <2>1
  <2>4. Head(Map(rest)) = IF Raw(Head(rest)) THEN <<Head(rest)>> ELSE <<>>
    BY <2>1, <2>2, <2>3
  <2>5. Map(Tail(rest)) \in Seq(Seq(Msgs)) /\ Len(Map(Tail(rest))) = Len(rest) - 1
    BY <1>2, <2>2
  <2>6. /\ Tail(Map(rest)) \in Seq(Seq(Msgs)) /\ Len(Tail(Map(rest))) = Len(rest) - 1
        /\ \A i \in 1..(Len(rest) - 1) : Tail(Map(rest))[i] = Map(rest)[i + 1]
    <3> HIDE DEF Map
    <3> QED
      BY <2>1, <2>3, HeadTailProperties
  <2>7. \A i \in 1..(Len(rest) - 1) : Map(rest)[i + 1] = Map(Tail(rest))[i]
    <3> TAKE i \in 1..(Len(rest) - 1)
    <3>1. i + 1 \in 1..Len(rest) /\ Tail(rest)[i] = rest[i + 1] /\ i \in 1..Len(Tail(rest))
      BY <2>1, <2>2
    <3> QED
      BY <3>1
  <2> HIDE DEF Map
  <2>8. Tail(Map(rest)) = Map(Tail(rest))
    <3>1. Len(Tail(Map(rest))) = Len(Map(Tail(rest)))
      BY <2>5, <2>6
    <3>2. \A i \in 1..Len(Tail(Map(rest))) : Tail(Map(rest))[i] = Map(Tail(rest))[i]
      BY <2>6, <2>7
    <3> QED
      BY <2>5, <2>6, <3>1, <3>2, SeqEqual
  <2>9. /\ FlattenSeq(Map(rest)) = Then(Head(Map(rest)), FlattenSeq(Map(Tail(rest))))
        /\ FlattenSeq(Map(rest)) \in Seq(Msgs)
    BY <2>1, <2>3, <2>8, FlattenCons
  <2>10. Frames(Tail(rest)) \in Seq(Msgs)
    <3>1. CASE Map(Tail(rest)) = <<>>
      <4>1. FlattenSeq(Map(Tail(rest))) = <<>>
        BY <3>1 DEF FlattenSeq
      <4> QED
        BY <1>1, <4>1, EmptySeq
    <3>2. CASE Map(Tail(rest)) # <<>>
      BY <1>1, <2>5, <3>2, FlattenCons
    <3> QED
      BY <3>1, <3>2
  <2>11. Then(<<>>, Frames(Tail(rest))) = Frames(Tail(rest))
    BY <2>10, ConcatEmptySeq DEF Then
  <2> QED
    BY <1>1, <1>4, <2>4, <2>9, <2>11
<1> QED
  BY <1>3, <1>4

\* A frame as it was copied.
Copied(c, m) == c.iface = m[3] /\ c.data = SubSeq(m, 4, Len(m))

\* How much of the message in hand has been read; the header is in front of the body.
Before == IF reading.pc \in {"warning", "body"} THEN Header ELSE 0
Got == reading.at + reading.count
Left == reading.size - reading.count
Wanted == reading.at + reading.size
Taken == IF reading.pc = "handle" THEN 0 ELSE Before + Got

ReadingTyped ==
  /\ DOMAIN reading = {"pc", "at", "size", "count"}
  /\ reading.pc \in {"header", "warning", "body", "handle", "recover"}
  /\ reading.at \in Nat /\ reading.size \in Nat /\ reading.count \in Nat
  /\ reading.pc \in {"header", "warning", "body"} => reading.count < reading.size
  /\ DOMAIN buffer = 1..BufferSize

\* The messages from the one in hand on; the buffer has the beginning of that one.
InHand(rest) ==
  /\ incoming = From(FlattenSeq(rest), Taken)
  /\ reading.pc = "header" => Wanted = Header
  /\ reading.pc \in {"warning", "body"} =>
       /\ rest # <<>> /\ Wanted = Len(Head(rest)) - Header
       /\ reading.pc = "body" <=> Raw(Head(rest))
       /\ reading.pc = "warning" => Head(rest)[1] = InvalidInterfaceIndexType
  /\ reading.pc = "body" => Wanted <= BufferSize
  /\ reading.pc = "header" /\ Got > 0 => rest # <<>>
  /\ reading.pc \in {"header", "body"} =>
       \A k \in 1..Got : buffer[k] = Head(rest)[Before + k]

\* No warning is longer than the buffer.
NoneLong(rest) == \A k \in 1..Len(rest) : ~TooLong(rest[k])

\* The frames handled are the first of those that were sent, the others are to come.
Follows(handled, rest) ==
  /\ handled \in Seq(Msgs) /\ rest \in Seq(Msgs)
  /\ notified = Then(handled, Frames(rest))
  /\ copies = [i \in 1..Len(handled) |-> copies[i]]
  /\ \A i \in 1..Len(handled) : Copied(copies[i], handled[i])
  /\ reading.pc # "recover" => InHand(rest)
  /\ ~long => NoneLong(rest)

StepInv == ReadingTyped /\ \E handled, rest : Follows(handled, rest)

LEMMA TailShort ==
  ASSUME NEW rest \in Seq(Msgs), rest # <<>>, NoneLong(rest)
  PROVE  ~TooLong(Head(rest)) /\ NoneLong(Tail(rest))
<1>1. /\ Len(rest) \in Nat \ {0} /\ Head(rest) = rest[1] /\ Len(Tail(rest)) = Len(rest) - 1
      /\ \A i \in 1..(Len(rest) - 1) : Tail(rest)[i] = rest[i + 1]
  BY HeadTailProperties
<1>2. 1 \in 1..Len(rest) /\ \A i \in 1..(Len(rest) - 1) : i + 1 \in 1..Len(rest)
  BY <1>1
<1> QED
  BY <1>1, <1>2 DEF NoneLong

LEMMA FollowsInStep == StepInv /\ (overrun => long) => InStep
<1> SUFFICES ASSUME StepInv, overrun => long  PROVE InStep
  OBVIOUS
<1>1. PICK handled, rest : Follows(handled, rest)
  BY DEF StepInv
<1>2. /\ handled \in Seq(Msgs) /\ rest \in Seq(Msgs) /\ Frames(rest) \in Seq(Msgs)
      /\ notified = handled \o Frames(rest)
  BY <1>1, FramesOf DEF Follows, Then
<1>3. /\ Len(notified) = Len(handled) + Len(Frames(rest))
      /\ \A i \in 1..Len(handled) : notified[i] = handled[i]
  BY <1>2
<1>4. Len(copies) = Len(handled) /\ DOMAIN copies = 1..Len(handled) /\ Len(handled) \in Nat
  BY <1>1, <1>2 DEF Follows
<1>5. Len(Frames(rest)) \in Nat
  BY <1>2
<1> QED
  BY <1>1, <1>3, <1>4, <1>5 DEF InStep, Follows, Copied

LEMMA InitSteps == Init => StepInv
<1> SUFFICES ASSUME Init  PROVE StepInv
  OBVIOUS
<1>1. PICK stream \in Streams :
        /\ incoming = FlattenSeq(stream) /\ notified = Frames(stream)
        /\ long = \E k \in 1..Len(stream) : TooLong(stream[k])
  BY DEF Init
<1>2. /\ stream \in Seq(Msgs) /\ FlattenSeq(stream) \in Seq(Nat) /\ Frames(stream) \in Seq(Msgs)
  BY StreamOfMsgs, AllOf, FramesOf
<1>3. Then(<<>>, Frames(stream)) = Frames(stream)
  BY <1>2, ConcatEmptySeq DEF Then
<1>4. From(FlattenSeq(stream), 0) = FlattenSeq(stream)
  BY <1>2, SubSeqFull DEF From
<1>5. /\ reading.pc = "header" /\ reading.at = 0 /\ reading.size = Header /\ reading.count = 0
      /\ Taken = 0 /\ Got = 0 /\ Wanted = Header
  BY DEF Init, Taken, Before, Got, Wanted, Header
<1>6. ReadingTyped
  BY <1>5, UnitsAssumption DEF Init, ReadingTyped, Header
<1>7. InHand(stream)
  BY <1>1, <1>4, <1>5 DEF InHand, Header
<1>8. <<>> \in Seq(Msgs) /\ Len(<<>>) = 0
  BY EmptySeq
<1>9. copies = <<>>
  BY DEF Init
<1>10. Follows(<<>>, stream)
  BY <1>1, <1>2, <1>3, <1>7, <1>8, <1>9 DEF Follows, NoneLong
<1> QED
  BY <1>6, <1>10 DEF StepInv

LEMMA FromIs ==
  ASSUME NEW s \in Seq(Nat), NEW k \in Nat, k <= Len(s)
  PROVE  /\ From(s, k) \in Seq(Nat) /\ Len(From(s, k)) = Len(s) - k
         /\ \A i \in 1..(Len(s) - k) : From(s, k)[i] = s[k + i]
<1>1. PICK n \in Nat : Len(s) = k + n
  <2>1. Len(s) - k \in Nat /\ Len(s) = k + (Len(s) - k)
    OBVIOUS
  <2> QED
    BY <2>1
<1>2. \A i \in (k + 1)..(k + n) : s[i] \in Nat
  BY <1>1
<1> DEFINE f == SubSeq(s, k + 1, k + n)
<1>3. /\ f \in Seq(Nat) /\ Len(f) = IF k + 1 <= k + n THEN (k + n) - (k + 1) + 1 ELSE 0
      /\ \A i \in 1..((k + n) - (k + 1) + 1) : f[i] = s[(k + 1) + i - 1]
  BY <1>2, SubSeqProperties
<1> HIDE DEF f
<1>4. f \in Seq(Nat) /\ Len(f) = n /\ \A i \in 1..n : f[i] = s[k + i]
  BY <1>3
<1>5. From(s, k) = f /\ Len(s) - k = n
  BY <1>1 DEF From, f
<1> QED
  BY <1>4, <1>5, Zenon

LEMMA FromFrom ==
  ASSUME NEW s \in Seq(Nat), NEW k \in Nat, NEW j \in Nat, k + j <= Len(s)
  PROVE  From(From(s, k), j) = From(s, k + j)
<1>1. Len(s) \in Nat /\ k <= Len(s) /\ j <= Len(s) - k /\ Len(s) - k \in Nat /\ k + j \in Nat
  OBVIOUS
<1>2. /\ From(s, k) \in Seq(Nat) /\ Len(From(s, k)) = Len(s) - k
      /\ \A i \in 1..(Len(s) - k) : From(s, k)[i] = s[k + i]
  BY <1>1, FromIs
<1>3. /\ From(From(s, k), j) \in Seq(Nat) /\ Len(From(From(s, k), j)) = Len(s) - k - j
      /\ \A i \in 1..(Len(s) - k - j) : From(From(s, k), j)[i] = From(s, k)[j + i]
  <2>1. PICK t \in Seq(Nat), n \in Nat : t = From(s, k) /\ n = Len(s) - k
    BY <1>1, <1>2
  <2>2. Len(t) = n /\ j <= Len(t)
    BY <1>1, <1>2, <2>1
  <2>3. /\ From(t, j) \in Seq(Nat) /\ Len(From(t, j)) = Len(t) - j
        /\ \A i \in 1..(Len(t) - j) : From(t, j)[i] = t[j + i]
    BY <2>2, FromIs
  <2> QED
    BY <2>1, <2>2, <2>3
<1>4. /\ From(s, k + j) \in Seq(Nat) /\ Len(From(s, k + j)) = Len(s) - (k + j)
      /\ \A i \in 1..(Len(s) - (k + j)) : From(s, k + j)[i] = s[(k + j) + i]
  BY <1>1, FromIs
<1>5. ASSUME NEW i \in 1..(Len(s) - (k + j))  PROVE From(From(s, k), j)[i] = From(s, k + j)[i]
  <2>1. i \in 1..(Len(s) - k - j) /\ j + i \in 1..(Len(s) - k) /\ k + (j + i) = (k + j) + i
    BY <1>1
  <2> QED
    BY <1>2, <1>3, <1>4, <2>1
<1>6. Len(s) - k - j = Len(s) - (k + j)
  BY <1>1
<1> HIDE DEF From
<1> QED
  BY <1>3, <1>4, <1>5, <1>6, SeqEqual

LEMMA Round ==
  ASSUME ReadingTyped, reading.pc \in {"header", "warning", "body"}
  PROVE  Got \in Nat /\ Left \in Nat /\ Got + Left = Wanted
<1>1. /\ reading.at \in Nat /\ reading.size \in Nat /\ reading.count \in Nat
      /\ reading.count < reading.size
  BY DEF ReadingTyped
<1>2. PICK a \in Nat, s \in Nat, c \in Nat :
        a = reading.at /\ s = reading.size /\ c = reading.count /\ c < s
  BY <1>1
<1>3. a + c \in Nat /\ s - c \in Nat /\ (a + c) + (s - c) = a + s
  BY <1>2
<1>4. Got = a + c /\ Left = s - c /\ Wanted = a + s
  BY <1>2 DEF Got, Left, Wanted
<1> QED
  BY <1>3, <1>4

LEMMA Within ==
  \A b \in Nat, a \in Nat, s \in Nat, c \in Nat, m \in Nat, n \in Nat :
    b + a + s <= m /\ m <= n /\ c <= s =>
      /\ b + a <= n /\ b + a + c <= m /\ b + a + c <= n
      /\ \A k \in (a + 1)..(a + c) :
           k - a \in 1..(n - (b + a)) /\ (b + a) + (k - a) = b + k /\ b + k \in 1..m
OBVIOUS

Filled(at, count) ==
  buffer' = [i \in 1..BufferSize |->
               IF i \in (at + 1)..(at + count) THEN incoming[i - at] ELSE buffer[i]]

\* What a round of sendOrReceive brings is the next of the message in hand.
LEMMA Brought ==
  ASSUME ReadingTyped, NEW handled, NEW rest, Follows(handled, rest),
         reading.pc \in {"header", "warning", "body"}, NEW count \in 1..Left,
         count <= Len(incoming), incoming' = SubSeq(incoming, count + 1, Len(incoming)),
         Filled(Got, count)
  PROVE  /\ rest # <<>> /\ Head(rest) \in Msgs /\ Before + Got + Left <= Len(Head(rest))
         /\ incoming' = From(FlattenSeq(rest), Before + Got + count)
         /\ reading.pc \in {"header", "body"} =>
              \A k \in 1..(Got + count) : k \in 1..BufferSize /\ buffer'[k] = Head(rest)[Before + k]
<1> DEFINE size == Left
           at == Got
<1>0. size = Left /\ at = Got
  OBVIOUS
<1>b. count \in 1..size /\ Filled(at, count)
  OBVIOUS
<1> HIDE DEF size, at
<1> DEFINE all == FlattenSeq(rest)
           m == Head(rest)
<1>1. /\ at \in Nat /\ size \in Nat /\ count \in Nat /\ at + size = Wanted
      /\ at = Got /\ Taken = Before + at /\ Before \in {0, 2} /\ Taken \in Nat
      /\ InHand(rest) /\ rest \in Seq(Msgs)
  <2>1. Got \in Nat /\ Left \in Nat /\ Got + Left = Wanted
    BY Round
  <2>2. at \in Nat /\ size \in Nat /\ at + size = Wanted
    BY <1>0, <2>1
  <2>3. at = Got /\ Taken = Before + at /\ Before \in {0, 2}
    BY <1>0 DEF Taken, Before, Header
  <2>4. Taken \in Nat /\ count \in Nat
    BY <1>b, <2>2, <2>3
  <2>5. InHand(rest) /\ rest \in Seq(Msgs)
    BY DEF Follows
  <2> QED
    BY <2>1, <2>2, <2>3, <2>4, <2>5
<1>2. all \in Seq(Nat) /\ incoming = From(all, Taken)
  BY <1>1, AllOf DEF InHand
<1>3. rest # <<>>
  <2> SUFFICES ASSUME rest = <<>>  PROVE FALSE
    OBVIOUS
  <2>1. reading.pc = "header" /\ at = 0 /\ Taken = 0
    BY <1>1 DEF InHand, Before
  <2>2. all = <<>>
    BY <1>1, AllOf
  <2>3. incoming = <<>>
    <3> HIDE DEF all
    <3>1. Len(all) = 0
      BY <2>2
    <3> QED
      BY <1>2, <2>1, <3>1, SubSeqEmpty DEF From
  <2>4. Len(incoming) = 0
    BY <2>3
  <2> QED
    BY <1>1, <2>4
<1>4. m \in Seq(Nat) /\ Len(m) \in Nat /\ Len(m) >= 2 /\ m \in Msgs
  <2>1. m \in Msgs
    BY <1>1, <1>3, AllOf
  <2> HIDE DEF m
  <2>2. m \in Seq(Nat) /\ Len(m) >= 2
    BY <2>1 DEF Msgs
  <2> QED
    BY <2>1, <2>2
<1>5. Before + at + size <= Len(m)
  <2>1. CASE reading.pc = "header"
    <3>1. Before = 0 /\ Wanted = 2
      BY <1>1, <2>1 DEF InHand, Before, Header
    <3> HIDE DEF m
    <3> QED
      BY <1>1, <1>4, <3>1
  <2>2. CASE reading.pc \in {"warning", "body"}
    <3>1. Before = 2 /\ Wanted = Len(m) - 2
      BY <1>1, <2>2 DEF InHand, Before, Header
    <3> HIDE DEF m
    <3> QED
      BY <1>1, <1>4, <3>1
  <2> QED
    BY <2>1, <2>2
<1>6. Len(all) \in Nat /\ Len(m) <= Len(all) /\ \A k \in 1..Len(m) : all[k] = m[k]
  <2>1. Tail(rest) \in Seq(Msgs) /\ Len(all) = Len(m) + Len(FlattenSeq(Tail(rest)))
    BY <1>1, <1>3, AllOf
  <2>2. Len(FlattenSeq(Tail(rest))) \in Nat
    <3>1. FlattenSeq(Tail(rest)) \in Seq(Nat)
      BY <2>1, AllOf
    <3> QED
      BY <3>1
  <2>3. \A k \in 1..Len(m) : all[k] = m[k]
    BY <1>1, <1>3, AllOf
  <2> HIDE DEF m, all
  <2>4. Len(all) \in Nat
    BY <1>2
  <2> QED
    BY <1>4, <2>1, <2>2, <2>3, <2>4
<1> HIDE DEF all, m
<1>7. /\ Taken <= Len(all) /\ Taken + count <= Len(m) /\ Taken + count <= Len(all)
      /\ \A k \in (at + 1)..(at + count) :
           /\ k - at \in 1..(Len(all) - Taken)
           /\ Taken + (k - at) = Before + k /\ Before + k \in 1..Len(m)
  <2>0. Before \in Nat /\ count <= size
    BY <1>1, <1>b
  <2>4. at \in Nat /\ size \in Nat /\ count \in Nat /\ Len(m) \in Nat /\ Len(all) \in Nat
    BY <1>1, <1>4, <1>6
  <2>1. PICK b \in Nat, a \in Nat, z \in Nat, c \in Nat, M \in Nat, A \in Nat :
          /\ b = Before /\ a = at /\ z = size /\ c = count /\ M = Len(m) /\ A = Len(all)
          /\ c <= z
    BY <2>0, <2>4, Zenon
  <2>2. b + a + z <= M /\ M <= A /\ Taken = b + a
    BY <1>1, <1>5, <1>6, <2>1
  <2>3. /\ b + a <= A /\ b + a + c <= M /\ b + a + c <= A
        /\ \A k \in (a + 1)..(a + c) :
             k - a \in 1..(A - (b + a)) /\ (b + a) + (k - a) = b + k /\ b + k \in 1..M
    BY <2>1, <2>2, Within
  <2> QED
    BY <2>1, <2>2, <2>3, Zenon
<1>8. /\ Len(incoming) = Len(all) - Taken
      /\ \A i \in 1..(Len(all) - Taken) : incoming[i] = all[Taken + i]
  BY <1>1, <1>2, <1>7, FromIs
<1>9. incoming' = From(all, Before + at + count)
  <2>1. incoming' = From(incoming, count)
    BY DEF From
  <2>2. From(From(all, Taken), count) = From(all, Taken + count)
    BY <1>1, <1>2, <1>7, FromFrom
  <2> QED
    BY <1>1, <1>2, <2>1, <2>2
<1>10. ASSUME reading.pc \in {"header", "body"}, NEW k \in 1..(at + count)
       PROVE  k \in 1..BufferSize /\ buffer'[k] = m[Before + k]
  <2>1. at + size <= BufferSize /\ BufferSize \in Nat
    <3>1. BufferSize \in Nat /\ 2 <= BufferSize
      BY UnitsAssumption
    <3>2. CASE reading.pc = "header"
      <4>1. Wanted = 2
        BY <1>1, <3>2 DEF InHand, Header
      <4> QED
        BY <1>1, <3>1, <4>1
    <3>3. CASE reading.pc = "body"
      <4>1. Wanted <= BufferSize
        BY <1>1, <3>3 DEF InHand
      <4> QED
        BY <1>1, <3>1, <4>1
    <3> QED
      BY <1>10, <3>2, <3>3
  <2>2. k \in 1..BufferSize
    BY <1>1, <1>b, <2>1
  <2>3. CASE k \in 1..at
    <3>1. buffer[k] = m[Before + k]
      BY <1>1, <1>10, <2>3 DEF InHand, m
    <3>2. k \notin (at + 1)..(at + count)
      BY <1>1, <2>3
    <3> QED
      BY <1>b, <2>2, <3>1, <3>2 DEF Filled
  <2>4. CASE k \notin 1..at
    <3>1. k \in (at + 1)..(at + count) /\ k - at \in 1..count
      <4> HIDE DEF m
      <4>1. at \in Nat /\ count \in Nat /\ k \in 1..(at + count) /\ ~(k <= at)
        BY <1>1, <1>10, <2>4
      <4> QED
        BY <4>1
    <3>2. /\ k - at \in 1..(Len(all) - Taken) /\ Taken + (k - at) = Before + k
          /\ Before + k \in 1..Len(m)
      BY <1>7, <3>1
    <3>3. incoming[k - at] = m[Before + k]
      BY <1>6, <1>8, <3>2
    <3> QED
      BY <1>b, <2>2, <3>1, <3>3 DEF Filled
  <2> QED
    BY <2>3, <2>4
<1> QED
  BY <1>0, <1>3, <1>4, <1>5, <1>9, <1>10 DEF all, m

LEMMA AppendIs ==
  ASSUME NEW n \in Nat, NEW c, c = [i \in 1..n |-> c[i]], NEW e, NEW d, d = Append(c, e)
  PROVE  d = [i \in 1..(n + 1) |-> d[i]] /\ d[n + 1] = e /\ \A i \in 1..n : d[i] = c[i]
<1> DEFINE V == {c[i] : i \in 1..n} \cup {e}
<1>1. \A i \in 1..n : c[i] \in V
  OBVIOUS
<1>2. e \in V
  OBVIOUS
<1> HIDE DEF V
<1>3. c \in Seq(V) /\ Len(c) = n
  BY <1>1
<1>4. /\ d \in Seq(V) /\ Len(d) = n + 1 /\ d[n + 1] = e
      /\ \A i \in 1..n : d[i] = c[i]
  BY <1>2, <1>3, AppendProperties
<1>5. d = [i \in 1..(n + 1) |-> d[i]]
  BY <1>4
<1> QED
  BY <1>4, <1>5

\* The frame of a notification whose body is in the buffer.
LEMMA FrameIs ==
  ASSUME NEW m \in Msgs, NEW size \in Nat \ {0}, Len(m) = 2 + size,
         NEW b, \A k \in 1..size : b[k] = m[2 + k]
  PROVE  SubSeq([i \in 1..(size - 1) |-> b[i + 1]], 1, size - 1) = SubSeq(m, 4, Len(m))
<1>1. m \in Seq(Nat)
  BY DEF Msgs
<1>2. PICK n \in Nat : size = n + 1 /\ size - 1 = n
  <2>1. size - 1 \in Nat /\ size = (size - 1) + 1
    OBVIOUS
  <2> QED
    BY <2>1
<1> DEFINE d == [i \in 1..n |-> b[i + 1]]
<1>3. ASSUME NEW i \in 1..n  PROVE b[i + 1] = m[3 + i] /\ b[i + 1] \in Nat
  <2>1. i + 1 \in 1..size /\ 2 + (i + 1) = 3 + i /\ 3 + i \in 1..Len(m)
    BY <1>2
  <2> QED
    BY <1>1, <2>1, SMTT(30)
<1>4. d \in Seq(Nat) /\ Len(d) = n /\ \A i \in 1..n : d[i] = m[3 + i]
  BY <1>3
<1> HIDE DEF d
<1>5. SubSeq(d, 1, n) = d
  BY <1>4, SubSeqFull
<1>6. Len(m) = 3 + n /\ From(m, 3) = SubSeq(m, 4, Len(m))
  BY <1>2 DEF From
<1>7. /\ From(m, 3) \in Seq(Nat) /\ Len(From(m, 3)) = Len(m) - 3
      /\ \A i \in 1..(Len(m) - 3) : From(m, 3)[i] = m[3 + i]
  BY <1>1, <1>6, FromIs, SMTT(30)
<1>8. Len(m) - 3 = n
  BY <1>6
<1>9. d = From(m, 3)
  <2>1. Len(From(m, 3)) = Len(d) /\ \A i \in 1..Len(d) : d[i] = From(m, 3)[i]
    BY <1>4, <1>7, <1>8
  <2> QED
    BY <1>4, <1>7, <2>1, SeqEqual
<1> QED
  BY <1>2, <1>5, <1>6, <1>9 DEF d

\* A round of sendOrReceive: for a part of the piece, and for the last of it.
LEMMA Rounds ==
  ASSUME Receive
  PROVE  /\ reading.pc \in {"header", "warning", "body"} /\ UNCHANGED <<notified, long>>
         /\ \E count \in 1..Left :
              /\ count <= Len(incoming)
              /\ incoming' = SubSeq(incoming, count + 1, Len(incoming)) /\ Filled(Got, count)
              /\ Got + count > BufferSize \/ UNCHANGED overrun
              /\ IF count < Left
                 THEN /\ reading' = [reading EXCEPT !.size = Left, !.at = Got, !.count = count]
                      /\ UNCHANGED copies
                 ELSE Completed(buffer', Got + count)
<1>1. reading.pc \in {"header", "warning", "body"} /\ UNCHANGED <<notified, long>>
  BY DEF Receive
<1>2. \E count \in 1..Left :
        /\ count <= Len(incoming)
        /\ incoming' = SubSeq(incoming, count + 1, Len(incoming)) /\ Filled(Got, count)
        /\ Got + count > BufferSize \/ UNCHANGED overrun
        /\ IF count < Left
           THEN /\ reading' = [reading EXCEPT !.size = Left, !.at = Got, !.count = count]
                /\ UNCHANGED copies
           ELSE Completed(buffer', Got + count)
  BY Zenon DEF Receive, Left, Got, Filled
<1> QED
  BY <1>1, <1>2

\* What the loop reads next.
LEMMA Start ==
  ASSUME NEW pc \in {"header", "warning", "body", "recover"}, NEW size \in Nat, Reading(pc, size),
         pc # "recover" => size > 0, DOMAIN buffer' = 1..BufferSize
  PROVE  /\ ReadingTyped' /\ reading'.pc = pc
         /\ Got' = 0 /\ Wanted' = size
         /\ Taken' = IF pc \in {"warning", "body"} THEN 2 ELSE 0
<1>1. /\ DOMAIN reading' = {"pc", "at", "size", "count"}
      /\ reading'.pc = pc /\ reading'.at = 0 /\ reading'.size = size /\ reading'.count = 0
  BY DEF Reading
<1>2. ReadingTyped'
  BY <1>1 DEF ReadingTyped
<1>3. Got' = 0 /\ Wanted' = size
  BY <1>1 DEF Got, Wanted
<1>4. Taken' = IF pc \in {"warning", "body"} THEN 2 ELSE 0
  BY <1>1, <1>3 DEF Taken, Before, Header
<1> QED
  BY <1>1, <1>2, <1>3, <1>4

LEMMA HeaderStep ==
  ASSUME NEW handled, NEW rest, Follows(handled, rest), rest # <<>>,
         UNCHANGED <<notified, long, copies>>, DOMAIN buffer' = 1..BufferSize,
         HeaderRead(Head(rest)[1], Len(Head(rest)) - 2),
         incoming' = From(FlattenSeq(rest), 2)
  PROVE  StepInv'
<1> DEFINE m == Head(rest)
           size == Len(m) - 2
<1>1. m \in Msgs /\ m[1] \in Nat /\ size \in Nat /\ Len(m) - Header = size
  <2>1. m \in Msgs
    BY AllOf DEF Follows
  <2> HIDE DEF m
  <2>2. m \in Seq(Nat) /\ Len(m) >= 2
    BY <2>1 DEF Msgs
  <2> QED
    BY <2>1, <2>2 DEF Header
<1>2. PICK pc \in {"warning", "body", "recover"}, n \in Nat :
        /\ Reading(pc, n)
        /\ pc # "recover" => n = size /\ size >= 1
        /\ pc = "warning" => ~Raw(m) /\ m[1] = InvalidInterfaceIndexType
        /\ pc = "body" => Raw(m) /\ size <= BufferSize
  <2> DEFINE type == m[1]
  <2> HIDE DEF m
  <2>1. CASE type = InvalidInterfaceIndexType
    <3>1. ~Raw(m)
      BY <2>1 DEF Raw, InvalidInterfaceIndexType, RawFrameReceivedNotificationType
    <3>2. IF size < 1 THEN Reading("recover", 0) ELSE Reading("warning", size)
      BY <2>1 DEF HeaderRead, m
    <3> HIDE DEF size
    <3> QED
      BY <1>1, <2>1, <3>1, <3>2 DEF size
  <2>2. CASE type # InvalidInterfaceIndexType
    <3>1. IF type # RawFrameReceivedNotificationType \/ size < 1 \/ size > BufferSize
          THEN Reading("recover", 0)
          ELSE Reading("body", size)
      BY <2>2 DEF HeaderRead, m
    <3>2. BufferSize \in Nat
      BY UnitsAssumption
    <3> HIDE DEF size
    <3> QED
      BY <1>1, <3>1, <3>2 DEF Raw, size
  <2> QED
    BY <2>1, <2>2
<1> HIDE DEF size
<1>3. /\ ReadingTyped' /\ reading'.pc = pc /\ Got' = 0 /\ Wanted' = n
      /\ pc # "recover" => Taken' = 2
  BY <1>1, <1>2, Start
<1>4. pc # "recover" => InHand(rest)'
  BY <1>1, <1>2, <1>3 DEF InHand, m
<1>5. Follows(handled, rest)'
  BY <1>3, <1>4 DEF Follows
<1> QED
  BY <1>3, <1>5 DEF StepInv

\* The loop is at the next message.
LEMMA AtNext ==
  ASSUME NEW rest, rest \in Seq(Msgs), rest # <<>>,
         incoming' = From(FlattenSeq(rest), Len(Head(rest))),
         reading'.pc \in {"header", "handle"}, Taken' = 0,
         reading'.pc = "header" => Wanted' = Header /\ Got' = 0
  PROVE  InHand(Tail(rest))'
<1>1. Tail(rest) \in Seq(Msgs) /\ incoming' = FlattenSeq(Tail(rest))
  BY AllOf
<1>2. FlattenSeq(Tail(rest)) \in Seq(Nat)
  BY <1>1, AllOf
<1>3. From(FlattenSeq(Tail(rest)), 0) = FlattenSeq(Tail(rest))
  BY <1>2, SubSeqFull DEF From
<1>4. incoming' = From(FlattenSeq(Tail(rest)), Taken')
  BY <1>1, <1>3
<1> QED
  BY <1>4 DEF InHand

LEMMA WarningStep ==
  ASSUME NEW handled, NEW rest, Follows(handled, rest), rest # <<>>, ~Raw(Head(rest)),
         UNCHANGED <<notified, long, copies>>, DOMAIN buffer' = 1..BufferSize,
         Reading("header", Header), incoming' = From(FlattenSeq(rest), Len(Head(rest)))
  PROVE  StepInv'
<1>1. ReadingTyped' /\ reading'.pc = "header" /\ Got' = 0 /\ Wanted' = Header /\ Taken' = 0
  BY Start DEF Header
<1>2. rest \in Seq(Msgs) /\ Tail(rest) \in Seq(Msgs)
  BY AllOf DEF Follows
<1>3. InHand(Tail(rest))'
  BY <1>1, <1>2, AtNext
<1>4. Frames(rest) = Frames(Tail(rest))
  BY <1>2, FramesOf
<1>5. ~long => NoneLong(Tail(rest))
  BY <1>2, TailShort DEF Follows
<1>6. Follows(handled, Tail(rest))'
  BY <1>1, <1>2, <1>3, <1>4, <1>5 DEF Follows, NoneLong
<1> QED
  BY <1>1, <1>6 DEF StepInv

LEMMA BodyStep ==
  ASSUME NEW handled, NEW rest, Follows(handled, rest), rest # <<>>, Raw(Head(rest)),
         UNCHANGED <<notified, long>>, DOMAIN buffer' = 1..BufferSize,
         NEW size \in Nat \ {0}, Len(Head(rest)) = 2 + size,
         \A k \in 1..size : buffer'[k] = Head(rest)[2 + k],
         FrameRead(buffer', size), incoming' = From(FlattenSeq(rest), Len(Head(rest)))
  PROVE  StepInv'
<1> DEFINE m == Head(rest)
           copy == [iface |-> buffer'[1],
                    data |-> SubSeq([i \in 1..(size - 1) |-> buffer'[i + 1]], 1, size - 1)]
<1>1. /\ rest \in Seq(Msgs) /\ Tail(rest) \in Seq(Msgs) /\ m \in Msgs /\ handled \in Seq(Msgs)
      /\ Len(handled) \in Nat
  <2>1. handled \in Seq(Msgs) /\ rest \in Seq(Msgs)
    BY DEF Follows
  <2> QED
    BY <2>1, AllOf
<1>2. CASE buffer'[1] \notin Interfaces
  <2>1. Reading("recover", 0) /\ copies' = copies
    BY <1>2 DEF FrameRead
  <2>2. ReadingTyped' /\ reading'.pc = "recover"
    BY <2>1, Start
  <2>3. Follows(handled, rest)'
    BY <2>1, <2>2 DEF Follows
  <2> QED
    BY <2>2, <2>3 DEF StepInv
<1>3. CASE buffer'[1] \in Interfaces
  <2>1. reading' = Position(size - 1) /\ copies' = Append(copies, copy)
    BY <1>3 DEF FrameRead, ProcessFrame, Frame
  <2>2. Copied(copy, m)
    <3>1. SubSeq([i \in 1..(size - 1) |-> buffer'[i + 1]], 1, size - 1) = SubSeq(m, 4, Len(m))
      BY <1>1, FrameIs
    <3>2. 1 \in 1..size /\ 2 + 1 = 3
      OBVIOUS
    <3>3. buffer'[1] = m[3]
      BY <3>2
    <3> QED
      BY <3>1, <3>3 DEF Copied
  <2> HIDE DEF copy, m
  <2> DEFINE next == Append(handled, m)
             N == Len(handled)
  <2>3. /\ copies' = [i \in 1..(N + 1) |-> copies'[i]]
        /\ copies'[N + 1] = copy /\ \A i \in 1..N : copies'[i] = copies[i]
    <3>1. copies = [i \in 1..N |-> copies[i]]
      BY DEF Follows
    <3> HIDE DEF N
    <3> QED
      BY <1>1, <2>1, <3>1, AppendIs DEF N
  <2>4. /\ next \in Seq(Msgs) /\ Len(next) = N + 1 /\ next[N + 1] = m
        /\ \A i \in 1..N : next[i] = handled[i]
    BY <1>1, AppendProperties
  <2>5. next = Then(handled, <<m>>)
    BY <1>1, AppendIsConcat DEF Then
  <2>6. Frames(Tail(rest)) \in Seq(Msgs) /\ Frames(rest) = Then(<<m>>, Frames(Tail(rest)))
    BY <1>1, FramesOf DEF m
  <2>7. <<m>> \in Seq(Msgs)
    BY <1>1
  <2>8. Then(next, Frames(Tail(rest))) = Then(handled, Frames(rest))
    <3>1. \A f \in Seq(Msgs) : Then(Then(handled, <<m>>), f) = Then(handled, Then(<<m>>, f))
      <4>1. \A a \in Seq(Msgs), b \in Seq(Msgs), f \in Seq(Msgs) :
              Then(Then(a, b), f) = Then(a, Then(b, f))
        BY Associates
      <4> QED
        BY <1>1, <2>7, <4>1
    <3> QED
      BY <2>5, <2>6, <3>1, Zenon
  <2>9. notified' = Then(next, Frames(Tail(rest)))
    BY <2>8 DEF Follows
  <2>10. /\ ReadingTyped' /\ reading'.pc = "handle" /\ Taken' = 0
    <3>1. /\ reading'.pc = "handle" /\ reading'.at = 1 /\ reading'.size = size - 1 /\ reading'.count = 0
          /\ DOMAIN reading' = {"pc", "at", "size", "count"} /\ size - 1 \in Nat
      BY <2>1 DEF Position
    <3>2. ReadingTyped'
      BY <3>1 DEF ReadingTyped
    <3>3. Taken' = 0
      BY <3>1 DEF Taken
    <3> QED
      BY <3>1, <3>2, <3>3
  <2>11. InHand(Tail(rest))'
    BY <1>1, <2>10, AtNext
  <2>12. ASSUME NEW i \in 1..(N + 1)  PROVE Copied(copies'[i], next[i])
    <3>1. i \in 1..N \/ i = N + 1
      BY <1>1
    <3>2. CASE i \in 1..N
      <4>1. Copied(copies[i], handled[i])
        BY <3>2 DEF Follows
      <4> QED
        BY <2>3, <2>4, <3>2, <4>1
    <3>3. CASE i = N + 1
      BY <2>2, <2>3, <2>4, <3>3
    <3> QED
      BY <3>1, <3>2, <3>3
  <2>13. ~long => NoneLong(Tail(rest))
    BY <1>1, TailShort DEF Follows
  <2> HIDE DEF next
  <2>14. Follows(next, Tail(rest))'
    BY <1>1, <2>3, <2>4, <2>9, <2>11, <2>12, <2>13 DEF Follows, NoneLong
  <2> QED
    BY <2>10, <2>14 DEF StepInv
<1> QED
  BY <1>2, <1>3

LEMMA HeaderAndBody ==
  \A n \in Nat, w \in Nat : w = n - 2 /\ w > 0 => n = 2 + w /\ w \in Nat \ {0}
OBVIOUS

LEMMA ReceiveSteps == StepInv /\ Receive => StepInv'
<1> SUFFICES ASSUME StepInv, Receive  PROVE StepInv'
  OBVIOUS
<1>1. PICK handled, rest : Follows(handled, rest)
  BY DEF StepInv
<1>2. reading.pc \in {"header", "warning", "body"} /\ UNCHANGED <<notified, long>> /\ ReadingTyped
  BY Rounds DEF StepInv
<1>3. PICK count \in 1..Left :
        /\ count <= Len(incoming)
        /\ incoming' = SubSeq(incoming, count + 1, Len(incoming)) /\ Filled(Got, count)
        /\ IF count < Left
           THEN /\ reading' = [reading EXCEPT !.size = Left, !.at = Got, !.count = count]
                /\ UNCHANGED copies
           ELSE Completed(buffer', Got + count)
  BY Rounds
<1>4. Got \in Nat /\ Left \in Nat /\ Got + Left = Wanted /\ count \in Nat
  BY <1>2, <1>3, Round
<1>5. DOMAIN buffer' = 1..BufferSize
  BY <1>3 DEF Filled
<1>6. /\ rest # <<>> /\ Head(rest) \in Msgs /\ Before + Got + Left <= Len(Head(rest))
      /\ incoming' = From(FlattenSeq(rest), Before + Got + count)
      /\ reading.pc \in {"header", "body"} =>
           \A k \in 1..(Got + count) : k \in 1..BufferSize /\ buffer'[k] = Head(rest)[Before + k]
  <2>1. count <= Len(incoming) /\ incoming' = SubSeq(incoming, count + 1, Len(incoming))
    BY <1>3
  <2>2. Filled(Got, count)
    BY <1>3
  <2> HIDE <1>3
  <2> QED
    BY <1>1, <1>2, <2>1, <2>2, Brought
<1>7. InHand(rest) /\ rest \in Seq(Msgs)
  BY <1>1, <1>2 DEF Follows
<1>8. CASE count < Left
  <2>1. reading' = [reading EXCEPT !.size = Left, !.at = Got, !.count = count] /\ copies' = copies
    BY <1>3, <1>8
  <2>2. /\ DOMAIN reading' = {"pc", "at", "size", "count"} /\ reading'.pc = reading.pc
        /\ reading'.at = Got /\ reading'.size = Left /\ reading'.count = count
    BY <1>2, <2>1 DEF ReadingTyped
  <2>3. ReadingTyped'
    BY <1>2, <1>4, <1>5, <1>8, <2>2 DEF ReadingTyped
  <2>4. /\ Got' = Got + count /\ Wanted' = Wanted /\ Before' = Before
        /\ Taken' = Before + Got + count
    <3>1. Got' = Got + count /\ Wanted' = Got + Left /\ Before' = Before
      BY <2>2 DEF Got, Wanted, Before
    <3>2. Taken' = Before' + Got' /\ Before \in {0, 2}
      BY <1>2, <2>2 DEF Taken, Before, Header
    <3> QED
      BY <1>4, <3>1, <3>2
  <2>5. InHand(rest)'
    BY <1>2, <1>6, <1>7, <2>2, <2>4 DEF InHand
  <2>6. Follows(handled, rest)'
    BY <1>1, <1>2, <2>1, <2>5 DEF Follows
  <2> QED
    BY <2>3, <2>6 DEF StepInv
<1>9. CASE count = Left
  <2>1. Completed(buffer', Got + count) /\ Got + count = Wanted
    BY <1>3, <1>4, <1>9
  <2>2. Head(rest) \in Seq(Nat) /\ Len(Head(rest)) \in Nat /\ Len(Head(rest)) >= 2
    <3>1. \A m \in Msgs : m \in Seq(Nat) /\ Len(m) \in Nat /\ Len(m) >= 2
      BY DEF Msgs
    <3> QED
      BY <1>6, <3>1
  <2>3. Left > 0
    BY <1>3, <1>4
  <2>4. CASE reading.pc = "header"
    <3>1. HeaderRead(buffer'[1], buffer'[2]) /\ copies' = copies
      BY <2>1, <2>4 DEF Completed
    <3>2. Wanted = 2 /\ Before = 0
      BY <1>7, <2>4 DEF InHand, Before, Header
    <3>3. buffer'[1] = Head(rest)[1] /\ buffer'[2] = Head(rest)[2]
      <4>1. 1 \in 1..(Got + count) /\ 2 \in 1..(Got + count)
        BY <2>1, <3>2
      <4> QED
        BY <1>6, <2>4, <3>2, <4>1
    <3>4. Head(rest)[2] = Len(Head(rest)) - 2
      BY <1>6 DEF Msgs
    <3>5. incoming' = From(FlattenSeq(rest), 2)
      <4>1. Before + Got + count = 2
        BY <1>4, <2>1, <3>2
      <4> QED
        BY <1>6, <4>1
    <3> QED
      BY <1>1, <1>2, <1>5, <1>6, <3>1, <3>3, <3>4, <3>5, HeaderStep
  <2>5. CASE reading.pc \in {"warning", "body"}
    <3>1. Before = 2 /\ Wanted = Len(Head(rest)) - 2
      BY <1>7, <2>5 DEF InHand, Before, Header
    <3>2. Len(Head(rest)) = 2 + Wanted /\ Wanted \in Nat \ {0}
      <4>1. PICK n \in Nat, w \in Nat : n = Len(Head(rest)) /\ w = Wanted /\ w > 0
        <5>1. Wanted \in Nat /\ Wanted > 0
          BY <1>4, <2>3
        <5> QED
          BY <2>2, <5>1
      <4>2. w = n - 2
        BY <3>1, <4>1
      <4>3. n = 2 + w /\ w \in Nat \ {0}
        BY <4>1, <4>2, HeaderAndBody, Zenon
      <4> QED
        BY <4>1, <4>3
    <3>3. incoming' = From(FlattenSeq(rest), Len(Head(rest)))
      <4>1. Before + Got + count = Len(Head(rest))
        BY <1>4, <2>1, <3>1, <3>2
      <4> QED
        BY <1>6, <4>1
    <3>4. CASE reading.pc = "warning"
      <4>1. Reading("header", Header) /\ copies' = copies
        BY <2>1, <3>4 DEF Completed
      <4>2. ~Raw(Head(rest))
        BY <1>7, <3>4 DEF InHand
      <4> QED
        BY <1>1, <1>2, <1>5, <1>6, <3>3, <4>1, <4>2, WarningStep
    <3>5. CASE reading.pc = "body"
      <4>1. FrameRead(buffer', Wanted)
        BY <2>1, <3>5 DEF Completed
      <4>2. Raw(Head(rest))
        BY <1>7, <3>5 DEF InHand
      <4>3. \A k \in 1..Wanted : buffer'[k] = Head(rest)[2 + k]
        BY <1>6, <2>1, <3>1, <3>5
      <4> QED
        BY <1>1, <1>2, <1>5, <1>6, <3>2, <3>3, <4>1, <4>2, <4>3, BodyStep
    <3> QED
      BY <2>5, <3>4, <3>5
  <2> QED
    BY <1>2, <2>4, <2>5
<1> QED
  BY <1>3, <1>4, <1>8, <1>9

\* What leaves the loop's variables alone.
LEMMA StepKept ==
  ASSUME StepInv, UNCHANGED receiving
  PROVE  StepInv'
<1>1. PICK handled, rest : Follows(handled, rest)
  BY DEF StepInv
<1>2. /\ reading' = reading /\ buffer' = buffer /\ incoming' = incoming /\ notified' = notified
      /\ UNCHANGED <<copies, long>>
  BY DEF receiving
<1>3. Got' = Got /\ Wanted' = Wanted /\ Before' = Before /\ Taken' = Taken
  BY <1>2 DEF Got, Wanted, Before, Taken
<1>4. ReadingTyped'
  BY <1>2 DEF StepInv, ReadingTyped
<1>5. InHand(rest) => InHand(rest)'
  BY <1>2, <1>3 DEF InHand
<1>6. Follows(handled, rest)'
  BY <1>1, <1>2, <1>5 DEF Follows
<1> QED
  BY <1>4, <1>6 DEF StepInv

LEMMA RecoverSteps ==
  ASSUME StepInv, ReceiveFails
  PROVE  StepInv'
<1>1. PICK handled, rest : Follows(handled, rest)
  BY DEF StepInv
<1>2. Reading("recover", 0) /\ copies' = copies /\ buffer' = buffer /\ UNCHANGED <<notified, long>>
  BY DEF ReceiveFails, Recover
<1>3. ReadingTyped' /\ reading'.pc = "recover"
  BY <1>2, Start DEF StepInv, ReadingTyped
<1>4. Follows(handled, rest)'
  BY <1>1, <1>2, <1>3 DEF Follows
<1> QED
  BY <1>3, <1>4 DEF StepInv

LEMMA ReturnSteps ==
  ASSUME StepInv, ProcessFrameReturns
  PROVE  StepInv'
<1>1. PICK handled, rest : Follows(handled, rest)
  BY DEF StepInv
<1>2. /\ reading.pc = "handle" /\ Reading("header", Header)
      /\ buffer' = buffer /\ incoming' = incoming /\ notified' = notified /\ copies' = copies
      /\ long' = long
  BY DEF ProcessFrameReturns
<1>3. ReadingTyped' /\ reading'.pc = "header" /\ Got' = 0 /\ Wanted' = Header /\ Taken' = 0
  BY <1>2, Start DEF StepInv, ReadingTyped, Header
<1>4. Taken = 0 /\ InHand(rest)
  BY <1>1, <1>2 DEF Follows, Taken
<1>5. InHand(rest)'
  BY <1>2, <1>3, <1>4 DEF InHand
<1>6. Follows(handled, rest)'
  BY <1>1, <1>2, <1>3, <1>5 DEF Follows
<1> QED
  BY <1>3, <1>6 DEF StepInv

\* The calls of the threads, and a signal, leave alone what the event loop reads.
LEMMA CallsKeep ==
  ASSUME NEW t \in Thread,
         \/ SendFrame(t) \/ Walk(t) \/ \E f \in Field : Set(t, f)
         \/ Lock(t) \/ Send(t) \/ SendFails(t) \/ Unlock(t) \/ Return(t) \/ Interrupt(t)
  PROVE  UNCHANGED receiving
<1>1. SendFrame(t) \/ Walk(t) \/ (\E f \in Field : Set(t, f)) => UNCHANGED receiving
  BY DEF SendFrame, Walk, Set, Begin
<1>2. Lock(t) \/ Unlock(t) \/ Return(t) => UNCHANGED receiving
  BY DEF Lock, Unlock, Return
<1>3. Send(t) => UNCHANGED receiving
  BY Zenon DEF Send
<1>4. SendFails(t) \/ Interrupt(t) => UNCHANGED receiving
  BY DEF SendFails, Interrupt, SystemInterrupt
<1> QED
  BY <1>1, <1>2, <1>3, <1>4, Zenon

LEMMA StepSteps == StepInv /\ [Next]_vars => StepInv'
<1> SUFFICES ASSUME StepInv, [Next]_vars  PROVE StepInv'
  OBVIOUS
<1>1. CASE Receive
  BY <1>1, ReceiveSteps
<1>2. CASE ReceiveFails
  BY <1>2, RecoverSteps
<1>3. CASE ProcessFrameReturns
  BY <1>3, ReturnSteps
<1>4. CASE \E t \in Thread :
             \/ SendFrame(t) \/ Walk(t) \/ \E f \in Field : Set(t, f)
             \/ Lock(t) \/ Send(t) \/ SendFails(t) \/ Unlock(t) \/ Return(t) \/ Interrupt(t)
  <2>1. UNCHANGED receiving
    BY <1>4, CallsKeep
  <2> QED
    BY <2>1, StepKept
<1>5. CASE Arrive \/ Crash \/ StreamEnds \/ RecoveryFails \/ Shutdown \/ Reset
  BY <1>5, StepKept DEF Arrive, Crash, StreamEnds, RecoveryFails, SystemInterrupt, Shutdown, CloseSocket,
     DeleteMachine, ExitProcess, Reset
<1>6. CASE UNCHANGED vars
  BY <1>6, StepKept DEF vars
<1> QED
  BY <1>1, <1>2, <1>3, <1>4, <1>5, <1>6 DEF Next

\* Only a warning that is longer than the buffer is written past its end.
LEMMA OverrunSteps ==
  ASSUME StepInv, [Next]_vars, overrun => long, overrun'
  PROVE  long'
<1>1. \/ UNCHANGED <<overrun, long>>
      \/ Receive
  <2>1. CASE \E t \in Thread :
             \/ SendFrame(t) \/ Walk(t) \/ \E f \in Field : Set(t, f)
             \/ Lock(t) \/ Send(t) \/ SendFails(t) \/ Unlock(t) \/ Return(t) \/ Interrupt(t)
    BY <2>1, CallsKeep DEF receiving
  <2>2. CASE Arrive \/ Crash \/ ReceiveFails \/ ProcessFrameReturns
    BY <2>2 DEF Arrive, Crash, ReceiveFails, ProcessFrameReturns, receiving
  <2>3. CASE StreamEnds \/ RecoveryFails \/ Shutdown \/ Reset
    BY <2>3 DEF StreamEnds, RecoveryFails, SystemInterrupt, Shutdown, CloseSocket, DeleteMachine,
         ExitProcess, Reset, receiving
  <2>4. CASE UNCHANGED vars
    BY <2>4 DEF vars, receiving
  <2> QED
    BY <2>1, <2>2, <2>3, <2>4, Zenon DEF Next
<1>2. SUFFICES ASSUME Receive, ~overrun, ~long, ~long'  PROVE FALSE
  BY <1>1, Rounds
<1>3. Receive /\ overrun' # overrun
  BY <1>2
<1>4. PICK handled, rest : Follows(handled, rest)
  BY DEF StepInv
<1>5. ReadingTyped /\ reading.pc \in {"header", "warning", "body"} /\ InHand(rest) /\ NoneLong(rest)
  BY <1>2, <1>3, <1>4, Rounds DEF StepInv, Follows
<1>6. PICK count \in 1..Left :
        /\ count <= Len(incoming)
        /\ incoming' = SubSeq(incoming, count + 1, Len(incoming)) /\ Filled(Got, count)
        /\ Got + count > BufferSize
  BY <1>3, Rounds
<1>7. /\ Got \in Nat /\ count \in Nat /\ Got + Left = Wanted /\ Left \in Nat
      /\ rest # <<>> /\ rest \in Seq(Msgs) /\ Head(rest) \in Msgs
      /\ reading.pc \in {"header", "body"} => \A k \in 1..(Got + count) : k \in 1..BufferSize
  <2>1. Filled(Got, count) /\ incoming' = SubSeq(incoming, count + 1, Len(incoming))
    BY <1>6
  <2>2. rest \in Seq(Msgs) /\ Got \in Nat /\ Left \in Nat /\ Got + Left = Wanted
    BY <1>4, <1>5, Round DEF Follows
  <2>3. count <= Len(incoming) /\ count \in 1..Left
    BY <1>6
  <2>4. /\ rest # <<>> /\ Head(rest) \in Msgs
        /\ reading.pc \in {"header", "body"} => \A k \in 1..(Got + count) : k \in 1..BufferSize
    <3> HIDE <1>2, <1>3, <1>6
    <3> QED
      BY <1>4, <1>5, <2>1, <2>3, Brought
  <2>5. count \in Nat
    BY <2>2, <2>3
  <2> QED
    BY <2>2, <2>4, <2>5
<1>8. BufferSize \in Nat /\ Got + count \in 1..(Got + count) /\ Got + count <= Wanted
  BY <1>6, <1>7, UnitsAssumption
<1>9. reading.pc = "warning"
  <2>1. ~(Got + count \in 1..BufferSize)
    BY <1>6, <1>7, <1>8
  <2> QED
    BY <1>5, <1>7, <1>8, <2>1
<1>10. Head(rest)[1] = InvalidInterfaceIndexType /\ Wanted = Len(Head(rest)) - 2
  BY <1>5, <1>9 DEF InHand, Header
<1>11. Head(rest)[2] = Wanted
  BY <1>7, <1>10 DEF Msgs
<1>12. Wanted > BufferSize
  BY <1>6, <1>7, <1>8
<1>13. TooLong(Head(rest))
  BY <1>10, <1>11, <1>12 DEF TooLong
<1> QED
  BY <1>5, <1>7, <1>13, TailShort

\* The frames the program has copied are the first ones the server has sent on this
\* connection, in its order, each with the bytes and the length it was sent with:
\* simulationEventLoop stays in step with the stream over every partial recv, over
\* warnings, and over what earlier messages have left in the one buffer; until a warning
\* longer than the buffer has been written past its end, which nothing else ever is.
THEOREM InStepHolds == Spec => []InStep
<1>1. Init => StepInv /\ (overrun => long)
  <2>1. Init => ~overrun
    BY DEF Init
  <2> QED
    BY <2>1, InitSteps
<1>2. StepInv /\ (overrun => long) /\ [Next]_vars => StepInv' /\ (overrun => long)'
  BY StepSteps, OverrunSteps
<1>3. StepInv /\ (overrun => long) => InStep
  BY FollowsInStep
<1> QED
  BY <1>1, <1>2, <1>3, PTL DEF Spec
=============================================================================

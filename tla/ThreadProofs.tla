---------------------------- MODULE ThreadProofs ----------------------------
(***************************************************************************)
(* Proofs that a client speaks from the port it is registered with, and    *)
(* that what it sends to a peer goes to that peer, however the steps of    *)
(* its two threads are mixed.                                              *)
(***************************************************************************)
EXTENDS PeerThreads, SequenceTheorems, TLAPS

-----------------------------------------------------------------------------
(* The lists of operations. *)

IsList(s) == \E S : s \in Seq(S)

\* What an operation is about, and a list with none about any of N.
Key(o) == IF o.op = "store" THEN o.field ELSE o.op
Avoids(s, N) == IsList(s) /\ \A i \in 1..Len(s) : Key(s[i]) \notin N

\* The operations on the port and the id, and those on the peer.
PortKeys == {"store_port", "request", "load_port", "load_port_100", "my_ID"}
PeerKeys == {"new_info", "store_info", "peer_ID", "kind", "send"}
AllQuiet(s) == Avoids(s, PortKeys)

LEMMA ListFacts ==
  ASSUME NEW s, IsList(s)
  PROVE  /\ Len(s) \in Nat
         /\ s = <<>> <=> Len(s) = 0
         /\ s # <<>> => /\ IsList(Tail(s)) /\ Len(Tail(s)) = Len(s) - 1
                        /\ \A i \in 1..Len(Tail(s)) : Tail(s)[i] = s[i + 1]
                        /\ Head(s) = s[1]
<1>1. PICK S : s \in Seq(S)
  BY DEF IsList
<1>2. ASSUME s # <<>>  PROVE Tail(s) \in Seq(S)
  BY <1>1, <1>2
<1> QED
  BY <1>1, <1>2 DEF IsList

LEMMA AvoidsTail ==
  ASSUME NEW N, NEW s, Avoids(s, N), s # <<>>
  PROVE  Key(Head(s)) \notin N /\ Avoids(Tail(s), N)
<1>1. Len(s) \in Nat \ {0} /\ Len(Tail(s)) = Len(s) - 1 /\ Head(s) = s[1]
      /\ IsList(Tail(s)) /\ \A i \in 1..Len(Tail(s)) : Tail(s)[i] = s[i + 1]
  BY ListFacts DEF Avoids
<1>2. \A i \in 1..Len(Tail(s)) : i + 1 \in 1..Len(s)
  BY <1>1
<1> QED
  BY <1>1, <1>2 DEF Avoids

LEMMA AvoidsConcat ==
  ASSUME NEW N, NEW s, NEW t, Avoids(s, N), Avoids(t, N)
  PROVE  Avoids(s \o t, N)
<1>1. PICK S : s \in Seq(S)
  BY DEF Avoids, IsList
<1>2. PICK T : t \in Seq(T)
  BY DEF Avoids, IsList
<1>3. s \in Seq(S \cup T) /\ t \in Seq(S \cup T)
  BY <1>1, <1>2
<1>4. s \o t \in Seq(S \cup T) /\ Len(s \o t) = Len(s) + Len(t) /\ Len(s) \in Nat /\ Len(t) \in Nat
  BY <1>3
<1>5. ASSUME NEW i \in 1..Len(s \o t)  PROVE Key((s \o t)[i]) \notin N
  <2>1. CASE i \in 1..Len(s)
    BY <2>1, <1>3 DEF Avoids
  <2>2. CASE i \notin 1..Len(s)
    <3>1. i - Len(s) \in 1..Len(t) /\ (s \o t)[i] = t[i - Len(s)]
      BY <2>2, <1>3, <1>4
    <3> QED
      BY <3>1 DEF Avoids
  <2> QED
    BY <2>1, <2>2
<1> QED
  BY <1>4, <1>5 DEF Avoids, IsList

LEMMA AvoidsOne ==
  ASSUME NEW N, NEW o, Key(o) \notin N
  PROVE  Avoids(<<o>>, N)
<1>1. <<o>> \in Seq({o}) /\ Len(<<o>>) = 1 /\ <<o>>[1] = o
  OBVIOUS
<1>2. IsList(<<o>>)
  BY <1>1 DEF IsList
<1> QED
  BY <1>1, <1>2 DEF Avoids

LEMMA AvoidsNone == \A N : Avoids(<<>>, N)
<1>1. <<>> \in Seq({}) /\ Len(<<>>) = 0
  OBVIOUS
<1> QED
  BY <1>1 DEF Avoids, IsList

LEMMA QuietNone == AllQuiet(<<>>)
BY AvoidsNone DEF AllQuiet

LEMMA AvoidsOps ==
  /\ \A op : op # "store" => \A N : op \notin N => Avoids(Do(op), N)
  /\ \A field, v, N : field \notin N => Avoids(Store(field, v), N)
  /\ \A side, part, v, N : "store_info" \notin N => Avoids(Put(side, part, v), N)
BY AvoidsOne DEF Do, Store, Put, Key

LEMMA QuietOps ==
  /\ \A op \in {"new_info", "test_info", "test_peer", "test_connected", "load_kind",
                "load_ip", "load_peer_port", "send"} : AllQuiet(Do(op))
  /\ \A field \in {"peer_ID", "connected", "kind"} : \A v : AllQuiet(Store(field, v))
  /\ \A side, part, v : AllQuiet(Put(side, part, v))
BY AvoidsOps DEF AllQuiet, PortKeys

LEMMA QuietConcat ==
  ASSUME NEW s, NEW t, AllQuiet(s), AllQuiet(t)
  PROVE  AllQuiet(s \o t)
BY AvoidsConcat DEF AllQuiet

\* What the handlers and commands of a session do is quiet.
LEMMA SessionsQuiet ==
  /\ AllQuiet(SendMessage)
  /\ \A kind : AllQuiet(MakeSession(kind))
  /\ \A id : AllQuiet(ResponseIp(id)) /\ AllQuiet(ResponseSession(id))
  /\ \A id, src, kind : AllQuiet(RequestSession(id, src, kind))
<1>1. AllQuiet(SendMessage)
  BY QuietConcat, QuietOps DEF SendMessage
<1>2. ASSUME NEW kind  PROVE AllQuiet(MakeSession(kind))
  BY QuietConcat, QuietOps DEF MakeSession
<1>3. ASSUME NEW id  PROVE AllQuiet(ResponseIp(id))
  BY QuietConcat, QuietOps, QuietNone DEF ResponseIp
<1>4. ASSUME NEW id  PROVE AllQuiet(ResponseSession(id))
  BY QuietOps, QuietNone DEF ResponseSession
<1>5. ASSUME NEW id, NEW src, NEW kind  PROVE AllQuiet(RequestSession(id, src, kind))
  BY QuietConcat, QuietOps, QuietNone DEF RequestSession
<1> QED
  BY <1>1, <1>2, <1>3, <1>4, <1>5

\* The lists that ask for an id.
Plain(op) == [op |-> op, field |-> "", value |-> None]
test == Plain("test_no_id")
store == Plain("store_port")
request == Plain("request")
load == Plain("load_port")
load_100 == Plain("load_port_100")
learn == [op |-> "store", field |-> "my_ID", value |-> MyId]

LEMMA Concats ==
  /\ \A a, b : <<a>> \o <<b>> = <<a, b>>
  /\ \A a, b, c : <<a, b>> \o <<c>> = <<a, b, c>>
  /\ \A a, b, c, d : <<a, b, c>> \o <<d>> = <<a, b, c, d>>
  /\ \A a, b, c, d, e : <<a, b, c, d>> \o <<e>> = <<a, b, c, d, e>>
  /\ \A a, b, c, d, e, f : <<a, b, c, d, e>> \o <<f>> = <<a, b, c, d, e, f>>
  /\ \A a, b, c, d, e, f, g : <<a, b, c, d, e, f>> \o <<g>> = <<a, b, c, d, e, f, g>>
  /\ \A a, b, c, d, e, f, g, h : <<a, b, c, d, e, f, g>> \o <<h>> = <<a, b, c, d, e, f, g, h>>
<1>1. \A a, b : <<a>> \o <<b>> = <<a, b>>
  <2> TAKE a, b
  <2> DEFINE S == {a, b}
             s == <<a>> \o <<b>>
             t == <<a, b>>
  <2>1. /\ <<a>> \in Seq(S) /\ <<b>> \in Seq(S) /\ t \in Seq(S)
        /\ Len(<<a>>) = 1 /\ Len(<<b>>) = 1 /\ Len(t) = 2
    OBVIOUS
  <2>2. s \in Seq(S) /\ Len(s) = 2
        /\ \A i \in 1..2 : s[i] = IF i <= 1 THEN <<a>>[i] ELSE <<b>>[i - 1]
    BY <2>1, ConcatProperties
  <2>3. \A i \in 1..2 : s[i] = t[i]
    BY <2>2
  <2>4. s = t
    <3> HIDE DEF s, t, S
    <3> QED
      BY <2>1, <2>2, <2>3, SeqEqual
  <2> QED
    BY <2>4
<1>2. \A a, b, c : <<a, b>> \o <<c>> = <<a, b, c>>
  <2> TAKE a, b, c
  <2> DEFINE S == {a, b, c}
             s == <<a, b>> \o <<c>>
             t == <<a, b, c>>
  <2>1. /\ <<a, b>> \in Seq(S) /\ <<c>> \in Seq(S) /\ t \in Seq(S)
        /\ Len(<<a, b>>) = 2 /\ Len(<<c>>) = 1 /\ Len(t) = 3
    OBVIOUS
  <2>2. s \in Seq(S) /\ Len(s) = 3
        /\ \A i \in 1..3 : s[i] = IF i <= 2 THEN <<a, b>>[i] ELSE <<c>>[i - 2]
    BY <2>1, ConcatProperties
  <2>3. \A i \in 1..3 : s[i] = t[i]
    BY <2>2
  <2>4. s = t
    <3> HIDE DEF s, t, S
    <3> QED
      BY <2>1, <2>2, <2>3, SeqEqual
  <2> QED
    BY <2>4
<1>3. \A a, b, c, d : <<a, b, c>> \o <<d>> = <<a, b, c, d>>
  <2> TAKE a, b, c, d
  <2> DEFINE S == {a, b, c, d}
             s == <<a, b, c>> \o <<d>>
             t == <<a, b, c, d>>
  <2>1. /\ <<a, b, c>> \in Seq(S) /\ <<d>> \in Seq(S) /\ t \in Seq(S)
        /\ Len(<<a, b, c>>) = 3 /\ Len(<<d>>) = 1 /\ Len(t) = 4
    OBVIOUS
  <2>2. s \in Seq(S) /\ Len(s) = 4
        /\ \A i \in 1..4 : s[i] = IF i <= 3 THEN <<a, b, c>>[i] ELSE <<d>>[i - 3]
    BY <2>1, ConcatProperties
  <2>3. \A i \in 1..4 : s[i] = t[i]
    BY <2>2
  <2>4. s = t
    <3> HIDE DEF s, t, S
    <3> QED
      BY <2>1, <2>2, <2>3, SeqEqual
  <2> QED
    BY <2>4
<1>4. \A a, b, c, d, e : <<a, b, c, d>> \o <<e>> = <<a, b, c, d, e>>
  <2> TAKE a, b, c, d, e
  <2> DEFINE S == {a, b, c, d, e}
             s == <<a, b, c, d>> \o <<e>>
             t == <<a, b, c, d, e>>
  <2>1. /\ <<a, b, c, d>> \in Seq(S) /\ <<e>> \in Seq(S) /\ t \in Seq(S)
        /\ Len(<<a, b, c, d>>) = 4 /\ Len(<<e>>) = 1 /\ Len(t) = 5
    OBVIOUS
  <2>2. s \in Seq(S) /\ Len(s) = 5
        /\ \A i \in 1..5 : s[i] = IF i <= 4 THEN <<a, b, c, d>>[i] ELSE <<e>>[i - 4]
    BY <2>1, ConcatProperties
  <2>3. \A i \in 1..5 : s[i] = t[i]
    BY <2>2
  <2>4. s = t
    <3> HIDE DEF s, t, S
    <3> QED
      BY <2>1, <2>2, <2>3, SeqEqual
  <2> QED
    BY <2>4
<1>5. \A a, b, c, d, e, f : <<a, b, c, d, e>> \o <<f>> = <<a, b, c, d, e, f>>
  <2> TAKE a, b, c, d, e, f
  <2> DEFINE S == {a, b, c, d, e, f}
             s == <<a, b, c, d, e>> \o <<f>>
             t == <<a, b, c, d, e, f>>
  <2>1. /\ <<a, b, c, d, e>> \in Seq(S) /\ <<f>> \in Seq(S) /\ t \in Seq(S)
        /\ Len(<<a, b, c, d, e>>) = 5 /\ Len(<<f>>) = 1 /\ Len(t) = 6
    OBVIOUS
  <2>2. s \in Seq(S) /\ Len(s) = 6
        /\ \A i \in 1..6 : s[i] = IF i <= 5 THEN <<a, b, c, d, e>>[i] ELSE <<f>>[i - 5]
    BY <2>1, ConcatProperties
  <2>3. \A i \in 1..6 : s[i] = t[i]
    BY <2>2
  <2>4. s = t
    <3> HIDE DEF s, t, S
    <3> QED
      BY <2>1, <2>2, <2>3, SeqEqual
  <2> QED
    BY <2>4
<1>6. \A a, b, c, d, e, f, g : <<a, b, c, d, e, f>> \o <<g>> = <<a, b, c, d, e, f, g>>
  <2> TAKE a, b, c, d, e, f, g
  <2> DEFINE S == {a, b, c, d, e, f, g}
             s == <<a, b, c, d, e, f>> \o <<g>>
             t == <<a, b, c, d, e, f, g>>
  <2>1. /\ <<a, b, c, d, e, f>> \in Seq(S) /\ <<g>> \in Seq(S) /\ t \in Seq(S)
        /\ Len(<<a, b, c, d, e, f>>) = 6 /\ Len(<<g>>) = 1 /\ Len(t) = 7
    OBVIOUS
  <2>2. s \in Seq(S) /\ Len(s) = 7
        /\ \A i \in 1..7 : s[i] = IF i <= 6 THEN <<a, b, c, d, e, f>>[i] ELSE <<g>>[i - 6]
    BY <2>1, ConcatProperties
  <2>3. \A i \in 1..7 : s[i] = t[i]
    BY <2>2
  <2>4. s = t
    <3> HIDE DEF s, t, S
    <3> QED
      BY <2>1, <2>2, <2>3, SeqEqual
  <2> QED
    BY <2>4
<1>7. \A a, b, c, d, e, f, g, h : <<a, b, c, d, e, f, g>> \o <<h>> = <<a, b, c, d, e, f, g, h>>
  <2> TAKE a, b, c, d, e, f, g, h
  <2> DEFINE S == {a, b, c, d, e, f, g, h}
             s == <<a, b, c, d, e, f, g>> \o <<h>>
             t == <<a, b, c, d, e, f, g, h>>
  <2>1. /\ <<a, b, c, d, e, f, g>> \in Seq(S) /\ <<h>> \in Seq(S) /\ t \in Seq(S)
        /\ Len(<<a, b, c, d, e, f, g>>) = 7 /\ Len(<<h>>) = 1 /\ Len(t) = 8
    OBVIOUS
  <2>2. s \in Seq(S) /\ Len(s) = 8
        /\ \A i \in 1..8 : s[i] = IF i <= 7 THEN <<a, b, c, d, e, f, g>>[i] ELSE <<h>>[i - 7]
    BY <2>1, ConcatProperties
  <2>3. \A i \in 1..8 : s[i] = t[i]
    BY <2>2
  <2>4. s = t
    <3> HIDE DEF s, t, S
    <3> QED
      BY <2>1, <2>2, <2>3, SeqEqual
  <2> QED
    BY <2>4
<1> QED
  BY <1>1, <1>2, <1>3, <1>4, <1>5, <1>6, <1>7

LEMMA Concat3and3 ==
  ASSUME NEW a, NEW b, NEW c, NEW d, NEW e, NEW f
  PROVE  <<a, b, c>> \o <<d, e, f>> = <<a, b, c, d, e, f>>
<1> DEFINE S == {a, b, c, d, e, f}
           s == <<a, b, c>> \o <<d, e, f>>
           t == <<a, b, c, d, e, f>>
<1>1. <<a, b, c>> \in Seq(S) /\ <<d, e, f>> \in Seq(S) /\ t \in Seq(S)
  OBVIOUS
<1>2. Len(<<a, b, c>>) = 3 /\ Len(<<d, e, f>>) = 3 /\ Len(t) = 6
  OBVIOUS
<1>3. s \in Seq(S) /\ Len(s) = 6
      /\ \A i \in 1..6 : s[i] = IF i <= 3 THEN <<a, b, c>>[i] ELSE <<d, e, f>>[i - 3]
  BY <1>1, <1>2, ConcatProperties
<1>4. \A i \in 1..6 : s[i] = t[i]
  BY <1>3
<1>5. s = t
  <2> HIDE DEF s, t, S
  <2> QED
    BY <1>1, <1>2, <1>3, <1>4, SeqEqual
<1> QED
  BY <1>5

LEMMA PlainOps ==
  /\ \A op : Plain(op).op = op
  /\ test.op = "test_no_id" /\ store.op = "store_port" /\ request.op = "request"
  /\ load.op = "load_port" /\ load_100.op = "load_port_100"
<1>1. \A op : Plain(op).op = op
  BY DEF Plain
<1> QED
  BY <1>1 DEF test, store, request, load, load_100

LEMMA AskingLists ==
  /\ MakeConnection = <<test, store, request>>
  /\ ReceiveDrop = <<load_100, store, load, test, store, request>>
  /\ ResponseId(MyId) = <<learn>>
<1>1. \A op : Do(op) = <<Plain(op)>>
  BY DEF Do, Plain
<1>2. MakeConnection = <<test, store, request>>
  <2>1. MakeConnection = <<test>> \o <<store>> \o <<request>>
    BY <1>1 DEF MakeConnection, test, store, request
  <2>2. <<test>> \o <<store>> = <<test, store>>
    BY Concats
  <2>3. <<test, store>> \o <<request>> = <<test, store, request>>
    BY Concats
  <2> QED
    BY <2>1, <2>2, <2>3
<1>3. ReceiveDrop = <<load_100>> \o <<store>> \o <<load>> \o <<test, store, request>>
  BY <1>1, <1>2 DEF ReceiveDrop, store, load, load_100
<1>4. ReceiveDrop = <<load_100, store, load, test, store, request>>
  <2>1. <<load_100>> \o <<store>> = <<load_100, store>>
    BY Concats
  <2>2. <<load_100, store>> \o <<load>> = <<load_100, store, load>>
    BY Concats
  <2>3. <<load_100, store, load>> \o <<test, store, request>> =
          <<load_100, store, load, test, store, request>>
    BY Concat3and3
  <2> QED
    BY <1>3, <2>1, <2>2, <2>3
<1>5. ResponseId(MyId) = <<learn>>
  BY DEF ResponseId, Store, learn
<1> QED
  BY <1>2, <1>4, <1>5

-----------------------------------------------------------------------------
(* The inductive invariant: where the one request of this client is. *)

IsReg(r) == {"port", "side", "ip", "peer_port", "to", "during"} \subseteq DOMAIN r
Typed ==
  /\ DOMAIN todo = Thread /\ DOMAIN reg = Thread
  /\ \A t \in Thread : IsReg(reg[t])

drop == [type |-> "drop", id |-> 0, kind |-> "INVALID"]
answer == IdPacket(MyId)

OfPeers(ps) == \A p \in ps : p.type \in {"ip", "ping", "pong"}
Calm(t) == AllQuiet(todo[t])
NoId == my_ID = 0 /\ registered = 0

\* Nobody has asked for an id.
Fresh == NoId /\ ~tried /\ asked = {} /\ OfPeers(arrived) /\ Calm("main") /\ Calm("console")

\* The console asks.
Asking ==
  /\ NoId /\ tried /\ asked = {} /\ OfPeers(arrived) /\ Calm("main")
  /\ \/ todo["console"] = <<test, store, request>>
     \/ todo["console"] = <<store, request>>
     \/ todo["console"] = <<request>> /\ my_port = reg["console"].port

\* The request is on its way.
Requested ==
  NoId /\ tried /\ asked = {my_port} /\ OfPeers(arrived) /\ Calm("main") /\ Calm("console")

\* It was refused.
Refused ==
  /\ NoId /\ tried /\ asked = {} /\ Calm("main") /\ Calm("console")
  /\ drop \in arrived /\ OfPeers(arrived \ {drop})

\* receive_drop_packet tries the next port.
Retrying ==
  /\ NoId /\ tried /\ asked = {} /\ OfPeers(arrived) /\ Calm("console")
  /\ \/ todo["main"] = <<load_100, store, load, test, store, request>>
     \/ todo["main"] = <<store, load, test, store, request>>
     \/ todo["main"] = <<load, test, store, request>>
     \/ todo["main"] = <<test, store, request>>
     \/ todo["main"] = <<store, request>>
     \/ todo["main"] = <<request>> /\ my_port = reg["main"].port

\* The server has registered the port, and its answer arrived or is being stored.
Answered ==
  /\ my_ID = 0 /\ my_port = registered /\ tried /\ asked = {} /\ Calm("console")
  /\ \/ Calm("main") /\ answer \in arrived /\ OfPeers(arrived \ {answer})
     \/ todo["main"] = <<learn>> /\ OfPeers(arrived)

\* The client has its id; another "make a connection" ends at its first test.
Known ==
  /\ my_ID # 0 /\ my_port = registered /\ asked = {} /\ OfPeers(arrived) /\ Calm("main")
  /\ Calm("console") \/ todo["console"] = <<test, store, request>>

Phase == Fresh \/ Asking \/ Requested \/ Refused \/ Retrying \/ Answered \/ Known
ThreadInv == ~muddled => Typed /\ Phase

-----------------------------------------------------------------------------
(* One operation. *)

Elsewhere == <<arrived, registered, tried, muddled>>
Own == <<my_ID, my_port, asked>>

LEMMA Continued ==
  ASSUME Typed, NEW t \in Thread, NEW rest, NEW locals, IsReg(locals), Continue(t, rest, locals)
  PROVE  /\ Typed' /\ UNCHANGED Elsewhere
         /\ todo'[t] = rest /\ (rest # <<>> => reg'[t] = locals)
         /\ \A u \in Thread \ {t} : todo'[u] = todo[u] /\ reg'[u] = reg[u]
<1>1. IsReg(Locals)
  BY DEF IsReg, Locals
<1>2. /\ todo' = [todo EXCEPT ![t] = rest]
      /\ reg' = [reg EXCEPT ![t] = IF rest = <<>> THEN Locals ELSE locals]
      /\ UNCHANGED Elsewhere
  BY DEF Continue, Others, bounds, Elsewhere
<1> QED
  BY <1>1, <1>2 DEF Typed

LEMMA LoadedReg ==
  ASSUME NEW r, IsReg(r), NEW x, NEW v
  PROVE  IsReg([r EXCEPT ![x] = v]) /\ [r EXCEPT !["port"] = v].port = v
BY DEF IsReg

\* Whatever the operation: the list goes on or ends, and only the operations on the
\* port and the id change them.
LEMMA StepContinues ==
  ASSUME Typed, NEW t \in Thread, Step(t)
  PROVE  /\ todo[t] # <<>>
         /\ \E rest, locals :
              rest \in {Tail(todo[t]), <<>>} /\ IsReg(locals) /\ Continue(t, rest, locals)
         /\ Key(Op(t)) \notin PortKeys => UNCHANGED Own
<1>1. IsReg(reg[t]) /\ IsReg(Locals)
  BY DEF Typed, IsReg, Locals
<1>2. CASE Tests(t)
  BY <1>1, <1>2 DEF Tests, Test, At, Done, Own, fields
<1>3. CASE Loads(t)
  <2>1. PICK variable, value : Load(t, variable, value) /\ todo[t] # <<>>
    BY <1>3 DEF Loads, At
  <2> QED
    BY <1>1, <2>1, LoadedReg DEF Load, Own, fields
<1>4. CASE StoreField(t)
  BY <1>1, <1>4 DEF StoreField, At, Done, Own, Key, PortKeys
<1>5. CASE NewInfo(t) \/ StoreInfo(t) \/ SendToPeer(t)
  BY <1>1, <1>5 DEF NewInfo, StoreInfo, SendToPeer, At, Done, Own, fields
<1>6. CASE StorePort(t) \/ Request(t)
  BY <1>1, <1>6 DEF StorePort, Request, At, Done, Own, Key, PortKeys, fields
<1> QED
  BY <1>2, <1>3, <1>4, <1>5, <1>6 DEF Step

LEMMA QuietStep ==
  ASSUME Typed, NEW t \in Thread, Calm(t), Step(t)
  PROVE  /\ Typed' /\ Calm(t)' /\ UNCHANGED Elsewhere /\ UNCHANGED Own
         /\ \A u \in Thread \ {t} : todo'[u] = todo[u] /\ reg'[u] = reg[u]
<1>1. todo[t] # <<>>
  BY StepContinues
<1>2. Key(Op(t)) \notin PortKeys /\ AllQuiet(Tail(todo[t])) /\ AllQuiet(<<>>)
  BY <1>1, AvoidsTail, QuietNone DEF Calm, Op, AllQuiet
<1>3. PICK rest, locals :
        rest \in {Tail(todo[t]), <<>>} /\ IsReg(locals) /\ Continue(t, rest, locals)
  BY StepContinues
<1>4. UNCHANGED Own
  BY <1>2, StepContinues
<1> QED
  BY <1>2, <1>3, <1>4, Continued DEF Calm

\* What the step does is told by the operation.
LEMMA StepOf ==
  ASSUME NEW t \in Thread, Step(t)
  PROVE  /\ Op(t).op = "test_no_id" => Test(t, "test_no_id", my_ID = 0)
         /\ Op(t).op = "test_info" => Test(t, "test_info", peer_info # None)
         /\ Op(t).op = "test_peer" => Test(t, "test_peer", peer_ID = reg[t].to)
         /\ Op(t).op = "test_connected" => Test(t, "test_connected", connected)
         /\ Op(t).op = "load_port" => Load(t, "port", my_port)
         /\ Op(t).op = "load_port_100" => \E v : Load(t, "port", v)
         /\ Op(t).op = "load_kind" => Load(t, "side", Side(peer_session_kind))
         /\ Op(t).op = "load_ip" => Load(t, "ip", peer_info[<<reg[t].side, "ip">>])
         /\ Op(t).op = "load_peer_port" => Load(t, "peer_port", peer_info[<<reg[t].side, "port">>])
         /\ Op(t).op = "store" => StoreField(t)
         /\ Op(t).op = "new_info" => NewInfo(t)
         /\ Op(t).op = "store_info" => StoreInfo(t)
         /\ Op(t).op = "store_port" => StorePort(t)
         /\ Op(t).op = "request" => Request(t)
         /\ Op(t).op = "send" => SendToPeer(t)
<1>1. \A op, b : Test(t, op, b) => Op(t).op = op
  BY DEF Test, At
<1>2. Tests(t) => Op(t).op \in {"test_no_id", "test_info", "test_peer", "test_connected"}
  BY <1>1 DEF Tests
<1>3. Loads(t) => Op(t).op \in {"load_port", "load_port_100", "load_kind", "load_ip", "load_peer_port"}
  BY DEF Loads, At
<1>4. /\ StoreField(t) => Op(t).op = "store"
      /\ NewInfo(t) => Op(t).op = "new_info"
      /\ StoreInfo(t) => Op(t).op = "store_info"
      /\ StorePort(t) => Op(t).op = "store_port"
      /\ Request(t) => Op(t).op = "request"
      /\ SendToPeer(t) => Op(t).op = "send"
  BY DEF StoreField, NewInfo, StoreInfo, StorePort, Request, SendToPeer, At
<1>5. ASSUME Op(t).op \in {"test_no_id", "test_info", "test_peer", "test_connected"}  PROVE Tests(t)
  BY <1>2, <1>3, <1>4, <1>5 DEF Step
<1>6. ASSUME Op(t).op \in {"load_port", "load_port_100", "load_kind", "load_ip", "load_peer_port"}
      PROVE  Loads(t)
  BY <1>2, <1>3, <1>4, <1>6 DEF Step
<1>7. /\ Op(t).op = "test_no_id" => Test(t, "test_no_id", my_ID = 0)
      /\ Op(t).op = "test_info" => Test(t, "test_info", peer_info # None)
      /\ Op(t).op = "test_peer" => Test(t, "test_peer", peer_ID = reg[t].to)
      /\ Op(t).op = "test_connected" => Test(t, "test_connected", connected)
  BY <1>1, <1>5 DEF Tests
<1>8. /\ Op(t).op = "load_port" => Load(t, "port", my_port)
      /\ Op(t).op = "load_port_100" => \E v : Load(t, "port", v)
      /\ Op(t).op = "load_kind" => Load(t, "side", Side(peer_session_kind))
      /\ Op(t).op = "load_ip" => Load(t, "ip", peer_info[<<reg[t].side, "ip">>])
      /\ Op(t).op = "load_peer_port" => Load(t, "peer_port", peer_info[<<reg[t].side, "port">>])
  BY <1>6 DEF Loads, At
<1>9. /\ Op(t).op = "store" => StoreField(t)
      /\ Op(t).op = "new_info" => NewInfo(t)
      /\ Op(t).op = "store_info" => StoreInfo(t)
      /\ Op(t).op = "store_port" => StorePort(t)
      /\ Op(t).op = "request" => Request(t)
      /\ Op(t).op = "send" => SendToPeer(t)
  BY <1>2, <1>3, <1>4 DEF Step
<1> QED
  BY <1>7, <1>8, <1>9

LEMMA AskingSteps ==
  ASSUME NEW t \in Thread, Step(t)
  PROVE  /\ Op(t) = test =>
              UNCHANGED Own /\ IF my_ID = 0 THEN Done(t) ELSE Continue(t, <<>>, Locals)
         /\ Op(t) = store => my_port' = reg[t].port /\ UNCHANGED <<my_ID, asked>> /\ Done(t)
         /\ Op(t) = request =>
              asked' = asked \cup {reg[t].port} /\ UNCHANGED <<my_ID, my_port>> /\ Done(t)
         /\ Op(t) = load =>
              UNCHANGED Own /\ Continue(t, Tail(todo[t]), [reg[t] EXCEPT !["port"] = my_port])
         /\ Op(t) = load_100 =>
              /\ UNCHANGED Own
              /\ \E v : Continue(t, Tail(todo[t]), [reg[t] EXCEPT !["port"] = v])
         /\ Op(t) = learn => my_ID' = MyId /\ UNCHANGED <<my_port, asked>> /\ Done(t)
<1>1. ASSUME Op(t) = test
      PROVE  UNCHANGED Own /\ IF my_ID = 0 THEN Done(t) ELSE Continue(t, <<>>, Locals)
  <2>1. Test(t, "test_no_id", my_ID = 0)
    BY <1>1, PlainOps, StepOf
  <2> QED
    BY <2>1 DEF Test, Own, fields
<1>2. ASSUME Op(t) = store
      PROVE  my_port' = reg[t].port /\ UNCHANGED <<my_ID, asked>> /\ Done(t)
  <2>1. StorePort(t)
    BY <1>2, PlainOps, StepOf
  <2> QED
    BY <2>1 DEF StorePort
<1>3. ASSUME Op(t) = request
      PROVE  asked' = asked \cup {reg[t].port} /\ UNCHANGED <<my_ID, my_port>> /\ Done(t)
  <2>1. Request(t)
    BY <1>3, PlainOps, StepOf
  <2> QED
    BY <2>1 DEF Request, fields
<1>4. ASSUME Op(t) = load
      PROVE  UNCHANGED Own /\ Continue(t, Tail(todo[t]), [reg[t] EXCEPT !["port"] = my_port])
  <2>1. Load(t, "port", my_port)
    BY <1>4, PlainOps, StepOf
  <2> QED
    BY <2>1 DEF Load, Own, fields
<1>5. ASSUME Op(t) = load_100
      PROVE  /\ UNCHANGED Own
             /\ \E v : Continue(t, Tail(todo[t]), [reg[t] EXCEPT !["port"] = v])
  <2>1. \E v : Load(t, "port", v)
    BY <1>5, PlainOps, StepOf
  <2> QED
    BY <2>1 DEF Load, Own, fields
<1>6. ASSUME Op(t) = learn
      PROVE  my_ID' = MyId /\ UNCHANGED <<my_port, asked>> /\ Done(t)
  <2>1. learn.op = "store" /\ learn.field = "my_ID" /\ learn.value = MyId
    BY DEF learn
  <2>2. StoreField(t)
    BY <1>6, <2>1, StepOf
  <2> QED
    BY <1>6, <2>1, <2>2 DEF StoreField
<1> QED
  BY <1>1, <1>2, <1>3, <1>4, <1>5, <1>6

-----------------------------------------------------------------------------
(* Every action. *)

OfPeer(p) == p.type \in {"ip", "ping", "pong"}

LEMMA Loud ==
  /\ ~AllQuiet(<<request>>) /\ ~AllQuiet(<<store, request>>) /\ ~AllQuiet(<<test, store, request>>)
  /\ ~AllQuiet(<<load, test, store, request>>) /\ ~AllQuiet(<<store, load, test, store, request>>)
  /\ ~AllQuiet(<<load_100, store, load, test, store, request>>) /\ ~AllQuiet(<<learn>>)
<1>1. Key(request) \in PortKeys /\ Key(learn) \in PortKeys
  BY PlainOps DEF Key, PortKeys, learn
<1> DEFINE Ends(s, n) == Len(s) = n /\ s[n] \in {request, learn}
<1>2. ASSUME NEW s, NEW n \in Nat \ {0}, Ends(s, n)  PROVE ~AllQuiet(s)
  BY <1>1, <1>2 DEF AllQuiet, Avoids
<1>3. Ends(<<request>>, 1) /\ Ends(<<store, request>>, 2) /\ Ends(<<test, store, request>>, 3)
      /\ Ends(<<load, test, store, request>>, 4) /\ Ends(<<store, load, test, store, request>>, 5)
      /\ Ends(<<load_100, store, load, test, store, request>>, 6) /\ Ends(<<learn>>, 1)
  OBVIOUS
<1> HIDE DEF Ends
<1> QED
  BY <1>2, <1>3

\* Packets of peers and quiet lists are nothing to the request.
LEMMA SamePhase ==
  ASSUME Phase, UNCHANGED <<my_ID, my_port, asked, registered, tried>>,
         NEW p, OfPeer(p), arrived' \in {arrived, arrived \cup {p}, arrived \ {p}},
         \A t \in Thread : \/ todo'[t] = todo[t] /\ reg'[t].port = reg[t].port
                           \/ Calm(t) /\ Calm(t)'
  PROVE  Phase'
<1>1. p # drop /\ p # answer
  BY DEF OfPeer, drop, answer, IdPacket
<1>2. /\ OfPeers(arrived) => OfPeers(arrived')
      /\ OfPeers(arrived \ {drop}) => OfPeers(arrived' \ {drop})
      /\ OfPeers(arrived \ {answer}) => OfPeers(arrived' \ {answer})
      /\ drop \in arrived => drop \in arrived'
      /\ answer \in arrived => answer \in arrived'
  BY <1>1 DEF OfPeers, OfPeer
<1>3. \A t \in Thread : Calm(t) => Calm(t)'
  BY DEF Calm
<1>4. "main" \in Thread /\ "console" \in Thread
  BY DEF Thread
<1>5. ASSUME NEW t \in Thread, ~Calm(t)  PROVE todo'[t] = todo[t] /\ reg'[t].port = reg[t].port
  BY <1>5
<1>6. /\ Fresh => Fresh'
      /\ Requested => Requested'
      /\ Refused => Refused'
  BY <1>2, <1>3, <1>4 DEF Fresh, Requested, Refused, NoId
<1>7. Asking => Asking'
  BY <1>2, <1>3, <1>4, <1>5, Loud DEF Asking, NoId, Calm
<1>8. Retrying => Retrying'
  BY <1>2, <1>3, <1>4, <1>5, Loud DEF Retrying, NoId, Calm
<1>9. Answered => Answered'
  BY <1>2, <1>3, <1>4, <1>5, Loud DEF Answered, Calm
<1>10. Known => Known'
  BY <1>2, <1>3, <1>4, <1>5, Loud DEF Known, Calm
<1> QED
  BY <1>6, <1>7, <1>8, <1>9, <1>10 DEF Phase

LEMMA AnswerPhase ==
  ASSUME Typed, Phase, ~muddled, NEW port \in asked, Answer(port)
  PROVE  Typed' /\ Phase'
<1>1. UNCHANGED <<my_ID, my_port, todo, reg, tried>> /\ asked' = asked \ {port}
  BY DEF Answer, fields, threads, bounds
<1>2. Requested /\ port = my_port
  BY DEF Phase, Fresh, Asking, Requested, Refused, Retrying, Answered, Known
<1>3. CASE arrived' = arrived \cup {drop} /\ UNCHANGED registered
  <2>1. Refused'
    BY <1>1, <1>2, <1>3 DEF Requested, Refused, NoId, OfPeers, Calm
  <2> QED
    BY <1>1, <2>1 DEF Typed, Phase
<1>4. CASE arrived' = arrived \cup {answer} /\ registered' = port
  <2>1. Answered'
    BY <1>1, <1>2, <1>4 DEF Requested, Answered, NoId, OfPeers, Calm
  <2> QED
    BY <1>1, <2>1 DEF Typed, Phase
<1>5. registered = 0
  BY <1>2 DEF Requested, NoId
<1> QED
  BY <1>3, <1>4, <1>5 DEF Answer, drop, answer

LEMMA FramePhase ==
  ASSUME Typed, Phase, NEW p \in arrived, ProcessFrame(p)
  PROVE  Typed' /\ Phase'
<1>1. /\ UNCHANGED <<my_ID, my_port, asked, registered, tried>> /\ arrived' = arrived \ {p}
      /\ todo["main"] = <<>> /\ todo' = [todo EXCEPT !["main"] = Handler(p)]
      /\ \/ reg' = reg
         \/ reg' = [reg EXCEPT !["console"].during = @ \cup {p.type}]
  BY DEF ProcessFrame, fields, bounds
<1>2. Typed' /\ \A t \in Thread : reg'[t].port = reg[t].port
  BY <1>1 DEF Typed, IsReg, Thread
<1>3. todo'["main"] = Handler(p) /\ todo'["console"] = todo["console"]
  BY <1>1 DEF Typed, Thread
<1>4. Calm("main")
  BY <1>1, QuietNone DEF Calm
<1>5. CASE OfPeer(p)
  <2>1. AllQuiet(Handler(p))
    BY <1>5, SessionsQuiet DEF Handler, OfPeer
  <2> QED
    BY <1>1, <1>2, <1>3, <1>4, <1>5, <2>1, SamePhase DEF Calm, Thread
<1>6. CASE ~OfPeer(p)
  <2>1. (Refused /\ p = drop) \/ (Answered /\ p = answer /\ Calm("main"))
    <3>1. ~OfPeers(arrived)
      BY <1>6 DEF OfPeers, OfPeer
    <3>2. Refused \/ Answered
      BY <3>1 DEF Phase, Fresh, Asking, Requested, Retrying, Known
    <3>3. Answered => OfPeers(arrived \ {answer})
      BY <3>1 DEF Answered
    <3>4. Refused => OfPeers(arrived \ {drop})
      BY DEF Refused
    <3> QED
      BY <1>4, <1>6, <3>2, <3>3, <3>4 DEF OfPeers, OfPeer
  <2>2. CASE Refused /\ p = drop
    <3>1. Handler(p) = <<load_100, store, load, test, store, request>>
      BY <2>2, AskingLists DEF Handler, drop
    <3>2. Retrying'
      BY <1>1, <1>3, <2>2, <3>1 DEF Refused, Retrying, NoId, Calm
    <3> QED
      BY <1>2, <3>2 DEF Phase
  <2>3. CASE Answered /\ p = answer /\ Calm("main")
    <3>1. Handler(p) = <<learn>>
      BY <2>3, AskingLists DEF Handler, answer, IdPacket
    <3>2. OfPeers(arrived \ {answer})
      BY <1>1, <2>3 DEF Answered
    <3>3. Answered'
      BY <1>1, <1>3, <2>3, <3>1, <3>2 DEF Answered, Calm
    <3> QED
      BY <1>2, <3>3 DEF Phase
  <2> QED
    BY <2>1, <2>2, <2>3
<1> QED
  BY <1>5, <1>6

LEMMA TypePhase ==
  ASSUME Typed, Phase, ~muddled',
         (\E port \in Port : TypeConnect(port)) \/ (\E id \in Peer : TypeSession(id))
  PROVE  Typed' /\ Phase'
<1>1. /\ UNCHANGED <<my_ID, my_port, asked, arrived, registered>>
      /\ todo["console"] = <<>> /\ todo' = [todo EXCEPT !["console"] = todo'["console"]]
      /\ \E r : IsReg(r) /\ reg' = [reg EXCEPT !["console"] = r]
  <2>1. \A id, side : IsReg(Command(id, side))
    BY DEF Command, Locals, IsReg
  <2>2. \A port : IsReg([Locals EXCEPT !.port = port])
    BY DEF Locals, IsReg
  <2>3. "console" \in DOMAIN todo
    BY DEF Typed, Thread
  <2> QED
    BY <2>1, <2>2, <2>3 DEF TypeConnect, TypeSession, fields, network
<1>2. Typed' /\ todo'["main"] = todo["main"] /\ reg'["main"] = reg["main"]
  BY <1>1 DEF Typed, Thread
<1>3. Calm("console") /\ ~Asking
  BY <1>1, QuietNone, Loud DEF Calm, Asking
<1>4. CASE \E id \in Peer : TypeSession(id)
  <2>1. Calm("console")' /\ UNCHANGED tried
    BY <1>4, SessionsQuiet DEF TypeSession, Calm, Typed, Thread
  <2>2. OfPeer([type |-> "ip"])
    BY DEF OfPeer
  <2> QED
    BY <1>1, <1>2, <1>3, <2>1, <2>2, SamePhase DEF Thread
<1>5. CASE \E port \in Port : TypeConnect(port)
  <2>1. todo'["console"] = <<test, store, request>> /\ tried' /\ (my_ID # 0 \/ ~tried)
    BY <1>5, AskingLists DEF TypeConnect, Typed, Thread
  <2>2. Known \/ Fresh
    BY <2>1, <1>3 DEF Phase, Requested, Refused, Retrying, Answered, NoId
  <2>3. Known => Known'
    BY <1>1, <1>2, <2>1 DEF Known, Calm
  <2>4. Fresh => Asking'
    BY <1>1, <1>2, <2>1 DEF Fresh, Asking, NoId, Calm
  <2> QED
    BY <1>2, <2>2, <2>3, <2>4 DEF Phase
<1> QED
  BY <1>4, <1>5

\* A thread whose list is quiet takes a step.
LEMMA QuietStepPhase ==
  ASSUME Typed, Phase, NEW t \in Thread, Calm(t), Step(t)
  PROVE  Typed' /\ Phase'
<1>1. OfPeer([type |-> "ip"])
  BY DEF OfPeer
<1> QED
  BY <1>1, QuietStep, SamePhase DEF Elsewhere, Own

LEMMA Tails ==
  ASSUME NEW a, NEW b, NEW c, NEW d, NEW e, NEW f
  PROVE  /\ Head(<<a>>) = a /\ Tail(<<a>>) = <<>> /\ <<a>> # <<>>
         /\ Head(<<a, b>>) = a /\ Tail(<<a, b>>) = <<b>>
         /\ Head(<<a, b, c>>) = a /\ Tail(<<a, b, c>>) = <<b, c>>
         /\ Head(<<a, b, c, d>>) = a /\ Tail(<<a, b, c, d>>) = <<b, c, d>>
         /\ Head(<<a, b, c, d, e>>) = a /\ Tail(<<a, b, c, d, e>>) = <<b, c, d, e>>
         /\ Head(<<a, b, c, d, e, f>>) = a /\ Tail(<<a, b, c, d, e, f>>) = <<b, c, d, e, f>>
OBVIOUS

\* The console asks for an id.
LEMMA ConsoleStepPhase ==
  ASSUME Typed, Phase, ~Calm("console"), Step("console")
  PROVE  Typed' /\ Phase'
<1> DEFINE C == todo["console"]
<1>0. "console" \in Thread /\ "main" \in Thread /\ IsReg(reg["console"]) /\ IsReg(Locals)
  BY DEF Typed, Thread, IsReg, Locals
<1>1. C = <<test, store, request>> \/ C = <<store, request>> \/ C = <<request>>
  BY DEF Phase, Fresh, Asking, Requested, Refused, Retrying, Answered, Known
<1>2. Asking \/ (Known /\ C = <<test, store, request>>)
  BY DEF Phase, Fresh, Asking, Requested, Refused, Retrying, Answered, Known
<1>3. ASSUME NEW rest, NEW locals, IsReg(locals), Continue("console", rest, locals)
      PROVE  /\ Typed' /\ UNCHANGED Elsewhere
             /\ todo'["console"] = rest /\ (rest # <<>> => reg'["console"] = locals)
             /\ todo'["main"] = todo["main"]
  BY <1>0, <1>3, Continued
<1>4. CASE C = <<test, store, request>>
  <2>1. Op("console") = test /\ Tail(C) = <<store, request>>
    BY <1>4, Tails DEF Op
  <2>2. UNCHANGED Own /\ IF my_ID = 0 THEN Done("console") ELSE Continue("console", <<>>, Locals)
    BY <1>0, <2>1, AskingSteps
  <2>3. CASE Asking
    <3>1. Done("console")
      BY <2>2, <2>3 DEF Asking, NoId
    <3>2. Typed' /\ UNCHANGED Elsewhere /\ todo'["console"] = <<store, request>>
          /\ todo'["main"] = todo["main"]
      BY <1>0, <1>3, <2>1, <3>1 DEF Done
    <3>3. Asking'
      BY <2>2, <2>3, <3>2 DEF Asking, NoId, Elsewhere, Own, Calm
    <3> QED
      BY <3>2, <3>3 DEF Phase
  <2>4. CASE Known
    <3>1. Continue("console", <<>>, Locals)
      BY <2>2, <2>4 DEF Known
    <3>2. Typed' /\ UNCHANGED Elsewhere /\ todo'["console"] = <<>>
          /\ todo'["main"] = todo["main"]
      BY <1>0, <1>3, <3>1
    <3>3. Known'
      BY <2>2, <2>4, <3>2, QuietNone DEF Known, Elsewhere, Own, Calm
    <3> QED
      BY <3>2, <3>3 DEF Phase
  <2> QED
    BY <1>2, <2>3, <2>4
<1>5. CASE C = <<store, request>>
  <2>1. Op("console") = store /\ Tail(C) = <<request>>
    BY <1>5, Tails DEF Op
  <2>2. my_port' = reg["console"].port /\ UNCHANGED <<my_ID, asked>> /\ Done("console")
    BY <1>0, <2>1, AskingSteps
  <2>3. /\ Typed' /\ UNCHANGED Elsewhere /\ todo'["console"] = <<request>>
        /\ todo'["main"] = todo["main"] /\ reg'["console"] = reg["console"]
    <3>1. <<request>> # <<>>
      BY Tails
    <3> QED
      BY <1>0, <1>3, <2>1, <2>2, <3>1 DEF Done
  <2>4. Asking
    <3>1. Len(<<store, request>>) = 2 /\ Len(<<test, store, request>>) = 3
      OBVIOUS
    <3> QED
      BY <1>2, <1>5, <3>1
  <2>5. Asking'
    BY <2>2, <2>3, <2>4 DEF Asking, NoId, Elsewhere, Calm
  <2> QED
    BY <2>3, <2>5 DEF Phase
<1>6. CASE C = <<request>>
  <2>1. Op("console") = request /\ Tail(C) = <<>>
    BY <1>6, Tails DEF Op
  <2>2. asked' = asked \cup {reg["console"].port} /\ UNCHANGED <<my_ID, my_port>> /\ Done("console")
    BY <1>0, <2>1, AskingSteps
  <2>3. /\ Typed' /\ UNCHANGED Elsewhere /\ todo'["console"] = <<>>
        /\ todo'["main"] = todo["main"]
    BY <1>0, <1>3, <2>1, <2>2 DEF Done
  <2>4. Asking /\ my_port = reg["console"].port
    BY <1>2, <1>6 DEF Asking
  <2>5. Requested'
    BY <2>2, <2>3, <2>4, QuietNone DEF Asking, Requested, NoId, Elsewhere, Calm
  <2> QED
    BY <2>3, <2>5 DEF Phase
<1> QED
  BY <1>1, <1>4, <1>5, <1>6

\* receive_drop_packet asks again.
LEMMA MainStepPhase ==
  ASSUME Typed, Phase, ~Calm("main"), Step("main")
  PROVE  Typed' /\ Phase'
<1> DEFINE M == todo["main"]
<1>0. "console" \in Thread /\ "main" \in Thread /\ IsReg(reg["main"])
  BY DEF Typed, Thread
<1>1. Retrying \/ (Answered /\ M = <<learn>> /\ OfPeers(arrived))
  BY DEF Phase, Fresh, Asking, Requested, Refused, Answered, Known
<1>2. ASSUME NEW rest, NEW locals, IsReg(locals), Continue("main", rest, locals)
      PROVE  /\ Typed' /\ UNCHANGED Elsewhere
             /\ todo'["main"] = rest /\ (rest # <<>> => reg'["main"] = locals)
             /\ todo'["console"] = todo["console"]
  BY <1>0, <1>2, Continued
<1>3. CASE Answered /\ M = <<learn>> /\ OfPeers(arrived)
  <2>1. Op("main") = learn /\ Tail(M) = <<>>
    BY <1>3, Tails DEF Op
  <2>2. my_ID' = MyId /\ UNCHANGED <<my_port, asked>> /\ Done("main")
    BY <1>0, <2>1, AskingSteps
  <2>3. /\ Typed' /\ UNCHANGED Elsewhere /\ todo'["main"] = <<>>
        /\ todo'["console"] = todo["console"]
    BY <1>0, <1>2, <2>1, <2>2 DEF Done
  <2>4. Known'
    BY <1>3, <2>2, <2>3, QuietNone, IdsAssumption
    DEF Answered, Known, Elsewhere, Calm
  <2> QED
    BY <2>3, <2>4 DEF Phase
<1>4. CASE Retrying /\ M = <<load_100, store, load, test, store, request>>
  <2>1. Op("main") = load_100 /\ Tail(M) = <<store, load, test, store, request>>
    BY <1>4, Tails DEF Op
  <2>2. /\ UNCHANGED Own
        /\ \E v : Continue("main", Tail(M), [reg["main"] EXCEPT !["port"] = v])
    BY <1>0, <2>1, AskingSteps
  <2>3. /\ Typed' /\ UNCHANGED Elsewhere /\ todo'["console"] = todo["console"]
        /\ todo'["main"] = <<store, load, test, store, request>>
    BY <1>0, <1>2, <2>1, <2>2, LoadedReg
  <2>4. Retrying'
    BY <1>4, <2>2, <2>3 DEF Retrying, NoId, Elsewhere, Own, Calm
  <2> QED
    BY <2>3, <2>4 DEF Phase
<1>5. CASE Retrying /\ M = <<store, load, test, store, request>>
  <2>1. Op("main") = store /\ Tail(M) = <<load, test, store, request>>
    BY <1>5, Tails DEF Op
  <2>2. UNCHANGED <<my_ID, asked>> /\ Done("main")
    BY <1>0, <2>1, AskingSteps
  <2>3. /\ Typed' /\ UNCHANGED Elsewhere /\ todo'["console"] = todo["console"]
        /\ todo'["main"] = <<load, test, store, request>>
    BY <1>0, <1>2, <2>1, <2>2 DEF Done
  <2>4. Retrying'
    BY <1>5, <2>2, <2>3 DEF Retrying, NoId, Elsewhere, Calm
  <2> QED
    BY <2>3, <2>4 DEF Phase
<1>6. CASE Retrying /\ M = <<load, test, store, request>>
  <2>1. Op("main") = load /\ Tail(M) = <<test, store, request>>
    BY <1>6, Tails DEF Op
  <2>2. UNCHANGED Own /\ Continue("main", Tail(M), [reg["main"] EXCEPT !["port"] = my_port])
    BY <1>0, <2>1, AskingSteps
  <2>3. /\ Typed' /\ UNCHANGED Elsewhere /\ todo'["console"] = todo["console"]
        /\ todo'["main"] = <<test, store, request>>
    BY <1>0, <1>2, <2>1, <2>2, LoadedReg
  <2>4. Retrying'
    BY <1>6, <2>2, <2>3 DEF Retrying, NoId, Elsewhere, Own, Calm
  <2> QED
    BY <2>3, <2>4 DEF Phase
<1>7. CASE Retrying /\ M = <<test, store, request>>
  <2>1. Op("main") = test /\ Tail(M) = <<store, request>> /\ my_ID = 0
    BY <1>7, Tails DEF Op, Retrying, NoId
  <2>2. UNCHANGED Own /\ Done("main")
    BY <1>0, <2>1, AskingSteps
  <2>3. /\ Typed' /\ UNCHANGED Elsewhere /\ todo'["console"] = todo["console"]
        /\ todo'["main"] = <<store, request>>
    BY <1>0, <1>2, <2>1, <2>2 DEF Done
  <2>4. Retrying'
    BY <1>7, <2>2, <2>3 DEF Retrying, NoId, Elsewhere, Own, Calm
  <2> QED
    BY <2>3, <2>4 DEF Phase
<1>8. CASE Retrying /\ M = <<store, request>>
  <2>1. Op("main") = store /\ Tail(M) = <<request>>
    BY <1>8, Tails DEF Op
  <2>2. my_port' = reg["main"].port /\ UNCHANGED <<my_ID, asked>> /\ Done("main")
    BY <1>0, <2>1, AskingSteps
  <2>3. /\ Typed' /\ UNCHANGED Elsewhere /\ todo'["console"] = todo["console"]
        /\ todo'["main"] = <<request>> /\ reg'["main"] = reg["main"]
    <3>1. <<request>> # <<>>
      BY Tails
    <3> QED
      BY <1>0, <1>2, <2>1, <2>2, <3>1 DEF Done
  <2>4. Retrying'
    BY <1>8, <2>2, <2>3 DEF Retrying, NoId, Elsewhere, Calm
  <2> QED
    BY <2>3, <2>4 DEF Phase
<1>9. CASE Retrying /\ M = <<request>> /\ my_port = reg["main"].port
  <2>1. Op("main") = request /\ Tail(M) = <<>>
    BY <1>9, Tails DEF Op
  <2>2. asked' = asked \cup {reg["main"].port} /\ UNCHANGED <<my_ID, my_port>> /\ Done("main")
    BY <1>0, <2>1, AskingSteps
  <2>3. /\ Typed' /\ UNCHANGED Elsewhere /\ todo'["console"] = todo["console"]
        /\ todo'["main"] = <<>>
    BY <1>0, <1>2, <2>1, <2>2 DEF Done
  <2>4. Requested'
    BY <1>9, <2>2, <2>3, QuietNone DEF Retrying, Requested, NoId, Elsewhere, Calm
  <2> QED
    BY <2>3, <2>4 DEF Phase
<1>10. Retrying =>
         \/ M = <<load_100, store, load, test, store, request>>
         \/ M = <<store, load, test, store, request>> \/ M = <<load, test, store, request>>
         \/ M = <<test, store, request>> \/ M = <<store, request>>
         \/ M = <<request>> /\ my_port = reg["main"].port
  BY DEF Retrying
<1> QED
  BY <1>1, <1>3, <1>4, <1>5, <1>6, <1>7, <1>8, <1>9, <1>10

-----------------------------------------------------------------------------

LEMMA InitThreads == Init => ThreadInv
<1> SUFFICES ASSUME Init  PROVE Typed /\ Fresh
  BY DEF ThreadInv, Phase
<1>1. Typed
  BY DEF Init, Typed, IsReg, Locals
<1>2. Fresh
  BY QuietNone DEF Init, Fresh, NoId, OfPeers, Calm, Thread
<1> QED
  BY <1>1, <1>2

LEMMA NextThreads == ThreadInv /\ [Next]_vars => ThreadInv'
<1> SUFFICES ASSUME ThreadInv, [Next]_vars, ~muddled'  PROVE Typed' /\ Phase'
  BY DEF ThreadInv
<1>1. CASE UNCHANGED vars
  BY <1>1 DEF vars, fields, threads, network, bounds, ThreadInv, Typed, Phase, Fresh, Asking,
       Requested, Refused, Retrying, Answered, Known, NoId, Calm
<1>2. CASE \E port \in asked : Answer(port)
  <2>1. ~muddled
    BY <1>2 DEF Answer
  <2> QED
    BY <1>2, <2>1, AnswerPhase DEF ThreadInv
<1>3. CASE \E p \in PeerPacket : Arrive(p)
  <2>1. PICK p \in PeerPacket : Arrive(p)
    BY <1>3
  <2>2. OfPeer(p)
    BY DEF PeerPacket, OfPeer
  <2>3. /\ UNCHANGED <<my_ID, my_port, asked, registered, tried, todo, reg, muddled>>
        /\ arrived' = arrived \cup {p}
    BY <2>1 DEF Arrive, fields, threads
  <2>4. Typed /\ Phase
    BY <2>3 DEF ThreadInv
  <2> QED
    BY <2>2, <2>3, <2>4, SamePhase DEF Typed
<1>4. CASE BlockLate
  BY <1>4 DEF BlockLate
<1>5. CASE \E p \in arrived : ProcessFrame(p)
  <2>1. ~muddled
    BY <1>5 DEF ProcessFrame
  <2> QED
    BY <1>5, <2>1, FramePhase DEF ThreadInv
<1>6. CASE (\E port \in Port : TypeConnect(port)) \/ (\E id \in Peer : TypeSession(id))
  <2>1. ~muddled
    BY <1>6 DEF TypeConnect, TypeSession
  <2> QED
    BY <1>6, <2>1, TypePhase DEF ThreadInv
<1>7. CASE \E t \in Thread : Step(t)
  <2>1. PICK t \in Thread : Step(t)
    BY <1>7
  <2>2. ASSUME muddled  PROVE FALSE
    <3>1. UNCHANGED muddled
      <4>1. \A rest, locals : Continue(t, rest, locals) => UNCHANGED muddled
        BY DEF Continue, Others
      <4>2. Done(t) => UNCHANGED muddled
        BY <4>1 DEF Done
      <4>3. Tests(t) => UNCHANGED muddled
        BY <4>1, <4>2 DEF Tests, Test
      <4>4. Loads(t) => UNCHANGED muddled
        BY <4>1 DEF Loads, Load
      <4>5. StoreField(t) \/ NewInfo(t) \/ StoreInfo(t) \/ StorePort(t) => UNCHANGED muddled
        BY <4>2 DEF StoreField, NewInfo, StoreInfo, StorePort
      <4>6. Request(t) \/ SendToPeer(t) => UNCHANGED muddled
        BY <4>2 DEF Request, SendToPeer
      <4> QED
        BY <2>1, <4>3, <4>4, <4>5, <4>6 DEF Step
    <3> QED
      BY <2>2, <3>1
  <2>3. Typed /\ Phase
    BY <2>2 DEF ThreadInv
  <2>4. CASE Calm(t)
    BY <2>1, <2>3, <2>4, QuietStepPhase
  <2>5. CASE ~Calm(t)
    BY <2>1, <2>3, <2>5, ConsoleStepPhase, MainStepPhase DEF Thread
  <2> QED
    BY <2>4, <2>5
<1> QED
  BY <1>1, <1>2, <1>3, <1>4, <1>5, <1>6, <1>7 DEF Next

\* A client that has an id speaks from the port the server knows it by, over any
\* number of refused ports and whatever steps of the two threads mix
\* (make_connection, receive_drop_packet, response_id).
THEOREM SpeaksAsRegisteredHolds == FairSpec => []SpeaksAsRegistered
<1>1. ThreadInv => SpeaksAsRegistered
  BY DEF ThreadInv, SpeaksAsRegistered, Phase, Fresh, Asking, Requested, Refused, Retrying,
     Answered, Known, NoId
<1> QED
  BY <1>1, InitThreads, NextThreads, PTL DEF FairSpec

-----------------------------------------------------------------------------
(* The other property: where the packets to a peer go.  The lists of the    *)
(* handlers and commands that are about the peer.                           *)

test_info == Plain("test_info")
test_peer == Plain("test_peer")
test_connected == Plain("test_connected")
load_kind == Plain("load_kind")
load_ip == Plain("load_ip")
load_peer_port == Plain("load_peer_port")
send == Plain("send")
new_info == Plain("new_info")
StoreOp(field, value) == [op |-> "store", field |-> field, value |-> value]
PutOp(side, part, value) == [op |-> "store_info", field |-> <<side, part>>, value |-> value]

LEMMA PeerLists ==
  /\ \A kind : MakeSession(kind) =
       <<test_info, test_peer, StoreOp("kind", kind), load_ip, load_peer_port, send>>
  /\ SendMessage =
       <<test_peer, test_connected, test_info, load_kind, load_ip, load_kind, load_peer_port, send>>
  /\ \A id : ResponseIp(id) =
       IF peer_info = None
       THEN <<new_info, PutOp("local", "ip", <<id, "local">>), PutOp("local", "port", <<id, "local">>),
              PutOp("public", "ip", <<id, "public">>), PutOp("public", "port", <<id, "public">>),
              StoreOp("peer_ID", id), StoreOp("connected", FALSE)>>
       ELSE <<PutOp("local", "ip", <<id, "local">>), PutOp("local", "port", <<id, "local">>),
              PutOp("public", "ip", <<id, "public">>), PutOp("public", "port", <<id, "public">>),
              StoreOp("peer_ID", id), StoreOp("connected", FALSE)>>
  /\ \A id, src, kind : RequestSession(id, src, kind) =
       IF Connected(id) THEN <<>>
       ELSE <<StoreOp("peer_ID", id), StoreOp("connected", TRUE), StoreOp("kind", kind), new_info,
              PutOp("local", "ip", src), PutOp("public", "ip", src),
              PutOp("public", "port", src), PutOp("local", "port", src)>>
<1>1. /\ \A op : Do(op) = <<Plain(op)>>
      /\ \A field, v : Store(field, v) = <<StoreOp(field, v)>>
      /\ \A side, part, v : Put(side, part, v) = <<PutOp(side, part, v)>>
  BY DEF Do, Plain, Store, StoreOp, Put, PutOp
<1>2. ASSUME NEW kind
      PROVE  MakeSession(kind) =
               <<test_info, test_peer, StoreOp("kind", kind), load_ip, load_peer_port, send>>
  <2>1. MakeSession(kind) =
          <<test_info>> \o <<test_peer>> \o <<StoreOp("kind", kind)>> \o <<load_ip>>
          \o <<load_peer_port>> \o <<send>>
    BY <1>1 DEF MakeSession, test_info, test_peer, load_ip, load_peer_port, send
  <2>2. <<test_info>> \o <<test_peer>> \o <<StoreOp("kind", kind)>> \o <<load_ip>>
       \o <<load_peer_port>> \o <<send>> =
          <<test_info, test_peer, StoreOp("kind", kind), load_ip, load_peer_port, send>>
    <3>1. <<test_info>> \o <<test_peer>> = <<test_info, test_peer>>
      BY Concats
    <3>2. <<test_info, test_peer>> \o <<StoreOp("kind", kind)>> =
          <<test_info, test_peer, StoreOp("kind", kind)>>
      BY Concats
    <3>3. <<test_info, test_peer, StoreOp("kind", kind)>> \o <<load_ip>> =
          <<test_info, test_peer, StoreOp("kind", kind), load_ip>>
      BY Concats
    <3>4. <<test_info, test_peer, StoreOp("kind", kind), load_ip>> \o <<load_peer_port>> =
          <<test_info, test_peer, StoreOp("kind", kind), load_ip, load_peer_port>>
      BY Concats
    <3>5. <<test_info, test_peer, StoreOp("kind", kind), load_ip, load_peer_port>> \o <<send>> =
          <<test_info, test_peer, StoreOp("kind", kind), load_ip, load_peer_port, send>>
      BY Concats
    <3> QED
      BY <3>1, <3>2, <3>3, <3>4, <3>5
  <2> QED
    BY <2>1, <2>2
<1>3. SendMessage =
        <<test_peer, test_connected, test_info, load_kind, load_ip, load_kind, load_peer_port, send>>
  <2>1. SendMessage =
          <<test_peer>> \o <<test_connected>> \o <<test_info>> \o <<load_kind>> \o <<load_ip>>
          \o <<load_kind>> \o <<load_peer_port>> \o <<send>>
    <3>1. SendMessage =
            Do("test_peer") \o Do("test_connected") \o Do("test_info") \o Do("load_kind")
            \o Do("load_ip") \o Do("load_kind") \o Do("load_peer_port") \o Do("send")
      BY DEF SendMessage
    <3> QED
      BY <3>1, <1>1 DEF test_info, test_peer, test_connected, load_kind, load_ip,
         load_peer_port, send
  <2>2. <<test_peer>> \o <<test_connected>> \o <<test_info>> \o <<load_kind>> \o <<load_ip>>
       \o <<load_kind>> \o <<load_peer_port>> \o <<send>> =
          <<test_peer, test_connected, test_info, load_kind, load_ip, load_kind, load_peer_port, send>>
    <3>1. <<test_peer>> \o <<test_connected>> = <<test_peer, test_connected>>
      BY Concats
    <3>2. <<test_peer, test_connected>> \o <<test_info>> =
          <<test_peer, test_connected, test_info>>
      BY Concats
    <3>3. <<test_peer, test_connected, test_info>> \o <<load_kind>> =
          <<test_peer, test_connected, test_info, load_kind>>
      BY Concats
    <3>4. <<test_peer, test_connected, test_info, load_kind>> \o <<load_ip>> =
          <<test_peer, test_connected, test_info, load_kind, load_ip>>
      BY Concats
    <3>5. <<test_peer, test_connected, test_info, load_kind, load_ip>> \o <<load_kind>> =
          <<test_peer, test_connected, test_info, load_kind, load_ip, load_kind>>
      BY Concats
    <3>6. <<test_peer, test_connected, test_info, load_kind, load_ip, load_kind>> \o <<load_peer_port>> =
          <<test_peer, test_connected, test_info, load_kind, load_ip, load_kind, load_peer_port>>
      BY Concats
    <3>7. <<test_peer, test_connected, test_info, load_kind, load_ip, load_kind, load_peer_port>> \o <<send>> =
          <<test_peer, test_connected, test_info, load_kind, load_ip, load_kind, load_peer_port, send>>
      BY Concats
    <3> QED
      BY <3>1, <3>2, <3>3, <3>4, <3>5, <3>6, <3>7
  <2> QED
    BY <2>1, <2>2
<1>4. ASSUME NEW id
      PROVE  ResponseIp(id) =
       IF peer_info = None
       THEN <<new_info, PutOp("local", "ip", <<id, "local">>), PutOp("local", "port", <<id, "local">>),
              PutOp("public", "ip", <<id, "public">>), PutOp("public", "port", <<id, "public">>),
              StoreOp("peer_ID", id), StoreOp("connected", FALSE)>>
       ELSE <<PutOp("local", "ip", <<id, "local">>), PutOp("local", "port", <<id, "local">>),
              PutOp("public", "ip", <<id, "public">>), PutOp("public", "port", <<id, "public">>),
              StoreOp("peer_ID", id), StoreOp("connected", FALSE)>>
  <2> DEFINE li == PutOp("local", "ip", <<id, "local">>)
             lp == PutOp("local", "port", <<id, "local">>)
             pi == PutOp("public", "ip", <<id, "public">>)
             pp == PutOp("public", "port", <<id, "public">>)
             be == StoreOp("peer_ID", id)
             off == StoreOp("connected", FALSE)
  <2>1. ResponseIp(id) =
          (IF peer_info = None THEN <<new_info>> ELSE <<>>)
          \o <<li>> \o <<lp>> \o <<pi>> \o <<pp>> \o <<be>> \o <<off>>
    BY <1>1 DEF ResponseIp, new_info
  <2>2. <<>> \o <<li>> = <<li>>
    <3>1. <<li>> \in Seq({li})
      OBVIOUS
    <3> QED
      BY <3>1, ConcatEmptySeq
  <2>3. CASE peer_info = None
    <3>1. ResponseIp(id) =
          <<new_info>> \o <<li>> \o <<lp>> \o <<pi>> \o <<pp>> \o <<be>> \o <<off>>
      BY <2>1, <2>3
    <3>2. ResponseIp(id) = <<new_info, li, lp, pi, pp, be, off>>
      <4> HIDE DEF li, lp, pi, pp, be, off
      <4>1. <<new_info>> \o <<li>> \o <<lp>> \o <<pi>> \o <<pp>> \o <<be>> \o <<off>> =
              <<new_info, li, lp, pi, pp, be, off>>
        <5>1. <<new_info>> \o <<li>> = <<new_info, li>>
          BY Concats
        <5>2. <<new_info, li>> \o <<lp>> = <<new_info, li, lp>>
          BY Concats
        <5>3. <<new_info, li, lp>> \o <<pi>> = <<new_info, li, lp, pi>>
          BY Concats
        <5>4. <<new_info, li, lp, pi>> \o <<pp>> = <<new_info, li, lp, pi, pp>>
          BY Concats
        <5>5. <<new_info, li, lp, pi, pp>> \o <<be>> = <<new_info, li, lp, pi, pp, be>>
          BY Concats
        <5>6. <<new_info, li, lp, pi, pp, be>> \o <<off>> =
              <<new_info, li, lp, pi, pp, be, off>>
          BY Concats
        <5> QED
          BY <5>1, <5>2, <5>3, <5>4, <5>5, <5>6
      <4> QED
        BY <3>1, <4>1
    <3> QED
      BY <2>3, <3>2
  <2>4. CASE peer_info # None
    <3>1. ResponseIp(id) = <<li>> \o <<lp>> \o <<pi>> \o <<pp>> \o <<be>> \o <<off>>
      BY <2>1, <2>2, <2>4
    <3>2. ResponseIp(id) = <<li, lp, pi, pp, be, off>>
      <4> HIDE DEF li, lp, pi, pp, be, off
      <4>1. <<li>> \o <<lp>> \o <<pi>> \o <<pp>> \o <<be>> \o <<off>> =
              <<li, lp, pi, pp, be, off>>
        <5>1. <<li>> \o <<lp>> = <<li, lp>>
          BY Concats
        <5>2. <<li, lp>> \o <<pi>> = <<li, lp, pi>>
          BY Concats
        <5>3. <<li, lp, pi>> \o <<pp>> = <<li, lp, pi, pp>>
          BY Concats
        <5>4. <<li, lp, pi, pp>> \o <<be>> = <<li, lp, pi, pp, be>>
          BY Concats
        <5>5. <<li, lp, pi, pp, be>> \o <<off>> = <<li, lp, pi, pp, be, off>>
          BY Concats
        <5> QED
          BY <5>1, <5>2, <5>3, <5>4, <5>5
      <4> QED
        BY <3>1, <4>1
    <3> QED
      BY <2>4, <3>2
  <2> QED
    BY <2>3, <2>4
<1>5. ASSUME NEW id, NEW src, NEW kind
      PROVE  RequestSession(id, src, kind) =
       IF Connected(id) THEN <<>>
       ELSE <<StoreOp("peer_ID", id), StoreOp("connected", TRUE), StoreOp("kind", kind), new_info,
              PutOp("local", "ip", src), PutOp("public", "ip", src),
              PutOp("public", "port", src), PutOp("local", "port", src)>>
  <2> DEFINE be == StoreOp("peer_ID", id)
             on == StoreOp("connected", TRUE)
             k == StoreOp("kind", kind)
             li == PutOp("local", "ip", src)
             pi == PutOp("public", "ip", src)
             pp == PutOp("public", "port", src)
             lp == PutOp("local", "port", src)
  <2>1. RequestSession(id, src, kind) =
          IF Connected(id) THEN <<>>
          ELSE <<be>> \o <<on>> \o <<k>> \o <<new_info>> \o <<li>> \o <<pi>> \o <<pp>> \o <<lp>>
    BY <1>1 DEF RequestSession, new_info
  <2>2. RequestSession(id, src, kind) =
          IF Connected(id) THEN <<>> ELSE <<be, on, k, new_info, li, pi, pp, lp>>
    <3> HIDE DEF be, on, k, li, pi, pp, lp
    <3>1. <<be>> \o <<on>> \o <<k>> \o <<new_info>> \o <<li>> \o <<pi>> \o <<pp>> \o <<lp>> =
            <<be, on, k, new_info, li, pi, pp, lp>>
      <4>1. <<be>> \o <<on>> = <<be, on>>
        BY Concats
      <4>2. <<be, on>> \o <<k>> = <<be, on, k>>
        BY Concats
      <4>3. <<be, on, k>> \o <<new_info>> = <<be, on, k, new_info>>
        BY Concats
      <4>4. <<be, on, k, new_info>> \o <<li>> = <<be, on, k, new_info, li>>
        BY Concats
      <4>5. <<be, on, k, new_info, li>> \o <<pi>> = <<be, on, k, new_info, li, pi>>
        BY Concats
      <4>6. <<be, on, k, new_info, li, pi>> \o <<pp>> = <<be, on, k, new_info, li, pi, pp>>
        BY Concats
      <4>7. <<be, on, k, new_info, li, pi, pp>> \o <<lp>> =
            <<be, on, k, new_info, li, pi, pp, lp>>
        BY Concats
      <4> QED
        BY <4>1, <4>2, <4>3, <4>4, <4>5, <4>6, <4>7
    <3> QED
      BY <2>1, <3>1
  <2> QED
    BY <2>2
<1> QED
  BY <1>2, <1>3, <1>4, <1>5

-----------------------------------------------------------------------------
(* The second inductive invariant. *)

\* The record is complete, and of peer id.
Consistent(id) ==
  /\ peer_info \in [MetaField -> Address]
  /\ \A side \in {"local", "public"} :
       peer_info[<<side, "ip">>] = peer_info[<<side, "port">>] /\ peer_info[<<side, "ip">>][1] = id
Settled == (peer_info = None /\ peer_ID = 0) \/ Consistent(peer_ID)

\* Half of it may be missing, but not while it belongs to somebody.
Partial ==
  /\ peer_info \in [MetaField -> Address \cup {Junk}]
  /\ peer_ID # 0 => peer_info \in [MetaField -> Address]
Has(side, part, a) == peer_info[<<side, part>>] = a

\* What is left of response_ip, and of request_session, and what is done.
IpAt(id, M) ==
  LET li == PutOp("local", "ip", <<id, "local">>)
      lp == PutOp("local", "port", <<id, "local">>)
      pi == PutOp("public", "ip", <<id, "public">>)
      pp == PutOp("public", "port", <<id, "public">>)
      be == StoreOp("peer_ID", id)
      off == StoreOp("connected", FALSE)
      hli == Has("local", "ip", <<id, "local">>)
      hlp == Has("local", "port", <<id, "local">>)
      hpi == Has("public", "ip", <<id, "public">>)
      hpp == Has("public", "port", <<id, "public">>)
  IN
    \/ M = <<new_info, li, lp, pi, pp, be, off>> /\ peer_ID = 0
    \/ M = <<li, lp, pi, pp, be, off>> /\ Partial
    \/ M = <<lp, pi, pp, be, off>> /\ Partial /\ hli
    \/ M = <<pi, pp, be, off>> /\ Partial /\ hli /\ hlp
    \/ M = <<pp, be, off>> /\ Partial /\ hli /\ hlp /\ hpi
    \/ M = <<be, off>> /\ Partial /\ hli /\ hlp /\ hpi /\ hpp
    \/ M = <<off>> /\ Consistent(id) /\ peer_ID = id

PingAt(id, kind, M) ==
  LET a == <<id, "ping">>
      be == StoreOp("peer_ID", id)
      on == StoreOp("connected", TRUE)
      k == StoreOp("kind", kind)
      li == PutOp("local", "ip", a)
      pi == PutOp("public", "ip", a)
      pp == PutOp("public", "port", a)
      lp == PutOp("local", "port", a)
      his == peer_ID = id
      record == peer_info \in [MetaField -> Address \cup {Junk}]
  IN
    \/ M = <<be, on, k, new_info, li, pi, pp, lp>>
    \/ M = <<on, k, new_info, li, pi, pp, lp>> /\ his
    \/ M = <<k, new_info, li, pi, pp, lp>> /\ his
    \/ M = <<new_info, li, pi, pp, lp>> /\ his
    \/ M = <<li, pi, pp, lp>> /\ his /\ record
    \/ M = <<pi, pp, lp>> /\ his /\ record /\ Has("local", "ip", a)
    \/ M = <<pp, lp>> /\ his /\ record /\ Has("local", "ip", a) /\ Has("public", "ip", a)
    \/ M = <<lp>> /\ his /\ record /\ Has("local", "ip", a) /\ Has("public", "ip", a)
                  /\ Has("public", "port", a)

MainInv ==
  \/ handling \notin {"ip", "ping"} /\ Avoids(todo["main"], PeerKeys) /\ Settled
  \/ handling = "ip" /\ \E id \in Peer : IpAt(id, todo["main"])
  \/ handling = "ping" /\ \E id \in Peer, kind \in Kind : PingAt(id, kind, todo["main"])

\* The command of which R holds the variables has not met response_ip or request_session.
Alone(R) == R.during \cap {"ip", "ping"} = {}
Sided(R) == R.side \in {"local", "public"}
SameKind(R) == Sided(R) /\ (Alone(R) => R.side = Side(peer_session_kind))
Checked(R) == peer_ID # 0 /\ (Alone(R) => peer_ID = R.to)
Loaded(R, part, a) ==
  /\ Alone(R) => a = peer_info[<<R.side, part>>]
  /\ "ping" \notin R.during => a # Junk

\* What is left of make_session or send_message, and what it knows.
CommandAt(C, R) ==
  \/ /\ \E k : C = <<test_info, test_peer, StoreOp("kind", k), load_ip, load_peer_port, send>>
     /\ Sided(R)
  \/ /\ \E k : C = <<test_peer, StoreOp("kind", k), load_ip, load_peer_port, send>>
     /\ Sided(R)
  \/ /\ \E k : C = <<StoreOp("kind", k), load_ip, load_peer_port, send>>
     /\ Sided(R) /\ Checked(R)
  \/ C = <<test_peer, test_connected, test_info, load_kind, load_ip, load_kind, load_peer_port, send>>
  \/ /\ C = <<test_connected, test_info, load_kind, load_ip, load_kind, load_peer_port, send>>
     /\ Checked(R)
  \/ C = <<test_info, load_kind, load_ip, load_kind, load_peer_port, send>> /\ Checked(R)
  \/ C = <<load_kind, load_ip, load_kind, load_peer_port, send>> /\ Checked(R)
  \/ C = <<load_ip, load_kind, load_peer_port, send>> /\ Checked(R) /\ SameKind(R)
  \/ C = <<load_kind, load_peer_port, send>> /\ Checked(R) /\ SameKind(R) /\ Loaded(R, "ip", R.ip)
  \/ C = <<load_ip, load_peer_port, send>> /\ Sided(R) /\ Checked(R)
  \/ C = <<load_peer_port, send>> /\ Sided(R) /\ Checked(R) /\ Loaded(R, "ip", R.ip)
  \/ /\ C = <<send>> /\ Sided(R) /\ Checked(R)
     /\ Loaded(R, "ip", R.ip) /\ Loaded(R, "port", R.peer_port)

ConsoleInv ==
  \/ Avoids(todo["console"], PeerKeys)
  \/ /\ reg["console"].to \in Peer
     /\ handling \in {"ip", "ping"} => handling \in reg["console"].during
     /\ CommandAt(todo["console"], reg["console"])

IdPackets == { IdPacket(id) : id \in {MyId} \cup LaterIds }

Arrivals == arrived \subseteq PeerPacket \cup {drop} \cup IdPackets

DestInv == Typed /\ Arrivals /\ MainInv /\ ConsoleInv /\ MessageDestined

-----------------------------------------------------------------------------

LEMMA HarmlessStep ==
  ASSUME Typed, NEW t \in Thread, Avoids(todo[t], PeerKeys), Step(t)
  PROVE  /\ Avoids(todo'[t], PeerKeys) /\ UNCHANGED <<peer_ID, peer_session_kind, peer_info, sent>>
<1>1. todo[t] # <<>>
  BY StepContinues
<1>2. Key(Op(t)) \notin PeerKeys /\ Avoids(Tail(todo[t]), PeerKeys) /\ Avoids(<<>>, PeerKeys)
  BY <1>1, AvoidsTail, AvoidsNone DEF Op
<1>3. PICK rest, locals :
        rest \in {Tail(todo[t]), <<>>} /\ IsReg(locals) /\ Continue(t, rest, locals)
  BY StepContinues
<1>4. UNCHANGED <<peer_ID, peer_session_kind, peer_info, sent>>
  <2>1. CASE Tests(t)
    BY <2>1 DEF Tests, Test, fields
  <2>2. CASE Loads(t)
    BY <2>2 DEF Loads, Load, fields
  <2>3. CASE StoreField(t)
    BY <1>2, <2>3 DEF StoreField, At, Key, PeerKeys
  <2>4. CASE NewInfo(t) \/ StoreInfo(t) \/ SendToPeer(t)
    BY <1>2, <2>4 DEF NewInfo, StoreInfo, SendToPeer, At, Key, PeerKeys
  <2>5. CASE StorePort(t) \/ Request(t)
    BY <2>5 DEF StorePort, Request, fields
  <2> QED
    BY <2>1, <2>2, <2>3, <2>4, <2>5 DEF Step
<1> QED
  BY <1>2, <1>3, <1>4, Continued

LEMMA HarmlessLists ==
  /\ Avoids(MakeConnection, PeerKeys) /\ Avoids(ReceiveDrop, PeerKeys)
  /\ \A id : Avoids(ResponseId(id), PeerKeys) /\ Avoids(ResponseSession(id), PeerKeys)
<1>1. Avoids(MakeConnection, PeerKeys)
  BY AvoidsConcat, AvoidsOps DEF MakeConnection, PeerKeys
<1>2. Avoids(ReceiveDrop, PeerKeys)
  BY <1>1, AvoidsConcat, AvoidsOps DEF ReceiveDrop, PeerKeys
<1>3. \A id : Avoids(ResponseId(id), PeerKeys) /\ Avoids(ResponseSession(id), PeerKeys)
  BY AvoidsNone, AvoidsOps DEF ResponseId, ResponseSession, PeerKeys
<1> QED
  BY <1>1, <1>2, <1>3

\* A command that is under way stays where it is while others change what they may.
LEMMA CommandKept ==
  ASSUME CommandAt(todo["console"], reg["console"]), todo'["console"] = todo["console"],
         \A x \in {"to", "side", "ip", "peer_port"} : reg'["console"][x] = reg["console"][x],
         reg["console"].during \subseteq reg'["console"].during,
         peer_ID # 0 => peer_ID' # 0,
         Alone(reg'["console"]) => UNCHANGED <<peer_ID, peer_info, peer_session_kind>>
  PROVE  CommandAt(todo["console"], reg["console"])'
<1> DEFINE R == reg["console"]
<1>0. R'.to = R.to /\ R'.side = R.side /\ R'.ip = R.ip /\ R'.peer_port = R.peer_port
  OBVIOUS
<1>1. Alone(R)' => Alone(R) /\ UNCHANGED <<peer_ID, peer_info, peer_session_kind>>
  BY DEF Alone
<1>2. ("ping" \notin R.during)' => "ping" \notin R.during
  OBVIOUS
<1>3. Checked(R) => Checked(R)'
  BY <1>0, <1>1 DEF Checked
<1>4. Sided(R) => Sided(R)'
  BY <1>0 DEF Sided
<1>5. SameKind(R) => SameKind(R)'
  BY <1>0, <1>1, <1>4 DEF SameKind
<1>6. /\ Loaded(R, "ip", R.ip) => Loaded(R, "ip", R.ip)'
      /\ Loaded(R, "port", R.peer_port) => Loaded(R, "port", R.peer_port)'
  BY <1>0, <1>1, <1>2 DEF Loaded
<1> QED
  BY <1>3, <1>4, <1>5, <1>6 DEF CommandAt

LEMMA StepElsewhere ==
  ASSUME Typed, NEW t \in Thread, Step(t)
  PROVE  /\ Typed' /\ UNCHANGED arrived
         /\ \A u \in Thread \ {t} : todo'[u] = todo[u] /\ reg'[u] = reg[u]
         /\ \/ handling' = handling
            \/ t = "main" /\ handling' = "none" /\ todo'["main"] = <<>>
<1>1. PICK rest, locals :
        rest \in {Tail(todo[t]), <<>>} /\ IsReg(locals) /\ Continue(t, rest, locals)
  BY StepContinues
<1>2. /\ Typed' /\ UNCHANGED arrived
      /\ \A u \in Thread \ {t} : todo'[u] = todo[u] /\ reg'[u] = reg[u]
      /\ todo'[t] = rest
  BY <1>1, Continued DEF Elsewhere
<1>3. handling' = handling \/ (t = "main" /\ handling' = "none" /\ rest = <<>>)
  BY <1>1 DEF Continue
<1> QED
  BY <1>2, <1>3

\* What the main thread may do while the console has a command under way.
LEMMA ConsoleKept ==
  ASSUME Typed, ConsoleInv, Step("main"),
         peer_ID # 0 => peer_ID' # 0,
         handling \notin {"ip", "ping"} => UNCHANGED <<peer_ID, peer_info, peer_session_kind>>
  PROVE  ConsoleInv'
<1>1. "main" \in Thread /\ "console" \in Thread \ {"main"}
  BY DEF Thread
<1>2. /\ todo'["console"] = todo["console"] /\ reg'["console"] = reg["console"]
      /\ handling' \in {handling, "none"}
  BY <1>1, StepElsewhere
<1>3. CASE Avoids(todo["console"], PeerKeys)
  BY <1>2, <1>3 DEF ConsoleInv
<1>4. CASE /\ reg["console"].to \in Peer
           /\ handling \in {"ip", "ping"} => handling \in reg["console"].during
           /\ CommandAt(todo["console"], reg["console"])
  <2>1. Alone(reg'["console"]) => UNCHANGED <<peer_ID, peer_info, peer_session_kind>>
    BY <1>2, <1>4 DEF Alone
  <2>2. CommandAt(todo["console"], reg["console"])'
    BY <1>2, <1>4, <2>1, CommandKept
  <2>3. handling' \in {"ip", "ping"} => handling' \in reg'["console"].during
    BY <1>2, <1>4
  <2> QED
    BY <1>2, <1>4, <2>2, <2>3 DEF ConsoleInv
<1> QED
  BY <1>3, <1>4 DEF ConsoleInv

-----------------------------------------------------------------------------
(* The main thread. *)

LEMMA LongTails ==
  /\ \A a, b : <<a, b>> # <<>>
  /\ \A a, b, c : <<a, b, c>> # <<>>
  /\ \A a, b, c, d : <<a, b, c, d>> # <<>>
  /\ \A a, b, c, d, e : <<a, b, c, d, e>> # <<>>
  /\ \A a, b, c, d, e, f : <<a, b, c, d, e, f>> # <<>>
  /\ \A a, b, c, d, e, f, g :
        /\ <<a, b, c, d, e, f, g>> # <<>>
        /\ Head(<<a, b, c, d, e, f, g>>) = a
        /\ Tail(<<a, b, c, d, e, f, g>>) = <<b, c, d, e, f, g>>
  /\ \A a, b, c, d, e, f, g, h :
        /\ <<a, b, c, d, e, f, g, h>> # <<>>
        /\ Head(<<a, b, c, d, e, f, g, h>>) = a
        /\ Tail(<<a, b, c, d, e, f, g, h>>) = <<b, c, d, e, f, g, h>>
OBVIOUS

LEMMA MainDone ==
  ASSUME Typed, Done("main")
  PROVE  /\ todo'["main"] = Tail(todo["main"])
         /\ Tail(todo["main"]) # <<>> => handling' = handling
         /\ Tail(todo["main"]) = <<>> => handling' = "none"
BY DEF Done, Continue, Typed, Thread

\* The operations on the peer.
LEMMA PeerSteps ==
  ASSUME NEW t \in Thread, Step(t)
  PROVE  /\ \A side, part, v : Op(t) = PutOp(side, part, v) =>
              /\ peer_info' = [peer_info EXCEPT ![<<side, part>>] = v]
              /\ UNCHANGED <<peer_ID, peer_session_kind, sent>> /\ Done(t)
         /\ \A id : Op(t) = StoreOp("peer_ID", id) =>
              peer_ID' = id /\ UNCHANGED <<peer_session_kind, peer_info, sent>> /\ Done(t)
         /\ \A k : Op(t) = StoreOp("kind", k) =>
              peer_session_kind' = k /\ UNCHANGED <<peer_ID, peer_info, sent>> /\ Done(t)
         /\ \A b : Op(t) = StoreOp("connected", b) =>
              UNCHANGED <<peer_ID, peer_session_kind, peer_info, sent>> /\ Done(t)
         /\ Op(t) = new_info =>
              /\ peer_info' = [f \in MetaField |-> Junk]
              /\ UNCHANGED <<peer_ID, peer_session_kind, sent>> /\ Done(t)
<1>1. ASSUME NEW side, NEW part, NEW v, Op(t) = PutOp(side, part, v)
      PROVE  /\ peer_info' = [peer_info EXCEPT ![<<side, part>>] = v]
             /\ UNCHANGED <<peer_ID, peer_session_kind, sent>> /\ Done(t)
  <2>1. Op(t).op = "store_info" /\ Op(t).field = <<side, part>> /\ Op(t).value = v
    BY <1>1 DEF PutOp
  <2>2. StoreInfo(t)
    BY <2>1, StepOf
  <2> QED
    BY <2>1, <2>2 DEF StoreInfo
<1>2. ASSUME NEW field, NEW v, Op(t) = StoreOp(field, v)
      PROVE  /\ peer_ID' = IF field = "peer_ID" THEN v ELSE peer_ID
             /\ peer_session_kind' = IF field = "kind" THEN v ELSE peer_session_kind
             /\ UNCHANGED <<peer_info, sent>> /\ Done(t)
  <2>1. Op(t).op = "store" /\ Op(t).field = field /\ Op(t).value = v
    BY <1>2 DEF StoreOp
  <2>2. StoreField(t)
    BY <2>1, StepOf
  <2> QED
    BY <2>1, <2>2 DEF StoreField
<1>3. ASSUME Op(t) = new_info
      PROVE  /\ peer_info' = [f \in MetaField |-> Junk]
             /\ UNCHANGED <<peer_ID, peer_session_kind, sent>> /\ Done(t)
  <2>1. Op(t).op = "new_info"
    BY <1>3, PlainOps DEF new_info
  <2>2. NewInfo(t)
    BY <2>1, StepOf
  <2> QED
    BY <2>2 DEF NewInfo
<1> QED
  BY <1>1, <1>2, <1>3

LEMMA PutKeeps ==
  ASSUME peer_info \in [MetaField -> Address \cup {Junk}], NEW side \in {"local", "public"},
         NEW part \in {"ip", "port"}, NEW a \in Address,
         peer_info' = [peer_info EXCEPT ![<<side, part>>] = a]
  PROVE  /\ peer_info' \in [MetaField -> Address \cup {Junk}] /\ Has(side, part, a)'
         /\ peer_info \in [MetaField -> Address] => peer_info' \in [MetaField -> Address]
         /\ \A key \in MetaField : key # <<side, part>> => peer_info'[key] = peer_info[key]
<1>1. <<side, part>> \in MetaField
  BY DEF MetaField
<1> QED
  BY <1>1 DEF Has

LEMMA Keys ==
  /\ MetaField = {<<"local", "ip">>, <<"local", "port">>, <<"public", "ip">>, <<"public", "port">>}
  /\ <<"local", "ip">> # <<"local", "port">> /\ <<"local", "ip">> # <<"public", "ip">>
  /\ <<"local", "ip">> # <<"public", "port">> /\ <<"local", "port">> # <<"public", "ip">>
  /\ <<"local", "port">> # <<"public", "port">> /\ <<"public", "ip">> # <<"public", "port">>
BY DEF MetaField

\* All four fields of one peer make a record of it.
LEMMA Complete ==
  ASSUME NEW id \in Peer, NEW a \in Address, NEW b \in Address, a[1] = id, b[1] = id,
         NEW F \in [MetaField -> Address \cup {Junk}],
         F[<<"local", "ip">>] = a, F[<<"local", "port">>] = a,
         F[<<"public", "ip">>] = b, F[<<"public", "port">>] = b
  PROVE  /\ F \in [MetaField -> Address]
         /\ \A side \in {"local", "public"} :
              F[<<side, "ip">>] = F[<<side, "port">>] /\ F[<<side, "ip">>][1] = id
<1>1. \A key \in MetaField : F[key] \in Address
  BY Keys
<1> QED
  BY <1>1

LEMMA PeerAddress ==
  \A id \in Peer : \A w \in {"local", "public", "ping"} : <<id, w>> \in Address /\ <<id, w>>[1] = id
BY DEF Address

LEMMA MainHarmless ==
  ASSUME Typed, MainInv, handling \notin {"ip", "ping"}, Step("main")
  PROVE  MainInv' /\ UNCHANGED <<peer_ID, peer_session_kind, peer_info, sent>>
<1>1. Avoids(todo["main"], PeerKeys) /\ Settled /\ "main" \in Thread
  BY DEF MainInv, Thread
<1>2. Avoids(todo'["main"], PeerKeys) /\ UNCHANGED <<peer_ID, peer_session_kind, peer_info, sent>>
  BY <1>1, HarmlessStep
<1>3. handling' \in {handling, "none"}
  BY <1>1, StepElsewhere
<1>4. Settled'
  BY <1>1, <1>2 DEF Settled, Consistent
<1> QED
  BY <1>2, <1>3, <1>4 DEF MainInv

LEMMA MainIp ==
  ASSUME Typed, MainInv, handling = "ip", Step("main")
  PROVE  MainInv' /\ UNCHANGED sent /\ (peer_ID # 0 => peer_ID' # 0)
<1> DEFINE M == todo["main"]
<1>0. "main" \in Thread
  BY DEF Thread
<1>1. PICK id \in Peer : IpAt(id, M)
  BY DEF MainInv
<1> DEFINE li == PutOp("local", "ip", <<id, "local">>)
           lp == PutOp("local", "port", <<id, "local">>)
           pi == PutOp("public", "ip", <<id, "public">>)
           pp == PutOp("public", "port", <<id, "public">>)
           be == StoreOp("peer_ID", id)
           off == StoreOp("connected", FALSE)
           hli == Has("local", "ip", <<id, "local">>)
           hlp == Has("local", "port", <<id, "local">>)
           hpi == Has("public", "ip", <<id, "public">>)
           hpp == Has("public", "port", <<id, "public">>)
<1>2. ASSUME IpAt(id, M)', handling' = handling  PROVE MainInv'
  BY <1>2 DEF MainInv
<1>3. <<id, "local">> \in Address /\ <<id, "public">> \in Address
      /\ <<id, "local">>[1] = id /\ <<id, "public">>[1] = id /\ id # 0
  BY PeerAddress, IdsAssumption
<1>4. CASE M = <<new_info, li, lp, pi, pp, be, off>> /\ peer_ID = 0
  <2>1. Op("main") = new_info /\ Tail(M) = <<li, lp, pi, pp, be, off>>
        /\ <<li, lp, pi, pp, be, off>> # <<>>
    <3> HIDE DEF M, li, lp, pi, pp, be, off, hli, hlp, hpi, hpp
    <3> QED
      BY <1>4, Tails, LongTails DEF Op, M
  <2>2. peer_info' = [f \in MetaField |-> Junk] /\ UNCHANGED <<peer_ID, sent>> /\ Done("main")
    BY <1>0, <2>1, PeerSteps
  <2>3. todo'["main"] = Tail(M) /\ handling' = handling
    BY <2>1, <2>2, MainDone
  <2>4. Partial'
    BY <1>4, <2>2 DEF Partial
  <2>5. IpAt(id, M)'
    BY <2>1, <2>3, <2>4 DEF IpAt
  <2> QED
    BY <1>2, <1>4, <2>2, <2>3, <2>5
<1>5. CASE M = <<li, lp, pi, pp, be, off>> /\ Partial
  <2>1. Op("main") = li /\ Tail(M) = <<lp, pi, pp, be, off>> /\ <<lp, pi, pp, be, off>> # <<>>
    <3> HIDE DEF M, li, lp, pi, pp, be, off, hli, hlp, hpi, hpp
    <3> QED
      BY <1>5, Tails, LongTails DEF Op, M
  <2>2. peer_info' = [peer_info EXCEPT ![<<"local", "ip">>] = <<id, "local">>]
        /\ UNCHANGED <<peer_ID, sent>> /\ Done("main")
    BY <1>0, <2>1, PeerSteps
  <2>3. todo'["main"] = Tail(M) /\ handling' = handling
    BY <2>1, <2>2, MainDone
  <2>4. Partial' /\ hli'
        /\ \A key \in MetaField : key # <<"local", "ip">> => peer_info'[key] = peer_info[key]
    BY <1>3, <1>5, <2>2, PutKeeps DEF Partial
  <2>5. IpAt(id, M)'
    BY <2>1, <2>3, <2>4 DEF IpAt
  <2> QED
    BY <1>2, <1>5, <2>2, <2>3, <2>5
<1>6. CASE M = <<lp, pi, pp, be, off>> /\ Partial /\ hli
  <2>1. Op("main") = lp /\ Tail(M) = <<pi, pp, be, off>> /\ <<pi, pp, be, off>> # <<>>
    <3> HIDE DEF M, li, lp, pi, pp, be, off, hli, hlp, hpi, hpp
    <3> QED
      BY <1>6, Tails, LongTails DEF Op, M
  <2>2. peer_info' = [peer_info EXCEPT ![<<"local", "port">>] = <<id, "local">>]
        /\ UNCHANGED <<peer_ID, sent>> /\ Done("main")
    BY <1>0, <2>1, PeerSteps
  <2>3. todo'["main"] = Tail(M) /\ handling' = handling
    BY <2>1, <2>2, MainDone
  <2>4. Partial' /\ hlp'
        /\ \A key \in MetaField : key # <<"local", "port">> => peer_info'[key] = peer_info[key]
    BY <1>3, <1>6, <2>2, PutKeeps DEF Partial
  <2>5. hli'
    BY <1>6, <2>4, Keys DEF Has
  <2>6. IpAt(id, M)'
    BY <2>1, <2>3, <2>4, <2>5 DEF IpAt
  <2> QED
    BY <1>2, <1>6, <2>2, <2>3, <2>6
<1>7. CASE M = <<pi, pp, be, off>> /\ Partial /\ hli /\ hlp
  <2>1. Op("main") = pi /\ Tail(M) = <<pp, be, off>> /\ <<pp, be, off>> # <<>>
    <3> HIDE DEF M, li, lp, pi, pp, be, off, hli, hlp, hpi, hpp
    <3> QED
      BY <1>7, Tails, LongTails DEF Op, M
  <2>2. peer_info' = [peer_info EXCEPT ![<<"public", "ip">>] = <<id, "public">>]
        /\ UNCHANGED <<peer_ID, sent>> /\ Done("main")
    BY <1>0, <2>1, PeerSteps
  <2>3. todo'["main"] = Tail(M) /\ handling' = handling
    BY <2>1, <2>2, MainDone
  <2>4. Partial' /\ hpi'
        /\ \A key \in MetaField : key # <<"public", "ip">> => peer_info'[key] = peer_info[key]
    BY <1>3, <1>7, <2>2, PutKeeps DEF Partial
  <2>5. hli' /\ hlp'
    BY <1>7, <2>4, Keys DEF Has
  <2>6. IpAt(id, M)'
    BY <2>1, <2>3, <2>4, <2>5 DEF IpAt
  <2> QED
    BY <1>2, <1>7, <2>2, <2>3, <2>6
<1>8. CASE M = <<pp, be, off>> /\ Partial /\ hli /\ hlp /\ hpi
  <2>1. Op("main") = pp /\ Tail(M) = <<be, off>> /\ <<be, off>> # <<>>
    <3> HIDE DEF M, li, lp, pi, pp, be, off, hli, hlp, hpi, hpp
    <3> QED
      BY <1>8, Tails, LongTails DEF Op, M
  <2>2. peer_info' = [peer_info EXCEPT ![<<"public", "port">>] = <<id, "public">>]
        /\ UNCHANGED <<peer_ID, sent>> /\ Done("main")
    BY <1>0, <2>1, PeerSteps
  <2>3. todo'["main"] = Tail(M) /\ handling' = handling
    BY <2>1, <2>2, MainDone
  <2>4. Partial' /\ hpp'
        /\ \A key \in MetaField : key # <<"public", "port">> => peer_info'[key] = peer_info[key]
    BY <1>3, <1>8, <2>2, PutKeeps DEF Partial
  <2>5. hli' /\ hlp' /\ hpi'
    BY <1>8, <2>4, Keys DEF Has
  <2>6. IpAt(id, M)'
    BY <2>1, <2>3, <2>4, <2>5 DEF IpAt
  <2> QED
    BY <1>2, <1>8, <2>2, <2>3, <2>6
<1>9. CASE M = <<be, off>> /\ Partial /\ hli /\ hlp /\ hpi /\ hpp
  <2>1. Op("main") = be /\ Tail(M) = <<off>> /\ <<off>> # <<>>
    <3> HIDE DEF M, li, lp, pi, pp, be, off, hli, hlp, hpi, hpp
    <3> QED
      BY <1>9, Tails, LongTails DEF Op, M
  <2>2. peer_ID' = id /\ UNCHANGED <<peer_info, sent>> /\ Done("main")
    BY <1>0, <2>1, PeerSteps
  <2>3. todo'["main"] = Tail(M) /\ handling' = handling
    BY <2>1, <2>2, MainDone
  <2>4. Consistent(id)
    BY <1>3, <1>9, Complete DEF Partial, Consistent, Has
  <2>5. Consistent(id)'
    BY <2>2, <2>4 DEF Consistent
  <2>6. IpAt(id, M)'
    BY <2>1, <2>2, <2>3, <2>5 DEF IpAt
  <2> QED
    BY <1>2, <1>3, <1>9, <2>2, <2>3, <2>6
<1>10. CASE M = <<off>> /\ Consistent(id) /\ peer_ID = id
  <2>1. Op("main") = off /\ Tail(M) = <<>>
    <3> HIDE DEF M, li, lp, pi, pp, be, off, hli, hlp, hpi, hpp
    <3> QED
      BY <1>10, Tails, LongTails DEF Op, M
  <2>2. UNCHANGED <<peer_ID, peer_info, sent>> /\ Done("main")
    BY <1>0, <2>1, PeerSteps
  <2>3. todo'["main"] = <<>> /\ handling' = "none"
    BY <2>1, <2>2, MainDone
  <2>4. Settled'
    BY <1>10, <2>2 DEF Settled, Consistent
  <2>5. Avoids(todo'["main"], PeerKeys)
    BY <2>3, AvoidsNone
  <2> QED
    BY <2>2, <2>3, <2>4, <2>5 DEF MainInv
<1> QED
  BY <1>1, <1>4, <1>5, <1>6, <1>7, <1>8, <1>9, <1>10 DEF IpAt

LEMMA MainPing ==
  ASSUME Typed, MainInv, handling = "ping", Step("main")
  PROVE  MainInv' /\ UNCHANGED sent /\ (peer_ID # 0 => peer_ID' # 0)
<1> DEFINE M == todo["main"]
<1>0. "main" \in Thread
  BY DEF Thread
<1>1. PICK id \in Peer, kind \in Kind : PingAt(id, kind, M)
  BY DEF MainInv
<1> DEFINE a == <<id, "ping">>
           be == StoreOp("peer_ID", id)
           on == StoreOp("connected", TRUE)
           k == StoreOp("kind", kind)
           li == PutOp("local", "ip", a)
           pi == PutOp("public", "ip", a)
           pp == PutOp("public", "port", a)
           lp == PutOp("local", "port", a)
           his == peer_ID = id
           record == peer_info \in [MetaField -> Address \cup {Junk}]
           hli == Has("local", "ip", a)
           hpi == Has("public", "ip", a)
           hpp == Has("public", "port", a)
           hlp == Has("local", "port", a)
<1>2. ASSUME PingAt(id, kind, M)', handling' = handling  PROVE MainInv'
  BY <1>2 DEF MainInv
<1>3. a \in Address /\ a[1] = id /\ id # 0
  BY PeerAddress, IdsAssumption
<1>4. CASE M = <<be, on, k, new_info, li, pi, pp, lp>>
  <2>1. Op("main") = be /\ Tail(M) = <<on, k, new_info, li, pi, pp, lp>>
        /\ <<on, k, new_info, li, pi, pp, lp>> # <<>>
    <3> HIDE DEF M, a, be, on, k, li, pi, pp, lp, his, record, hli, hpi, hpp
    <3> QED
      BY <1>4, Tails, LongTails DEF Op, M
  <2>2. peer_ID' = id /\ UNCHANGED <<peer_info, sent>> /\ Done("main")
    BY <1>0, <2>1, PeerSteps
  <2>3. todo'["main"] = Tail(M) /\ handling' = handling
    BY <2>1, <2>2, MainDone
  <2>4. PingAt(id, kind, M)'
    BY <2>1, <2>2, <2>3, <1>4 DEF PingAt
  <2> QED
    BY <1>2, <1>3, <1>4, <2>2, <2>3, <2>4
<1>5. CASE M = <<on, k, new_info, li, pi, pp, lp>> /\ his
  <2>1. Op("main") = on /\ Tail(M) = <<k, new_info, li, pi, pp, lp>>
        /\ <<k, new_info, li, pi, pp, lp>> # <<>>
    <3> HIDE DEF M, a, be, on, k, li, pi, pp, lp, his, record, hli, hpi, hpp
    <3> QED
      BY <1>5, Tails, LongTails DEF Op, M
  <2>2. UNCHANGED <<peer_ID, peer_info, sent>> /\ Done("main")
    BY <1>0, <2>1, PeerSteps
  <2>3. todo'["main"] = Tail(M) /\ handling' = handling
    BY <2>1, <2>2, MainDone
  <2>4. PingAt(id, kind, M)'
    BY <2>1, <2>2, <2>3, <1>5 DEF PingAt
  <2> QED
    BY <1>2, <1>3, <1>5, <2>2, <2>3, <2>4
<1>6. CASE M = <<k, new_info, li, pi, pp, lp>> /\ his
  <2>1. Op("main") = k /\ Tail(M) = <<new_info, li, pi, pp, lp>>
        /\ <<new_info, li, pi, pp, lp>> # <<>>
    <3> HIDE DEF M, a, be, on, k, li, pi, pp, lp, his, record, hli, hpi, hpp
    <3> QED
      BY <1>6, Tails, LongTails DEF Op, M
  <2>2. UNCHANGED <<peer_ID, peer_info, sent>> /\ Done("main")
    BY <1>0, <2>1, PeerSteps
  <2>3. todo'["main"] = Tail(M) /\ handling' = handling
    BY <2>1, <2>2, MainDone
  <2>4. PingAt(id, kind, M)'
    BY <2>1, <2>2, <2>3, <1>6 DEF PingAt
  <2> QED
    BY <1>2, <1>3, <1>6, <2>2, <2>3, <2>4
<1>7. CASE M = <<new_info, li, pi, pp, lp>> /\ his
  <2>1. Op("main") = new_info /\ Tail(M) = <<li, pi, pp, lp>> /\ <<li, pi, pp, lp>> # <<>>
    <3> HIDE DEF M, a, be, on, k, li, pi, pp, lp, his, record, hli, hpi, hpp
    <3> QED
      BY <1>7, Tails, LongTails DEF Op, M
  <2>2. peer_info' = [f \in MetaField |-> Junk] /\ UNCHANGED <<peer_ID, sent>> /\ Done("main")
    BY <1>0, <2>1, PeerSteps
  <2>3. todo'["main"] = Tail(M) /\ handling' = handling
    BY <2>1, <2>2, MainDone
  <2>4. record'
    BY <2>2
  <2>5. PingAt(id, kind, M)'
    BY <2>1, <2>2, <2>3, <1>7, <2>4 DEF PingAt
  <2> QED
    BY <1>2, <1>3, <1>7, <2>2, <2>3, <2>5
<1>8. CASE M = <<li, pi, pp, lp>> /\ his /\ record
  <2>1. Op("main") = li /\ Tail(M) = <<pi, pp, lp>> /\ <<pi, pp, lp>> # <<>>
    <3> HIDE DEF M, a, be, on, k, li, pi, pp, lp, his, record, hli, hpi, hpp
    <3> QED
      BY <1>8, Tails, LongTails DEF Op, M
  <2>2. peer_info' = [peer_info EXCEPT ![<<"local", "ip">>] = a]
        /\ UNCHANGED <<peer_ID, sent>> /\ Done("main")
    BY <1>0, <2>1, PeerSteps
  <2>3. todo'["main"] = Tail(M) /\ handling' = handling
    BY <2>1, <2>2, MainDone
  <2>4. record' /\ hli'
        /\ \A key \in MetaField : key # <<"local", "ip">> => peer_info'[key] = peer_info[key]
    BY <1>3, <1>8, <2>2, PutKeeps
  <2>5. PingAt(id, kind, M)'
    BY <2>1, <2>2, <2>3, <1>8, <2>4 DEF PingAt
  <2> QED
    BY <1>2, <1>3, <1>8, <2>2, <2>3, <2>5
<1>9. CASE M = <<pi, pp, lp>> /\ his /\ record /\ hli
  <2>1. Op("main") = pi /\ Tail(M) = <<pp, lp>> /\ <<pp, lp>> # <<>>
    <3> HIDE DEF M, a, be, on, k, li, pi, pp, lp, his, record, hli, hpi, hpp
    <3> QED
      BY <1>9, Tails, LongTails DEF Op, M
  <2>2. peer_info' = [peer_info EXCEPT ![<<"public", "ip">>] = a]
        /\ UNCHANGED <<peer_ID, sent>> /\ Done("main")
    BY <1>0, <2>1, PeerSteps
  <2>3. todo'["main"] = Tail(M) /\ handling' = handling
    BY <2>1, <2>2, MainDone
  <2>4. record' /\ hpi'
        /\ \A key \in MetaField : key # <<"public", "ip">> => peer_info'[key] = peer_info[key]
    BY <1>3, <1>9, <2>2, PutKeeps
  <2>5. hli'
    BY <1>9, <2>4, Keys DEF Has
  <2>6. PingAt(id, kind, M)'
    BY <2>1, <2>2, <2>3, <1>9, <2>4, <2>5 DEF PingAt
  <2> QED
    BY <1>2, <1>3, <1>9, <2>2, <2>3, <2>6
<1>10. CASE M = <<pp, lp>> /\ his /\ record /\ hli /\ hpi
  <2>1. Op("main") = pp /\ Tail(M) = <<lp>> /\ <<lp>> # <<>>
    <3> HIDE DEF M, a, be, on, k, li, pi, pp, lp, his, record, hli, hpi, hpp
    <3> QED
      BY <1>10, Tails, LongTails DEF Op, M
  <2>2. peer_info' = [peer_info EXCEPT ![<<"public", "port">>] = a]
        /\ UNCHANGED <<peer_ID, sent>> /\ Done("main")
    BY <1>0, <2>1, PeerSteps
  <2>3. todo'["main"] = Tail(M) /\ handling' = handling
    BY <2>1, <2>2, MainDone
  <2>4. record' /\ hpp'
        /\ \A key \in MetaField : key # <<"public", "port">> => peer_info'[key] = peer_info[key]
    BY <1>3, <1>10, <2>2, PutKeeps
  <2>5. hli' /\ hpi'
    BY <1>10, <2>4, Keys DEF Has
  <2>6. PingAt(id, kind, M)'
    BY <2>1, <2>2, <2>3, <1>10, <2>4, <2>5 DEF PingAt
  <2> QED
    BY <1>2, <1>3, <1>10, <2>2, <2>3, <2>6
<1>11. CASE M = <<lp>> /\ his /\ record /\ hli /\ hpi /\ hpp
  <2>1. Op("main") = lp /\ Tail(M) = <<>>
    <3> HIDE DEF M, a, be, on, k, li, pi, pp, lp, his, record, hli, hpi, hpp
    <3> QED
      BY <1>11, Tails, LongTails DEF Op, M
  <2>2. peer_info' = [peer_info EXCEPT ![<<"local", "port">>] = a]
        /\ UNCHANGED <<peer_ID, sent>> /\ Done("main")
    BY <1>0, <2>1, PeerSteps
  <2>3. todo'["main"] = Tail(M) /\ handling' = "none"
    BY <2>1, <2>2, MainDone
  <2>4. record' /\ hlp'
        /\ \A key \in MetaField : key # <<"local", "port">> => peer_info'[key] = peer_info[key]
    BY <1>3, <1>11, <2>2, PutKeeps
  <2>5. hli' /\ hpi' /\ hpp'
    BY <1>11, <2>4, Keys DEF Has
  <2>6. Consistent(id)'
    BY <1>3, <2>4, <2>5, Complete DEF Consistent, Has
  <2>7. Settled'
    BY <1>11, <2>2, <2>6 DEF Settled
  <2>8. Avoids(todo'["main"], PeerKeys)
    BY <2>1, <2>3, AvoidsNone
  <2> QED
    BY <1>3, <1>11, <2>2, <2>3, <2>7, <2>8 DEF MainInv
<1> QED
  BY <1>1, <1>4, <1>5, <1>6, <1>7, <1>8, <1>9, <1>10, <1>11 DEF PingAt

-----------------------------------------------------------------------------
(* The console. *)

Goes(r) ==
  /\ todo'["console"] = Tail(todo["console"])
  /\ Tail(todo["console"]) # <<>> => reg'["console"] = r
Ends == todo'["console"] = <<>>
SamePeer == UNCHANGED <<peer_ID, peer_session_kind, peer_info, sent>>

LEMMA ConsoleGoes ==
  ASSUME Typed
  PROVE  /\ \A r : Continue("console", Tail(todo["console"]), r) => Goes(r)
         /\ Done("console") => Goes(reg["console"])
         /\ \A r : Continue("console", <<>>, r) => Ends
<1>1. /\ \A r : Continue("console", Tail(todo["console"]), r) => Goes(r)
      /\ \A r : Continue("console", <<>>, r) => Ends
  BY DEF Continue, Goes, Ends, Typed, Thread
<1> QED
  BY <1>1 DEF Done

LEMMA ConsoleOps ==
  ASSUME Typed, Step("console")
  PROVE  /\ Op("console") = test_info =>
              SamePeer /\ (Ends \/ (peer_info # None /\ Goes(reg["console"])))
         /\ Op("console") = test_peer =>
              SamePeer /\ (Ends \/ (peer_ID = reg["console"].to /\ Goes(reg["console"])))
         /\ Op("console") = test_connected => SamePeer /\ (Ends \/ Goes(reg["console"]))
         /\ Op("console") = load_kind =>
              SamePeer /\ Goes([reg["console"] EXCEPT !["side"] = Side(peer_session_kind)])
         /\ Op("console") = load_ip =>
              /\ SamePeer
              /\ Goes([reg["console"] EXCEPT !["ip"] = peer_info[<<reg["console"].side, "ip">>]])
         /\ Op("console") = load_peer_port =>
              /\ SamePeer
              /\ Goes([reg["console"] EXCEPT
                         !["peer_port"] = peer_info[<<reg["console"].side, "port">>]])
         /\ \A k : Op("console") = StoreOp("kind", k) =>
              UNCHANGED <<peer_ID, peer_info, sent>> /\ Goes(reg["console"])
         /\ Op("console") = send =>
              /\ UNCHANGED <<peer_ID, peer_session_kind, peer_info>> /\ Goes(reg["console"])
              /\ sent' = [to |-> reg["console"].to, ip |-> reg["console"].ip,
                          port |-> reg["console"].peer_port, during |-> reg["console"].during]
<1>0. "console" \in Thread
  BY DEF Thread
<1>1. /\ test_info.op = "test_info" /\ test_peer.op = "test_peer"
      /\ test_connected.op = "test_connected" /\ load_kind.op = "load_kind"
      /\ load_ip.op = "load_ip" /\ load_peer_port.op = "load_peer_port" /\ send.op = "send"
  BY PlainOps DEF test_info, test_peer, test_connected, load_kind, load_ip, load_peer_port, send
<1>2. \A op, passes : Test("console", op, passes) =>
        SamePeer /\ (Ends \/ (passes /\ Goes(reg["console"])))
  BY ConsoleGoes DEF Test, SamePeer, fields
<1>3. \A x, v : Load("console", x, v) => SamePeer /\ Goes([reg["console"] EXCEPT ![x] = v])
  BY ConsoleGoes DEF Load, SamePeer, fields
<1>4. Op("console") = test_info =>
        SamePeer /\ (Ends \/ (peer_info # None /\ Goes(reg["console"])))
  BY <1>0, <1>1, <1>2, StepOf
<1>5. Op("console") = test_peer =>
        SamePeer /\ (Ends \/ (peer_ID = reg["console"].to /\ Goes(reg["console"])))
  BY <1>0, <1>1, <1>2, StepOf
<1>6. Op("console") = test_connected => SamePeer /\ (Ends \/ Goes(reg["console"]))
  BY <1>0, <1>1, <1>2, StepOf
<1>7. Op("console") = load_kind =>
        SamePeer /\ Goes([reg["console"] EXCEPT !["side"] = Side(peer_session_kind)])
  BY <1>0, <1>1, <1>3, StepOf
<1>8. Op("console") = load_ip =>
        /\ SamePeer
        /\ Goes([reg["console"] EXCEPT !["ip"] = peer_info[<<reg["console"].side, "ip">>]])
  BY <1>0, <1>1, <1>3, StepOf
<1>9. Op("console") = load_peer_port =>
        /\ SamePeer
        /\ Goes([reg["console"] EXCEPT
                   !["peer_port"] = peer_info[<<reg["console"].side, "port">>]])
  BY <1>0, <1>1, <1>3, StepOf
<1>10. \A k : Op("console") = StoreOp("kind", k) =>
         UNCHANGED <<peer_ID, peer_info, sent>> /\ Goes(reg["console"])
  BY <1>0, PeerSteps, ConsoleGoes
<1>11. Op("console") = send =>
         /\ UNCHANGED <<peer_ID, peer_session_kind, peer_info>> /\ Goes(reg["console"])
         /\ sent' = [to |-> reg["console"].to, ip |-> reg["console"].ip,
                     port |-> reg["console"].peer_port, during |-> reg["console"].during]
  <2>1. Op("console") = send => SendToPeer("console")
    BY <1>0, <1>1, StepOf
  <2> QED
    BY <2>1, ConsoleGoes DEF SendToPeer, fields
<1> QED
  BY <1>4, <1>5, <1>6, <1>7, <1>8, <1>9, <1>10, <1>11

\* The main thread's part stands while the record, its owner and the list do.
LEMMA MainStays ==
  ASSUME MainInv, UNCHANGED <<peer_ID, peer_info, handling>>, todo'["main"] = todo["main"]
  PROVE  MainInv'
<1>1. /\ Settled' <=> Settled
      /\ \A id : Consistent(id)' <=> Consistent(id)
      /\ Partial' <=> Partial
      /\ \A side, part, a : Has(side, part, a)' <=> Has(side, part, a)
  BY DEF Settled, Consistent, Partial, Has
<1>2. \A id \in Peer : IpAt(id, todo["main"]) => IpAt(id, todo["main"])'
  BY <1>1 DEF IpAt
<1>3. \A id \in Peer : \A kind \in Kind :
        PingAt(id, kind, todo["main"]) => PingAt(id, kind, todo["main"])'
  BY <1>1, ZenonT(60) DEF PingAt
<1> QED
  BY <1>1, <1>2, <1>3 DEF MainInv

\* What the record holds while it has an owner.
LEMMA RecordReadable ==
  ASSUME MainInv, peer_ID # 0
  PROVE  /\ handling # "ping" => peer_info \in [MetaField -> Address]
         /\ handling \notin {"ip", "ping"} => Consistent(peer_ID)
<1>1. CASE handling \notin {"ip", "ping"}
  BY <1>1 DEF MainInv, Settled, Consistent
<1>2. CASE handling = "ip"
  <2>1. PICK id \in Peer : IpAt(id, todo["main"])
    BY <1>2 DEF MainInv
  <2>2. Partial \/ Consistent(id)
    BY <2>1 DEF IpAt
  <2> QED
    BY <1>2, <2>2 DEF Partial, Consistent
<1> QED
  BY <1>1, <1>2

LEMMA Written ==
  ASSUME MainInv, Checked(reg["console"]), Sided(reg["console"]), NEW part \in {"ip", "port"},
         handling \in {"ip", "ping"} => handling \in reg["console"].during
  PROVE  Loaded(reg["console"], part, peer_info[<<reg["console"].side, part>>])
<1>1. <<reg["console"].side, part>> \in MetaField
  BY DEF Sided, MetaField
<1>2. ASSUME "ping" \notin reg["console"].during
      PROVE  peer_info[<<reg["console"].side, part>>] # Junk
  <2>1. peer_info \in [MetaField -> Address]
    BY <1>2, RecordReadable DEF Checked
  <2> QED
    BY <1>1, <2>1, ValuesAssumption
<1> QED
  BY <1>2 DEF Loaded

\* A variable more is loaded.
LEMMA LoadedMore ==
  ASSUME IsReg(reg["console"]), NEW x \in {"side", "ip", "peer_port"}, NEW v,
         reg'["console"] = [reg["console"] EXCEPT ![x] = v],
         UNCHANGED <<peer_ID, peer_session_kind, peer_info>>
  PROVE  /\ reg'["console"][x] = v
         /\ \A y \in {"side", "ip", "peer_port", "to", "during"} :
              y # x => reg'["console"][y] = reg["console"][y]
         /\ Checked(reg["console"]) => Checked(reg["console"])'
         /\ x # "side" /\ Sided(reg["console"]) => Sided(reg["console"])'
         /\ x # "side" /\ SameKind(reg["console"]) => SameKind(reg["console"])'
         /\ x # "side" => \A part, a : Loaded(reg["console"], part, a) => Loaded(reg["console"], part, a)'
<1>1. /\ reg'["console"][x] = v
      /\ \A y \in {"side", "ip", "peer_port", "to", "during"} :
           y # x => reg'["console"][y] = reg["console"][y]
  BY DEF IsReg
<1>2. reg'["console"].to = reg["console"].to /\ reg'["console"].during = reg["console"].during
  BY <1>1
<1>3. x # "side" => reg'["console"].side = reg["console"].side
  BY <1>1
<1>4. Alone(reg["console"])' <=> Alone(reg["console"])
  BY <1>2 DEF Alone
<1>5. Checked(reg["console"]) => Checked(reg["console"])'
  BY <1>2, <1>4 DEF Checked
<1>6. x # "side" =>
        /\ Sided(reg["console"]) => Sided(reg["console"])'
        /\ SameKind(reg["console"]) => SameKind(reg["console"])'
        /\ \A part, a : Loaded(reg["console"], part, a) => Loaded(reg["console"], part, a)'
  BY <1>2, <1>3, <1>4 DEF Sided, SameKind, Loaded
<1> QED
  BY <1>1, <1>5, <1>6

LEMMA ConsoleCommand ==
  ASSUME Typed, MainInv, MessageDestined, Step("console"),
         reg["console"].to \in Peer,
         handling \in {"ip", "ping"} => handling \in reg["console"].during,
         CommandAt(todo["console"], reg["console"])
  PROVE  /\ UNCHANGED <<peer_ID, peer_info>> /\ MessageDestined'
         /\ \/ todo'["console"] = <<>>
            \/ /\ CommandAt(todo["console"], reg["console"])'
               /\ reg'["console"].to = reg["console"].to
               /\ reg'["console"].during = reg["console"].during
<1> DEFINE C == todo["console"]
           R == reg["console"]
           Goal == /\ UNCHANGED <<peer_ID, peer_info>> /\ MessageDestined'
                   /\ \/ todo'["console"] = <<>>
                      \/ /\ CommandAt(C, R)'
                         /\ reg'["console"].to = R.to /\ reg'["console"].during = R.during
<1>0. IsReg(R) /\ "console" \in Thread
  BY DEF Typed, Thread
<1>1. UNCHANGED sent => MessageDestined'
  BY DEF MessageDestined
<1>2. R.to # 0
  BY IdsAssumption
<1>3. \A part \in {"ip", "port"} :
        Checked(R) /\ Sided(R) => Loaded(R, part, peer_info[<<R.side, part>>])
  BY Written
<1>4. \A kind : Side(kind) \in {"local", "public"}
  BY DEF Side
<1>5. ASSUME Ends, SamePeer  PROVE Goal
  BY <1>1, <1>5 DEF Ends, SamePeer
<1>6. ASSUME reg'["console"] = R, UNCHANGED <<peer_ID, peer_info>>
      PROVE  /\ Checked(R) => Checked(R)'
             /\ Sided(R) => Sided(R)'
             /\ reg'["console"].to = R.to /\ reg'["console"].during = R.during
  BY <1>6 DEF Checked, Sided, Alone
<1>7. ASSUME NEW k, C = <<test_info, test_peer, StoreOp("kind", k), load_ip, load_peer_port, send>>, Sided(R)
      PROVE  Goal
  <2>1. Op("console") = test_info
        /\ Tail(C) = <<test_peer, StoreOp("kind", k), load_ip, load_peer_port, send>> /\ Tail(C) # <<>>
    <3> HIDE DEF C, R, Goal
    <3> QED
      BY <1>7, Tails, LongTails DEF Op, C
  <2>2. SamePeer /\ (Ends \/ (peer_info # None /\ Goes(R)))
    BY <2>1, ConsoleOps
  <2>3. CASE Goes(R) /\ peer_info # None
    <3>1. todo'["console"] = <<test_peer, StoreOp("kind", k), load_ip, load_peer_port, send>>
          /\ reg'["console"] = R
      BY <2>1, <2>3 DEF Goes
    <3>2. Sided(R)'
      BY <1>7, <1>2, <1>6, <2>2, <2>3, <3>1 DEF SamePeer, Checked
    <3>3. CommandAt(C, R)'
      BY <3>1, <3>2 DEF CommandAt
    <3> QED
      BY <1>1, <1>6, <2>2, <3>1, <3>3 DEF SamePeer
  <2> QED
    BY <1>5, <2>2, <2>3
<1>8. ASSUME NEW k, C = <<test_peer, StoreOp("kind", k), load_ip, load_peer_port, send>>, Sided(R)
      PROVE  Goal
  <2>1. Op("console") = test_peer
        /\ Tail(C) = <<StoreOp("kind", k), load_ip, load_peer_port, send>> /\ Tail(C) # <<>>
    <3> HIDE DEF C, R, Goal
    <3> QED
      BY <1>8, Tails, LongTails DEF Op, C
  <2>2. SamePeer /\ (Ends \/ (peer_ID = R.to /\ Goes(R)))
    BY <2>1, ConsoleOps
  <2>3. CASE Goes(R) /\ peer_ID = R.to
    <3>1. todo'["console"] = <<StoreOp("kind", k), load_ip, load_peer_port, send>>
          /\ reg'["console"] = R
      BY <2>1, <2>3 DEF Goes
    <3>2. Sided(R)' /\ Checked(R)'
      BY <1>8, <1>2, <1>6, <2>2, <2>3, <3>1 DEF SamePeer, Checked
    <3>3. CommandAt(C, R)'
      BY <3>1, <3>2 DEF CommandAt
    <3> QED
      BY <1>1, <1>6, <2>2, <3>1, <3>3 DEF SamePeer
  <2> QED
    BY <1>5, <2>2, <2>3
<1>9. ASSUME NEW k, C = <<StoreOp("kind", k), load_ip, load_peer_port, send>>, Sided(R), Checked(R)
      PROVE  Goal
  <2>1. Op("console") = StoreOp("kind", k) /\ Tail(C) = <<load_ip, load_peer_port, send>>
        /\ Tail(C) # <<>>
    <3> HIDE DEF C, R, Goal
    <3> QED
      BY <1>9, Tails, LongTails DEF Op, C
  <2>2. UNCHANGED <<peer_ID, peer_info, sent>> /\ Goes(R)
    BY <2>1, ConsoleOps
  <2>3. todo'["console"] = <<load_ip, load_peer_port, send>> /\ reg'["console"] = R
    BY <2>1, <2>2 DEF Goes
  <2>4. Sided(R)' /\ Checked(R)'
    BY <1>9, <1>6, <2>2, <2>3
  <2>5. CommandAt(C, R)'
    BY <2>3, <2>4 DEF CommandAt
  <2> QED
    BY <1>1, <1>6, <2>2, <2>3, <2>5
<1>10. ASSUME C = <<test_peer, test_connected, test_info, load_kind, load_ip, load_kind, load_peer_port, send>>
      PROVE  Goal
  <2>1. Op("console") = test_peer
        /\ Tail(C) = <<test_connected, test_info, load_kind, load_ip, load_kind, load_peer_port, send>> /\ Tail(C) # <<>>
    <3> HIDE DEF C, R, Goal
    <3> QED
      BY <1>10, Tails, LongTails DEF Op, C
  <2>2. SamePeer /\ (Ends \/ (peer_ID = R.to /\ Goes(R)))
    BY <2>1, ConsoleOps
  <2>3. CASE Goes(R) /\ peer_ID = R.to
    <3>1. todo'["console"] = <<test_connected, test_info, load_kind, load_ip, load_kind, load_peer_port, send>> /\ reg'["console"] = R
      BY <2>1, <2>3 DEF Goes
    <3>2. Checked(R)'
      BY <1>10, <1>2, <1>6, <2>2, <2>3, <3>1 DEF SamePeer, Checked
    <3>3. CommandAt(C, R)'
      BY <3>1, <3>2 DEF CommandAt
    <3> QED
      BY <1>1, <1>6, <2>2, <3>1, <3>3 DEF SamePeer
  <2> QED
    BY <1>5, <2>2, <2>3
<1>11. ASSUME C = <<test_connected, test_info, load_kind, load_ip, load_kind, load_peer_port, send>>, Checked(R)
      PROVE  Goal
  <2>1. Op("console") = test_connected
        /\ Tail(C) = <<test_info, load_kind, load_ip, load_kind, load_peer_port, send>> /\ Tail(C) # <<>>
    <3> HIDE DEF C, R, Goal
    <3> QED
      BY <1>11, Tails, LongTails DEF Op, C
  <2>2. SamePeer /\ (Ends \/ (Goes(R)))
    BY <2>1, ConsoleOps
  <2>3. CASE Goes(R)
    <3>1. todo'["console"] = <<test_info, load_kind, load_ip, load_kind, load_peer_port, send>> /\ reg'["console"] = R
      BY <2>1, <2>3 DEF Goes
    <3>2. Checked(R)'
      BY <1>11, <1>2, <1>6, <2>2, <2>3, <3>1 DEF SamePeer, Checked
    <3>3. CommandAt(C, R)'
      BY <3>1, <3>2 DEF CommandAt
    <3> QED
      BY <1>1, <1>6, <2>2, <3>1, <3>3 DEF SamePeer
  <2> QED
    BY <1>5, <2>2, <2>3
<1>12. ASSUME C = <<test_info, load_kind, load_ip, load_kind, load_peer_port, send>>, Checked(R)
      PROVE  Goal
  <2>1. Op("console") = test_info
        /\ Tail(C) = <<load_kind, load_ip, load_kind, load_peer_port, send>> /\ Tail(C) # <<>>
    <3> HIDE DEF C, R, Goal
    <3> QED
      BY <1>12, Tails, LongTails DEF Op, C
  <2>2. SamePeer /\ (Ends \/ (peer_info # None /\ Goes(R)))
    BY <2>1, ConsoleOps
  <2>3. CASE Goes(R) /\ peer_info # None
    <3>1. todo'["console"] = <<load_kind, load_ip, load_kind, load_peer_port, send>>
          /\ reg'["console"] = R
      BY <2>1, <2>3 DEF Goes
    <3>2. Checked(R)'
      BY <1>12, <1>2, <1>6, <2>2, <2>3, <3>1 DEF SamePeer, Checked
    <3>3. CommandAt(C, R)'
      BY <3>1, <3>2 DEF CommandAt
    <3> QED
      BY <1>1, <1>6, <2>2, <3>1, <3>3 DEF SamePeer
  <2> QED
    BY <1>5, <2>2, <2>3
<1>13. ASSUME C = <<load_kind, load_ip, load_kind, load_peer_port, send>>, Checked(R)
      PROVE  Goal
  <2>1. Op("console") = load_kind /\ Tail(C) = <<load_ip, load_kind, load_peer_port, send>>
        /\ Tail(C) # <<>>
    <3> HIDE DEF C, R, Goal
    <3> QED
      BY <1>13, Tails, LongTails DEF Op, C
  <2>2. SamePeer /\ Goes([R EXCEPT !["side"] = Side(peer_session_kind)])
    BY <2>1, ConsoleOps
  <2>3. todo'["console"] = <<load_ip, load_kind, load_peer_port, send>>
        /\ reg'["console"] = [R EXCEPT !["side"] = Side(peer_session_kind)]
    BY <2>1, <2>2 DEF Goes
  <2>4. UNCHANGED <<peer_ID, peer_session_kind, peer_info>>
    BY <2>2 DEF SamePeer
  <2>5. Checked(R)' /\ reg'["console"].side = Side(peer_session_kind)
    BY <1>13, <1>0, <2>3, <2>4, LoadedMore
  <2>6. SameKind(R)'
    BY <1>4, <2>4, <2>5 DEF SameKind, Sided
  <2>8. CommandAt(C, R)'
    BY <2>3, <2>5, <2>6 DEF CommandAt
  <2> QED
    BY <1>0, <1>1, <2>2, <2>3, <2>4, <2>8, LoadedMore DEF SamePeer
<1>14. ASSUME C = <<load_ip, load_kind, load_peer_port, send>>, Checked(R), SameKind(R)
      PROVE  Goal
  <2>1. Op("console") = load_ip /\ Tail(C) = <<load_kind, load_peer_port, send>> /\ Tail(C) # <<>>
    <3> HIDE DEF C, R, Goal
    <3> QED
      BY <1>14, Tails, LongTails DEF Op, C
  <2>2. SamePeer /\ Goes([R EXCEPT !["ip"] = peer_info[<<R.side, "ip">>]])
    BY <2>1, ConsoleOps
  <2>3. todo'["console"] = <<load_kind, load_peer_port, send>>
        /\ reg'["console"] = [R EXCEPT !["ip"] = peer_info[<<R.side, "ip">>]]
    BY <2>1, <2>2 DEF Goes
  <2>4. UNCHANGED <<peer_ID, peer_session_kind, peer_info>>
    BY <2>2 DEF SamePeer
  <2>5. Loaded(R, "ip", peer_info[<<R.side, "ip">>])
    BY <1>14, <1>3 DEF SameKind
  <2>6. Checked(R)' /\ SameKind(R)' /\ reg'["console"].ip = peer_info[<<R.side, "ip">>]
    BY <1>14, <1>0, <2>3, <2>4, LoadedMore
  <2>7. Loaded(R, "ip", R.ip)'
    BY <1>0, <2>3, <2>4, <2>5, <2>6, LoadedMore
  <2>8. CommandAt(C, R)'
    BY <2>3, <2>6, <2>7 DEF CommandAt
  <2> QED
    BY <1>0, <1>1, <2>2, <2>3, <2>4, <2>8, LoadedMore DEF SamePeer
<1>15. ASSUME C = <<load_kind, load_peer_port, send>>, Checked(R), SameKind(R), Loaded(R, "ip", R.ip)
      PROVE  Goal
  <2>1. Op("console") = load_kind /\ Tail(C) = <<load_peer_port, send>> /\ Tail(C) # <<>>
    <3> HIDE DEF C, R, Goal
    <3> QED
      BY <1>15, Tails, LongTails DEF Op, C
  <2>2. SamePeer /\ Goes([R EXCEPT !["side"] = Side(peer_session_kind)])
    BY <2>1, ConsoleOps
  <2>3. todo'["console"] = <<load_peer_port, send>>
        /\ reg'["console"] = [R EXCEPT !["side"] = Side(peer_session_kind)]
    BY <2>1, <2>2 DEF Goes
  <2>4. UNCHANGED <<peer_ID, peer_session_kind, peer_info>>
    BY <2>2 DEF SamePeer
  <2>5. /\ reg'["console"].side = Side(peer_session_kind) /\ reg'["console"].ip = R.ip
        /\ reg'["console"].during = R.during
    BY <1>0, <2>3, <2>4, LoadedMore
  <2>6. Checked(R)' /\ Sided(R)'
    BY <1>15, <1>0, <1>4, <2>3, <2>4, <2>5, LoadedMore DEF Sided
  <2>7. Loaded(R, "ip", R.ip)'
    <3>1. Alone(R)' => Alone(R) /\ reg'["console"].side = R.side
      BY <1>15, <2>5 DEF Alone, SameKind
    <3> QED
      BY <1>15, <2>4, <2>5, <3>1 DEF Loaded
  <2>8. CommandAt(C, R)'
    BY <2>3, <2>6, <2>7 DEF CommandAt
  <2> QED
    BY <1>0, <1>1, <2>2, <2>3, <2>4, <2>8, LoadedMore DEF SamePeer
<1>16. ASSUME C = <<load_ip, load_peer_port, send>>, Sided(R), Checked(R)
      PROVE  Goal
  <2>1. Op("console") = load_ip /\ Tail(C) = <<load_peer_port, send>> /\ Tail(C) # <<>>
    <3> HIDE DEF C, R, Goal
    <3> QED
      BY <1>16, Tails, LongTails DEF Op, C
  <2>2. SamePeer /\ Goes([R EXCEPT !["ip"] = peer_info[<<R.side, "ip">>]])
    BY <2>1, ConsoleOps
  <2>3. todo'["console"] = <<load_peer_port, send>>
        /\ reg'["console"] = [R EXCEPT !["ip"] = peer_info[<<R.side, "ip">>]]
    BY <2>1, <2>2 DEF Goes
  <2>4. UNCHANGED <<peer_ID, peer_session_kind, peer_info>>
    BY <2>2 DEF SamePeer
  <2>5. Loaded(R, "ip", peer_info[<<R.side, "ip">>])
    BY <1>16, <1>3
  <2>6. Checked(R)' /\ Sided(R)' /\ reg'["console"].ip = peer_info[<<R.side, "ip">>]
    BY <1>16, <1>0, <2>3, <2>4, LoadedMore
  <2>7. Loaded(R, "ip", R.ip)'
    BY <1>0, <2>3, <2>4, <2>5, <2>6, LoadedMore
  <2>8. CommandAt(C, R)'
    BY <2>3, <2>6, <2>7 DEF CommandAt
  <2> QED
    BY <1>0, <1>1, <2>2, <2>3, <2>4, <2>8, LoadedMore DEF SamePeer
<1>17. ASSUME C = <<load_peer_port, send>>, Sided(R), Checked(R), Loaded(R, "ip", R.ip)
      PROVE  Goal
  <2>1. Op("console") = load_peer_port /\ Tail(C) = <<send>> /\ Tail(C) # <<>>
    <3> HIDE DEF C, R, Goal
    <3> QED
      BY <1>17, Tails, LongTails DEF Op, C
  <2>2. SamePeer /\ Goes([R EXCEPT !["peer_port"] = peer_info[<<R.side, "port">>]])
    BY <2>1, ConsoleOps
  <2>3. todo'["console"] = <<send>>
        /\ reg'["console"] = [R EXCEPT !["peer_port"] = peer_info[<<R.side, "port">>]]
    BY <2>1, <2>2 DEF Goes
  <2>4. UNCHANGED <<peer_ID, peer_session_kind, peer_info>>
    BY <2>2 DEF SamePeer
  <2>5. Loaded(R, "port", peer_info[<<R.side, "port">>])
    BY <1>17, <1>3
  <2>6. /\ Checked(R)' /\ Sided(R)' /\ reg'["console"].ip = R.ip
        /\ reg'["console"].peer_port = peer_info[<<R.side, "port">>]
    BY <1>17, <1>0, <2>3, <2>4, LoadedMore
  <2>7. Loaded(R, "ip", R.ip)' /\ Loaded(R, "port", R.peer_port)'
    BY <1>17, <1>0, <2>3, <2>4, <2>5, <2>6, LoadedMore
  <2>8. CommandAt(C, R)'
    BY <2>3, <2>6, <2>7 DEF CommandAt
  <2> QED
    BY <1>0, <1>1, <2>2, <2>3, <2>4, <2>8, LoadedMore DEF SamePeer
<1>18. ASSUME C = <<send>>, Sided(R), Checked(R), Loaded(R, "ip", R.ip), Loaded(R, "port", R.peer_port)
      PROVE  Goal
  <2>1. Op("console") = send /\ Tail(C) = <<>>
    <3> HIDE DEF C, R, Goal
    <3> QED
      BY <1>18, Tails, LongTails DEF Op, C
  <2>2. /\ UNCHANGED <<peer_ID, peer_info>> /\ Goes(R)
        /\ sent' = [to |-> R.to, ip |-> R.ip, port |-> R.peer_port, during |-> R.during]
    BY <2>1, ConsoleOps
  <2>3. todo'["console"] = <<>>
    BY <2>1, <2>2 DEF Goes
  <2>4. ASSUME Alone(R)  PROVE R.ip = R.peer_port /\ R.ip[1] = R.to
    <3>1. /\ R.ip = peer_info[<<R.side, "ip">>] /\ R.peer_port = peer_info[<<R.side, "port">>]
          /\ peer_ID = R.to /\ peer_ID # 0
      BY <1>18, <2>4 DEF Loaded, Checked
    <3>2. handling \notin {"ip", "ping"}
      BY <2>4 DEF Alone
    <3>3. Consistent(peer_ID)
      BY <3>1, <3>2, RecordReadable
    <3> QED
      BY <1>18, <3>1, <3>3 DEF Consistent, Sided
  <2>5. "ping" \notin R.during => R.ip # Junk /\ R.peer_port # Junk
    BY <1>18 DEF Loaded
  <2>6. MessageDestined'
    BY <2>2, <2>4, <2>5 DEF MessageDestined, Alone
  <2> QED
    BY <2>2, <2>3, <2>6
<1>19. CommandAt(C, R)
  OBVIOUS
<1> HIDE DEF C, R, Goal
<1>20. Goal
  BY <1>7, <1>8, <1>9, <1>10, <1>11, <1>12, <1>13, <1>14, <1>15, <1>16, <1>17, <1>18, <1>19,
     ZenonT(60) DEF CommandAt
<1> QED
  BY <1>20 DEF Goal, C, R

-----------------------------------------------------------------------------
(* Every step keeps the second invariant. *)

LEMMA ConsoleStepDest ==
  ASSUME DestInv, Step("console")
  PROVE  DestInv'
<1>0. "console" \in Thread /\ "main" \in Thread \ {"console"}
  BY DEF Thread
<1>1. /\ Typed' /\ UNCHANGED <<arrived, handling>>
      /\ todo'["main"] = todo["main"]
  BY <1>0, StepElsewhere DEF DestInv
<1>2. Arrivals'
  BY <1>1 DEF DestInv, Arrivals
<1>3. CASE Avoids(todo["console"], PeerKeys)
  <2>1. /\ Avoids(todo'["console"], PeerKeys)
        /\ UNCHANGED <<peer_ID, peer_info, sent>>
    BY <1>0, <1>3, HarmlessStep DEF DestInv
  <2>2. MainInv' /\ ConsoleInv' /\ MessageDestined'
    BY <1>1, <2>1, MainStays DEF DestInv, ConsoleInv, MessageDestined
  <2> QED
    BY <1>1, <1>2, <2>2 DEF DestInv
<1>4. CASE /\ reg["console"].to \in Peer
           /\ handling \in {"ip", "ping"} => handling \in reg["console"].during
           /\ CommandAt(todo["console"], reg["console"])
  <2>1. /\ UNCHANGED <<peer_ID, peer_info>> /\ MessageDestined'
        /\ \/ todo'["console"] = <<>>
           \/ /\ CommandAt(todo["console"], reg["console"])'
              /\ reg'["console"].to = reg["console"].to
              /\ reg'["console"].during = reg["console"].during
    BY <1>4, ConsoleCommand DEF DestInv
  <2>2. MainInv'
    BY <1>1, <2>1, MainStays DEF DestInv
  <2>3. ConsoleInv'
    BY <1>1, <1>4, <2>1, AvoidsNone DEF ConsoleInv
  <2> QED
    BY <1>1, <1>2, <2>1, <2>2, <2>3 DEF DestInv
<1> QED
  BY <1>3, <1>4 DEF DestInv, ConsoleInv

LEMMA MainStepDest ==
  ASSUME DestInv, Step("main")
  PROVE  DestInv'
<1>1. "main" \in Thread
  BY DEF Thread
<1>2. Typed' /\ UNCHANGED arrived
  BY <1>1, StepElsewhere DEF DestInv
<1>3. /\ MainInv' /\ UNCHANGED sent /\ (peer_ID # 0 => peer_ID' # 0)
      /\ handling \notin {"ip", "ping"} => UNCHANGED <<peer_ID, peer_info, peer_session_kind>>
  BY MainHarmless, MainIp, MainPing DEF DestInv
<1>4. ConsoleInv'
  BY <1>3, ConsoleKept DEF DestInv
<1> QED
  BY <1>2, <1>3, <1>4 DEF DestInv, Arrivals, MessageDestined

\* Nothing happens to the fields and the main thread has its list.
LEMMA ConsoleStays ==
  ASSUME ConsoleInv, UNCHANGED <<peer_ID, peer_info, peer_session_kind>>,
         todo'["console"] = todo["console"],
         \A x \in {"to", "side", "ip", "peer_port"} : reg'["console"][x] = reg["console"][x],
         reg["console"].during \subseteq reg'["console"].during,
         handling' \in {"ip", "ping"} =>
           handling' = handling \/ handling' \in reg'["console"].during
  PROVE  ConsoleInv'
<1>1. CASE Avoids(todo["console"], PeerKeys)
  BY <1>1 DEF ConsoleInv
<1>2. CASE /\ reg["console"].to \in Peer
           /\ handling \in {"ip", "ping"} => handling \in reg["console"].during
           /\ CommandAt(todo["console"], reg["console"])
  <2>1. CommandAt(todo["console"], reg["console"])'
    BY <1>2, CommandKept
  <2>2. reg'["console"].to \in Peer
    BY <1>2
  <2>3. handling' \in {"ip", "ping"} => handling' \in reg'["console"].during
    BY <1>2
  <2> QED
    BY <2>1, <2>2, <2>3 DEF ConsoleInv
<1> QED
  BY <1>1, <1>2 DEF ConsoleInv

LEMMA Idle ==
  ASSUME MainInv, todo["main"] = <<>>
  PROVE  Settled /\ handling \notin {"ip", "ping"}
<1>1. ASSUME NEW id, IpAt(id, <<>>)  PROVE FALSE
  BY <1>1, LongTails, Tails DEF IpAt
<1>2. ASSUME NEW id, NEW kind, PingAt(id, kind, <<>>)  PROVE FALSE
  BY <1>2, LongTails, Tails DEF PingAt
<1> QED
  BY <1>1, <1>2 DEF MainInv

LEMMA FrameDest ==
  ASSUME DestInv, NEW p \in arrived, ProcessFrame(p)
  PROVE  DestInv'
<1>1. /\ UNCHANGED <<peer_ID, peer_info, peer_session_kind, sent>> /\ arrived' = arrived \ {p}
      /\ todo["main"] = <<>> /\ todo' = [todo EXCEPT !["main"] = Handler(p)]
      /\ handling' = IF Handler(p) = <<>> THEN "none" ELSE p.type
      /\ reg' = IF todo["console"] = <<>> THEN reg
                ELSE [reg EXCEPT !["console"].during = @ \cup {p.type}]
  BY DEF ProcessFrame, fields
<1>2. /\ Typed' /\ todo'["main"] = Handler(p) /\ todo'["console"] = todo["console"]
      /\ \A x \in {"to", "side", "ip", "peer_port"} : reg'["console"][x] = reg["console"][x]
      /\ reg["console"].during \subseteq reg'["console"].during
      /\ todo["console"] # <<>> => p.type \in reg'["console"].during
  BY <1>1 DEF DestInv, Typed, IsReg, Thread
<1>3. Settled /\ Settled'
  BY <1>1, Idle DEF DestInv, Settled, Consistent
<1>4. p \in PeerPacket \/ p = drop \/ p \in IdPackets
  BY DEF DestInv, Arrivals
<1>5. MainInv'
  <2>1. CASE p.type = "ip"
    <3>1. p.id \in Peer /\ Handler(p) = ResponseIp(p.id)
      BY <1>4, <2>1 DEF Handler, PeerPacket, drop, IdPackets, IdPacket
    <3>2. IpAt(p.id, todo["main"])' /\ todo'["main"] # <<>>
      <4>1. CASE peer_info = None
        <5>1. peer_ID' = 0
          BY <1>1, <1>3, <4>1, ValuesAssumption DEF Settled, Consistent
        <5>2. todo'["main"] =
                <<new_info, PutOp("local", "ip", <<p.id, "local">>),
                  PutOp("local", "port", <<p.id, "local">>),
                  PutOp("public", "ip", <<p.id, "public">>),
                  PutOp("public", "port", <<p.id, "public">>),
                  StoreOp("peer_ID", p.id), StoreOp("connected", FALSE)>>
          BY <1>2, <3>1, <4>1, PeerLists
        <5> QED
          BY <5>1, <5>2, LongTails DEF IpAt
      <4>2. CASE peer_info # None
        <5>1. Partial'
          BY <1>1, <1>3, <4>2 DEF Settled, Consistent, Partial
        <5>2. todo'["main"] =
                <<PutOp("local", "ip", <<p.id, "local">>), PutOp("local", "port", <<p.id, "local">>),
                  PutOp("public", "ip", <<p.id, "public">>),
                  PutOp("public", "port", <<p.id, "public">>),
                  StoreOp("peer_ID", p.id), StoreOp("connected", FALSE)>>
          BY <1>2, <3>1, <4>2, PeerLists
        <5> QED
          BY <5>1, <5>2, LongTails DEF IpAt
      <4> QED
        BY <4>1, <4>2
    <3> QED
      BY <1>1, <1>2, <2>1, <3>1, <3>2 DEF MainInv
  <2>2. CASE p.type = "ping"
    <3>1. /\ p.id \in Peer /\ p.kind \in Kind
          /\ Handler(p) = RequestSession(p.id, <<p.id, "ping">>, p.kind)
      BY <1>4, <2>2 DEF Handler, PeerPacket, drop, IdPackets, IdPacket
    <3>2. CASE Handler(p) = <<>>
      BY <1>1, <1>2, <1>3, <3>2, AvoidsNone DEF MainInv
    <3>3. CASE Handler(p) # <<>>
      <4>1. todo'["main"] =
              <<StoreOp("peer_ID", p.id), StoreOp("connected", TRUE), StoreOp("kind", p.kind), new_info,
                PutOp("local", "ip", <<p.id, "ping">>), PutOp("public", "ip", <<p.id, "ping">>),
                PutOp("public", "port", <<p.id, "ping">>), PutOp("local", "port", <<p.id, "ping">>)>>
        BY <1>2, <3>1, <3>3, PeerLists
      <4>2. PingAt(p.id, p.kind, todo["main"])'
        BY <4>1 DEF PingAt
      <4> QED
        BY <1>1, <2>2, <3>1, <3>3, <4>2 DEF MainInv
    <3> QED
      BY <3>2, <3>3
  <2>3. CASE p.type \in {"pong", "drop", "id"}
    <3>1. Avoids(Handler(p), PeerKeys)
      BY <2>3, HarmlessLists DEF Handler
    <3>2. handling' \notin {"ip", "ping"}
      BY <1>1, <2>3
    <3> QED
      BY <1>2, <1>3, <3>1, <3>2 DEF MainInv
  <2> QED
    BY <1>4, <2>1, <2>2, <2>3 DEF PeerPacket, drop, IdPackets, IdPacket
<1>6. ConsoleInv'
  <2>1. CASE todo["console"] = <<>>
    BY <1>2, <2>1, AvoidsNone DEF ConsoleInv
  <2>2. CASE todo["console"] # <<>>
    <3>1. handling' \in {"ip", "ping"} => handling' \in reg'["console"].during
      BY <1>1, <1>2, <2>2
    <3> QED
      BY <1>1, <1>2, <3>1, ConsoleStays DEF DestInv
  <2> QED
    BY <2>1, <2>2
<1> QED
  BY <1>1, <1>2, <1>5, <1>6 DEF DestInv, Arrivals, MessageDestined

LEMMA TypeDest ==
  ASSUME DestInv, (\E port \in Port : TypeConnect(port)) \/ (\E id \in Peer : TypeSession(id))
  PROVE  DestInv'
<1>1. UNCHANGED <<peer_ID, peer_info, arrived, handling, sent>>
  BY DEF TypeConnect, TypeSession, fields, network
<1>2. CASE \E port \in Port : TypeConnect(port)
  <2>1. PICK port \in Port : TypeConnect(port)
    BY <1>2
  <2>2. IsReg([Locals EXCEPT !.port = port])
    BY DEF Locals, IsReg
  <2>3. Typed' /\ todo'["main"] = todo["main"] /\ todo'["console"] = MakeConnection
    BY <2>1, <2>2 DEF TypeConnect, DestInv, Typed, Thread
  <2>4. ConsoleInv'
    BY <2>3, HarmlessLists DEF ConsoleInv
  <2> QED
    BY <1>1, <2>3, <2>4, MainStays DEF DestInv, Arrivals, MessageDestined
<1>3. CASE \E id \in Peer : TypeSession(id)
  <2>1. PICK id \in Peer : TypeSession(id)
    BY <1>3
  <2>2. \A side : /\ IsReg(Command(id, side)) /\ Command(id, side).to = id
                  /\ Command(id, side).side = side
                  /\ handling # "none" => handling \in Command(id, side).during
    BY DEF Command, Underway, Locals, IsReg
  <2>3. PICK list, side :
          /\ todo' = [todo EXCEPT !["console"] = list]
          /\ reg' = [reg EXCEPT !["console"] = Command(id, side)]
          /\ \/ list = SendMessage
             \/ \E kind \in Kind : list = MakeSession(kind) /\ side = Side(kind)
    BY <2>1 DEF TypeSession
  <2>4. /\ Typed' /\ todo'["main"] = todo["main"] /\ todo'["console"] = list
        /\ reg'["console"] = Command(id, side)
    BY <2>2, <2>3 DEF DestInv, Typed, Thread
  <2>5. CommandAt(todo["console"], reg["console"])'
    <3>1. CASE list = SendMessage
      <4>1. todo'["console"] =
              <<test_peer, test_connected, test_info, load_kind, load_ip, load_kind, load_peer_port, send>>
        BY <2>4, <3>1, PeerLists
      <4> QED
        BY <4>1 DEF CommandAt
    <3>2. ASSUME NEW kind \in Kind, list = MakeSession(kind), side = Side(kind)
          PROVE  CommandAt(todo["console"], reg["console"])'
      <4>1. todo'["console"] =
              <<test_info, test_peer, StoreOp("kind", kind), load_ip, load_peer_port, send>>
        BY <2>4, <3>2, PeerLists
      <4>2. Sided(reg["console"])'
        BY <2>2, <2>4, <3>2 DEF Sided, Side
      <4> QED
        BY <4>1, <4>2 DEF CommandAt
    <3> QED
      BY <2>3, <3>1, <3>2
  <2>6. ConsoleInv'
    BY <1>1, <2>2, <2>4, <2>5 DEF ConsoleInv
  <2> QED
    BY <1>1, <2>4, <2>6, MainStays DEF DestInv, Arrivals, MessageDestined
<1> QED
  BY <1>2, <1>3

\* Only packets come and go.
LEMMA NetworkDest ==
  ASSUME DestInv, UNCHANGED <<fields, threads, sent>>, Arrivals'
  PROVE  DestInv'
<1>1. UNCHANGED <<peer_ID, peer_info, peer_session_kind, todo, reg, handling, sent>>
  BY DEF fields, threads
<1>2. MainInv' /\ ConsoleInv'
  BY <1>1, MainStays, ConsoleStays DEF DestInv
<1> QED
  BY <1>1, <1>2 DEF DestInv, Typed, MessageDestined

LEMMA InitDest == Init => DestInv
<1> SUFFICES ASSUME Init  PROVE DestInv
  OBVIOUS
<1>1. Typed /\ Arrivals /\ MessageDestined
  BY DEF Init, Typed, IsReg, Locals, Arrivals, MessageDestined
<1>2. MainInv /\ ConsoleInv
  BY AvoidsNone DEF Init, MainInv, ConsoleInv, Settled, Thread
<1> QED
  BY <1>1, <1>2 DEF DestInv

LEMMA NextDest == DestInv /\ [Next]_vars => DestInv'
<1> SUFFICES ASSUME DestInv, [Next]_vars  PROVE DestInv'
  OBVIOUS
<1>1. CASE UNCHANGED vars
  <2>1. UNCHANGED <<fields, threads, sent, arrived>>
    BY <1>1 DEF vars, network
  <2> QED
    BY <2>1, NetworkDest DEF DestInv, Arrivals
<1>2. CASE \E port \in asked : Answer(port)
  <2>1. UNCHANGED <<fields, threads, sent>> /\ arrived' \subseteq arrived \cup {drop} \cup IdPackets
    BY <1>2 DEF Answer, drop, IdPackets
  <2> QED
    BY <2>1, NetworkDest DEF DestInv, Arrivals
<1>3. CASE \E p \in PeerPacket : Arrive(p)
  <2>1. UNCHANGED <<fields, threads, sent>> /\ arrived' \subseteq arrived \cup PeerPacket
    BY <1>3 DEF Arrive
  <2> QED
    BY <2>1, NetworkDest DEF DestInv, Arrivals
<1>4. CASE BlockLate
  <2>1. UNCHANGED <<fields, threads, sent>> /\ arrived' \subseteq arrived \cup {drop}
    BY <1>4 DEF BlockLate, drop
  <2> QED
    BY <2>1, NetworkDest DEF DestInv, Arrivals
<1>5. CASE \E p \in arrived : ProcessFrame(p)
  BY <1>5, FrameDest
<1>6. CASE (\E port \in Port : TypeConnect(port)) \/ (\E id \in Peer : TypeSession(id))
  BY <1>6, TypeDest
<1>7. CASE \E t \in Thread : Step(t)
  BY <1>7, ConsoleStepDest, MainStepDest DEF Thread
<1> QED
  BY <1>1, <1>2, <1>3, <1>4, <1>5, <1>6, <1>7 DEF Next

\* What a command sends to a peer goes to an address of the peer it names, whatever
\* steps of the two threads mix, unless response_ip or request_session ran into it; and
\* response_ip alone never makes it go to a field nobody has written (make_session,
\* send_message, response_ip, request_session).
THEOREM MessageDestinedHolds == FairSpec => []MessageDestined
<1>1. DestInv => MessageDestined
  BY DEF DestInv
<1> QED
  BY <1>1, InitDest, NextDest, PTL DEF FairSpec
=============================================================================

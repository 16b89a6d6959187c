--------------------------- MODULE ProgramProofs ---------------------------
(***************************************************************************)
(* Proofs about the programs a user runs, for any names, addresses,        *)
(* accounts and maps, any number of lost connections and any texts.        *)
(* The client program's messages are well formed, its simulation stays on  *)
(* its map instance, and its machine has the interfaces the server         *)
(* described.  The chat program prints what it has received.  An address   *)
(* and a port are taken from the command line as they were typed.          *)
(***************************************************************************)
EXTENDS Negotiation, Chat, SequenceTheorems, FiniteSetTheorems, WellFoundedInduction, TLAPS

-----------------------------------------------------------------------------
(* The client program: the inductive invariant. *)

NameSettings == {"map", "user", "pass", "creator", "node"}
Phases ==
  {"arguments", "connect", "running", "ended", "crashed"} \cup Negotiating

Types ==
  /\ phase \in Phases
  /\ DOMAIN settings = NameSettings \cup {"ip", "port", "new"}
  /\ \A s \in NameSettings : settings[s] \in AnyName
  /\ DOMAIN heard = {"user", "map", "node", "first"}
  /\ DOMAIN typed = {"ip", "port", "wanted"}

\* The map instances of the server.
ServerTypes == made \in Nat /\ instances \subseteq MapName \X AnyName \X (0..made)

\* What has been sent fits the buffer and was read.
Messages ==
  /\ top \in Nat /\ announced \in Nat /\ (top <= BufferSize \/ top = announced)
  /\ phase = "interfaces" => ~recovering
  /\ ~recovering /\ phase \notin {"start", "running", "ended", "crashed"} => announced = 0
  /\ heard.user # Garbled /\ heard.map # Garbled
  /\ phase \in {"map", "node", "interfaces", "start", "running"} =>
       heard.user = <<settings.user, settings.pass>>

\* The first map instance of the run, and those the server has of the map wanted.
Of(i) == <<i[1], i[2]>>
OnMap == {"node", "interfaces", "start", "running"}

Wanting ==
  /\ Past => typed.wanted = Wanted
  /\ recovering \/ phase \in OnMap => settings.creator = typed.wanted[2]

Counted ==
  /\ recovering => made <= (IF remade THEN 2 ELSE 1)
  /\ ~recovering => ~remade /\ made <= (IF phase \in OnMap \cup {"ended", "crashed"} THEN 1 ELSE 0)

FirstOne ==
  /\ phase = "arguments" => ~recovering
  /\ ~recovering /\ phase \in {"arguments", "connect", "signin", "map"} => heard.first = Unset
  /\ recovering => settings.new = 0 /\ heard.first # Unset
  /\ heard.first # Unset => Of(heard.first) = typed.wanted
  /\ \A i, j \in instances : Of(i) = Of(j) => i = j
  /\ heard.first # Unset /\ ~remade =>
       \A i \in instances : Of(i) = typed.wanted => i = heard.first
  /\ phase \in OnMap =>
       /\ heard.first # Unset
       /\ Of(heard.map) = typed.wanted
       /\ heard.map = heard.first \/ remade

OneInstance == Wanting /\ Counted /\ FirstOne

\* The interfaces are those the server has told so far, and in the end all are.
Interfaces ==
  /\ iface \in Seq(Addresses \cup {Unset}) /\ told \in Seq(Addresses)
  /\ Len(told) <= Len(iface)
  /\ announced <= BufferSize => \A k \in 1..Len(told) : iface[k] = told[k]
  /\ recovering \/ phase \in {"start", "running"} => Len(iface) >= 1 /\ Len(told) = Len(iface)

NegotiationInv == Types /\ ServerTypes /\ Messages /\ OneInstance /\ Interfaces

-----------------------------------------------------------------------------
LEMMA InitNegotiation == Init => NegotiationInv
<1> SUFFICES ASSUME Init PROVE NegotiationInv
  OBVIOUS
<1>1. Types
  BY NamesAssumption DEF Init, Types, Phases, NameSettings, AnyName
<1>5. ServerTypes
  BY NamesAssumption DEF Init, ServerTypes, AnyName
<1>2. Messages
  BY UnsetAssumption, BufferAssumption DEF Init, Messages, Garbled
<1>3. OneInstance
  BY NamesAssumption
  DEF Init, OneInstance, Wanting, Counted, FirstOne, Past, OnMap, AnyName, Of
<1>4. Interfaces
  BY DEF Init, Interfaces
<1> QED
  BY <1>1, <1>2, <1>3, <1>4, <1>5 DEF NegotiationInv

\* Reading the command line leaves the server, the buffer and the machine alone.
LEMMA ArgumentStep ==
  ASSUME Types, phase = "arguments", NEW option \in Option, Argument(option)
  PROVE  Types' /\ phase' \in {"arguments", "ended", "crashed"}
<1> USE DEF Types, Phases, Exit, Goto, Crash, NameSettings
<1>0. UNCHANGED heard
  BY DEF Argument, server
<1>1. CASE Redundant(option) /\ Usage
  BY <1>0, <1>1 DEF Usage
<1>2. ASSUME option = "--ip", NEW text, GiveIp(text)
      PROVE  Types' /\ phase' \in {"arguments", "ended", "crashed"}
  BY <1>0, <1>2 DEF GiveIp
<1>3. ASSUME option = "--port", NEW text, GivePort(text)
      PROVE  Types' /\ phase' \in {"arguments", "ended", "crashed"}
  BY <1>0, <1>3 DEF GivePort
<1>4. ASSUME option \in {"--map", "--user", "--pass", "--id", "--node"},
             NEW name \in Typed[option] \cup {Null}, GiveName(option, name)
      PROVE  Types' /\ phase' \in {"arguments", "ended", "crashed"}
  <2>1. name # Null => name \in AnyName
    BY <1>4, NamesAssumption
  <2>2. Setting(option) \in NameSettings
    BY <1>4 DEF Setting, NameSettings
  <2> QED
    BY <1>0, <1>4, <2>1, <2>2 DEF GiveName
<1>5. CASE option \in {"--new", "--free"} /\ GiveMode(option)
  BY <1>0, <1>5 DEF GiveMode
<1> QED
  BY <1>1, <1>2, <1>3, <1>4, <1>5 DEF Argument

LEMMA NextTypes ==
  ASSUME Types, Next
  PROVE  Types'
<1> USE DEF Types, Phases, Negotiating, Exit, Goto, GiveUp, NameSettings
<1>1. ASSUME NEW option \in Option, Argument(option)  PROVE Types'
  BY <1>1, ArgumentStep DEF Argument
<1>2. CASE UnknownArgument \/ EndOfArguments \/ UserProgramArguments
  BY <1>2 DEF UnknownArgument, EndOfArguments, UserProgramArguments, Usage, MandatoryGiven, server
<1>3. CASE Connect \/ ConnectionFails \/ ConnectionClosed
  BY <1>3 DEF Connect, ConnectionFails, ConnectionClosed, server
<1>4. CASE SignIn
  BY <1>4 DEF SignIn
<1>5. CASE SelectMap
  <2>1. Creator \in AnyName
    BY DEF Creator
  <2>2. phase' \in {"node", "ended"} /\ UNCHANGED typed /\ DOMAIN heard' = DOMAIN heard
    BY <1>5 DEF SelectMap, Serve, Selected, MapAnswered
  <2> QED
    BY <1>5, <2>1, <2>2 DEF SelectMap
<1>6. CASE SelectNode
  BY <1>6 DEF SelectNode
<1>7. CASE Synchronize
  BY <1>7 DEF Synchronize, CountInterfaces, ReadInterface, SetCustomInformation, server
<1>8. CASE OverrunCrash \/ Start \/ Resume \/ Interrupt \/ Recover
  BY <1>8, NamesAssumption DEF OverrunCrash, Start, Resume, Interrupt, Recover, Initialize, Crash, server
<1>9. CASE FreedElsewhere \/ \E map \in MapName, user \in User : MadeElsewhere(map, user)
  BY <1>9 DEF FreedElsewhere, MadeElsewhere, program
<1> QED
  BY <1>1, <1>2, <1>3, <1>4, <1>5, <1>6, <1>7, <1>8, <1>9 DEF Next

-----------------------------------------------------------------------------
(* The messages. *)

LEMMA InstanceTuples == ServerTypes => \A i \in instances : i = <<i[1], i[2], i[3]>>
BY DEF ServerTypes

\* An instance is not what nobody has written; there are two of a map at most.
LEMMA InstanceUnset ==
  ServerTypes /\ made <= 2 => \A i \in instances : i # Unset
BY UnsetAssumption DEF ServerTypes

LEMMA Lengths == \A name \in AnyName : LengthOf(name) \in Nat
BY NamesAssumption DEF AnyName, LengthOf

\* What needs no more than 16 bits is not cut.
LEMMA ShortOf == \A k \in Nat : k < 65536 => Short(k) = k
BY DEF Short

\* A message that fits the buffer is read as it was meant.
LEMMA ReadAsMeant ==
  ASSUME NEW names, names[1] \in AnyName, names[2] \in AnyName, NEW rest \in Nat,
         2 + NamesBytes(names) + rest <= BufferSize
  PROVE  /\ Reads(Message(names, rest), names)
         /\ 2 + NamesBytes(names) + rest \in Nat
<1>1. PICK x \in Nat : LengthOf(names[1]) = x
  BY Lengths
<1>2. PICK y \in Nat : LengthOf(names[2]) = y
  BY Lengths
<1>3. NamesBytes(names) = (2 + x + 1) + (2 + y + 1)
  BY <1>1, <1>2 DEF NamesBytes, ItemBytes
<1>4. PICK n \in Nat : n = 2 + NamesBytes(names) + rest
  BY <1>3
<1>5. n = 8 + x + y + rest /\ n <= 65535
  BY <1>3, <1>4, BufferAssumption
<1>6. \A k \in {n, n - 2, x + 1, y + 1} : k \in Nat /\ k < 65536
  BY <1>5
<1>7. Short(n) = n /\ Short(n - 2) = n - 2 /\ Short(x + 1) = x + 1 /\ Short(y + 1) = y + 1
  BY <1>6, ShortOf
<1>8. Item(names[1]).size = x + 1 /\ Item(names[2]).size = y + 1
  BY <1>1, <1>2, <1>7 DEF Item
<1>9. Message(names, rest) =
        [ts |-> n - 2, items |-> [i \in 1..2 |-> Item(names[i])], rest |-> rest, bytes |-> n]
  BY <1>4, <1>7 DEF Message
<1> QED
  BY <1>1, <1>2, <1>4, <1>5, <1>8, <1>9 DEF Reads

\* A message that fits leaves what is past the buffer as it was.
LEMMA Room ==
  ASSUME top \in Nat, top <= BufferSize \/ top = announced,
         NEW bytes \in Nat, bytes <= BufferSize, Write(bytes)
  PROVE  top' \in Nat /\ UNCHANGED announced /\ (top' <= BufferSize \/ top' = announced')
BY BufferAssumption DEF Write, Wrote

LEMMA NextMessages ==
  ASSUME Types, ServerTypes, Messages, Next
  PROVE  Messages'
<1> USE DEF Messages, Exit, Goto, GiveUp
<1>1. ASSUME NEW option \in Option, Argument(option)  PROVE Messages'
  <2>1. phase' \in {"arguments", "ended", "crashed"} /\ UNCHANGED <<written, heard, recovering>>
    BY <1>1, ArgumentStep DEF Argument, server
  <2> QED
    BY <1>1, <2>1 DEF written, Argument
<1>2. CASE UnknownArgument \/ EndOfArguments \/ UserProgramArguments
  BY <1>2 DEF UnknownArgument, EndOfArguments, UserProgramArguments, Usage, MandatoryGiven, server, written
<1>3. CASE Connect \/ ConnectionFails \/ ConnectionClosed
  BY <1>3 DEF Connect, ConnectionFails, ConnectionClosed, server, written, Negotiating
<1>4. CASE SignIn
  <2> DEFINE names == <<settings.user, settings.pass>>
  <2>1. settings.user \in AnyName /\ settings.pass \in AnyName
    BY DEF Types, NameSettings
  <2>2. CASE LengthOf(settings.user) > 20 \/ LengthOf(settings.pass) > 50
    BY <1>4, <2>1, <2>2, Lengths DEF SignIn, written
  <2>3. CASE LengthOf(settings.user) <= 20 /\ LengthOf(settings.pass) <= 50
    <3>1. 2 + NamesBytes(names) + 0 <= BufferSize /\ 2 + NamesBytes(names) + 0 = 2 + NamesBytes(names)
      BY <2>1, <2>3, Lengths, BufferAssumption DEF NamesBytes, ItemBytes
    <3>2. Reads(Message(names, 0), names) /\ 2 + NamesBytes(names) \in Nat
      BY <2>1, <3>1, ReadAsMeant
    <3>3. Write(2 + NamesBytes(names)) /\ heard' = [heard EXCEPT !.user = names] /\ UNCHANGED settings
      BY <1>4, <2>1, <2>3, <3>2, Lengths DEF SignIn, Understood
    <3> QED
      BY <1>4, <3>1, <3>2, <3>3, Room DEF Types, SignIn, Garbled
  <2> QED
    BY <2>1, <2>2, <2>3, Lengths
<1>5. CASE SelectMap
  <2> DEFINE names == <<settings.map, Creator>>
  <2>1. settings.map \in AnyName /\ Creator \in AnyName
    BY DEF Types, NameSettings, Creator
  <2>2. UNCHANGED <<settings.user, settings.pass>>
    BY <1>5 DEF SelectMap, Types, NameSettings
  <2>3. CASE MapTooLong(settings.map, Creator)
    BY <1>5, <2>2, <2>3 DEF SelectMap, written
  <2>4. CASE ~MapTooLong(settings.map, Creator)
    <3>1. 2 + NamesBytes(names) + 4 <= BufferSize
      BY <2>1, <2>4, Lengths, BufferAssumption DEF NamesBytes, ItemBytes, MapTooLong
    <3>2. Reads(Message(names, 4), names) /\ 2 + NamesBytes(names) + 4 \in Nat
      BY <2>1, <3>1, ReadAsMeant
    <3>3. PICK command \in Answers(settings.map, Creator) :
            Serve(command, settings.map, Creator) /\ MapAnswered(command)
      BY <1>5, <2>4, <3>2 DEF SelectMap
    <3>4. Write(2 + NamesBytes(names) + 4)
      BY <1>5, <2>4 DEF SelectMap
    <3>5. UNCHANGED heard.user /\ heard'.map # Garbled
      <4>1. UNCHANGED heard \/ \E i \in Instance(settings.map, Creator)
                                  \cup {<<settings.map, Creator, made + 1>>} : Selected(i)
        BY <3>3 DEF Serve
      <4>2. \A i \in Instance(settings.map, Creator) \cup {<<settings.map, Creator, made + 1>>} :
              i # Garbled
        BY InstanceTuples DEF Instance, Garbled
      <4> QED
        BY <4>1, <4>2 DEF Selected, Types
    <3> QED
      BY <1>5, <2>2, <3>1, <3>2, <3>3, <3>4, <3>5, Room DEF SelectMap, MapAnswered
  <2> QED
    BY <2>3, <2>4
<1>6. CASE SelectNode
  <2>1. CASE settings.node = Empty
    BY <1>6, <2>1 DEF SelectNode, written
  <2>2. CASE settings.node # Empty
    <3>1. LengthOf(settings.node) \in Nat
      BY Lengths DEF Types, NameSettings
    <3>2. UNCHANGED <<settings, heard.user, heard.map, recovering>> /\ phase = "node"
      BY <1>6, <2>2 DEF SelectNode, Types
    <3>3. CASE LengthOf(settings.node) + 1 > BufferSize - 2
      <4>1. Write(2) /\ phase' = "ended"
        BY <1>6, <2>2, <3>1, <3>3, BufferAssumption DEF SelectNode
      <4> QED
        BY <3>2, <4>1, BufferAssumption, Room
    <3>4. CASE LengthOf(settings.node) + 1 <= BufferSize - 2
      <4>1. /\ Write(2 + (LengthOf(settings.node) + 1)) /\ phase' \in {"start", "interfaces", "ended"}
            /\ phase' = "interfaces" => ~recovering
        BY <1>6, <2>2, <3>1, <3>4, BufferAssumption DEF SelectNode
      <4> QED
        BY <3>1, <3>2, <3>4, <4>1, BufferAssumption, Room
    <3> QED
      BY <3>1, <3>3, <3>4, BufferAssumption
  <2> QED
    BY <2>1, <2>2
<1>7. ASSUME NEW count \in Counts, CountInterfaces(count)  PROVE Messages'
  BY <1>7 DEF CountInterfaces, server, written
<1>10. ASSUME NEW address \in Addresses, NEW size \in Sizes, ReadInterface(address, size)
       PROVE  Messages'
  <2>1. /\ phase' \in {"interfaces", "ended"} /\ phase = "interfaces"
        /\ UNCHANGED <<settings, recovering, heard>>
        /\ UNCHANGED written \/ (size \in 1..BufferSize /\ Write(size))
    BY <1>10 DEF ReadInterface
  <2>2. size \in 1..BufferSize => size \in Nat /\ size <= BufferSize
    BY BufferAssumption
  <2> QED
    BY <2>1, <2>2, Room DEF written
<1>11. ASSUME NEW info \in Info, NEW size \in Sizes, SetCustomInformation(info, size)
       PROVE  Messages'
  <2>1. /\ phase' \in {"start", "ended"} /\ phase = "interfaces"
        /\ UNCHANGED <<settings, recovering, heard>>
        /\ UNCHANGED written \/ (Wrote(size) /\ announced' = size)
    BY <1>11 DEF SetCustomInformation, server
  <2>2. size \in Nat /\ BufferSize \in Nat
    BY CountsAssumption, BufferAssumption
  <2> QED
    BY <2>1, <2>2 DEF written, Wrote
<1>8. CASE OverrunCrash \/ Start \/ Resume \/ Interrupt \/ Recover
  BY <1>8
  DEF OverrunCrash, Start, Resume, Interrupt, Recover, Initialize, Crash, server, Types,
      NameSettings, written
<1>9. CASE FreedElsewhere \/ \E map \in MapName, user \in User : MadeElsewhere(map, user)
  BY <1>9 DEF FreedElsewhere, MadeElsewhere, program, written
<1> QED
  BY <1>1, <1>2, <1>3, <1>4, <1>5, <1>6, <1>7, <1>8, <1>9, <1>10, <1>11 DEF Next, Synchronize

-----------------------------------------------------------------------------
(* The map instances. *)

Stages == {{"arguments"}, {"connect", "signin", "map"}, OnMap}
SameStage == phase' \in {"ended", "crashed"} \/ \E S \in Stages : phase \in S /\ phase' \in S

\* What leaves instances and names alone and stays on one side of the map.
LEMMA SameInstances ==
  ASSUME ServerTypes, OneInstance, SameStage,
         UNCHANGED <<settings, typed, recovering, heard.map, heard.first, instances, made, remade>>
  PROVE  OneInstance'
<1> USE DEF OneInstance, SameStage, Stages, OnMap
<1>1. Wanting'
  BY DEF Wanting, Past, Wanted
<1>2. Counted'
  BY DEF Counted, ServerTypes
<1>3. FirstOne'
  BY DEF FirstOne, Past, Of
<1> QED
  BY <1>1, <1>2, <1>3

\* Before the map is asked for, nothing is said of an instance.
LEMMA ArgumentInstances ==
  ASSUME Types, ServerTypes, OneInstance, NEW option \in Option, Argument(option)
  PROVE  OneInstance'
<1>1. /\ phase = "arguments" /\ phase' \in {"arguments", "ended", "crashed"}
      /\ UNCHANGED <<recovering, heard, instances, made, remade>>
  BY ArgumentStep DEF Argument, server
<1>2. ~recovering /\ heard.first = Unset /\ made = 0 /\ ~remade
  BY <1>1 DEF OneInstance, Counted, FirstOne, OnMap, ServerTypes
<1> QED
  BY <1>1, <1>2 DEF OneInstance, Wanting, Counted, FirstOne, OnMap, Past, Of

LEMMA SelectMapInstances ==
  ASSUME Types, ServerTypes, OneInstance, SelectMap
  PROVE  OneInstance'
<1> DEFINE map == settings.map
           old == Instance(map, Creator)
<1>1. /\ phase = "map" /\ typed.wanted = <<map, Creator>> /\ made \in Nat
      /\ UNCHANGED <<typed, recovering, remade, settings.map, settings.user, settings.new>>
      /\ settings'.creator = Creator
  BY DEF SelectMap, OneInstance, Wanting, Past, Wanted, Creator, Types, ServerTypes, NameSettings
<1>2. Wanting' /\ Wanted' = Wanted
  BY <1>1 DEF Wanting, Wanted, Creator
<1>3. CASE phase' = "ended"
  <2>1. UNCHANGED <<heard.first, made>> /\ instances' \subseteq instances
    BY <1>3 DEF SelectMap, GiveUp, Exit, Serve, MapAnswered, Goto, Types
  <2> QED
    BY <1>1, <1>2, <1>3, <2>1 DEF OneInstance, Counted, FirstOne, OnMap
<1>4. CASE phase' # "ended"
  <2>1. /\ "MapSelected" \in Answers(map, Creator) /\ phase' = "node"
        /\ Serve("MapSelected", map, Creator)
    BY <1>4 DEF SelectMap, GiveUp, Exit, MapAnswered, Goto
  <2>2. CASE old # {}
    <3>1. PICK i \in old : Selected(i) /\ UNCHANGED <<instances, made>>
      BY <2>1, <2>2 DEF Serve
    <3>2. Of(i) = typed.wanted /\ i # Unset /\ i \in instances
      <4>1. made <= 2
        BY <1>1 DEF OneInstance, Counted
      <4> QED
        BY <1>1, <3>1, <4>1, InstanceUnset DEF Instance, Of
    <3>3. heard'.map = i /\ heard'.first = IF heard.first = Unset THEN i ELSE heard.first
      BY <3>1 DEF Selected, Types
    <3> QED
      BY <1>1, <1>2, <2>1, <3>1, <3>2, <3>3 DEF OneInstance, Counted, FirstOne, OnMap
  <2>3. CASE old = {}
    <3> DEFINE i == <<map, Creator, made + 1>>
    <3>1. settings.new = 1 /\ map \in MapName
      BY <2>1, <2>3 DEF Answers
    <3>2. ~recovering /\ made = 0 /\ ~remade /\ heard.first = Unset
      BY <1>1, <3>1 DEF OneInstance, Counted, FirstOne, OnMap
    <3>3. made' = 1 /\ instances' = instances \cup {i} /\ Selected(i)
      BY <2>1, <2>3, <3>2 DEF Serve
    <3>4. Creator \in AnyName
      BY DEF Creator, Types, NameSettings
    <3>5. Of(i) = typed.wanted /\ i # Unset
      BY <1>1, <3>1, <3>2, <3>4, UnsetAssumption DEF Of
    <3>6. heard'.map = i /\ heard'.first = i
      BY <3>2, <3>3 DEF Selected, Types
    <3>7. \A j \in instances : Of(j) # typed.wanted
      BY <1>1, <2>3 DEF Instance, Of
    <3> HIDE DEF i
    <3> QED
      BY <1>1, <1>2, <2>1, <3>2, <3>3, <3>5, <3>6, <3>7 DEF OneInstance, Counted, FirstOne, OnMap
  <2> QED
    BY <2>2, <2>3
<1> QED
  BY <1>3, <1>4

LEMMA NextInstances ==
  ASSUME Types, ServerTypes, OneInstance, Next
  PROVE  OneInstance'
<1> USE DEF Exit, Goto, GiveUp
<1>1. ASSUME NEW option \in Option, Argument(option)  PROVE OneInstance'
  BY <1>1, ArgumentInstances
<1>2. CASE UnknownArgument
  BY <1>2, SameInstances DEF UnknownArgument, Usage, server, SameStage
<1>3. CASE EndOfArguments \/ UserProgramArguments
  <2>1. /\ phase = "arguments" /\ UNCHANGED <<settings, recovering, heard, instances, made, remade>>
        /\ \/ phase' = "connect" /\ typed' = [typed EXCEPT !.wanted = Wanted]
           \/ phase' = "ended" /\ UNCHANGED typed
    BY <1>3 DEF EndOfArguments, UserProgramArguments, MandatoryGiven, server
  <2>2. ~recovering /\ heard.first = Unset /\ made = 0 /\ ~remade
    BY <2>1 DEF OneInstance, Counted, FirstOne, OnMap, ServerTypes
  <2>3. Wanting'
    BY <2>1, <2>2 DEF Wanting, Wanted, Past, OnMap, Types
  <2> QED
    BY <2>1, <2>2, <2>3 DEF OneInstance, Counted, FirstOne, OnMap
<1>4. CASE Connect \/ ConnectionFails \/ ConnectionClosed
  BY <1>4, SameInstances
  DEF Connect, ConnectionFails, ConnectionClosed, server, SameStage, Stages, OnMap, Negotiating
<1>5. CASE SignIn
  <2>1. UNCHANGED <<heard.map, heard.first>> /\ phase = "signin" /\ phase' \in {"map", "ended"}
    BY <1>5 DEF SignIn, Types
  <2> QED
    BY <1>5, <2>1, SameInstances DEF SignIn, SameStage, Stages
<1>6. CASE SelectMap
  BY <1>6, SelectMapInstances
<1>7. CASE SelectNode
  <2>1. /\ UNCHANGED <<heard.map, heard.first>> /\ phase = "node"
        /\ phase' \in {"start", "interfaces", "ended"}
    BY <1>7 DEF SelectNode, Types
  <2> QED
    BY <1>7, <2>1, SameInstances DEF SelectNode, SameStage, Stages, OnMap
<1>8. CASE Synchronize
  BY <1>8, SameInstances
  DEF Synchronize, CountInterfaces, ReadInterface, SetCustomInformation, server, SameStage, Stages, OnMap
<1>9. CASE OverrunCrash \/ Start \/ Resume \/ Interrupt
  BY <1>9, SameInstances DEF OverrunCrash, Start, Resume, Interrupt, Initialize, Crash, server, SameStage, Stages, OnMap
<1>10. CASE Recover
  <2>1. /\ phase = "running" /\ phase' = "connect" /\ recovering' = TRUE
        /\ settings' = [settings EXCEPT !.new = 0]
        /\ UNCHANGED <<typed, heard, instances, made, remade>>
    BY <1>10 DEF Recover, server
  <2>2. settings'.new = 0 /\ UNCHANGED <<settings.map, settings.creator, settings.user>>
    BY <2>1 DEF Types, NameSettings
  <2>3. typed.wanted = <<settings.map, settings.creator>>
    BY <2>1 DEF OneInstance, Wanting, Past, Wanted, OnMap
  <2>4. Wanting'
    BY <2>1, <2>2, <2>3 DEF Wanting, Wanted, Past, OnMap
  <2> QED
    BY <2>1, <2>2, <2>4 DEF OneInstance, Counted, FirstOne, OnMap, ServerTypes
<1>11. CASE FreedElsewhere
  <2>1. instances' = {} /\ UNCHANGED <<phase, settings, typed, heard, recovering, made, remade>>
    BY <1>11 DEF FreedElsewhere, program
  <2> QED
    BY <2>1 DEF OneInstance, Wanting, Counted, FirstOne, Past, Wanted
<1>12. ASSUME NEW map \in MapName, NEW user \in User, MadeElsewhere(map, user)  PROVE OneInstance'
  <2>1. /\ phase \in {"connect", "running"} /\ recovering /\ ~remade /\ remade' = TRUE
        /\ made' = made + 1 /\ instances' = {<<map, user, made + 1>>}
        /\ UNCHANGED <<phase, settings, typed, heard, recovering>>
    BY <1>12 DEF MadeElsewhere, program
  <2> QED
    BY <2>1 DEF OneInstance, Wanting, Counted, FirstOne, Past, Wanted, ServerTypes
<1> QED
  BY <1>1, <1>2, <1>3, <1>4, <1>5, <1>6, <1>7, <1>8, <1>9, <1>10, <1>11, <1>12 DEF Next

LEMMA NextServerTypes ==
  ASSUME Types, ServerTypes, Next
  PROVE  ServerTypes'
<1> USE DEF ServerTypes
<1>1. CASE UNCHANGED <<instances, made>>
  BY <1>1
<1>2. CASE SelectMap
  <2>1. Creator \in AnyName
    BY DEF Creator, Types, NameSettings
  <2>2. CASE UNCHANGED <<instances, made>>
    BY <2>2
  <2>3. CASE \E command \in Answers(settings.map, Creator) : Serve(command, settings.map, Creator)
    <3>1. PICK command \in Answers(settings.map, Creator) : Serve(command, settings.map, Creator)
      BY <2>3
    <3>2. CASE command = "MapSelected" /\ Instance(settings.map, Creator) = {}
      <4>1. settings.map \in MapName
        BY <3>2 DEF Answers
      <4> QED
        BY <2>1, <3>1, <3>2, <4>1 DEF Serve
    <3>3. CASE ~(command = "MapSelected" /\ Instance(settings.map, Creator) = {})
      BY <3>1, <3>3 DEF Serve
    <3> QED
      BY <3>2, <3>3
  <2> QED
    BY <1>2, <2>2, <2>3 DEF SelectMap
<1>3. CASE FreedElsewhere
  BY <1>3 DEF FreedElsewhere
<1>4. ASSUME NEW map \in MapName, NEW user \in User, MadeElsewhere(map, user)  PROVE ServerTypes'
  BY <1>4, NamesAssumption DEF MadeElsewhere, AnyName
<1>5. ASSUME NEW option \in Option, Argument(option)  PROVE UNCHANGED <<instances, made>>
  BY <1>5 DEF Argument, server
<1> QED
  BY <1>1, <1>2, <1>3, <1>4, <1>5
  DEF Next, UnknownArgument, EndOfArguments, UserProgramArguments, Connect, ConnectionFails,
      ConnectionClosed, SignIn, SelectNode, Synchronize, CountInterfaces, ReadInterface,
      SetCustomInformation, OverrunCrash, Start, Resume, Interrupt, Recover, server

-----------------------------------------------------------------------------
(* The interfaces. *)

LEMMA NextInterfaces ==
  ASSUME Types, Messages, Interfaces, Next
  PROVE  Interfaces'
<1> USE DEF Exit, Goto, GiveUp
<1>1. CASE /\ UNCHANGED <<iface, told, recovering, announced>>
           /\ phase' \in {"start", "running"} => phase \in {"start", "running"} \/ recovering
  BY <1>1 DEF Interfaces
<1>2. ASSUME NEW count \in Counts, CountInterfaces(count)  PROVE Interfaces'
  <2>1. CASE count < 1
    BY <1>1, <1>2, <2>1 DEF CountInterfaces, server, written
  <2>2. CASE ~(count < 1)
    <3>1. /\ iface = <<>> /\ iface' = [i \in 1..count |-> Unset] /\ UNCHANGED <<told, recovering>>
          /\ phase' = "interfaces" /\ count \in Nat
      BY <1>2, <2>2, CountsAssumption DEF CountInterfaces, Instantiated, server
    <3>2. told = <<>> /\ ~recovering
      BY <3>1 DEF Interfaces
    <3>3. iface' \in Seq(Addresses \cup {Unset}) /\ Len(iface') = count
      BY <3>1
    <3> QED
      BY <3>1, <3>2, <3>3 DEF Interfaces
  <2> QED
    BY <2>1, <2>2
<1>3. ASSUME NEW address \in Addresses, NEW size \in Sizes, ReadInterface(address, size)
      PROVE  Interfaces'
  <2>1. UNCHANGED announced
    BY <1>3 DEF ReadInterface, written, Write
  <2>2. CASE UNCHANGED told
    BY <1>1, <1>3, <2>1, <2>2 DEF ReadInterface
  <2>3. CASE ~ UNCHANGED told
    <3>1. /\ Len(told) \in 0..(Len(iface) - 1) /\ told' = Append(told, address)
          /\ iface' = [iface EXCEPT ![Len(told) + 1] = address] /\ phase' = "interfaces"
          /\ UNCHANGED recovering
      BY <1>3, <2>3 DEF ReadInterface, Rounds, InitInterface
    <3>2. ~recovering
      BY <3>1 DEF Interfaces
    <3> QED
      BY <2>1, <3>1, <3>2 DEF Interfaces
  <2> QED
    BY <2>2, <2>3
<1>4. ASSUME NEW info \in Info, NEW size \in Sizes, SetCustomInformation(info, size)
      PROVE  Interfaces'
  <2>1. /\ phase = "interfaces" /\ iface # <<>> /\ ~(Len(told) \in 0..(Len(iface) - 1))
        /\ UNCHANGED <<told, recovering>>
        /\ UNCHANGED <<iface, announced>> \/ (UNCHANGED iface /\ announced' = size)
             \/ (size > BufferSize /\ announced' = size /\ iface' \in [DOMAIN iface -> Addresses \cup {Unset}])
    BY <1>4 DEF SetCustomInformation, Rounds, server, written
  <2>2. Len(told) = Len(iface) /\ Len(iface) >= 1
    BY <2>1 DEF Interfaces
  <2>3. announced = 0 /\ BufferSize \in Nat /\ size \in Nat
    BY <2>1, BufferAssumption, CountsAssumption DEF Messages
  <2>4. iface' \in Seq(Addresses \cup {Unset}) /\ Len(iface') = Len(iface)
    BY <2>1 DEF Interfaces
  <2>5. announced' <= BufferSize => UNCHANGED iface
    BY <2>1, <2>3
  <2> QED
    BY <2>1, <2>2, <2>3, <2>4, <2>5 DEF Interfaces
<1>5. CASE Recover
  BY <1>5 DEF Recover, Interfaces, machine, server, written
<1>6. ASSUME NEW option \in Option, Argument(option)  PROVE Interfaces'
  BY <1>1, <1>6, ArgumentStep DEF Argument, machine, server, written
<1>7. CASE OverrunCrash \/ Start \/ Resume \/ Interrupt
  BY <1>1, <1>7 DEF OverrunCrash, Start, Resume, Interrupt, Initialize, Crash, machine, server, written
<1> QED
  BY <1>1, <1>2, <1>3, <1>4, <1>5, <1>6, <1>7
  DEF Next, UnknownArgument, EndOfArguments, UserProgramArguments, MandatoryGiven, Usage, Connect,
      ConnectionFails, ConnectionClosed, SignIn, SelectMap, MapAnswered, SelectNode, Synchronize,
      FreedElsewhere, MadeElsewhere, machine, server, program, written, Write

-----------------------------------------------------------------------------
LEMMA NextNegotiation == NegotiationInv /\ [Next]_vars => NegotiationInv'
<1> SUFFICES ASSUME NegotiationInv, [Next]_vars PROVE NegotiationInv'
  OBVIOUS
<1>1. CASE Next
  BY <1>1, NextTypes, NextServerTypes, NextMessages, NextInstances, NextInterfaces
  DEF NegotiationInv
<1>2. CASE UNCHANGED vars
  BY <1>2
  DEF NegotiationInv, Types, ServerTypes, Messages, OneInstance, Wanting, Counted, FirstOne,
      Interfaces, Past, Wanted, vars, program, machine, server, written
<1> QED
  BY <1>1, <1>2

LEMMA AlwaysNegotiationInv == Spec => []NegotiationInv
  BY InitNegotiation, NextNegotiation, PTL DEF Spec

\* Whatever the names on the command line and the sizes the server announces: what the
\* negotiations write stays within the buffer, except custom information that is longer
\* than it, and the server reads the names out of it (doSigningInNegotiations,
\* doMapSelectingNegotiations, doNodeSelectingNegotiations, readInterfaceInformation).
THEOREM WellFormedHolds == Spec => []WellFormed
<1>1. NegotiationInv => WellFormed
  BY DEF NegotiationInv, Messages, WellFormed
<1> QED
  BY <1>1, AlwaysNegotiationInv, PTL

\* However often the connection is lost, a simulation runs on the map instance the
\* command line asked for, and on the one it began on unless another session made a
\* new one; it has made one at most (doMapSelectingNegotiations, recoverSimulation).
THEOREM SameInstanceHolds == Spec => []SameInstance
<1>1. NegotiationInv => SameInstance
  <2> SUFFICES ASSUME NegotiationInv  PROVE SameInstance
    OBVIOUS
  <2>1. phase = "running" => heard.user = <<settings.user, settings.pass>>
    BY DEF NegotiationInv, Messages
  <2>2. phase = "running" => <<heard.map[1], heard.map[2]>> = typed.wanted
    BY DEF NegotiationInv, OneInstance, FirstOne, OnMap, Of
  <2>3. phase = "running" => heard.map = heard.first \/ remade
    BY DEF NegotiationInv, OneInstance, FirstOne, OnMap
  <2>4. recovering => made <= (IF remade THEN 2 ELSE 1)
    BY DEF NegotiationInv, OneInstance, Counted
  <2> QED
    BY <2>1, <2>2, <2>3, <2>4, Zenon DEF SameInstance
<1> QED
  BY <1>1, AlwaysNegotiationInv, PTL

\* For any number of interfaces, and unless custom information was longer than the
\* buffer: a machine that is started has all of them as the server described them
\* (readInterfaceInformation, SimulatedMachine::initialize).
THEOREM InterfacesValidHolds == Spec => []InterfacesValid
<1>1. NegotiationInv => InterfacesValid
  <2> SUFFICES ASSUME Interfaces, phase \in {"start", "running"}, announced <= BufferSize
               PROVE  InterfacesValid
    BY DEF NegotiationInv, InterfacesValid
  <2>1. Len(iface) >= 1 /\ Len(told) = Len(iface)
    BY DEF Interfaces
  <2>2. iface = told
    BY <2>1 DEF Interfaces
  <2>3. \A i \in 1..Len(iface) : iface[i] \in Addresses
    BY <2>2 DEF Interfaces
  <2>4. \A i \in 1..Len(iface) : iface[i] # Unset
    <3>1. Unset \notin Addresses
      BY UnsetAssumption
    <3> QED
      BY <2>3, <3>1
  <2> QED
    BY <2>1, <2>2, <2>4 DEF InterfacesValid
<1> QED
  BY <1>1, AlwaysNegotiationInv, PTL

-----------------------------------------------------------------------------
(* The chat programs: what recv prints is what it has brought.              *)

\* A connection carries letters, and a socket is a side of one that was made.
Carries(c) == c = [open |-> c.open, data |-> c.data, port |-> c.port]
              /\ c.data \in [Side -> Seq(Letter)]
IsSocket(s, n) == s # NoSocket => s[1] \in 1..n /\ s[2] \in Side

\* The buffer is clear behind the longest message yet, and what was printed last is
\* what the property says.
Clear(mess, longest) ==
  DOMAIN mess = 1..MaxSize /\ \A i \in 1..MaxSize : i > longest => mess[i] = Zero
PrintsIt(s) ==
  /\ IsPrefix(s.got, s.text)
  /\ s.longest = Len(s.got) /\ s.longest < MaxSize => s.text = s.got

Connections ==
  /\ conns = [i \in 1..Len(conns) |-> conns[i]] /\ Len(conns) \in Nat
  /\ \A i \in 1..Len(conns) : Carries(conns[i])
  /\ DOMAIN peer_socket = Program /\ \A p \in Program : IsSocket(peer_socket[p], Len(conns))
  /\ pending \in [Program -> Seq(1..Len(conns))]

Buffers ==
  /\ DOMAIN recv_mess = Program /\ DOMAIN shown = Program
  /\ \A p \in Program :
       /\ shown[p] = [got |-> shown[p].got, text |-> shown[p].text, longest |-> shown[p].longest]
       /\ shown[p].longest \in Nat
       /\ Clear(recv_mess[p], shown[p].longest)
       /\ PrintsIt(shown[p])

ChatInv == Connections /\ Buffers

\* A non-empty set of natural numbers has a least one.
Less == {n \in Nat \X Nat : n[1] < n[2]}
LEMMA Least ==
  ASSUME NEW T \in SUBSET Nat, T # {}
  PROVE  \E x \in T : \A y \in T : x <= y
<1>1. IsWellFoundedOn(Less, Nat)
  BY NatLessThanWellFounded DEF OpToRel, Less
<1>2. PICK x \in T : \A y \in T : <<y, x>> \notin Less
  BY <1>1, WFMin
<1>3. \A y \in T : ~(y < x)
  BY <1>2 DEF Less
<1> QED
  BY <1>3

LEMMA PrefixOf ==
  ASSUME NEW V, NEW W, NEW s \in Seq(V), NEW t \in Seq(W), Len(s) <= Len(t),
         \A i \in 1..Len(s) : t[i] = s[i]
  PROVE  IsPrefix(s, t) /\ (Len(t) = Len(s) => t = s)
<1>1. Len(s) \in Nat /\ Len(t) \in Nat /\ s \in Seq(V \cup W) /\ t \in Seq(V \cup W)
  OBVIOUS
<1>2. /\ SubSeq(t, 1, Len(s)) \in Seq(V \cup W) /\ Len(SubSeq(t, 1, Len(s))) = Len(s)
      /\ \A i \in 1..Len(s) : SubSeq(t, 1, Len(s))[i] = t[i]
  BY <1>1
<1>3. SubSeq(t, 1, Len(s)) = s
  BY <1>1, <1>2, SeqEqual
<1>4. SubSeq(s, 1, Len(s)) = s /\ SubSeq(t, 1, Len(t)) = t
  BY <1>1
<1> QED
  BY <1>3, <1>4 DEF IsPrefix

\* What is printed after recv has brought got (Filled and Printed).
LEMMA PrintedGot ==
  ASSUME NEW mess, NEW longest \in Nat, Clear(mess, longest),
         NEW got \in Seq(Letter), Len(got) <= MaxSize,
         NEW most \in Nat, most = IF Len(got) > longest THEN Len(got) ELSE longest,
         NEW filled, filled = Filled(mess, got)
  PROVE  /\ Clear(filled, most)
         /\ IsPrefix(got, Printed(filled))
         /\ most = Len(got) /\ most < MaxSize => Printed(filled) = got
<1> DEFINE zeros == { i \in 1..MaxSize : filled[i] = Zero }
<1>1. MaxSize \in Nat /\ Len(got) \in Nat /\ \A i \in 1..Len(got) : got[i] \in Letter /\ got[i] # Zero
  BY TextsAssumption, SizeAssumption
<1>2. /\ DOMAIN filled = 1..MaxSize
      /\ \A i \in 1..MaxSize : filled[i] = IF i <= Len(got) THEN got[i] ELSE mess[i]
      /\ filled = [i \in 1..MaxSize |-> filled[i]]
  BY DEF Filled
<1>3. Clear(filled, most)
  BY <1>1, <1>2 DEF Clear
<1>4. \A i \in zeros : i \in Nat /\ i > Len(got) /\ i <= MaxSize
  BY <1>1, <1>2
<1>5. PICK V : filled \in Seq(V)
  <2>1. filled \in Seq({filled[i] : i \in 1..MaxSize})
    BY <1>1, <1>2
  <2> QED
    BY <2>1
<1>6. Len(filled) = MaxSize
  BY <1>1, <1>2
<1>7. \A i \in 1..Len(got) : filled[i] = got[i] /\ i \in 1..MaxSize
  BY <1>1, <1>2
<1>8. CASE zeros = {}
  <2>1. Printed(filled) = Append(filled, "...")
    BY <1>8 DEF Printed
  <2>2. /\ Append(filled, "...") \in Seq(V \cup {"..."}) /\ Len(Append(filled, "...")) = MaxSize + 1
        /\ \A i \in 1..MaxSize : Append(filled, "...")[i] = filled[i]
    BY <1>1, <1>5, <1>6
  <2>3. IsPrefix(got, Append(filled, "..."))
    <3>1. PICK t \in Seq(V \cup {"..."}) : t = Append(filled, "...")
      BY <2>2
    <3>2. Len(got) <= Len(t) /\ \A i \in 1..Len(got) : t[i] = got[i]
      BY <1>1, <1>7, <2>2, <3>1
    <3> QED
      BY <3>1, <3>2, PrefixOf
  <2>4. most < MaxSize => FALSE
    <3>1. most < MaxSize => MaxSize \in 1..MaxSize
      BY <1>1
    <3> QED
      BY <1>1, <1>3, <1>8, <3>1 DEF Clear
  <2> QED
    BY <1>3, <2>1, <2>3, <2>4
<1>9. CASE zeros # {}
  <2> DEFINE z == CHOOSE i \in zeros : \A j \in zeros : i <= j
  <2>1. z \in zeros /\ \A j \in zeros : z <= j
    <3>1. \E i \in zeros : \A j \in zeros : i <= j
      BY <1>4, <1>9, Least
    <3> QED
      BY <3>1
  <2>2. Printed(filled) = SubSeq(filled, 1, z - 1)
    BY <1>9 DEF Printed
  <2> HIDE DEF z
  <2>3. z - 1 \in Nat /\ z - 1 >= Len(got) /\ z - 1 < MaxSize
    BY <1>1, <1>4, <2>1
  <2>4. /\ SubSeq(filled, 1, z - 1) \in Seq(V) /\ Len(SubSeq(filled, 1, z - 1)) = z - 1
        /\ \A i \in 1..(z - 1) : SubSeq(filled, 1, z - 1)[i] = filled[i]
    BY <1>5, <1>6, <2>3
  <2>5. /\ IsPrefix(got, SubSeq(filled, 1, z - 1))
        /\ z - 1 = Len(got) => SubSeq(filled, 1, z - 1) = got
    <3>1. PICK t \in Seq(V) : t = SubSeq(filled, 1, z - 1)
      BY <2>4
    <3>2. Len(got) <= Len(t) /\ \A i \in 1..Len(got) : t[i] = got[i]
      BY <1>1, <1>7, <2>3, <2>4, <3>1
    <3>3. IsPrefix(got, t) /\ (Len(t) = Len(got) => t = got)
      BY <3>2, PrefixOf
    <3> QED
      BY <2>4, <3>1, <3>3
  <2>6. most = Len(got) /\ most < MaxSize => z - 1 = Len(got)
    <3>1. most = Len(got) /\ most < MaxSize => Len(got) + 1 \in zeros
      BY <1>1, <1>3 DEF Clear
    <3> QED
      BY <1>1, <2>1, <2>3, <3>1
  <2> QED
    BY <1>3, <2>2, <2>5, <2>6
<1> QED
  BY <1>8, <1>9

LEMMA InitChat == ChatInit => ChatInv
<1> SUFFICES ASSUME ChatInit  PROVE ChatInv
  OBVIOUS
<1>1. Connections
  BY DEF ChatInit, Connections, IsSocket
<1>2. Buffers
  BY SizeAssumption DEF ChatInit, Buffers, Clear, PrintsIt, IsPrefix
<1> QED
  BY <1>1, <1>2 DEF ChatInv

\* A host that closes sides of connections leaves them what they are.
LEMMA CloseKeeps ==
  ASSUME Connections,
         conns' = [i \in 1..Len(conns) |-> conns'[i]],
         \A i \in 1..Len(conns) : conns'[i] = conns[i] \/ \E side : conns'[i] = Closed(conns[i], side)
  PROVE  Len(conns') = Len(conns) /\ \A i \in 1..Len(conns') : Carries(conns'[i])
<1>1. Len(conns') = Len(conns)
  BY DEF Connections
<1>2. ASSUME NEW i \in 1..Len(conns)  PROVE Carries(conns'[i])
  BY <1>2 DEF Connections, Carries, Closed
<1> QED
  BY <1>1, <1>2

LEMMA ReturnKeeps ==
  ASSUME Connections, NEW p \in Program, Return(p)
  PROVE  Len(conns') = Len(conns) /\ \A i \in 1..Len(conns') : Carries(conns'[i])
<1>1. /\ DOMAIN conns' = 1..Len(conns)
      /\ \A i \in 1..Len(conns) : conns'[i] = conns[i] \/ \E side : conns'[i] = Closed(conns[i], side)
  BY DEF Return
<1>2. conns' = [i \in 1..Len(conns) |-> conns'[i]]
  BY DEF Return
<1> QED
  BY <1>1, <1>2, CloseKeeps

LEMMA BuffersStay ==
  ASSUME Buffers, UNCHANGED <<recv_mess, shown>>
  PROVE  Buffers'
BY DEF Buffers

LEMMA ConnectStep ==
  ASSUME ChatInv, NEW p \in Program, NEW port, Dial(p, port)
  PROVE  ChatInv'
<1> USE DEF ChatInv
<1>1. CASE Return(p) /\ UNCHANGED <<peer_socket, pending>>
  <2>1. conns' = [i \in 1..Len(conns) |-> conns'[i]]
    BY <1>1 DEF Return
  <2> QED
    BY <1>1, <2>1, ReturnKeeps, BuffersStay DEF Dial, Connections
<1>2. CASE ~(Return(p) /\ UNCHANGED <<peer_socket, pending>>)
  <2> DEFINE c == [open |-> Side, data |-> [s \in Side |-> <<>>], port |-> SpeakPort(p)]
  <2>1. PICK q \in running :
          /\ conns' = Append(conns, c)
          /\ pending' = [pending EXCEPT ![q] = Append(@, Len(conns) + 1)]
          /\ peer_socket' = [peer_socket EXCEPT ![p] = <<Len(conns) + 1, "from">>]
    BY <1>2 DEF Dial
  <2>2. Carries(c)
    BY DEF Carries
  <2> HIDE DEF c
  <2>3. PICK V : conns \in Seq(V) /\ c \in V
    <3>1. conns \in Seq({conns[i] : i \in 1..Len(conns)} \cup {c})
      BY DEF Connections
    <3> QED
      BY <3>1
  <2>4. /\ Len(conns') = Len(conns) + 1 /\ Len(conns) \in Nat
        /\ conns' = [i \in 1..Len(conns') |-> conns'[i]]
        /\ \A i \in 1..Len(conns) : conns'[i] = conns[i]
        /\ conns'[Len(conns) + 1] = c
    <3>1. conns' \in Seq(V) /\ Len(conns) \in Nat
      BY <2>1, <2>3
    <3>2. conns' = [i \in 1..Len(conns') |-> conns'[i]]
      BY <3>1
    <3> QED
      BY <2>1, <2>3, <3>1, <3>2, AppendProperties
  <2>5. ASSUME NEW i \in 1..Len(conns')  PROVE Carries(conns'[i])
    <3>1. i \in 1..Len(conns) \/ i = Len(conns) + 1
      BY <2>4
    <3> QED
      BY <2>2, <2>4, <3>1 DEF Connections
  <2>6. \A r \in Program : IsSocket(peer_socket'[r], Len(conns'))
    BY <2>1, <2>3, <2>4 DEF Connections, IsSocket, Side
  <2>7. pending' \in [Program -> Seq(1..Len(conns'))]
    <3>1. Len(conns) \in Nat /\ 1..Len(conns) \subseteq 1..Len(conns')
      BY <2>3, <2>4
    <3>2. \A r \in Program : pending[r] \in Seq(1..Len(conns'))
      BY <3>1, SeqMonotonic DEF Connections
    <3>3. Append(pending[q], Len(conns) + 1) \in Seq(1..Len(conns')) \/ q \notin Program
      BY <2>4, <3>1, <3>2
    <3> QED
      BY <2>1, <3>2, <3>3 DEF Connections
  <2>8. UNCHANGED <<recv_mess, shown>> /\ DOMAIN peer_socket' = Program
    BY <2>1 DEF Dial, Connections
  <2> QED
    BY <2>3, <2>4, <2>5, <2>6, <2>7, <2>8, BuffersStay DEF Connections
<1> QED
  BY <1>1, <1>2, Zenon

LEMMA ListenStep ==
  ASSUME ChatInv, NEW p \in Program, Listen(p)
  PROVE  ChatInv'
<1> USE DEF ChatInv
<1>1. UNCHANGED <<conns, recv_mess, shown>>
  BY DEF Listen
<1>2. CASE peer_socket' = [peer_socket EXCEPT ![p] = NoSocket] /\ UNCHANGED pending
  BY <1>1, <1>2, BuffersStay DEF Connections, IsSocket
<1>3. CASE /\ pending[p] # <<>>
           /\ peer_socket' = [peer_socket EXCEPT ![p] = <<Head(pending[p]), "to">>]
           /\ pending' = [pending EXCEPT ![p] = Tail(@)]
  <2>1. pending[p] \in Seq(1..Len(conns))
    BY DEF Connections
  <2>2. Head(pending[p]) \in 1..Len(conns) /\ Tail(pending[p]) \in Seq(1..Len(conns))
    BY <1>3, <2>1, HeadTailProperties
  <2> QED
    BY <1>1, <1>3, <2>2, BuffersStay DEF Connections, IsSocket, Side
<1> QED
  BY <1>2, <1>3 DEF Listen

LEMMA LeaveStep ==
  ASSUME ChatInv, NEW p \in Program, LeaveChat(p)
  PROVE  ChatInv'
<1> USE DEF ChatInv
<1>1. UNCHANGED <<peer_socket, pending, recv_mess, shown>> /\ CloseSocket(p)
  BY DEF LeaveChat
<1>2. /\ conns' = [i \in 1..Len(conns) |-> conns'[i]]
      /\ \A i \in 1..Len(conns) : conns'[i] = conns[i] \/ \E side : conns'[i] = Closed(conns[i], side)
  BY <1>1 DEF CloseSocket, Connections
<1> QED
  BY <1>1, <1>2, CloseKeeps, BuffersStay DEF Connections

LEMMA SendStep ==
  ASSUME ChatInv, NEW p \in Program, NEW text \in Texts, Send(p, text)
  PROVE  ChatInv'
<1> USE DEF ChatInv
<1>1. UNCHANGED <<peer_socket, pending, recv_mess, shown>>
  BY DEF Send
<1>2. CASE UNCHANGED conns
  BY <1>1, <1>2, BuffersStay DEF Connections
<1>3. CASE Return(p)
  <2>1. conns' = [i \in 1..Len(conns) |-> conns'[i]]
    BY <1>3 DEF Return
  <2> QED
    BY <1>1, <1>3, <2>1, ReturnKeeps, BuffersStay DEF Connections
<1>4. CASE peer_socket[p] # NoSocket
           /\ conns' = [conns EXCEPT ![peer_socket[p][1]].data[peer_socket[p][2]] = @ \o text]
  <2>1. peer_socket[p][1] \in 1..Len(conns) /\ peer_socket[p][2] \in Side
    BY <1>4 DEF Connections, IsSocket
  <2>2. PICK i \in 1..Len(conns), side \in Side : i = peer_socket[p][1] /\ side = peer_socket[p][2]
    BY <2>1, SMTT(30)
  <2>3. text \in Seq(Letter)
    BY TextsAssumption, Zenon
  <2>4. /\ DOMAIN conns' = 1..Len(conns) /\ conns' = [j \in 1..Len(conns) |-> conns'[j]]
        /\ \A j \in 1..Len(conns) : j # i => conns'[j] = conns[j]
        /\ conns'[i] = [conns[i] EXCEPT !.data[side] = @ \o text]
    BY <1>4, <2>2 DEF Connections
  <2>5. Carries(conns'[i])
    <3>1. Carries(conns[i]) /\ conns[i].data[side] \o text \in Seq(Letter)
      BY <2>2, <2>3 DEF Connections, Carries
    <3>2. conns'[i] = [open |-> conns[i].open, port |-> conns[i].port,
                      data |-> [conns[i].data EXCEPT ![side] = @ \o text]]
      BY <2>4, <3>1 DEF Carries
    <3> QED
      BY <3>1, <3>2 DEF Carries
  <2>6. Len(conns') = Len(conns)
    BY <2>4 DEF Connections
  <2> QED
    BY <1>1, <2>4, <2>5, <2>6, BuffersStay DEF Connections
<1> QED
  BY <1>2, <1>3, <1>4, Zenon DEF Send

\* What recv brings are letters, not more than the buffer takes.
LEMMA BringsLetters ==
  ASSUME Connections, NEW p \in Program, NEW got \in Brings(p)
  PROVE  /\ got \in Seq(Letter) /\ Len(got) <= MaxSize
         /\ got # <<>> => /\ peer_socket[p] # NoSocket
                         /\ Len(got) <= Len(conns[peer_socket[p][1]].data[Other(peer_socket[p][2])])
<1>1. CASE got = <<>>
  BY <1>1, SizeAssumption
<1>2. CASE got # <<>>
  <2> DEFINE d == conns[peer_socket[p][1]].data[Other(peer_socket[p][2])]
  <2>1. peer_socket[p] # NoSocket
    BY <1>2 DEF Brings
  <2>2. d \in Seq(Letter)
    BY <2>1, SMTT(30) DEF Connections, IsSocket, Carries, Side, Other
  <2>3. PICK n \in 1..(IF Len(d) < MaxSize THEN Len(d) ELSE MaxSize) : got = SubSeq(d, 1, n)
    BY <1>2, <2>1 DEF Brings
  <2> HIDE DEF d
  <2>4. n \in Nat /\ n <= Len(d) /\ n <= MaxSize /\ Len(d) \in Nat
    BY <2>2, <2>3, SizeAssumption
  <2>5. got \in Seq(Letter) /\ Len(got) = n
    BY <2>2, <2>3, <2>4
  <2> QED
    BY <2>1, <2>4, <2>5 DEF d
<1> QED
  BY <1>1, <1>2

LEMMA RecvStep ==
  ASSUME ChatInv, NEW p \in Program, Recv(p)
  PROVE  ChatInv'
<1> USE DEF ChatInv
<1> DEFINE i == peer_socket[p][1]
           side == Other(peer_socket[p][2])
           s == shown'[p]
<1>1. PICK got \in Brings(p) :
        /\ recv_mess' = [recv_mess EXCEPT ![p] = Filled(@, got)]
        /\ conns' = IF got = <<>> THEN conns
                    ELSE [conns EXCEPT ![i].data[side] = SubSeq(@, Len(got) + 1, Len(@))]
        /\ shown' = [shown EXCEPT ![p] =
             [got |-> got, text |-> Printed(recv_mess'[p]),
              longest |-> IF Len(got) > @.longest THEN Len(got) ELSE @.longest]]
  BY DEF Recv
<1>2. UNCHANGED <<peer_socket, pending>>
  BY DEF Recv
<1>3. got \in Seq(Letter) /\ Len(got) <= MaxSize /\ Len(got) \in Nat
  BY BringsLetters
<1>4. Connections'
  <2>1. CASE got = <<>>
    BY <1>1, <1>2, <2>1 DEF Connections
  <2>2. CASE got # <<>>
    <3>1. i \in 1..Len(conns) /\ side \in Side /\ Len(got) <= Len(conns[i].data[side])
      BY <2>2, BringsLetters DEF Connections, IsSocket, Side, Other
    <3> HIDE DEF i, side
    <3> DEFINE d == conns[i].data[side]
    <3>2. Carries(conns[i]) /\ d \in Seq(Letter)
      BY <3>1 DEF Connections, Carries
    <3>3. SubSeq(d, Len(got) + 1, Len(d)) \in Seq(Letter)
      BY <1>3, <3>1, <3>2
    <3>4. /\ DOMAIN conns' = 1..Len(conns) /\ conns' = [j \in 1..Len(conns) |-> conns'[j]]
          /\ \A j \in 1..Len(conns) : j # i => conns'[j] = conns[j]
          /\ conns'[i] = [conns[i] EXCEPT !.data[side] = SubSeq(@, Len(got) + 1, Len(@))]
      BY <1>1, <2>2, <3>1 DEF Connections
    <3>5. conns'[i] = [open |-> conns[i].open, port |-> conns[i].port,
                       data |-> [conns[i].data EXCEPT ![side] = SubSeq(d, Len(got) + 1, Len(d))]]
      BY <3>2, <3>4 DEF Carries
    <3>6. Carries(conns'[i])
      <4>1. conns[i].data \in [Side -> Seq(Letter)]
        BY <3>2 DEF Carries
      <4>2. [conns[i].data EXCEPT ![side] = SubSeq(d, Len(got) + 1, Len(d))] \in [Side -> Seq(Letter)]
        BY <3>3, <4>1
      <4> QED
        BY <3>5, <4>2 DEF Carries
    <3>7. Len(conns') = Len(conns)
      BY <3>4 DEF Connections
    <3> QED
      BY <1>2, <3>4, <3>6, <3>7 DEF Connections
  <2> QED
    BY <2>1, <2>2
<1>5. Buffers'
  <2>1. PICK longest \in Nat : longest = shown[p].longest
    BY DEF Buffers
  <2>2. Clear(recv_mess[p], longest)
    BY <2>1 DEF Buffers
  <2>3. PICK most \in Nat : most = IF Len(got) > longest THEN Len(got) ELSE longest
    BY <1>3
  <2>4. PICK filled : filled = Filled(recv_mess[p], got)
    OBVIOUS
  <2>5. /\ Clear(filled, most)
        /\ IsPrefix(got, Printed(filled))
        /\ most = Len(got) /\ most < MaxSize => Printed(filled) = got
    BY <1>3, <2>2, <2>3, <2>4, PrintedGot, SMTT(30)
  <2>6. recv_mess'[p] = filled /\ shown'[p] = [got |-> got, text |-> Printed(filled), longest |-> most]
    BY <1>1, <2>1, <2>3, <2>4 DEF Buffers
  <2>7. PrintsIt(shown'[p])
    BY <2>5, <2>6 DEF PrintsIt
  <2>8. /\ DOMAIN recv_mess' = Program /\ DOMAIN shown' = Program
        /\ \A q \in Program : q # p => recv_mess'[q] = recv_mess[q] /\ shown'[q] = shown[q]
    BY <1>1 DEF Buffers
  <2> QED
    BY <2>5, <2>6, <2>7, <2>8 DEF Buffers
<1> QED
  BY <1>4, <1>5, Zenon

LEMMA NextChat ==
  ChatInv /\ [ChatNext]_chat => ChatInv'
<1> SUFFICES ASSUME ChatInv, [ChatNext]_chat  PROVE ChatInv'
  OBVIOUS
<1>1. ASSUME NEW p \in Program, NEW port, Dial(p, port)  PROVE ChatInv'
  BY <1>1, ConnectStep
<1>2. ASSUME NEW p \in Program, Listen(p)  PROVE ChatInv'
  BY <1>2, ListenStep
<1>3. ASSUME NEW p \in Program, LeaveChat(p)  PROVE ChatInv'
  BY <1>3, LeaveStep
<1>4. ASSUME NEW p \in Program, NEW text \in Texts, Send(p, text)  PROVE ChatInv'
  BY <1>4, SendStep
<1>5. ASSUME NEW p \in Program, Recv(p)  PROVE ChatInv'
  BY <1>5, RecvStep
<1>6. CASE UNCHANGED chat
  BY <1>6 DEF ChatInv, Connections, Buffers, chat
<1> QED
  BY <1>1, <1>2, <1>3, <1>4, <1>5, <1>6 DEF ChatNext

\* For any programs, ports, texts and buffer size: what recv prints begins with what it
\* has brought, and is that unless a longer message came earlier (the main loop of
\* scratch/main.cpp, whose buffer is never cleared).
THEOREM PrintsWhatCameHolds == ChatSpec => []PrintsWhatCame
<1>1. ChatInv => PrintsWhatCame
  BY DEF ChatInv, Buffers, PrintsIt, PrintsWhatCame
<1>2. ChatInit => ChatInv
  BY InitChat
<1>3. ChatInv /\ [ChatNext]_chat => ChatInv'
  BY NextChat
<1> QED
  BY <1>1, <1>2, <1>3, PTL DEF ChatSpec

-----------------------------------------------------------------------------
(* The numbers on the command line, for any text. *)

\* The recursive functions are what their definitions say.
LEMMA NumbersAre ==
  ASSUME NEW d, Len(d) \in Nat
  PROVE  Numbers(d) = [n \in 0..Len(d) |-> IF n = 0 THEN 0 ELSE Numbers(d)[n - 1] * 10 + d[n]]
<1> DEFINE P(k, g) == g = [n \in 0..k |-> IF n = 0 THEN 0 ELSE g[n - 1] * 10 + d[n]]
           T == { k \in Nat : ~ \E g : P(k, g) }
<1>1. T = {}
  <2> SUFFICES ASSUME T # {} PROVE FALSE
    OBVIOUS
  <2>1. PICK k \in T : \A y \in T : k <= y
    BY Least
  <2>2. k # 0
    <3>1. P(0, [n \in 0..0 |-> 0])
      OBVIOUS
    <3> QED
      BY <2>1, <3>1
  <2>3. k - 1 \in Nat /\ k - 1 \notin T /\ k \in Nat
    <3> HIDE DEF P
    <3>1. k \in Nat
      BY <2>1
    <3>2. k - 1 \in Nat /\ ~(k <= k - 1)
      BY <2>2, <3>1
    <3> QED
      BY <2>1, <3>1, <3>2
  <2>4. PICK g : P(k - 1, g)
    BY <2>3
  <2> DEFINE h == [n \in 0..k |-> IF n < k THEN g[n] ELSE g[k - 1] * 10 + d[k]]
  <2>5. ASSUME NEW n \in 0..k  PROVE h[n] = IF n = 0 THEN 0 ELSE h[n - 1] * 10 + d[n]
    <3>1. CASE n = 0
      BY <2>2, <2>3, <2>4, <3>1
    <3>2. CASE n > 0 /\ n < k
      <4>1. n \in 0..(k - 1) /\ n - 1 \in 0..k /\ n - 1 < k
        BY <2>3, <3>2
      <4>2. g[n] = g[n - 1] * 10 + d[n]
        BY <2>4, <3>2, <4>1
      <4> QED
        BY <3>2, <4>1, <4>2
    <3>3. CASE n = k
      BY <2>2, <2>3, <3>3
    <3> QED
      BY <2>3, <3>1, <3>2, <3>3
  <2>6. P(k, h)
    BY <2>5
  <2> QED
    BY <2>1, <2>6
<1>2. PICK f : P(Len(d), f)
  BY <1>1
<1>3. Numbers(d) = CHOOSE g : P(Len(d), g)
  BY DEF Numbers
<1> HIDE DEF P
<1>4. P(Len(d), Numbers(d))
  BY <1>2, <1>3
<1> QED
  BY <1>4 DEF P

LEMMA GrownAre ==
  ASSUME NEW d, Len(d) \in Nat
  PROVE  Grown(d) = [n \in 0..Len(d) |-> IF n = 0 THEN 0 ELSE Grow(Grown(d)[n - 1], d[n])]
<1> DEFINE P(k, g) == g = [n \in 0..k |-> IF n = 0 THEN 0 ELSE Grow(g[n - 1], d[n])]
           T == { k \in Nat : ~ \E g : P(k, g) }
<1>1. T = {}
  <2> SUFFICES ASSUME T # {} PROVE FALSE
    OBVIOUS
  <2>1. PICK k \in T : \A y \in T : k <= y
    BY Least
  <2>2. k # 0
    <3>1. P(0, [n \in 0..0 |-> 0])
      OBVIOUS
    <3> QED
      BY <2>1, <3>1
  <2>3. k - 1 \in Nat /\ k - 1 \notin T /\ k \in Nat
    <3> HIDE DEF P
    <3>1. k \in Nat
      BY <2>1
    <3>2. k - 1 \in Nat /\ ~(k <= k - 1)
      BY <2>2, <3>1
    <3> QED
      BY <2>1, <3>1, <3>2
  <2>4. PICK g : P(k - 1, g)
    BY <2>3
  <2> DEFINE h == [n \in 0..k |-> IF n < k THEN g[n] ELSE Grow(g[k - 1], d[k])]
  <2>5. ASSUME NEW n \in 0..k  PROVE h[n] = IF n = 0 THEN 0 ELSE Grow(h[n - 1], d[n])
    <3>1. CASE n = 0
      BY <2>2, <2>3, <2>4, <3>1
    <3>2. CASE n > 0 /\ n < k
      <4>1. n \in 0..(k - 1) /\ n - 1 \in 0..k /\ n - 1 < k
        BY <2>3, <3>2
      <4>2. g[n] = Grow(g[n - 1], d[n])
        BY <2>4, <3>2, <4>1
      <4> QED
        BY <3>2, <4>1, <4>2
    <3>3. CASE n = k
      BY <2>2, <2>3, <3>3
    <3> QED
      BY <2>3, <3>1, <3>2, <3>3
  <2>6. P(k, h)
    BY <2>5
  <2> QED
    BY <2>1, <2>6
<1>2. PICK f : P(Len(d), f)
  BY <1>1
<1>3. Grown(d) = CHOOSE g : P(Len(d), g)
  BY DEF Grown
<1> HIDE DEF P
<1>4. P(Len(d), Grown(d))
  BY <1>2, <1>3
<1> QED
  BY <1>4 DEF P

\* Digits are a number; what the int is after each of them, and from when on it has
\* overflowed.
LEMMA DigitsNumber ==
  ASSUME NEW d \in Seq(Digit)
  PROVE  /\ \A n \in 0..Len(d) :
              /\ Numbers(d)[n] \in Nat
              /\ Grown(d)[n] = IF Numbers(d)[n] <= IntMax THEN Numbers(d)[n] ELSE IntMax + 1
         /\ Number(d) \in Nat
<1> DEFINE Good(n) == /\ Numbers(d)[n] \in Nat
                      /\ Grown(d)[n] = IF Numbers(d)[n] <= IntMax THEN Numbers(d)[n] ELSE IntMax + 1
           T == { n \in 0..Len(d) : ~Good(n) }
<1>0. Len(d) \in Nat /\ IntMax \in Nat /\ IntMax >= 65535
  BY ParsedAssumption
<1>1. ASSUME T # {}  PROVE FALSE
  <2>1. PICK k \in T : \A y \in T : k <= y
    <3>1. T \in SUBSET Nat
      BY <1>0
    <3> QED
      BY <1>1, <3>1, Least
  <2>2. k # 0
    <3>1. Numbers(d)[0] = 0 /\ Grown(d)[0] = 0
      BY <1>0, NumbersAre, GrownAre
    <3> QED
      BY <1>0, <2>1, <3>1
  <2>3. k \in 1..Len(d) /\ k - 1 \in 0..Len(d) /\ k \in 0..Len(d)
    BY <1>0, <2>1, <2>2
  <2>4. Good(k - 1)
    <3>1. k - 1 \notin T
      BY <1>0, <2>1, <2>3
    <3> QED
      BY <2>3, <3>1
  <2> DEFINE num == Numbers(d)[k - 1]
             x == d[k]
  <2>5. x \in 0..9 /\ num \in Nat
    BY <2>3, <2>4 DEF Digit
  <2>6. Numbers(d)[k] = num * 10 + x /\ Grown(d)[k] = Grow(Grown(d)[k - 1], x)
    BY <1>0, <2>2, <2>3, NumbersAre, GrownAre
  <2>7. Grown(d)[k - 1] = IF num <= IntMax THEN num ELSE IntMax + 1
    BY <2>4
  <2> HIDE DEF num, x
  <2>8. \A y \in Nat : y > (IntMax - x) \div 10 <=> y * 10 + x > IntMax
    <3>1. IntMax - x \in Nat
      BY <1>0, <2>5
    <3>2. \A a \in Nat, y \in Nat : y > a \div 10 <=> y * 10 > a
      BY Z3
    <3>3. \A y \in Nat : y * 10 > IntMax - x <=> y * 10 + x > IntMax
      BY <1>0, <2>5
    <3> QED
      BY <3>1, <3>2, <3>3
  <2>9. CASE num <= IntMax
    <3>1. Grown(d)[k] = IF num * 10 + x > IntMax THEN IntMax + 1 ELSE num * 10 + x
      BY <2>5, <2>6, <2>7, <2>8, <2>9 DEF Grow
    <3> QED
      BY <1>0, <2>1, <2>5, <2>6, <3>1
  <2>10. CASE ~(num <= IntMax)
    <3>1. (IntMax + 1) * 10 + x > IntMax /\ IntMax + 1 \in Nat
      BY <1>0, <2>5
    <3>2. Grown(d)[k] = IntMax + 1
      BY <2>6, <2>7, <2>8, <2>10, <3>1 DEF Grow
    <3>3. num * 10 + x > IntMax /\ num * 10 + x \in Nat
      BY <1>0, <2>5, <2>10
    <3> QED
      BY <1>0, <2>1, <2>6, <3>2, <3>3
  <2> QED
    BY <2>9, <2>10
<1>2. \A n \in 0..Len(d) : Good(n)
  BY <1>1
<1> HIDE DEF T
<1>3. Len(d) \in 0..Len(d)
  BY <1>0
<1> QED
  BY <1>2, <1>3 DEF Number

\* parsePort: the port is the number that was typed, unless that is more than an int.
LEMMA PortParsed ==
  ASSUME NEW text, text \in Seq({ text[k] : k \in 1..Len(text) }), NEW port \in ParsePort(text), port # Refused
  PROVE  port \in Int /\ (Number(text) < IntMax => port = Number(text))
<1> DEFINE num == Grown(text)[Len(text)]
<1>1. /\ \A k \in 1..Len(text) : text[k] \in Digit
      /\ num > IntMax => port \in AnyPort
      /\ ~(num > IntMax) => port = num
  BY DEF ParsePort
<1>2. text \in Seq(Digit) /\ Len(text) \in 0..Len(text) /\ Len(text) \in Nat
  <2>1. Len(text) \in Nat /\ text = [k \in 1..Len(text) |-> text[k]]
    OBVIOUS
  <2> QED
    BY <1>1, <2>1
<1>3. Number(text) \in Nat /\ num = IF Number(text) <= IntMax THEN Number(text) ELSE IntMax + 1
  BY <1>2, DigitsNumber DEF Number
<1> HIDE DEF num
<1>0. IntMax \in Int /\ AnyPort \subseteq Int
  BY ParsedAssumption
<1>4. CASE num > IntMax
  <2>1. ~(Number(text) <= IntMax)
    <3>1. SUFFICES ASSUME Number(text) <= IntMax PROVE FALSE
      OBVIOUS
    <3>2. num = Number(text)
      BY <1>3, <3>1
    <3> QED
      BY <1>0, <1>3, <1>4, <3>1, <3>2
  <2>2. ~(Number(text) < IntMax)
    BY <1>0, <1>3, <2>1
  <2>3. port \in Int
    BY <1>0, <1>1, <1>4
  <2> QED
    BY <2>2, <2>3
<1>5. CASE ~(num > IntMax)
  <2>1. Number(text) = num
    BY <1>3, <1>5, ParsedAssumption
  <2> QED
    BY <1>1, <1>3, <1>5, <2>1
<1> QED
  BY <1>4, <1>5

-----------------------------------------------------------------------------
\* Where the fields of a text end: at its dots and where it does.
Ends(text) == Cuts(text) \cup {Len(text) + 1}
Follows(text, e, n) == /\ n \in Ends(text) /\ e < n
                       /\ \A j \in Ends(text) : e < j => n <= j
Between(text, e, n) == SubSeq(text, e + 1, n - 1)
Byte(digits) == /\ Len(digits) <= 3 /\ \A k \in 1..Len(digits) : digits[k] \in Digit
                /\ Number(digits) < 256
Chars(text) == { text[k] : k \in 1..Len(text) }

\* The text with the dot that parseIP puts behind it.
LEMMA DottedText ==
  ASSUME NEW text, text \in Seq(Chars(text))
  PROVE  /\ Len(text) \in Nat /\ Len(Append(text, Dot)) = Len(text) + 1
         /\ \A k \in 1..(Len(text) + 1) : Append(text, Dot)[k] = Dot <=> k \in Ends(text)
         /\ Ends(text) \subseteq 1..(Len(text) + 1) /\ Cuts(text) \subseteq 1..Len(text)
         /\ \A e, n \in 0..(Len(text) + 1) : e < n =>
              /\ SubSeq(Append(text, Dot), e + 1, n - 1) = Between(text, e, n)
              /\ Between(text, e, n) \in Seq(Chars(text))
              /\ Len(Between(text, e, n)) = n - e - 1
<1> DEFINE s == Append(text, Dot)
           L == Len(text)
<1>1. L \in Nat /\ text = [k \in 1..L |-> text[k]]
  OBVIOUS
<1>2. /\ Len(s) = L + 1 /\ s[L + 1] = Dot
      /\ \A k \in 1..L : s[k] = text[k]
  BY <1>1
<1>3. Ends(text) \subseteq 1..(L + 1) /\ Cuts(text) \subseteq 1..L
  BY <1>1 DEF Ends, Cuts
<1>4. \A k \in 1..(L + 1) : s[k] = Dot <=> k \in Ends(text)
  BY <1>1, <1>2 DEF Ends, Cuts
<1>5. ASSUME NEW e \in 0..(L + 1), NEW n \in 0..(L + 1), e < n
      PROVE  /\ SubSeq(s, e + 1, n - 1) = Between(text, e, n)
             /\ Between(text, e, n) \in Seq(Chars(text))
             /\ Len(Between(text, e, n)) = n - e - 1
  <2>1. e + 1 \in 1..(L + 1) /\ n - 1 \in e..L /\ n - e - 1 \in Nat
    BY <1>1, <1>5
  <2>2. \A i \in 1..(n - e - 1) : e + 1 + i - 1 \in 1..L
    BY <1>1, <2>1
  <2>3. SubSeq(s, e + 1, n - 1) = [i \in 1..(n - e - 1) |-> s[e + 1 + i - 1]]
    BY <1>1, <1>2, <1>5, SMTT(30)
  <2>4. Between(text, e, n) = [i \in 1..(n - e - 1) |-> text[e + 1 + i - 1]]
    BY <1>1, <1>5, SMTT(30) DEF Between
  <2>5. [i \in 1..(n - e - 1) |-> s[e + 1 + i - 1]] = [i \in 1..(n - e - 1) |-> text[e + 1 + i - 1]]
    BY <1>2, <2>2
  <2>6. \A i \in 1..(n - e - 1) : text[e + 1 + i - 1] \in Chars(text)
    BY <2>2 DEF Chars
  <2> QED
    BY <2>1, <2>3, <2>4, <2>5, <2>6
<1> QED
  BY <1>1, <1>2, <1>3, <1>4, <1>5

\* A text has one end after another.
LEMMA OneFollows ==
  ASSUME NEW text, text \in Seq(Chars(text)), NEW e \in 0..Len(text)
  PROVE  \E n \in Ends(text) : Follows(text, e, n)
<1> DEFINE T == { j \in Ends(text) : e < j }
<1>1. Len(text) \in Nat /\ Ends(text) \subseteq Nat /\ Len(text) + 1 \in Ends(text)
  BY DottedText DEF Ends
<1>2. T \in SUBSET Nat /\ T # {}
  BY <1>1
<1>3. PICK n \in T : \A j \in T : n <= j
  BY <1>2, Least
<1> QED
  BY <1>3 DEF Follows

Taken(e, arr) == [ok |-> TRUE, pos |-> e + 1, arr |-> arr]

\* Once a field has been refused, what is left is not looked at.
Over(r) == r.ok = FALSE /\ DOMAIN r = {"ok", "pos", "arr"}

\* One round of parseIP takes the field after e if it is a byte.
LEMMA OctetTaken ==
  ASSUME NEW text, text \in Seq(Chars(text)), NEW e \in 0..(Len(text) + 1), NEW arr
  PROVE  /\ \/ Over(Octet(Append(text, Dot), Taken(e, arr)))
            \/ \E n \in Ends(text) : Follows(text, e, n) /\ Byte(Between(text, e, n))
         /\ \A n \in Ends(text) : Follows(text, e, n) /\ Byte(Between(text, e, n)) =>
              Octet(Append(text, Dot), Taken(e, arr)) =
                Taken(n, Append(arr, Number(Between(text, e, n))))
<1> DEFINE s == Append(text, Dot)
           r == Taken(e, arr)
           end == NextDot(s, e + 1)
           digits == SubSeq(s, e + 1, end - 1)
           dots == { k \in (e + 1)..Len(s) : s[k] = Dot }
<1>1. /\ Len(text) \in Nat /\ Len(s) = Len(text) + 1 /\ Ends(text) \subseteq 1..(Len(text) + 1)
      /\ dots = { j \in Ends(text) : e < j }
  <2>1. /\ Len(text) \in Nat /\ Len(s) = Len(text) + 1 /\ Ends(text) \subseteq 1..(Len(text) + 1)
        /\ \A k \in 1..(Len(text) + 1) : s[k] = Dot <=> k \in Ends(text)
    BY DottedText
  <2>2. \A k : k \in (e + 1)..Len(s) <=> k \in 1..(Len(text) + 1) /\ e < k
    BY <2>1
  <2> HIDE DEF s
  <2> QED
    BY <2>1, <2>2
<1>2. r.ok /\ r.pos = e + 1 /\ r.arr = arr
  BY DEF Taken
<1>3. Octet(s, r) =
        IF /\ end # 0 /\ end - (e + 1) <= 3
           /\ \A k \in 1..Len(digits) : digits[k] \in Digit
           /\ Number(digits) <= 255
        THEN Taken(end, Append(arr, Number(digits)))
        ELSE [r EXCEPT !.ok = FALSE]
  <2> DEFINE z == NextDot(s, r.pos)
             d == SubSeq(s, r.pos, z - 1)
  <2>1. Octet(s, r) =
          IF /\ r.ok /\ z # 0 /\ z - r.pos <= 3
             /\ \A k \in 1..Len(d) : d[k] \in Digit
             /\ Number(d) <= 255
          THEN [ok |-> TRUE, pos |-> z + 1, arr |-> Append(r.arr, Number(d))]
          ELSE [r EXCEPT !.ok = FALSE]
    <3> HIDE DEF s, r
    <3> QED
      BY Zenon DEF Octet
  <2>2. z = end /\ d = digits
    BY <1>2
  <2> HIDE DEF r, end, digits, z, d
  <2> QED
    BY <1>2, <2>1, <2>2 DEF Taken
<1>4. CASE e = Len(text) + 1
  <2>1. dots = {}
    BY <1>1, <1>4
  <2>2. end = 0
    BY <2>1 DEF NextDot
  <2>3. Octet(s, r) = [r EXCEPT !.ok = FALSE]
    BY <1>3, <2>2
  <2>4. Over(Octet(s, r))
    BY <2>3 DEF Taken, Over
  <2>5. \A n \in Ends(text) : ~Follows(text, e, n)
    BY <1>1, <1>4 DEF Follows
  <2> QED
    BY <2>4, <2>5
<1>5. CASE e # Len(text) + 1
  <2>1. e \in 0..Len(text)
    BY <1>1, <1>5
  <2>2. PICK n \in Ends(text) : Follows(text, e, n)
    BY <2>1, OneFollows
  <2>3. \A m \in Ends(text) : Follows(text, e, m) => m = n
    BY <1>1, <2>2 DEF Follows
  <2>4. end = n
    <3>1. n \in dots /\ \A j \in dots : n <= j /\ j \in Nat
      BY <1>1, <2>2 DEF Follows
    <3>2. end = CHOOSE k \in dots : \A j \in dots : k <= j
      BY <3>1 DEF NextDot
    <3> HIDE DEF dots, end
    <3>3. end \in dots /\ \A j \in dots : end <= j
      BY <3>1, <3>2
    <3> QED
      BY <3>1, <3>3
  <2>5. n \in 1..(Len(text) + 1) /\ e < n
    BY <1>1, <2>2 DEF Follows
  <2> DEFINE field == Between(text, e, n)
  <2>6. /\ digits = field /\ field \in Seq(Chars(text)) /\ Len(field) = n - e - 1
    <3>1. n \in 0..(Len(text) + 1) /\ e \in 0..(Len(text) + 1)
      BY <1>1, <2>5
    <3> QED
      BY <2>4, <2>5, <3>1, DottedText
  <2> HIDE DEF digits, end, field
  <2>7. end # 0 /\ (end - (e + 1) <= 3 <=> Len(field) <= 3)
    BY <1>1, <2>4, <2>5, <2>6
  <2>8. (\A k \in 1..Len(field) : field[k] \in Digit) => (Number(field) <= 255 <=> Number(field) < 256)
    <3>1. SUFFICES ASSUME \A k \in 1..Len(field) : field[k] \in Digit
                   PROVE  Number(field) \in Nat
      OBVIOUS
    <3>2. field \in Seq(Digit)
      BY <2>6, <3>1
    <3> QED
      BY <3>2, DigitsNumber
  <2>9. Octet(s, r) = IF Byte(field) THEN Taken(n, Append(arr, Number(field)))
                      ELSE [r EXCEPT !.ok = FALSE]
    BY <1>3, <2>4, <2>6, <2>7, <2>8 DEF Byte
  <2>10. CASE Byte(field)
    <3>1. Octet(s, r) = Taken(n, Append(arr, Number(field)))
      BY <2>9, <2>10
    <3> QED
      BY <2>2, <2>3, <2>10, <3>1 DEF field
  <2>11. CASE ~Byte(field)
    <3>1. Octet(s, r) = [r EXCEPT !.ok = FALSE]
      BY <2>9, <2>11
    <3>2. Over(Octet(s, r))
      BY <3>1 DEF Taken, Over
    <3>3. \A m \in Ends(text) : Follows(text, e, m) => ~Byte(Between(text, e, m))
      BY <2>3, <2>11 DEF field
    <3> QED
      BY <3>2, <3>3
  <2> QED
    BY <2>10, <2>11
<1> QED
  BY <1>4, <1>5

AtFirst == [ok |-> TRUE, pos |-> 1, arr |-> <<>>]

LEMMA OctetsAre ==
  ASSUME NEW s
  PROVE  Octets(s)[0] = AtFirst /\ \A n \in 1..4 : Octets(s)[n] = Octet(s, Octets(s)[n - 1])
<1> DEFINE P(g) == g = [n \in 0..4 |-> IF n = 0 THEN [ok |-> TRUE, pos |-> 1, arr |-> <<>>]
                                       ELSE Octet(s, g[n - 1])]
<1>1. \E g : P(g)
  <2>1. PICK r0 : r0 = [ok |-> TRUE, pos |-> 1, arr |-> <<>>]
    OBVIOUS
  <2>2. PICK r1 : r1 = Octet(s, r0)
    OBVIOUS
  <2>3. PICK r2 : r2 = Octet(s, r1)
    OBVIOUS
  <2>4. PICK r3 : r3 = Octet(s, r2)
    OBVIOUS
  <2>5. PICK r4 : r4 = Octet(s, r3)
    OBVIOUS
  <2> DEFINE f == [n \in 0..4 |-> IF n = 0 THEN r0 ELSE IF n = 1 THEN r1 ELSE IF n = 2 THEN r2
                                  ELSE IF n = 3 THEN r3 ELSE r4]
  <2>6. f[0] = r0 /\ f[1] = r1 /\ f[2] = r2 /\ f[3] = r3 /\ f[4] = r4
    OBVIOUS
  <2>7. ASSUME NEW n \in 0..4
        PROVE  f[n] = IF n = 0 THEN [ok |-> TRUE, pos |-> 1, arr |-> <<>>] ELSE Octet(s, f[n - 1])
    <3>1. n = 0 \/ n = 1 \/ n = 2 \/ n = 3 \/ n = 4
      OBVIOUS
    <3> HIDE DEF f
    <3> QED
      BY <2>1, <2>2, <2>3, <2>4, <2>5, <2>6, <3>1
  <2>8. f = [n \in 0..4 |-> f[n]]
    OBVIOUS
  <2> HIDE DEF f
  <2> QED
    BY <2>7, <2>8
<1>2. Octets(s) = CHOOSE g : P(g)
  BY DEF Octets
<1>3. P(Octets(s))
  <2> HIDE DEF P
  <2> QED
    BY <1>1, <1>2
<1>4. \A n \in 0..4 : Octets(s)[n] = IF n = 0 THEN AtFirst ELSE Octet(s, Octets(s)[n - 1])
  BY <1>3 DEF AtFirst
<1> HIDE DEF P
<1> QED
  BY <1>4

LEMMA OctetOver ==
  ASSUME NEW s, NEW r, Over(r)
  PROVE  Over(Octet(s, r))
<1>1. Octet(s, r) = [r EXCEPT !.ok = FALSE]
  BY DEF Octet, Over
<1> QED
  BY <1>1 DEF Over

\* The ends of the first n fields, and their values.
Walks(text, e, n) ==
  /\ e \in [0..4 -> 0..(Len(text) + 1)] /\ e[0] = 0
  /\ \A i \in 1..n : Follows(text, e[i - 1], e[i])
Bytes(text, e, n) == \A i \in 1..n : Byte(Between(text, e[i - 1], e[i]))
Values(text, e, n) == [i \in 1..n |-> Number(Between(text, e[i - 1], e[i]))]

LEMMA ByteValue ==
  ASSUME NEW text, text \in Seq(Chars(text)), NEW e \in 0..(Len(text) + 1), NEW n \in 0..(Len(text) + 1),
         e < n, Byte(Between(text, e, n))
  PROVE  Number(Between(text, e, n)) \in 0..255
<1> DEFINE d == Between(text, e, n)
<1>1. d \in Seq(Chars(text)) /\ \A k \in 1..Len(d) : d[k] \in Digit
  BY DottedText DEF Byte
<1>2. d \in Seq(Digit) /\ Number(d) < 256
  <2> HIDE DEF d
  <2>1. d \in Seq(Digit)
    BY <1>1
  <2> QED
    BY <2>1 DEF Byte, d
<1>3. Number(d) \in Nat
  BY <1>2, DigitsNumber
<1> HIDE DEF d
<1>4. Number(d) \in 0..255
  <2>1. \A x \in Nat : x < 256 => x \in 0..255
    OBVIOUS
  <2> QED
    BY <1>2, <1>3, <2>1
<1> QED
  BY <1>4 DEF d

LEMMA FunctionSeq ==
  ASSUME NEW n \in Nat, NEW S, NEW v \in [1..n -> S]
  PROVE  v \in Seq(S) /\ Len(v) = n
OBVIOUS

LEMMA NextRound ==
  ASSUME NEW text, text \in Seq(Chars(text)), NEW n \in 0..3,
         NEW r, NEW s, s = Append(text, Dot),
         \A e : Walks(text, e, n) /\ Bytes(text, e, n) => r = Taken(e[n], Values(text, e, n)),
         Over(r) \/ \E e : Walks(text, e, n) /\ Bytes(text, e, n)
  PROVE  /\ \A e : Walks(text, e, n + 1) /\ Bytes(text, e, n + 1) =>
              Octet(s, r) = Taken(e[n + 1], Values(text, e, n + 1))
         /\ Over(Octet(s, r)) \/ \E e : Walks(text, e, n + 1) /\ Bytes(text, e, n + 1)
<1>0. Len(text) \in Nat /\ Ends(text) \subseteq 1..(Len(text) + 1)
  BY DottedText
<1>1. ASSUME NEW e, Walks(text, e, n + 1), Bytes(text, e, n + 1)
      PROVE  Octet(s, r) = Taken(e[n + 1], Values(text, e, n + 1))
  <2>1. Walks(text, e, n) /\ Bytes(text, e, n) /\ n \in 0..4 /\ n + 1 \in 1..4
    BY <1>1 DEF Walks, Bytes
  <2>2. /\ e[n] \in 0..(Len(text) + 1) /\ e[n + 1] \in Ends(text)
        /\ Follows(text, e[n], e[n + 1]) /\ Byte(Between(text, e[n], e[n + 1]))
    BY <1>1, <2>1 DEF Walks, Bytes, Follows
  <2> DEFINE x == Number(Between(text, e[n], e[n + 1]))
             v == Values(text, e, n)
  <2>3. Octet(s, r) = Taken(e[n + 1], Append(v, x))
    <3>1. r = Taken(e[n], v)
      BY <2>1
    <3> QED
      BY <2>2, <3>1, OctetTaken
  <2>4. v = [i \in 1..n |-> v[i]] /\ v \in Seq({ v[i] : i \in 1..n }) /\ Len(v) = n
    <3>1. v = [i \in 1..n |-> v[i]]
      BY DEF Values
    <3> HIDE DEF v
    <3>2. n \in Nat
      BY <2>1
    <3>3. v \in [1..n -> { v[i] : i \in 1..n }]
      BY <3>1
    <3>4. v \in Seq({ v[i] : i \in 1..n }) /\ Len(v) = n
      BY <3>2, <3>3, FunctionSeq
    <3> QED
      BY <3>1, <3>4
  <2>5. Append(v, x) = [i \in 1..(n + 1) |-> IF i = n + 1 THEN x ELSE v[i]]
    <3> HIDE DEF v, x
    <3> QED
      BY <2>1, <2>4
  <2>6. Values(text, e, n + 1) = [i \in 1..(n + 1) |-> IF i = n + 1 THEN x ELSE v[i]]
    <3>1. \A i \in 1..(n + 1) : i # n + 1 => i \in 1..n
      OBVIOUS
    <3>2. \A i \in 1..n : v[i] = Number(Between(text, e[i - 1], e[i]))
      BY DEF Values
    <3>3. Values(text, e, n + 1) = [i \in 1..(n + 1) |-> Number(Between(text, e[i - 1], e[i]))]
      BY DEF Values
    <3>4. x = Number(Between(text, e[n + 1 - 1], e[n + 1]))
      OBVIOUS
    <3> HIDE DEF v, x
    <3> QED
      BY <3>1, <3>2, <3>3, <3>4
  <2> QED
    BY <2>3, <2>5, <2>6
<1>2. ASSUME ~Over(Octet(s, r))  PROVE \E e : Walks(text, e, n + 1) /\ Bytes(text, e, n + 1)
  <2>1. PICK e : Walks(text, e, n) /\ Bytes(text, e, n)
    BY <1>2, OctetOver
  <2>2. r = Taken(e[n], Values(text, e, n)) /\ e[n] \in 0..(Len(text) + 1)
    <3>1. e \in [0..4 -> 0..(Len(text) + 1)] /\ n \in 0..4
      BY <2>1 DEF Walks
    <3>2. r = Taken(e[n], Values(text, e, n))
      BY <2>1
    <3> QED
      BY <3>1, <3>2
  <2> DEFINE v == Values(text, e, n)
  <2>3. PICK m \in Ends(text) : Follows(text, e[n], m) /\ Byte(Between(text, e[n], m))
    BY <1>2, <2>2, OctetTaken
  <2> DEFINE f == [e EXCEPT ![n + 1] = m]
  <2>4. /\ f \in [0..4 -> 0..(Len(text) + 1)] /\ f[n + 1] = m
        /\ \A i \in 0..n : f[i] = e[i]
    <3>1. m \in 0..(Len(text) + 1) /\ n + 1 \in 0..4
      BY <1>0, <2>3
    <3>2. e \in [0..4 -> 0..(Len(text) + 1)]
      BY <2>1 DEF Walks
    <3> QED
      BY <3>1, <3>2
  <2> HIDE DEF f
  <2>5. \A i \in 1..n : f[i] = e[i] /\ f[i - 1] = e[i - 1]
    <3>1. \A i \in 1..n : i \in 0..n /\ i - 1 \in 0..n
      OBVIOUS
    <3> QED
      BY <2>4, <3>1
  <2>6. f[0] = 0
    BY <2>1, <2>4, SMTT(30) DEF Walks
  <2>7. \A i \in 1..(n + 1) : Follows(text, f[i - 1], f[i]) /\ Byte(Between(text, f[i - 1], f[i]))
    <3>1. \A i \in 1..(n + 1) : i = n + 1 \/ i \in 1..n
      OBVIOUS
    <3>2. Follows(text, f[n + 1 - 1], f[n + 1]) /\ Byte(Between(text, f[n + 1 - 1], f[n + 1]))
      BY <2>3, <2>4
    <3>3. \A i \in 1..n : Follows(text, f[i - 1], f[i]) /\ Byte(Between(text, f[i - 1], f[i]))
      BY <2>1, <2>5 DEF Walks, Bytes
    <3> QED
      BY <3>1, <3>2, <3>3
  <2> QED
    BY <2>4, <2>6, <2>7 DEF Walks, Bytes
<1> QED
  BY <1>1, <1>2

\* parseIP takes a text that falls into four fields, each a byte, and only that.
LEMMA IPParsed ==
  ASSUME NEW text, text \in Seq(Chars(text))
  PROVE  /\ \A e : Walks(text, e, 4) /\ Bytes(text, e, 4) /\ e[4] = Len(text) + 1 =>
              ParseIP(text) = Values(text, e, 4)
         /\ \/ ParseIP(text) = Refused
            \/ \E e : Walks(text, e, 4) /\ Bytes(text, e, 4) /\ e[4] = Len(text) + 1
<1> DEFINE s == Append(text, Dot)
           Good(n, r) == /\ \A e : Walks(text, e, n) /\ Bytes(text, e, n) =>
                                  r = Taken(e[n], Values(text, e, n))
                         /\ Over(r) \/ \E e : Walks(text, e, n) /\ Bytes(text, e, n)
<1>0. Len(text) \in Nat
  BY DottedText
<1>1. Good(0, Octets(s)[0])
  <2>1. Octets(s)[0] = AtFirst
    BY OctetsAre
  <2>2. \A e : Values(text, e, 0) = <<>>
    BY DEF Values
  <2>3. \A e : Walks(text, e, 0) => e[0] = 0
    BY DEF Walks
  <2>4. Walks(text, [i \in 0..4 |-> 0], 0) /\ Bytes(text, [i \in 0..4 |-> 0], 0)
    BY <1>0 DEF Walks, Bytes
  <2>5. AtFirst = Taken(0, <<>>)
    BY DEF AtFirst, Taken
  <2> QED
    BY <2>1, <2>2, <2>3, <2>4, <2>5
<1>2. \A n \in 0..3 : Good(n, Octets(s)[n]) => Good(n + 1, Octets(s)[n + 1])
  <2>1. \A n \in 0..3 : \A r : Good(n, r) => Good(n + 1, Octet(s, r))
    BY NextRound
  <2>2. \A n \in 0..3 : Octets(s)[n + 1] = Octet(s, Octets(s)[n])
    <3>1. \A n \in 0..3 : n + 1 \in 1..4 /\ n + 1 - 1 = n
      OBVIOUS
    <3> QED
      BY <3>1, OctetsAre
  <2> HIDE DEF Good
  <2> QED
    BY <2>1, <2>2
<1>3. Good(4, Octets(s)[4])
  <2> HIDE DEF Good
  <2>1. Good(1, Octets(s)[1])
    BY <1>1, <1>2
  <2>2. Good(2, Octets(s)[2])
    BY <1>2, <2>1
  <2>3. Good(3, Octets(s)[3])
    BY <1>2, <2>2
  <2> QED
    BY <1>2, <2>3
<1> DEFINE r4 == Octets(s)[4]
<1>4. ParseIP(text) = IF r4.ok /\ r4.pos = Len(text) + 2 THEN r4.arr ELSE Refused
  BY DEF ParseIP
<1> HIDE DEF r4
<1>5. ASSUME NEW e, Walks(text, e, 4), Bytes(text, e, 4), e[4] = Len(text) + 1
      PROVE  ParseIP(text) = Values(text, e, 4)
  <2>1. r4 = Taken(Len(text) + 1, Values(text, e, 4))
    BY <1>3, <1>5 DEF r4
  <2>2. r4.ok = TRUE /\ r4.pos = Len(text) + 2 /\ r4.arr = Values(text, e, 4)
    BY <1>0, <2>1 DEF Taken
  <2> QED
    BY <1>4, <2>2
<1>6. ASSUME ParseIP(text) # Refused
      PROVE  \E e : Walks(text, e, 4) /\ Bytes(text, e, 4) /\ e[4] = Len(text) + 1
  <2>1. r4.ok /\ r4.pos = Len(text) + 2
    BY <1>4, <1>6
  <2>2. PICK e : Walks(text, e, 4) /\ Bytes(text, e, 4)
    BY <1>3, <2>1 DEF Over, r4
  <2>3. r4.pos = e[4] + 1 /\ e[4] \in Nat
    <3>1. r4 = Taken(e[4], Values(text, e, 4))
      BY <1>3, <2>2 DEF r4
    <3> QED
      BY <2>2, <3>1 DEF Taken, Walks
  <2>4. e[4] = Len(text) + 1
    BY <1>0, <2>1, <2>3
  <2> QED
    BY <2>2, <2>4
<1> QED
  BY <1>5, <1>6

LEMMA TwoElements ==
  ASSUME NEW a, NEW b, a # b
  PROVE  IsFiniteSet({a, b}) /\ Cardinality({a, b}) = 2
<1>1. {a, b} = {a} \cup {b} /\ b \notin {a}
  OBVIOUS
<1>2. IsFiniteSet({a}) /\ Cardinality({a}) = 1
  BY FS_Singleton
<1> QED
  BY <1>1, <1>2, FS_AddElement

LEMMA ThreeElements ==
  ASSUME NEW a, NEW b, NEW c, a # b, a # c, b # c
  PROVE  IsFiniteSet({a, b, c}) /\ Cardinality({a, b, c}) = 3
<1>1. {a, b, c} = {a, b} \cup {c} /\ c \notin {a, b}
  OBVIOUS
<1>2. IsFiniteSet({a, b}) /\ Cardinality({a, b}) = 2
  BY TwoElements
<1> QED
  BY <1>1, <1>2, FS_AddElement

\* In a text of four fields the ends are its three dots, in their order.
LEMMA WalkedCuts ==
  ASSUME NEW text, text \in Seq(Chars(text)), NEW e, Walks(text, e, 4), e[4] = Len(text) + 1
  PROVE  /\ Len(text) \in Nat
         /\ e[0] = 0 /\ e[1] \in Nat /\ e[2] \in Nat /\ e[3] \in Nat /\ e[4] \in Nat
         /\ 0 < e[1] /\ e[1] < e[2] /\ e[2] < e[3] /\ e[3] < e[4]
         /\ Cuts(text) = {e[1], e[2], e[3]}
<1>1. /\ Len(text) \in Nat /\ Cuts(text) \subseteq 1..Len(text)
      /\ Ends(text) = Cuts(text) \cup {e[4]} /\ e[4] = Len(text) + 1
  BY DottedText DEF Ends
<1>2. /\ e[0] = 0 /\ \A i \in 0..4 : e[i] \in 0..(Len(text) + 1)
      /\ Follows(text, e[0], e[1]) /\ Follows(text, e[1], e[2])
      /\ Follows(text, e[2], e[3]) /\ Follows(text, e[3], e[4])
  <2>1. \A i \in 1..4 : Follows(text, e[i - 1], e[i])
    BY DEF Walks
  <2>2. e[0] = 0 /\ \A i \in 0..4 : e[i] \in 0..(Len(text) + 1)
    BY DEF Walks
  <2> QED
    BY <2>1, <2>2
<1>3. \A i \in 0..4 : e[i] \in Nat
  BY <1>1, <1>2
<1>4. 0 < e[1] /\ e[1] < e[2] /\ e[2] < e[3] /\ e[3] < e[4]
  BY <1>2 DEF Follows
<1>5. \A j \in Cuts(text) : j \in Nat /\ 0 < j /\ j < e[4] /\ j \in Ends(text)
  BY <1>1
<1>6. ASSUME NEW j \in Cuts(text)  PROVE j \in {e[1], e[2], e[3]}
  <2>1. /\ 0 < j => e[1] <= j
        /\ e[1] < j => e[2] <= j
        /\ e[2] < j => e[3] <= j
        /\ e[3] < j => e[4] <= j
    BY <1>2, <1>5 DEF Follows
  <2>2. j \in Nat /\ 0 < j /\ j < e[4]
    BY <1>5
  <2> QED
    BY <1>3, <2>1, <2>2
<1>7. e[1] \in Cuts(text) /\ e[2] \in Cuts(text) /\ e[3] \in Cuts(text)
  BY <1>1, <1>2, <1>3, <1>4 DEF Follows
<1> QED
  BY <1>1, <1>2, <1>3, <1>4, <1>6, <1>7

LEMMA FieldBetween ==
  ASSUME NEW text, text \in Seq(Chars(text)), NEW e, Walks(text, e, 4), e[4] = Len(text) + 1
  PROVE  /\ Cardinality(Cuts(text)) = 3
         /\ \A i \in 1..4 : Field(text, i) = Between(text, e[i - 1], e[i])
<1> DEFINE ends == Cuts(text) \cup {0, Len(text) + 1}
           Below(k) == { j \in ends : j < k }
           End(n) == CHOOSE k \in ends : Cardinality(Below(k)) = n
<1>1. /\ e[0] = 0 /\ e[1] \in Nat /\ e[2] \in Nat /\ e[3] \in Nat /\ e[4] \in Nat
      /\ 0 < e[1] /\ e[1] < e[2] /\ e[2] < e[3] /\ e[3] < e[4]
      /\ Cuts(text) = {e[1], e[2], e[3]}
  BY WalkedCuts
<1>2. Cardinality(Cuts(text)) = 3
  <2>1. e[1] # e[2] /\ e[1] # e[3] /\ e[2] # e[3]
    BY <1>1
  <2>2. Cardinality({e[1], e[2], e[3]}) = 3
    BY <2>1, ThreeElements
  <2> QED
    BY <1>1, <2>2
<1>3. ends = {e[0], e[1], e[2], e[3], e[4]}
  BY <1>1
<1>4. /\ Cardinality(Below(e[0])) = 0 /\ Cardinality(Below(e[1])) = 1
      /\ Cardinality(Below(e[2])) = 2 /\ Cardinality(Below(e[3])) = 3
      /\ Cardinality(Below(e[4])) = 4
  <2>1. /\ Below(e[0]) = {} /\ Below(e[1]) = {e[0]} /\ Below(e[2]) = {e[0], e[1]}
        /\ Below(e[3]) = {e[0], e[1], e[2]} /\ Below(e[4]) = {e[0], e[1], e[2], e[3]}
    <3> HIDE DEF ends
    <3> QED
      BY <1>1, <1>3
  <2>2. e[0] # e[1] /\ e[0] # e[2] /\ e[0] # e[3] /\ e[1] # e[2] /\ e[1] # e[3] /\ e[2] # e[3]
    BY <1>1
  <2>3. Cardinality({}) = 0 /\ Cardinality({e[0]}) = 1
    BY FS_EmptySet, FS_Singleton
  <2>4. Cardinality({e[0], e[1]}) = 2
    BY <2>2, TwoElements, ZenonT(60)
  <2>5. Cardinality({e[0], e[1], e[2]}) = 3
    BY <2>2, ThreeElements, ZenonT(60)
  <2>6. Cardinality({e[0], e[1], e[2], e[3]}) = 4
    <3> DEFINE T == {e[0], e[1], e[2]}
    <3>1. IsFiniteSet(T) /\ Cardinality(T) = 3
      BY <2>2, ThreeElements, ZenonT(60)
    <3>2. {e[0], e[1], e[2], e[3]} = T \cup {e[3]} /\ e[3] \notin T
      BY <2>2
    <3> HIDE DEF T
    <3>3. Cardinality(T \cup {e[3]}) = Cardinality(T) + 1
      BY <3>1, <3>2, FS_AddElement
    <3>4. Cardinality(T \cup {e[3]}) = 4
      BY <3>1, <3>3
    <3> QED
      BY <3>2, <3>4, Zenon
  <2> HIDE DEF Below
  <2> QED
    BY <2>1, <2>3, <2>4, <2>5, <2>6
<1>5. \A n \in 0..4 : End(n) = e[n]
  <2> HIDE DEF Below
  <2>1. \A n \in 0..4 : e[n] \in ends /\ Cardinality(Below(e[n])) = n
    BY <1>3, <1>4
  <2>2. \A k \in ends, n \in 0..4 : Cardinality(Below(k)) = n => k = e[n]
    <3> HIDE DEF ends
    <3>1. SUFFICES ASSUME NEW k \in ends, NEW n \in 0..4, Cardinality(Below(k)) = n  PROVE k = e[n]
      OBVIOUS
    <3>2. n = 0 \/ n = 1 \/ n = 2 \/ n = 3 \/ n = 4
      OBVIOUS
    <3> QED
      BY <1>3, <1>4, <3>1, <3>2
  <2> HIDE DEF ends
  <2> QED
    BY <2>1, <2>2
<1>6. \A i : Field(text, i) = SubSeq(text, End(i - 1) + 1, End(i) - 1)
  BY DEF Field
<1> HIDE DEF End
<1>7. \A i \in 1..4 : Field(text, i) = Between(text, e[i - 1], e[i])
  <2>1. \A i \in 1..4 : i - 1 \in 0..4 /\ i \in 0..4
    OBVIOUS
  <2> QED
    BY <1>5, <1>6, <2>1 DEF Between
<1> QED
  BY <1>2, <1>7

\* Three dots make four fields.
LEMMA ThreeCuts ==
  ASSUME NEW text, text \in Seq(Chars(text)), Cardinality(Cuts(text)) = 3
  PROVE  \E e : Walks(text, e, 4) /\ e[4] = Len(text) + 1
<1> DEFINE L == Len(text)
<1>1. /\ L \in Nat /\ Cuts(text) \subseteq 1..L /\ Ends(text) = Cuts(text) \cup {L + 1}
      /\ Ends(text) \subseteq 1..(L + 1)
  BY DottedText DEF Ends
<1>2. \A e \in 0..L : \E n \in Ends(text) : Follows(text, e, n)
  BY OneFollows
<1>3. IsFiniteSet(Cuts(text))
  <2>1. IsFiniteSet(1..L)
    BY <1>1, FS_Interval
  <2> QED
    BY <1>1, <2>1, FS_Subset
<1> HIDE DEF L
<1>4. \A T : T \subseteq Cuts(text) => Cardinality(T) <= 3
  BY <1>3, FS_Subset
<1>5. PICK e1 \in Ends(text) : Follows(text, 0, e1)
  BY <1>1, <1>2
<1>6. e1 \in 0..L
  <2>1. SUFFICES ASSUME e1 = L + 1 PROVE FALSE
    BY <1>1
  <2>2. Cuts(text) = {}
    BY <1>1, <1>5, <2>1 DEF Follows
  <2> QED
    BY <2>2, FS_EmptySet
<1>7. PICK e2 \in Ends(text) : Follows(text, e1, e2)
  BY <1>2, <1>6
<1>8. e2 \in 0..L /\ e1 # e2
  <2>1. e1 < e2 /\ e1 \in Nat /\ e2 \in Nat
    BY <1>1, <1>7 DEF Follows
  <2>2. SUFFICES ASSUME e2 = L + 1 PROVE FALSE
    BY <1>1, <2>1
  <2>3. \A j \in Cuts(text) : j \in {e1}
    <3>1. \A j \in Cuts(text) : j \in Nat /\ 0 < j /\ j < L + 1 /\ j \in Ends(text)
      BY <1>1
    <3>2. \A j \in Cuts(text) : e1 <= j /\ ~(e1 < j)
      BY <1>1, <1>5, <1>7, <2>2, <3>1 DEF Follows
    <3> QED
      BY <2>1, <3>1, <3>2
  <2>4. Cuts(text) \subseteq {e1}
    BY <2>3
  <2>5. IsFiniteSet({e1}) /\ Cardinality({e1}) = 1
    BY FS_Singleton
  <2>6. Cardinality(Cuts(text)) <= 1
    BY <2>4, <2>5, FS_Subset
  <2> QED
    BY <2>6
<1>9. PICK e3 \in Ends(text) : Follows(text, e2, e3)
  BY <1>2, <1>8
<1>10. e3 \in 0..L
  <2>1. /\ e1 < e2 /\ e2 < e3 /\ e1 \in Nat /\ e2 \in Nat /\ e3 \in Nat
    BY <1>1, <1>7, <1>9 DEF Follows
  <2>2. SUFFICES ASSUME e3 = L + 1 PROVE FALSE
    BY <1>1, <2>1
  <2>3. \A j \in Cuts(text) : j \in {e1, e2}
    <3>1. \A j \in Cuts(text) : j \in Nat /\ 0 < j /\ j < L + 1 /\ j \in Ends(text)
      BY <1>1
    <3>2. \A j \in Cuts(text) : e1 <= j /\ (e1 < j => e2 <= j) /\ ~(e2 < j)
      BY <1>1, <1>5, <1>7, <1>9, <2>2, <3>1 DEF Follows
    <3> QED
      BY <2>1, <3>1, <3>2
  <2>4. Cuts(text) \in SUBSET {e1, e2}
    BY <2>3
  <2>5. IsFiniteSet({e1, e2}) /\ Cardinality({e1, e2}) = 2
    BY <1>8, TwoElements
  <2>6. Cardinality(Cuts(text)) <= 2
    BY <2>4, <2>5, FS_Subset
  <2> QED
    BY <2>6
<1>11. PICK e4 \in Ends(text) : Follows(text, e3, e4)
  BY <1>2, <1>10
<1>12. e4 = L + 1
  <2>1. SUFFICES ASSUME e4 \in Cuts(text) PROVE FALSE
    BY <1>1
  <2>2. e1 < e2 /\ e2 < e3 /\ e3 < e4 /\ \A j \in {e1, e2, e3, e4} : j \in Nat
    BY <1>1, <1>7, <1>9, <1>11 DEF Follows
  <2> DEFINE T == {e1, e2, e3}
             F == T \cup {e4}
  <2>3. F \subseteq Cuts(text) /\ e4 \notin T
    BY <1>1, <1>6, <1>8, <1>10, <2>1, <2>2
  <2>4. IsFiniteSet(T) /\ Cardinality(T) = 3
    <3>1. e1 # e2 /\ e1 # e3 /\ e2 # e3
      BY <2>2
    <3> QED
      BY <3>1, ThreeElements
  <2> HIDE DEF T
  <2>5. Cardinality(F) = Cardinality(T) + 1
    BY <2>3, <2>4, FS_AddElement
  <2> HIDE DEF F
  <2>6. Cardinality(F) <= 3
    BY <1>4, <2>3
  <2> QED
    BY <2>4, <2>5, <2>6
<1> DEFINE e == [i \in 0..4 |-> IF i = 0 THEN 0 ELSE IF i = 1 THEN e1 ELSE IF i = 2 THEN e2
                                ELSE IF i = 3 THEN e3 ELSE e4]
<1>13. /\ e[0] = 0 /\ e[1] = e1 /\ e[2] = e2 /\ e[3] = e3 /\ e[4] = e4
       /\ e \in [0..4 -> 0..(L + 1)]
  BY <1>1
<1> HIDE DEF e
<1>14. \A i \in 1..4 : Follows(text, e[i - 1], e[i])
  <2>1. \A i \in 1..4 : i = 1 \/ i = 2 \/ i = 3 \/ i = 4
    OBVIOUS
  <2>2. 1 - 1 = 0 /\ 2 - 1 = 1 /\ 3 - 1 = 2 /\ 4 - 1 = 3
    OBVIOUS
  <2>3. /\ Follows(text, e[1 - 1], e[1]) /\ Follows(text, e[2 - 1], e[2])
        /\ Follows(text, e[3 - 1], e[3]) /\ Follows(text, e[4 - 1], e[4])
    BY <1>5, <1>7, <1>9, <1>11, <1>13, <2>2
  <2> QED
    BY <2>1, <2>3
<1> QED
  BY <1>12, <1>13, <1>14 DEF Walks, L

\* parseIP takes the texts of four fields of a byte each, and what it makes of them
\* are their values.
LEMMA QuadParsed ==
  ASSUME NEW text, text \in Seq(Chars(text))
  PROVE  /\ Quad(text) => ParseIP(text) = QuadValue(text) /\ QuadValue(text) \in [1..4 -> 0..255]
         /\ ParseIP(text) # Refused => Quad(text)
<1>1. ASSUME NEW e, Walks(text, e, 4), e[4] = Len(text) + 1
      PROVE  /\ Quad(text) <=> Bytes(text, e, 4)
             /\ Values(text, e, 4) = QuadValue(text)
             /\ Bytes(text, e, 4) => QuadValue(text) \in [1..4 -> 0..255]
  <2>1. /\ Cardinality(Cuts(text)) = 3
        /\ \A i \in 1..4 : Field(text, i) = Between(text, e[i - 1], e[i])
    BY <1>1, FieldBetween
  <2>2. Quad(text) <=> Bytes(text, e, 4)
    <3>1. Quad(text) <=> \A i \in 1..4 : Byte(Field(text, i))
      BY <2>1 DEF Quad, Byte
    <3> QED
      BY <2>1, <3>1 DEF Bytes
  <2>3. Values(text, e, 4) = QuadValue(text)
    BY <2>1 DEF Values, QuadValue
  <2>4. ASSUME Bytes(text, e, 4)  PROVE QuadValue(text) \in [1..4 -> 0..255]
    <3>1. ASSUME NEW i \in 1..4  PROVE Number(Field(text, i)) \in 0..255
      <4>1. /\ e[i - 1] \in 0..(Len(text) + 1) /\ e[i] \in 0..(Len(text) + 1)
            /\ e[i - 1] < e[i]
        <5>1. i - 1 \in 0..4 /\ i \in 0..4
          OBVIOUS
        <5> QED
          BY <1>1, <5>1 DEF Walks, Follows
      <4>2. Byte(Between(text, e[i - 1], e[i]))
        BY <2>4 DEF Bytes
      <4>3. Number(Between(text, e[i - 1], e[i])) \in 0..255
        BY <4>1, <4>2, ByteValue
      <4> QED
        BY <2>1, <4>3
    <3> QED
      BY <3>1 DEF QuadValue
  <2> QED
    BY <2>2, <2>3, <2>4
<1>2. ASSUME Quad(text)
      PROVE  ParseIP(text) = QuadValue(text) /\ QuadValue(text) \in [1..4 -> 0..255]
  <2>1. PICK e : Walks(text, e, 4) /\ e[4] = Len(text) + 1
    BY <1>2, ThreeCuts DEF Quad
  <2>2. Bytes(text, e, 4) /\ Values(text, e, 4) = QuadValue(text)
    BY <1>1, <1>2, <2>1
  <2> QED
    BY <1>1, <2>1, <2>2, IPParsed
<1>3. ASSUME ParseIP(text) # Refused  PROVE Quad(text)
  <2>1. PICK e : Walks(text, e, 4) /\ Bytes(text, e, 4) /\ e[4] = Len(text) + 1
    BY <1>3, IPParsed
  <2> QED
    BY <1>1, <2>1
<1> QED
  BY <1>2, <1>3

-----------------------------------------------------------------------------
(* The command line: a setting is written with its mark, and as it was typed. *)

Done == {"ended", "crashed"}

Marked ==
  /\ 0 \notin marks => settings.ip = Unset /\ typed.ip = Unset
  /\ 1 \notin marks => settings.port = Unset
  /\ phase \notin Done => /\ 0 \in marks => settings.ip # Unset
                          /\ 1 \in marks => settings.port # Unset
                          /\ 5 \in marks => settings.new # Unset
  /\ Past => Mandatory \subseteq marks

AsTyped ==
  /\ typed.ip # Unset => (settings.ip # Unset <=> Quad(typed.ip))
  /\ settings.ip # Unset => settings.ip = QuadValue(typed.ip)
  /\ settings.port # Unset /\ Number(typed.port) < IntMax => settings.port = Number(typed.port)

TakenInv == Marked /\ AsTyped

\* Steps that read no argument.
LEMMA NoArgument ==
  ASSUME TakenInv, UNCHANGED <<settings.ip, settings.port, typed.ip, typed.port>>,
         marks' = marks \/ marks' = marks \cup {7},
         settings'.new # Unset \/ settings'.new = settings.new,
         phase \in Done => phase' \in Done,
         Past' => Past \/ Mandatory \subseteq marks
  PROVE  TakenInv'
<1>1. \A k \in 0..5 : k \in marks' <=> k \in marks
  OBVIOUS
<1>2. Marked'
  <2>1. 0 \notin marks' => settings'.ip = Unset /\ typed'.ip = Unset
    BY <1>1 DEF TakenInv, Marked
  <2>2. 1 \notin marks' => settings'.port = Unset
    BY <1>1 DEF TakenInv, Marked
  <2>3. phase' \notin Done => /\ 0 \in marks' => settings'.ip # Unset
                              /\ 1 \in marks' => settings'.port # Unset
                              /\ 5 \in marks' => settings'.new # Unset
    BY <1>1 DEF TakenInv, Marked
  <2>4. Past' => (Mandatory \subseteq marks)'
    BY <1>1 DEF TakenInv, Marked, Mandatory
  <2> QED
    BY <2>1, <2>2, <2>3, <2>4 DEF Marked
<1>3. AsTyped'
  BY DEF TakenInv, AsTyped
<1> QED
  BY <1>2, <1>3 DEF TakenInv

LEMMA TextTyped ==
  \A text \in IpTexts \cup PortTexts : text \in Seq(Chars(text))
BY TypedTextsAssumption DEF Chars

LEMMA ArgumentTaken ==
  ASSUME Types, TakenInv, NEW option \in Option, Argument(option)
  PROVE  TakenInv'
<1>0. phase = "arguments" /\ phase' \in {"arguments", "ended", "crashed"} /\ ~Past'
  BY ArgumentStep DEF Argument, Past
<1>1. CASE Redundant(option) /\ Usage
  BY <1>0, <1>1, NoArgument DEF Usage, Exit, Done
<1>2. CASE ~Redundant(option)
  <2>0. marks' = marks \cup {Mark(option)} /\ Mark(option) \notin marks
    BY <1>2 DEF Argument, Redundant, Usage
  <2>1. ASSUME option = "--ip", NEW text \in IpTexts \cup {Null}, GiveIp(text)
        PROVE  TakenInv'
    <3>1. 0 \notin marks /\ marks' = marks \cup {0}
      BY <2>0, <2>1 DEF Mark
    <3>2. settings.ip = Unset /\ typed.ip = Unset
      BY <3>1 DEF TakenInv, Marked
    <3>3. /\ settings'.port = settings.port /\ settings'.new = settings.new
          /\ typed'.port = typed.port
      BY <2>1 DEF GiveIp, Types, NameSettings
    <3>4. /\ 1 \notin marks' => settings'.port = Unset
          /\ phase' \notin Done => /\ 1 \in marks' => settings'.port # Unset
                                   /\ 5 \in marks' => settings'.new # Unset
          /\ settings'.port # Unset /\ Number(typed'.port) < IntMax =>
               settings'.port = Number(typed'.port)
      <4>1. (1 \in marks' <=> 1 \in marks) /\ (5 \in marks' <=> 5 \in marks)
        BY <3>1
      <4>2. 1 \notin marks' => settings'.port = Unset
        BY <3>3, <4>1 DEF TakenInv, Marked
      <4>4. phase \notin Done
        BY <1>0 DEF Done
      <4>5. /\ 1 \in marks' => settings'.port # Unset
            /\ 5 \in marks' => settings'.new # Unset
        BY <3>3, <4>1, <4>4 DEF TakenInv, Marked
      <4>3. settings'.port # Unset /\ Number(typed'.port) < IntMax =>
              settings'.port = Number(typed'.port)
        BY <3>3 DEF TakenInv, AsTyped
      <4> QED
        BY <4>2, <4>3, <4>5
    <3>5. /\ phase' \notin Done => settings'.ip # Unset
          /\ typed'.ip # Unset => (settings'.ip # Unset <=> Quad(typed'.ip))
          /\ settings'.ip # Unset => settings'.ip = QuadValue(typed'.ip)
      <4>1. CASE text = Null
        BY <2>1, <3>2, <4>1 DEF GiveIp, Crash, Done
      <4>2. CASE text # Null
        <5>1. text \in Seq(Chars(text)) /\ typed'.ip = text
          BY <2>1, <4>2, TextTyped DEF GiveIp, Types
        <5>2. CASE ParseIP(text) = Refused
          <6>1. settings'.ip = Unset /\ phase' \in Done
            BY <2>1, <3>2, <4>2, <5>2, SMTT(30) DEF GiveIp, Exit, Done
          <6>2. ~Quad(text)
            <7>1. Quad(text) => Refused \in [1..4 -> 0..255]
              BY <5>1, <5>2, QuadParsed, SMTT(30)
            <7> QED
              BY <7>1, ParsedAssumption
          <6> QED
            BY <5>1, <6>1, <6>2
        <5>3. CASE ParseIP(text) # Refused
          <6>1. settings'.ip = ParseIP(text)
            BY <2>1, <4>2, <5>3 DEF GiveIp, Types
          <6>2. /\ Quad(text) /\ ParseIP(text) = QuadValue(text)
                /\ QuadValue(text) \in [1..4 -> 0..255]
            BY <5>1, <5>3, QuadParsed
          <6>3. settings'.ip # Unset
            BY <6>1, <6>2, UnsetAssumption
          <6> QED
            BY <5>1, <6>1, <6>2, <6>3
        <5> QED
          BY <5>2, <5>3
      <4> QED
        BY <4>1, <4>2
    <3> QED
      BY <1>0, <3>1, <3>4, <3>5 DEF TakenInv, Marked, AsTyped
  <2>2. ASSUME option = "--port", NEW text \in PortTexts \cup {Null}, GivePort(text)
        PROVE  TakenInv'
    <3>1. 1 \notin marks /\ marks' = marks \cup {1}
      BY <2>0, <2>2 DEF Mark
    <3>2. settings.port = Unset
      BY <3>1 DEF TakenInv, Marked
    <3>3. /\ settings'.ip = settings.ip /\ settings'.new = settings.new
          /\ typed'.ip = typed.ip
      BY <2>2 DEF GivePort, Types, NameSettings
    <3>4. /\ 0 \notin marks' => settings'.ip = Unset /\ typed'.ip = Unset
          /\ phase' \notin Done => /\ 0 \in marks' => settings'.ip # Unset
                                   /\ 5 \in marks' => settings'.new # Unset
          /\ typed'.ip # Unset => (settings'.ip # Unset <=> Quad(typed'.ip))
          /\ settings'.ip # Unset => settings'.ip = QuadValue(typed'.ip)
      <4>1. (0 \in marks' <=> 0 \in marks) /\ (5 \in marks' <=> 5 \in marks)
        BY <3>1
      <4>2. 0 \notin marks' => settings'.ip = Unset /\ typed'.ip = Unset
        BY <3>3, <4>1 DEF TakenInv, Marked
      <4>4. phase \notin Done
        BY <1>0 DEF Done
      <4>5. /\ 0 \in marks' => settings'.ip # Unset
            /\ 5 \in marks' => settings'.new # Unset
        BY <3>3, <4>1, <4>4 DEF TakenInv, Marked
      <4>3. /\ typed'.ip # Unset => (settings'.ip # Unset <=> Quad(typed'.ip))
            /\ settings'.ip # Unset => settings'.ip = QuadValue(typed'.ip)
        BY <3>3 DEF TakenInv, AsTyped
      <4> QED
        BY <4>2, <4>3, <4>5
    <3>5. /\ phase' \notin Done => settings'.port # Unset
          /\ settings'.port # Unset /\ Number(typed'.port) < IntMax =>
               settings'.port = Number(typed'.port)
      <4>1. CASE text = Null
        BY <2>2, <3>2, <4>1 DEF GivePort, Crash, Done
      <4>2. CASE text # Null
        <5>1. PICK port \in ParsePort(text) :
                /\ typed' = [typed EXCEPT !.port = text]
                /\ IF port = Refused THEN Exit(-1) /\ UNCHANGED settings
                   ELSE Goto("arguments") /\ settings' = [settings EXCEPT !.port = port]
          BY <2>2, <4>2 DEF GivePort
        <5>2. text \in Seq(Chars(text)) /\ typed'.port = text
          BY <4>2, <5>1, TextTyped DEF Types
        <5>3. CASE port = Refused
          BY <3>2, <5>1, <5>3 DEF Exit, Done
        <5>4. CASE port # Refused
          <6>1. settings'.port = port
            BY <5>1, <5>4 DEF Types
          <6>2. port \in Int /\ (Number(text) < IntMax => port = Number(text))
            BY <5>2, <5>4, PortParsed DEF Chars
          <6> QED
            BY <5>2, <6>1, <6>2, UnsetAssumption
        <5> QED
          BY <5>3, <5>4
      <4> QED
        BY <4>1, <4>2
    <3> QED
      BY <1>0, <3>1, <3>4, <3>5 DEF TakenInv, Marked, AsTyped
  <2>3. ASSUME option \in {"--map", "--user", "--pass", "--id", "--node"},
               NEW name \in Typed[option] \cup {Null}, GiveName(option, name)
        PROVE  TakenInv'
    <3>1. Mark(option) \notin {0, 1} /\ (Mark(option) = 5 => option = "--id")
      BY <2>3 DEF Mark
    <3>2. /\ settings'.ip = settings.ip /\ settings'.port = settings.port
          /\ typed'.port = typed.port /\ typed'.ip = typed.ip
          /\ settings'.new = settings.new \/ settings'.new = 0
          /\ phase' \notin Done /\ option = "--id" => settings'.new = 0
      <4>1. Setting(option) \in NameSettings
        BY <2>3 DEF Setting, NameSettings
      <4>2. CASE name = Null
        BY <2>3, <4>2 DEF GiveName, Crash, Done
      <4>3. CASE name # Null
        BY <2>3, <4>1, <4>3 DEF GiveName, Types, NameSettings
      <4> QED
        BY <4>2, <4>3
    <3> QED
      <4>1. 0 # Unset
        BY UnsetAssumption
      <4>2. 0 \in marks' <=> 0 \in marks
        BY <2>0, <3>1
      <4>3. 1 \in marks' <=> 1 \in marks
        BY <2>0, <3>1
      <4>4. 5 \in marks' => 5 \in marks \/ option = "--id"
        BY <2>0, <3>1
      <4>5. Marked'
        BY <1>0, <3>2, <4>1, <4>2, <4>3, <4>4 DEF TakenInv, Marked, Done
      <4>6. AsTyped'
        BY <3>2 DEF TakenInv, AsTyped
      <4> QED
        BY <4>5, <4>6 DEF TakenInv
  <2>4. CASE option \in {"--new", "--free"} /\ GiveMode(option)
    <3>1. Mark(option) = 5
      BY <2>4 DEF Mark
    <3>2. /\ settings'.ip = settings.ip /\ settings'.port = settings.port
          /\ typed'.port = typed.port /\ typed'.ip = typed.ip
          /\ settings'.new # Unset
      BY <2>4, UnsetAssumption DEF GiveMode, Types, NameSettings
    <3> QED
      <4>2. 0 \in marks' <=> 0 \in marks
        BY <2>0, <3>1
      <4>3. 1 \in marks' <=> 1 \in marks
        BY <2>0, <3>1
      <4>5. Marked'
        BY <1>0, <3>2, <4>2, <4>3 DEF TakenInv, Marked, Done
      <4>6. AsTyped'
        BY <3>2 DEF TakenInv, AsTyped
      <4> QED
        BY <4>5, <4>6 DEF TakenInv
  <2> QED
    BY <1>2, <2>1, <2>2, <2>3, <2>4 DEF Argument
<1> QED
  BY <1>1, <1>2 DEF Argument

LEMMA InitTaken == Init => TakenInv
BY DEF Init, TakenInv, Marked, AsTyped, Done, Past

LEMMA NextTaken ==
  ASSUME Types, TakenInv, Next
  PROVE  TakenInv'
<1> USE DEF Exit, Goto, GiveUp, Done, Past
<1>1. ASSUME NEW option \in Option, Argument(option)  PROVE TakenInv'
  BY <1>1, ArgumentTaken
<1>2. CASE UnknownArgument
  BY <1>2, NoArgument DEF UnknownArgument, Usage
<1>3. CASE EndOfArguments \/ UserProgramArguments
  <2>1. MandatoryGiven /\ UNCHANGED settings /\ (marks' = marks \/ marks' = marks \cup {7})
        /\ phase = "arguments"
    BY <1>3 DEF EndOfArguments, UserProgramArguments
  <2>2. UNCHANGED <<typed.ip, typed.port>> /\ (Past' => Mandatory \subseteq marks)
    BY <2>1 DEF MandatoryGiven, Types
  <2> QED
    BY <2>1, <2>2, NoArgument
<1>4. CASE Connect \/ ConnectionFails \/ ConnectionClosed
  BY <1>4, NoArgument DEF Connect, ConnectionFails, ConnectionClosed, Negotiating
<1>5. CASE SignIn
  BY <1>5, NoArgument DEF SignIn
<1>6. CASE SelectMap
  <2>1. UNCHANGED <<settings.ip, settings.port, settings.new>>
    BY <1>6 DEF SelectMap, Types, NameSettings
  <2>2. UNCHANGED <<marks, typed>> /\ phase = "map"
    BY <1>6 DEF SelectMap
  <2> QED
    BY <2>1, <2>2, NoArgument
<1>7. CASE SelectNode
  BY <1>7, NoArgument DEF SelectNode
<1>8. CASE Synchronize
  BY <1>8, NoArgument DEF Synchronize, CountInterfaces, ReadInterface, SetCustomInformation
<1>9. CASE Start \/ Resume \/ Interrupt
  <2>1. UNCHANGED <<settings, marks, typed>> /\ phase \in {"start", "running"}
    <3>1. CASE Start
      BY <3>1 DEF Start
    <3>2. CASE Resume
      BY <3>2 DEF Resume
    <3>3. CASE Interrupt
      BY <3>3 DEF Interrupt
    <3> QED
      BY <1>9, <3>1, <3>2, <3>3
  <2> QED
    BY <2>1, NoArgument
<1>10. CASE Recover
  <2>1. /\ UNCHANGED <<settings.ip, settings.port, marks, typed>> /\ settings'.new = 0
        /\ phase = "running"
    BY <1>10 DEF Recover, Types, NameSettings
  <2>2. 0 # Unset
    BY UnsetAssumption
  <2> QED
    BY <2>1, <2>2, NoArgument
<1>11. CASE FreedElsewhere \/ \E map \in MapName, user \in User : MadeElsewhere(map, user)
  BY <1>11, NoArgument DEF FreedElsewhere, MadeElsewhere, program
<1>12. CASE OverrunCrash
  BY <1>12, NoArgument DEF OverrunCrash, Crash, Done, Past
<1> QED
  BY <1>1, <1>2, <1>3, <1>4, <1>5, <1>6, <1>7, <1>8, <1>9, <1>10, <1>11, <1>12 DEF Next

\* For any texts after --ip and --port, in any order of the arguments: a program goes
\* on only with all it reads later, an address is taken exactly when it is four
\* fields of a byte each, and what is taken is what was typed (parseArguments,
\* parseIP, parsePort).
THEOREM ArgumentsTakenHolds == Spec => []ArgumentsTaken
<1>1. Types /\ TakenInv => ArgumentsTaken
  <2> SUFFICES ASSUME Types, TakenInv  PROVE ArgumentsTaken
    OBVIOUS
  <2>1. ASSUME Past
        PROVE  /\ Unset \notin {settings.ip, settings.port, settings.new}
               /\ \A option \in {"--map", "--user", "--pass"} : Mark(option) \in marks
    <3>1. Mandatory \subseteq marks /\ phase \notin Done
      BY <2>1 DEF TakenInv, Marked, Past, Done
    <3>2. 0 \in marks /\ 1 \in marks /\ 2 \in marks /\ 3 \in marks /\ 4 \in marks /\ 5 \in marks
      BY <3>1 DEF Mandatory
    <3>3. settings.ip # Unset /\ settings.port # Unset /\ settings.new # Unset
      BY <3>1, <3>2 DEF TakenInv, Marked
    <3>4. Mark("--map") = 2 /\ Mark("--user") = 3 /\ Mark("--pass") = 4
      BY DEF Mark
    <3> QED
      BY <3>2, <3>3, <3>4
  <2> QED
    BY <2>1 DEF TakenInv, AsTyped, ArgumentsTaken
<1>2. Types /\ TakenInv /\ [Next]_vars => (Types /\ TakenInv)'
  <2>1. CASE Next
    BY <2>1, NextTypes, NextTaken
  <2>2. CASE UNCHANGED vars
    BY <2>2 DEF vars, program, server, machine, Types, TakenInv, Marked, AsTyped, Past
  <2> QED
    BY <2>1, <2>2
<1>3. Init => Types /\ TakenInv
  BY InitNegotiation, InitTaken DEF NegotiationInv
<1> QED
  BY <1>1, <1>2, <1>3, PTL DEF Spec
=============================================================================

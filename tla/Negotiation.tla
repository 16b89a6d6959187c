---------------------------- MODULE Negotiation ----------------------------
(***************************************************************************)
(* One run of a client program from its command line to the simulation:    *)
(* the arguments, the negotiations with the simulation server, the         *)
(* machine that is set up with what the server tells, and the recovery     *)
(* after a lost connection.  A negotiation, question and answer, is one    *)
(* step; the threads of a running client are the matter of Framework.      *)
(***************************************************************************)
EXTENDS Arguments

CONSTANTS
  Name,         \* names that can be typed, of users, passwords, maps, nodes
  Length,       \* [Name -> Nat]
  Empty,        \* the empty string
  User, Password,  \* the names that are an account of the server
  MapName, NodeName,  \* the names of its maps and nodes
  BufferSize,   \* 1524 in the code: FRAME_BUFFER_SIZE
  Unset,        \* memory nobody has written
  Null,         \* argv[argc]
  IpTexts, PortTexts,  \* what is typed after --ip and --port
  Typed,        \* [option -> SUBSET Name]: the names typed after the others
  Counts,       \* numbers of interfaces the server answers with
  Addresses,    \* their addresses
  Info,         \* custom information of the nodes
  Sizes,        \* of an interface's record or of it, as the server announces them
  Roles,        \* those SimulatedMachine::initialize knows
  MaxBreaks     \* bound on the lost connections

AnyName == Name \cup {Empty}

ASSUME NamesAssumption ==
  /\ Empty \notin Name /\ Null \notin AnyName
  /\ Length \in [Name -> Nat]
  /\ User \subseteq Name
  /\ Typed \in [{"--map", "--user", "--pass", "--id", "--node"} -> SUBSET AnyName]

\* What is typed are sequences of characters.
ASSUME TypedTextsAssumption ==
  \A text \in IpTexts \cup PortTexts : text \in Seq({ text[k] : k \in 1..Len(text) })

\* Memory nobody has written holds no number, name, address or map instance.
ASSUME UnsetAssumption ==
  /\ Unset \notin Int /\ Unset \notin [1..4 -> 0..255]
  /\ Unset \notin AnyName \cup Addresses \cup {<<"garbled">>}
  /\ \A map \in MapName, name \in AnyName : \A n \in 0..2 : Unset # <<map, name, n>>

\* The buffer has room for the longest user and password, and its size is 16 bits.
ASSUME BufferAssumption == BufferSize \in Nat /\ 78 <= BufferSize /\ BufferSize < 65536

ASSUME CountsAssumption == Counts \subseteq Int /\ Sizes \subseteq Nat

VARIABLES
  phase,        \* what the main thread does next
  code,         \* the program's exit code
  marks,        \* parseArguments: the kinds of arguments seen
  settings,     \* what they set
  connected,
  top,          \* history: how far the buffer has been written
  announced,    \* history: the size of the custom information
  iface,        \* the machine's interfaces
  role,         \* simpleMachine
  recovering,   \* inside recoverSimulation
  breaks,       \* how often the connection was lost
  typed,        \* history: the texts of the address and the port, the map wanted
  heard,        \* the server: what it has read, and of which instance
  instances,    \* the server: the map instances, <<map, creator, serial>>
  made,         \* the server: how many instances there have been
  told,         \* the server: the interface addresses it has sent
  remade        \* history: another session of the user has made the map again

program == <<phase, code, connected, recovering>>
written == <<top, announced>>
machine == <<iface, role>>
server == <<heard, instances, made, told, remade>>
vars == <<program, marks, settings, written, machine, breaks, typed, server>>

Init ==
  /\ phase = "arguments" /\ code = Unset
  /\ marks = {}
  /\ settings = [ip |-> Unset, port |-> Unset, map |-> Empty, user |-> Empty, pass |-> Empty,
                 creator |-> Empty, node |-> Empty, new |-> Unset]
  /\ connected = FALSE /\ top = 0 /\ announced = 0
  /\ iface = <<>> /\ role = Unset
  /\ recovering = FALSE /\ breaks = 0
  /\ typed = [ip |-> Unset, port |-> Unset, wanted |-> Unset]
  /\ heard = [user |-> Unset, map |-> Unset, node |-> Unset, first |-> Unset]
  /\ instances \in SUBSET (MapName \X User \X {0})
  /\ made = 0 /\ told = <<>> /\ remade = FALSE

Exit(n) == phase' = "ended" /\ code' = n
Crash == phase' = "crashed" /\ code' = Unset
Goto(next) == phase' = next /\ code' = code

-----------------------------------------------------------------------------
(* parseArguments.  argv is chosen as it is read. *)

Option == {"--ip", "--port", "--map", "--user", "--pass", "--id", "--new", "--free", "--node"}

Mandatory == 0..5

Mark(option) ==
  CASE option = "--ip" -> 0 [] option = "--port" -> 1 [] option = "--map" -> 2
    [] option = "--user" -> 3 [] option = "--pass" -> 4
    [] option \in {"--id", "--new", "--free"} -> 5
    [] option = "--node" -> 6

\* checkForRedundantArgument
Redundant(option) == Mark(option) \in marks

Usage == Exit(-1) /\ UNCHANGED <<marks, settings, typed>>

\* An option whose value is the name that follows it.
Setting(option) ==
  CASE option = "--map" -> "map" [] option = "--user" -> "user" [] option = "--pass" -> "pass"
    [] option = "--id" -> "creator" [] option = "--node" -> "node"

GiveIp(text) ==
  IF text = Null THEN Crash /\ UNCHANGED <<settings, typed>>
  ELSE /\ typed' = [typed EXCEPT !.ip = text]
       /\ IF ParseIP(text) = Refused THEN Exit(-1) /\ UNCHANGED settings
          ELSE Goto("arguments") /\ settings' = [settings EXCEPT !.ip = ParseIP(text)]

GivePort(text) ==
  IF text = Null THEN Crash /\ UNCHANGED <<settings, typed>>
  ELSE \E port \in ParsePort(text) :
         /\ typed' = [typed EXCEPT !.port = text]
         /\ IF port = Refused THEN Exit(-1) /\ UNCHANGED settings
            ELSE Goto("arguments") /\ settings' = [settings EXCEPT !.port = port]

GiveName(option, name) ==
  IF name = Null THEN Crash /\ UNCHANGED <<settings, typed>>
  ELSE /\ Goto("arguments") /\ UNCHANGED typed
       /\ settings' = [settings EXCEPT ![Setting(option)] = name,
                                       !.new = IF option = "--id" THEN 0 ELSE @]

GiveMode(option) ==
  /\ Goto("arguments") /\ UNCHANGED typed
  /\ settings' = [settings EXCEPT !.new = IF option = "--new" THEN 1 ELSE -1]

Argument(option) ==
  /\ phase = "arguments"
  /\ \/ Redundant(option) /\ Usage
     \/ /\ ~Redundant(option)
        /\ marks' = marks \cup {Mark(option)}
        /\ \/ option = "--ip" /\ \E text \in IpTexts \cup {Null} : GiveIp(text)
           \/ option = "--port" /\ \E text \in PortTexts \cup {Null} : GivePort(text)
           \/ /\ option \in {"--map", "--user", "--pass", "--id", "--node"}
              /\ \E name \in Typed[option] \cup {Null} : GiveName(option, name)
           \/ option \in {"--new", "--free"} /\ GiveMode(option)
  /\ UNCHANGED <<connected, recovering, written, machine, breaks, server>>

UnknownArgument ==
  /\ phase = "arguments" /\ Usage
  /\ UNCHANGED <<connected, recovering, written, machine, breaks, server>>

\* Whose instance of the map the command line asks for.
Wanted == <<settings.map, IF settings.new = 0 THEN settings.creator ELSE settings.user>>

MandatoryGiven ==
  IF Mandatory \subseteq marks
  THEN Goto("connect") /\ typed' = [typed EXCEPT !.wanted = Wanted]
  ELSE Exit(-1) /\ UNCHANGED typed

EndOfArguments ==
  /\ phase = "arguments" /\ MandatoryGiven
  /\ UNCHANGED <<marks, settings, connected, recovering, written, machine, breaks, server>>

\* --args: what follows is handed to SimulatedMachine::parseArguments, which
\* ignores it, and is not looked at here.
UserProgramArguments ==
  /\ phase = "arguments" /\ MandatoryGiven
  /\ marks' = marks \cup {7}
  /\ UNCHANGED <<settings, connected, recovering, written, machine, breaks, server>>

-----------------------------------------------------------------------------
(* A negotiation that fails ends the program: runCF is false and main       *)
(* returns -1, or recoverSimulation gives up and systemInterrupt exits.     *)

GiveUp == Exit(IF recovering THEN 0 ELSE -1) /\ connected' = FALSE

\* connectToServer: connected from the time there is a socket.
Connect ==
  /\ phase = "connect"
  /\ \/ Goto("signin") /\ connected' = TRUE
     \/ GiveUp
  /\ UNCHANGED <<marks, settings, recovering, written, machine, breaks, typed, server>>

\* The connection fails, or the server closes it, in any negotiation.
Negotiating == {"signin", "map", "node", "interfaces", "start"}

ConnectionFails ==
  /\ phase \in Negotiating /\ GiveUp
  /\ UNCHANGED <<marks, settings, recovering, written, machine, breaks, typed, server>>

ConnectionClosed ==
  /\ phase \in Negotiating /\ Exit(0) /\ connected' = FALSE
  /\ UNCHANGED <<marks, settings, recovering, written, machine, breaks, typed, server>>

-----------------------------------------------------------------------------
(* Messages: an overall length (not in that of the node), and each name     *)
(* after its own length, in 16 bits, closed by a zero.                      *)

LengthOf(name) == IF name = Empty THEN 0 ELSE Length[name]
Short(n) == n % 65536

Item(name) == [size |-> Short(LengthOf(name) + 1), name |-> name]
ItemBytes(name) == 2 + LengthOf(name) + 1
NamesBytes(names) == ItemBytes(names[1]) + ItemBytes(names[2])

\* The message of these two names and rest more bytes.
Message(names, rest) ==
  LET size == Short(2 + NamesBytes(names) + rest)
  IN [ts |-> Short(size - 2), items |-> [i \in 1..2 |-> Item(names[i])],
      rest |-> rest, bytes |-> size]

\* The server reads ts bytes after the length, then the items by their sizes.
Reads(message, names) ==
  LET first == message.items[1]
      second == message.items[2]
  IN /\ message.bytes = 2 + message.ts
     /\ message.ts = message.rest + (2 + first.size) + (2 + second.size)
     /\ \A i \in 1..2 : message.items[i].size = LengthOf(names[i]) + 1

Garbled == <<"garbled">>
Understood(message, names) == IF Reads(message, names) THEN names ELSE Garbled
Wrote(bytes) == top' = IF bytes > top THEN bytes ELSE top
Write(bytes) == Wrote(bytes) /\ UNCHANGED announced

-----------------------------------------------------------------------------
(* doSigningInNegotiations *)

SignIn ==
  /\ phase = "signin"
  /\ \/ /\ LengthOf(settings.user) > 20 \/ LengthOf(settings.pass) > 50
        /\ GiveUp /\ UNCHANGED <<written, heard>>
     \/ /\ LengthOf(settings.user) <= 20 /\ LengthOf(settings.pass) <= 50
        /\ LET names == <<settings.user, settings.pass>>
               m == Message(names, 0)
           IN /\ Write(2 + NamesBytes(names))
              /\ heard' = [heard EXCEPT !.user = Understood(m, names)]
        /\ IF settings.user \in User /\ settings.pass \in Password
           THEN Goto("map") /\ UNCHANGED connected
           ELSE GiveUp
  /\ UNCHANGED <<marks, settings, recovering, machine, breaks, typed, instances, made, told, remade>>

-----------------------------------------------------------------------------
(* doMapSelectingNegotiations *)

\* Mutant: the zeros behind the names are not counted.
MapTooLongBy2(map, creator) ==
  3 * 2 + LengthOf(map) + LengthOf(creator) + 4 > BufferSize

MapTooLong(map, creator) ==
  3 * 2 + LengthOf(map) + 1 + LengthOf(creator) + 1 + 4 > BufferSize

Creator == IF settings.new # 0 THEN settings.user ELSE settings.creator

Instance(map, creator) == { i \in instances : i[1] = map /\ i[2] = creator }

\* The server has put the client on this instance.
Selected(i) == heard' = [heard EXCEPT !.map = i, !.first = IF @ = Unset THEN i ELSE @]

\* MapNodeSelectingNegotiationCommands; to the switch on the map's answer those
\* about a node are as good as an unknown one.
MapNodeSelectingCommand ==
  { "MapNotExist", "MaxMapIpuViolated", "MapSelected", "NodeNotExist", "NodeSelected",
    "OutOfResource", "MapInstanceResourcesAreReleased" }

\* What the server may answer; a new map may be more than it has resources for.
Answers(map, creator) ==
  LET old == Instance(map, creator)
      refusals == MapNodeSelectingCommand \ {"MapSelected", "MapInstanceResourcesAreReleased"}
  IN CASE settings.new = 0 /\ old # {} -> {"MapSelected"}
       [] settings.new = 1 /\ old = {} /\ map \in MapName -> {"MapSelected"} \cup refusals
       [] settings.new = -1 /\ old # {} -> {"MapInstanceResourcesAreReleased"}
       [] OTHER -> refusals

\* The server's instances after it.
Serve(command, map, creator) ==
  LET old == Instance(map, creator) IN
  \/ /\ command = "MapSelected" /\ old # {}
     /\ Selected(CHOOSE i \in old : TRUE) /\ UNCHANGED <<instances, made>>
  \/ /\ command = "MapSelected" /\ old = {}
     /\ made' = made + 1
     /\ instances' = instances \cup {<<map, creator, made + 1>>}
     /\ Selected(<<map, creator, made + 1>>)
  \/ /\ command = "MapInstanceResourcesAreReleased"
     /\ instances' = instances \ old /\ UNCHANGED <<made, heard>>
  \/ /\ command \notin {"MapSelected", "MapInstanceResourcesAreReleased"}
     /\ UNCHANGED <<instances, made, heard>>

\* Only one command lets the negotiations go on, also after "[Done]".
MapAnswered(command) ==
  IF command = "MapSelected" THEN Goto("node") /\ UNCHANGED connected ELSE GiveUp

SelectMap ==
  /\ phase = "map"
  /\ settings' = [settings EXCEPT !.creator = Creator]
  /\ LET names == <<settings.map, Creator>> IN
     \/ /\ MapTooLong(settings.map, Creator)
        /\ GiveUp /\ UNCHANGED <<written, heard, instances, made>>
     \/ /\ ~MapTooLong(settings.map, Creator)
        /\ Write(2 + NamesBytes(names) + 4)
        /\ IF Reads(Message(names, 4), names)
           THEN \E command \in Answers(settings.map, Creator) :
                  Serve(command, settings.map, Creator) /\ MapAnswered(command)
           ELSE GiveUp /\ heard' = [heard EXCEPT !.map = Garbled] /\ UNCHANGED <<instances, made>>
  /\ UNCHANGED <<marks, recovering, machine, breaks, typed, told, remade>>

-----------------------------------------------------------------------------
(* doNodeSelectingNegotiations *)

SelectNode ==
  /\ phase = "node"
  /\ LET ms == LengthOf(settings.node) + 1 IN
     \/ settings.node = Empty /\ Exit(0) /\ connected' = FALSE /\ UNCHANGED <<written, heard>>
     \/ /\ settings.node # Empty /\ ms > BufferSize - 2
        /\ Write(2) /\ GiveUp /\ UNCHANGED heard
     \/ /\ settings.node # Empty /\ ms <= BufferSize - 2
        /\ Write(2 + ms)
        /\ heard' = [heard EXCEPT !.node = settings.node]
        /\ IF settings.node \in NodeName
           THEN Goto(IF recovering THEN "start" ELSE "interfaces") /\ UNCHANGED connected
           ELSE GiveUp
  /\ UNCHANGED <<marks, settings, recovering, machine, breaks, typed, instances, made, told, remade>>

-----------------------------------------------------------------------------
(* doInterfacesInformationSynchronizationNegotiations: the machine is       *)
(* instantiated with as many interfaces as the server counts, and each is   *)
(* initialized as its record is read (readInterfaceInformation).            *)

\* Mutant: the last interface is not read.
RoundsShort(count) == 0..(count - 2)
Rounds(count) == 0..(count - 1)

Instantiated(count) == [i \in 1..count |-> Unset]
InitInterface(i, address) == [iface EXCEPT ![i] = address]

CountInterfaces(count) ==
  /\ phase = "interfaces" /\ iface = <<>>
  /\ IF count < 1 THEN GiveUp /\ UNCHANGED iface
     ELSE /\ iface' = Instantiated(count)
          /\ Goto("interfaces") /\ UNCHANGED connected
  /\ UNCHANGED <<marks, settings, recovering, written, role, breaks, typed, server>>

\* A record of an unknown type or of more than FRAME_BUFFER_SIZE is an error; to
\* receive an empty one reads as the end of the connection.  Any other record of the
\* server's ends with the address, where the code looks for it by the size.
ReadInterface(address, size) ==
  /\ phase = "interfaces" /\ iface # <<>> /\ Len(told) \in Rounds(Len(iface))
  /\ \/ size > BufferSize /\ GiveUp /\ UNCHANGED <<written, told, iface>>
     \/ size = 0 /\ Exit(0) /\ connected' = FALSE /\ UNCHANGED <<written, told, iface>>
     \/ /\ size \in 1..BufferSize /\ Write(size)
        /\ \/ /\ told' = Append(told, address)
              /\ iface' = InitInterface(Len(told) + 1, address)
              /\ Goto("interfaces") /\ UNCHANGED connected
           \/ GiveUp /\ UNCHANGED <<told, iface>>
  /\ UNCHANGED <<marks, settings, recovering, role, breaks, typed, heard, instances, made, remade>>

\* doCustomInformationSynchronizationNegotiations does not compare the size with the
\* buffer's: what is past its end falls on the heap, where the interfaces are.
SetCustomInformation(info, size) ==
  /\ phase = "interfaces" /\ iface # <<>> /\ Len(told) \notin Rounds(Len(iface))
  /\ \/ size < 1 /\ GiveUp /\ UNCHANGED <<written, iface, role>>
     \/ /\ size >= 1 /\ Wrote(size) /\ announced' = size
        /\ Goto("start") /\ role' = info /\ UNCHANGED connected
        /\ IF size > BufferSize THEN iface' \in [DOMAIN iface -> Addresses \cup {Unset}]
           ELSE UNCHANGED iface
  /\ UNCHANGED <<marks, settings, recovering, breaks, typed, server>>

\* A pointer among what was written over ends the process, sooner or later.
OverrunCrash ==
  /\ announced > BufferSize /\ phase \notin {"ended", "crashed"} /\ Crash
  /\ UNCHANGED <<marks, settings, connected, recovering, written, machine, breaks, typed, server>>

Synchronize ==
  \/ \E count \in Counts : CountInterfaces(count)
  \/ \E address \in Addresses, size \in Sizes : ReadInterface(address, size)
  \/ \E info \in Info, size \in Sizes : SetCustomInformation(info, size)

\* SimulatedMachine::initialize, on the thread simulateMachine starts: for any other
\* role simpleMachine stays null.
Initialize == IF role \in Roles THEN Goto("running") ELSE Crash

\* startSimulation, until the machine has been initialized.
Start ==
  /\ phase = "start" /\ ~recovering
  /\ GiveUp \/ (Initialize /\ UNCHANGED connected)
  /\ UNCHANGED <<marks, settings, recovering, written, machine, breaks, typed, server>>

\* announceSimulationResume
Resume ==
  /\ phase = "start" /\ recovering
  /\ GiveUp \/ (Goto("running") /\ UNCHANGED connected)
  /\ UNCHANGED <<marks, settings, recovering, written, machine, breaks, typed, server>>

-----------------------------------------------------------------------------
(* The running client. *)

\* SIGINT, or the server closes the connection.
Interrupt ==
  /\ phase = "running" /\ Exit(0) /\ connected' = FALSE
  /\ UNCHANGED <<marks, settings, recovering, written, machine, breaks, typed, server>>

\* Mutant: the recovery asks for a new map if the first one was new.
RecoverAsBefore ==
  /\ phase = "running" /\ breaks < MaxBreaks
  /\ breaks' = breaks + 1 /\ recovering' = TRUE /\ connected' = FALSE
  /\ Goto("connect") /\ UNCHANGED settings
  /\ UNCHANGED <<marks, written, machine, typed, server>>

\* recoverSimulation, after an IO exception.
Recover ==
  /\ phase = "running" /\ breaks < MaxBreaks   \* bound
  /\ breaks' = breaks + 1 /\ recovering' = TRUE /\ connected' = FALSE
  /\ Goto("connect") /\ settings' = [settings EXCEPT !.new = 0]
  /\ UNCHANGED <<marks, written, machine, typed, server>>

-----------------------------------------------------------------------------
(* Other sessions of the users: an instance is freed, or made again. *)

FreedElsewhere ==
  /\ phase \in {"connect", "running"} /\ instances # {}
  /\ instances' = {}
  /\ UNCHANGED <<program, marks, settings, written, machine, breaks, typed, heard, made, told, remade>>

MadeElsewhere(map, user) ==
  /\ phase \in {"connect", "running"} /\ recovering /\ instances = {} /\ ~remade
  /\ made' = made + 1 /\ remade' = TRUE
  /\ instances' = {<<map, user, made + 1>>}
  /\ UNCHANGED <<program, marks, settings, written, machine, breaks, typed, heard, told>>

-----------------------------------------------------------------------------
Next ==
  \/ \E option \in Option : Argument(option)
  \/ UnknownArgument \/ EndOfArguments \/ UserProgramArguments
  \/ Connect \/ ConnectionFails \/ ConnectionClosed
  \/ SignIn \/ SelectMap \/ SelectNode
  \/ Synchronize \/ OverrunCrash \/ Start \/ Resume \/ Interrupt \/ Recover
  \/ FreedElsewhere
  \/ \E map \in MapName, user \in User : MadeElsewhere(map, user)

Spec == Init /\ [][Next]_vars

-----------------------------------------------------------------------------
(* Properties. *)

Past == phase \notin {"arguments", "ended", "crashed"}

\* parseArguments lets a program go on only with every setting that is read later
\* written, and the address and the port are those typed: an address is taken if
\* and only if it is four fields of a byte each.
ArgumentsTaken ==
  /\ Past => /\ Unset \notin {settings.ip, settings.port, settings.new}
             /\ \A option \in {"--map", "--user", "--pass"} : Mark(option) \in marks
  /\ typed.ip # Unset => (settings.ip # Unset <=> Quad(typed.ip))
  /\ settings.ip # Unset => settings.ip = QuadValue(typed.ip)
  /\ settings.port # Unset /\ Number(typed.port) < IntMax => settings.port = Number(typed.port)

\* Whatever the names on the command line and the sizes the server announces, what
\* the negotiations write stays within the buffer (cf.cpp:213, 263, 367, 481), except
\* custom information that is longer than it (cf.cpp:538); and the server, which goes
\* by the lengths in the messages, reads the names.
WellFormed ==
  (top <= BufferSize \/ top = announced) /\ heard.user # Garbled /\ heard.map # Garbled

\* A simulation, also one that has been recovered, runs on the map instance the
\* command line asked for, and, unless another session has put a new one in its
\* place, on the very one it began on; recovering neither makes nor frees one.
SameInstance ==
  /\ phase = "running" => /\ <<heard.map[1], heard.map[2]>> = typed.wanted
                          /\ heard.map = heard.first \/ remade
                          /\ heard.user = <<settings.user, settings.pass>>
  /\ recovering => made <= (IF remade THEN 2 ELSE 1)

\* "interfaces are valid now" (sm.cpp:50): SimulatedMachine::initialize and the
\* handlers find every interface as the server described it, unless custom information
\* has been written past the buffer.
InterfacesValid ==
  phase \in {"start", "running"} /\ announced <= BufferSize =>
    Len(iface) >= 1 /\ iface = told /\ Unset \notin { iface[i] : i \in 1..Len(iface) }
=============================================================================

-------------------------------- MODULE Nat --------------------------------
(***************************************************************************)
(* The NAT machine of scratch2: the main thread runs processFrame for one  *)
(* frame at a time, the console thread runs block_range and reset_setting. *)
(* No lock orders the two, so a frame is handled in the steps between      *)
(* which the other thread can act.                                         *)
(*                                                                         *)
(* An inside client is known by its local address, an outside host by its  *)
(* address; a public address is an offset from the address of interface 0  *)
(* and a 16-bit port.                                                      *)
(***************************************************************************)
EXTENDS Integers, Vec

CONSTANTS
  Insiders,     \* local addresses, records with fields ip and port
  Outsiders,    \* addresses of hosts outside
  BasePorts,    \* what the console may answer to "enter the base start number"
  Ranges,       \* port ranges the console may block, records begin, end
  MaxCounter,   \* bound on the number of public addresses handed out
  MaxSessions,  \* bound on sessions: every outgoing frame pushes one more
  MaxResets     \* bound on the number of reset commands

DefaultBase == 2000
Port == 0..65535

ASSUME InsidersAssumption == \A l \in Insiders : l.port \in Port
ASSUME BasePortsAssumption == BasePorts \subseteq Port
ASSUME BoundsAssumption == {MaxCounter, MaxSessions, MaxResets} \subseteq Nat

VARIABLES
  blocked,      \* blocked_range
  table,        \* table: vector of local address / public address pairs
  sessions,     \* sessions: vector of public address / outer address pairs
  base_port,
  counter,
  main,         \* the main thread inside processFrame
  console,      \* the console thread inside run
  resets,       \* how many reset commands were typed
  issued,       \* history: every address pair handed out, with counter and base
  contacted,    \* history: frames sent out, <<client, public address, outer>>
  delivered,    \* history: frames let in, <<client, public address, outer>>
  race          \* history: which windows a console step has fallen into

netVars == <<blocked, table, sessions, base_port, counter>>
history == <<issued, contacted, delivered, race>>
vars == <<netVars, main, console, resets, history>>

-----------------------------------------------------------------------------
\* Mutant: the port steps with the wrong period.
NewAddressTwoPorts(b, n) ==
  [ip |-> n \div 3 + 1, port |-> (b + (n % 2) * 100) % 65536]

\* calculate_new_address, for the n-th call under base port b.
NewAddress(b, n) ==
  [ip |-> n \div 3 + 1, port |-> (b + (n % 3) * 100) % 65536]

Public == { NewAddress(b, n) : b \in BasePorts \cup {DefaultBase}, n \in 0..MaxCounter }
Pair == [local : Insiders, public : Public]
SessionOf == [public : Public, outer : Outsiders]

\* valid_in_range
ValidInRange(port) == \A r \in blocked : ~(r.begin <= port /\ port <= r.end)

\* Mutants: the last entry is not scanned; the port is not compared; any host
\* may answer once the address has a session.
LocalMatchesShort(l) == { i \in 1..(table.size - 1) : table.slots[i].local = l }
LocalMatchesIp(l) == { i \in 1..table.size : table.slots[i].local.ip = l.ip }
HasSessionAnyOuter(p, o) == \E s \in Live(sessions) : s.public = p

\* The indices find_in_local_table, find_in_outer_table and find_in_session scan.
LocalMatches(l) == { i \in 1..table.size : table.slots[i].local = l }
PublicMatches(p) == { i \in 1..table.size : table.slots[i].public = p }
HasSession(p, o) == [public |-> p, outer |-> o] \in Live(sessions)

First(i, S) == i \in S /\ \A j \in S : i <= j

Goto(pc) == main' = [main EXCEPT !.pc = pc]
Return == main' = [pc |-> "idle"]

-----------------------------------------------------------------------------
Init ==
  /\ blocked = {}
  /\ table = EmptyVec
  /\ sessions = EmptyVec
  /\ base_port = DefaultBase
  /\ counter = 0
  /\ main = [pc |-> "idle"]
  /\ console = "idle"
  /\ resets = 0
  /\ issued = {}
  /\ contacted = {}
  /\ delivered = {}
  /\ race = {}

-----------------------------------------------------------------------------
(* The main thread: a frame from interface 0, outside to inside. *)

ReceiveOutside(src, dst) ==
  /\ main.pc = "idle"
  /\ main' = [pc |-> "InLookup", src |-> src, dst |-> dst]
  /\ UNCHANGED <<netVars, console, resets, history>>

\* find_in_outer_table; an unknown destination is ignored.
InLookup ==
  /\ main.pc = "InLookup"
  /\ \/ PublicMatches(main.dst) = {} /\ Return
     \/ \E i \in 1..table.size :
          /\ First(i, PublicMatches(main.dst))
          /\ main' = [pc |-> "InFilter", src |-> main.src, dst |-> main.dst, idx |-> i]
  /\ UNCHANGED <<netVars, console, resets, history>>

\* find_in_session; a host that was never contacted is answered DROP (port 4321).
InFilter ==
  /\ main.pc = "InFilter"
  /\ IF HasSession(main.dst, main.src) THEN Goto("InForward") ELSE Return
  /\ UNCHANGED <<netVars, console, resets, history>>

\* table[client_idx] is read again to rewrite the destination.
InForward ==
  /\ main.pc = "InForward"
  /\ delivered' = delivered \cup
       { <<table.slots[main.idx].local, main.dst, main.src>> }
  /\ Return
  /\ UNCHANGED <<netVars, console, resets, issued, contacted, race>>

-----------------------------------------------------------------------------
(* The main thread: a frame from another interface, inside to outside. *)

ReceiveInside(src, dst) ==
  /\ main.pc = "idle"
  /\ counter < MaxCounter /\ Len(sessions.slots) < MaxSessions   \* bounds
  /\ main' = [pc |-> "OutCheck", src |-> src, dst |-> dst, torn |-> FALSE]
  /\ UNCHANGED <<netVars, console, resets, history>>

\* A blocked source port is answered DROP (port 1234).  If the console's
\* push_back moved the storage of blocked_range under the loop, the loop reads
\* freed memory: any verdict, or a crash.
OutCheck ==
  /\ main.pc = "OutCheck"
  /\ \/ (ValidInRange(main.src.port) \/ main.torn) /\ Goto("OutLookup")
     \/ (~ValidInRange(main.src.port) \/ main.torn) /\ Return
     \/ main.torn /\ main' = [pc |-> "crashed"]
  /\ UNCHANGED <<netVars, console, resets, history>>

\* find_in_local_table
OutLookup ==
  /\ main.pc = "OutLookup"
  /\ \/ LocalMatches(main.src) = {} /\ Goto("OutAllocate")
     \/ \E i \in 1..table.size :
          /\ First(i, LocalMatches(main.src))
          /\ main' = [pc |-> "OutSession", src |-> main.src, dst |-> main.dst, idx |-> i]
  /\ UNCHANGED <<netVars, console, resets, history>>

\* calculate_new_address and the first half of table.push_back(new_meta).
OutAllocate ==
  /\ main.pc = "OutAllocate"
  /\ LET p == NewAddress(base_port, counter) IN
       /\ table' = Construct(table, [local |-> main.src, public |-> p])
       /\ issued' = issued \cup
            { [n |-> counter, base |-> base_port, local |-> main.src, public |-> p] }
  /\ counter' = counter + 1
  /\ main' = [pc |-> "OutGrow", src |-> main.src, dst |-> main.dst, seen |-> table.size]
  /\ UNCHANGED <<blocked, sessions, base_port, console, resets, contacted, delivered, race>>

OutGrow ==
  /\ main.pc = "OutGrow"
  /\ table' \in Grown(table, main.seen)
  /\ Goto("OutIndex")
  /\ UNCHANGED <<blocked, sessions, base_port, counter, console, resets, history>>

\* Mutant: the index 0 of the first mapping is taken for a failed search.
OutIndexZero ==
  /\ main.pc = "OutIndex"
  /\ main' = IF table.size <= 1
             THEN [pc |-> "crashed"]
             ELSE [pc |-> "OutSession", src |-> main.src, dst |-> main.dst, idx |-> table.size]
  /\ UNCHANGED <<netVars, console, resets, history>>

\* client_idx = table.size() - 1; table[-1] when the table was emptied meanwhile.
OutIndex ==
  /\ main.pc = "OutIndex"
  /\ main' = IF table.size = 0
             THEN [pc |-> "crashed"]
             ELSE [pc |-> "OutSession", src |-> main.src, dst |-> main.dst, idx |-> table.size]
  /\ UNCHANGED <<netVars, console, resets, history>>

\* Mutant: an address that has a session gets no other.
OutSessionOnce ==
  /\ main.pc = "OutSession"
  /\ LET p == table.slots[main.idx].public
         s == [public |-> p, outer |-> main.dst] IN
       /\ sessions' = Construct(sessions,
            IF \E t \in Live(sessions) : t.public = p
            THEN CHOOSE t \in Live(sessions) : t.public = p ELSE s)
       /\ main' = [pc |-> "OutForward", src |-> main.src, dst |-> main.dst,
                   idx |-> main.idx, seen |-> sessions.size]
  /\ UNCHANGED <<blocked, table, base_port, counter, console, resets, history>>

\* First half of sessions.push_back(ns).
OutSession ==
  /\ main.pc = "OutSession"
  /\ LET p == table.slots[main.idx].public IN
       /\ sessions' = Construct(sessions, [public |-> p, outer |-> main.dst])
       /\ main' = [pc |-> "OutForward", src |-> main.src, dst |-> main.dst,
                   idx |-> main.idx, seen |-> sessions.size]
  /\ UNCHANGED <<blocked, table, base_port, counter, console, resets, history>>

\* Second half of the push_back; the frame leaves under the public address.
OutForward ==
  /\ main.pc = "OutForward"
  /\ sessions' \in Grown(sessions, main.seen)
  /\ contacted' = contacted \cup
       { <<main.src, table.slots[main.idx].public, main.dst>> }
  /\ Return
  /\ UNCHANGED <<blocked, table, base_port, counter, console, resets, issued, delivered, race>>

-----------------------------------------------------------------------------
(* The console thread.  A crash of the main thread ends the process. *)

Running == main.pc # "crashed"

BlockRange(r) ==
  /\ Running /\ console = "idle"
  /\ blocked' = blocked \cup {r}
  /\ main' \in IF main.pc = "OutCheck" THEN {main, [main EXCEPT !.torn = TRUE]} ELSE {main}
  /\ race' = IF main'= main THEN race ELSE race \cup {"filter"}
  /\ UNCHANGED <<table, sessions, base_port, counter, console, resets,
                 issued, contacted, delivered>>

\* reset_setting, blocked_range.clear()
ResetBlocked ==
  /\ Running /\ console = "idle"
  /\ resets < MaxResets
  /\ resets' = resets + 1
  /\ blocked' = {}
  /\ console' = "ResetTable"
  /\ UNCHANGED <<table, sessions, base_port, counter, main, history>>

\* table.clear()
ResetTable ==
  /\ Running /\ console = "ResetTable"
  /\ table' = Clear(table)
  /\ console' = "ResetSessions"
  /\ race' = IF main.pc \in {"OutGrow", "OutIndex"} THEN race \cup {"table"} ELSE race
  /\ UNCHANGED <<blocked, sessions, base_port, counter, main, resets,
                 issued, contacted, delivered>>

\* sessions.clear(); a mapping may have been made since table.clear().
ResetSessions ==
  /\ Running /\ console = "ResetSessions"
  /\ sessions' = Clear(sessions)
  /\ console' = "ReadBase"
  /\ race' = IF table.size > 0 \/ main.pc \in {"OutGrow", "OutIndex", "OutSession", "OutForward"}
             THEN race \cup {"session"} ELSE race
  /\ UNCHANGED <<blocked, table, base_port, counter, main, resets,
                 issued, contacted, delivered>>

\* cin >> base_port
ReadBase(b) ==
  /\ Running /\ console = "ReadBase"
  /\ base_port' = b
  /\ console' = "idle"
  /\ UNCHANGED <<blocked, table, sessions, counter, main, resets, history>>

-----------------------------------------------------------------------------
MainNext ==
  \/ \E src \in Outsiders, dst \in Public : ReceiveOutside(src, dst)
  \/ InLookup \/ InFilter \/ InForward
  \/ \E src \in Insiders, dst \in Outsiders : ReceiveInside(src, dst)
  \/ OutCheck \/ OutLookup \/ OutAllocate \/ OutGrow \/ OutIndex
  \/ OutSession \/ OutForward

ConsoleNext ==
  \/ \E r \in Ranges : BlockRange(r)
  \/ ResetBlocked \/ ResetTable \/ ResetSessions
  \/ \E b \in BasePorts : ReadBase(b)

Next == MainNext \/ ConsoleNext

Spec == Init /\ [][Next]_vars

-----------------------------------------------------------------------------
(* Properties. *)

MainState ==
  [pc : {"idle", "crashed"}]
  \cup [pc : {"InLookup"}, src : Outsiders, dst : Public]
  \cup [pc : {"InFilter", "InForward"}, src : Outsiders, dst : Public, idx : Nat \ {0}]
  \cup [pc : {"OutCheck", "OutLookup", "OutAllocate"}, src : Insiders, dst : Outsiders,
        torn : BOOLEAN]
  \cup [pc : {"OutGrow", "OutIndex"}, src : Insiders, dst : Outsiders, seen : Nat]
  \cup [pc : {"OutSession"}, src : Insiders, dst : Outsiders, idx : Nat \ {0}]
  \cup [pc : {"OutForward"}, src : Insiders, dst : Outsiders, idx : Nat \ {0}, seen : Nat]

\* The state of both threads and of the tables is of the shape nat_machine.h
\* declares.
TypeOK ==
  /\ blocked \subseteq Ranges
  /\ table \in VecOf(Pair)
  /\ sessions \in VecOf(SessionOf)
  /\ base_port \in Port
  /\ counter \in 0..MaxCounter
  /\ main \in MainState
  /\ console \in {"idle", "ResetTable", "ResetSessions", "ReadBase"}
  /\ resets \in 0..MaxResets
  /\ issued \subseteq [n : 0..MaxCounter, base : Port, local : Insiders, public : Public]
  /\ contacted \subseteq Insiders \X Public \X Outsiders
  /\ delivered \subseteq Insiders \X Public \X Outsiders
  /\ race \subseteq {"filter", "table", "session"}

\* Two addresses handed out under the same base port differ, whatever resets
\* came in between: calculate_new_address counts on over a reset.
SameBaseUnique ==
  \A d, e \in issued : d.base = e.base /\ d.public = e.public => d = e

\* Two clients were handed one public address.  Only a change of base port does
\* it, e.g. from 2000 to 1900: the second port of the new base is the first
\* port of the old one.
Shared == \E d, e \in issued : d # e /\ d.public = e.public

\* A client never has two mappings at a time (find_in_local_table before
\* push_back), even when a reset falls into the middle of the push_back.
OneMappingPerClient ==
  \A i, j \in 1..table.size :
    table.slots[i].local = table.slots[j].local => i = j

\* A frame leaves under an address that was handed out to its sender, unless
\* table.clear() fell between the push_back of the new mapping and the use of
\* its index.
OwnAddress ==
  "table" \notin race =>
    \A c \in contacted : \E e \in issued : e.local = c[1] /\ e.public = c[2]

\* A frame is let in only to the client that had contacted its sender from that
\* public address, unless addresses were shared or a reset split a push_back.
NoMisdelivery ==
  "table" \notin race /\ ~Shared => delivered \subseteq contacted

\* A client that has contacted a host and still has its mapping can be answered
\* by that host, unless a reset cleared the sessions after the mapping was made.
ReplyPath ==
  "session" \notin race /\ ~Shared =>
    \A c \in contacted :
      [local |-> c[1], public |-> c[2]] \in Live(table) =>
        [public |-> c[2], outer |-> c[3]] \in Live(sessions)

\* The process goes down in processFrame only if a console command changed the
\* filter or the table under a frame.
CrashOnlyInRace == main.pc = "crashed" => "filter" \in race \/ "table" \in race
=============================================================================

------------------------------- MODULE Stream -------------------------------
(***************************************************************************)
(* The byte stream between a running client and the simulation server, as  *)
(* the PA3 client has it: what sendFrame, walk and Interface::setIp/setMask *)
(* put on it from two threads, piece by piece, and how the event loop reads *)
(* frames out of it into its one buffer.  A field (a type, a length, an    *)
(* index, an address) is one unit here, as a byte of a frame is.           *)
(* Framework has the order of the commands over several connections; this  *)
(* module has their contents, over one connection that may break, and what *)
(* is on its way in it.  The end of the program is several steps of the    *)
(* thread that notices it, and the other thread runs on until exit.        *)
(***************************************************************************)
EXTENDS SequencesExt, Integers

CONSTANTS
  Lengths,      \* of the frames the program asks to send
  MinLength,    \* 14 in the code
  MaxLength,    \* 65536 - 4 in the code
  BufferSize,   \* 1524 in the code: FRAME_BUFFER_SIZE
  Interfaces,   \* indices of the machine's interfaces
  Values,       \* addresses and masks, the first ones among them
  FirstValue,
  Streams,      \* sequences of messages of the server
  Budgets       \* bounds, [Thread -> Nat]: on the calls of the threads; one is taken

ASSUME UnitsAssumption ==
  /\ MinLength \in Nat \ {0} /\ FirstValue \in Values
  /\ Interfaces \subseteq Nat /\ Lengths \subseteq Nat
  /\ BufferSize \in Nat \ {0, 1}   \* it takes a header

Thread == {"main", "machine"}
Field == {"ip", "mask"}

\* SimulationCommand, StubCommunicationProtocolType
SendFrameCommand == 1
ChangeIPAddressCommand == 2
ChangeNetmaskCommand == 3
WalkCommand == 5
RawFrameReceivedNotificationType == 4
InvalidInterfaceIndexType == 5

VARIABLES
  state,        \* of the process: "runs", then "closed" and "deleted" inside
                \* ~ClientFramework, and "ended" by exit or a signal
  ender,        \* the thread that is in systemInterrupt
  open,         \* the connection: FALSE after a reset
  mutex,
  call,         \* [Thread -> the call of the framework it is in]
  left,         \* [Thread -> how many calls it may still make]
  iface,        \* [Interfaces -> [Field -> Values]]
  returned,     \* history: the commands whose call has been successful
  crossed,      \* history: two threads have been in setIp or setMask at a time
  server,       \* what the server has read: whole commands, and a part of one
  outgoing,     \* units send has taken and the server has not read; after a
                \* reset it never will
  reading,      \* the event loop: where, and the variables of its sendOrReceive
  buffer,       \* ClientFramework::buffer
  overrun,      \* history: a message has been written past the end of the buffer
  incoming,     \* units on their way to the client
  notified,     \* history: the frames of the server on this connection
  long,         \* history: it has a warning for us that the buffer cannot take
  copies        \* those that processFrame has copied

sending == <<mutex, call, left, iface, returned, crossed, server, outgoing>>
receiving == <<reading, buffer, overrun, incoming, notified, long, copies>>
vars == <<state, ender, open, sending, receiving>>

-----------------------------------------------------------------------------
(* The commands, in units. *)

Data(t, n, length) == [i \in 1..length |-> (IF t = "main" THEN 100 ELSE 200) + 10 * n + i]

\* The length counts the index of the interface.
FrameCommand(data, i) == <<SendFrameCommand, 1 + Len(data), i>> \o data
SetCommand(field, i, value) ==
  <<IF field = "ip" THEN ChangeIPAddressCommand ELSE ChangeNetmaskCommand, i, value>>

\* The server knows the end of a command by its type, and of a frame by its length.
Whole(command) ==
  LET type == command[1] IN
  CASE type = SendFrameCommand -> Len(command) > 1 /\ Len(command) = 2 + command[2]
    [] type \in {ChangeIPAddressCommand, ChangeNetmaskCommand} -> Len(command) = 3
    [] OTHER -> Len(command) = 1

Reads(s, unit) ==
  LET part == Append(s.part, unit) IN
  IF Whole(part) THEN [heard |-> Append(s.heard, part), part |-> <<>>] ELSE [s EXCEPT !.part = part]

ReadAll(s, units) ==
  LET after[k \in 0..Len(units)] == IF k = 0 THEN s ELSE Reads(after[k - 1], units[k])
  IN after[Len(units)]

\* A message of the server: its type, the size of its body, and the body.
Message(type, body) == <<type, Len(body)>> \o body

ASSUME StreamsAssumption ==
  \A stream \in Streams :
    /\ stream \in Seq(Seq(Nat))
    /\ \A k \in 1..Len(stream) :
         stream[k] = Message(stream[k][1], SubSeq(stream[k], 3, Len(stream[k])))

\* The notifications among the messages.
Frames(stream) ==
  FlattenSeq([k \in 1..Len(stream) |->
    IF stream[k][1] = RawFrameReceivedNotificationType THEN <<stream[k]>> ELSE <<>>])

\* A warning whose text is longer than the buffer.
TooLong(message) == message[1] = InvalidInterfaceIndexType /\ message[2] > BufferSize

-----------------------------------------------------------------------------
Idle == [pc |-> "idle", command |-> <<>>, at |-> 0, size |-> 0, count |-> 0,
         set |-> "none", ok |-> FALSE]

Header == 2
Init ==
  /\ state = "runs" /\ ender = "none" /\ open = TRUE
  /\ mutex = "none"
  /\ call = [t \in Thread |-> Idle] /\ left \in Budgets
  /\ iface = [i \in Interfaces |-> [f \in Field |-> FirstValue]]
  /\ returned = <<>> /\ crossed = FALSE
  /\ server = [heard |-> <<>>, part |-> <<>>] /\ outgoing = <<>>
  /\ reading = [pc |-> "header", at |-> 0, size |-> Header, count |-> 0]
  /\ buffer = [i \in 1..BufferSize |-> 0] /\ overrun = FALSE
  /\ \E stream \in Streams :
       /\ incoming = FlattenSeq(stream) /\ notified = Frames(stream)
       /\ long = \E k \in 1..Len(stream) : TooLong(stream[k])
  /\ copies = <<>>

Runs(t) == state # "ended" /\ ender # t
Connected == open /\ state = "runs"   \* the socket is open on both sides
End == state' = "ended" /\ UNCHANGED ender

-----------------------------------------------------------------------------
(* Calls, from run() on the machine's thread and from processFrame on the   *)
(* main one.                                                                *)

MayCall(t) ==
  /\ Runs(t) /\ call[t].pc = "idle" /\ (t = "main" => reading.pc = "handle")
  /\ left[t] > 0   \* bound

Begin(t, command, set) ==
  /\ left' = [left EXCEPT ![t] = @ - 1]
  /\ call' = [call EXCEPT ![t] = [Idle EXCEPT !.pc = "lock", !.command = command, !.set = set]]
  /\ UNCHANGED <<state, ender, open, mutex, iface, returned, server, outgoing, receiving>>

SendFrame(t) ==
  /\ MayCall(t)
  /\ \E length \in Lengths, i \in Interfaces :
       Begin(t, FrameCommand(Data(t, left[t], length), i), "none")
  /\ UNCHANGED crossed

Walk(t) == MayCall(t) /\ Begin(t, <<WalkCommand>>, "none") /\ UNCHANGED crossed

\* setIp, setMask: the old value is tested before the mutex is taken.
Set(t, field) ==
  /\ MayCall(t)
  /\ \E i \in Interfaces, value \in Values :
       /\ iface[i][field] # value \/ state = "deleted"
       /\ Begin(t, SetCommand(field, i, value), field)
  /\ crossed' = (crossed \/ \E u \in Thread : call[u].set # "none")

IsFrame(command) == command[1] = SendFrameCommand
FirstPiece(command) == IF IsFrame(command) THEN 3 ELSE Len(command)

\* realSendFrame's test
Refused(command) == IsFrame(command) /\ ~(Len(command) - 3 \in MinLength..(MaxLength - 1))

Begun(c) == IF Refused(c.command) THEN [c EXCEPT !.pc = "unlock"]
            ELSE [c EXCEPT !.pc = "send", !.size = FirstPiece(c.command)]

\* Mutant: the command goes out without the mutex.
LockFree(t) ==
  /\ Runs(t) /\ call[t].pc = "lock"
  /\ call' = [call EXCEPT ![t] = Begun(call[t])]
  /\ UNCHANGED <<state, ender, open, mutex, left, iface, returned, crossed, server, outgoing, receiving>>

Lock(t) ==
  /\ Runs(t) /\ call[t].pc = "lock" /\ mutex = "none"
  /\ mutex' = t
  /\ call' = [call EXCEPT ![t] = Begun(call[t])]
  /\ UNCHANGED <<state, ender, open, left, iface, returned, crossed, server, outgoing, receiving>>

\* One round of sendOrReceive: send takes as many units as it likes, and returns before
\* any of them has arrived.
Send(t) ==
  LET c == call[t]
      size == c.size - c.count
      at == c.at + c.count
      end == Len(c.command)
  IN
  /\ Runs(t) /\ c.pc = "send" /\ Connected
  /\ \E count \in 1..size :
       /\ outgoing' = outgoing \o SubSeq(c.command, at + 1, at + count)
       /\ call' = [call EXCEPT ![t] =
            IF count < size THEN [c EXCEPT !.size = size, !.at = at, !.count = count]
            ELSE IF at + count < end
                 THEN [c EXCEPT !.at = at + count, !.size = end - at - count, !.count = 0]
            ELSE [c EXCEPT !.pc = "unlock", !.ok = TRUE]]
       /\ returned' = IF count = size /\ at + count = end THEN Append(returned, c.command)
                      ELSE returned
  /\ UNCHANGED <<state, ender, open, mutex, left, iface, crossed, server, receiving>>

\* The server reads a unit, also when the client's process has come to an end.
Arrive ==
  /\ open /\ outgoing # <<>>
  /\ server' = Reads(server, Head(outgoing))
  /\ outgoing' = Tail(outgoing)
  /\ UNCHANGED <<state, ender, open, mutex, call, left, iface, returned, crossed, receiving>>

\* send returns -1, or the process is killed by SIGPIPE.
SendFails(t) ==
  /\ Runs(t) /\ call[t].pc = "send" /\ ~Connected
  /\ \/ call' = [call EXCEPT ![t].pc = "unlock"] /\ UNCHANGED <<state, ender>>
     \/ state = "runs" /\ End /\ UNCHANGED call
  /\ UNCHANGED <<open, mutex, left, iface, returned, crossed, server, outgoing, receiving>>

Unlock(t) ==
  /\ Runs(t) /\ call[t].pc = "unlock"
  /\ mutex' = "none"
  /\ call' = [call EXCEPT ![t].pc = "return"]
  /\ UNCHANGED <<state, ender, open, left, iface, returned, crossed, server, outgoing, receiving>>

\* Mutant: setIp does not look at the result of the notification.
ReturnAnyway(t) ==
  LET c == call[t] IN
  /\ Runs(t) /\ c.pc = "return"
  /\ iface' = IF c.set # "none" THEN [iface EXCEPT ![c.command[2]][c.set] = c.command[3]] ELSE iface
  /\ call' = [call EXCEPT ![t] = Idle]
  /\ UNCHANGED <<state, ender, open, mutex, left, returned, crossed, server, outgoing, receiving>>

\* The call is over; setIp and setMask store the value the server has been told.
Return(t) ==
  LET c == call[t] IN
  /\ Runs(t) /\ c.pc = "return"
  /\ iface' = IF c.set # "none" /\ c.ok THEN [iface EXCEPT ![c.command[2]][c.set] = c.command[3]]
              ELSE iface
  /\ call' = [call EXCEPT ![t] = Idle]
  /\ UNCHANGED <<state, ender, open, mutex, left, returned, crossed, server, outgoing, receiving>>

-----------------------------------------------------------------------------
(* simulationEventLoop *)

Reading(pc, size) == reading' = [pc |-> pc, at |-> 0, size |-> size, count |-> 0]
Recover == Reading("recover", 0) /\ UNCHANGED <<copies, buffer>>

\* The header has been read.  The size of a description is not compared with the buffer's.
HeaderRead(type, size) ==
  \/ /\ type = InvalidInterfaceIndexType
     /\ IF size < 1 THEN Reading("recover", 0) ELSE Reading("warning", size)
  \/ /\ type # InvalidInterfaceIndexType
     /\ IF type # RawFrameReceivedNotificationType \/ size < 1 \/ size > BufferSize
        THEN Reading("recover", 0)
        ELSE Reading("body", size)

\* A frame is a length and a pointer to data it does not own.
Frame(length, data) == [length |-> length, data |-> data]

\* The PA3 program copies the frame; its data is the framework's, and the next
\* notification overwrites it.
ProcessFrame(frame, i) ==
  copies' = Append(copies, [iface |-> i, data |-> SubSeq(frame.data, 1, frame.length)])

Position(size) == [pc |-> "handle", at |-> 1, size |-> size, count |-> 0]

\* Mutant: the index is not taken off the size.
FrameReadLong(contents, size) ==
  IF contents[1] \in Interfaces
  THEN /\ reading' = Position(size)
       /\ ProcessFrame(Frame(size, [i \in 1..size |-> contents[(i % BufferSize) + 1]]), contents[1])
  ELSE Reading("recover", 0) /\ UNCHANGED copies

\* The body of a notification has been read: its frame is what follows the index.
FrameRead(contents, size) ==
  IF contents[1] \in Interfaces
  THEN /\ reading' = Position(size - 1)
       /\ ProcessFrame(Frame(size - 1, [i \in 1..(size - 1) |-> contents[i + 1]]), contents[1])
  ELSE Reading("recover", 0) /\ UNCHANGED copies

\* What the loop does with a piece that is complete.
Completed(contents, size) ==
  \/ reading.pc = "header" /\ HeaderRead(contents[1], contents[2]) /\ UNCHANGED copies
  \/ reading.pc = "warning" /\ Reading("header", Header) /\ UNCHANGED copies
  \/ reading.pc = "body" /\ FrameRead(contents, size)

\* What is written past the buffer falls on the heap behind the framework's object,
\* where the machine and its interfaces are: they may hold anything.
WriteOver == overrun' = TRUE /\ iface' \in [Interfaces -> [Field -> Values]]

\* One round of sendOrReceive: recv gives as many units as it likes of those there.
Receive ==
  LET size == reading.size - reading.count
      at == reading.at + reading.count
  IN
  /\ Runs("main") /\ reading.pc \in {"header", "warning", "body"} /\ Connected
  /\ \E count \in 1..size :
       /\ count <= Len(incoming)
       /\ incoming' = SubSeq(incoming, count + 1, Len(incoming))
       /\ buffer' = [i \in 1..BufferSize |->
                       IF i \in (at + 1)..(at + count) THEN incoming[i - at] ELSE buffer[i]]
       /\ IF at + count > BufferSize THEN WriteOver ELSE UNCHANGED <<overrun, iface>>
       /\ IF count < size
          THEN /\ reading' = [reading EXCEPT !.size = size, !.at = at, !.count = count]
               /\ UNCHANGED copies
          ELSE Completed(buffer', at + count)
  /\ UNCHANGED <<state, ender, open, mutex, call, left, returned, crossed, server, outgoing,
                 notified, long>>

\* A pointer among what was written over ends the process, sooner or later.
Crash ==
  /\ overrun /\ state # "ended" /\ End
  /\ UNCHANGED <<open, sending, receiving>>

\* recv returns -1: the loop is left for recoverSimulation.
ReceiveFails ==
  /\ Runs("main") /\ reading.pc \in {"header", "warning", "body"} /\ ~Connected
  /\ Recover
  /\ UNCHANGED <<state, ender, open, sending, overrun, incoming, notified, long>>

\* A thread is in systemInterrupt; when the other is there already, destroy
\* deletes twice, and what was first, the exit or the abort, ends the program.
SystemInterrupt(t) ==
  /\ Runs(t)
  /\ IF ender = "none" THEN ender' = t /\ UNCHANGED state ELSE End
  /\ UNCHANGED <<open, sending, receiving>>

\* recv returns 0 at the end of the stream: "Connection is closed."
StreamEnds ==
  /\ reading.pc \in {"header", "warning", "body"} /\ Connected /\ incoming = <<>>
  /\ SystemInterrupt("main")

\* SIGINT, which startSimulation has handled by systemInterrupt: on either thread,
\* in the middle of what it does.
Interrupt(t) == SystemInterrupt(t)

\* No other connection was made: startSimulation goes on to systemInterrupt.
RecoveryFails == reading.pc = "recover" /\ SystemInterrupt("main")

ProcessFrameReturns ==
  /\ Runs("main") /\ reading.pc = "handle" /\ call["main"].pc = "idle"
  /\ Reading("header", Header)
  /\ UNCHANGED <<state, ender, open, sending, buffer, overrun, incoming, notified, long, copies>>

-----------------------------------------------------------------------------
(* systemInterrupt: destroy, which is ~ClientFramework, and exit. *)

CloseSocket ==
  /\ ender # "none" /\ state = "runs"
  /\ state' = "closed"
  /\ UNCHANGED <<ender, open, sending, receiving>>

\* ~Machine frees the interfaces: their memory may hold anything (see Set).  A mutex
\* that is held is not destroyed; one that is not has no second thread to keep out.
DeleteMachine ==
  /\ state = "closed"
  /\ state' = "deleted"
  /\ UNCHANGED <<ender, open, sending, receiving>>

\* exit; or the other thread has used what is deleted, and crashes.
ExitProcess ==
  /\ state = "deleted" /\ End
  /\ UNCHANGED <<open, sending, receiving>>

Shutdown == CloseSocket \/ DeleteMachine \/ ExitProcess

\* The connection is gone, and with it all that is on its way in it; on the side of
\* the client, where it is closed already, nobody notices.
Reset ==
  /\ open
  /\ open' = FALSE
  /\ UNCHANGED <<state, ender, sending, receiving>>

Next ==
  \/ \E t \in Thread :
       \/ SendFrame(t) \/ Walk(t) \/ \E f \in Field : Set(t, f)
       \/ Lock(t) \/ Send(t) \/ SendFails(t) \/ Unlock(t) \/ Return(t)
       \/ Interrupt(t)
  \/ Arrive
  \/ Receive \/ Crash \/ ReceiveFails \/ ProcessFrameReturns \/ StreamEnds \/ RecoveryFails
  \/ Shutdown \/ Reset

Spec == Init /\ [][Next]_vars

-----------------------------------------------------------------------------
(* Properties. *)

\* What the server has read when all that is on its way has arrived.
Sent == ReadAll(server, outgoing)

\* A call returns true exactly when its whole command is on its way, in the order of
\* the calls, and nothing else goes out whole; of these commands the server has read
\* the first ones, all of them once everything has arrived, and after a reset it may
\* never have the last.  So too while one thread ends the program and the other goes on
\* (sendFrame, walk, the notifications, sendOrReceive, systemInterrupt).
Delivered ==
  ~overrun =>
    /\ Sent.heard = returned
    /\ IsPrefix(server.heard, returned)
    /\ outgoing = <<>> => server.heard = returned
    /\ Sent.part # <<>> /\ Connected =>
         \E t \in Thread : call[t].pc = "send" /\ IsStrictPrefix(Sent.part, call[t].command)

\* The frames processFrame copies are those the server sent, in its order and of
\* their length, over partial reads, warnings and what is left in the buffer; and only
\* a warning longer than the buffer is ever written past its end (cf.cpp:633, 643).
InStep ==
  /\ overrun => long
  /\ ~overrun =>
       /\ Len(copies) <= Len(notified)
       /\ \A i \in DOMAIN copies :
            LET sent == notified[i] IN
            /\ copies[i].iface = sent[3]
            /\ copies[i].data = SubSeq(sent, 4, Len(sent))

\* The value of an interface's field that these commands have told last.
Told(commands, i, field) ==
  LET sets == { k \in 1..Len(commands) : /\ commands[k][1] = SetCommand(field, i, 0)[1]
                                         /\ commands[k][2] = i }
  IN IF sets = {} THEN FirstValue ELSE commands[Max(sets)][3]

\* When no thread is changing them, getIp and getMask are what the server has been told
\* last, also over a broken or a closed connection, and what it knows once everything
\* has arrived; a reset may keep the last change from it.  Unless two threads have
\* changed one at a time, each storing its value after the mutex is free again.
AddressAgrees ==
  ~overrun /\ ~crossed /\ state \in {"runs", "closed"} /\ (\A t \in Thread : call[t].pc = "idle") =>
    \A i \in Interfaces, f \in Field :
      /\ iface[i][f] = Told(Sent.heard, i, f)
      /\ outgoing = <<>> => iface[i][f] = Told(server.heard, i, f)
=============================================================================

-------------------------------- MODULE Chat --------------------------------
(***************************************************************************)
(* The chat programs of scratch/main.cpp, on one host: each listens on a   *)
(* port, speaks from the next one, and is in one conversation at a time.   *)
(* A command is one step, which waits where accept and recv would.         *)
(***************************************************************************)
EXTENDS Integers, Sequences, SequencesExt

CONSTANTS
  Program,
  ListenPort,   \* [Program -> Nat]: argv[1]
  PortSpace,     \* 2^16 in the code, the ports there are
  LowestPort,   \* 10000 in the code
  MaxSize,      \* 100 in the code: MAXSIZE
  Letter,       \* characters that can be typed
  Texts,        \* what is typed after "send", sequences of characters
  Zero,         \* the character that ends a string
  NoSocket,
  MaxConns,     \* bound on the connections
  MaxSends      \* bound on the messages

\* send is given strlen bytes, which end before a zero.
ASSUME TextsAssumption == Texts \subseteq Seq(Letter) /\ Zero \notin Letter

ASSUME SizeAssumption == MaxSize \in Nat

VARIABLES
  running,      \* the programs that have not returned
  in_connection,
  peer_socket,  \* the connection and the side of it, NoSocket for -1
  recv_mess,
  conns,        \* the host: the connections ever made, with the data on the way
  pending,      \* the host: connections to accept
  time_wait,    \* the host: ports that a closed connection still holds
  sends,
  shown         \* history: the last thing printed by recv, and what recv had brought

chat == <<running, in_connection, peer_socket, recv_mess, conns, pending, time_wait, sends, shown>>

Side == {"from", "to"}
Other(side) == IF side = "from" THEN "to" ELSE "from"
SpeakPort(p) == (ListenPort[p] + 1) % PortSpace
Listening == { p \in Program : ListenPort[p] % PortSpace >= LowestPort }

\* A program that cannot bind its port returns, so of two with one port one is left.
ChatInit ==
  /\ running \in { P \in SUBSET Listening :
       \A p \in Listening : \E q \in P : ListenPort[q] % PortSpace = ListenPort[p] % PortSpace }
  /\ in_connection = [p \in Program |-> FALSE]
  /\ peer_socket = [p \in Program |-> NoSocket]
  /\ recv_mess = [p \in Program |-> [i \in 1..MaxSize |-> Zero]]
  /\ conns = <<>> /\ pending = [p \in Program |-> <<>>] /\ time_wait = {}
  /\ sends = 0 /\ shown = [p \in Program |-> [got |-> <<>>, text |-> <<>>, longest |-> 0]]

\* The host closes one side of a connection.
Closed(c, side) == [c EXCEPT !.open = @ \ {side}]

CloseSocket(p) ==
  conns' = IF peer_socket[p] = NoSocket THEN conns
           ELSE [conns EXCEPT ![peer_socket[p][1]] = Closed(@, peer_socket[p][2])]

\* The program returns; the host closes its sockets.
Return(p) ==
  /\ running' = running \ {p}
  /\ conns' = [i \in 1..Len(conns) |->
       CASE \E k \in 1..Len(pending[p]) : pending[p][k] = i -> Closed(conns[i], "to")
         [] peer_socket[p] # NoSocket /\ peer_socket[p][1] = i -> Closed(conns[i], peer_socket[p][2])
         [] OTHER -> conns[i]]

InUse(port) ==
  port # 0 /\ (port \in time_wait \/ \E q \in running : ListenPort[q] % PortSpace = port)

Dial(p, port) ==
  /\ p \in running /\ ~in_connection[p]
  /\ Len(conns) < MaxConns   \* bound
  /\ in_connection' = [in_connection EXCEPT ![p] = TRUE]
  /\ \/ /\ InUse(SpeakPort(p)) \/ \A q \in running : ListenPort[q] % PortSpace # port
        /\ Return(p) /\ UNCHANGED <<peer_socket, pending>>
     \/ /\ ~InUse(SpeakPort(p))
        /\ \E q \in running :
             /\ ListenPort[q] % PortSpace = port
             /\ conns' = Append(conns, [open |-> Side, data |-> [s \in Side |-> <<>>],
                                        port |-> SpeakPort(p)])
             /\ pending' = [pending EXCEPT ![q] = Append(@, Len(conns) + 1)]
             /\ peer_socket' = [peer_socket EXCEPT ![p] = <<Len(conns) + 1, "from">>]
             /\ UNCHANGED running
  /\ UNCHANGED <<recv_mess, time_wait, sends, shown>>

\* accept waits for a connection; in_connection is set also if it fails.
Listen(p) ==
  /\ p \in running /\ ~in_connection[p]
  /\ in_connection' = [in_connection EXCEPT ![p] = TRUE]
  /\ \/ /\ pending[p] # <<>>
        /\ peer_socket' = [peer_socket EXCEPT ![p] = <<Head(pending[p]), "to">>]
        /\ pending' = [pending EXCEPT ![p] = Tail(@)]
     \/ peer_socket' = [peer_socket EXCEPT ![p] = NoSocket] /\ UNCHANGED pending
  /\ UNCHANGED <<running, recv_mess, conns, time_wait, sends, shown>>

\* The side that closes first keeps its port in TIME_WAIT.
LeaveChat(p) ==
  /\ p \in running /\ in_connection[p]
  /\ in_connection' = [in_connection EXCEPT ![p] = FALSE]
  /\ CloseSocket(p)
  /\ time_wait' = time_wait \cup
       { conns[i].port : i \in { i \in 1..Len(conns) :
           peer_socket[p] = <<i, "from">> /\ conns[i].open = Side } }
  /\ UNCHANGED <<running, peer_socket, recv_mess, pending, sends, shown>>

\* Sent to a side that is closed it is lost, and the second time kills the program.
Send(p, text) ==
  /\ p \in running /\ in_connection[p]
  /\ sends < MaxSends /\ sends' = sends + 1   \* bound
  /\ IF peer_socket[p] = NoSocket THEN UNCHANGED <<running, conns>>
     ELSE LET i == peer_socket[p][1]
              side == peer_socket[p][2]
          IN IF Other(side) \in conns[i].open
             THEN conns' = [conns EXCEPT ![i].data[side] = @ \o text] /\ UNCHANGED running
             ELSE Return(p) \/ UNCHANGED <<running, conns>>
  /\ UNCHANGED <<in_connection, peer_socket, recv_mess, pending, time_wait, shown>>

\* Mutant: the bytes are put behind what is in the buffer.
FilledBehind(mess, got) ==
  LET used == SelectSeq(mess, LAMBDA ch : ch # Zero) \o got
  IN [i \in 1..MaxSize |-> IF i <= Len(used) THEN used[i] ELSE Zero]

\* recv writes over the front of the buffer, which is never cleared.
Filled(mess, got) == [i \in 1..MaxSize |-> IF i <= Len(got) THEN got[i] ELSE mess[i]]

\* A string ends at the first zero; if there is none it runs past the buffer.
Printed(mess) ==
  LET zeros == { i \in 1..MaxSize : mess[i] = Zero }
  IN IF zeros = {} THEN Append(mess, "...")
     ELSE SubSeq(mess, 1, (CHOOSE i \in zeros : \A j \in zeros : i <= j) - 1)

\* What recv brings: some of the bytes there are, none if the other side is
\* closed or the socket was never one; it waits if there is nothing yet.
Brings(p) ==
  IF peer_socket[p] = NoSocket THEN { <<>> }
  ELSE LET c == conns[peer_socket[p][1]]
           side == Other(peer_socket[p][2])
       IN IF c.data[side] = <<>> THEN (IF side \in c.open THEN {} ELSE { <<>> })
          ELSE { SubSeq(c.data[side], 1, n) : n \in 1..(IF Len(c.data[side]) < MaxSize
                                                       THEN Len(c.data[side]) ELSE MaxSize) }

Recv(p) ==
  /\ p \in running /\ in_connection[p]
  /\ \E got \in Brings(p) :
       /\ recv_mess' = [recv_mess EXCEPT ![p] = Filled(@, got)]
       /\ conns' = IF got = <<>> THEN conns
                   ELSE [conns EXCEPT ![peer_socket[p][1]].data[Other(peer_socket[p][2])] =
                           SubSeq(@, Len(got) + 1, Len(@))]
       /\ shown' = [shown EXCEPT ![p] =
            [got |-> got, text |-> Printed(recv_mess'[p]),
             longest |-> IF Len(got) > @.longest THEN Len(got) ELSE @.longest]]
  /\ UNCHANGED <<running, in_connection, peer_socket, pending, time_wait, sends>>

ChatNext ==
  \E p \in Program :
    \/ \E port \in { ListenPort[q] % PortSpace : q \in Program } : Dial(p, port)
    \/ Listen(p) \/ LeaveChat(p) \/ Recv(p)
    \/ \E text \in Texts : Send(p, text)

ChatSpec == ChatInit /\ [][ChatNext]_chat

-----------------------------------------------------------------------------
(* Properties. *)

\* recv prints what it has brought, but for the tail of an earlier, longer
\* message: of this conversation or, as the buffer is the program's, of another.
PrintsWhatCame ==
  \A p \in Program :
    LET s == shown[p] IN
      /\ IsPrefix(s.got, s.text)
      /\ s.longest = Len(s.got) /\ s.longest < MaxSize => s.text = s.got
=============================================================================

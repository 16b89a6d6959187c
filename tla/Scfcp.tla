------------------------------- MODULE Scfcp -------------------------------
(***************************************************************************)
(* What the simulation server may rely on, whatever the threads of a       *)
(* client do: on every connection the requests of the negotiation come     *)
(* first, each once and in order, and then whole commands: single ones, or *)
(* a header followed at once by its payload.                               *)
(***************************************************************************)
EXTENDS Naturals, Sequences

CONSTANTS
  Thread,       \* the threads that send commands
  FrameNo       \* what tells the frames of a thread apart

VARIABLES
  connection,   \* how many connections the client has made
  heard         \* what arrived on the last one

InitialRequests == <<"sign_in", "map", "node", "interfaces", "custom", "start">>
RecoveryRequests == <<"sign_in", "map", "node", "start">>

\* The requests the n-th connection of a client opens with.
Requests(n) == IF n = 1 THEN InitialRequests ELSE RecoveryRequests

Header(t, k) == <<"header", t, k>>
Payload(t, k) == <<"payload", t, k>>
Single(t, k) == <<"single", t, k>>

\* May m follow what was heard on the n-th connection?
MayFollow(n, h, m) ==
  LET negotiated == Len(h) - Len(Requests(n))
  IN  \/ negotiated < 0 /\ m = Requests(n)[Len(h) + 1]
      \/ /\ negotiated >= 0
         /\ \E t \in Thread, k \in FrameNo :
              IF negotiated > 0 /\ \E u \in Thread, j \in FrameNo : h[Len(h)] = Header(u, j)
              THEN m = Payload(t, k) /\ h[Len(h)] = Header(t, k)
              ELSE m \in {Header(t, k), Single(t, k)}

Init == connection = 0 /\ heard = <<>>

Connect == connection' = connection + 1 /\ heard' = <<>>

Hear ==
  /\ connection > 0
  /\ Len(heard') = Len(heard) + 1
  /\ heard' = Append(heard, heard'[Len(heard')])
  /\ MayFollow(connection, heard, heard'[Len(heard')])
  /\ UNCHANGED connection

Next == Connect \/ Hear

Spec == Init /\ [][Next]_<<connection, heard>>
=============================================================================

-------------------------- MODULE FrameworkProofs --------------------------
(***************************************************************************)
(* Proofs about the client framework, for any number of frames and breaks: *)
(* the mutex keeps threads and recovery apart, so that what the server     *)
(* hears is the protocol of Scfcp.                                         *)
(***************************************************************************)
EXTENDS Framework, TLAPS

-----------------------------------------------------------------------------
(* The inductive invariant. *)

Negotiating == main.pc \in {"request", "answer"}
Inside == {"header", "payload", "single", "unlock"}

\* Where the main thread holds the mutex outside of sendFrame.
InRecovery ==
  \/ main.pc \in {"resume", "give_up"}
  \/ main.pc = "connect" /\ connection > 0
  \/ Negotiating /\ connection > 1

MainHolds == sending["main"] \in Inside \/ main.pc \in {"check", "sleep"} \/ InRecovery

\* Before the machine's thread is started.
Alone ==
  \/ main.pc = "connect" /\ connection = 0
  \/ Negotiating /\ connection = 1
  \/ main.pc = "create"

ConnectionInv ==
  /\ main.pc = "connect" => connection <= MaxBreaks /\ alive = "closed"
  /\ main.pc \notin {"connect", "exit"} => connection > 0
  /\ Negotiating => main.step <= Len(Protocol!Requests(connection))

\* Who holds the mutex, and who may be sending.
MutexInv ==
  Running =>
    /\ mutex = "main" <=> MainHolds
    /\ mutex = "machine" <=> sending["machine"] \in Inside
    /\ sending["main"] # "no" => main.pc = "handle"
    /\ sending["machine"] # "no" => st \in {"initialize", "run"}
    /\ \A t \in Thread : sending[t] # "no" => frames[t] > 0
    /\ Alone => st = "none"

\* What is set when: the machine before its thread, the flag before the loop.
StartInv ==
  /\ st # "none" => machine
  /\ main.pc = "create" => machine
  /\ Negotiating /\ connection = 1 /\ main.step > 4 => machine
  /\ st \in {"signal", "run", "done"} => initialized
  /\ main.pc \in {"loop", "handle", "recover"} => initialized
  /\ main.pc # "give_up" /\ InRecovery => initialized

Piece ==
  {"sign_in", "map", "node", "interfaces", "custom", "start"}
  \cup { Protocol!Header(t, k) : t \in Thread, k \in FrameNo }
  \cup { Protocol!Payload(t, k) : t \in Thread, k \in FrameNo }
  \cup { Protocol!Single(t, k) : t \in Thread, k \in FrameNo }

Opening == Len(Protocol!Requests(connection))

\* How far the connection has got, while it stands: a header is the last thing
\* heard exactly while its sender is about to send the payload.
WireInv ==
  /\ heard \in Seq(Piece)
  /\ Running /\ alive = "open" =>
       /\ main.pc = "request" => Len(heard) = main.step - 1
       /\ main.pc = "answer" => Len(heard) = main.step
       /\ ~Negotiating /\ main.pc # "give_up" => Len(heard) >= Opening
       /\ \A t \in Thread : sending[t] = "payload" =>
            Len(heard) > Opening /\ heard[Len(heard)] = Protocol!Header(t, frames[t])
       /\ \A t \in Thread, k \in FrameNo :
            Len(heard) > Opening /\ heard[Len(heard)] = Protocol!Header(t, k) =>
              sending[t] = "payload"

IInv == TypeOK /\ ConnectionInv /\ MutexInv /\ StartInv /\ WireInv

-----------------------------------------------------------------------------
(* The requests of a negotiation. *)

LEMMA RequestsShape ==
  ASSUME NEW n \in Nat
  PROVE  /\ Len(Protocol!Requests(n)) = IF n = 1 THEN 6 ELSE 4
         /\ n = 1 => Protocol!Requests(n) =
              <<"sign_in", "map", "node", "interfaces", "custom", "start">>
         /\ n # 1 => Protocol!Requests(n) = <<"sign_in", "map", "node", "start">>
BY DEF Protocol!Requests, Protocol!InitialRequests, Protocol!RecoveryRequests

\* Each request has its place: only "start" is the last one, and "interfaces" and
\* "custom" belong to the first connection.
LEMMA RequestPlace ==
  ASSUME TypeOK, ConnectionInv, Negotiating
  PROVE  /\ main.step \in 1..Opening /\ Opening = (IF connection = 1 THEN 6 ELSE 4)
         /\ Request \in {"sign_in", "map", "node", "interfaces", "custom", "start"}
         /\ Request = "start" <=> main.step = Opening
         /\ Request = "interfaces" <=> connection = 1 /\ main.step = 4
         /\ Request = "custom" => connection = 1 /\ main.step = 5
         /\ Request \in {"sign_in", "map", "node"} => main.step <= 3
<1>1. connection \in Nat /\ main.step \in 1..6 /\ main.step <= Opening
  BY BoundsAssumption DEF TypeOK, ConnectionInv, Negotiating, Opening
<1>2. CASE connection = 1
  <2> DEFINE r == <<"sign_in", "map", "node", "interfaces", "custom", "start">>
  <2>1. Request = r[main.step] /\ Opening = 6
    BY <1>1, <1>2, RequestsShape DEF Request, Opening
  <2>2. main.step \in {1, 2, 3, 4, 5, 6}
    BY <1>1
  <2>3. QED BY <1>2, <2>1, <2>2
<1>3. CASE connection # 1
  <2> DEFINE r == <<"sign_in", "map", "node", "start">>
  <2>1. Request = r[main.step] /\ Opening = 4
    BY <1>1, <1>3, RequestsShape DEF Request, Opening
  <2>2. main.step \in {1, 2, 3, 4}
    BY <1>1, <2>1
  <2>3. QED BY <1>3, <2>1, <2>2
<1>4. QED BY <1>2, <1>3

LEMMA OpeningValue ==
  ASSUME TypeOK
  PROVE  Opening = (IF connection = 1 THEN 6 ELSE 4)
<1>1. connection \in Nat
  BY BoundsAssumption DEF TypeOK
<1>2. QED BY <1>1, RequestsShape DEF Opening

\* Pieces are told apart by their kind, sender and number.
LEMMA PieceFields ==
  ASSUME NEW t, NEW k, NEW u, NEW j
  PROVE  /\ Protocol!Header(t, k) = Protocol!Header(u, j) => t = u /\ k = j
         /\ Protocol!Header(t, k) # Protocol!Payload(u, j)
         /\ Protocol!Header(t, k) # Protocol!Single(u, j)
<1>1. Protocol!Header(t, k)[1] = "header" /\ Protocol!Header(t, k)[2] = t /\ Protocol!Header(t, k)[3] = k
  BY DEF Protocol!Header
<1>2. Protocol!Header(u, j)[2] = u /\ Protocol!Header(u, j)[3] = j
  BY DEF Protocol!Header
<1>3. Protocol!Payload(u, j)[1] = "payload" /\ Protocol!Single(u, j)[1] = "single"
  BY DEF Protocol!Payload, Protocol!Single
<1>4. "header" # "payload" /\ "header" # "single"
  OBVIOUS
<1>5. QED BY <1>1, <1>2, <1>3, <1>4

-----------------------------------------------------------------------------
(* Every step preserves the invariant. *)

LEMMA InitInv == Init => IInv
<1> SUFFICES ASSUME Init PROVE IInv
  OBVIOUS
<1>1. main.pc = "connect" /\ main.step = 1 /\ main \in [pc : MainPc, step : 1..6, node : BOOLEAN]
  <2>1. PICK n \in BOOLEAN : main = [pc |-> "connect", step |-> 1, node |-> n]
    BY DEF Init
  <2>2. "connect" \in MainPc
    BY DEF MainPc
  <2>3. 1 \in 1..6
    OBVIOUS
  <2>4. QED BY <2>1, <2>2, <2>3
<1>2. TypeOK
  <2>1. sending \in [Thread -> {"no", "lock", "header", "payload", "single", "unlock"}]
    BY DEF Init
  <2>2. frames \in [Thread -> 0..MaxFrames] /\ connection \in 0..(MaxBreaks + 1)
    BY BoundsAssumption DEF Init
  <2>3. QED BY <1>1, <2>1, <2>2 DEF Init, TypeOK
<1>3. ConnectionInv /\ StartInv
  BY <1>1, BoundsAssumption DEF Init, ConnectionInv, StartInv, Negotiating, InRecovery
<1>4. MutexInv
  BY <1>1 DEF Init, MutexInv, Negotiating, InRecovery, MainHolds, Alone, Inside, Thread
<1>5. WireInv
  BY DEF Init, WireInv
<1>6. QED BY <1>2, <1>3, <1>4, <1>5 DEF IInv

\* The main thread goes on to a place.
LEMMA MainGoes ==
  ASSUME TypeOK, NEW pc \in MainPc, Main(pc)
  PROVE  /\ main' \in [pc : MainPc, step : 1..6, node : BOOLEAN]
         /\ main'.pc = pc /\ main'.step = main.step
BY DEF TypeOK, Main

LEMMA AnswerTypes ==
  ASSUME TypeOK, KeepAllBut, machine' \in BOOLEAN,
         main' \in [pc : MainPc, step : 1..6, node : BOOLEAN]
  PROVE  TypeOK'
BY DEF TypeOK, KeepAllBut, wire

\* A step that ends the program.
LEMMA ExitInv ==
  ASSUME IInv, Exit, KeepAllBut, machine' \in BOOLEAN, st # "none" => machine'
  PROVE  IInv'
<1>1. main' \in [pc : MainPc, step : 1..6, node : BOOLEAN] /\ main'.pc = "exit"
  BY MainGoes DEF IInv, Exit, MainPc
<1>2. TypeOK'
  BY <1>1, AnswerTypes DEF IInv
<1>3. ConnectionInv'
  BY <1>1 DEF ConnectionInv, Negotiating
<1>4. MutexInv'
  BY <1>1 DEF MutexInv, Running
<1>5. StartInv'
  BY <1>1 DEF IInv, StartInv, KeepAllBut, Negotiating, InRecovery
<1>6. WireInv'
  BY <1>1 DEF IInv, WireInv, KeepAllBut, wire, Running
<1>7. QED BY <1>2, <1>3, <1>4, <1>5, <1>6 DEF IInv

\* A negotiation that fails.
LEMMA FailInv ==
  ASSUME IInv, Running, Negotiating, Fail, KeepAllBut, machine' \in BOOLEAN,
         st # "none" => machine'
  PROVE  IInv'
<1>1. CASE ~Recovering
  BY <1>1, ExitInv DEF Fail
<1>2. CASE Recovering
  <2>1. Main("give_up")
    BY <1>2 DEF Fail
  <2>2. /\ main' \in [pc : MainPc, step : 1..6, node : BOOLEAN]
        /\ main'.pc = "give_up" /\ main'.step = main.step
    BY <2>1, MainGoes DEF IInv, MainPc
  <2>3. TypeOK'
    BY <2>2, AnswerTypes DEF IInv
  <2>4. ConnectionInv'
    BY <2>2 DEF IInv, ConnectionInv, Negotiating, KeepAllBut, wire
  <2>5. MutexInv'
    BY <1>2, <2>2 DEF IInv, MutexInv, MainHolds, InRecovery, Negotiating, Alone, KeepAllBut, wire,
      Running, Recovering
  <2>6. StartInv'
    BY <2>2 DEF IInv, StartInv, KeepAllBut, Negotiating, InRecovery
  <2>7. WireInv'
    BY <2>2 DEF IInv, WireInv, KeepAllBut, wire, Running, Negotiating, Opening
  <2>8. QED BY <2>3, <2>4, <2>5, <2>6, <2>7 DEF IInv
<1>3. QED BY <1>1, <1>2

\* An answer that leads to the next request; the machine is there from the fifth on.
LEMMA NextRequestInv ==
  ASSUME IInv, At("answer"), alive = "open", Request # "start", NextRequest, KeepAllBut,
         machine' \in BOOLEAN, machine => machine', Request = "interfaces" => machine'
  PROVE  IInv'
<1>1. main.pc = "answer" /\ Negotiating /\ Running
  BY DEF At, Negotiating
<1>2. main.step \in 1..Opening /\ main.step # Opening /\ Opening = (IF connection = 1 THEN 6 ELSE 4)
  BY <1>1, RequestPlace DEF IInv
<1>3. /\ main' \in [pc : MainPc, step : 1..6, node : BOOLEAN]
      /\ main'.pc = "request" /\ main'.step = main.step + 1
  <2>1. main \in [pc : MainPc, step : 1..6, node : BOOLEAN] /\ main.step + 1 \in 1..6
    BY <1>2 DEF IInv, TypeOK
  <2>2. QED BY <2>1 DEF NextRequest, MainPc
<1>4. TypeOK'
  BY <1>3, AnswerTypes DEF IInv
<1>5. Opening' = Opening
  BY DEF Opening, KeepAllBut, wire
<1>6. ConnectionInv'
  BY <1>1, <1>2, <1>3, <1>5 DEF IInv, ConnectionInv, Negotiating, KeepAllBut, wire, Opening
<1>7. MutexInv'
  BY <1>1, <1>3 DEF IInv, MutexInv, MainHolds, InRecovery, Negotiating, Alone, KeepAllBut, wire,
    Running
<1>8. StartInv'
  <2>1. connection = 1 /\ main.step = 4 => Request = "interfaces"
    BY <1>1, RequestPlace DEF IInv
  <2>2. connection = 1 /\ main'.step > 4 => machine'
    BY <1>1, <1>2, <1>3, <2>1 DEF IInv, StartInv
  <2>3. QED BY <1>1, <1>3, <2>2 DEF IInv, StartInv, KeepAllBut, Negotiating, InRecovery, wire
<1>9. WireInv'
  <2>1. Len(heard) = main.step
    BY <1>1 DEF IInv, WireInv, Running
  <2>2. \A t \in Thread : sending[t] # "payload"
    BY <1>1, <1>2, <2>1 DEF IInv, WireInv
  <2>3. QED
    BY <1>1, <1>2, <1>3, <1>5, <2>1, <2>2 DEF IInv, WireInv, KeepAllBut, wire, Running, Negotiating
<1>10. QED BY <1>4, <1>6, <1>7, <1>8, <1>9 DEF IInv

LEMMA StartedInv == IInv /\ Started => IInv'
<1> SUFFICES ASSUME IInv, Started PROVE IInv'
  OBVIOUS
<1>1. main.pc = "answer" /\ Negotiating /\ Running /\ alive = "open" /\ machine' = machine /\ KeepAllBut
  BY DEF Started, Answer, At, Negotiating
<1>2. CASE Fail
  BY <1>1, <1>2, FailInv DEF IInv, TypeOK, StartInv
<1>3. CASE ~Fail
  <2> DEFINE pc == IF Recovering THEN "resume" ELSE "create"
  <2>1. Main(pc)
    BY <1>3 DEF Started
  <2>2. /\ main' \in [pc : MainPc, step : 1..6, node : BOOLEAN]
        /\ main'.pc = pc /\ main'.step = main.step
    BY <2>1, MainGoes DEF IInv, MainPc
  <2>3. main.step = Opening /\ Opening = (IF connection = 1 THEN 6 ELSE 4) /\ Opening' = Opening
    BY <1>1, RequestPlace DEF IInv, Started, Answer, Opening, KeepAllBut, wire
  <2>4. connection \in Nat /\ connection > 0
    BY <1>1, BoundsAssumption DEF IInv, TypeOK, ConnectionInv, Negotiating
  <2>5. TypeOK'
    BY <1>1, <2>2, AnswerTypes DEF IInv, TypeOK
  <2>6. ConnectionInv'
    BY <1>1, <2>2 DEF IInv, ConnectionInv, Negotiating, KeepAllBut, wire
  <2>7. MutexInv'
    BY <1>1, <2>2, <2>4 DEF IInv, MutexInv, MainHolds, InRecovery, Negotiating, Alone, KeepAllBut,
      wire, Running, Recovering
  <2>8. StartInv'
    BY <1>1, <2>2, <2>3, <2>4 DEF IInv, StartInv, KeepAllBut, Negotiating, InRecovery, Recovering,
      wire
  <2>9. WireInv'
    <3>1. Len(heard) = Opening
      BY <1>1, <2>3 DEF IInv, WireInv, Running
    <3>2. \A t \in Thread : sending[t] # "payload"
      BY <1>1, <2>3, <3>1 DEF IInv, WireInv
    <3>3. QED
      BY <1>1, <2>2, <2>3, <3>1, <3>2 DEF IInv, WireInv, KeepAllBut, wire, Running, Negotiating
  <2>10. QED BY <2>5, <2>6, <2>7, <2>8, <2>9 DEF IInv
<1>4. QED BY <1>2, <1>3

LEMMA AnswersInv ==
  IInv /\ (SignedIn \/ MapSelected \/ NodeSelected \/ InterfacesRead \/ CustomRead \/ NoAnswer) => IInv'
<1> SUFFICES ASSUME IInv,
                    SignedIn \/ MapSelected \/ NodeSelected \/ InterfacesRead \/ CustomRead \/ NoAnswer
             PROVE  IInv'
  OBVIOUS
<1>1. /\ At("answer") /\ Running /\ Negotiating /\ KeepAllBut
      /\ machine \in BOOLEAN /\ (st # "none" => machine)
  BY DEF SignedIn, MapSelected, NodeSelected, InterfacesRead, CustomRead, NoAnswer, Answer, At,
    Negotiating, IInv, TypeOK, StartInv
<1>2. CASE SignedIn \/ MapSelected \/ NodeSelected \/ CustomRead
  <2>1. alive = "open" /\ Request \notin {"start", "interfaces"} /\ machine' = machine
        /\ (NextRequest \/ Fail)
    BY <1>2 DEF SignedIn, MapSelected, NodeSelected, CustomRead, Answer
  <2>2. CASE NextRequest
    BY <1>1, <2>1, <2>2, NextRequestInv
  <2>3. CASE Fail
    BY <1>1, <2>1, <2>3, FailInv
  <2>4. QED BY <2>1, <2>2, <2>3
<1>3. CASE InterfacesRead
  <2>1. alive = "open" /\ Request = "interfaces"
    BY <1>3 DEF InterfacesRead, Answer
  <2>2. CASE NextRequest /\ machine' = TRUE
    BY <1>1, <2>1, <2>2, NextRequestInv
  <2>3. CASE Fail /\ machine' \in BOOLEAN
    <3>1. st = "none"
      BY <1>1, <2>1, RequestPlace DEF IInv, MutexInv, Alone
    <3>2. QED BY <1>1, <2>3, <3>1, FailInv
  <2>4. QED BY <1>3, <2>2, <2>3 DEF InterfacesRead
<1>4. CASE NoAnswer
  BY <1>1, <1>4, FailInv, ExitInv DEF NoAnswer
<1>5. QED BY <1>2, <1>3, <1>4

LEMMA ConnectToServerInv == IInv /\ ConnectToServer => IInv'
<1> SUFFICES ASSUME IInv, ConnectToServer PROVE IInv'
  OBVIOUS
<1>1. /\ main.pc = "connect" /\ Running /\ connection \in 0..MaxBreaks /\ connection' = connection + 1
      /\ heard' = <<>>
      /\ UNCHANGED <<st, mutex, initialized, machine, sending, frames, breaks>>
  BY BoundsAssumption DEF IInv, TypeOK, ConnectionInv, ConnectToServer, At
<1>2. \A t \in Thread : sending[t] = "no" \/ (t = "machine" /\ sending[t] = "lock")
  BY <1>1 DEF IInv, TypeOK, MutexInv, MainHolds, InRecovery, Alone, Inside, Thread
<1>3. CASE alive' = "open" /\ main' = [main EXCEPT !.pc = "request", !.step = 1]
  <2>1. /\ main' \in [pc : MainPc, step : 1..6, node : BOOLEAN]
        /\ main'.pc = "request" /\ main'.step = 1
    <3>1. main \in [pc : MainPc, step : 1..6, node : BOOLEAN] /\ 1 \in 1..6 /\ "request" \in MainPc
      BY DEF IInv, TypeOK, MainPc
    <3>2. QED BY <1>3, <3>1
  <2>2. TypeOK'
    BY <1>1, <1>3, <2>1, BoundsAssumption DEF IInv, TypeOK
  <2>3. connection' \in Nat /\ connection' > 0 /\ Opening' \in {4, 6}
    BY <1>1, RequestsShape, BoundsAssumption DEF Opening
  <2>4. ConnectionInv'
    <3>1. main'.step <= Opening'
      BY <2>1, <2>3
    <3>2. Opening' = Len(Protocol!Requests(connection'))
      BY DEF Opening
    <3>3. QED BY <2>1, <2>3, <3>1, <3>2 DEF ConnectionInv
  <2>5. MutexInv'
    BY <1>1, <1>2, <2>1 DEF IInv, MutexInv, MainHolds, InRecovery, Negotiating, Alone, Running,
      Inside
  <2>6. StartInv'
    BY <1>1, <2>1 DEF IInv, StartInv, Negotiating, InRecovery
  <2>7. WireInv'
    BY <1>1, <1>2, <2>1, <2>3 DEF WireInv, Negotiating
  <2>8. QED BY <2>2, <2>4, <2>5, <2>6, <2>7 DEF IInv
<1>4. CASE alive' = "closed" /\ Main(IF connection > 0 THEN "give_up" ELSE "exit")
  <2>1. /\ main' \in [pc : MainPc, step : 1..6, node : BOOLEAN]
        /\ main'.pc = IF connection > 0 THEN "give_up" ELSE "exit"
    BY <1>4, MainGoes DEF IInv, MainPc
  <2>2. TypeOK'
    BY <1>1, <1>4, <2>1, BoundsAssumption DEF IInv, TypeOK
  <2>3. ConnectionInv'
    BY <1>1, <2>1 DEF ConnectionInv, Negotiating
  <2>4. MutexInv'
    BY <1>1, <1>2, <2>1 DEF IInv, MutexInv, MainHolds, InRecovery, Negotiating, Alone, Running,
      Inside
  <2>5. StartInv'
    BY <1>1, <2>1 DEF IInv, StartInv, Negotiating, InRecovery
  <2>6. WireInv'
    BY <1>1, <1>4 DEF WireInv
  <2>7. QED BY <2>2, <2>3, <2>4, <2>5, <2>6 DEF IInv
<1>5. QED BY <1>3, <1>4 DEF ConnectToServer

\* Pieces are in Piece.
LEMMA PieceType ==
  ASSUME NEW t \in Thread, NEW k \in FrameNo
  PROVE  Protocol!Header(t, k) \in Piece /\ Protocol!Payload(t, k) \in Piece /\ Protocol!Single(t, k) \in Piece
BY DEF Piece

LEMMA RequestPiece ==
  ASSUME NEW q \in {"sign_in", "map", "node", "interfaces", "custom", "start"}
  PROVE  q \in Piece
BY DEF Piece

LEMMA SendRequestInv == IInv /\ SendRequest => IInv'
<1> SUFFICES ASSUME IInv, SendRequest PROVE IInv'
  OBVIOUS
<1>1. /\ main.pc = "request" /\ Running /\ Negotiating
      /\ UNCHANGED <<st, mutex, initialized, machine, sending, frames, connection, alive, breaks>>
      /\ machine \in BOOLEAN /\ (st # "none" => machine)
  BY DEF SendRequest, At, Negotiating, IInv, TypeOK, StartInv
<1>2. CASE UNCHANGED heard /\ (Exit \/ Fail)
  <2>1. KeepAllBut /\ UNCHANGED machine
    BY <1>1, <1>2 DEF KeepAllBut, wire
  <2>2. QED BY <1>1, <1>2, <2>1, ExitInv, FailInv
<1>3. CASE alive = "open" /\ heard' = Append(heard, Request) /\ Main("answer")
  <2>1. /\ main' \in [pc : MainPc, step : 1..6, node : BOOLEAN]
        /\ main'.pc = "answer" /\ main'.step = main.step
    BY <1>3, MainGoes DEF IInv, MainPc
  <2>2. TypeOK'
    BY <1>1, <2>1 DEF IInv, TypeOK
  <2>3. ConnectionInv'
    BY <1>1, <2>1 DEF IInv, ConnectionInv, Negotiating
  <2>4. MutexInv'
    BY <1>1, <2>1 DEF IInv, MutexInv, MainHolds, InRecovery, Negotiating, Alone, Running
  <2>5. StartInv'
    BY <1>1, <2>1 DEF IInv, StartInv, Negotiating, InRecovery
  <2>6. main.step \in 1..Opening /\ Opening \in Nat /\ Opening' = Opening /\ Request \in Piece
    BY <1>1, RequestPlace, RequestPiece DEF IInv, Opening
  <2>7. Len(heard) = main.step - 1 /\ heard \in Seq(Piece)
    BY <1>1, <1>3 DEF IInv, WireInv
  <2>8. heard' \in Seq(Piece) /\ Len(heard') = main.step
    BY <1>3, <2>6, <2>7
  <2>9. \A t \in Thread : sending[t] # "payload"
    BY <1>1, <1>3, <2>6, <2>7 DEF IInv, WireInv
  <2>10. WireInv'
    BY <1>1, <2>1, <2>6, <2>8, <2>9 DEF WireInv, Negotiating
  <2>11. QED BY <2>2, <2>3, <2>4, <2>5, <2>10 DEF IInv
<1>4. QED BY <1>2, <1>3 DEF SendRequest

-----------------------------------------------------------------------------
(* Starting up, the event loop and the recovery. *)

\* A step outside of the negotiation that leaves wire and senders alone.
LEMMA QuietInv ==
  ASSUME IInv, Running, UNCHANGED <<machine, sending, frames, wire>>,
         initialized' \in BOOLEAN, mutex' \in Thread \cup {"none"},
         st' \in {"none", "initialize", "lock", "signal", "run", "done"},
         main' \in [pc : MainPc, step : 1..6, node : BOOLEAN],
         main' = main \/ (/\ main.pc \notin {"connect", "request", "answer", "give_up"}
                          /\ main'.pc \notin {"connect", "request", "answer"})
  PROVE  TypeOK' /\ ConnectionInv' /\ WireInv'
<1>1. TypeOK'
  BY DEF IInv, TypeOK, wire
<1>2. ConnectionInv'
  BY DEF IInv, ConnectionInv, Negotiating, wire, Running
<1>3. Opening' = Opening
  BY DEF Opening, wire
<1>4. WireInv'
  BY <1>3 DEF IInv, WireInv, wire, Running, Negotiating
<1>5. QED BY <1>1, <1>2, <1>4

LEMMA CreateThreadInv == IInv /\ CreateThread => IInv'
<1> SUFFICES ASSUME IInv, CreateThread PROVE IInv'
  OBVIOUS
<1>1. main.pc = "create" /\ Running /\ Keep /\ mutex' = mutex /\ machine = TRUE /\ st = "none"
  BY DEF CreateThread, At, IInv, StartInv, TypeOK, MutexInv, Alone
<1>2. CASE st' = st /\ Exit
  <2>1. KeepAllBut /\ machine' = machine
    BY <1>1, <1>2 DEF KeepAllBut, Keep
  <2>2. QED BY <1>1, <1>2, <2>1, ExitInv DEF IInv, TypeOK
<1>3. CASE st' = "initialize" /\ Main("lock")
  <2>1. main' \in [pc : MainPc, step : 1..6, node : BOOLEAN] /\ main'.pc = "lock"
    BY <1>3, MainGoes DEF IInv, MainPc
  <2>2. TypeOK' /\ ConnectionInv' /\ WireInv'
    BY <1>1, <1>3, <2>1, QuietInv DEF Keep, IInv, TypeOK
  <2>3. MutexInv'
    BY <1>1, <1>3, <2>1 DEF IInv, MutexInv, MainHolds, InRecovery, Negotiating, Alone, Keep, Running
  <2>4. StartInv'
    BY <1>1, <1>3, <2>1 DEF IInv, StartInv, InRecovery, Negotiating, Keep
  <2>5. QED BY <2>2, <2>3, <2>4 DEF IInv
<1>4. QED BY <1>2, <1>3 DEF CreateThread

LEMMA LockInv == IInv /\ Lock => IInv'
<1> SUFFICES ASSUME IInv, Lock PROVE IInv'
  OBVIOUS
<1>1. main.pc = "lock" /\ Running /\ Keep /\ mutex = "none" /\ mutex' = "main" /\ st' = st
  BY DEF Lock, At
<1>2. main' \in [pc : MainPc, step : 1..6, node : BOOLEAN] /\ main'.pc = "check"
  BY MainGoes DEF IInv, MainPc, Lock
<1>3. TypeOK' /\ ConnectionInv' /\ WireInv'
  BY <1>1, <1>2, QuietInv DEF Keep, IInv, TypeOK, Thread
<1>4. MutexInv'
  BY <1>1, <1>2 DEF IInv, MutexInv, MainHolds, InRecovery, Negotiating, Alone, Keep, Running
<1>5. StartInv'
  BY <1>1, <1>2 DEF IInv, StartInv, InRecovery, Negotiating, Keep
<1>6. QED BY <1>3, <1>4, <1>5 DEF IInv

LEMMA CheckInv == IInv /\ Check => IInv'
<1> SUFFICES ASSUME IInv, Check PROVE IInv'
  OBVIOUS
<1>1. main.pc = "check" /\ Running /\ Keep /\ mutex = "main" /\ st' = st /\ sending["main"] = "no"
  BY DEF Check, At, IInv, MutexInv, MainHolds
<1>2. /\ main' \in [pc : MainPc, step : 1..6, node : BOOLEAN]
      /\ \/ initialized /\ mutex' = "none" /\ main'.pc = "loop"
         \/ mutex' = mutex /\ main'.pc = "sleep"
  BY MainGoes DEF IInv, MainPc, Check
<1>3. TypeOK' /\ ConnectionInv' /\ WireInv'
  BY <1>1, <1>2, QuietInv DEF Keep, IInv, TypeOK, Thread
<1>4. MutexInv'
  BY <1>1, <1>2 DEF IInv, MutexInv, MainHolds, InRecovery, Negotiating, Alone, Keep, Running, Inside
<1>5. StartInv'
  BY <1>1, <1>2 DEF IInv, StartInv, InRecovery, Negotiating, Keep
<1>6. QED BY <1>3, <1>4, <1>5 DEF IInv

LEMMA WaitInv == IInv /\ Wait => IInv'
<1> SUFFICES ASSUME IInv, Wait PROVE IInv'
  OBVIOUS
<1>1. /\ main.pc = "sleep" /\ Running /\ Keep /\ mutex = "main" /\ mutex' = "none" /\ st' = st
      /\ sending["main"] = "no"
  BY DEF Wait, At, IInv, MutexInv, MainHolds
<1>2. main' \in [pc : MainPc, step : 1..6, node : BOOLEAN] /\ main'.pc = "wait"
  BY MainGoes DEF IInv, MainPc, Wait
<1>3. TypeOK' /\ ConnectionInv' /\ WireInv'
  BY <1>1, <1>2, QuietInv DEF Keep, IInv, TypeOK, Thread
<1>4. MutexInv'
  BY <1>1, <1>2 DEF IInv, MutexInv, MainHolds, InRecovery, Negotiating, Alone, Keep, Running, Inside
<1>5. StartInv'
  BY <1>1, <1>2 DEF IInv, StartInv, InRecovery, Negotiating, Keep
<1>6. QED BY <1>3, <1>4, <1>5 DEF IInv

\* The main thread moves between places where it neither holds the mutex nor sends.
LEMMA StrollInv ==
  ASSUME IInv, Keep, UNCHANGED <<st, mutex>>, NEW pc \in {"lock", "loop", "handle", "recover"}, Main(pc),
         main.pc \in {"wait", "loop", "handle"}, sending["main"] = "no",
         pc # "lock" => initialized
  PROVE  IInv'
<1>1. main' \in [pc : MainPc, step : 1..6, node : BOOLEAN] /\ main'.pc = pc /\ Running
  BY MainGoes DEF IInv, MainPc, Running
<1>2. TypeOK' /\ ConnectionInv' /\ WireInv'
  BY <1>1, QuietInv DEF Keep, IInv, TypeOK
<1>3. MutexInv'
  BY <1>1 DEF IInv, MutexInv, MainHolds, InRecovery, Negotiating, Alone, Keep, Running, Inside
<1>4. StartInv'
  BY <1>1 DEF IInv, StartInv, InRecovery, Negotiating, Keep
<1>5. QED BY <1>2, <1>3, <1>4 DEF IInv

LEMMA StrollsInv ==
  IInv /\ (SpuriousWakeup \/ ReceiveFrame \/ ProcessFrameReturns) => IInv'
<1> SUFFICES ASSUME IInv, SpuriousWakeup \/ ReceiveFrame \/ ProcessFrameReturns PROVE IInv'
  OBVIOUS
<1>1. Keep /\ UNCHANGED <<st, mutex>> /\ Running
  BY DEF SpuriousWakeup, ReceiveFrame, ProcessFrameReturns, At
<1>2. main.pc \in {"wait", "loop"} => sending["main"] = "no"
  BY <1>1 DEF IInv, MutexInv
<1>3. main.pc \in {"loop", "handle"} => initialized
  BY DEF IInv, StartInv
<1>4. CASE SpuriousWakeup
  BY <1>1, <1>2, <1>4, StrollInv DEF SpuriousWakeup, At
<1>5. CASE ReceiveFrame
  BY <1>1, <1>2, <1>3, <1>5, StrollInv DEF ReceiveFrame, At
<1>6. CASE ProcessFrameReturns
  BY <1>1, <1>3, <1>6, StrollInv DEF ProcessFrameReturns, At
<1>7. QED BY <1>4, <1>5, <1>6

LEMMA LoopBreaksInv == IInv /\ LoopBreaks => IInv'
<1> SUFFICES ASSUME IInv, LoopBreaks PROVE IInv'
  OBVIOUS
<1>1. /\ main.pc = "loop" /\ Running /\ Keep /\ UNCHANGED <<st, mutex>>
      /\ sending["main"] = "no" /\ initialized /\ machine \in BOOLEAN /\ (st # "none" => machine)
  BY DEF LoopBreaks, At, IInv, MutexInv, StartInv, TypeOK
<1>2. CASE Exit
  <2>1. KeepAllBut /\ machine' = machine
    BY <1>1 DEF KeepAllBut, Keep
  <2>2. QED BY <1>1, <1>2, <2>1, ExitInv
<1>3. CASE Main("recover")
  BY <1>1, <1>3, StrollInv
<1>4. QED BY <1>2, <1>3 DEF LoopBreaks

LEMMA InterruptInv == IInv /\ Interrupt => IInv'
<1> SUFFICES ASSUME IInv, Interrupt PROVE IInv'
  OBVIOUS
<1>1. KeepAllBut /\ machine' = machine /\ Exit
  BY DEF Interrupt, Keep, KeepAllBut
<1>2. QED BY <1>1, ExitInv DEF IInv, TypeOK, StartInv

LEMMA RecoverInv == IInv /\ Recover => IInv'
<1> SUFFICES ASSUME IInv, Recover PROVE IInv'
  OBVIOUS
<1>1. /\ main.pc = "recover" /\ Running /\ mutex = "none" /\ mutex' = "main" /\ alive' = "closed"
      /\ connection <= MaxBreaks /\ connection > 0 /\ connection \in Nat
      /\ UNCHANGED <<st, initialized, machine, sending, frames, connection, heard, breaks>>
      /\ initialized /\ sending["main"] = "no"
  BY BoundsAssumption DEF Recover, At, IInv, ConnectionInv, TypeOK, StartInv, MutexInv
<1>2. /\ main' \in [pc : MainPc, step : 1..6, node : BOOLEAN]
      /\ main'.pc = "connect" /\ main'.step = main.step
  BY MainGoes DEF IInv, MainPc, Recover
<1>3. TypeOK'
  BY <1>1, <1>2 DEF IInv, TypeOK, Thread
<1>4. ConnectionInv'
  BY <1>1, <1>2 DEF ConnectionInv, Negotiating
<1>5. MutexInv'
  BY <1>1, <1>2 DEF IInv, MutexInv, MainHolds, InRecovery, Negotiating, Alone, Running, Inside
<1>6. StartInv'
  BY <1>1, <1>2 DEF IInv, StartInv, InRecovery, Negotiating
<1>7. WireInv'
  BY <1>1 DEF IInv, WireInv
<1>8. QED BY <1>3, <1>4, <1>5, <1>6, <1>7 DEF IInv

LEMMA ResumeInv == IInv /\ Resume => IInv'
<1> SUFFICES ASSUME IInv, Resume PROVE IInv'
  OBVIOUS
<1>1. /\ main.pc = "resume" /\ Running /\ mutex = "main" /\ mutex' = "none" /\ st' = st /\ Keep
      /\ initialized /\ sending["main"] = "no"
  BY DEF Resume, At, IInv, StartInv, MutexInv, MainHolds, InRecovery
<1>2. main' \in [pc : MainPc, step : 1..6, node : BOOLEAN] /\ main'.pc = "loop"
  BY MainGoes DEF IInv, MainPc, Resume
<1>3. TypeOK' /\ ConnectionInv' /\ WireInv'
  BY <1>1, <1>2, QuietInv DEF Keep, IInv, TypeOK
<1>4. MutexInv'
  BY <1>1, <1>2 DEF IInv, MutexInv, MainHolds, InRecovery, Negotiating, Alone, Keep, Running, Inside
<1>5. StartInv'
  BY <1>1, <1>2 DEF IInv, StartInv, InRecovery, Negotiating, Keep
<1>6. QED BY <1>3, <1>4, <1>5 DEF IInv

LEMMA GiveUpInv == IInv /\ GiveUp => IInv'
<1> SUFFICES ASSUME IInv, GiveUp PROVE IInv'
  OBVIOUS
<1>1. main.pc = "give_up" /\ mutex' = "none" /\ st' = st /\ Keep
  BY DEF GiveUp, At
<1>2. main' \in [pc : MainPc, step : 1..6, node : BOOLEAN] /\ main'.pc = "exit"
  BY MainGoes DEF IInv, MainPc, GiveUp, Exit
<1>3. TypeOK'
  BY <1>1, <1>2 DEF IInv, TypeOK, Keep, wire
<1>4. ConnectionInv' /\ MutexInv' /\ WireInv'
  BY <1>1, <1>2 DEF IInv, ConnectionInv, MutexInv, WireInv, Negotiating, Running, Keep, wire
<1>5. StartInv'
  BY <1>1, <1>2 DEF IInv, StartInv, InRecovery, Negotiating, Keep
<1>6. QED BY <1>3, <1>4, <1>5 DEF IInv

-----------------------------------------------------------------------------
(* The machine's thread, and the connection breaking. *)

LEMMA MachineInv == IInv /\ (Machine \/ RunReturns) => IInv'
<1> SUFFICES ASSUME IInv, Machine \/ RunReturns PROVE IInv'
  OBVIOUS
<1>1. /\ Running /\ UNCHANGED <<machine, sending, frames, wire>>
      /\ st \in {"initialize", "lock", "signal", "run"} /\ sending["machine"] = "no"
      /\ mutex' = mutex
  BY DEF Machine, RunReturns, Initialize, SetInitialized, Signal, Keep, IInv, MutexInv
<1>2. machine /\ ~Alone
  BY <1>1 DEF IInv, StartInv, MutexInv
<1>3. /\ initialized' \in BOOLEAN /\ (initialized => initialized')
      /\ st' \in {"lock", "signal", "run", "done"}
      /\ st' \in {"signal", "run", "done"} => initialized'
  BY <1>1 DEF IInv, TypeOK, StartInv, Machine, RunReturns, Initialize, SetInitialized, Signal, Keep
<1>4. /\ main' \in [pc : MainPc, step : 1..6, node : BOOLEAN]
      /\ main' = main \/ (main.pc = "wait" /\ main'.pc = "lock" /\ main'.step = main.step)
  BY MainGoes DEF IInv, TypeOK, MainPc, Machine, RunReturns, Initialize, SetInitialized, Signal
<1>5. TypeOK' /\ ConnectionInv' /\ WireInv'
  <2>1. mutex' \in Thread \cup {"none"}
    BY <1>1 DEF IInv, TypeOK
  <2>2. QED BY <1>1, <1>3, <1>4, <2>1, QuietInv
<1>6. MutexInv'
  BY <1>1, <1>2, <1>4 DEF IInv, MutexInv, MainHolds, InRecovery, Negotiating, Alone, Running, wire,
    Inside
<1>7. StartInv'
  BY <1>1, <1>2, <1>3, <1>4 DEF IInv, StartInv, InRecovery, Negotiating, wire
<1>8. QED BY <1>5, <1>6, <1>7 DEF IInv

LEMMA BreakInv == ASSUME IInv, NEW how \in {"reset", "closed"}, Break(how) PROVE IInv'
<1>1. UNCHANGED <<main, st, mutex, initialized, machine, sending, frames, connection, heard>>
      /\ alive' = how /\ alive = "open"
  BY DEF Break
<1>2. TypeOK' /\ ConnectionInv'
  BY <1>1 DEF IInv, TypeOK, ConnectionInv, Negotiating
<1>3. MutexInv' /\ StartInv'
  BY <1>1 DEF IInv, MutexInv, MainHolds, StartInv, InRecovery, Negotiating, Alone, Running
<1>4. WireInv'
  BY <1>1 DEF IInv, WireInv
<1>5. QED BY <1>2, <1>3, <1>4 DEF IInv

-----------------------------------------------------------------------------
(* sendFrame. *)

LEMMA SendFrameInv == ASSUME IInv, NEW t \in Thread, SendFrame(t) PROVE IInv'
<1>1. /\ Running /\ MaySend(t) /\ sending[t] = "no" /\ frames[t] < MaxFrames
      /\ frames' = [frames EXCEPT ![t] = @ + 1] /\ sending' = [sending EXCEPT ![t] = "lock"]
      /\ UNCHANGED <<main, mutex, heard, st, initialized, machine, connection, alive, breaks>>
  BY DEF SendFrame, Sending, KeepThreads
<1>2. frames[t] \in Nat /\ frames'[t] = frames[t] + 1 /\ frames'[t] \in 0..MaxFrames
      /\ (\A u \in Thread : u # t => frames'[u] = frames[u] /\ sending'[u] = sending[u])
      /\ sending'[t] = "lock"
  BY <1>1, BoundsAssumption DEF IInv, TypeOK
<1>3. TypeOK'
  BY <1>1, <1>2 DEF IInv, TypeOK
<1>4. ConnectionInv' /\ StartInv'
  BY <1>1 DEF IInv, ConnectionInv, StartInv, Negotiating, InRecovery
<1>5. MutexInv'
  BY <1>1, <1>2 DEF IInv, MutexInv, MainHolds, InRecovery, Negotiating, Alone, Running, MaySend,
    Thread, Inside
<1>6. Opening' = Opening
  BY <1>1 DEF Opening
<1>7. WireInv'
  BY <1>1, <1>2, <1>6 DEF IInv, WireInv, Running, Negotiating
<1>8. QED BY <1>3, <1>4, <1>5, <1>7 DEF IInv

LEMMA LockToSendInv == ASSUME IInv, NEW t \in Thread, LockToSend(t) PROVE IInv'
<1>1. PICK pc \in {"header", "single", "unlock"} : sending' = [sending EXCEPT ![t] = pc]
  BY DEF LockToSend, Sending
<1>2. /\ Running /\ sending[t] = "lock" /\ mutex = "none" /\ mutex' = t
      /\ UNCHANGED <<main, frames, heard, st, initialized, machine, connection, alive, breaks>>
  BY DEF LockToSend, KeepThreads
<1>3. (\A u \in Thread : u # t => sending'[u] = sending[u]) /\ sending'[t] = pc
  BY <1>1 DEF IInv, TypeOK
<1>4. TypeOK'
  BY <1>1, <1>2 DEF IInv, TypeOK
<1>5. ConnectionInv' /\ StartInv'
  BY <1>2 DEF IInv, ConnectionInv, StartInv, Negotiating, InRecovery
<1>6. MutexInv'
  BY <1>2, <1>3 DEF IInv, MutexInv, MainHolds, InRecovery, Negotiating, Alone, Running,
    Thread, Inside
<1>7. Opening' = Opening
  BY <1>2 DEF Opening
<1>8. WireInv'
  BY <1>2, <1>3, <1>7 DEF IInv, WireInv, Running, Negotiating
<1>9. QED BY <1>4, <1>5, <1>6, <1>8 DEF IInv

LEMMA UnlockSentInv == ASSUME IInv, NEW t \in Thread, UnlockSent(t) PROVE IInv'
<1>1. /\ Running /\ sending[t] = "unlock" /\ mutex' = "none" /\ sending' = [sending EXCEPT ![t] = "no"]
      /\ UNCHANGED <<main, frames, heard, st, initialized, machine, connection, alive, breaks>>
  BY DEF UnlockSent, Sending, KeepThreads
<1>2. (\A u \in Thread : u # t => sending'[u] = sending[u]) /\ sending'[t] = "no"
  BY <1>1 DEF IInv, TypeOK
<1>3. TypeOK'
  BY <1>1 DEF IInv, TypeOK
<1>4. ConnectionInv' /\ StartInv'
  BY <1>1 DEF IInv, ConnectionInv, StartInv, Negotiating, InRecovery
<1>5. MutexInv'
  BY <1>1, <1>2 DEF IInv, MutexInv, MainHolds, InRecovery, Negotiating, Alone, Running,
    Thread, Inside
<1>6. Opening' = Opening
  BY <1>1 DEF Opening
<1>7. WireInv'
  BY <1>1, <1>2, <1>6 DEF IInv, WireInv, Running, Negotiating
<1>8. QED BY <1>3, <1>4, <1>5, <1>7 DEF IInv

\* A thread inside of sendFrame holds the mutex, is alone there, and is past the
\* negotiation.
LEMMA SenderAlone ==
  ASSUME IInv, NEW t \in Thread, Running, sending[t] \in Inside
  PROVE  /\ mutex = t /\ frames[t] \in FrameNo /\ connection > 0
         /\ \A u \in Thread : u # t => sending[u] \notin Inside
         /\ ~Negotiating /\ main.pc # "give_up"
         /\ alive = "open" => Len(heard) >= Opening
<1>1. mutex = t
  BY DEF IInv, MutexInv, MainHolds, Thread
<1>2. \A u \in Thread : u # t => sending[u] \notin Inside
  BY <1>1 DEF IInv, MutexInv, MainHolds, Thread
<1>3. frames[t] \in FrameNo
  BY BoundsAssumption DEF IInv, TypeOK, MutexInv, FrameNo, Inside
<1>4. connection \in Nat
  BY BoundsAssumption DEF IInv, TypeOK
<1>5. connection > 0 /\ ~Negotiating /\ main.pc # "give_up"
  <2>1. CASE t = "main"
    <3>1. main.pc = "handle"
      BY <2>1 DEF IInv, MutexInv, Inside
    <3>2. QED BY <3>1 DEF IInv, ConnectionInv, Negotiating
  <2>2. CASE t = "machine"
    <3>1. ~InRecovery /\ ~Alone
      BY <1>1, <2>2 DEF IInv, MutexInv, MainHolds, Inside
    <3>2. QED BY <1>4, <3>1 DEF IInv, ConnectionInv, InRecovery, Alone, Negotiating, Running
  <2>3. QED BY <2>1, <2>2 DEF Thread
<1>6. QED BY <1>1, <1>2, <1>3, <1>5 DEF IInv, WireInv

LEMMA SendPieceInv ==
  ASSUME IInv, NEW t \in Thread, Running, sending[t] \in {"header", "payload", "single"},
         NEW m \in Piece, NEW pc \in {"payload", "unlock"}, SendPiece(t, m, pc),
         pc = "payload" => m = Protocol!Header(t, frames[t]),
         pc = "unlock" => \A u \in Thread, k \in FrameNo : m # Protocol!Header(u, k)
  PROVE  IInv'
<1>1. UNCHANGED <<mutex, frames, st, initialized, machine, connection, alive, breaks>>
  BY DEF SendPiece, KeepThreads
<1>2. /\ mutex = t /\ frames[t] \in FrameNo /\ connection > 0
      /\ \A u \in Thread : u # t => sending[u] \notin Inside
      /\ ~Negotiating /\ main.pc # "give_up"
      /\ alive = "open" => Len(heard) >= Opening
  BY SenderAlone DEF Inside
<1>3. Opening \in Nat /\ Opening' = Opening
  BY <1>1, OpeningValue DEF IInv, Opening
<1>4. CASE UNCHANGED sending /\ Exit /\ UNCHANGED heard
  <2>1. KeepAllBut /\ machine' = machine
    BY <1>1, <1>4 DEF KeepAllBut, wire
  <2>2. QED BY <1>4, <2>1, ExitInv DEF IInv, TypeOK, StartInv
<1>5. CASE \E p \in {"payload", "unlock"} :
             sending' = [sending EXCEPT ![t] = p] /\ main' = main /\ (alive = "open" => p = pc)
  <2>1. PICK p \in {"payload", "unlock"} :
               sending' = [sending EXCEPT ![t] = p] /\ main' = main /\ (alive = "open" => p = pc)
    BY <1>5
  <2>2. (\A u \in Thread : u # t => sending'[u] = sending[u]) /\ sending'[t] = p
    BY <2>1 DEF IInv, TypeOK
  <2>3. TypeOK'
    BY <1>1, <2>1 DEF IInv, TypeOK
  <2>4. ConnectionInv' /\ StartInv'
    BY <1>1, <2>1 DEF IInv, ConnectionInv, StartInv, Negotiating, InRecovery
  <2>5. MutexInv'
    BY <1>1, <2>1, <2>2 DEF IInv, MutexInv, MainHolds, InRecovery, Negotiating, Alone, Running,
      Thread, Inside
  <2>6. CASE alive # "open"
    <3>1. heard' = heard
      BY <2>6 DEF SendPiece
    <3>2. WireInv'
      BY <1>1, <2>6, <3>1 DEF IInv, WireInv
    <3>3. QED BY <2>3, <2>4, <2>5, <3>2 DEF IInv
  <2>7. CASE alive = "open"
    <3>1. heard' = Append(heard, m) /\ heard \in Seq(Piece) /\ p = pc
      BY <2>1, <2>7 DEF SendPiece, IInv, WireInv
    <3>2. heard' \in Seq(Piece) /\ Len(heard') = Len(heard) + 1 /\ heard'[Len(heard')] = m
      BY <3>1
    <3>3. Len(heard') > Opening
      BY <1>2, <1>3, <2>7, <3>1, <3>2
    <3>4. \A u \in Thread : sending'[u] = "payload" =>
            u = t /\ heard'[Len(heard')] = Protocol!Header(u, frames[u])
      BY <1>2, <2>2, <3>1, <3>2 DEF Inside
    <3>5. \A u \in Thread, k \in FrameNo :
            heard'[Len(heard')] = Protocol!Header(u, k) => sending'[u] = "payload"
      BY <1>2, <2>2, <3>1, <3>2, PieceFields
    <3>6. WireInv'
      BY <1>1, <1>2, <1>3, <2>1, <3>2, <3>3, <3>4, <3>5 DEF WireInv, Negotiating
    <3>7. QED BY <2>3, <2>4, <2>5, <3>6 DEF IInv
  <2>8. QED BY <2>6, <2>7
<1>6. QED BY <1>4, <1>5 DEF SendPiece, Sending

LEMMA SendsInv ==
  ASSUME IInv, NEW t \in Thread, SendHeader(t) \/ SendPayload(t) \/ SendSingle(t)
  PROVE  IInv'
<1>1. frames[t] \in FrameNo /\ Running
  BY SenderAlone DEF SendHeader, SendPayload, SendSingle, Inside
<1>2. /\ Protocol!Header(t, frames[t]) \in Piece
      /\ Protocol!Payload(t, frames[t]) \in Piece
      /\ Protocol!Single(t, frames[t]) \in Piece
  BY <1>1, PieceType
<1>3. CASE SendHeader(t)
  BY <1>1, <1>2, <1>3, SendPieceInv DEF SendHeader
<1>4. CASE SendPayload(t)
  <2>1. \A u \in Thread, k \in FrameNo : Protocol!Payload(t, frames[t]) # Protocol!Header(u, k)
    BY PieceFields
  <2>2. QED BY <1>1, <1>2, <1>4, <2>1, SendPieceInv DEF SendPayload
<1>5. CASE SendSingle(t)
  <2>1. \A u \in Thread, k \in FrameNo : Protocol!Single(t, frames[t]) # Protocol!Header(u, k)
    BY PieceFields
  <2>2. QED BY <1>1, <1>2, <1>5, <2>1, SendPieceInv DEF SendSingle
<1>6. QED BY <1>3, <1>4, <1>5

LEMMA StutterInv == IInv /\ UNCHANGED vars => IInv'
<1> SUFFICES ASSUME IInv, UNCHANGED vars PROVE IInv'
  OBVIOUS
<1> USE DEF vars, wire
<1>1. TypeOK' /\ ConnectionInv' /\ StartInv'
  BY DEF IInv, TypeOK, ConnectionInv, StartInv, Negotiating, InRecovery
<1>2. MutexInv'
  BY DEF IInv, MutexInv, MainHolds, InRecovery, Negotiating, Alone, Running
<1>3. WireInv'
  BY DEF IInv, WireInv, Running, Negotiating, Opening
<1>4. QED BY <1>1, <1>2, <1>3 DEF IInv

LEMMA Consecution == IInv /\ [Next]_vars => IInv'
<1> SUFFICES ASSUME IInv, [Next]_vars PROVE IInv'
  OBVIOUS
<1>1. CASE Negotiation
  BY <1>1, ConnectToServerInv, SendRequestInv, AnswersInv, StartedInv DEF Negotiation
<1>2. CASE Startup \/ SpuriousWakeup
  BY <1>2, CreateThreadInv, LockInv, CheckInv, WaitInv, StrollsInv DEF Startup
<1>3. CASE Loop
  BY <1>3, StrollsInv, LoopBreaksInv, RecoverInv, ResumeInv, GiveUpInv DEF Loop
<1>4. CASE Machine \/ RunReturns
  BY <1>4, MachineInv
<1>5. CASE \E t \in Thread : SendFrame(t) \/ Sends(t)
  BY <1>5, SendFrameInv, LockToSendInv, SendsInv, UnlockSentInv DEF Sends
<1>6. CASE \E how \in {"reset", "closed"} : Break(how)
  BY <1>6, BreakInv
<1>7. CASE Interrupt
  BY <1>7, InterruptInv
<1>8. CASE UNCHANGED vars
  BY <1>8, StutterInv
<1>9. QED BY <1>1, <1>2, <1>3, <1>4, <1>5, <1>6, <1>7, <1>8 DEF Next

\* The invariant holds in every behaviour.
THEOREM Invariance == Spec => []IInv
BY InitInv, Consecution, PTL DEF Spec

\* Threads, mutex and wire keep to their types, for any number of frames and breaks
\* (cf.cpp: the threads of run, eventLoop and sendFrame).
THEOREM TypeCorrect == Spec => []TypeOK
<1>1. IInv => TypeOK
  BY DEF IInv
<1>2. QED BY <1>1, Invariance, PTL

\* Neither processFrame nor run is called before initialize has returned, nor on a
\* machine that was not instantiated (cf.cpp: startSimulation, eventLoop).
THEOREM InitializedFirstHolds == Spec => []InitializedFirst
<1>1. IInv => InitializedFirst
  BY DEF IInv, StartInv, InitializedFirst
<1>2. QED BY <1>1, Invariance, PTL

-----------------------------------------------------------------------------
(* Every step is one of Scfcp, or leaves connection and heard alone. *)

Hearing == <<connection, heard>>

\* When a command may follow what was heard.
LEMMA FollowsRequest ==
  ASSUME IInv, At("request"), alive = "open"
  PROVE  Protocol!MayFollow(connection, heard, Request)
<1>1. main.pc = "request" /\ Running /\ Negotiating
  BY DEF At, Negotiating
<1>2. /\ Len(heard) = main.step - 1 /\ main.step \in 1..Opening /\ Opening \in Nat
      /\ Len(heard) \in Nat
  BY <1>1, RequestPlace DEF IInv, WireInv
<1>3. Len(heard) + 1 = main.step
  BY <1>2
<1>4. Request = Protocol!Requests(connection)[Len(heard) + 1]
  BY <1>3 DEF Request
<1>5. Len(heard) - Len(Protocol!Requests(connection)) < 0
  BY <1>2 DEF Opening
<1>6. QED BY <1>4, <1>5 DEF Protocol!MayFollow

LEMMA FollowsPiece ==
  ASSUME IInv, NEW t \in Thread, Running, alive = "open",
         NEW m, \/ sending[t] = "header" /\ m = Protocol!Header(t, frames[t])
                \/ sending[t] = "payload" /\ m = Protocol!Payload(t, frames[t])
                \/ sending[t] = "single" /\ m = Protocol!Single(t, frames[t])
  PROVE  Protocol!MayFollow(connection, heard, m)
<1>1. /\ frames[t] \in FrameNo /\ Len(heard) >= Opening
      /\ \A u \in Thread : u # t => sending[u] \notin Inside
  BY SenderAlone DEF Inside
<1>2. Opening \in Nat /\ Len(heard) \in Nat
  BY OpeningValue DEF IInv, WireInv
<1> DEFINE n == Len(heard) - Opening
           Hd == \E u \in Thread, j \in FrameNo : heard[Len(heard)] = Protocol!Header(u, j)
<1>3. n >= 0 /\ (n > 0 <=> Len(heard) > Opening)
  BY <1>1, <1>2
<1>4. CASE sending[t] = "payload"
  <2>1. m = Protocol!Payload(t, frames[t])
    BY <1>4
  <2>2. n > 0 /\ heard[Len(heard)] = Protocol!Header(t, frames[t])
    BY <1>3, <1>4 DEF IInv, WireInv
  <2>3. n > 0 /\ Hd
    BY <2>2, <1>1
  <2>4. QED BY <1>1, <1>3, <2>1, <2>2, <2>3 DEF Protocol!MayFollow, Opening
<1>5. CASE sending[t] \in {"header", "single"}
  <2>1. m \in {Protocol!Header(t, frames[t]), Protocol!Single(t, frames[t])}
    BY <1>5
  <2>2. ~(n > 0 /\ Hd)
    <3>1. SUFFICES ASSUME n > 0, NEW u \in Thread, NEW j \in FrameNo,
                          heard[Len(heard)] = Protocol!Header(u, j)
                   PROVE  FALSE
      OBVIOUS
    <3>2. sending[u] = "payload"
      BY <1>3, <3>1 DEF IInv, WireInv
    <3>3. QED BY <1>1, <1>5, <3>2 DEF Inside
  <2>3. QED BY <1>1, <1>3, <2>1, <2>2 DEF Protocol!MayFollow, Opening
<1>6. QED BY <1>4, <1>5

LEMMA Hears ==
  ASSUME heard \in Seq(Piece), NEW m \in Piece, heard' = Append(heard, m), connection' = connection,
         connection > 0, Protocol!MayFollow(connection, heard, m)
  PROVE  Protocol!Next
<1>1. Len(heard') = Len(heard) + 1 /\ heard'[Len(heard')] = m
  OBVIOUS
<1>2. QED BY <1>1 DEF Protocol!Next, Protocol!Hear

LEMMA InitMaps == Init => Protocol!Init
BY DEF Init, Protocol!Init

LEMMA SendRequestMaps == IInv /\ SendRequest => [Protocol!Next]_Hearing
<1> SUFFICES ASSUME IInv, SendRequest, ~UNCHANGED Hearing PROVE Protocol!Next
  OBVIOUS
<1>1. At("request") /\ alive = "open" /\ heard' = Append(heard, Request) /\ connection' = connection
  BY DEF SendRequest, Hearing
<1>2. Negotiating /\ main.pc = "request"
  BY <1>1 DEF At, Negotiating
<1>3. Request \in Piece /\ connection > 0 /\ heard \in Seq(Piece)
  BY <1>2, RequestPlace, RequestPiece DEF IInv, ConnectionInv, WireInv
<1>4. QED BY <1>1, <1>3, FollowsRequest, Hears

LEMMA SendsMaps ==
  ASSUME IInv, NEW t \in Thread, SendHeader(t) \/ SendPayload(t) \/ SendSingle(t)
  PROVE  [Protocol!Next]_Hearing
<1> SUFFICES ASSUME ~UNCHANGED Hearing PROVE Protocol!Next
  OBVIOUS
<1>1. PICK m : /\ \/ sending[t] = "header" /\ m = Protocol!Header(t, frames[t])
                  \/ sending[t] = "payload" /\ m = Protocol!Payload(t, frames[t])
                  \/ sending[t] = "single" /\ m = Protocol!Single(t, frames[t])
               /\ Running /\ alive = "open" /\ heard' = Append(heard, m) /\ connection' = connection
  BY DEF SendHeader, SendPayload, SendSingle, SendPiece, KeepThreads, Hearing
<1>2. frames[t] \in FrameNo /\ connection > 0 /\ heard \in Seq(Piece)
  BY <1>1, SenderAlone DEF Inside, IInv, WireInv
<1>3. m \in Piece
  BY <1>1, <1>2, PieceType
<1>4. QED BY <1>1, <1>2, <1>3, FollowsPiece, Hears

LEMMA StepMaps == IInv /\ [Next]_vars => [Protocol!Next]_Hearing
<1> SUFFICES ASSUME IInv, [Next]_vars PROVE [Protocol!Next]_Hearing
  OBVIOUS
<1>1. CASE ConnectToServer
  BY <1>1 DEF ConnectToServer, Protocol!Next, Protocol!Connect
<1>2. CASE SendRequest
  BY <1>2, SendRequestMaps
<1>3. CASE \E t \in Thread : SendHeader(t) \/ SendPayload(t) \/ SendSingle(t)
  BY <1>3, SendsMaps
<1>4. CASE \/ SignedIn \/ MapSelected \/ NodeSelected \/ InterfacesRead \/ CustomRead \/ Started
           \/ NoAnswer
  BY <1>4 DEF SignedIn, MapSelected, NodeSelected, InterfacesRead, CustomRead, Started, NoAnswer,
    KeepAllBut, wire, Hearing
<1>5. CASE Startup \/ SpuriousWakeup \/ Machine \/ RunReturns \/ Interrupt
  BY <1>5 DEF Startup, CreateThread, Lock, Check, Wait, SpuriousWakeup, Machine, Initialize,
    SetInitialized, Signal, RunReturns, Interrupt, Keep, wire, Hearing
<1>6. CASE Loop
  BY <1>6 DEF Loop, ReceiveFrame, ProcessFrameReturns, LoopBreaks, Recover, Resume, GiveUp, Keep,
    wire, Hearing
<1>7. CASE \E t \in Thread : SendFrame(t) \/ LockToSend(t) \/ UnlockSent(t)
  BY <1>7 DEF SendFrame, LockToSend, UnlockSent, KeepThreads, Hearing
<1>8. CASE \E how \in {"reset", "closed"} : Break(how)
  BY <1>8 DEF Break, Hearing
<1>9. CASE UNCHANGED vars
  BY <1>9 DEF vars, wire, Hearing
<1>10. QED
  BY <1>1, <1>2, <1>3, <1>4, <1>5, <1>6, <1>7, <1>8, <1>9 DEF Next, Negotiation, Sends

\* What the server hears is the protocol, whatever the threads do and however often
\* the connection breaks (cf.cpp: sendFrame, recoverSimulation, doInitialNegotiations).
THEOREM ImplementsHolds == Spec => Implements
<1>1. Spec => Protocol!Init /\ [][Protocol!Next]_Hearing
  BY InitMaps, StepMaps, Invariance, PTL DEF Spec
<1>2. QED BY <1>1 DEF Implements, Protocol!Spec, Hearing
=============================================================================

---------------------------- MODULE MCHolePunch ----------------------------
(* Small instances of HolePunch for TLC: addresses of two networks, and      *)
(* budgets for the console commands.                                         *)
EXTENDS HolePunch, TLC

CONSTANTS A, B

MCLocalIp == (A :> 167772161) @@ (B :> 167772417)    \* 10.0.0.1, 10.0.1.1
MCNatIp == (A :> 33554432) @@ (B :> 50331648)        \* 2.0.0.0, 3.0.0.0
MCServerAddr == [ip |-> 16843009, port |-> 1234]     \* 1.1.1.1

Only(connect, info, session) ==
  [connect |-> connect, info |-> info, session |-> session,
   message |-> 0, status |-> 0, update |-> 0, block |-> 0]
PunchOnly == [c \in Client |-> Only(1, 1, 1)]
AskAgain == (A :> Only(1, 0, 0)) @@ (B :> Only(1, 2, 2))
Around == (A :> [Only(1, 0, 0) EXCEPT !.status = 1, !.update = 1, !.block = 1])
       @@ (B :> [Only(0, 0, 0) EXCEPT !.status = 1])
Message == (A :> Only(1, 1, 1)) @@ (B :> [Only(1, 0, 0) EXCEPT !.message = 1])

PunchBudgets == {PunchOnly}
DirectBudgets == {PunchOnly, Around, Message}
AgainBudgets == {AskAgain}
=============================================================================

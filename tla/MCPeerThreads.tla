--------------------------- MODULE MCPeerThreads ---------------------------
(* A client whose first ports are blocked: connecting, twice or with a late *)
(* block, and commands about two peers among the packets of both.           *)
EXTENDS PeerThreads

MCBudgets == {
  [packets |-> 1, connects |-> 2, commands |-> 0],
  [packets |-> 3, connects |-> 0, commands |-> 1],
  [packets |-> 2, connects |-> 0, commands |-> 2]}
=============================================================================

--------------------------- MODULE MCLeaseServer ---------------------------
(* Pools of one and two addresses, two clients, and time that comes in small steps. *)
EXTENDS LeaseServer, TLC

CONSTANTS m1, m2

Clients == Permutations({m1, m2})
MCPools == { <<1, 2>>, <<2, 1>> }
=============================================================================

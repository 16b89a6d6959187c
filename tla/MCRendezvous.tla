---------------------------- MODULE MCRendezvous ----------------------------
(* The server of scratch2, seen from two sides: its handlers and            *)
(* registrations, with 2-bit ids so that they wrap, and the way of packets  *)
(* to it and back.  Either is run.                                          *)
EXTENDS Rendezvous, Routing, TLC

CONSTANTS
  n1, n2,   \* two addresses handed out by NATs
  S, N1, N2, C1, C2, C3, C4

VARIABLE kind

a1 == [ip |-> 167772161, port |-> 5000]    \* 10.0.0.1
a2 == [ip |-> 167772417, port |-> 5000]    \* 10.0.1.1

MCLocalAddr == {a1, a2}
MCSourceAddr == {a1, n1, n2}

-----------------------------------------------------------------------------
\* C2 is behind C1, which is behind NAT N1; C3 is behind NAT N2; C4 is at the
\* server's first interface, where it sends what it has no other way for.
MCRule == (S :> "Server") @@ (N1 :> "NAT") @@ (N2 :> "NAT")
  @@ (C1 :> "Client") @@ (C2 :> "Client") @@ (C3 :> "Client") @@ (C4 :> "Client")
At(a, b, c, d, mask) == [ip |-> <<a, b, c, d>>, mask |-> mask]
MCIface ==
  (S :> << At(20, 0, 3, 1, 3), At(20, 0, 1, 1, 3), At(20, 0, 2, 1, 3) >>)
  @@ (N1 :> << At(20, 0, 1, 2, 3), At(10, 0, 0, 1, 2) >>)
  @@ (C1 :> << At(10, 0, 0, 2, 3), At(10, 0, 5, 1, 3) >>)
  @@ (C2 :> << At(10, 0, 5, 2, 3) >>)
  @@ (N2 :> << At(20, 0, 2, 2, 3), At(10, 1, 0, 1, 3) >>)
  @@ (C3 :> << At(10, 1, 0, 2, 3) >>)
  @@ (C4 :> << At(20, 0, 3, 2, 3) >>)
Cable(a, b) == (a :> b) @@ (b :> a)
MCLink == Cable(<<S, 1>>, <<C4, 1>>) @@ Cable(<<S, 2>>, <<N1, 1>>) @@ Cable(<<S, 3>>, <<N2, 1>>)
  @@ Cable(<<N1, 2>>, <<C1, 1>>) @@ Cable(<<C1, 2>>, <<C2, 1>>) @@ Cable(<<N2, 2>>, <<C3, 1>>)

MCMachine == {S, N1, N2, C1, C2, C3, C4}
MCDestination == {
    [ip |-> <<20, 0, 2, 3>>, port |-> 2000],     \* what N2 gives C3
    [ip |-> <<20, 0, 3, 2>>, port |-> 5000],     \* C4
    [ip |-> <<10, 0, 5, 2>>, port |-> 5000],     \* C2
    [ip |-> <<10, 0, 5, 9>>, port |-> 5000],     \* nobody, in the net of C1 and C2
    [ip |-> <<30, 0, 0, 9>>, port |-> 5000] }    \* nobody, in no net

allvars == <<kind, vars, wayvars>>

MCInit == Init /\ WayInit /\ kind \in {"server", "way"}

MCNext ==
  \/ kind = "server" /\ Next /\ UNCHANGED <<kind, wayvars>>
  \/ kind = "way" /\ WayNext /\ UNCHANGED <<kind, vars>>

MCSpec == MCInit /\ [][MCNext]_allvars
  /\ WF_allvars(kind = "way" /\ ProcessFrame /\ UNCHANGED <<kind, vars>>)

=============================================================================

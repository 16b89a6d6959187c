---------------------------- MODULE MCLeaseNet ----------------------------
(* Two networks: two servers on either side of a client, which a second      *)
(* client goes through; and one server, with every command.                  *)
EXTENDS LeaseNet, TLC

CONSTANTS a, b, s1, s2

Both(links) == links \cup { <<l[2], l[1]>> : l \in links }

TwoServers ==
  [links |-> Both({<<a, s1>>, <<a, s2>>, <<a, b>>}),
   pool |-> (s1 :> {0}) @@ (s2 :> {1}),
   budget |-> [get |-> 2, accept |-> 2, release |-> 0, extend |-> 0, time |-> 1]]

OneServer ==
  [links |-> Both({<<a, s1>>, <<a, b>>}),
   pool |-> s1 :> {0, 1},
   budget |-> [get |-> 2, accept |-> 2, release |-> 1, extend |-> 1, time |-> 2]]

\* NoCycle asks no more than that there is no cycle: every forest of these machines,
\* whichever of them are its inner nodes, is a network it admits.
Forest(pairs) ==
  \A S \in SUBSET Machine \ {{}} : Cardinality({ p \in pairs : p \subseteq S }) < Cardinality(S)
ASSUME ForestsAdmitted ==
  \A pairs \in SUBSET { {m, n} : m, n \in Machine } :
    Forest(pairs) => NoCycle({ l \in Machine \X Machine : {l[1], l[2]} \in pairs })

MCSetups == {TwoServers, OneServer}
=============================================================================

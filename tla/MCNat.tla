------------------------------- MODULE MCNat -------------------------------
(* Small instances of Nat for TLC. *)
EXTENDS Nat, TLC

CONSTANTS o1, o2   \* two hosts outside

MCInsiders == { [ip |-> 1, port |-> 1000], [ip |-> 1, port |-> 1100] }
MCOutsiders == {o1, o2}
\* 1900 makes the collision possible: 1900 + 100 = 2000.
MCBasePorts == {1900}
MCRanges == { [begin |-> 1000, end |-> 1050] }
OutsiderSymmetry == Permutations(MCOutsiders)
=============================================================================

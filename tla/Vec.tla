-------------------------------- MODULE Vec --------------------------------
(***************************************************************************)
(* A std::vector of pointers as the machines use it: storage that outlives *)
(* the elements and a size that says how much of it is in use.  push_back  *)
(* first constructs the element behind the last one and then moves the end *)
(* pointer; clear() only moves the end pointer back.  The two halves of a  *)
(* push_back are separate operators because another thread's clear() can   *)
(* fall between them.                                                      *)
(***************************************************************************)
EXTENDS Naturals, Sequences

EmptyVec == [slots |-> <<>>, size |-> 0]

\* All vectors over S: never more elements than constructed slots.
VecOf(S) == { v \in [slots : Seq(S), size : Nat] : v.size <= Len(v.slots) }

Live(v) == { v.slots[i] : i \in 1..v.size }

\* First half of push_back: construct x behind the last element.
Construct(v, x) ==
  [v EXCEPT !.slots = IF v.size < Len(v.slots)
                      THEN [@ EXCEPT ![v.size + 1] = x]
                      ELSE Append(@, x)]

\* Second half: the end pointer is read again, or was kept from the first
\* half in a register (seen); both builds exist.
Grown(v, seen) == { [v EXCEPT !.size = n + 1] : n \in {v.size, seen} }

Clear(v) == [v EXCEPT !.size = 0]
=============================================================================

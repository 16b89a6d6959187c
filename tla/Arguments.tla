----------------------------- MODULE Arguments -----------------------------
(***************************************************************************)
(* The numbers on the command line of a client: parseIP and parsePort, and *)
(* what an address or a port is, to compare them with.  A text is a        *)
(* sequence of characters; a digit is its value.                           *)
(***************************************************************************)
EXTENDS Integers, Sequences, FiniteSets

CONSTANTS
  Dot,          \* the character '.'
  Refused,      \* the text is not taken
  IntMax,       \* 2^31 - 1 in the code
  AnyPort       \* what an int that has overflowed may leave as the port

Digit == 0..9

\* What is refused is no address and no port, and an int is one.
ASSUME ParsedAssumption ==
  /\ IntMax \in Nat /\ IntMax >= 65535 /\ AnyPort \subseteq Int
  /\ Refused \notin [1..4 -> 0..255] /\ Refused \notin Int

-----------------------------------------------------------------------------
(* parseIP: four times, the digits up to the next dot. *)

\* num, after each of the digits.
Numbers(digits) ==
  LET num[n \in 0..Len(digits)] == IF n = 0 THEN 0 ELSE num[n - 1] * 10 + digits[n] IN num
Number(digits) == Numbers(digits)[Len(digits)]

\* find: the first dot from pos on, 0 if there is none.
NextDot(s, pos) ==
  LET dots == { k \in pos..Len(s) : s[k] = Dot }
  IN IF dots = {} THEN 0 ELSE CHOOSE k \in dots : \A j \in dots : k <= j

Octet(s, r) ==
  LET end == NextDot(s, r.pos)
      digits == SubSeq(s, r.pos, end - 1)
  IN IF /\ r.ok /\ end # 0 /\ end - r.pos <= 3
        /\ \A k \in 1..Len(digits) : digits[k] \in Digit
        /\ Number(digits) <= 255
     THEN [ok |-> TRUE, pos |-> end + 1, arr |-> Append(r.arr, Number(digits))]
     ELSE [r EXCEPT !.ok = FALSE]

\* dotPos and val, after each of the rounds.
Octets(s) ==
  LET r[n \in 0..4] == IF n = 0 THEN [ok |-> TRUE, pos |-> 1, arr |-> <<>>] ELSE Octet(s, r[n - 1])
  IN r

\* Mutant: what follows the fourth octet is not looked at.
ParseIPPrefix(text) ==
  LET r == Octets(Append(text, Dot))[4]
  IN IF r.ok THEN r.arr ELSE Refused

ParseIP(text) ==
  LET r == Octets(Append(text, Dot))[4]
  IN IF r.ok /\ r.pos = Len(text) + 2 THEN r.arr ELSE Refused

-----------------------------------------------------------------------------
(* parsePort: an int takes up the digits, and past IntMax it is anything.  *)

Grow(num, d) == IF num > (IntMax - d) \div 10 THEN IntMax + 1 ELSE num * 10 + d

Grown(text) ==
  LET num[n \in 0..Len(text)] == IF n = 0 THEN 0 ELSE Grow(num[n - 1], text[n]) IN num

ParsePort(text) ==
  LET num == Grown(text)[Len(text)]
  IN IF \E k \in 1..Len(text) : text[k] \notin Digit THEN {Refused}
     ELSE IF num > IntMax THEN {Refused} \cup AnyPort
     ELSE IF num > 65535 THEN {Refused} ELSE {num}

-----------------------------------------------------------------------------
(* Reference definitions. *)

\* Four fields between three dots, each of at most three digits and a byte.
Cuts(text) == { k \in 1..Len(text) : text[k] = Dot }
Field(text, i) ==
  LET ends == Cuts(text) \cup {0, Len(text) + 1}
      End(n) == CHOOSE k \in ends : Cardinality({ j \in ends : j < k }) = n
  IN SubSeq(text, End(i - 1) + 1, End(i) - 1)

Quad(text) ==
  /\ Cardinality(Cuts(text)) = 3
  /\ \A i \in 1..4 : /\ Len(Field(text, i)) <= 3
                     /\ \A k \in 1..Len(Field(text, i)) : Field(text, i)[k] \in Digit
                     /\ Number(Field(text, i)) < 256

QuadValue(text) == [i \in 1..4 |-> Number(Field(text, i))]
=============================================================================

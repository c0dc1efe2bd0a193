-------------------------------- MODULE Words --------------------------------
(***************************************************************************)
(* Machine words as the sets of the positions of their bits that are set,  *)
(* 0 being the least significant.  The and, or and and-not of C are then   *)
(* intersection, union and difference.  Every operator whose result        *)
(* depends on the width takes it as its first argument.                    *)
(***************************************************************************)
EXTENDS Integers, FiniteSets, Sequences, SequencesExt

XorBits(a, b) == {i \in a \union b : ~(i \in a /\ i \in b)}
Odd(S) == Cardinality(S) % 2 = 1
XorAll(s) ==
  LET words == s \o <<>>       \* which TLC evaluates once
  IN  {i \in UNION Range(words) : Odd({k \in DOMAIN words : i \in words[k]})}
Not(width, a) == (0..width - 1) \ a

RotateLeft(width, a, n) == {(i + n) % width : i \in a}
RotateRight(width, a, n) == {(i - n) % width : i \in a}

(* A carry comes into bit i from a bit j that both words have set, through *)
(* bits that one of them has set.                                          *)
Plus(width, a, b) ==
  LET either == XorBits(a, b)
      both   == a \intersect b
      CarriesInto(i) == \E j \in both : j < i /\ (j + 1)..(i - 1) \subseteq either
  IN  {i \in 0..width - 1 : ~(i \in either <=> CarriesInto(i))}

(* The bits of a number below 2^31, and of words that are concatenated, *)
(* the most significant one first.                                      *)
Bits(n) == {i \in 0..30 : (n \div 2^i) % 2 = 1}
Concat(width, words) ==
  UNION {{i + width * (Len(words) - k) : i \in words[k]} : k \in DOMAIN words}

(* A word given by its groups of four hexadecimal digits. *)
Hex(groups) == Concat(16, [k \in DOMAIN groups |-> Bits(groups[k])])
=============================================================================

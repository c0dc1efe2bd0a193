--------------------------- MODULE MCCryptonight ---------------------------
(* Words of 6 bits, a scratchpad of four lines. *)
EXTENDS Cryptonight

MCSub == [x \in Dwords |-> (5 * x + 3) % Half]
MCRot == [x \in Dwords |-> ((2 * x) % Half) + (2 * x) \div Half]

(* Not linear in either operation, so that no two blocks that are mixed up *)
(* give the same result by accident.                                       *)
MCScramble(x) == <<(x[2] + (6 * x[2] + 2 * x[1] * x[1] + 11)) % Modulus, (x[2] + (4 * x[1] * x[2] + 5 * x[1] + 3)) % Modulus>>

MCkeccakf(h) == [w \in 0..24 |-> (h[(w + 8) % 25] + 3 * h[(7 * w + 1) % 25]) % Modulus]

MCMemories == {[j \in Pad |-> <<junk, junk>>] : junk \in {0, Modulus - 1}}

MCHashStates ==
  {[w \in 0..24 |-> (a * w * w + b * w + a * b) % Modulus] : a \in {1, 13, 22}, b \in {0, 7, 45}}
=============================================================================

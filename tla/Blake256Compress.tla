-------------------------- MODULE Blake256Compress --------------------------
(***************************************************************************)
(* blake256_compress of c_blake256.c, a round at a time, and what BLAKE    *)
(* says a round is.  m is the block as 16 words, S the context.            *)
(***************************************************************************)
EXTENDS Words

Add32(a, b) == Plus(32, a, b)
ROT(x, n) == RotateRight(32, x, n)

sigma ==
  << <<0, 1, 2, 3, 4, 5, 6, 7, 8, 9, 10, 11, 12, 13, 14, 15>>,
     <<14, 10, 4, 8, 9, 15, 13, 6, 1, 12, 0, 2, 11, 7, 5, 3>>,
     <<11, 8, 12, 0, 5, 2, 15, 13, 10, 14, 3, 6, 7, 1, 9, 4>>,
     <<7, 9, 3, 1, 13, 12, 11, 14, 2, 6, 5, 10, 4, 0, 15, 8>>,
     <<9, 0, 5, 7, 2, 4, 10, 15, 14, 1, 11, 12, 6, 8, 3, 13>>,
     <<2, 12, 6, 10, 0, 11, 8, 3, 4, 13, 7, 5, 15, 14, 1, 9>>,
     <<12, 5, 1, 15, 14, 13, 4, 10, 0, 7, 6, 3, 9, 2, 8, 11>>,
     <<13, 11, 7, 14, 12, 1, 3, 9, 5, 0, 15, 4, 8, 6, 2, 10>>,
     <<6, 15, 14, 9, 11, 3, 0, 8, 12, 2, 13, 7, 1, 4, 10, 5>>,
     <<10, 2, 8, 4, 7, 6, 1, 5, 15, 11, 9, 14, 3, 12, 13, 0>>,
     <<0, 1, 2, 3, 4, 5, 6, 7, 8, 9, 10, 11, 12, 13, 14, 15>>,
     <<14, 10, 4, 8, 9, 15, 13, 6, 1, 12, 0, 2, 11, 7, 5, 3>>,
     <<11, 8, 12, 0, 5, 2, 15, 13, 10, 14, 3, 6, 7, 1, 9, 4>>,
     <<7, 9, 3, 1, 13, 12, 11, 14, 2, 6, 5, 10, 4, 0, 15, 8>> >>

cst ==
  << Hex(<<\h243f, \h6a88>>), Hex(<<\h85a3, \h8d3>>), Hex(<<\h1319, \h8a2e>>), Hex(<<\h370, \h7344>>),
     Hex(<<\ha409, \h3822>>), Hex(<<\h299f, \h31d0>>), Hex(<<\h82e, \hfa98>>), Hex(<<\hec4e, \h6c89>>),
     Hex(<<\h4528, \h21e6>>), Hex(<<\h38d0, \h1377>>), Hex(<<\hbe54, \h66cf>>), Hex(<<\h34e9, \hc6c>>),
     Hex(<<\hc0ac, \h29b7>>), Hex(<<\hc97c, \h50dd>>), Hex(<<\h3f84, \hd5b5>>), Hex(<<\hb547, \h917>>) >>

(* Mutant: the second half of G takes the first word of the message again. *)
G_Repeats(v, m, i, a, b, c, d, e) ==
  LET w(p, q) == XorBits(m[sigma[i + 1][p + 1]], cst[sigma[i + 1][q + 1] + 1])
      a1 == Add32(v[a], Add32(w(e, e + 1), v[b]))
      d1 == ROT(XorBits(v[d], a1), 16)
      c1 == Add32(v[c], d1)
      b1 == ROT(XorBits(v[b], c1), 12)
      a2 == Add32(a1, Add32(w(e, e), b1))
      d2 == ROT(XorBits(d1, a2), 8)
      c2 == Add32(c1, d2)
  IN  [v EXCEPT ![a] = a2, ![b] = ROT(XorBits(b1, c2), 7), ![c] = c2, ![d] = d2]

G(v, m, i, a, b, c, d, e) ==
  LET w(p, q) == XorBits(m[sigma[i + 1][p + 1]], cst[sigma[i + 1][q + 1] + 1])
      a1 == Add32(v[a], Add32(w(e, e + 1), v[b]))
      d1 == ROT(XorBits(v[d], a1), 16)
      c1 == Add32(v[c], d1)
      b1 == ROT(XorBits(v[b], c1), 12)
      a2 == Add32(a1, Add32(w(e + 1, e), b1))
      d2 == ROT(XorBits(d1, a2), 8)
      c2 == Add32(c1, d2)
  IN  [v EXCEPT ![a] = a2, ![b] = ROT(XorBits(b1, c2), 7), ![c] = c2, ![d] = d2]

(* A null counter is left out: the last block has no bit of the message. *)
BlakeEnter(S) ==
  [i \in 0..15 |-> CASE i < 8  -> S.h[i]
                     [] i \in 8..11 -> XorBits(S.s[i - 8], cst[i - 7])
                     [] i > 11 /\ S.nullt -> cst[i - 7]
                     [] OTHER  -> XorBits(cst[i - 7], S.t[(i - 12) \div 2])]

(* The words that each G of a round takes, and its place in the permutation. *)
GWords ==
  << <<0, 4, 8, 12, 0>>, <<1, 5, 9, 13, 2>>, <<2, 6, 10, 14, 4>>, <<3, 7, 11, 15, 6>>,
     <<3, 4, 9, 14, 14>>, <<2, 7, 8, 13, 12>>, <<0, 5, 10, 15, 8>>, <<1, 6, 11, 12, 10>> >>

BlakeRound(v, m, i) ==
  LET Apply(u, k) == G(u, m, i, GWords[k][1], GWords[k][2], GWords[k][3], GWords[k][4], GWords[k][5])
  IN  FoldLeft(Apply, v, [k \in 1..8 |-> k])

(* Every word of v into a word of h, then the salt. *)
Into(h, v, i) == [h EXCEPT ![i % 8] = XorBits(@, v[i])]
AllInto(h, v) == LET Next(u, k) == Into(u, v, k - 1) IN FoldLeft(Next, h, [k \in 1..16 |-> k])
BlakeLeave(S, v) == [i \in 0..7 |-> XorBits(AllInto(S.h, v)[i], S.s[i % 4])]
-----------------------------------------------------------------------------
(***************************************************************************)
(* The definition: G on each column of a 4 by 4 matrix, then on each of    *)
(* its diagonals.  After ten rounds the permutations begin again.          *)
(***************************************************************************)
Mixing(m, p, x, a, b, c, d) ==     \* permutation p, words 2x and 2x + 1 of it
  LET j  == p[2 * x + 1]
      k  == p[2 * x + 2]
      Turn(word, n) == {(i + 32 - n) % 32 : i \in word}
      a1 == Add32(Add32(a, b), XorBits(m[j], cst[k + 1]))
      d1 == Turn(XorBits(d, a1), 16)
      c1 == Add32(c, d1)
      b1 == Turn(XorBits(b, c1), 12)
      a2 == Add32(Add32(a1, b1), XorBits(m[k], cst[j + 1]))
      d2 == Turn(XorBits(d1, a2), 8)
      c2 == Add32(c1, d2)
  IN  <<a2, Turn(XorBits(b1, c2), 7), c2, d2>>

(* The matrix as its rows; slanted, row i is moved i places to the left. *)
Slanted(v, by) == [n \in 0..15 |-> v[4 * (n \div 4) + (((n % 4) + by * (n \div 4)) % 4)]]

BlakeRoundDefined(v, m, r) ==
  LET Step(u, first) ==
        LET g == [x \in 0..3 |-> Mixing(m, sigma[(r % 10) + 1], first + x, u[x], u[4 + x], u[8 + x], u[12 + x])]
        IN  [n \in 0..15 |-> g[n % 4][(n \div 4) + 1]]
  IN  Slanted(Step(Slanted(Step(v, 0), 1), 4), 3)

BlakeOutput(S, v) == [i \in 0..7 |-> XorAll(<<S.h[i], S.s[i % 4], v[i], v[i + 8]>>)]
=============================================================================

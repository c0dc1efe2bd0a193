----------------------------- MODULE Groestl512 -----------------------------
(***************************************************************************)
(* F512 and OutputTransformation of c_groestl.c, a round of P or Q at a    *)
(* time, and what Groestl says a round is.  A state is its 64 bytes in the *)
(* order of memory; word 2j of the code is the upper half of column j and  *)
(* word 2j + 1 the lower.                                                  *)
(***************************************************************************)
EXTENDS ByteField

(* A column of the table, whose two words T holds, for a byte: multiples of *)
(* the byte that the S-box gives.                                           *)
T(b) ==
  LET p1 == saes_sbox(b)
      p2 == saes_f2(p1)
      p3 == saes_f3(p1)
      p4 == saes_f2(p2)
      p5 == XorBits(p4, p1)
  IN  <<p2, XorBits(p5, p2), p5, p3, p5, p4, p3, p2>>
Columns_of_T == [n \in 1..256 |-> T(Bits(n - 1))] \o <<>>

(* Mutant: v2 takes the bytes of v1 after that has changed. *)
ROTATE_COLUMN_DOWN_Unsaved(column, amount) ==
  LET v1 == SubSeq(column, 9 - amount, 8) \o SubSeq(column, 1, 4 - amount)
  IN  v1 \o SubSeq(v1, 5 - amount, 4) \o SubSeq(column, 5, 8 - amount)

(* The last bytes of v1 go to the front of v2, and the other way round. *)
ROTATE_COLUMN_DOWN(column, amount) ==
  LET v1 == SubSeq(column, 9 - amount, 8) \o SubSeq(column, 1, 4 - amount)
  IN  v1 \o SubSeq(column, 5 - amount, 4) \o SubSeq(column, 5, 8 - amount)

(* The words from which column 0 takes its bytes, in P and in Q; column j *)
(* takes them from words that are 2j further.                             *)
FromP == <<0, 2, 4, 6, 9, 11, 13, 15>>
FromQ == <<2, 6, 10, 14, 1, 5, 9, 13>>

COLUMN(looked, j, from) ==
  LET Part(i) == ROTATE_COLUMN_DOWN(looked[4 * ((from[i] + 2 * j) % 16) + ((i - 1) % 4) + 1], (i - 1) % 4)
      parts   == [i \in 1..8 |-> IF i <= 4 THEN Part(i) ELSE SubSeq(Part(i), 5, 8) \o SubSeq(Part(i), 1, 4)] \o <<>>
  IN  [k \in 1..8 |-> XorAll([i \in 1..8 |-> parts[i][k]])] \o <<>>

AllColumns(x, from) ==
  LET looked == [n \in 1..64 |-> Columns_of_T[Number(x[n - 1]) + 1]] \o <<>>
      column == [j \in 1..8 |-> COLUMN(looked, j - 1, from)] \o <<>>
  IN  [n \in 0..63 |-> column[(n \div 8) + 1][(n % 8) + 1]]

RND512P(x, r) ==
  AllColumns([n \in 0..63 |-> IF n % 8 = 0 THEN XorAll(<<x[n], Bits(16 * (n \div 8)), Bits(r)>>) ELSE x[n]], FromP)

RND512Q(x, r) ==
  LET flipped == [n \in 0..63 |-> Not(8, x[n])]
  IN  AllColumns([n \in 0..63 |-> IF n % 8 = 7 THEN XorAll(<<flipped[n], Bits(16 * (n \div 8)), Bits(r)>>)
                                          ELSE flipped[n]], FromQ)

(* F512 computes Q(m), then P(h + m), then the sum; s counts the rounds.  *)
(* OutputTransformation begins with P of h at round 10.                   *)
F512Start(h, m) == [Q |-> m, P |-> [n \in 0..63 |-> XorBits(h[n], m[n])]]
OutputStart(h) == [Q |-> [n \in 0..63 |-> {}], P |-> h]
GroestlRound(c, s) ==
  IF s < 10 THEN [c EXCEPT !.Q = RND512Q(@, s)] ELSE [c EXCEPT !.P = RND512P(@, s - 10)]
F512End(c, h) == [n \in 0..63 |-> XorAll(<<h[n], c.P[n], c.Q[n]>>)]
-----------------------------------------------------------------------------
(***************************************************************************)
(* The definition: AddRoundConstant, SubBytes, ShiftBytes and MixBytes on  *)
(* a matrix of eight rows.                                                 *)
(***************************************************************************)
Shift(q) == IF q THEN <<1, 3, 5, 7, 0, 2, 4, 6>> ELSE <<0, 1, 2, 3, 4, 5, 6, 7>>
Circulant == <<2, 2, 3, 4, 5, 3, 5, 7>>
Multiples == {2, 3, 4, 5, 7}
Products == [k \in Multiples |-> [n \in 1..256 |-> Times(Bits(n - 1), Bits(k))] \o <<>>]

(* The first column of the matrix is the one of the table. *)
ASSUME ColumnOfMultiples ==
  \A b \in SUBSET (0..7), row \in 0..7 :
    T(b)[row + 1] = Times(SubByte(b), Bits(Circulant[((0 - row) % 8) + 1]))

RoundConstant(q, row, col, r) ==
  CASE ~q /\ row = 0 -> XorBits(Bits(16 * col), Bits(r))
    [] ~q /\ row # 0 -> {}
    [] q /\ row = 7  -> XorBits(Not(8, Bits(16 * col)), Bits(r))
    [] OTHER         -> 0..7

GroestlRoundDefined(A, q, r) ==
  LET Sub(row, col)   == SubBytes[Number(XorBits(A[8 * col + row], RoundConstant(q, row, col, r))) + 1]
      shifted == [n \in 1..64 |-> Number(Sub((n - 1) % 8, (((n - 1) \div 8) + Shift(q)[((n - 1) % 8) + 1]) % 8))] \o <<>>
      Term(row, col, k) == Products[Circulant[((k - row) % 8) + 1]][shifted[8 * col + k + 1] + 1]
  IN  [n \in 0..63 |-> XorAll([k \in 1..8 |-> Term(n % 8, n \div 8, k - 1)])]
=============================================================================

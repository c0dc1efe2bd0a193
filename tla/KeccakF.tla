------------------------------- MODULE KeccakF -------------------------------
(***************************************************************************)
(* keccakf of c_keccak.c, a round at a time, on the 25 lanes of its state, *)
(* and what FIPS 202 says a round is.                                      *)
(***************************************************************************)
EXTENDS Words

KECCAK_ROUNDS == 24
ROTL64(a, n) == RotateLeft(64, a, n)

keccakf_rndc ==
  << Hex(<<0, 0, 0, 1>>), Hex(<<0, 0, 0, \h8082>>), Hex(<<\h8000, 0, 0, \h808a>>),
     Hex(<<\h8000, 0, \h8000, \h8000>>), Hex(<<0, 0, 0, \h808b>>), Hex(<<0, 0, \h8000, 1>>),
     Hex(<<\h8000, 0, \h8000, \h8081>>), Hex(<<\h8000, 0, 0, \h8009>>), Hex(<<0, 0, 0, \h8a>>),
     Hex(<<0, 0, 0, \h88>>), Hex(<<0, 0, \h8000, \h8009>>), Hex(<<0, 0, \h8000, \ha>>),
     Hex(<<0, 0, \h8000, \h808b>>), Hex(<<\h8000, 0, 0, \h8b>>), Hex(<<\h8000, 0, 0, \h8089>>),
     Hex(<<\h8000, 0, 0, \h8003>>), Hex(<<\h8000, 0, 0, \h8002>>), Hex(<<\h8000, 0, 0, \h80>>),
     Hex(<<0, 0, 0, \h800a>>), Hex(<<\h8000, 0, \h8000, \ha>>), Hex(<<\h8000, 0, \h8000, \h8081>>),
     Hex(<<\h8000, 0, 0, \h8080>>), Hex(<<0, 0, \h8000, 1>>), Hex(<<\h8000, 0, \h8000, \h8008>>) >>

Theta(st) ==
  LET bc   == [i \in 0..4 |-> XorAll([k \in 1..5 |-> st[i + 5 * (k - 1)]])]
      t(i) == XorBits(bc[(i + 4) % 5], ROTL64(bc[(i + 1) % 5], 1))
  IN  [n \in 0..24 |-> XorBits(st[n], t(n % 5))]

(* The lanes in the order in which they are overwritten, each with the next *)
(* one rotated; the last one gets lane 1, which was saved.                  *)
Path == <<1, 6, 9, 22, 14, 20, 2, 12, 13, 19, 23, 15, 4, 24, 21, 8, 16, 5, 3, 18, 17, 11, 7, 10>>
Offsets == <<44, 20, 61, 39, 18, 62, 43, 25, 8, 56, 41, 27, 14, 2, 55, 45, 36, 28, 21, 15, 10, 6, 3>>

Move(s, k) == [s EXCEPT ![Path[k]] = ROTL64(s[Path[k + 1]], Offsets[k])]
Moved(st) == FoldLeft(Move, st, [k \in 1..23 |-> k])
RhoPi(st) == [Moved(st) EXCEPT ![10] = ROTL64(st[1], 1)]

(* Mutant: the first two lanes of a row are not saved. *)
ChiRow_Unsaved(st, j) ==
  LET Mix(s, i, a, b) == [s EXCEPT ![i] = XorBits(@, b \ a)]
      s1 == Mix(st, j, st[j + 1], st[j + 2])
      s2 == Mix(s1, j + 1, s1[j + 2], s1[j + 3])
      s3 == Mix(s2, j + 2, s2[j + 3], s2[j + 4])
      s4 == Mix(s3, j + 3, s3[j + 4], s3[j])
  IN  Mix(s4, j + 4, s4[j], s4[j + 1])

(* Row j in place: lane by lane, the first two as they were before.  (The   *)
(* code saves all five lanes of the last row and so does the same.)         *)
ChiRow(st, j) ==
  LET bc == <<st[j], st[j + 1]>>
      Mix(s, i, a, b) == [s EXCEPT ![i] = XorBits(@, b \ a)]
      s1 == Mix(st, j, st[j + 1], st[j + 2])
      s2 == Mix(s1, j + 1, s1[j + 2], s1[j + 3])
      s3 == Mix(s2, j + 2, s2[j + 3], s2[j + 4])
      s4 == Mix(s3, j + 3, s3[j + 4], bc[1])
  IN  Mix(s4, j + 4, bc[1], bc[2])

Chi(st) == LET Next(s, k) == ChiRow(s, 5 * (k - 1)) IN FoldLeft(Next, st, [k \in 1..5 |-> k])

Iota(st, round) == [st EXCEPT ![0] = XorBits(@, keccakf_rndc[round + 1])]

KeccakRound(st, round) == Iota(Chi(RhoPi(Theta(st))), round)
-----------------------------------------------------------------------------
(***************************************************************************)
(* FIPS 202: the lane in column x and row y is lane x + 5y.  The offsets   *)
(* of the lanes are triangular numbers along a walk through the plane, and *)
(* the round constants are the output of a shift register.                 *)
(***************************************************************************)
Walk[t \in 0..23] ==
  IF t = 0 THEN <<1, 0>> ELSE LET p == Walk[t - 1] IN <<p[2], (2 * p[1] + 3 * p[2]) % 5>>

OffsetOf(x, y) ==
  IF x = 0 /\ y = 0 THEN 0
  ELSE LET t == CHOOSE t \in 0..23 : Walk[t] = <<x, y>> IN ((t + 1) * (t + 2)) \div 2

NextRegister(r) ==
  LET s == {i + 1 : i \in r} IN IF 8 \in s THEN XorBits(s \ {8}, {0, 4, 5, 6}) ELSE s

(* The seven states of the register in each round. *)
Register[round \in 0..23] ==
  LET r0 == IF round = 0 THEN {0} ELSE NextRegister(Register[round - 1][7])
      r1 == NextRegister(r0)
      r2 == NextRegister(r1)
      r3 == NextRegister(r2)
      r4 == NextRegister(r3)
      r5 == NextRegister(r4)
  IN  <<r0, r1, r2, r3, r4, r5, NextRegister(r5)>>

RC(round) == {2^j - 1 : j \in {j \in 0..6 : 0 \in Register[round][j + 1]}}

(* The table of the code is what the register puts out: a fact about none  *)
(* of the constants of a model, which TLC evaluates.                       *)
ASSUME RoundConstants == \A round \in 0..KECCAK_ROUNDS - 1 : keccakf_rndc[round + 1] = RC(round)

FipsRound(A, round) ==
  LET C(x)    == XorAll([y \in 1..5 |-> A[x + 5 * (y - 1)]])
      D       == [x \in 0..4 |-> XorBits(C((x + 4) % 5), RotateLeft(64, C((x + 1) % 5), 1))]
      B       == [n \in 0..24 |->     \* rho and pi: lane (y, 2x + 3y) comes from (x, y)
                    LET y == n % 5
                        x == (3 * (n \div 5 + 2 * y)) % 5
                    IN  RotateLeft(64, XorBits(A[x + 5 * y], D[x]), OffsetOf(x, y))]
      Row(x, y) == B[(x % 5) + 5 * y]
      E       == [n \in 0..24 |->
                    LET x == n % 5  y == n \div 5
                    IN  XorBits(Row(x, y), Row(x + 2, y) \ Row(x + 1, y))]
  IN  [E EXCEPT ![0] = XorBits(@, RC(round))]
=============================================================================

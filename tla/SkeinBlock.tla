----------------------------- MODULE SkeinBlock -----------------------------
(***************************************************************************)
(* Skein_512_Process_Block and Skein1024_Process_Block of c_skein.c on one *)
(* block, four rounds and a key injection at a time, and what Skein says   *)
(* they are: the Threefish cipher and the block it enciphered.  The code   *)
(* leaves the words where they are and takes them in another order in each *)
(* round, where Threefish permutes them; after four rounds all are back.   *)
(***************************************************************************)
EXTENDS Words

Add(a, b) == Plus(64, a, b)
Word(n) == 0..n - 1     \* the indices of the words of a state of n words

(* The words of a round in the order in which they are mixed. *)
Order(n) ==
  IF n = 8 THEN << <<0, 1, 2, 3, 4, 5, 6, 7>>, <<2, 1, 4, 7, 6, 5, 0, 3>>,
                   <<4, 1, 6, 3, 0, 5, 2, 7>>, <<6, 1, 0, 7, 2, 5, 4, 3>> >>
  ELSE << <<0, 1, 2, 3, 4, 5, 6, 7, 8, 9, 10, 11, 12, 13, 14, 15>>,
          <<0, 9, 2, 13, 6, 11, 4, 15, 10, 7, 12, 3, 14, 5, 8, 1>>,
          <<0, 7, 2, 5, 4, 3, 6, 1, 12, 15, 14, 13, 8, 11, 10, 9>>,
          <<0, 15, 2, 11, 6, 13, 4, 9, 14, 1, 8, 5, 10, 3, 12, 7>> >>

R_512 ==
  << <<46, 36, 19, 37>>, <<33, 27, 14, 42>>, <<17, 49, 36, 39>>, <<44, 9, 54, 56>>,
     <<39, 30, 34, 24>>, <<13, 50, 10, 17>>, <<25, 29, 39, 43>>, <<8, 35, 56, 22>> >>
R1024 ==
  << <<24, 13, 8, 47, 8, 17, 22, 37>>, <<38, 19, 10, 55, 49, 18, 23, 52>>,
     <<33, 4, 51, 13, 34, 41, 59, 17>>, <<5, 20, 48, 41, 47, 28, 16, 25>>,
     <<41, 9, 37, 31, 12, 47, 44, 30>>, <<16, 34, 56, 51, 4, 53, 42, 41>>,
     <<31, 44, 47, 46, 19, 42, 44, 25>>, <<9, 48, 35, 52, 23, 31, 37, 20>> >>
Rotations(n) == IF n = 8 THEN R_512 ELSE R1024

SKEIN_512_IV_256 ==
  << Hex(<<\hccd0, \h44a1, \h2fdb, \h3e13>>), Hex(<<\he835, \h9030, \h1a79, \ha9eb>>),
     Hex(<<\h55ae, \ha061, \h4f81, \h6e6f>>), Hex(<<\h2a27, \h67a4, \hae9b, \h94db>>),
     Hex(<<\hec06, \h25e, \h74dd, \h7683>>), Hex(<<\he7a4, \h36cd, \hc474, \h6251>>),
     Hex(<<\hc36f, \hbaf9, \h393a, \hd185>>), Hex(<<\h3eed, \hba18, \h33ed, \hfc13>>) >>

SKEIN_KS_PARITY == Hex(<<\h1BD1, \h1BDA, \hA9FC, \h1A22>>)
SKEIN_SCHEMA_VER == Hex(<<0, 1, \h3341, \h4853>>)
SKEIN_T1_FLAG_FIRST == {62}
SKEIN_T1_FLAG_FINAL == {63}
SKEIN_T1_BLK_TYPE_CFG == {58}       \* 4 in bits 56 to 61
SKEIN_T1_BLK_TYPE_MSG == {60, 61}   \* 48

(* Mutant: the configuration is not marked as a last block. *)
ConfigTweak_NotFinal == <<Bits(32), SKEIN_T1_FLAG_FIRST \union SKEIN_T1_BLK_TYPE_CFG>>

(* The block from which Skein_512_Init computes a chaining value that is *)
(* not precomputed, and its tweak: CFG_FINAL and SKEIN_CFG_STR_LEN.      *)
ConfigTweak == <<Bits(32), SKEIN_T1_FLAG_FIRST \union SKEIN_T1_FLAG_FINAL \union SKEIN_T1_BLK_TYPE_CFG>>
ConfigBlock(hashBitLen) ==
  [i \in Word(8) |-> CASE i = 0 -> SKEIN_SCHEMA_VER [] i = 1 -> Bits(hashBitLen) [] OTHER -> {}]

ks(n, X) == [i \in 0..n |-> IF i < n THEN X[i]
                            ELSE XorBits(XorAll([k \in 1..n |-> X[k - 1]]), SKEIN_KS_PARITY)]
ts(T) == <<T[1], T[2], XorBits(T[1], T[2])>>

(* Mutant: the words of the tweak are injected one place too early. *)
Inject_Early(n, X, key, tweak, s) ==
  [i \in Word(n) |-> Add(Add(X[i], key[(s + i) % (n + 1)]),
                      CASE i = n - 4 -> tweak[(s % 3) + 1]
                        [] i = n - 3 -> tweak[((s + 1) % 3) + 1]
                        [] i = n - 1 -> Bits(s)
                        [] OTHER     -> {})]

(* I512 and I1024 with R + 1 = s. *)
Inject(n, X, key, tweak, s) ==
  [i \in Word(n) |-> Add(Add(X[i], key[(s + i) % (n + 1)]),
                      CASE i = n - 3 -> tweak[(s % 3) + 1]
                        [] i = n - 2 -> tweak[((s + 1) % 3) + 1]
                        [] i = n - 1 -> Bits(s)
                        [] OTHER     -> {})]

FirstInject(n, w, key, tweak) == Inject(n, w, key, tweak, 0)

(* Round512 and Round1024 with the words in the order p. *)
MixPair(Y, a, b, r) ==
  LET sum == Add(Y[a], Y[b]) IN [Y EXCEPT ![a] = sum, ![b] = XorBits(RotateLeft(64, @, r), sum)]
Round(n, X, p, rot) ==
  LET Mix(Y, k) == MixPair(Y, p[2 * k - 1], p[2 * k], rot[k])
  IN  FoldLeft(Mix, X, [k \in 1..n \div 2 |-> k])

FourRounds(n, X, s) ==
  LET Next(Y, j) == Round(n, Y, Order(n)[j], Rotations(n)[j + 4 * (s % 2)])
  IN  FoldLeft(Next, X, [j \in 1..4 |-> j])

(* Four rounds and the injection that follows them, for s = 0, 1, ... *)
ProcessRounds(n, X, key, tweak, s) == Inject(n, FourRounds(n, X, s), key, tweak, s + 1)

FeedForward(n, X, w) == [i \in Word(n) |-> XorBits(X[i], w[i])]
-----------------------------------------------------------------------------
(***************************************************************************)
(* The definition: MIX on neighbouring words, then a permutation of them,  *)
(* and after four such rounds the next subkey is added.                    *)
(***************************************************************************)
Permutation(n) ==
  IF n = 8 THEN <<2, 1, 4, 7, 6, 5, 0, 3>>
           ELSE <<0, 9, 2, 13, 6, 11, 4, 15, 10, 7, 12, 3, 14, 5, 8, 1>>

ThreefishRound(n, v, rot) ==
  LET Mixed(i) == LET sum == Add(v[i - (i % 2)], v[i - (i % 2) + 1])
                  IN  IF i % 2 = 0 THEN sum ELSE XorBits(RotateLeft(64, v[i], rot[(i \div 2) + 1]), sum)
  IN  [i \in Word(n) |-> Mixed(Permutation(n)[i + 1])]

Subkey(n, K, T, s) ==
  LET parity == XorAll([k \in 1..n + 1 |-> IF k <= n THEN K[k - 1] ELSE SKEIN_KS_PARITY])
      key    == [i \in 0..n |-> IF i = n THEN parity ELSE K[i]]
      tweak  == <<T[1], T[2], XorBits(T[1], T[2])>>
      Extra(i) == CASE i = n - 1 -> Bits(s)
                    [] i \in {n - 2, n - 3} -> tweak[1 + ((s + i - (n - 3)) % 3)]
                    [] OTHER -> {}
  IN  [i \in Word(n) |-> Add(key[(s + i) % (n + 1)], Extra(i))]

AddSubkey(n, v, K, T, s) ==
  LET subkey == Subkey(n, K, T, s) IN [i \in Word(n) |-> Add(v[i], subkey[i])]

FourThreefishRounds(n, v, s) ==
  LET Next(u, j) == ThreefishRound(n, u, Rotations(n)[j + 4 * (s % 2)])
  IN  FoldLeft(Next, v, [j \in 1..4 |-> j])

ThreefishRounds(n, v, K, T, s) == AddSubkey(n, FourThreefishRounds(n, v, s), K, T, s + 1)
=============================================================================

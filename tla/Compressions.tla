---------------------------- MODULE Compressions ----------------------------
(***************************************************************************)
(* The functions on whole blocks that the hashes are made of, at the width *)
(* of the code: a call of one of them, a round of it at a time.  Beside    *)
(* what the code computes runs what the function is by definition.         *)
(***************************************************************************)
EXTENDS Blake256Compress, Groestl512, JhE8, KeccakF, SkeinBlock, SoftAes

CONSTANT Given      \* the words of each input

ASSUME GivenAssumption ==
  /\ Given \in [DOMAIN Given -> [0..127 -> SUBSET (0..127)]]
  /\ "config" \notin DOMAIN Given

VARIABLES
  call,       \* the function and the input it is called with
  round,      \* the number of rounds done
  code,       \* what the code has computed
  ideal       \* what the definition has

callVars == <<call, round, code, ideal>>

Calls ==
  [function : {"aes", "blake", "groestl", "groestl_output", "jh", "keccak", "skein512", "skein1024"},
   input : DOMAIN Given]
    \union [function : {"jh", "skein512"}, input : {"config"}]

(* The words of an input, as wide as the function takes them. *)
Datum(c, width, k) == Given[c.input][k] \intersect (0..width - 1)
Data(c, width, from, n) == [i \in 0..n - 1 |-> Datum(c, width, from + i)]

IsConfig(c) == c.input = "config"

(* The parameters of a call.  The chaining value of JH that is not       *)
(* precomputed is the length of the hash, 256, and its block is zero; of *)
(* Skein it is zero and the block tells the length.  A tweak of Skein has *)
(* any position and the type of a message or, with all bits of the type, *)
(* of an output, and may mark the first or the last block.               *)
BlakeState(c) ==
  [h |-> Data(c, 32, 0, 8), s |-> Data(c, 32, 8, 4), t |-> Data(c, 32, 12, 2), nullt |-> Datum(c, 1, 33) = {}]
BlakeMessage(c) == Data(c, 32, 16, 16)
JhState(c) == IF IsConfig(c) THEN [j \in JhRows |-> IF j = 0 THEN {7} ELSE {}] ELSE Data(c, 128, 0, 8)
JhBlock(c) == IF IsConfig(c) THEN [j \in 0..3 |-> {}] ELSE Data(c, 128, 8, 4)
SkeinWords(c) == IF c.function = "skein1024" THEN 16 ELSE 8
SkeinKey(c) == IF IsConfig(c) THEN [i \in Word(8) |-> {}] ELSE Data(c, 64, 0, SkeinWords(c))
SkeinTweak(c) ==
  IF IsConfig(c) THEN ConfigTweak
  ELSE <<Datum(c, 64, 36), SKEIN_T1_BLK_TYPE_MSG \union (Datum(c, 64, 37) \intersect 56..63)>>
SkeinMessage(c) == IF IsConfig(c) THEN ConfigBlock(256) ELSE Data(c, 64, 20, SkeinWords(c))
GroestlState(c) == Data(c, 8, 0, 64)
GroestlBlock(c) == IF c.function = "groestl" THEN Data(c, 8, 64, 64) ELSE [n \in 0..63 |-> {}]
AesBytes(c, from) == [k \in 1..16 |-> Datum(c, 8, from + k)] \o <<>>

(* The elements of a state of JH and those of a block that enters or      *)
(* leaves it in the rows from first on.                                   *)
WithBlock(q, block, first) ==
  LET entering == Elements([j \in JhRows |-> IF j \in first..first + 3 THEN block[j - first] ELSE {}], 0)
  IN  [e \in 1..256 |-> Added(q[e], entering[e])] \o <<>>

Begun(c) ==
  CASE c.function = "aes" -> [x |-> AesBytes(c, 0), keys |-> <<AesBytes(c, 16), AesBytes(c, 32)>>]
    [] c.function = "blake" -> BlakeEnter(BlakeState(c))
    [] c.function = "groestl" -> F512Start(GroestlState(c), GroestlBlock(c))
    [] c.function = "groestl_output" -> OutputStart(GroestlState(c))
    [] c.function = "jh" -> F8Enter(JhState(c), JhBlock(c))
    [] c.function = "keccak" -> Data(c, 64, 0, 25)
    [] OTHER -> LET n == SkeinWords(c) IN
                FirstInject(n, SkeinMessage(c), ks(n, SkeinKey(c)), ts(SkeinTweak(c)))

BegunIdeal(c) ==
  CASE c.function = "aes" -> [x |-> AesBytes(c, 0),
                              w |-> [k \in 1..8 |-> SubSeq(AesBytes(c, 16) \o AesBytes(c, 32), 4 * k - 3, 4 * k)] \o <<>>]
    [] c.function \in {"blake", "keccak"} -> Begun(c)
    [] c.function \in {"groestl", "groestl_output"} ->
         [Q |-> GroestlBlock(c), P |-> [n \in 0..63 |-> XorBits(GroestlState(c)[n], GroestlBlock(c)[n])]]
    [] c.function = "jh" -> [q |-> WithBlock(Elements(JhState(c), 0), JhBlock(c), 0), c |-> FirstConstant]
    [] OTHER -> AddSubkey(SkeinWords(c), SkeinMessage(c), SkeinKey(c), SkeinTweak(c), 0)

CallInit ==
  /\ call \in Calls
  /\ round = IF call.function = "groestl_output" THEN 10 ELSE 0
  /\ code = Begun(call)
  /\ ideal = BegunIdeal(call)

AesRounds ==
  /\ call.function = "aes" /\ round < 5
  /\ code' = SoftAesStep(code, round)
  /\ ideal' = AesStep(ideal, round)

BlakeRounds ==
  /\ call.function = "blake" /\ round < 14
  /\ code' = BlakeRound(code, BlakeMessage(call), round)
  /\ ideal' = BlakeRoundDefined(ideal, BlakeMessage(call), round)

BlakeEnd ==
  /\ call.function = "blake" /\ round = 14
  /\ code' = BlakeLeave(BlakeState(call), code)
  /\ ideal' = BlakeOutput(BlakeState(call), ideal)

GroestlRounds ==
  /\ call.function \in {"groestl", "groestl_output"} /\ round < 20
  /\ code' = GroestlRound(code, round)
  /\ ideal' = IF round < 10 THEN [ideal EXCEPT !.Q = GroestlRoundDefined(@, TRUE, round)]
                            ELSE [ideal EXCEPT !.P = GroestlRoundDefined(@, FALSE, round - 10)]

GroestlEnd ==
  /\ call.function \in {"groestl", "groestl_output"} /\ round = 20
  /\ code' = F512End(code, GroestlState(call))
  /\ ideal' = [n \in 0..63 |-> XorBits(XorBits(ideal.P[n], ideal.Q[n]), GroestlState(call)[n])]

JhRounds ==
  /\ call.function = "jh" /\ round < 42
  /\ code' = E8Round(code, round)
  /\ ideal' = [q |-> JhRound(ideal.q, Chosen(ideal.c)), c |-> NextConstant(ideal.c)]

JhEnd ==
  /\ call.function = "jh" /\ round = 42
  /\ code' = F8Leave(code, JhBlock(call))
  /\ ideal' = [ideal EXCEPT !.q = WithBlock(@, JhBlock(call), 4)]

KeccakRounds ==
  /\ call.function = "keccak" /\ round < KECCAK_ROUNDS
  /\ code' = KeccakRound(code, round)
  /\ ideal' = FipsRound(ideal, round)

(* Four rounds in a step; 72 of Skein-512 and 80 of Skein-1024. *)
SkeinRounds ==
  LET n == SkeinWords(call) IN
  /\ call.function \in {"skein512", "skein1024"} /\ 4 * round < 64 + n
  /\ code' = ProcessRounds(n, code, ks(n, SkeinKey(call)), ts(SkeinTweak(call)), round)
  /\ ideal' = ThreefishRounds(n, ideal, SkeinKey(call), SkeinTweak(call), round)

SkeinEnd ==
  LET n == SkeinWords(call) IN
  /\ call.function \in {"skein512", "skein1024"} /\ 4 * round = 64 + n
  /\ code' = FeedForward(n, code, SkeinMessage(call))
  /\ ideal' = [i \in Word(n) |-> XorBits(SkeinMessage(call)[i], ideal[i])]

CallNext ==
  /\ \/ AesRounds \/ BlakeRounds \/ BlakeEnd \/ GroestlRounds \/ GroestlEnd
     \/ JhRounds \/ JhEnd \/ KeccakRounds \/ SkeinRounds \/ SkeinEnd
  /\ round' = round + 1
  /\ UNCHANGED call

CallSpec == CallInit /\ [][CallNext]_callVars
-----------------------------------------------------------------------------
Of(functions) == call.function \in functions

(* The tables and the key expansion that stand in for the AES              *)
(* instructions compute AES.  This is the variant with SOFT_AES, which     *)
(* drill does not instantiate (soft_aes.hpp:88-125,                        *)
(* cryptonight_aesni.h:78-126).                                            *)
AesAsDefined ==
  Of({"aes"}) => code = [x |-> ideal.x, keys |-> <<KeyOf(ideal.w, 1), KeyOf(ideal.w, 5)>>]

(* G on the words of v, one call after another and the diagonals in an     *)
(* order of their own, is a round of BLAKE on all columns and all          *)
(* diagonals; the last four permutations of sigma are the first again      *)
(* (c_blake256.c:53-98).                                                   *)
BlakeAsDefined == Of({"blake"}) => code = ideal

(* The lookups by 32-bit words, whose columns are rotated in halves that   *)
(* then change places, are SubBytes, ShiftBytes and MixBytes               *)
(* (c_groestl.c:27-160, 179-203).                                          *)
GroestlAsDefined == Of({"groestl", "groestl_output"}) => code = ideal

(* E8 leaves the elements where they are and exchanges bits of the odd     *)
(* rows: with its constants in that order it is the round of JH, whose     *)
(* elements move (c_jh.c:102-226).                                         *)
JhAsDefined == Of({"jh"}) => Elements(code, IF round < 42 THEN round ELSE 42) = ideal.q

(* Theta, rho and pi, chi in place with the lanes that are saved, and the  *)
(* table of constants are a round of FIPS 202 (c_keccak.c:29-137).         *)
KeccakAsDefined == Of({"keccak"}) => code = ideal

(* Words that stay in place and are named in another order in each round   *)
(* are the permuted words of Threefish, and the key and the tweak come     *)
(* round as its subkeys do (c_skein.c:717-908, 925-1166).                  *)
SkeinAsDefined == Of({"skein512", "skein1024"}) => code = ideal

(* The chaining values that the two Init functions copy are what the block *)
(* functions make of the configuration: JH has no code that computes them, *)
(* and this program never takes the branch of Skein that does              *)
(* (c_jh.c:43, 236-245, c_skein.c:1398-1420).                              *)
PrecomputedIVs ==
  IsConfig(call) =>
    /\ Of({"jh"}) /\ round = 43 => \A j \in JhRows : code[j] = AsColumns(JH256_H0[j + 1])
    /\ Of({"skein512"}) /\ round = 19 => \A i \in Word(8) : code[i] = SKEIN_512_IV_256[i + 1]
=============================================================================

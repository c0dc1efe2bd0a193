---------------------------- MODULE Cryptonight ----------------------------
(***************************************************************************)
(* The hash of cryptonight_aesni.h as it is computed: Cryptonight_hash<N>  *)
(* runs N hashes side by side, one step of each after the other, on        *)
(* registers and scratchpads that are overwritten in place.  The instance  *)
(* is cryptonight_monero_v8 with SOFT_AES and PREFETCH off, which is what  *)
(* hasher.cpp asks for; what the templates compute for other algorithms is *)
(* not compiled into the program.                                          *)
(*                                                                         *)
(* slowHash uses one lane.  The keccak that makes hash_state of the blob,  *)
(* the AES instructions, keccakf and the final hash functions are          *)
(* parameters.                                                             *)
(***************************************************************************)
EXTENDS SlowHash

CONSTANTS
  N,              \* the number of hashes computed side by side
  HashStates,     \* what keccak may leave in hash_state
  Memories        \* what the memory of a scratchpad may hold before

ASSUME LanesAssumption ==
  /\ N \in Nat \ {0}
  /\ HashStates \subseteq HashState
  /\ Memories \subseteq [Pad -> Block]

VARIABLES
  pc,             \* the macro or loop that is to be executed
  lane,           \* for this hash
  i,              \* the counter of the loop that is being executed
  seed,           \* hash_state after keccak (for the properties only)
  rounding,       \* the rounding mode of the thread
  cn              \* the context and the registers of each hash

vars == <<pc, lane, i, seed, rounding, cn>>

Lanes == 0..(N - 1)
None == <<>>
Zero == <<0, 0>>

Init ==
  /\ pc = "explode" /\ lane = 0 /\ i = 0
  /\ seed \in [Lanes -> HashStates]
  /\ rounding \in {"nearest", "down"}     \* of a new thread, or left by its previous hash
  /\ \E memory \in [Lanes -> Memories] :
       cn = [n \in Lanes |->
               [hash_state |-> seed[n], long_state |-> memory[n], text |-> None,
                ax0 |-> Zero, bx0 |-> Zero, bx1 |-> Zero, cx |-> Zero, idx0 |-> 0, ptr0 |-> 0,
                division_result |-> 0, sqrt_result |-> 0,
                cl |-> 0, ch |-> 0, al0 |-> 0, ah0 |-> 0, output |-> None]]

c == cn[lane]
-----------------------------------------------------------------------------
(* aes_genkey: four steps, each from one pair of keys to the next.         *)
slli(d) == <<0, d[1], d[2], d[3]>>
XorDwords(x, y) == [k \in 1..4 |-> XorWord(x[k], y[k])]
All(v) == [k \in 1..4 |-> v]

sl_xor_twice(d) == XorDwords(XorDwords(d, slli(d)), slli(slli(d)))        \* Mutant: one shift too few
sl_xor(d) == XorDwords(XorDwords(XorDwords(d, slli(d)), slli(slli(d))), slli(slli(slli(d))))

aeskeygenassist(d, rcon) ==
  <<Sub[d[2]], XorWord(Rot[Sub[d[2]]], rcon), Sub[d[4]], XorWord(Rot[Sub[d[4]]], rcon)>>

aes_genkey_sub(x, rcon) ==
  LET xout0 == XorDwords(sl_xor(x[1]), All(aeskeygenassist(x[2], rcon)[4]))
      xout2 == XorDwords(sl_xor(x[2]), All(aeskeygenassist(xout0, 0)[3]))
  IN  <<xout0, xout2>>

aes_genkey(k0, k1) ==
  LET pair[p \in 0..4] ==
        IF p = 0 THEN <<ToDwords(k0), ToDwords(k1)>> ELSE aes_genkey_sub(pair[p - 1], Rcon[p])
  IN  [k \in 1..10 |-> FromDwords(pair[(k - 1) \div 2][1 + ((k - 1) % 2)])]

(* aes_round for each key, on eight blocks.                                *)
aes_round(text, key) == [l \in 1..8 |-> aesenc(text[l], key)]
aes_rounds(text, keys) == FoldLeft(aes_round, text, keys)

(* The eight blocks that are encrypted.                                    *)
Load(h) == [l \in 1..8 |-> BlockOf(h, 3 + l)]
-----------------------------------------------------------------------------
Becomes(context) == cn' = [cn EXCEPT ![lane] = context]

(* The lanes take turns at a macro: where goes on with it, or with there.  *)
TurnTo(here, there) ==
  /\ lane' = (lane + 1) % N
  /\ pc' = IF lane + 1 < N THEN here ELSE there
  /\ UNCHANGED seed

(* cn_explode_scratchpad: one pass of its loop, and the loads before it.   *)
Explode ==
  LET text == aes_rounds(IF i = 0 THEN Load(c.hash_state) ELSE c.text,
                         aes_genkey(BlockOf(c.hash_state, 0), BlockOf(c.hash_state, 1)))
  IN  /\ pc = "explode"
      /\ Becomes([c EXCEPT !.text = text,
                           !.long_state = [j \in Pad |-> IF j \in i..(i + 7) THEN text[j - i + 1] ELSE @[j]]])
      /\ IF i + 8 < Blocks
         THEN i' = i + 8 /\ UNCHANGED pc
         ELSE i' = 0 /\ pc' = "init"
      /\ UNCHANGED <<lane, seed, rounding>>

(* The registers of CN_INIT, and set_float_rounding_mode: the mode is the  *)
(* thread's, so the first lane sets it for all.                            *)
LoadRegisters ==
  LET h == c.hash_state
  IN  /\ pc = "init"
      /\ Becomes([c EXCEPT !.text = None,
                           !.idx0 = XorWord(h[0], h[4]),
                           !.ax0 = <<XorWord(h[0], h[4]), XorWord(h[1], h[5])>>,
                           !.bx0 = <<XorWord(h[2], h[6]), XorWord(h[3], h[7])>>,
                           !.bx1 = <<XorWord(h[8], h[10]), XorWord(h[9], h[11])>>,
                           !.division_result = h[12],
                           !.sqrt_result = h[13]])
      /\ TurnTo("explode", IF Rounds = 0 THEN "implode" ELSE "step1")
      /\ UNCHANGED i
InitRegisters_KeepsMode == LoadRegisters /\ UNCHANGED rounding            \* Mutant: the mode is left as it was
InitRegisters == LoadRegisters /\ rounding' = "down"

(* CN_MONERO_V8_SHUFFLE_0 and the end of _1: the chunks are loaded before  *)
(* any of them is stored.                                                  *)
ShuffleInPlace(l0, idx1, chunk1) ==                                        \* Mutant: chunk 2 is loaded too late
  LET l1 == [l0 EXCEPT ![Near(idx1, 1)] = AddBlock(l0[Near(idx1, 3)], c.bx1)]
      l2 == [l1 EXCEPT ![Near(idx1, 2)] = AddBlock(chunk1, c.bx0)]
  IN  [l2 EXCEPT ![Near(idx1, 3)] = AddBlock(l2[Near(idx1, 2)], c.ax0)]
ShuffleSwapped(l0, idx1, chunk1) ==                                        \* Mutant: bx0 and bx1 are exchanged
  [l0 EXCEPT ![Near(idx1, 1)] = AddBlock(l0[Near(idx1, 3)], c.bx0),
             ![Near(idx1, 2)] = AddBlock(chunk1, c.bx1),
             ![Near(idx1, 3)] = AddBlock(l0[Near(idx1, 2)], c.ax0)]
Shuffle(l0, idx1, chunk1) ==
  [l0 EXCEPT ![Near(idx1, 1)] = AddBlock(l0[Near(idx1, 3)], c.bx1),
             ![Near(idx1, 2)] = AddBlock(chunk1, c.bx0),
             ![Near(idx1, 3)] = AddBlock(l0[Near(idx1, 2)], c.ax0)]

(* CN_STEP1: encrypt a block, shuffle the rest of its line.                *)
Step1 ==
  LET ptr0 == Address(c.idx0)
  IN  /\ pc = "step1"
      /\ Becomes([c EXCEPT !.ptr0 = ptr0,
                           !.cx = aesenc(c.long_state[ptr0], c.ax0),
                           !.long_state = Shuffle(@, ptr0, @[Near(ptr0, 1)])])
      /\ TurnTo("step1", "step2")
      /\ UNCHANGED <<i, rounding>>

(* CN_STEP2: store, and find the next block.                               *)
Step2 ==
  /\ pc = "step2"
  /\ Becomes([c EXCEPT !.long_state[c.ptr0] = XorBlock(c.bx0, c.cx),
                       !.idx0 = c.cx[1],
                       !.ptr0 = Address(c.cx[1])])
  /\ TurnTo("step2", "step3")
  /\ UNCHANGED <<i, rounding>>

(* CN_STEP3: divide, multiply, shuffle the rest of the line, store one     *)
(* word.  The division and the root are those of the previous round.       *)
Step3 ==
  LET here == c.long_state[c.ptr0]
      cl == XorWord(here[1], XorWord(c.division_result, (c.sqrt_result * Half) % Modulus))
      division == Divided(c.cx[2], Divisor(c.cx[1], c.sqrt_result))
      hi == (c.idx0 * cl) \div Modulus
      lo == (c.idx0 * cl) % Modulus
      chunk1 == XorBlock(c.long_state[Near(c.ptr0, 1)], <<hi, lo>>)
      chunk2 == c.long_state[Near(c.ptr0, 2)]
      al0 == Add(c.ax0[1], XorWord(hi, chunk2[1]))
      ah0 == Add(c.ax0[2], XorWord(lo, chunk2[2]))
  IN  /\ pc = "step3"
      /\ Becomes([c EXCEPT !.cl = cl, !.ch = here[2], !.al0 = al0, !.ah0 = ah0,
                           !.division_result = division,
                           !.sqrt_result = int_sqrt33_1(Add(c.cx[1], division), rounding),
                           !.bx1 = c.bx0, !.bx0 = c.cx,
                           !.long_state = [Shuffle(@, c.ptr0, chunk1) EXCEPT ![c.ptr0][1] = al0]])
      /\ TurnTo("step3", "step4")
      /\ UNCHANGED <<i, rounding>>

(* CN_STEP4: store the other word; the end of a pass through the loop.     *)
Step4 ==
  LET a == <<XorWord(c.al0, c.cl), XorWord(c.ah0, c.ch)>>
  IN  /\ pc = "step4"
      /\ Becomes([c EXCEPT !.long_state[c.ptr0][2] = c.ah0, !.ax0 = a, !.idx0 = a[1]])
      /\ TurnTo("step4", IF i + 1 < Rounds THEN "step1" ELSE "implode")
      /\ i' = IF lane + 1 < N THEN i ELSE IF i + 1 < Rounds THEN i + 1 ELSE 0
      /\ UNCHANGED rounding

(* cn_implode_scratchpad: one pass of its loop, the loads before the first *)
(* and the stores after the last.                                          *)
Implode ==
  LET before == IF i = 0 THEN Load(c.hash_state) ELSE c.text
      text == aes_rounds([l \in 1..8 |-> XorBlock(c.long_state[i + l - 1], before[l])],
                         aes_genkey(BlockOf(c.hash_state, 2), BlockOf(c.hash_state, 3)))
  IN  /\ pc = "implode"
      /\ IF i + 8 < Blocks
         THEN /\ Becomes([c EXCEPT !.text = text])
              /\ i' = i + 8 /\ UNCHANGED pc
         ELSE /\ Becomes([c EXCEPT !.text = None,
                                   !.hash_state =
                                      [w \in 0..24 |-> IF w \in 8..23 THEN text[(w \div 2) - 3][1 + (w % 2)] ELSE @[w]]])
              /\ i' = 0 /\ pc' = "finalize"
      /\ UNCHANGED <<lane, seed, rounding>>

(* The rest of CN_FINALIZE.                                                *)
Finalize ==
  LET h == keccakf(c.hash_state)
  IN  /\ pc = "finalize"
      /\ Becomes([c EXCEPT !.hash_state = h, !.output = <<extra_hashes[1 + (h[0] % 4)], h>>])
      /\ TurnTo("implode", "done")
      /\ UNCHANGED <<i, rounding>>

Next ==
  \/ Explode \/ InitRegisters
  \/ Step1 \/ Step2 \/ Step3 \/ Step4
  \/ Implode \/ Finalize

Spec == Init /\ [][Next]_vars
-----------------------------------------------------------------------------
(* At the head of the main loop the registers and the scratchpad of each   *)
(* lane are what so many rounds of the definition make of its Keccak       *)
(* state: no chunk, addend or register is used before it should be or      *)
(* after (CN_INIT, CN_STEP1 to CN_STEP4).                                  *)
MixesAsDefined ==
  pc = "step1" /\ lane = 0 =>
    \A n \in Lanes : Mixed(seed[n], i) =
      [pad |-> cn[n].long_state, a |-> cn[n].ax0, b0 |-> cn[n].bx0, b1 |-> cn[n].bx1,
       division |-> cn[n].division_result, root |-> cn[n].sqrt_result]

(* The hash of each lane is that of its own Keccak state, whatever was in  *)
(* the memory of the scratchpad (Cryptonight_hash).                        *)
HashesAsDefined ==
  pc = "done" => \A n \in Lanes : IsSlowHash(cn[n].output, seed[n])

(* The root of a round is exact, although it comes from doubles that hold  *)
(* only some bits of the word, and at most one too large for the largest   *)
(* words, whatever rounding mode the thread was in before                  *)
(* (int_sqrt33_1_double_precision, set_float_rounding_mode).               *)
RootIsExact ==
  pc = "step4" =>
    LET n == Add(c.cx[1], c.division_result)
    IN  /\ n + 2 * Half <= Modulus => IsExact(c.sqrt_result, n)
        /\ IsExact(c.sqrt_result, n) \/ IsExact(c.sqrt_result - 1, n)

(* CN_MONERO_V8_DIV loses at most one bit of the quotient to the remainder *)
(* it is packed with, as the comment there says.                           *)
DivisionFits ==
  pc = "step3" =>
    LET d == Divisor(c.cx[1], c.sqrt_result)
    IN  /\ c.cx[2] \div d <= 2 * Half - 4
        /\ Divided(c.cx[2], d) \div Half = c.cx[2] % d
=============================================================================

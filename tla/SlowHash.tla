----------------------------- MODULE SlowHash -----------------------------
(***************************************************************************)
(* What a CryptoNight hash of the kind cryptonight_monero_v8 is, from the  *)
(* state Keccak leaves to the final hash: functions of that state, without *)
(* registers, unrolled loops or an order of loads and stores.  The module  *)
(* Cryptonight is the code.                                                *)
(*                                                                         *)
(* Words are small (see IntMath); a block is two words, of 16 bytes in the *)
(* code, and four blocks are a line.                                       *)
(***************************************************************************)
EXTENDS IntMath, Sequences, SequencesExt

CONSTANTS
  Blocks,         \* the blocks of a scratchpad
  BlockBytes,     \* the words that address the same block: MASK cuts them off
  Rounds,         \* ITERATIONS
  Sub, Rot,       \* SubWord and RotWord of AES: functions on half words
  Scramble(_),    \* a round of AES before the key is added
  keccakf(_)      \* the permutation of Keccak

ASSUME ScratchpadAssumption ==
  /\ Blocks \in Nat \ {0} /\ Blocks % 8 = 0
  /\ BlockBytes \in Nat \ {0}
  /\ Rounds \in Nat

Dwords == 0..(Half - 1)
Block == Words \X Words
Pad == 0..(Blocks - 1)
HashState == [0..24 -> Words]

ASSUME AesAssumption ==
  /\ Sub \in [Dwords -> Dwords]
  /\ Rot \in [Dwords -> Dwords]
  /\ \A x \in Block : Scramble(x) \in Block

extra_hashes == <<"blake", "groestl", "jh", "skein">>

(* The exclusive or, from the last bit to the first. *)
XorTable[a \in Words] ==
  [b \in Words |-> IF a = 0 THEN b ELSE 2 * XorTable[a \div 2][b \div 2] + ((a + b) % 2)]
XorWord(a, b) == XorTable[a][b]

(* Words and half words have a whole number of bits. *)
ASSUME BitsAssumption ==
  /\ \A a \in Words, b \in Words : XorWord(a, b) \in Words
  /\ \A a \in Dwords, b \in Dwords : XorWord(a, b) \in Dwords

Add(a, b) == (a + b) % Modulus
XorBlock(x, y) == <<XorWord(x[1], y[1]), XorWord(x[2], y[2])>>
AddBlock(x, y) == <<Add(x[1], y[1]), Add(x[2], y[2])>>

(* A block as four half words, and back. *)
ToDwords(x) == <<x[1] % Half, x[1] \div Half, x[2] % Half, x[2] \div Half>>
FromDwords(d) == <<d[1] + Half * d[2], d[3] + Half * d[4]>>

aesenc(x, key) == XorBlock(Scramble(x), key)

(* l0[w & MASK], and the block at the distance d in its line. *)
Address(w) == (w \div BlockBytes) % Blocks
Near(j, d) == 4 * (j \div 4) + XorWord(j % 4, d)

BlockOf(h, j) == <<h[2 * j], h[2 * j + 1]>>
Rcon == [i \in 1..4 |-> <<1, 2, 4, 8>>[i] % Half]
-----------------------------------------------------------------------------
(* The first ten round keys of AES-256, four half words each: every one is *)
(* made of the one two before it and of the last half word before it.      *)
NextKey(x, w) ==
  LET w1 == XorWord(x[1], w)
      w2 == XorWord(x[2], w1)
      w3 == XorWord(x[3], w2)
  IN  <<w1, w2, w3, XorWord(x[4], w3)>>

KeySchedule(k0, k1) ==
  LET key[r \in 1..10] ==
        IF r <= 2 THEN ToDwords(<<k0, k1>>[r])
        ELSE LET last == Sub[key[r - 1][4]]
             IN  NextKey(key[r - 2], IF r % 2 = 1 THEN XorWord(Rot[last], Rcon[r \div 2]) ELSE last)
  IN  [r \in 1..10 |-> FromDwords(key[r])]

Encrypted(x, keys) ==
  LET after[r \in 0..10] == IF r = 0 THEN x ELSE aesenc(after[r - 1], keys[r])
  IN  after[10]

(* Eight blocks of the state, and behind them what these become when they  *)
(* meet the blocks of the pad, eight at a time, and are encrypted.         *)
Chained(h, pad, keys) ==
  LET text[n \in 1..(Blocks + 8)] ==
        IF n <= 8 THEN BlockOf(h, 3 + n)
        ELSE Encrypted(XorBlock(pad[n - 9], text[n - 8]), keys)
  IN  text

(* The scratchpad: the blocks of the state encrypted again and again.      *)
Filled(h) ==
  LET text == Chained(h, [j \in Pad |-> <<0, 0>>], KeySchedule(BlockOf(h, 0), BlockOf(h, 1)))
  IN  [j \in Pad |-> text[j + 9]]

Start(h) ==
  [a   |-> XorBlock(BlockOf(h, 0), BlockOf(h, 2)),
   b0  |-> XorBlock(BlockOf(h, 1), BlockOf(h, 3)),
   b1  |-> XorBlock(BlockOf(h, 4), BlockOf(h, 5)),
   division |-> h[12],
   root |-> h[13],
   pad |-> Filled(h)]

(* The other three blocks of a line change places, each with an addend. *)
Shuffled(pad, j, m) ==
  [pad EXCEPT ![Near(j, 1)] = AddBlock(pad[Near(j, 3)], m.b1),
              ![Near(j, 2)] = AddBlock(pad[Near(j, 1)], m.b0),
              ![Near(j, 3)] = AddBlock(pad[Near(j, 2)], m.a)]

(* One round: a block is encrypted, and one it leads to is multiplied. *)
Round(m) ==
  LET j == Address(m.a[1])
      c == aesenc(m.pad[j], m.a)
      pad1 == [Shuffled(m.pad, j, m) EXCEPT ![j] = XorBlock(m.b0, c)]
      k == Address(c[1])
      x == XorWord(pad1[k][1], XorWord(m.division, (m.root * Half) % Modulus))
      product == <<(c[1] * x) \div Modulus, (c[1] * x) % Modulus>>
      pad2 == [pad1 EXCEPT ![Near(k, 1)] = XorBlock(@, product)]
      sum == AddBlock(m.a, XorBlock(product, pad1[Near(k, 2)]))
      division == Divided(c[2], Divisor(c[1], m.root))
  IN  [b1  |-> m.b0,
       b0  |-> c,
       division |-> division,
       root |-> int_sqrt33_1(Add(c[1], division), "down"),
       a   |-> XorBlock(sum, <<x, pad1[k][2]>>),
       pad |-> [Shuffled(pad2, k, m) EXCEPT ![k] = sum]]

Mixed(h, n) ==
  LET after[r \in 0..n] == IF r = 0 THEN Start(h) ELSE Round(after[r - 1])
  IN  after[n]

(* The scratchpad encrypted into the last eight blocks of the state.       *)
Folded(h, pad) ==
  LET text == Chained(h, pad, KeySchedule(BlockOf(h, 2), BlockOf(h, 3)))
  IN  [w \in 0..24 |-> IF w \in 8..23 THEN text[Blocks + (w \div 2) - 3][1 + (w % 2)] ELSE h[w]]

(* The state is permuted once more, and its last two bits choose the hash. *)
Hashed(h, pad) ==
  LET last == keccakf(Folded(h, pad))
  IN  <<extra_hashes[1 + (last[0] % 4)], last>>

IsSlowHash(output, h) == \E m \in {Mixed(h, Rounds)} : output = Hashed(h, m.pad)
=============================================================================

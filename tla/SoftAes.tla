------------------------------- MODULE SoftAes -------------------------------
(***************************************************************************)
(* The AES of soft_aes.hpp, which takes the place of the AES instructions  *)
(* where a processor has none, with the key expansion of                   *)
(* cryptonight_aesni.h; and what FIPS 197 says a round and a key are.  A   *)
(* block is its 16 bytes in the order of memory, which is the order of     *)
(* FIPS 197; 32-bit words are four of them, the lowest first.              *)
(***************************************************************************)
EXTENDS ByteField

XorWords(s) == [k \in 1..Len(s[1]) |-> XorAll([i \in DOMAIN s |-> s[i][k]])] \o <<>>

(* _mm_shuffle_epi32 with 0x00, 0x55, 0xAA and 0xFF. *)
Dword(block, i) == SubSeq(block, 4 * i + 1, 4 * i + 4)

(* saes_u0 to saes_u3, the words of the four tables. *)
saes_u(i, p) ==
  LET u0 == <<saes_f2(p), p, p, saes_f3(p)>>
  IN  SubSeq(u0, 5 - i, 4) \o SubSeq(u0, 1, 4 - i)
saes_table == [i \in 1..4 |-> [n \in 1..256 |-> saes_u(i - 1, saes_sbox(Bits(n - 1)))] \o <<>>] \o <<>>

(* Mutant: the bytes are taken from the words on the other side. *)
soft_aesenc_Backwards(in, key) ==
  LET Out(j) == XorWords([i \in 1..4 |->
                  saes_table[i][Number(in[4 * ((j - (i - 1)) % 4) + i]) + 1]])
  IN  XorWords(<<Out(0) \o Out(1) \o Out(2) \o Out(3), key>>)

(* Word j is put together from byte 0 of word j, byte 1 of the next, ... *)
soft_aesenc(in, key) ==
  LET Out(j) == XorWords([i \in 1..4 |->
                  saes_table[i][Number(in[4 * ((j + (i - 1)) % 4) + i]) + 1]])
  IN  XorWords(<<Out(0) \o Out(1) \o Out(2) \o Out(3), key>>)

sub_word(word) == [k \in 1..4 |-> saes_sbox(word[k])] \o <<>>
_rotr8(word) == <<word[2], word[3], word[4], word[1]>>

soft_aeskeygenassist(key, rcon) ==
  LET X1 == sub_word(Dword(key, 1))
      X3 == sub_word(Dword(key, 3))
      Constant(w) == XorWords(<<_rotr8(w), <<rcon, {}, {}, {}>>>>)
  IN  X1 \o Constant(X1) \o X3 \o Constant(X3)

(* sl_xor: the block and what it is when shifted by one, two, three words. *)
sl_xor_words(block) ==
  LET Shifted(n) == [k \in 1..4 * n |-> {}] \o SubSeq(block, 1, 16 - 4 * n)
  IN  XorWords(<<block, Shifted(1), Shifted(2), Shifted(3)>>)

(* The pair of round keys that follows the pair keys. *)
soft_aes_genkey_sub(keys, rcon) ==
  LET Spread(w) == w \o w \o w \o w
      xout0 == XorWords(<<sl_xor_words(keys[1]), Spread(Dword(soft_aeskeygenassist(keys[2], rcon), 3))>>)
      xout2 == XorWords(<<sl_xor_words(keys[2]), Spread(Dword(soft_aeskeygenassist(xout0, {}), 2))>>)
  IN  <<xout0, xout2>>

(* Two rounds with a pair of keys, and the next pair: aes_genkey makes four *)
(* of them, with the constants 1, 2, 4 and 8.                               *)
SoftAesStep(c, pair) ==
  [x    |-> soft_aesenc(soft_aesenc(c.x, c.keys[1]), c.keys[2]),
   keys |-> IF pair < 4 THEN soft_aes_genkey_sub(c.keys, {pair}) ELSE c.keys]
-----------------------------------------------------------------------------
(* A round: SubBytes, ShiftRows, MixColumns and AddRoundKey.  Row r and     *)
(* column c of the state are byte r + 4c.                                   *)
AesRound(state, key) ==
  LET s(r, c) == SubBytes[Number(state[r + 4 * ((c + r) % 4) + 1]) + 1]
      At(r, c, k) == LET b == s((r + k) % 4, c)
                     IN  CASE k = 0 -> Times(b, {1}) [] k = 1 -> Times(b, {0, 1}) [] OTHER -> b
  IN  [n \in 1..16 |-> XorAll([k \in 1..5 |->
         IF k < 5 THEN At((n - 1) % 4, (n - 1) \div 4, k - 1) ELSE key[n]])] \o <<>>

(* Eight words of the key schedule of AES-256 from the eight before them. *)
SubWord(word) == [k \in 1..4 |-> SubBytes[Number(word[k]) + 1]] \o <<>>
RotWord(word) == <<word[2], word[3], word[4], word[1]>>
NextWords(w, i) ==
  LET v1 == XorWords(<<w[1], XorWords(<<SubWord(RotWord(w[8])), <<{i}, {}, {}, {}>>>>)>>)
      v2 == XorWords(<<w[2], v1>>)
      v3 == XorWords(<<w[3], v2>>)
      v4 == XorWords(<<w[4], v3>>)
      v5 == XorWords(<<w[5], SubWord(v4)>>)
      v6 == XorWords(<<w[6], v5>>)
      v7 == XorWords(<<w[7], v6>>)
      v8 == XorWords(<<w[8], v7>>)
  IN  <<v1, v2, v3, v4, v5, v6, v7, v8>>

KeyOf(w, first) == w[first] \o w[first + 1] \o w[first + 2] \o w[first + 3]

AesStep(a, pair) ==
  [x |-> AesRound(AesRound(a.x, KeyOf(a.w, 1)), KeyOf(a.w, 5)),
   w |-> IF pair < 4 THEN NextWords(a.w, pair) ELSE a.w]
=============================================================================

------------------------------- MODULE Groestl -------------------------------
(***************************************************************************)
(* Groestl-256 as c_groestl.c absorbs a message of whole bytes.  A context *)
(* holds the digested frames, the two words of the block counter and the   *)
(* first buf_ptr bytes of the buffer.                                      *)
(***************************************************************************)
EXTENDS Octets

CONSTANT GroestlWord    \* block_counter1 counts modulo this; 2^32 in the code

ASSUME GroestlWordAssumption == GroestlWord \in Nat \ {0}

GroestlInit == [frames |-> <<>>, counter1 |-> 0, counter2 |-> 0, buffer |-> <<>>]

Count(c) ==
  LET low == (c.counter1 + 1) % GroestlWord
  IN  [c EXCEPT !.counter1 = low, !.counter2 = IF low = 0 THEN @ + 1 ELSE @]

Digest(c, block) == [Count(c) EXCEPT !.frames = Append(@, Frame(NoTag, block))]

Transform(c, input) == FoldLeft(Digest, c, Blocks(input, 64))

(* Mutant: a buffer that is just full is kept. *)
GroestlUpdate_Late(c, data) ==
  LET fill == IF c.buffer = <<>> THEN <<>> ELSE Take(data, 64 - Len(c.buffer))
      bulk == Drop(data, Len(fill))
      full == c.buffer \o fill
  IN  IF full # <<>> /\ bulk = <<>> THEN [c EXCEPT !.buffer = full]
      ELSE [Transform(Transform(c, full), bulk) EXCEPT !.buffer = Rest(bulk, 64)]

GroestlUpdate(c, data) ==
  LET fill == IF c.buffer = <<>> THEN <<>> ELSE Take(data, 64 - Len(c.buffer))
      bulk == Drop(data, Len(fill))
      full == c.buffer \o fill
  IN  IF full # <<>> /\ Len(full) < 64 THEN [c EXCEPT !.buffer = full]
      ELSE [Transform(Transform(c, full), bulk) EXCEPT !.buffer = Rest(bulk, 64)]

(* Mutant: the final block is not counted. *)
GroestlFinal_Uncounted(c) ==
  LET ended  == Append(c.buffer, Const(128))
      split  == Len(ended) > 56
      before == IF split THEN Transform(c, ended \o Zeros(64 - Len(ended))) ELSE c
      last   == IF split THEN Zeros(56) ELSE ended \o Zeros(56 - Len(ended))
  IN  Transform(before, last \o BigEndian(before.counter2, 4) \o BigEndian(before.counter1, 4))

GroestlFinal(c) ==
  LET ended  == Append(c.buffer, Const(128))
      split  == Len(ended) > 56
      before == IF split THEN Transform(c, ended \o Zeros(64 - Len(ended))) ELSE c
      last   == IF split THEN Zeros(56) ELSE ended \o Zeros(56 - Len(ended))
      after  == Count(before)
  IN  Transform(after, last \o BigEndian(after.counter2, 4) \o BigEndian(after.counter1, 4))

(* What Groestl says a message of n bytes becomes: a 1 bit, zeros and the *)
(* number of blocks.                                                      *)
GroestlFrames(n) ==
  LET N       == (n + 72) \div 64
      Cell(k) == CASE k <= n -> Byte(k)
                   [] k = n + 1 -> Const(128)
                   [] k > 64 * N - 8 ->
                        IF k > 64 * N - 4 THEN Octet(N % GroestlWord, k - (64 * N - 4))
                                          ELSE Octet(N \div GroestlWord, k - (64 * N - 8))
                   [] OTHER -> Const(0)
  IN  [i \in 1..N |-> Frame(NoTag, [j \in 1..64 |-> Cell(64 * (i - 1) + j)])]
=============================================================================

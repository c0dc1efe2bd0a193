------------------------------ MODULE Blake256 ------------------------------
(***************************************************************************)
(* BLAKE-256 as c_blake256.c absorbs a message.  A context holds the       *)
(* frames that were compressed, the counter of message bits in two words   *)
(* (t[0] and t[1]), nullt, and the bytes in the buffer.                    *)
(***************************************************************************)
EXTENDS Octets

CONSTANT BlakeWord      \* t[0] counts modulo this; 2^32 in the code

ASSUME BlakeWordAssumption == BlakeWord \in Nat \ {0} /\ BlakeWord % 512 = 0

BlakeInit == [frames |-> <<>>, lo |-> 0, hi |-> 0, nullt |-> FALSE, buf |-> <<>>]

(* Mutant: the carry is forgotten. *)
Compress_NoCarry(c, block) ==
  LET lo == (c.lo + 512) % BlakeWord
  IN  [c EXCEPT !.lo = lo,
                !.frames = Append(@, Frame(IF c.nullt THEN NoTag ELSE <<c.hi, lo>>, block))]

(* t[0] += 512 with its carry, then blake256_compress of a block. *)
Compress(c, block) ==
  LET lo == (c.lo + 512) % BlakeWord
      hi == IF lo = 0 THEN c.hi + 1 ELSE c.hi
  IN  [c EXCEPT !.lo = lo, !.hi = hi,
                !.frames = Append(@, Frame(IF c.nullt THEN NoTag ELSE <<hi, lo>>, block))]

(***************************************************************************)
(* blake256_update.  Whether the buffer is flushed is decided by the bytes *)
(* of the data beyond its whole blocks; when they do not fill the buffer,  *)
(* the whole blocks are compressed although the buffer holds earlier       *)
(* bytes.  No data at all empties the buffer.                              *)
(***************************************************************************)
BlakeUpdate(c, data) ==
  LET fill    == 64 - Len(c.buf)
      flush   == c.buf # <<>> /\ Len(data) % 64 >= fill
      flushed == IF flush THEN [Compress(c, c.buf \o Take(data, fill)) EXCEPT !.buf = <<>>] ELSE c
      data2   == IF flush THEN Drop(data, fill) ELSE data
      rest    == Rest(data2, 64)
  IN  [FoldLeft(Compress, flushed, Blocks(data2, 64)) EXCEPT
         !.buf = IF rest = <<>> THEN <<>> ELSE @ \o rest]

(* The data that blake256_update takes in the order of the message. *)
BlakeFits(c, n) ==
  c.buf = <<>> \/ (n > 0 /\ (n < 64 \/ n % 64 >= 64 - Len(c.buf)))

Padding == <<Const(128)>> \o Zeros(63)

(* t[0] -= bits, the compensation for padding that update will count. *)
Uncount(c, bits) == [c EXCEPT !.lo = (@ - bits) % BlakeWord]

(* One padding byte, the 1 that opens the padding and the 1 that ends it. *)
PadByte(c) == BlakeUpdate(Uncount(c, 8), <<Const(129)>>)

PadBlock(c) ==
  LET held  == Len(c.buf)
      start == [c EXCEPT !.nullt = held = 0]
      body  == BlakeUpdate(Uncount(start, 440 - 8 * held), Take(Padding, 55 - held))
  IN  Uncount(BlakeUpdate(body, <<Const(1)>>), 8)

PadTwoBlocks(c) ==
  LET held   == Len(c.buf)
      first  == BlakeUpdate(Uncount(c, 512 - 8 * held), Take(Padding, 64 - held))
      second == [BlakeUpdate(Uncount(first, 440), Take(Drop(Padding, 1), 55)) EXCEPT !.nullt = TRUE]
  IN  Uncount(BlakeUpdate(second, <<Const(1)>>), 8)

(* Mutant: a full buffer but for the length field is padded in one block. *)
BlakeFinal_Strict(c) ==
  LET bits   == 8 * Len(c.buf)
      lo     == (c.lo + bits) % BlakeWord
      hi     == IF lo < bits THEN c.hi + 1 ELSE c.hi
      padded == IF bits <= 440 THEN PadBlock(c) ELSE PadTwoBlocks(c)
  IN  BlakeUpdate(Uncount(padded, 64), BigEndian(hi, 4) \o BigEndian(lo, 4))

(* blake256_final. *)
BlakeFinal(c) ==
  LET bits   == 8 * Len(c.buf)
      lo     == (c.lo + bits) % BlakeWord
      hi     == IF lo < bits THEN c.hi + 1 ELSE c.hi
      padded == IF bits = 440 THEN PadByte(c)
                ELSE IF bits < 440 THEN PadBlock(c) ELSE PadTwoBlocks(c)
  IN  BlakeUpdate(Uncount(padded, 64), BigEndian(hi, 4) \o BigEndian(lo, 4))

(***************************************************************************)
(* What BLAKE-256 says a message of n bytes becomes: a 1 bit behind the    *)
(* message, a 1 bit in front of the length, zeros between, and beside each *)
(* block the number of message bits up to its end, or nothing for a block  *)
(* without message bits.                                                   *)
(***************************************************************************)
BlakeFrames(n) ==
  LET N       == (n + 72) \div 64
      Cell(k) == CASE k <= n -> Byte(k)
                   [] k > 64 * N - 8 ->
                        IF k > 64 * N - 4 THEN Octet((8 * n) % BlakeWord, k - (64 * N - 4))
                                          ELSE Octet((8 * n) \div BlakeWord, k - (64 * N - 8))
                   [] OTHER -> Const((IF k = n + 1 THEN 128 ELSE 0) + (IF k = 64 * N - 8 THEN 1 ELSE 0))
      Bits(i) == 8 * (IF 64 * i < n THEN 64 * i ELSE n)
  IN  [i \in 1..N |->
         Frame(IF 64 * (i - 1) >= n THEN NoTag ELSE <<Bits(i) \div BlakeWord, Bits(i) % BlakeWord>>,
               [j \in 1..64 |-> Cell(64 * (i - 1) + j)])]
=============================================================================

--------------------------------- MODULE Jh ---------------------------------
(***************************************************************************)
(* JH-256 as c_jh.c absorbs a message of whole bytes.  A context holds the *)
(* frames given to F8, databitlen, and the first datasize_in_buffer bits   *)
(* of the buffer.                                                          *)
(***************************************************************************)
EXTENDS Octets

JhInit == [frames |-> <<>>, databitlen |-> 0, buffer |-> <<>>]

F8(c, block) == [c EXCEPT !.frames = Append(@, Frame(NoTag, block))]

(* Data that do not fill the buffer are added to it; otherwise the buffer  *)
(* is filled and compressed, then the whole blocks, and the rest is kept.  *)
JhUpdate(c, data) ==
  LET counted == [c EXCEPT !.databitlen = @ + 8 * Len(data)]
      held    == Len(c.buffer)
      fill    == IF held > 0 THEN 64 - held ELSE 0
      filled  == IF held > 0 THEN F8(counted, c.buffer \o Take(data, fill)) ELSE counted
      bulk    == Drop(data, fill)
  IN  IF held > 0 /\ held + Len(data) < 64 THEN [counted EXCEPT !.buffer = @ \o data]
      ELSE [FoldLeft(F8, filled, Blocks(bulk, 64)) EXCEPT !.buffer = Rest(bulk, 64)]

(* Mutant: the length shares the last block when there is room for it. *)
JhFinal_Shares(c) ==
  LET index   == (c.databitlen % 512) \div 8
      length  == BigEndian(c.databitlen, 8)
      Kept(i) == IF i <= Len(c.buffer) THEN c.buffer[i] ELSE Junk
      partial == [i \in 1..index |-> Kept(i)] \o <<Const(128)>> \o Zeros(63 - index)
  IN  IF index < 56 THEN F8(c, Take(partial \o <<Const(128)>> \o Zeros(55), 56) \o length)
      ELSE F8(F8(c, partial), Zeros(56) \o length)

(***************************************************************************)
(* Final takes the number of bytes in the last block from databitlen, not  *)
(* from datasize_in_buffer.  The length always has a block of its own.     *)
(***************************************************************************)
JhFinal(c) ==
  LET index   == (c.databitlen % 512) \div 8
      length  == BigEndian(c.databitlen, 8)
      Kept(i) == IF i <= Len(c.buffer) THEN c.buffer[i] ELSE Junk
      partial == [i \in 1..index |-> Kept(i)] \o <<Const(128)>> \o Zeros(63 - index)
  IN  IF index = 0 THEN F8(c, <<Const(128)>> \o Zeros(55) \o length)
      ELSE F8(F8(c, partial), Zeros(56) \o length)

(* What JH says a message of n bytes becomes: a 1 bit, then as many zeros *)
(* as fill 384 - 1 + (-8 n mod 512) bits, then the length in 128 bits.    *)
JhFrames(n) ==
  LET zeros == 47 + ((-n) % 64)        \* bytes, after the byte with the 1 bit
      total == n + 1 + zeros + 16
      Cell(k) == CASE k <= n -> Byte(k)
                   [] k = n + 1 -> Const(128)
                   [] k > total - 8 -> Octet(8 * n, k - (total - 8))
                   [] OTHER -> Const(0)
  IN  [i \in 1..(total \div 64) |-> Frame(NoTag, [j \in 1..64 |-> Cell(64 * (i - 1) + j)])]
=============================================================================

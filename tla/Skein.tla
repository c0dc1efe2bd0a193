-------------------------------- MODULE Skein --------------------------------
(***************************************************************************)
(* Skein-512-256 as c_skein.c absorbs a message of whole bytes: skein_hash *)
(* with 256 bits takes the 512-bit context, whose initial chaining value   *)
(* is precomputed.  A context holds the frames given to Threefish, the     *)
(* tweak (the position T[0] and the type and flags of T[1]) and the bytes  *)
(* in the buffer.  The tag of a frame is the tweak it was processed with.  *)
(***************************************************************************)
EXTENDS Octets

StartNewType(type, final) == [type |-> type, pos |-> 0, first |-> TRUE, final |-> final]

SkeinInit == [frames |-> <<>>, tweak |-> StartNewType("msg", FALSE), b |-> <<>>]

(* Skein_512_Process_Block; every block advances the position by add. *)
ProcessBlocks(c, blocks, add) ==
  LET Process(d, block) ==
        LET tweak == [d.tweak EXCEPT !.pos = @ + add]
        IN  [d EXCEPT !.frames = Append(@, Frame(tweak, block)),
                      !.tweak = [tweak EXCEPT !.first = FALSE]]
  IN  FoldLeft(Process, c, blocks)

(* Mutant: a full buffer is processed at once. *)
SkeinUpdate_Eager(c, data) ==
  LET more   == Len(data) + Len(c.b) >= 64
      fill   == IF more /\ c.b # <<>> THEN 64 - Len(c.b) ELSE 0
      filled == IF more /\ c.b # <<>>
                THEN [ProcessBlocks(c, <<c.b \o Take(data, fill)>>, 64) EXCEPT !.b = <<>>] ELSE c
      left   == Drop(data, fill)
      n      == Len(left) \div 64
  IN  [ProcessBlocks(filled, Blocks(Take(left, 64 * n), 64), 64) EXCEPT !.b = @ \o Drop(left, 64 * n)]

(* The last block is kept even when it is full: only Final knows it. *)
SkeinUpdate(c, data) ==
  LET more   == Len(data) + Len(c.b) > 64
      fill   == IF more /\ c.b # <<>> THEN 64 - Len(c.b) ELSE 0
      filled == IF more /\ c.b # <<>>
                THEN [ProcessBlocks(c, <<c.b \o Take(data, fill)>>, 64) EXCEPT !.b = <<>>] ELSE c
      left   == Drop(data, fill)
      n      == IF more /\ Len(left) > 64 THEN (Len(left) - 1) \div 64 ELSE 0
  IN  [ProcessBlocks(filled, Blocks(Take(left, 64 * n), 64), 64) EXCEPT !.b = @ \o Drop(left, 64 * n)]

(* Mutant: the zeros of the padding are counted. *)
SkeinFinal_CountsAll(c) ==
  LET last   == ProcessBlocks([c EXCEPT !.tweak.final = TRUE],
                              <<c.b \o Zeros(64 - Len(c.b))>>, 64)
      output == [last EXCEPT !.tweak = StartNewType("out", TRUE), !.b = Zeros(64)]
  IN  ProcessBlocks(output, <<output.b>>, 8)

(* The final block, padded with zeros and counted without them, then the  *)
(* one output block that 256 bits need, whose eight counter bytes are 0.  *)
SkeinFinal(c) ==
  LET last   == ProcessBlocks([c EXCEPT !.tweak.final = TRUE],
                              <<c.b \o Zeros(64 - Len(c.b))>>, Len(c.b))
      output == [last EXCEPT !.tweak = StartNewType("out", TRUE), !.b = Zeros(64)]
  IN  ProcessBlocks(output, <<output.b>>, 8)

(* What Skein says a message of n bytes becomes (UBI chaining): the blocks *)
(* with the position of their last message byte, the first and the last of *)
(* them marked, and the output block.                                      *)
SkeinFrames(n) ==
  LET N        == IF n = 0 THEN 1 ELSE (n + 63) \div 64
      Cell(k)  == IF k <= n THEN Byte(k) ELSE Const(0)
      Tweak(i) == [type |-> "msg", pos |-> IF 64 * i < n THEN 64 * i ELSE n,
                   first |-> i = 1, final |-> i = N]
      Out      == [type |-> "out", pos |-> 8, first |-> TRUE, final |-> TRUE]
  IN  [i \in 1..N |-> Frame(Tweak(i), [j \in 1..64 |-> Cell(64 * (i - 1) + j)])]
        \o <<Frame(Out, Zeros(64))>>
=============================================================================

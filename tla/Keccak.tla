------------------------------- MODULE Keccak -------------------------------
(***************************************************************************)
(* keccak of c_keccak.c, called with the size of the whole state as mdlen, *)
(* so that a block is the 136 bytes of HASH_DATA_AREA.  It is one call:    *)
(* the frames are those given to keccakf.                                  *)
(***************************************************************************)
EXTENDS Octets

HASH_DATA_AREA == 136

(* The padding byte at the end of the block is or-ed into what is there. *)
OrEnd(cell) == IF cell = Const(1) THEN Const(129) ELSE Const(128)

(* Mutant: the end of the padding overwrites its beginning. *)
KeccakFinal_Overwrites(in) ==
  LET rsiz == HASH_DATA_AREA
      temp == Append(Rest(in, rsiz), Const(1))
      last == temp \o Zeros(rsiz - Len(temp))
      all  == Append(Blocks(in, rsiz), [last EXCEPT ![rsiz] = Const(128)])
  IN  [i \in 1..Len(all) |-> Frame(NoTag, all[i])]

KeccakFinal(in) ==
  LET rsiz == HASH_DATA_AREA
      temp == Append(Rest(in, rsiz), Const(1))
      last == temp \o Zeros(rsiz - Len(temp))
      all  == Append(Blocks(in, rsiz), [last EXCEPT ![rsiz] = OrEnd(@)])
  IN  [i \in 1..Len(all) |-> Frame(NoTag, all[i])]

(* What Keccak says: the message, a 1, zeros and a 1 (pad10*1, bytes with *)
(* their least significant bit first).                                    *)
KeccakFrames(n) ==
  LET N       == n \div 136 + 1
      Cell(k) == IF k <= n THEN Byte(k)
                 ELSE Const((IF k = n + 1 THEN 1 ELSE 0) + (IF k = 136 * N THEN 128 ELSE 0))
  IN  [i \in 1..N |-> Frame(NoTag, [j \in 1..136 |-> Cell(136 * (i - 1) + j)])]
=============================================================================

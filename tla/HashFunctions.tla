--------------------------- MODULE HashFunctions ---------------------------
(***************************************************************************)
(* The five hash functions of src/main/jni as they take a message.  Keccak *)
(* opens a Cryptonight hash; the two low bits of the state it leaves       *)
(* choose which of the others closes it (extra_hashes).  The others can be *)
(* fed in pieces; drill feeds each of them once, with the 200 bytes of     *)
(* that state.                                                             *)
(***************************************************************************)
EXTENDS Blake256, Groestl, Jh, Keccak, Skein

CONSTANT MaxLength      \* the longest message fed

ASSUME MaxLengthAssumption == MaxLength \in Nat

VARIABLES
  algorithm,
  ctx,
  fed,                  \* the number of bytes fed so far
  done

vars == <<algorithm, ctx, fed, done>>

extra_hashes == <<"blake", "groestl", "jh", "skein">>
Algorithms == {"keccak"} \union Range(extra_hashes)

Context(a) ==
  CASE a = "blake"   -> BlakeInit
    [] a = "groestl" -> GroestlInit
    [] a = "jh"      -> JhInit
    [] a = "skein"   -> SkeinInit
    [] a = "keccak"  -> [frames |-> <<>>]

Update(data) ==
  CASE algorithm = "blake"   -> BlakeUpdate(ctx, data)
    [] algorithm = "groestl" -> GroestlUpdate(ctx, data)
    [] algorithm = "jh"      -> JhUpdate(ctx, data)
    [] algorithm = "skein"   -> SkeinUpdate(ctx, data)

Final ==
  CASE algorithm = "blake"   -> BlakeFinal(ctx)
    [] algorithm = "groestl" -> GroestlFinal(ctx)
    [] algorithm = "jh"      -> JhFinal(ctx)
    [] algorithm = "skein"   -> SkeinFinal(ctx)

Framed(a, n) ==
  CASE a = "blake"   -> BlakeFrames(n)
    [] a = "groestl" -> GroestlFrames(n)
    [] a = "jh"      -> JhFrames(n)
    [] a = "skein"   -> SkeinFrames(n)
    [] a = "keccak"  -> KeccakFrames(n)

Init ==
  /\ algorithm \in Algorithms
  /\ ctx = Context(algorithm)
  /\ fed = 0
  /\ done = FALSE

(* An update with the next n bytes; Blake only takes those that fit. *)
Feed(n) ==
  /\ ~done
  /\ algorithm \in Range(extra_hashes)
  /\ fed + n <= MaxLength
  /\ algorithm = "blake" => BlakeFits(ctx, n)
  /\ ctx' = Update(Message(fed + 1, fed + n))
  /\ fed' = fed + n
  /\ UNCHANGED <<algorithm, done>>

Finish ==
  /\ ~done
  /\ algorithm \in Range(extra_hashes)
  /\ ctx' = Final
  /\ done' = TRUE
  /\ UNCHANGED <<algorithm, fed>>

(* Keccak takes its n bytes in one call. *)
Absorb(n) ==
  /\ ~done
  /\ algorithm = "keccak"
  /\ ctx' = [frames |-> KeccakFinal(Message(1, n))]
  /\ fed' = n
  /\ done' = TRUE
  /\ UNCHANGED algorithm

Next ==
  \/ \E n \in 0..MaxLength : Feed(n) \/ Absorb(n)
  \/ Finish

Spec == Init /\ [][Next]_vars
-----------------------------------------------------------------------------
Absorbed(a) == algorithm = a /\ done => ctx.frames = Framed(a, fed)

(* BLAKE-256 compresses each block beside the number of message bits up to *)
(* its end, although update counts the padding too and the counter is set  *)
(* back for it beforehand, across block boundaries and carries, and the    *)
(* length field is taken before all that (c_blake256.c:162-187).           *)
BlakeAbsorbs == Absorbed("blake")

(* Groestl ends with the number of blocks, the final one included, which   *)
(* is written while the counter is one ahead, and pads into a block of its *)
(* own when the length field does not fit (c_groestl.c:289-316).           *)
GroestlAbsorbs == Absorbed("groestl")

(* JH finds the end of the message with databitlen although the bytes are  *)
(* in the buffer by datasize_in_buffer: no stale byte is absorbed, and the *)
(* length is in a block without message bytes (c_jh.c:303-339).            *)
JhAbsorbs == Absorbed("jh")

(* Keccak's two padding bits may fall into one byte (c_keccak.c:160-163).  *)
KeccakAbsorbs == Absorbed("keccak")

(* Skein marks the first and the last block and gives each the position of *)
(* its last message byte, whatever was buffered before                     *)
(* (c_skein.c:1499-1529, 1547-1551).                                       *)
SkeinAbsorbs == Absorbed("skein")

(* Each function absorbs the framed message of its definition, whatever    *)
(* pieces it came in.                                                      *)
FramesAsDefined ==
  BlakeAbsorbs /\ GroestlAbsorbs /\ JhAbsorbs /\ KeccakAbsorbs /\ SkeinAbsorbs

Promise == INSTANCE HashStream WITH frames <- ctx.frames

(* However a message is cut, no block is absorbed before it is known to be *)
(* one of the message, in its place and not its last if that is treated    *)
(* differently: the functions implement HashStream (the update functions   *)
(* of the five files).                                                     *)
KeepsStreaming == Promise!Spec
=============================================================================

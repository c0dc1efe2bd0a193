------------------------------- MODULE Octets -------------------------------
(***************************************************************************)
(* The bytes that the hash functions of src/main/jni move about.  What     *)
(* they absorb depends on where a byte comes from and never on its value,  *)
(* so a byte of the message is its position, a byte of a length field is   *)
(* its place in a word, and only the bytes of the padding have values.     *)
(* A stale byte of a buffer, or one behind the caller's data, is Junk.     *)
(***************************************************************************)
EXTENDS Integers, Sequences, SequencesExt

Byte(k) == <<"byte", k>>
Const(v) == <<"const", v>>
Octet(word, j) == <<"octet", word, j>>
Junk == <<"junk">>

Zeros(n) == [i \in 1..n |-> Const(0)]

(* The bytes of the message from position first to position last. *)
Message(first, last) == [i \in 1..(last - first + 1) |-> Byte(first + i - 1)]

(* A word of the given number of bytes, most significant byte first. *)
BigEndian(word, bytes) == [j \in 1..bytes |-> Octet(word, j)]

Take(s, n) == SubSeq(s, 1, IF n < Len(s) THEN n ELSE Len(s))
Drop(s, n) == SubSeq(s, n + 1, Len(s))

(* The whole blocks at the front of s, and what is left behind them. *)
Blocks(s, size) == [i \in 1..(Len(s) \div size) |-> SubSeq(s, size * (i - 1) + 1, size * i)]
Rest(s, size) == Drop(s, size * (Len(s) \div size))

(***************************************************************************)
(* One call of a compression function: the block, and what else goes in    *)
(* (a counter, a tweak, or nothing).  The chaining value of a hash is a    *)
(* function of the frames it has absorbed, and stands for them here.       *)
(***************************************************************************)
Frame(tag, block) == [tag |-> tag, block |-> block]
NoTag == <<>>
=============================================================================

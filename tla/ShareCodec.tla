---------------------------- MODULE ShareCodec ----------------------------
(***************************************************************************)
(* The numbers that the miner and the pool exchange as hexadecimal text:   *)
(* Hex.unhexlify and hexlify, the target that parseJob puts together, the  *)
(* nonce and the difficulty that Worker.run takes apart and compares.      *)
(* Bytes and ints are signed in Java, the pool's numbers are not.          *)
(*                                                                         *)
(* A character is a digit with its case, or NotHex.                        *)
(***************************************************************************)
EXTENDS Integers, Sequences

CONSTANTS
  Base,             \* the number of digits, 16 in the code
  NotHex,           \* a character that is no digit
  Unreadable        \* what has no value because its conversion throws

ASSUME BaseAssumption == Base \in Nat \ {0} /\ Base % 2 = 0
ASSUME NoValueAssumption ==
  /\ NotHex \notin [digit : 0..(Base - 1), upper : BOOLEAN]
  /\ Unreadable \notin Int /\ Unreadable \notin Seq(Int)

Bytes == Base * Base
Ints == Bytes * Bytes * Bytes * Bytes

Digit(digit, upper) == [digit |-> digit, upper |-> upper]

(* The number of the given size that a pattern of bits stands for.         *)
Signed(v, size) == IF v % size < size \div 2 THEN v % size ELSE (v % size) - size
Unsigned(v, size) == v % size

(* (byte) v, and b & 255.                                                  *)
ToByte(v) == Signed(v, Bytes)
And255(b) == Unsigned(b, Bytes)

hexlify(bytes) ==
  [k \in 1..(2 * Len(bytes)) |->
     LET v == And255(bytes[(k + 1) \div 2])
     IN  Digit(IF k % 2 = 1 THEN v \div Base ELSE v % Base, TRUE)]
toLowerCase(text) == [k \in DOMAIN text |-> [text[k] EXCEPT !.upper = FALSE]]

unhexlify(text) ==
  IF Len(text) % 2 # 0 \/ \E k \in DOMAIN text : text[k] = NotHex THEN Unreadable
  ELSE [k \in 1..(Len(text) \div 2) |-> ToByte(text[2 * k - 1].digit * Base + text[2 * k].digit)]

(* b3 << 24 | (b2 & 255) << 16 | (b1 & 255) << 8 | b0 & 255                *)
Assemble_SignExtends(b3, b2, b1, b0) ==                                   \* Mutant: a negative byte reaches into the others
  Signed(((b3 * Bytes + b2) * Bytes + b1) * Bytes + b0, Ints)
Assemble(b3, b2, b1, b0) ==
  Signed(((b3 * Bytes + And255(b2)) * Bytes + And255(b1)) * Bytes + And255(b0), Ints)

(* job.setTarget, of the text of a target.                                 *)
Target(text) ==
  LET b == unhexlify(text)
  IN  IF b = Unreadable THEN Unreadable
      ELSE IF Len(b) < 4 THEN Unreadable
      ELSE Assemble(b[4], b[3], b[2], b[1])

(* The bytes of the nonce, as they are hashed and as they are sent.        *)
NonceBytes_BigEndian(nonce) ==                                               \* Mutant: the bytes in the other order
  <<ToByte(nonce \div (Bytes * Bytes * Bytes)), ToByte(nonce \div (Bytes * Bytes)), ToByte(nonce \div Bytes), ToByte(nonce)>>
NonceBytes(nonce) ==
  <<ToByte(nonce), ToByte(nonce \div Bytes), ToByte(nonce \div (Bytes * Bytes)),
    ToByte(nonce \div (Bytes * Bytes * Bytes))>>

(* The condition under which a share is sent, of the last bytes of a hash. *)
Wins_AnySign(hash, target) ==                                             \* Mutant: a negative difficulty wins
  Assemble(hash[4], hash[3], hash[2], hash[1]) <= target
Wins(hash, target) ==
  LET difficulty == Assemble(hash[4], hash[3], hash[2], hash[1])
  IN  difficulty >= 0 /\ difficulty <= target

(* The text of a nonce in a share.                                         *)
NonceText(nonce) == toLowerCase(hexlify(NonceBytes(nonce)))
=============================================================================

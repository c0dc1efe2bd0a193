------------------------------ MODULE MCHashes ------------------------------
(***************************************************************************)
(* Both halves of the hash functions in one instance: a behaviour is a     *)
(* message that is absorbed, or one call of a function on a block.         *)
(***************************************************************************)
EXTENDS HashFunctions, Compressions

(* Zeros, and bits without an obvious pattern. *)
MCGiven ==
  [i \in {"zeros", "mixed"} |-> [k \in 0..127 |->
     {b \in 0..127 : i = "mixed" /\ (k * 5 + b * b + 3 * b * k + k \div 7) % 7 < 3}]]

NoCall == [function |-> "none", input |-> "none"]

MCInit ==
  \/ Init /\ call = NoCall /\ round = 0 /\ code = <<>> /\ ideal = <<>>
  \/ CallInit /\ algorithm = "keccak" /\ ctx = Context("keccak") /\ fed = 0 /\ done = FALSE

MCNext ==
  \/ call = NoCall /\ Next /\ UNCHANGED callVars
  \/ call # NoCall /\ CallNext /\ UNCHANGED vars

MCSpec == MCInit /\ [][MCNext]_<<vars, callVars>>
=============================================================================

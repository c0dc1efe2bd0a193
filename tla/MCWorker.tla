------------------------------ MODULE MCWorker ------------------------------
(* Instances of Worker for TLC. *)
EXTENDS Worker

MCPoolNonce == [k \in Cells |-> 0]

\* Half of the nonces of each job win, among them neighbours that differ in
\* both cells, and each winning field is one the other cells can be torn into.
MCWinning == {e \in Jobs \X Field : e[2][0] = e[2][1]}
=============================================================================

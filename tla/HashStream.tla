----------------------------- MODULE HashStream -----------------------------
(***************************************************************************)
(* What a hash function promises of its input: however a message is cut    *)
(* into pieces, what it absorbs is a growing prefix of the framed message, *)
(* and at the end all of it, frame by frame and nothing else.              *)
(***************************************************************************)
EXTENDS Integers, Sequences, SequencesExt

CONSTANTS
  Framed(_, _),         \* Framed(a, n): the frames of a message of n bytes
  Algorithms,
  MaxLength             \* the longest message

VARIABLES algorithm, fed, frames, done

vars == <<algorithm, fed, frames, done>>

Init ==
  /\ algorithm \in Algorithms
  /\ fed = 0
  /\ frames = <<>>
  /\ done = FALSE

Feed ==
  /\ ~done
  /\ fed' \in fed..MaxLength
  /\ IsPrefix(frames, frames')
  /\ IsStrictPrefix(frames', Framed(algorithm, fed'))
  /\ UNCHANGED <<algorithm, done>>

Finish ==
  /\ ~done
  /\ done' = TRUE
  /\ fed' \in fed..MaxLength
  /\ frames' = Framed(algorithm, fed')
  /\ UNCHANGED algorithm

Next == Feed \/ Finish

Spec == Init /\ [][Next]_vars
=============================================================================

------------------------------- MODULE Shares -------------------------------
(***************************************************************************)
(* What a pool may expect from a miner that hashes each job with one       *)
(* thread: every share is a valid one for a job the pool sent, and a job   *)
(* that was withdrawn (replaced by a newer one, or lost with the           *)
(* connection) brings at most one more share.                              *)
(***************************************************************************)
EXTENDS Integers

CONSTANTS
    MaxJobs,   \* bound: jobs the pool sends
    Winning,   \* <<job, nonce>> whose hash meets the target of the job
    None       \* the nonce that stands for no share

VARIABLES
    latest,      \* number of the latest job, 0 before the first
    withdrawn,   \* jobs whose worker was told to stop, or has stopped
    exhausted,   \* withdrawn jobs that have had their late share
    share        \* the last share, as <<job, nonce>>

vars == <<latest, withdrawn, exhausted, share>>

Init ==
    /\ latest = 0
    /\ withdrawn = {}
    /\ exhausted = {}
    /\ share = <<0, None>>

NewJob ==
    /\ latest < MaxJobs
    /\ latest' = latest + 1
    /\ UNCHANGED <<withdrawn, exhausted, share>>

Withdraw(j) ==
    /\ j \in 1 .. latest
    /\ withdrawn' = withdrawn \cup {j}
    /\ UNCHANGED <<latest, exhausted, share>>

Submit(e) ==
    /\ e \in Winning
    /\ e[1] \in (1 .. latest) \ exhausted
    /\ share' = e
    /\ exhausted' = exhausted \cup ({e[1]} \cap withdrawn)
    /\ UNCHANGED <<latest, withdrawn>>

Next ==
    \/ NewJob
    \/ \E j \in 1 .. latest : Withdraw(j)
    \/ \E e \in Winning : Submit(e)

Spec == Init /\ [][Next]_vars

TypeOK ==
    /\ latest \in 0 .. MaxJobs
    /\ exhausted \subseteq withdrawn
    /\ withdrawn \subseteq 1 .. latest
=============================================================================

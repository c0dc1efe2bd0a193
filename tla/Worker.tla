------------------------------- MODULE Worker -------------------------------
(***************************************************************************)
(* The hashing threads of the miner (Worker.run) and the part of the main  *)
(* thread that replaces them (Miner.work and the end of Miner.start).      *)
(*                                                                         *)
(* All the workers of one job hold the same Job object and therefore the   *)
(* same blob array: each writes its nonce into the shared array and then   *)
(* lets the native hasher copy the array.  No lock covers the two steps,   *)
(* so every access to a cell of the nonce field is a step of its own.      *)
(* The nonce field is two cells here (four bytes in the code); what else   *)
(* is in the blob is never written and is not represented.                 *)
(***************************************************************************)
EXTENDS Integers, FiniteSets

CONSTANTS
    Threads,    \* Miner.thread, workers started for each job
    MaxJobs,    \* bound: jobs the pool sends in a behaviour
    ByteBase,   \* values of one cell of the nonce field
    Window,     \* distance of the start nonces (100000 in the code)
    Winning,    \* <<job, cells>> whose hash meets the target of the job
    PoolNonce   \* nonce field of a blob as the pool sends it

Cells == {0, 1}
Bytes == 0 .. (ByteBase - 1)
Field == [Cells -> Bytes]
Nonces == 0 .. (ByteBase * ByteBase - 1)
Jobs == 1 .. MaxJobs
Workers == Jobs \X (0 .. (Threads - 1))

ASSUME ConstantsAssumption ==
    /\ Threads \in Nat
    /\ MaxJobs \in Nat
    /\ ByteBase \in Nat \ {0}
    /\ Window \in Nat
    /\ Winning \subseteq Jobs \X Field
    /\ PoolNonce \in Field

Share == [job : 0 .. MaxJobs, nonce : Field, hashed : Field]
NoShare == [job |-> 0, nonce |-> PoolNonce, hashed |-> PoolNonce]

VARIABLES
    main,    \* where the main thread is
    job,     \* number of the latest job, 0 before the first
    set,     \* Miner.set
    todo,    \* workers the interrupt loop has not visited yet
    pc,      \* where each worker is
    nonce,   \* local variable nonce of each worker
    at,      \* cell the worker accesses next
    input,   \* private copy of the nonce field the native hasher works on
    flag,    \* interrupt status of each worker
    blob,    \* nonce field of the blob of each job, shared by its workers
    share,   \* the last share written to the socket
    late     \* shares sent by a worker whose interrupt was pending

mainVars == <<main, job, set, todo>>
localVars == <<pc, nonce, at, input>>
vars == <<main, job, set, todo, pc, nonce, at, input, flag, blob, share, late>>

-----------------------------------------------------------------------------
Byte(n, k) == (IF k = 0 THEN n ELSE n \div ByteBase) % ByteBase
Encode(n) == [k \in Cells |-> Byte(n, k)]
StartNonce(i) == (Window * i) % (ByteBase * ByteBase)
Ended == {"done", "died"}
Running(w) == pc[w] \notin Ended \cup {"new"}

Init ==
    /\ main = "reading"
    /\ job = 0
    /\ set = {}
    /\ todo = {}
    /\ pc = [w \in Workers |-> "new"]
    /\ nonce = [w \in Workers |-> StartNonce(w[2])]
    /\ at = [w \in Workers |-> 0]
    /\ input = [w \in Workers |-> PoolNonce]
    /\ flag = [w \in Workers |-> FALSE]
    /\ blob = [j \in Jobs |-> PoolNonce]
    /\ share = NoShare
    /\ late = [w \in Workers |-> 0]

-----------------------------------------------------------------------------
(* The main thread. *)

\* Mutant: the old workers are forgotten without an interrupt.
Receive_Forgets ==
    /\ main = "reading"
    /\ job < MaxJobs
    /\ job' = job + 1
    /\ set' = {}
    /\ main' = "starting"
    /\ UNCHANGED <<todo, localVars, flag, blob, share, late>>

\* A line with a job: work(job) begins its interrupt loop.
Receive ==
    /\ main = "reading"
    /\ job < MaxJobs
    /\ job' = job + 1
    /\ todo' = set
    /\ main' = "interrupting"
    /\ UNCHANGED <<set, localVars, flag, blob, share, late>>

\* The connection is lost, or handling a line threw.
Lose ==
    /\ main = "reading"
    /\ todo' = set
    /\ main' = "tearing down"
    /\ UNCHANGED <<job, set, localVars, flag, blob, share, late>>

\* thread.interrupt(), which has no effect on a thread that has ended.
Interrupt(w) ==
    /\ main \in {"interrupting", "tearing down"}
    /\ w \in todo
    /\ todo' = todo \ {w}
    /\ flag' = [flag EXCEPT ![w] = Running(w)]
    /\ UNCHANGED <<main, job, set, localVars, blob, share, late>>

\* Mutant: the set is cleared before the loop has visited all of it.
Clear_Early ==
    /\ main \in {"interrupting", "tearing down"}
    /\ todo' = {}
    /\ set' = {}
    /\ main' = IF main = "interrupting" THEN "starting" ELSE "down"
    /\ UNCHANGED <<job, localVars, flag, blob, share, late>>

\* The set is cleared although none of its threads was joined.
Clear ==
    /\ main \in {"interrupting", "tearing down"}
    /\ todo = {}
    /\ set' = {}
    /\ main' = IF main = "interrupting" THEN "starting" ELSE "down"
    /\ UNCHANGED <<job, todo, localVars, flag, blob, share, late>>

StartWorker(w) ==
    /\ main = "starting"
    /\ w = <<job, Cardinality(set)>>
    /\ set' = set \cup {w}
    /\ pc' = [pc EXCEPT ![w] = "check"]
    /\ UNCHANGED <<main, job, todo, nonce, at, input, flag, blob, share, late>>

Started ==
    /\ main = "starting"
    /\ Cardinality(set) = Threads
    /\ main' = "reading"
    /\ UNCHANGED <<job, set, todo, localVars, flag, blob, share, late>>

Reconnect ==
    /\ main = "down"
    /\ main' = "reading"
    /\ UNCHANGED <<job, set, todo, localVars, flag, blob, share, late>>

Main ==
    \/ Receive
    \/ Lose
    \/ Clear
    \/ Started
    \/ Reconnect
    \/ \E w \in Workers : Interrupt(w) \/ StartWorker(w)

-----------------------------------------------------------------------------
(* One worker. *)

\* Mutant: the loop never asks for the interrupt status.
Check_Deaf(w) ==
    /\ pc[w] = "check"
    /\ pc' = [pc EXCEPT ![w] = "write"]
    /\ UNCHANGED <<mainVars, nonce, at, input, flag, blob, share, late>>

\* Mutant: the status is reset before the loop condition reads it.
Check_Swallows(w) ==
    /\ pc[w] = "check"
    /\ pc' = [pc EXCEPT ![w] = "write"]
    /\ flag' = [flag EXCEPT ![w] = FALSE]
    /\ UNCHANGED <<mainVars, nonce, at, input, blob, share, late>>

\* interrupted() reads the interrupt status and resets it.
Check(w) ==
    /\ pc[w] = "check"
    /\ pc' = [pc EXCEPT ![w] = IF flag[w] THEN "done" ELSE "write"]
    /\ flag' = [flag EXCEPT ![w] = FALSE]
    /\ UNCHANGED <<mainVars, nonce, at, input, blob, share, late>>

\* Move to the next cell of the nonce field, or on to the step that follows.
Advance(w, next) ==
    IF at[w] = 1
    THEN /\ at' = [at EXCEPT ![w] = 0]
         /\ pc' = [pc EXCEPT ![w] = next]
    ELSE /\ at' = [at EXCEPT ![w] = 1]
         /\ UNCHANGED pc

\* Mutant: only the first cell of the nonce is written.
WriteCell_First(w) ==
    /\ pc[w] = "write"
    /\ blob' = [blob EXCEPT ![w[1]][0] = Byte(nonce[w], 0)]
    /\ Advance(w, "copy")
    /\ UNCHANGED <<mainVars, nonce, input, flag, share, late>>

\* blob[39 + k] = (byte) (nonce >> 8 * k), on the array all workers share
WriteCell(w) ==
    /\ pc[w] = "write"
    /\ blob' = [blob EXCEPT ![w[1]][at[w]] = Byte(nonce[w], at[w])]
    /\ Advance(w, "copy")
    /\ UNCHANGED <<mainVars, nonce, input, flag, share, late>>

\* Hasher.slowHash copies the array before it hashes.
CopyCell(w) ==
    /\ pc[w] = "copy"
    /\ input' = [input EXCEPT ![w][at[w]] = blob[w[1]][at[w]]]
    /\ Advance(w, "judge")
    /\ UNCHANGED <<mainVars, nonce, flag, blob, share, late>>

\* Mutant: every hash is sent.
Judge_Any(w) ==
    /\ pc[w] = "judge"
    /\ pc' = [pc EXCEPT ![w] = "send"]
    /\ UNCHANGED <<mainVars, nonce, at, input, flag, blob, share, late>>

\* difficulty >= 0 && difficulty <= target, for the hash of the copy
Judge(w) ==
    /\ pc[w] = "judge"
    /\ pc' = [pc EXCEPT ![w] = IF <<w[1], input[w]>> \in Winning
                               THEN "send" ELSE "prune"]
    /\ UNCHANGED <<mainVars, nonce, at, input, flag, blob, share, late>>

\* Miner.send, with the nonce the worker counts and the hash of the copy
Send(w) ==
    /\ pc[w] = "send"
    /\ share' = [job |-> w[1], nonce |-> Encode(nonce[w]), hashed |-> input[w]]
    /\ late' = [late EXCEPT ![w] = IF flag[w] THEN @ + 1 ELSE @]
    /\ pc' = [pc EXCEPT ![w] = "prune"]
    /\ UNCHANGED <<mainVars, nonce, at, input, flag, blob>>

\* The statistics are pruned under their lock (see Hashrate).
Prune(w) ==
    /\ pc[w] = "prune"
    /\ pc' = [pc EXCEPT ![w] = "add"]
    /\ UNCHANGED <<mainVars, nonce, at, input, flag, blob, share, late>>

\* Mutant: the nonce grows beyond the field.
Add_Unbounded(w) ==
    /\ pc[w] = "add"
    /\ nonce' = [nonce EXCEPT ![w] = @ + 1]
    /\ pc' = [pc EXCEPT ![w] = "check"]
    /\ UNCHANGED <<mainVars, at, input, flag, blob, share, late>>

\* The time of the hash is added and the nonce incremented, with wraparound.
Add(w) ==
    /\ pc[w] = "add"
    /\ nonce' = [nonce EXCEPT ![w] = (@ + 1) % (ByteBase * ByteBase)]
    /\ pc' = [pc EXCEPT ![w] = "check"]
    /\ UNCHANGED <<mainVars, at, input, flag, blob, share, late>>

\* The unsynchronised add of another worker has corrupted the statistics:
\* pop or add throws, nothing catches it and the thread ends.
Die(w) ==
    /\ pc[w] \in {"prune", "add"}
    /\ pc' = [pc EXCEPT ![w] = "died"]
    /\ flag' = [flag EXCEPT ![w] = FALSE]
    /\ UNCHANGED <<mainVars, nonce, at, input, blob, share, late>>

Run(w) ==
    \/ Check(w)
    \/ WriteCell(w)
    \/ CopyCell(w)
    \/ Judge(w)
    \/ Send(w)
    \/ Prune(w)
    \/ Add(w)
    \/ Die(w)

Next == Main \/ \E w \in Workers : Run(w)

\* The JVM schedules every runnable thread again and again; nothing is assumed
\* about the pool, and therefore nothing about the main thread.
Spec == Init /\ [][Next]_vars /\ \A w \in Workers : WF_vars(Run(w))

-----------------------------------------------------------------------------
TypeOK ==
    /\ main \in {"reading", "interrupting", "starting", "tearing down", "down"}
    /\ job \in 0 .. MaxJobs
    /\ set \subseteq Workers
    /\ todo \subseteq set
    /\ pc \in [Workers -> {"new", "check", "write", "copy", "judge", "send",
                           "prune", "add", "done", "died"}]
    /\ nonce \in [Workers -> Nonces]
    /\ at \in [Workers -> Cells]
    /\ input \in [Workers -> Field]
    /\ flag \in [Workers -> BOOLEAN]
    /\ blob \in [Jobs -> Field]
    /\ share \in Share
    /\ late \in [Workers -> Nat]

(* A share put on the wire carries the nonce that was hashed, and its hash *)
(* meets the target of its job (Worker.java:30-43, Miner.java:178-191).    *)
ShareValid ==
    share # NoShare =>
        /\ share.nonce = share.hashed
        /\ <<share.job, share.nonce>> \in Winning

(* With one thread a job every share is valid, although workers of older   *)
(* jobs go on hashing beside the current one: each job has a blob of its   *)
(* own (Worker.java:27, Miner.java:111).                                   *)
SoloShareValid == Threads = 1 => ShareValid

(* A worker tests its interrupt status only between two hashes, so it may  *)
(* still send after it was interrupted, but one share at most              *)
(* (Worker.java:29, Miner.java:195-198).                                   *)
AtMostOneLateShare == \A w \in Workers : late[w] <= 1

(* The main thread never loses a worker: one that runs with no interrupt   *)
(* pending is in the set, and the loop that empties the set has still to   *)
(* visit it (Miner.java:98-101, 195-204).                                  *)
NoOrphan ==
    \A w \in Workers : Running(w) /\ ~flag[w] =>
        /\ w \in set
        /\ main \in {"interrupting", "tearing down"} => w \in todo

(* While the main thread reads, the workers that were not told to stop all *)
(* work on the latest job, whatever was still running when it arrived      *)
(* (Miner.java:193-205).                                                   *)
OnlyLatestJob ==
    main = "reading" => \A w \in Workers : Running(w) /\ ~flag[w] => w[1] = job

(* An interrupted worker ends: the status it was given is never swallowed  *)
(* by the test that resets it (Worker.java:29).                            *)
InterruptedEnds == \A w \in Workers : flag[w] ~> pc[w] \in Ended

-----------------------------------------------------------------------------
(* With one thread a job the miner keeps the promise of Shares. *)
Withdrawn == {j \in Jobs : \E w \in Workers :
                 w[1] = j /\ (flag[w] \/ pc[w] \in Ended)}
Exhausted == {j \in Jobs : \E w \in Workers : w[1] = j /\ late[w] > 0}

Promise == INSTANCE Shares WITH
    None <- PoolNonce,
    latest <- job,
    withdrawn <- Withdrawn,
    exhausted <- Exhausted,
    share <- <<share.job, share.nonce>>

(* Every step of main thread and workers is one the abstract specification *)
(* allows: shares of a current job are valid, a withdrawn job brings at    *)
(* most one more (Worker.java:23-53 with Miner.java:98-101, 193-205).      *)
KeepsPromise == Promise!Spec
=============================================================================

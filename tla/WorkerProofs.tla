---------------------------- MODULE WorkerProofs ----------------------------
(***************************************************************************)
(* Proofs about Worker, for every number of threads and jobs, every width  *)
(* of the nonce field, every set of winning nonces.                        *)
(***************************************************************************)
EXTENDS Worker, FiniteSetTheorems, TLAPS

(* A worker is a pair of its job and its index. *)
LEMMA WorkerPair ==
    ASSUME NEW w \in Workers
    PROVE  /\ w[1] \in Jobs
           /\ w[1] \in 0 .. MaxJobs
           /\ w[2] \in 0 .. (Threads - 1)
           /\ w = <<w[1], w[2]>>
BY ConstantsAssumption DEF Workers, Jobs

(* The encoding of a nonce fills the nonce field. *)
LEMMA ByteType ==
    ASSUME NEW n \in Nonces, NEW k \in Cells
    PROVE  Byte(n, k) \in Bytes
<1>1. n \in Int /\ n \div ByteBase \in Int
    BY ConstantsAssumption DEF Nonces
<1>2. \A x \in Int : x % ByteBase \in Bytes
    BY ConstantsAssumption DEF Bytes
<1> QED
    BY <1>1, <1>2 DEF Byte

(* A nonce is written as a field. *)
LEMMA EncodeType ==
    ASSUME NEW n \in Nonces
    PROVE  Encode(n) \in Field
BY ByteType DEF Encode, Field

(* The product that bounds the nonces is a positive number. *)
LEMMA NonceBound == ByteBase * ByteBase \in Nat \ {0}
BY ConstantsAssumption

(* Reducing a number by the bound gives a nonce. *)
LEMMA NonceWrap ==
    ASSUME NEW n \in Nat
    PROVE  n % (ByteBase * ByteBase) \in Nonces
<1> DEFINE b == ByteBase * ByteBase
<1>1. b \in Nat \ {0}
    BY NonceBound
<1> HIDE DEF b
<1>2. n % b \in 0 .. (b - 1)
    BY <1>1
<1> QED
    BY <1>2 DEF b, Nonces

(* nonce++ stays a nonce. *)
LEMMA NonceNext ==
    ASSUME NEW n \in Nonces
    PROVE  (n + 1) % (ByteBase * ByteBase) \in Nonces
<1>1. n + 1 \in Nat
    BY NonceBound DEF Nonces
<1> QED
    BY <1>1, NonceWrap

(* Counting under a condition keeps an array of counters one. *)
LEMMA CountType ==
    ASSUME NEW S, NEW f \in [S -> Nat], NEW x \in S, NEW b \in BOOLEAN
    PROVE  [f EXCEPT ![x] = IF b THEN @ + 1 ELSE @] \in [S -> Nat]
OBVIOUS

-----------------------------------------------------------------------------
(* Type correctness. *)
LEMMA TypeInit == Init => TypeOK
<1> SUFFICES ASSUME Init PROVE TypeOK
    OBVIOUS
<1>1. nonce \in [Workers -> Nonces]
    <2> SUFFICES ASSUME NEW w \in Workers PROVE StartNonce(w[2]) \in Nonces
        BY DEF Init
    <2>1. Window * w[2] \in Nat
        BY WorkerPair, ConstantsAssumption
    <2> QED
        BY <2>1, NonceWrap DEF StartNonce
<1>2. 0 \in 0 .. MaxJobs
    BY ConstantsAssumption
<1> QED
    BY <1>1, <1>2, ConstantsAssumption DEF Init, TypeOK, Cells, NoShare, Share

(* No step breaks the types. *)
LEMMA TypeStep == TypeOK /\ [Next]_vars => TypeOK'
<1> SUFFICES ASSUME TypeOK, [Next]_vars PROVE TypeOK'
    OBVIOUS
<1> USE DEF TypeOK
<1>1. CASE Receive
    BY <1>1, ConstantsAssumption DEF Receive, localVars
<1>2. CASE Lose
    BY <1>2 DEF Lose, localVars
<1>3. CASE Clear
    BY <1>3 DEF Clear, localVars
<1>4. CASE Started
    BY <1>4 DEF Started, localVars
<1>5. CASE Reconnect
    BY <1>5 DEF Reconnect, localVars
<1>6. ASSUME NEW w \in Workers, Interrupt(w) PROVE TypeOK'
    BY <1>6 DEF Interrupt, localVars, Running
<1>7. ASSUME NEW w \in Workers, StartWorker(w) PROVE TypeOK'
    BY <1>7 DEF StartWorker
<1>8. ASSUME NEW w \in Workers, Check(w) PROVE TypeOK'
    BY <1>8 DEF Check, mainVars
<1>9. ASSUME NEW w \in Workers, WriteCell(w) PROVE TypeOK'
    <2>1. Byte(nonce[w], at[w]) \in Bytes
        BY ByteType
    <2>2. blob' \in [Jobs -> Field]
        BY <1>9, <2>1, WorkerPair DEF WriteCell, Field
    <2> QED
        BY <1>9, <2>2 DEF WriteCell, Advance, mainVars, Cells
<1>10. ASSUME NEW w \in Workers, CopyCell(w) PROVE TypeOK'
    <2>1. blob[w[1]][at[w]] \in Bytes
        BY WorkerPair DEF Field
    <2>2. input' \in [Workers -> Field]
        BY <1>10, <2>1 DEF CopyCell, Field
    <2>3. at' \in [Workers -> Cells]
        BY <1>10 DEF CopyCell, Advance, Cells
    <2>4. pc' \in [Workers -> {"new", "check", "write", "copy", "judge", "send",
                               "prune", "add", "done", "died"}]
        BY <1>10 DEF CopyCell, Advance
    <2> QED
        BY <1>10, <2>2, <2>3, <2>4 DEF CopyCell, mainVars
<1>11. ASSUME NEW w \in Workers, Judge(w) PROVE TypeOK'
    BY <1>11 DEF Judge, mainVars
<1>12. ASSUME NEW w \in Workers, Send(w) PROVE TypeOK'
    <2>1. w[1] \in 0 .. MaxJobs /\ Encode(nonce[w]) \in Field /\ input[w] \in Field
        BY EncodeType, WorkerPair
    <2>2. share' \in Share
        BY <1>12, <2>1 DEF Send, Share
    <2>3. late' \in [Workers -> Nat]
        BY <1>12, CountType DEF Send
    <2>4. pc' \in [Workers -> {"new", "check", "write", "copy", "judge", "send",
                               "prune", "add", "done", "died"}]
        BY <1>12 DEF Send
    <2> QED
        BY <1>12, <2>2, <2>3, <2>4 DEF Send, mainVars
<1>13. ASSUME NEW w \in Workers, Prune(w) PROVE TypeOK'
    BY <1>13 DEF Prune, mainVars
<1>14. ASSUME NEW w \in Workers, Add(w) PROVE TypeOK'
    <2>1. nonce' \in [Workers -> Nonces]
        BY <1>14, NonceNext DEF Add
    <2> QED
        BY <1>14, <2>1 DEF Add, mainVars
<1>15. ASSUME NEW w \in Workers, Die(w) PROVE TypeOK'
    BY <1>15 DEF Die, mainVars
<1>16. CASE UNCHANGED vars
    BY <1>16 DEF vars
<1> QED
    BY <1>1, <1>2, <1>3, <1>4, <1>5, <1>6, <1>7, <1>8, <1>9, <1>10, <1>11,
       <1>12, <1>13, <1>14, <1>15, <1>16 DEF Next, Main, Run

(* Every variable keeps its type: counters stay in range, the main thread  *)
(* only visits workers that are in its set (Worker.java, Miner.java).      *)
THEOREM TypeCorrect == Spec => []TypeOK
BY TypeInit, TypeStep, PTL DEF Spec

-----------------------------------------------------------------------------
(* Workers that main has not created yet.  A new worker is neither in the  *)
(* set nor interrupted, and StartWorker only creates new ones.             *)
Fresh ==
    /\ IsFiniteSet(set)
    /\ \A w \in Workers : pc[w] = "new" => w \notin set /\ ~flag[w] /\ late[w] = 0
    /\ \A w \in Workers : w[1] > job => pc[w] = "new"
    /\ main = "interrupting" => \A w \in Workers : w[1] = job => pc[w] = "new"
    /\ main = "starting" =>
          \A w \in Workers :
             w[1] = job /\ w[2] >= Cardinality(set) => pc[w] = "new"

(* The steps of a worker that is running leave Fresh alone. *)
LEMMA FreshRun ==
    ASSUME TypeOK, Fresh, NEW w \in Workers, Running(w),
           UNCHANGED mainVars,
           \A v \in Workers : v # w => /\ pc'[v] = pc[v]
                                       /\ flag'[v] = flag[v]
                                       /\ late'[v] = late[v],
           pc'[w] # "new"
    PROVE  Fresh'
BY DEF Fresh, Running, mainVars

(* Fresh holds at first. *)
LEMMA FreshInit == Init => Fresh
BY FS_EmptySet DEF Init, Fresh

(* Every step keeps Fresh. *)
LEMMA FreshStep == TypeOK /\ Fresh /\ [Next]_vars => Fresh'
<1> SUFFICES ASSUME TypeOK, Fresh, [Next]_vars PROVE Fresh'
    OBVIOUS
<1>1. CASE Receive
    BY <1>1, WorkerPair DEF Receive, localVars, Fresh, TypeOK, Jobs
<1>2. CASE Lose
    BY <1>2 DEF Lose, localVars, Fresh
<1>3. CASE Clear
    BY <1>3, FS_EmptySet DEF Clear, localVars, Fresh
<1>4. CASE Started
    BY <1>4 DEF Started, localVars, Fresh
<1>5. CASE Reconnect
    BY <1>5 DEF Reconnect, localVars, Fresh
<1>6. ASSUME NEW w \in Workers, Interrupt(w) PROVE Fresh'
    <2>1. w \in set /\ pc[w] # "new"
        BY <1>6 DEF Interrupt, TypeOK, Fresh
    <2> QED
        BY <1>6, <2>1 DEF Interrupt, localVars, Fresh, TypeOK
<1>7. ASSUME NEW w \in Workers, StartWorker(w) PROVE Fresh'
    <2>1. pc[w] = "new" /\ w \notin set
        <3>1. w[1] = job /\ w[2] = Cardinality(set)
            BY <1>7 DEF StartWorker
        <3>2. Cardinality(set) \in Nat
            BY FS_CardinalityType DEF Fresh
        <3>3. w[2] >= Cardinality(set)
            BY <3>1, <3>2
        <3> QED
            BY <1>7, <3>1, <3>3 DEF StartWorker, Fresh
    <2>2. IsFiniteSet(set') /\ Cardinality(set') = Cardinality(set) + 1
        BY <1>7, <2>1, FS_AddElement DEF StartWorker, Fresh
    <2>3. Cardinality(set) \in Nat
        BY FS_CardinalityType DEF Fresh
    <2>4. ASSUME NEW v \in Workers, v[1] = job, v[2] >= Cardinality(set')
          PROVE  pc'[v] = "new"
        <3>1. v[2] \in Int /\ v[2] >= Cardinality(set) /\ v[2] # Cardinality(set)
            BY <2>2, <2>3, <2>4, WorkerPair
        <3>2. pc[v] = "new" /\ v # w
            BY <1>7, <2>4, <3>1 DEF StartWorker, Fresh
        <3> QED
            BY <1>7, <3>2 DEF StartWorker, TypeOK
    <2>5. ASSUME NEW v \in Workers, v[1] > job PROVE pc'[v] = "new"
        <3>1. v # w
            BY <1>7, <2>5 DEF StartWorker, TypeOK
        <3> QED
            BY <1>7, <2>5, <3>1 DEF StartWorker, Fresh, TypeOK
    <2> QED
        BY <1>7, <2>1, <2>2, <2>4, <2>5 DEF StartWorker, Fresh, TypeOK
<1>8. ASSUME NEW w \in Workers, Run(w) PROVE Fresh'
    <2>1. Running(w) /\ pc'[w] # "new" /\ UNCHANGED mainVars
        BY <1>8 DEF Run, Running, Ended, TypeOK, Check, WriteCell, CopyCell,
                    Advance, Judge, Send, Prune, Add, Die
    <2>2. \A v \in Workers : v # w => /\ pc'[v] = pc[v]
                                      /\ flag'[v] = flag[v]
                                      /\ late'[v] = late[v]
        BY <1>8 DEF Run, TypeOK, Check, WriteCell, CopyCell,
                    Advance, Judge, Send, Prune, Add, Die
    <2> QED
        BY <2>1, <2>2, FreshRun
<1>9. CASE UNCHANGED vars
    BY <1>9 DEF vars, Fresh
<1> QED
    BY <1>1, <1>2, <1>3, <1>4, <1>5, <1>6, <1>7, <1>8, <1>9 DEF Next, Main

-----------------------------------------------------------------------------
(* What main knows of the running workers. *)
SetOfLatest ==
    /\ main \in {"reading", "starting"} => \A w \in set : w[1] = job
    /\ main = "down" => set = {}

Tracked == NoOrphan /\ SetOfLatest

(* Tracked holds at first. *)
LEMMA TrackedInit == Init => Tracked
BY DEF Init, Tracked, NoOrphan, SetOfLatest, Running

(* Every step keeps Tracked: no worker leaves the set before its interrupt. *)
LEMMA TrackedStep == TypeOK /\ Tracked /\ [Next]_vars => Tracked'
<1> SUFFICES ASSUME TypeOK, Tracked, [Next]_vars PROVE Tracked'
    OBVIOUS
<1> USE DEF Tracked, NoOrphan, SetOfLatest
<1>1. CASE Receive
    BY <1>1 DEF Receive, localVars, Running
<1>2. CASE Lose
    BY <1>2 DEF Lose, localVars, Running
<1>3. CASE Clear
    BY <1>3 DEF Clear, localVars, Running
<1>4. CASE Started
    BY <1>4 DEF Started, localVars, Running
<1>5. CASE Reconnect
    <2>1. main = "down" /\ main' = "reading" /\ UNCHANGED <<job, set, pc, flag>>
        BY <1>5 DEF Reconnect, localVars
    <2> QED
        BY <2>1 DEF Running
<1>6. ASSUME NEW w \in Workers, Interrupt(w) PROVE Tracked'
    BY <1>6 DEF Interrupt, localVars, Running, TypeOK
<1>7. ASSUME NEW w \in Workers, StartWorker(w) PROVE Tracked'
    BY <1>7 DEF StartWorker, Running, TypeOK
<1>8. ASSUME NEW w \in Workers, Run(w) PROVE Tracked'
    <2>1. /\ UNCHANGED mainVars
          /\ Running(w)
          /\ flag'[w] = flag[w] \/ pc'[w] \in Ended \/ ~flag[w]
          /\ \A v \in Workers : v # w => pc'[v] = pc[v] /\ flag'[v] = flag[v]
        BY <1>8 DEF Run, Running, Ended, TypeOK, Check, WriteCell, CopyCell,
                    Advance, Judge, Send, Prune, Add, Die
    <2> QED
        BY <2>1 DEF mainVars, Running
<1>9. CASE UNCHANGED vars
    BY <1>9 DEF vars, Running
<1> QED
    BY <1>1, <1>2, <1>3, <1>4, <1>5, <1>6, <1>7, <1>8, <1>9 DEF Next, Main

(* The main thread never loses track of a running worker that it has not   *)
(* told to stop, whatever the number of threads and jobs                   *)
(* (Miner.java:98-101, 193-205).                                           *)
THEOREM NoOrphanHolds == Spec => []NoOrphan
<1>1. Init => Tracked
    BY TrackedInit
<1>2. TypeOK /\ Tracked /\ [Next]_vars => Tracked'
    BY TrackedStep
<1>3. Tracked => NoOrphan
    BY DEF Tracked
<1> QED
    BY <1>1, <1>2, <1>3, TypeCorrect, PTL DEF Spec

(* Only workers of the latest job go on while the main thread reads: the   *)
(* set holds all that were not told to stop, and only such workers         *)
(* (Miner.java:193-205).                                                   *)
THEOREM OnlyLatestJobHolds == Spec => []OnlyLatestJob
<1>1. Init => Tracked
    BY TrackedInit
<1>2. TypeOK /\ Tracked /\ [Next]_vars => Tracked'
    BY TrackedStep
<1>3. Tracked => OnlyLatestJob
    BY DEF Tracked, NoOrphan, SetOfLatest, OnlyLatestJob
<1> QED
    BY <1>1, <1>2, <1>3, TypeCorrect, PTL DEF Spec

-----------------------------------------------------------------------------
(* Late shares: a pending interrupt stays pending until the worker ends,   *)
(* and a worker that sent a share late is past its only chance to send.    *)
Lateness ==
    \A w \in Workers :
        /\ flag[w] => Running(w)
        /\ late[w] = 0 \/ late[w] = 1
        /\ late[w] = 1 => \/ pc[w] \in Ended
                          \/ flag[w] /\ pc[w] \in {"prune", "add", "check"}

(* Lateness holds at first. *)
LEMMA LatenessInit == Init => Lateness
BY DEF Init, Lateness

(* Every step keeps Lateness: a worker that sends late does not come back to*)
(* sending.                                                                *)
LEMMA LatenessStep == TypeOK /\ Fresh /\ Lateness /\ [Next]_vars => Lateness'
<1> SUFFICES ASSUME TypeOK, Fresh, Lateness, [Next]_vars PROVE Lateness'
    OBVIOUS
<1>1. CASE UNCHANGED <<pc, flag, late>>
    BY <1>1 DEF Lateness, Running
<1>2. CASE Receive \/ Lose \/ Clear \/ Started \/ Reconnect \/ UNCHANGED vars
    BY <1>1, <1>2 DEF Receive, Lose, Clear, Started, Reconnect, localVars, vars
<1>3. ASSUME NEW w \in Workers, Interrupt(w) PROVE Lateness'
    BY <1>3 DEF Interrupt, localVars, Lateness, Running, Ended, TypeOK
<1>4. ASSUME NEW w \in Workers, StartWorker(w) PROVE Lateness'
    <2>1. pc[w] = "new" \/ w[2] < Cardinality(set)
        <3>1. w[1] = job /\ w[2] = Cardinality(set)
            BY <1>4 DEF StartWorker
        <3>2. Cardinality(set) \in Nat
            BY FS_CardinalityType DEF Fresh
        <3> QED
            BY <1>4, <3>1, <3>2 DEF StartWorker, Fresh
    <2>2. pc[w] = "new"
        <3>1. w[2] = Cardinality(set) /\ Cardinality(set) \in Nat
            BY <1>4, FS_CardinalityType DEF StartWorker, Fresh
        <3> QED
            BY <2>1, <3>1
    <2> QED
        BY <1>4, <2>2 DEF StartWorker, Lateness, Running, Ended, TypeOK, Fresh
<1>5. ASSUME NEW w \in Workers, Check(w) PROVE Lateness'
    BY <1>5 DEF Check, mainVars, Lateness, Running, Ended, TypeOK
<1>6. ASSUME NEW w \in Workers, Send(w) PROVE Lateness'
    <2>1. late[w] = 0 /\ pc[w] = "send"
        BY <1>6 DEF Send, Lateness, Ended
    <2>2. /\ flag[w] => late'[w] = 1
          /\ ~flag[w] => late'[w] = 0
        <3>1. late'[w] = IF flag[w] THEN late[w] + 1 ELSE late[w]
            BY <1>6 DEF Send, TypeOK
        <3>2. 0 + 1 = 1
            OBVIOUS
        <3> HIDE DEF TypeOK
        <3> QED
            BY <2>1, <3>1, <3>2
    <2>3. /\ pc'[w] = "prune" /\ flag' = flag
          /\ \A v \in Workers : v # w => pc'[v] = pc[v] /\ late'[v] = late[v]
        BY <1>6 DEF Send, TypeOK
    <2>4. Running(w)' /\ (late'[w] = 0 \/ (late'[w] = 1 /\ flag'[w]))
        <3>1. Running(w)'
            BY <2>3 DEF Running, Ended
        <3>2. flag'[w] <=> flag[w]
            BY <2>3
        <3> QED
            BY <2>2, <3>1, <3>2
    <2>5. \A v \in Workers : v # w => Running(v)' = Running(v) /\ flag'[v] = flag[v]
        BY <2>3 DEF Running
    <2> QED
        BY <2>3, <2>4, <2>5 DEF Lateness
<1>7. ASSUME NEW w \in Workers,
             WriteCell(w) \/ CopyCell(w) \/ Judge(w) \/ Prune(w) \/ Add(w) \/ Die(w)
      PROVE  Lateness'
    <2>1. /\ late' = late
          /\ \A v \in Workers : v # w => pc'[v] = pc[v] /\ flag'[v] = flag[v]
        BY <1>7 DEF WriteCell, CopyCell, Advance, Judge, Prune, Add, Die, TypeOK
    <2>2. \/ pc'[w] \in Ended /\ ~flag'[w]
          \/ /\ flag'[w] = flag[w]
             /\ Running(w) /\ Running(w)'
             /\ pc[w] \in {"prune", "add"} => pc'[w] \in {"add", "check"}
        BY <1>7 DEF WriteCell, CopyCell, Advance, Judge, Prune, Add, Die, TypeOK,
                    Running, Ended
    <2>3. late[w] = 1 => pc[w] \in {"prune", "add"}
        BY <1>7 DEF WriteCell, CopyCell, Judge, Prune, Add, Die, Lateness, Ended
    <2> QED
        BY <2>1, <2>2, <2>3 DEF Lateness, Running
<1> QED
    BY <1>2, <1>3, <1>4, <1>5, <1>6, <1>7 DEF Next, Main, Run

(* No worker sends two shares after it was told to stop, however long the  *)
(* hash it was working on takes (Worker.java:29-52).                       *)
THEOREM AtMostOneLateShareHolds == Spec => []AtMostOneLateShare
<1>1. Init => Fresh /\ Lateness
    BY FreshInit, LatenessInit
<1>2. TypeOK /\ Fresh /\ Lateness /\ [Next]_vars => (Fresh /\ Lateness)'
    BY FreshStep, LatenessStep
<1>3. Lateness => AtMostOneLateShare
    BY DEF Lateness, AtMostOneLateShare
<1> QED
    BY <1>1, <1>2, <1>3, TypeCorrect, PTL DEF Spec

-----------------------------------------------------------------------------
(* One thread a job: the blob of a job has one writer, so what the native  *)
(* hasher copies is what the worker wrote.                                 *)
OwnCells(w) ==
    /\ pc[w] \notin {"write", "copy"} => at[w] = 0
    /\ pc[w] = "write" /\ at[w] = 1 => blob[w[1]][0] = Byte(nonce[w], 0)
    /\ pc[w] = "copy" => blob[w[1]] = Encode(nonce[w])
    /\ pc[w] = "copy" /\ at[w] = 1 => input[w][0] = Byte(nonce[w], 0)
    /\ pc[w] \in {"judge", "send"} => input[w] = Encode(nonce[w])
    /\ pc[w] = "send" => <<w[1], input[w]>> \in Winning

Solo == ShareValid /\ \A w \in Workers : OwnCells(w)

(* Workers of different jobs share nothing. *)
LEMMA SoloWorkers ==
    ASSUME Threads = 1, NEW v \in Workers, NEW w \in Workers, v # w
    PROVE  v[1] # w[1]
<1>1. v[2] = 0 /\ w[2] = 0
    BY WorkerPair
<1> QED
    BY <1>1, WorkerPair

(* A field is what its two cells are. *)
LEMMA FieldCells ==
    ASSUME NEW f \in Field, NEW n, f[0] = Byte(n, 0), f[1] = Byte(n, 1)
    PROVE  f = Encode(n)
BY DEF Field, Encode, Cells

(* Solo holds at first. *)
LEMMA SoloInit == Init => Solo
BY DEF Init, Solo, ShareValid, OwnCells

(* A step that leaves the cells of v alone. *)
LEMMA OwnCellsKept ==
    ASSUME NEW v \in Workers, OwnCells(v),
           pc'[v] = pc[v], at'[v] = at[v], nonce'[v] = nonce[v],
           input'[v] = input[v], blob'[v[1]] = blob[v[1]]
    PROVE  OwnCells(v)'
BY DEF OwnCells, Encode, Byte

(* With one thread a job every step keeps Solo: nobody else writes to its  *)
(* blob.                                                                   *)
LEMMA SoloStep ==
    ASSUME Threads = 1, TypeOK, TypeOK', Fresh, Solo, [Next]_vars
    PROVE  Solo'
<1>1. CASE UNCHANGED <<localVars, blob, share>>
    <2>1. ASSUME NEW v \in Workers PROVE OwnCells(v)'
        BY <1>1, OwnCellsKept DEF localVars, Solo
    <2> QED
        BY <1>1, <2>1 DEF Solo, ShareValid
<1>2. CASE Receive \/ Lose \/ Clear \/ Started \/ Reconnect \/ UNCHANGED vars
    BY <1>1, <1>2 DEF Receive, Lose, Clear, Started, Reconnect, localVars, vars
<1>3. ASSUME NEW w \in Workers, Interrupt(w) PROVE Solo'
    BY <1>1, <1>3 DEF Interrupt
<1>4. ASSUME NEW w \in Workers, StartWorker(w) PROVE Solo'
    <2>1. pc[w] = "new"
        <3>1. /\ w[1] = job /\ w[2] = Cardinality(set)
              /\ Cardinality(set) \in Nat
            BY <1>4, FS_CardinalityType DEF StartWorker, Fresh
        <3>2. w[2] >= Cardinality(set)
            BY <3>1
        <3> QED
            BY <1>4, <3>1, <3>2 DEF StartWorker, Fresh
    <2>2. ASSUME NEW v \in Workers PROVE OwnCells(v)'
        <3>1. CASE v = w
            BY <1>4, <2>1, <3>1 DEF StartWorker, Solo, OwnCells, TypeOK
        <3>2. CASE v # w
            BY <1>4, <3>2, OwnCellsKept DEF StartWorker, Solo, TypeOK
        <3> QED
            BY <3>1, <3>2
    <2> QED
        BY <1>4, <2>2 DEF StartWorker, Solo, ShareValid
<1>5. ASSUME NEW w \in Workers, Run(w) PROVE Solo'
    <2>1. ASSUME NEW v \in Workers, v # w PROVE OwnCells(v)'
        <3>1. v[1] # w[1] /\ w[1] \in Jobs
            BY <2>1, SoloWorkers, WorkerPair
        <3>2. /\ pc'[v] = pc[v] /\ at'[v] = at[v] /\ nonce'[v] = nonce[v]
              /\ input'[v] = input[v] /\ blob'[v[1]] = blob[v[1]]
            BY <1>5, <2>1, <3>1, WorkerPair
               DEF Run, TypeOK, Check, WriteCell, CopyCell, Advance, Judge, Send,
                   Prune, Add, Die, localVars
        <3> QED
            BY <3>2, OwnCellsKept DEF Solo
    <2> SUFFICES OwnCells(w)' /\ ShareValid'
        BY <2>1 DEF Solo
    <2>2. OwnCells(w) /\ ShareValid
        BY DEF Solo
    <2>3. CASE Check(w)
        <3>1. /\ pc'[w] \in {"write", "done"} /\ pc[w] = "check"
              /\ at' = at /\ share' = share
            BY <2>3 DEF Check, TypeOK
        <3>2. at'[w] = 0
            BY <2>2, <3>1 DEF OwnCells
        <3> QED
            BY <2>2, <3>1, <3>2 DEF OwnCells, ShareValid
    <2>4. CASE WriteCell(w)
        <3> DEFINE own == blob[w[1]]
                   own1 == blob'[w[1]]
        <3>a. /\ own \in [Cells -> Bytes] /\ at[w] \in Cells
              /\ own1 = [own EXCEPT ![at[w]] = Byte(nonce[w], at[w])]
            BY <2>4, WorkerPair DEF WriteCell, TypeOK, Field
        <3>b. own1[at[w]] = Byte(nonce[w], at[w])
            BY <3>a
        <3>c. at[w] = 1 => own1[0] = own[0]
            BY <3>a DEF Cells
        <3>1. /\ blob'[w[1]][at[w]] = Byte(nonce[w], at[w])
              /\ at[w] = 1 => blob'[w[1]][0] = blob[w[1]][0]
              /\ nonce' = nonce /\ share' = share
            BY <2>4, <3>b, <3>c DEF WriteCell
        <3>2. CASE at[w] = 1
            <4>1. pc'[w] = "copy" /\ at'[w] = 0
                BY <2>4, <3>2 DEF WriteCell, Advance, TypeOK
            <4>2. blob'[w[1]] \in Field
                BY WorkerPair DEF TypeOK
            <4>3. blob'[w[1]] = Encode(nonce[w])
                BY <2>2, <2>4, <3>1, <3>2, <4>2, FieldCells DEF OwnCells, WriteCell
            <4> QED
                BY <2>2, <3>1, <4>1, <4>3 DEF OwnCells, ShareValid, Encode, Byte
        <3>3. CASE at[w] # 1
            <4>1. at[w] = 0
                BY <3>3 DEF TypeOK, Cells
            <4>2. pc'[w] = "write" /\ at'[w] = 1
                BY <2>4, <3>3 DEF WriteCell, Advance, TypeOK
            <4> QED
                BY <2>2, <3>1, <4>1, <4>2 DEF OwnCells, ShareValid, Byte
        <3> QED
            BY <3>2, <3>3
    <2>5. CASE CopyCell(w)
        <3> DEFINE own == input[w]
                   own1 == input'[w]
        <3>a. /\ own \in [Cells -> Bytes] /\ at[w] \in Cells
              /\ own1 = [own EXCEPT ![at[w]] = blob[w[1]][at[w]]]
            BY <2>5 DEF CopyCell, TypeOK, Field
        <3>b. own1[at[w]] = blob[w[1]][at[w]]
            BY <3>a
        <3>c. at[w] = 1 => own1[0] = own[0]
            BY <3>a DEF Cells
        <3>1. /\ input'[w][at[w]] = blob[w[1]][at[w]]
              /\ at[w] = 1 => input'[w][0] = input[w][0]
              /\ nonce' = nonce /\ share' = share /\ blob' = blob
            BY <2>5, <3>b, <3>c DEF CopyCell
        <3>2. blob[w[1]] = Encode(nonce[w]) /\ at[w] \in Cells
            BY <2>2, <2>5 DEF OwnCells, CopyCell, TypeOK
        <3>3. input'[w][at[w]] = Byte(nonce[w], at[w])
            BY <3>1, <3>2 DEF Encode
        <3>4. CASE at[w] = 1
            <4>1. pc'[w] = "judge" /\ at'[w] = 0
                BY <2>5, <3>4 DEF CopyCell, Advance, TypeOK
            <4>2. input'[w] \in Field
                BY DEF TypeOK
            <4>3. input'[w] = Encode(nonce[w])
                BY <2>2, <2>5, <3>1, <3>3, <3>4, <4>2, FieldCells DEF OwnCells, CopyCell
            <4> QED
                BY <2>2, <3>1, <4>1, <4>3 DEF OwnCells, ShareValid, Encode, Byte
        <3>5. CASE at[w] # 1
            <4>1. at[w] = 0
                BY <3>2, <3>5 DEF Cells
            <4>2. pc'[w] = "copy" /\ at'[w] = 1
                BY <2>5, <3>5 DEF CopyCell, Advance, TypeOK
            <4> QED
                BY <2>2, <3>1, <3>2, <3>3, <4>1, <4>2
                   DEF OwnCells, ShareValid, Byte, Encode
        <3> QED
            BY <3>4, <3>5
    <2>6. CASE Judge(w)
        BY <2>2, <2>6 DEF Judge, OwnCells, ShareValid, TypeOK, Encode, Byte
    <2>7. CASE Send(w)
        <3>1. /\ share'.job = w[1]
              /\ share'.nonce = Encode(nonce[w])
              /\ share'.hashed = Encode(nonce[w])
              /\ <<w[1], Encode(nonce[w])>> \in Winning
            BY <2>2, <2>7 DEF Send, OwnCells
        <3>2. pc'[w] = "prune" /\ at' = at /\ pc[w] = "send"
            BY <2>7 DEF Send, TypeOK
        <3> QED
            BY <2>2, <3>1, <3>2 DEF OwnCells, ShareValid
    <2>8. CASE Prune(w) \/ Add(w) \/ Die(w)
        BY <2>2, <2>8 DEF Prune, Add, Die, OwnCells, ShareValid, TypeOK
    <2> QED
        BY <1>5, <2>3, <2>4, <2>5, <2>6, <2>7, <2>8 DEF Run
<1> QED
    BY <1>2, <1>3, <1>4, <1>5 DEF Next, Main

(* One thread a job is enough for every share to be valid, whatever hash   *)
(* function the native code computes and however many workers of older     *)
(* jobs still run (Worker.java:27-43, Miner.java:111, 193-205).            *)
THEOREM SoloShareValidHolds == Spec => []SoloShareValid
<1>1. CASE Threads = 1
    <2>1. Init => Fresh /\ Solo
        BY FreshInit, SoloInit
    <2>2. TypeOK /\ TypeOK' /\ Fresh /\ Solo /\ [Next]_vars => (Fresh /\ Solo)'
        BY <1>1, FreshStep, SoloStep
    <2>3. Solo => SoloShareValid
        BY DEF Solo, SoloShareValid
    <2> QED
        BY <2>1, <2>2, <2>3, TypeCorrect, PTL DEF Spec
<1>2. CASE Threads # 1
    <2>1. SoloShareValid
        BY <1>2 DEF SoloShareValid
    <2> QED
        BY <2>1, PTL
<1> QED
    BY <1>1, <1>2

-----------------------------------------------------------------------------
(* Refinement of Shares. *)
Stopped(w) == flag[w] \/ pc[w] \in Ended

(* The initial states are initial states of Shares. *)
LEMMA PromiseInit == Init => Promise!Init
<1> SUFFICES ASSUME Init PROVE Promise!Init
    OBVIOUS
<1>1. Withdrawn = {} /\ Exhausted = {}
    BY DEF Init, Withdrawn, Exhausted, Ended
<1>2. job = 0 /\ share.job = 0 /\ share.nonce = PoolNonce
    BY DEF Init, NoShare
<1> QED
    BY <1>1, <1>2 DEF Promise!Init

(* With one thread the worker of a job decides whether it is withdrawn. *)
LEMMA SoloMembers ==
    ASSUME Threads = 1, NEW w \in Workers
    PROVE  /\ w[1] \in Withdrawn <=> Stopped(w)
           /\ w[1] \in Exhausted <=> late[w] > 0
<1>1. \A v \in Workers : v[1] = w[1] => v = w
    BY SoloWorkers
<1> QED
    BY <1>1, WorkerPair DEF Withdrawn, Exhausted, Stopped

(* A step that starts, stops and counts nothing is a stuttering step. *)
LEMMA PromiseStutter ==
    ASSUME job' = job, share' = share, late' = late,
           \A w \in Workers : Stopped(w)' <=> Stopped(w)
    PROVE  UNCHANGED Promise!vars
<1>1. Withdrawn' = Withdrawn
    BY DEF Withdrawn, Stopped
<1>2. Exhausted' = Exhausted
    BY DEF Exhausted
<1> QED
    BY <1>1, <1>2 DEF Promise!vars

(* A step that stops one worker withdraws its job. *)
LEMMA PromiseWithdraw ==
    ASSUME NEW w \in Workers, w[1] \in 1 .. job,
           job' = job, share' = share, late' = late, Stopped(w)',
           \A v \in Workers : v # w => (Stopped(v)' <=> Stopped(v))
    PROVE  Promise!Next
<1>1. Withdrawn' = Withdrawn \cup {w[1]}
    BY WorkerPair DEF Withdrawn, Stopped
<1>2. Exhausted' = Exhausted
    BY DEF Exhausted
<1>3. Promise!Withdraw(w[1])
    BY <1>1, <1>2 DEF Promise!Withdraw
<1> QED
    BY <1>3 DEF Promise!Next

(* A worker that was created works on a job the pool has sent. *)
LEMMA CreatedJob ==
    ASSUME TypeOK, Fresh, NEW w \in Workers, pc[w] # "new"
    PROVE  w[1] \in 1 .. job
<1>1. job \in 0 .. MaxJobs
    BY DEF TypeOK
<1>2. w[1] \in Jobs
    BY WorkerPair
<1>3. ~(w[1] > job)
    BY DEF Fresh
<1> QED
    BY <1>1, <1>2, <1>3, ConstantsAssumption DEF Jobs

(* A share that is sent is one that Shares allows. *)
LEMMA PromiseSubmit ==
    ASSUME Threads = 1, TypeOK, Fresh, Lateness, Solo,
           NEW w \in Workers, Send(w)
    PROVE  Promise!Next
<1> DEFINE e == <<w[1], Encode(nonce[w])>>
<1>1. pc[w] = "send" /\ e \in Winning
    BY DEF Send, Solo, OwnCells
<1>2. w[1] \in 1 .. job
    BY <1>1, CreatedJob
<1>3. late[w] = 0
    BY <1>1 DEF Lateness, Ended
<1>4. w[1] \notin Exhausted
    BY <1>3, SoloMembers
<1>5. w[1] \in Withdrawn <=> flag[w]
    BY <1>1, SoloMembers DEF Stopped, Ended
<1>6. \A v \in Workers : v # w => late'[v] = late[v]
    BY DEF Send, TypeOK
<1>7. late'[w] > 0 <=> flag[w]
    <2>1. CASE flag[w]
        <3>1. late'[w] = late[w] + 1
            BY <2>1 DEF Send, TypeOK
        <3>2. late'[w] = 1
            BY <1>3, <3>1
        <3> QED
            BY <2>1, <3>2
    <2>2. CASE ~flag[w]
        <3>1. late'[w] = late[w]
            BY <2>2 DEF Send, TypeOK
        <3> QED
            BY <1>3, <2>2, <3>1
    <2> QED
        BY <2>1, <2>2
<1>8. Exhausted' = Exhausted \cup ({w[1]} \cap Withdrawn)
    <2>1. \A j \in Jobs : j \in Exhausted' <=>
              \E v \in Workers : v[1] = j /\ late'[v] > 0
        BY DEF Exhausted
    <2>2. ASSUME NEW j \in Jobs, j # w[1] PROVE j \in Exhausted' <=> j \in Exhausted
        BY <1>6, <2>1, <2>2 DEF Exhausted
    <2>3. w[1] \in Exhausted' <=> w[1] \in Withdrawn
        <3>1. \A v \in Workers : v[1] = w[1] => v = w
            BY SoloWorkers
        <3> QED
            BY <1>5, <1>7, <2>1, <3>1, WorkerPair
    <2>4. Exhausted \subseteq Jobs /\ Exhausted' \subseteq Jobs /\ w[1] \in Jobs
        BY WorkerPair DEF Exhausted
    <2> QED
        BY <1>4, <2>2, <2>3, <2>4
<1>9. Withdrawn' = Withdrawn
    <2>1. \A v \in Workers : Stopped(v)' <=> Stopped(v)
        BY DEF Send, TypeOK, Stopped, Ended
    <2> QED
        BY <2>1 DEF Withdrawn, Stopped
<1>10. share'.job = w[1] /\ share'.nonce = Encode(nonce[w]) /\ job' = job
    BY DEF Send, mainVars
<1>11. Promise!Submit(e)
    BY <1>1, <1>2, <1>4, <1>8, <1>9, <1>10 DEF Promise!Submit
<1> QED
    BY <1>1, <1>11 DEF Promise!Next

(* Every step is a step of Shares, or none. *)
LEMMA PromiseStep ==
    ASSUME Threads = 1, TypeOK, Fresh, Lateness, Solo, [Next]_vars
    PROVE  [Promise!Next]_(Promise!vars)
<1>1. CASE Receive
    <2>1. Withdrawn' = Withdrawn /\ Exhausted' = Exhausted
        BY <1>1 DEF Receive, localVars, Withdrawn, Exhausted
    <2>2. Promise!NewJob
        BY <1>1, <2>1 DEF Receive, Promise!NewJob
    <2> QED
        BY <2>2 DEF Promise!Next
<1>2. CASE Lose \/ Clear \/ Started \/ Reconnect \/ UNCHANGED vars
    <2>1. UNCHANGED <<job, share, late, flag, pc>>
        BY <1>2 DEF Lose, Clear, Started, Reconnect, vars, localVars
    <2> QED
        BY <2>1, PromiseStutter DEF Stopped
<1>3. ASSUME NEW w \in Workers, Interrupt(w) PROVE [Promise!Next]_(Promise!vars)
    <2>1. pc[w] # "new"
        BY <1>3 DEF Interrupt, TypeOK, Fresh
    <2>2. UNCHANGED <<job, share, late, pc>> /\ flag'[w] = Running(w)
        BY <1>3 DEF Interrupt, localVars, TypeOK
    <2>3. Stopped(w)'
        BY <2>1, <2>2 DEF Stopped, Running
    <2>4. \A v \in Workers : v # w => (Stopped(v)' <=> Stopped(v))
        BY <1>3, <2>2 DEF Interrupt, TypeOK, Stopped
    <2> QED
        BY <2>1, <2>2, <2>3, <2>4, CreatedJob, PromiseWithdraw
<1>4. ASSUME NEW w \in Workers, StartWorker(w) PROVE [Promise!Next]_(Promise!vars)
    <2>1. pc[w] = "new"
        <3>1. /\ w[1] = job /\ w[2] = Cardinality(set)
              /\ Cardinality(set) \in Nat
            BY <1>4, FS_CardinalityType DEF StartWorker, Fresh
        <3>2. w[2] >= Cardinality(set)
            BY <3>1
        <3> QED
            BY <1>4, <3>1, <3>2 DEF StartWorker, Fresh
    <2>2. UNCHANGED <<job, share, late, flag>>
        BY <1>4 DEF StartWorker
    <2>3. \A v \in Workers : Stopped(v)' <=> Stopped(v)
        BY <1>4, <2>1, <2>2 DEF StartWorker, TypeOK, Stopped, Ended
    <2> QED
        BY <2>2, <2>3, PromiseStutter
<1>5. ASSUME NEW w \in Workers,
             Check(w) \/ WriteCell(w) \/ CopyCell(w) \/ Judge(w) \/ Prune(w) \/ Add(w)
      PROVE  [Promise!Next]_(Promise!vars)
    <2>1. UNCHANGED <<job, share, late>>
        BY <1>5 DEF Check, WriteCell, CopyCell, Judge, Prune, Add, mainVars
    <2>2. \A v \in Workers : v # w => pc'[v] = pc[v] /\ flag'[v] = flag[v]
        BY <1>5 DEF Check, WriteCell, CopyCell, Advance, Judge, Prune, Add, TypeOK
    <2>3. Stopped(w)' <=> Stopped(w)
        BY <1>5 DEF Check, WriteCell, CopyCell, Advance, Judge, Prune, Add, TypeOK,
                    Stopped, Ended
    <2>4. \A v \in Workers : Stopped(v)' <=> Stopped(v)
        BY <2>2, <2>3 DEF Stopped
    <2> QED
        BY <2>1, <2>4, PromiseStutter
<1>6. ASSUME NEW w \in Workers, Die(w) PROVE [Promise!Next]_(Promise!vars)
    <2>1. UNCHANGED <<job, share, late>> /\ pc[w] # "new" /\ pc'[w] = "died"
        BY <1>6 DEF Die, mainVars, TypeOK
    <2>2. \A v \in Workers : v # w => pc'[v] = pc[v] /\ flag'[v] = flag[v]
        BY <1>6 DEF Die, TypeOK
    <2>3. Stopped(w)' /\ \A v \in Workers : v # w => (Stopped(v)' <=> Stopped(v))
        BY <2>1, <2>2 DEF Stopped, Ended
    <2> QED
        BY <2>1, <2>3, CreatedJob, PromiseWithdraw
<1>7. ASSUME NEW w \in Workers, Send(w) PROVE [Promise!Next]_(Promise!vars)
    BY <1>7, PromiseSubmit
<1> QED
    BY <1>1, <1>2, <1>3, <1>4, <1>5, <1>6, <1>7 DEF Next, Main, Run

(* One thread a job: the miner implements Shares.  The pool sees valid     *)
(* shares only, and after a job is withdrawn at most one more for it, for  *)
(* every number of jobs and every interleaving of the main thread with the *)
(* workers, the stale ones included (Worker.java:23-53, Miner.java:98-101, *)
(* 193-205).                                                               *)
THEOREM SoloRefinement == ASSUME Threads = 1 PROVE Spec => KeepsPromise
<1>1. Init => Promise!Init /\ Fresh /\ Lateness /\ Solo
    BY PromiseInit, FreshInit, LatenessInit, SoloInit
<1>2. TypeOK /\ TypeOK' /\ Fresh /\ Lateness /\ Solo /\ [Next]_vars
        => (Fresh /\ Lateness /\ Solo)' /\ [Promise!Next]_(Promise!vars)
    BY FreshStep, LatenessStep, SoloStep, PromiseStep
<1> QED
    BY <1>1, <1>2, TypeCorrect, PTL DEF Spec, KeepsPromise, Promise!Spec
=============================================================================

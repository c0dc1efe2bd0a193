---------------------------- MODULE MinerProofs ----------------------------
(***************************************************************************)
(* Proofs about Miner, for every set of connections, jobs and lines, and,  *)
(* where nothing else is said, whether or not a hash fits into the sleep.  *)
(***************************************************************************)
EXTENDS Miner, TLAPS

(***************************************************************************)
(* The inductive invariant.                                                *)
(***************************************************************************)

\* While connect runs, the new socket has seen no login, and one field after
\* the other refers to it.
HalfOpen ==
    /\ main \in Connecting \ {"open"} => socket \in Conns /\ logins[socket] = 0
    /\ main \in {"scanner", "options", "login"} => printWriter = socket
    /\ main \in {"options", "login"} => scanner = socket

\* From the login to the end of the session all three are one connection.
InSession ==
    main \in Established =>
        /\ socket = printWriter /\ printWriter = scanner
        /\ scanner \in Conns /\ logins[scanner] = 1

\* Between the reading of a job and the start of its workers it has none,
\* and it comes from the connection that is read.
JobPending ==
    main \in {"interrupt", "start workers"} =>
        job \in Jobs /\ ~Live(job) /\ origin[job] = scanner

\* Whoever runs is in set, and set holds nobody but the workers of the job
\* parsed last, and nobody at all between two jobs or two sessions.
Tracked ==
    /\ \A j \in Jobs : workers[j] = "running" => j \in set
    /\ main \in Connecting \cup {"sleeping", "start workers"} => set = {}
    /\ main \in {"report", "reading", "tear down"} => set \subseteq {job}
    /\ main = "interrupt" => job \notin set

\* Provided a hash takes less than the sleep: while connect runs no worker
\* is left, and those that are left write where their job came from.
WorkersHome ==
    SleepCoversHash => \A j \in Jobs :
        Live(j) => /\ main \notin Connecting
                   /\ origin[j] = printWriter
                   /\ logins[printWriter] = 1

\* What keeps the fields apart from the workers ...
FieldsInv == TypeOK /\ OneLogin /\ HalfOpen /\ InSession

\* ... what holds of the workers however long a hash takes ...
WorkersInv == FieldsInv /\ JobPending /\ Tracked

\* ... and what holds of them when it takes less than the sleep.
IInv == WorkersInv /\ WorkersHome /\ SharesComeHome

-----------------------------------------------------------------------------
(* One more login line on some connection. *)
LEMMA CountLogin ==
    ASSUME NEW f \in [Conns -> Nat], NEW c
    PROVE  [f EXCEPT ![c] = @ + 1] \in [Conns -> Nat]
<1>1. ASSUME NEW d \in Conns PROVE f[d] \in Nat /\ f[d] + 1 \in Nat
    OBVIOUS
<1> QED
    BY <1>1

(* Type correctness. *)
LEMMA TypeInit == Init => TypeOK
BY DEF Init, TypeOK, Typed, NothingNull, Connecting, Handling, Established, Live, NoShare

(* No step breaks the types. *)
LEMMA TypedStep == TypeOK /\ [Next]_vars => Typed'
<1> SUFFICES ASSUME TypeOK, [Next]_vars PROVE Typed'
    OBVIOUS
<1> USE DEF TypeOK, Typed, NothingNull, fields, jobVars, threadVars, Connecting, Handling
<1>1. CASE OpenSocket
    BY <1>1 DEF OpenSocket
<1>2. CASE MakeWriter
    BY <1>2 DEF MakeWriter
<1>3. CASE MakeScanner
    BY <1>3 DEF MakeScanner
<1>4. CASE SetOptions
    BY <1>4 DEF SetOptions
<1>5. CASE Login
    <2>2. logins' \in [Conns -> Nat]
        BY <1>5, CountLogin DEF Login
    <2>3. main' \in {"open", "reading"} /\ caller' = "start"
        BY <1>5 DEF Login
    <2> QED
        BY <1>5, <2>2, <2>3 DEF Login
<1>6. CASE ConnectFails
    BY <1>6 DEF ConnectFails
<1>7. CASE NoLine
    BY <1>7 DEF NoLine
<1>8. ASSUME NEW line \in Lines, HandleLine(line) PROVE Typed'
    <2>1. /\ main' \in {"tear down", "reading", "interrupt"}
          /\ UNCHANGED <<caller, fields, logins, threadVars, share>>
        BY <1>8 DEF HandleLine
    <2>2. CASE UNCHANGED jobVars
        BY <2>1, <2>2
    <2>3. CASE \E j \in Jobs :
                  /\ job' = j
                  /\ origin' = [origin EXCEPT ![j] = scanner]
                  /\ minable' = [minable EXCEPT ![j] = ParseLine(line).job.blob # Absent]
        <3>1. PICK j \in Jobs :
                 /\ job' = j
                 /\ origin' = [origin EXCEPT ![j] = scanner]
                 /\ minable' = [minable EXCEPT ![j] = ParseLine(line).job.blob # Absent]
            BY <2>3
        <3>2. origin' \in [Jobs -> Conns \cup {None}]
            BY <3>1
        <3>3. minable' \in [Jobs -> BOOLEAN]
            BY <3>1
        <3> QED
            BY <2>1, <3>1, <3>2, <3>3
    <2> QED
        BY <1>8, <2>2, <2>3 DEF HandleLine
<1>9. CASE InterruptOld
    BY <1>9 DEF InterruptOld, Interrupted
<1>10. CASE StartNew
    BY <1>10 DEF StartNew
<1>11. CASE ReportHashrate
    BY <1>11 DEF ReportHashrate
<1>12. CASE TearDown
    BY <1>12 DEF TearDown, Interrupted
<1>13. CASE Wake
    BY <1>13 DEF Wake
<1>14. ASSUME NEW j \in Jobs, Send(j) PROVE Typed'
    BY <1>14 DEF Send
<1>15. ASSUME NEW j \in Jobs, Live(j), End(j) PROVE Typed'
    BY <1>15 DEF End
<1>16. CASE UNCHANGED vars
    BY <1>16 DEF vars
<1> QED
    BY <1>1, <1>2, <1>3, <1>4, <1>5, <1>6, <1>7, <1>8, <1>9, <1>10, <1>11,
       <1>12, <1>13, <1>14, <1>15, <1>16
    DEF Next, Main, Connect, Leave, Crash, Live

(* No step brings the main thread or a worker to a field that is null. *)
LEMMA NullStep == TypeOK /\ [Next]_vars => NothingNull'
<1> SUFFICES ASSUME TypeOK, [Next]_vars PROVE NothingNull'
    OBVIOUS
<1> USE DEF TypeOK, Typed, NothingNull, fields, jobVars, threadVars, Connecting, Handling,
        Established, Live
<1>1. CASE OpenSocket
    <2>1. socket' # None /\ main' = "writer"
        BY <1>1, SessionAssumption DEF OpenSocket
    <2>2. UNCHANGED <<printWriter, workers>>
        BY <1>1 DEF OpenSocket
    <2> QED
        BY <2>1, <2>2
<1>2. CASE MakeWriter
    BY <1>2 DEF MakeWriter
<1>3. CASE MakeScanner
    BY <1>3 DEF MakeScanner
<1>4. CASE SetOptions
    BY <1>4 DEF SetOptions
<1>5. CASE Login
    BY <1>5 DEF Login
<1>6. CASE ConnectFails
    BY <1>6 DEF ConnectFails
<1>7. CASE NoLine
    BY <1>7 DEF NoLine
<1>8. ASSUME NEW line \in Lines, HandleLine(line) PROVE NothingNull'
    <2>1. main = "reading" /\ UNCHANGED <<fields, threadVars>>
        BY <1>8 DEF HandleLine
    <2>2. CASE main' \in {"tear down", "reading"}
        BY <2>1, <2>2
    <2>3. CASE \E j \in Jobs : job' = j
        <3>1. main' # "interrupt" => main' \in {"tear down", "reading"}
            BY <1>8 DEF HandleLine
        <3> QED
            BY <2>1, <2>3, <3>1, SessionAssumption
    <2> QED
        BY <1>8, <2>2, <2>3 DEF HandleLine
<1>9. CASE InterruptOld
    BY <1>9 DEF InterruptOld, Interrupted
<1>10. CASE StartNew
    BY <1>10 DEF StartNew
<1>11. CASE ReportHashrate
    BY <1>11 DEF ReportHashrate
<1>12. CASE TearDown
    BY <1>12 DEF TearDown, Interrupted
<1>13. CASE Wake
    BY <1>13 DEF Wake
<1>14. ASSUME NEW j \in Jobs, Send(j) PROVE NothingNull'
    BY <1>14 DEF Send
<1>15. ASSUME NEW j \in Jobs, Live(j), End(j) PROVE NothingNull'
    BY <1>15 DEF End
<1>16. CASE UNCHANGED vars
    BY <1>16 DEF vars
<1> QED
    BY <1>1, <1>2, <1>3, <1>4, <1>5, <1>6, <1>7, <1>8, <1>9, <1>10, <1>11,
       <1>12, <1>13, <1>14, <1>15, <1>16
    DEF Next, Main, Connect, Leave, Crash, Live

(* Together they are the type invariant. *)
LEMMA TypeStep == TypeOK /\ [Next]_vars => TypeOK'
BY TypedStep, NullStep DEF TypeOK

(* Every variable of the session stays in its type. *)
THEOREM TypeCorrect == Spec => []TypeOK
BY TypeInit, TypeStep, PTL DEF Spec

-----------------------------------------------------------------------------
(* The fields of a session and the logins. *)

(* Logins and fields are changed by connect alone, and once a login is     *)
(* written the session is left only by a sleep or for a second connection. *)
LEMMA OutsideConnect ==
    ASSUME FieldsInv, [Next]_vars, ~Connect
    PROVE  /\ UNCHANGED <<fields, logins>>
           /\ main' \in Connecting \ {"open"} => main' = main
           /\ main' \in Established => main \in Established
<1> USE DEF fields, jobVars, threadVars, Connecting, Handling, Established
<1>1. CASE ConnectFails
    BY <1>1 DEF ConnectFails
<1>2. CASE NoLine
    BY <1>2 DEF NoLine
<1>3. ASSUME NEW line \in Lines, HandleLine(line)
      PROVE  main = "reading" /\ UNCHANGED <<fields, logins>> /\ main' \in {"tear down", "reading", "interrupt"}
    BY <1>3 DEF HandleLine
<1>4. CASE InterruptOld
    BY <1>4 DEF InterruptOld
<1>5. CASE StartNew
    BY <1>5 DEF StartNew
<1>6. CASE ReportHashrate
    BY <1>6 DEF ReportHashrate
<1>7. CASE TearDown
    BY <1>7 DEF TearDown
<1>8. CASE Wake
    BY <1>8 DEF Wake
<1>9. ASSUME NEW j \in Jobs, Send(j) \/ End(j) PROVE UNCHANGED <<main, fields, logins>>
    BY <1>9 DEF Send, End
<1>10. CASE UNCHANGED vars
    BY <1>10 DEF vars
<1> QED
    BY <1>1, <1>2, <1>3, <1>4, <1>5, <1>6, <1>7, <1>8, <1>9, <1>10
    DEF Next, Main, Leave, Crash

(* FieldsInv holds at first. *)
LEMMA FieldsInit == Init => FieldsInv
<1> SUFFICES ASSUME Init PROVE FieldsInv
    OBVIOUS
<1>1. TypeOK
    BY TypeInit
<1>2. OneLogin /\ HalfOpen /\ InSession
    BY DEF Init, OneLogin, HalfOpen, InSession, Connecting, Handling, Established
<1> QED
    BY <1>1, <1>2 DEF FieldsInv

(* Every step keeps FieldsInv. *)
LEMMA FieldsStep == FieldsInv /\ [Next]_vars => FieldsInv'
<1> SUFFICES ASSUME FieldsInv, [Next]_vars PROVE FieldsInv'
    OBVIOUS
<1>1. TypeOK /\ TypeOK'
    BY TypeStep DEF FieldsInv
<1>2. OneLogin /\ HalfOpen /\ InSession
    BY DEF FieldsInv
<1> USE DEF Connecting, Handling, Established, fields
<1>3. CASE OpenSocket
    <2>1. PICK c \in Conns : FreeConn(c) /\ socket' = c
        BY <1>3 DEF OpenSocket
    <2>2. logins' = [d \in Conns |-> IF FreeConn(d) THEN 0 ELSE logins[d]]
        BY <1>3 DEF OpenSocket
    <2>3. logins'[socket'] = 0
        BY <2>1, <2>2
    <2>4. OneLogin'
        BY <1>2, <2>2 DEF OneLogin
    <2>5. main' = "writer"
        BY <1>3 DEF OpenSocket
    <2> QED
        BY <1>1, <2>1, <2>3, <2>4, <2>5 DEF FieldsInv, HalfOpen, InSession
<1>4. CASE MakeWriter
    BY <1>1, <1>2, <1>4 DEF MakeWriter, FieldsInv, OneLogin, HalfOpen, InSession
<1>5. CASE MakeScanner
    BY <1>1, <1>2, <1>5 DEF MakeScanner, FieldsInv, OneLogin, HalfOpen, InSession
<1>6. CASE SetOptions
    BY <1>1, <1>2, <1>6 DEF SetOptions, FieldsInv, OneLogin, HalfOpen, InSession
<1>7. CASE Login
    <2>1. /\ socket \in Conns /\ logins[socket] = 0
          /\ printWriter = socket /\ scanner = socket
        BY <1>2, <1>7 DEF Login, HalfOpen
    <2>2. logins' = [logins EXCEPT ![socket] = 1]
        BY <1>7, <2>1, 0 + 1 = 1 DEF Login
    <2>3. logins'[socket] = 1 /\ \A c \in Conns \ {socket} : logins'[c] = logins[c]
        BY <1>1, <2>1, <2>2 DEF TypeOK, Typed
    <2>4. OneLogin'
        BY <1>2, <2>3 DEF OneLogin
    <2>5. UNCHANGED fields /\ main' \in {"open", "reading"}
        BY <1>7 DEF Login
    <2> QED
        BY <1>1, <2>1, <2>3, <2>4, <2>5 DEF FieldsInv, HalfOpen, InSession
<1>8. CASE ~Connect
    BY <1>1, <1>2, <1>8, OutsideConnect
    DEF FieldsInv, OneLogin, HalfOpen, InSession
<1> QED
    BY <1>3, <1>4, <1>5, <1>6, <1>7, <1>8 DEF Connect

(* No connection sees two login lines: reconnect and start each log in,    *)
(* and an attempt may fail after fields were replaced.                     *)
THEOREM OneLoginHolds == Spec => []OneLogin
<1>1. FieldsInv => OneLogin
    BY DEF FieldsInv
<1> QED
    BY <1>1, FieldsInit, FieldsStep, PTL DEF Spec

(* The main thread reads from the connection the workers write to, and has *)
(* logged in there, whatever attempts have failed half way.                *)
THEOREM ReadsOwnConnectionHolds == Spec => []ReadsOwnConnection
<1>1. FieldsInv => ReadsOwnConnection
    BY DEF FieldsInv, InSession, Established, ReadsOwnConnection
<1> QED
    BY <1>1, FieldsInit, FieldsStep, PTL DEF Spec

-----------------------------------------------------------------------------
(* The workers. *)

(* Nobody runs once those in set were interrupted, since set holds all who *)
(* run, and who lives then lived before.                                   *)
LEMMA InterruptAll ==
    ASSUME TypeOK, Tracked, workers' = Interrupted, NEW j \in Jobs
    PROVE  workers'[j] # "running" /\ (Live(j)' <=> Live(j))
BY DEF TypeOK, Typed, Tracked, Interrupted, Live

(* The steps of connect do nothing to the workers and their jobs. *)
LEMMA InsideConnect ==
    ASSUME Connect \/ ConnectFails
    PROVE  /\ main \in Connecting
           /\ main' \in Connecting \cup {"reading", "sleeping"}
           /\ UNCHANGED <<jobVars, threadVars, share>>
BY DEF Connect, Connecting, ConnectFails, OpenSocket, MakeWriter, MakeScanner,
       SetOptions, Login

(* End takes a job that lives. *)
LEMMA EndsAlive ==
    ASSUME TypeOK, NEW j \in Jobs, Leave(j) \/ Crash(j)
    PROVE  /\ Live(j)
           /\ workers' = [workers EXCEPT ![j] = "none"]
           /\ origin' = [origin EXCEPT ![j] = None]
           /\ UNCHANGED <<main, fields, logins, job, set, share>>
BY DEF Leave, Crash, Live, End

(* WorkersInv holds at first. *)
LEMMA WorkersInit == Init => WorkersInv
<1> SUFFICES ASSUME Init PROVE WorkersInv
    OBVIOUS
<1>1. FieldsInv
    BY FieldsInit
<1> QED
    BY <1>1 DEF Init, WorkersInv, JobPending, Tracked

(* Every step keeps WorkersInv. *)
LEMMA WorkersStep == WorkersInv /\ [Next]_vars => WorkersInv'
<1> SUFFICES ASSUME WorkersInv, [Next]_vars PROVE WorkersInv'
    OBVIOUS
<1>1. FieldsInv /\ FieldsInv'
    BY FieldsStep DEF WorkersInv
<1>2. TypeOK /\ TypeOK'
    BY <1>1 DEF FieldsInv
<1>3. JobPending /\ Tracked
    BY DEF WorkersInv
<1> DEFINE Rest == JobPending' /\ Tracked'
<1> SUFFICES Rest
    BY <1>1 DEF WorkersInv
<1> USE DEF Connecting, Handling, Established, fields, jobVars, threadVars
<1>4. CASE Connect \/ ConnectFails
    BY <1>3, <1>4, InsideConnect DEF JobPending, Tracked
<1>5. CASE NoLine
    BY <1>3, <1>5 DEF NoLine, JobPending, Tracked
<1>6. ASSUME NEW line \in Lines, HandleLine(line) PROVE Rest
    <2>1. main = "reading" /\ UNCHANGED <<fields, threadVars>>
        BY <1>6 DEF HandleLine
    <2>2. CASE main' = "interrupt"
        <3>1. PICK j \in Jobs : /\ ~Live(j) /\ j \notin set /\ job' = j
                                /\ origin' = [origin EXCEPT ![j] = scanner]
            BY <1>6, <2>1, <2>2 DEF HandleLine
        <3>2. JobPending'
            BY <1>2, <2>1, <3>1 DEF JobPending, TypeOK, Typed, Live
        <3> QED
            BY <1>3, <2>1, <2>2, <3>1, <3>2 DEF Tracked
    <2>3. CASE main' # "interrupt"
        <3>1. main' \in {"reading", "tear down"} /\ job' = job
            BY <1>6, <2>1, <2>3 DEF HandleLine
        <3> QED
            BY <1>3, <2>1, <3>1 DEF JobPending, Tracked
    <2> QED
        BY <2>2, <2>3
<1>7. CASE InterruptOld
    <2>1. \A j \in Jobs : workers'[j] # "running" /\ (Live(j)' <=> Live(j))
        BY <1>2, <1>3, <1>7, InterruptAll DEF InterruptOld
    <2>2. /\ main = "interrupt" /\ main' = "start workers"
          /\ set' = {} /\ UNCHANGED <<fields, jobVars>>
        BY <1>7 DEF InterruptOld
    <2>3. JobPending'
        BY <1>3, <2>1, <2>2 DEF JobPending
    <2> QED
        BY <2>1, <2>2, <2>3 DEF Tracked
<1>8. CASE StartNew
    BY <1>2, <1>3, <1>8
    DEF StartNew, TypeOK, Typed, JobPending, Tracked
<1>9. CASE ReportHashrate
    BY <1>3, <1>9 DEF ReportHashrate, JobPending, Tracked
<1>10. CASE TearDown
    <2>1. \A j \in Jobs : workers'[j] # "running"
        BY <1>2, <1>3, <1>10, InterruptAll DEF TearDown
    <2> QED
        BY <1>10, <2>1 DEF TearDown, JobPending, Tracked
<1>11. CASE Wake
    BY <1>3, <1>11 DEF Wake, JobPending, Tracked
<1>12. ASSUME NEW j \in Jobs, Send(j) PROVE Rest
    BY <1>3, <1>12 DEF Send, Live, JobPending, Tracked
<1>13. ASSUME NEW j \in Jobs, Leave(j) \/ Crash(j) PROVE Rest
    <2>1. /\ Live(j) /\ UNCHANGED <<main, fields, job, set>>
          /\ workers' = [workers EXCEPT ![j] = "none"]
          /\ origin' = [origin EXCEPT ![j] = None]
        BY <1>2, <1>13, EndsAlive
    <2>2. \A k \in Jobs : workers'[k] \in {workers[k], "none"}
        BY <1>2, <2>1 DEF TypeOK, Typed
    <2>3. Tracked'
        BY <1>3, <2>1, <2>2 DEF Tracked
    <2>4. JobPending'
        <3>1. \A k \in Jobs \ {j} : origin'[k] = origin[k]
            BY <1>2, <2>1 DEF TypeOK, Typed
        <3> QED
            BY <1>3, <2>1, <2>2, <3>1 DEF JobPending, Live
    <2> QED
        BY <2>3, <2>4
<1>14. CASE UNCHANGED vars
    BY <1>3, <1>14 DEF vars, Live, JobPending, Tracked
<1> QED
    BY <1>4, <1>5, <1>6, <1>7, <1>8, <1>9, <1>10, <1>11, <1>12, <1>13, <1>14
    DEF Next, Main

(* Between two sessions every worker was told to stop. *)
THEOREM NobodyMinesOfflineHolds == Spec => []NobodyMinesOffline
<1>1. WorkersInv => NobodyMinesOffline
    BY DEF WorkersInv, Tracked, NobodyMinesOffline
<1> QED
    BY <1>1, WorkersInit, WorkersStep, PTL DEF Spec

(* Only workers of the job parsed last go on. *)
THEOREM OneJobMinedHolds == Spec => []OneJobMined
<1>1. WorkersInv => OneJobMined
    BY DEF WorkersInv, FieldsInv, TypeOK, Typed, Tracked, OneJobMined, Connecting, Handling
<1> QED
    BY <1>1, WorkersInit, WorkersStep, PTL DEF Spec

-----------------------------------------------------------------------------
(* The shares. *)

(* IInv holds at first. *)
LEMMA HomeInit == Init => IInv
<1> SUFFICES ASSUME Init PROVE IInv
    OBVIOUS
<1>1. WorkersInv
    BY WorkersInit
<1>2. WorkersHome /\ SharesComeHome
    BY DEF Init, WorkersHome, SharesComeHome, Live, NoShare
<1> QED
    BY <1>1, <1>2 DEF IInv

(* A job that lives on, with the fields and the session left alone, still  *)
(* writes home.                                                            *)
LEMMA HomeStays ==
    ASSUME WorkersHome, UNCHANGED <<fields, logins>>,
           main' \in Connecting => main \in Connecting,
           \A j \in Jobs : Live(j)' => Live(j) /\ origin'[j] = origin[j]
    PROVE  WorkersHome'
BY DEF WorkersHome, fields

(* Every step keeps IInv: a share in flight belongs to the connection it is*)
(* sent to.                                                                *)
LEMMA HomeStep == IInv /\ [Next]_vars => IInv'
<1> SUFFICES ASSUME IInv, [Next]_vars PROVE IInv'
    OBVIOUS
<1>1. WorkersInv /\ WorkersInv'
    BY WorkersStep DEF IInv
<1>2. /\ TypeOK /\ TypeOK' /\ InSession
      /\ JobPending /\ Tracked
    BY <1>1 DEF WorkersInv, FieldsInv
<1>3. WorkersHome /\ SharesComeHome
    BY DEF IInv
<1> USE DEF Connecting, Handling, Established, fields, jobVars, threadVars
<1>4. WorkersHome'
    <2>1. CASE Connect \/ ConnectFails
        BY <1>3, <2>1, InsideConnect DEF WorkersHome, Live
    <2>2. CASE NoLine
        BY <1>3, <2>2, HomeStays DEF NoLine, Live
    <2>3. ASSUME NEW line \in Lines, HandleLine(line) PROVE WorkersHome'
        <3>1. UNCHANGED <<fields, logins, workers>> /\ main' \notin Connecting
            BY <2>3 DEF HandleLine
        <3>2. \A j \in Jobs : Live(j) => origin'[j] = origin[j]
            BY <1>2, <2>3 DEF HandleLine, TypeOK, Typed
        <3>3. \A j \in Jobs : Live(j)' => Live(j)
            BY <3>1 DEF Live
        <3> QED
            BY <1>3, <3>1, <3>2, <3>3, HomeStays
    <2>4. CASE InterruptOld
        <3>1. \A j \in Jobs : Live(j)' => Live(j)
            BY <1>2, <2>4, InterruptAll DEF InterruptOld
        <3> QED
            BY <1>3, <2>4, <3>1, HomeStays DEF InterruptOld
    <2>5. CASE StartNew
        <3>1. /\ main = "start workers" /\ main' = "report"
              /\ workers' = [workers EXCEPT ![job] = "running"]
              /\ UNCHANGED <<fields, logins, origin>>
            BY <2>5 DEF StartNew
        <3>2. origin[job] = printWriter /\ logins[printWriter] = 1
            BY <1>2, <3>1 DEF JobPending, InSession
        <3>3. \A j \in Jobs \ {job} : Live(j)' => Live(j)
            BY <1>2, <3>1 DEF Live, TypeOK, Typed
        <3> QED
            BY <1>3, <3>1, <3>2, <3>3 DEF WorkersHome
    <2>6. CASE ReportHashrate
        BY <1>3, <2>6, HomeStays DEF ReportHashrate, Live
    <2>7. CASE TearDown
        <3>1. \A j \in Jobs : Live(j)' => Live(j)
            BY <1>2, <2>7, InterruptAll DEF TearDown
        <3> QED
            BY <1>3, <2>7, <3>1, HomeStays DEF TearDown
    <2>8. CASE Wake
        <3>1. SleepCoversHash => \A j \in Jobs : ~Live(j)
            BY <1>2, <2>8 DEF Wake, Tracked, Live
        <3> QED
            BY <2>8, <3>1 DEF Wake, WorkersHome, Live
    <2>9. ASSUME NEW j \in Jobs, Send(j) PROVE WorkersHome'
        BY <1>3, <2>9, HomeStays DEF Send, Live
    <2>10. ASSUME NEW j \in Jobs, Leave(j) \/ Crash(j) PROVE WorkersHome'
        <3>1. \A k \in Jobs : Live(k)' => Live(k) /\ origin'[k] = origin[k]
            BY <1>2, <2>10, EndsAlive DEF TypeOK, Typed, Live
        <3> QED
            BY <1>2, <1>3, <2>10, <3>1, EndsAlive, HomeStays
    <2>11. CASE UNCHANGED vars
        BY <1>3, <2>11, HomeStays DEF vars, Live
    <2> QED
        BY <2>1, <2>2, <2>3, <2>4, <2>5, <2>6, <2>7, <2>8, <2>9, <2>10, <2>11
        DEF Next, Main
<1>5. SharesComeHome'
    <2>1. ASSUME NEW j \in Jobs, Send(j), SleepCoversHash
          PROVE  share'.home /\ share'.loggedIn
        BY <1>3, <2>1 DEF Send, WorkersHome
    <2>2. ASSUME ~\E j \in Jobs : Send(j) PROVE share' = share
        <3>1. ASSUME NEW j \in Jobs, Leave(j) \/ Crash(j) PROVE share' = share
            BY <1>2, <3>1, EndsAlive
        <3> QED
            BY <2>2, <3>1, InsideConnect
            DEF Next, Main, NoLine, HandleLine, InterruptOld, StartNew,
                ReportHashrate, TearDown, Wake, vars
    <2> QED
        BY <1>3, <2>1, <2>2 DEF SharesComeHome
<1> QED
    BY <1>1, <1>4, <1>5 DEF IInv

(* Every share goes to the connection its job came from, after the login   *)
(* there, if a hash takes less than the sleep between two sessions.        *)
THEOREM SharesComeHomeHolds == Spec => []SharesComeHome
<1>1. IInv => SharesComeHome
    BY DEF IInv
<1> QED
    BY <1>1, HomeInit, HomeStep, PTL DEF Spec
=============================================================================

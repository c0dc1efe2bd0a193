------------------------------- MODULE Miner -------------------------------
(***************************************************************************)
(* The session with the pool: Miner.connect, start, reconnect and send.    *)
(* The main thread opens connections and reads lines; the workers of a job *)
(* are one unit here (Worker has their detail) and write their shares to   *)
(* whatever printWriter is at that moment.                                 *)
(*                                                                         *)
(* A connection and a job are names that are used again when nothing in    *)
(* the program refers to them any more, so that sessions can follow one    *)
(* another without end.                                                    *)
(***************************************************************************)
EXTENDS PoolProtocol

CONSTANTS
    Conns,             \* names of connections
    Jobs,              \* names of jobs; bound: as many have live workers at once
    None,
    Lines,             \* lines the pool may send, as PoolProtocol represents them
    SleepCoversHash    \* BOOLEAN: a hash takes less than the 30 s of a sleep

ASSUME SessionAssumption ==
    /\ None \notin Conns \cup Jobs
    /\ SleepCoversHash \in BOOLEAN

VARIABLES
    main,       \* what the main thread does next
    caller,     \* the method that called connect
    socket, printWriter, scanner,   \* the connection behind each field of Miner
    logins,     \* login lines written to each connection
    job,        \* the job parsed last
    origin,     \* the connection each job was read from
    minable,    \* whether a job has a blob the workers can hash
    set,        \* the jobs whose workers the field set holds
    workers,    \* state of the workers of each job
    share       \* the last share: whether it was written where its job came
                \* from, and whether there had been one login line before it

fields == <<socket, printWriter, scanner>>
jobVars == <<job, origin, minable>>
threadVars == <<set, workers>>
vars == <<main, caller, fields, logins, jobVars, threadVars, share>>

Connecting == {"open", "writer", "scanner", "options", "login"}
Handling == {"interrupt", "start workers", "report"}
Established == Handling \cup {"reading", "tear down"}

NoShare == [home |-> TRUE, loggedIn |-> TRUE]

Init ==
    /\ main = "open"
    /\ caller = "start"
    /\ socket = None
    /\ printWriter = None
    /\ scanner = None
    /\ logins = [c \in Conns |-> 0]
    /\ job = None
    /\ origin = [j \in Jobs |-> None]
    /\ minable = [j \in Jobs |-> FALSE]
    /\ set = {}
    /\ workers = [j \in Jobs |-> "none"]
    /\ share = NoShare

-----------------------------------------------------------------------------
(* connect() *)

Live(j) == workers[j] \in {"running", "interrupted"}

\* A name no field and no live worker refers to.
FreeConn(c) ==
    /\ c \notin {socket, printWriter, scanner}
    /\ \A j \in Jobs : Live(j) => origin[j] # c

OpenSocket ==
    /\ main = "open"
    /\ \E c \in Conns : FreeConn(c) /\ socket' = c
    /\ logins' = [c \in Conns |-> IF FreeConn(c) THEN 0 ELSE logins[c]]
    /\ main' = "writer"
    /\ UNCHANGED <<caller, printWriter, scanner, jobVars, threadVars, share>>

\* Mutant: the writer of the first connection is kept.
MakeWriter_Once ==
    /\ main = "writer"
    /\ printWriter' = IF printWriter = None THEN socket ELSE printWriter
    /\ main' = "scanner"
    /\ UNCHANGED <<caller, socket, scanner, logins, jobVars, threadVars, share>>

\* From here on a worker that still runs writes to the new connection.
MakeWriter ==
    /\ main = "writer"
    /\ printWriter' = socket
    /\ main' = "scanner"
    /\ UNCHANGED <<caller, socket, scanner, logins, jobVars, threadVars, share>>

\* Mutant: the scanner of the first connection is kept.
MakeScanner_Once ==
    /\ main = "scanner"
    /\ scanner' = IF scanner = None THEN socket ELSE scanner
    /\ main' = "options"
    /\ UNCHANGED <<caller, socket, printWriter, logins, jobVars, threadVars, share>>

\* Mutant: a local variable of that name is assigned, and not the field.
MakeScanner_Shadows ==
    /\ main = "scanner"
    /\ main' = "options"
    /\ UNCHANGED <<caller, fields, logins, jobVars, threadVars, share>>

MakeScanner ==
    /\ main = "scanner"
    /\ scanner' = socket
    /\ main' = "options"
    /\ UNCHANGED <<caller, socket, printWriter, logins, jobVars, threadVars, share>>

SetOptions ==
    /\ main = "options"
    /\ main' = "login"
    /\ UNCHANGED <<caller, fields, logins, jobVars, threadVars, share>>

\* The login line.  When reconnect called connect, start is called next and
\* opens a connection of its own; otherwise start goes on to read.
Login ==
    /\ main = "login"
    /\ logins' = [logins EXCEPT ![printWriter] = @ + 1]
    /\ main' = IF caller = "reconnect" THEN "open" ELSE "reading"
    /\ caller' = "start"
    /\ UNCHANGED <<fields, jobVars, threadVars, share>>

\* UnknownHostException or another IOException.  What was assigned before
\* stays assigned; both callers then sleep before the next attempt.
ConnectFails ==
    /\ main \in {"open", "writer", "scanner", "options"}
    /\ main' = "sleeping"
    /\ UNCHANGED <<caller, fields, logins, jobVars, threadVars, share>>

-----------------------------------------------------------------------------
(* start() *)

\* End of input, a reset, or 150 s without a line: hasNextLine is false.
NoLine ==
    /\ main = "reading"
    /\ main' = "tear down"
    /\ UNCHANGED <<caller, fields, logins, jobVars, threadVars, share>>

HandleLine(line) ==
    /\ main = "reading"
    /\ \/ /\ Outcome(line) = "exception"
          /\ main' = "tear down"
          /\ UNCHANGED jobVars
       \/ /\ Outcome(line) = "reply"
          /\ UNCHANGED <<main, jobVars>>
       \/ /\ Outcome(line) = "job"
          /\ main' = "interrupt"
          /\ \E j \in Jobs :
                /\ ~Live(j) /\ j \notin set
                /\ job' = j
                /\ origin' = [origin EXCEPT ![j] = scanner]
                /\ minable' = [minable EXCEPT ![j] = ParseLine(line).job.blob # Absent]
    /\ UNCHANGED <<caller, fields, logins, threadVars, share>>

\* Every thread of set is interrupted; one that has ended takes no notice.
Interrupted == [j \in Jobs |->
    IF j \in set /\ workers[j] = "running" THEN "interrupted" ELSE workers[j]]

\* work(job): the workers in set are interrupted and forgotten ...
InterruptOld ==
    /\ main = "interrupt"
    /\ workers' = Interrupted
    /\ set' = {}
    /\ main' = "start workers"
    /\ UNCHANGED <<caller, fields, logins, jobVars, share>>

\* Mutant: the new workers are started and not remembered.
StartNew_Forgets ==
    /\ main = "start workers"
    /\ workers' = [workers EXCEPT ![job] = "running"]
    /\ main' = "report"
    /\ UNCHANGED <<caller, fields, logins, jobVars, set, share>>

\* ... and new ones started and remembered.
StartNew ==
    /\ main = "start workers"
    /\ workers' = [workers EXCEPT ![job] = "running"]
    /\ set' = set \cup {job}
    /\ main' = "report"
    /\ UNCHANGED <<caller, fields, logins, jobVars, share>>

\* getHashrate may throw (see Hashrate).
ReportHashrate ==
    /\ main = "report"
    /\ main' \in {"reading", "tear down"}
    /\ UNCHANGED <<caller, fields, logins, jobVars, threadVars, share>>

\* Mutant: the workers are not interrupted when the connection is lost.
TearDown_LetsMine ==
    /\ main = "tear down"
    /\ main' = "sleeping"
    /\ UNCHANGED <<caller, fields, logins, jobVars, threadVars, share>>

TearDown ==
    /\ main = "tear down"
    /\ workers' = Interrupted
    /\ set' = {}
    /\ main' = "sleeping"
    /\ UNCHANGED <<caller, fields, logins, jobVars, share>>

-----------------------------------------------------------------------------
(* reconnect() *)

\* Mutant: reconnect sleeps again instead of connecting.
Wake_Oversleeps ==
    /\ main = "sleeping"
    /\ caller' = "reconnect"
    /\ UNCHANGED <<main, fields, logins, jobVars, threadVars, share>>

Wake ==
    /\ main = "sleeping"
    /\ SleepCoversHash => \A j \in Jobs : workers[j] # "interrupted"
    /\ main' = "open"
    /\ caller' = "reconnect"
    /\ UNCHANGED <<fields, logins, jobVars, threadVars, share>>

-----------------------------------------------------------------------------
(* The workers of a job. *)

\* send() reads printWriter when it is called, on the thread of the worker.
Send(j) ==
    /\ Live(j)
    /\ minable[j]
    /\ share' = [home |-> printWriter = origin[j], loggedIn |-> logins[printWriter] = 1]
    /\ UNCHANGED <<main, caller, fields, logins, jobVars, threadVars>>

\* The threads end, and nothing is left that refers to their job.
End(j) ==
    /\ workers' = [workers EXCEPT ![j] = "none"]
    /\ origin' = [origin EXCEPT ![j] = None]
    /\ minable' = [minable EXCEPT ![j] = FALSE]
    /\ UNCHANGED <<main, caller, fields, logins, job, set, share>>

\* The interrupt is noticed at the end of a hash.
Leave(j) == workers[j] = "interrupted" /\ End(j)

\* There is no blob to hash, or the statistics throw: the threads end.
Crash(j) == Live(j) /\ End(j)

Connect == OpenSocket \/ MakeWriter \/ MakeScanner \/ SetOptions \/ Login
Main ==
    \/ Connect \/ ConnectFails
    \/ NoLine \/ \E line \in Lines : HandleLine(line)
    \/ InterruptOld \/ StartNew \/ ReportHashrate \/ TearDown
    \/ Wake

Next == Main \/ \E j \in Jobs : Send(j) \/ Leave(j) \/ Crash(j)

\* The JVM runs the threads.  A step of connect that can succeed again and
\* again in the end succeeds, for each of the two callers: the second
\* connection, which start opens while that of reconnect stays open, must be
\* accepted too.
Fairness ==
    /\ WF_vars(Login)
    /\ WF_vars(InterruptOld \/ StartNew \/ ReportHashrate \/ TearDown \/ Wake)
    /\ \A k \in {"start", "reconnect"} :
          /\ SF_vars(OpenSocket /\ caller = k)
          /\ SF_vars(MakeWriter /\ caller = k)
          /\ SF_vars(MakeScanner /\ caller = k)
          /\ SF_vars(SetOptions /\ caller = k)
    /\ \A j \in Jobs : WF_vars(Leave(j))

Spec == Init /\ [][Next]_vars /\ Fairness

-----------------------------------------------------------------------------
Typed ==
    /\ main \in Connecting \cup Handling \cup {"reading", "tear down", "sleeping"}
    /\ caller \in {"start", "reconnect"}
    /\ socket \in Conns \cup {None}
    /\ printWriter \in Conns \cup {None}
    /\ scanner \in Conns \cup {None}
    /\ logins \in [Conns -> Nat]
    /\ job \in Jobs \cup {None}
    /\ origin \in [Jobs -> Conns \cup {None}]
    /\ minable \in [Jobs -> BOOLEAN]
    /\ set \subseteq Jobs
    /\ workers \in [Jobs -> {"none", "running", "interrupted"}]
    /\ share \in [home : BOOLEAN, loggedIn : BOOLEAN]

NothingNull ==
    /\ main \in (Connecting \ {"open"}) \cup Established => socket # None
    /\ main \in {"scanner", "options", "login"} \cup Established => printWriter # None
    /\ main \in {"options", "login"} \cup Established => scanner # None
    /\ main \in Handling => job # None
    /\ (\E j \in Jobs : Live(j)) => printWriter # None

(* Every variable stays in its type, and no field of Miner is null where   *)
(* it is used: connect replaces them one by one, may fail between two of   *)
(* them and is left by an exception (Miner.java:51-82, 178-191).           *)
TypeOK == Typed /\ NothingNull

(* A share goes to the connection its job came from, and after the login   *)
(* line there: no worker outlives the session that started it into the     *)
(* next one, provided a hash takes less than the sleep between sessions    *)
(* (Miner.java:79-108, 178-191, 221-233).                                  *)
SharesComeHome ==
    SleepCoversHash => share.home /\ share.loggedIn

(* No connection sees two login lines, although reconnect and start each   *)
(* log in and an attempt may fail after fields were replaced               *)
(* (Miner.java:51-77, 221-233).                                            *)
OneLogin == \A c \in Conns : logins[c] <= 1

(* The main thread reads from, and the workers write to, one and the same  *)
(* connection, on which the miner has logged in, even after attempts that  *)
(* failed half way (Miner.java:51-82).                                     *)
ReadsOwnConnection ==
    main \in Handling \cup {"reading"} =>
        /\ socket = printWriter /\ printWriter = scanner
        /\ scanner \in Conns /\ logins[scanner] = 1

(* Between two sessions every worker was told to stop: set holds all that  *)
(* run when the connection is lost, whichever line or attempt came before  *)
(* (Miner.java:98-103, 193-205).                                           *)
NobodyMinesOffline ==
    main \in Connecting \cup {"sleeping"} => \A j \in Jobs : workers[j] # "running"

(* Only workers of the job parsed last go on, and before its own workers   *)
(* are started none does, although only those that set holds are told to   *)
(* stop (Miner.java:193-205).                                              *)
OneJobMined ==
    /\ \A j \in Jobs : workers[j] = "running" /\ main # "interrupt" => j = job
    /\ main = "start workers" => \A j \in Jobs : workers[j] # "running"

(* After every loss of the connection the miner reads from the pool again, *)
(* if the pool can be reached again and again (Miner.java:102-107,         *)
(* 221-233).                                                               *)
ComesBack == main = "tear down" ~> main = "reading"
=============================================================================

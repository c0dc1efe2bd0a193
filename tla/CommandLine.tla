---------------------------- MODULE CommandLine ----------------------------
(***************************************************************************)
(* From the arguments to a running miner: Drill.main and Drill.parseArgs.  *)
(* The option parser is commons-cli; of a command line the model keeps     *)
(* what it finds for each option, and whether there was anything else.     *)
(***************************************************************************)
EXTENDS Integers

CONSTANTS
    Processors,   \* Runtime.availableProcessors(), at least 1
    Number        \* function from the values that are integers to integers

NotGiven == "absent"         \* the option is not on the command line
NoValue == "no value"       \* the option is there without an argument
Word == "word"              \* an argument that is no integer

Required == {"host", "user", "port"}
Valued == Required \cup {"pass", "thread"}
Flags == {"help", "unknown"}

VARIABLES
    given,       \* what the command line has for each option
    flags,       \* the flags on the command line
    supported,   \* 64-bit Windows or Linux
    outcome      \* what came of the call

vars == <<given, flags, supported, outcome>>

Init ==
    /\ given \in [Valued -> {NotGiven, NoValue, Word} \cup DOMAIN Number]
    /\ flags \in SUBSET Flags
    /\ supported \in BOOLEAN
    /\ outcome = NotGiven

\* DefaultParser.parse: unknown options, options without their argument, and
\* then required options that are missing throw a ParseException.
ParseFails ==
    \/ "unknown" \in flags
    \/ \E o \in Valued : given[o] = NoValue
    \/ \E o \in Required : given[o] = NotGiven

\* What new Socket takes.
Ports == 0 .. 65535

IsInteger(value) == value \in DOMAIN Number

\* One thread less than there are processors, when -thread is not given.
DefaultThreads == Processors - 1

Threads ==
    IF given["thread"] = NotGiven THEN DefaultThreads ELSE Number[given["thread"]]

Finish(result) == outcome' = result /\ UNCHANGED <<given, flags, supported>>

NoArguments == (\A o \in Valued : given[o] = NotGiven) /\ flags = {}

Reject ==
    /\ outcome = NotGiven
    /\ NoArguments
    /\ Finish("invalid arguments")

Unsupported ==
    /\ outcome = NotGiven
    /\ ~NoArguments /\ ~supported
    /\ Finish("unsupported system")

Misused ==
    /\ outcome = NotGiven
    /\ ~NoArguments /\ supported
    /\ ParseFails
    /\ Finish("correct use")

Help ==
    /\ outcome = NotGiven
    /\ ~NoArguments /\ supported /\ ~ParseFails
    /\ "help" \in flags
    /\ Finish("help")

BadNumber ==
    /\ outcome = NotGiven
    /\ ~NoArguments /\ supported /\ ~ParseFails
    /\ "help" \notin flags
    /\ \/ /\ ~IsInteger(given["port"])
          /\ Finish("port is no integer")
       \/ /\ IsInteger(given["port"])
          /\ ~(given["thread"] = NotGiven \/ IsInteger(given["thread"]))
          /\ Finish("thread is no integer")

\* new Miner(...).start(): a port that is none makes new Socket throw an
\* IllegalArgumentException, which connect() does not catch.
Mine ==
    /\ outcome = NotGiven
    /\ ~NoArguments /\ supported /\ ~ParseFails
    /\ "help" \notin flags
    /\ IsInteger(given["port"])
    /\ given["thread"] = NotGiven \/ IsInteger(given["thread"])
    /\ Finish(IF Number[given["port"]] \notin Ports THEN "port out of range"
              ELSE IF Threads > 0 THEN "mining" ELSE "idle")

Next == Reject \/ Unsupported \/ Misused \/ Help \/ BadNumber \/ Mine

Spec == Init /\ [][Next]_vars

-----------------------------------------------------------------------------
(* README.md:19 lists "-help" as an option that "Prints the help" and that *)
(* needs no other, and Drill.java:28 asks for it when there are no         *)
(* arguments.                                                              *)
HelpPrintsHelp ==
    outcome # NotGiven /\ supported /\ flags = {"help"}
    /\ (\A o \in Valued : given[o] = NotGiven) => outcome = "help"
=============================================================================

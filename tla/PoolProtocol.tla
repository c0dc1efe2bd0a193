---------------------------- MODULE PoolProtocol ----------------------------
(***************************************************************************)
(* What the miner understands of a line from the pool (Miner.parseJob).    *)
(* A line is a sequence of members, as the JSON parser delivers them; the  *)
(* value of result, error, params and job is again a sequence of fields.   *)
(* parseJob goes through them in order and lets later fields override      *)
(* earlier ones, so the meaning of a line depends on their order.          *)
(***************************************************************************)
EXTENDS Integers, SequencesExt

CONSTANTS
    Malformed,   \* a value whose conversion throws: another JSON type, digits
                 \* that are odd in number or not hexadecimal, a short target
    Null,        \* the JSON value null
    Absent       \* a field of Job that was not set

Field(name, value) == [name |-> name, value |-> value]

\* A job before the first field: the targets are numbers, an unset int is 0.
Blank == [id |-> Absent, blob |-> Absent, jobId |-> Absent, target |-> 0]

\* What parseJob keeps while it reads a line: the job, its two flags, and
\* whether it has thrown.
Start == [job |-> Blank, status |-> FALSE, info |-> FALSE, thrown |-> FALSE]

Throw(s) == [s EXCEPT !.thrown = TRUE]

\* The conversion of a field throws or delivers the value.
Convert(s, f, key) ==
    IF f.value = Malformed THEN Throw(s) ELSE [s EXCEPT !.job[key] = f.value]

\* Nothing is read after an exception.
ReadAll(Read(_, _), s, fields) ==
    FoldLeft(LAMBDA t, f : IF t.thrown THEN t ELSE Read(t, f), s, fields)

ReadJobField(s, f) ==
    CASE f.name = "blob"   -> Convert(s, f, "blob")
      [] f.name = "job_id" -> Convert(s, f, "jobId")
      [] f.name = "target" -> Convert(s, f, "target")
      [] OTHER             -> s

\* Mutant: the status of a result counts even when a job came with it.
ReadResultField_AnyStatus(s, f) ==
    CASE f.name = "id"     -> Convert(s, f, "id")
      [] f.name = "job"    ->
            IF f.value = Malformed THEN Throw(s)
            ELSE ReadAll(ReadJobField, s, f.value)
      [] f.name = "status" ->
            IF f.value = Malformed THEN Throw(s)
            ELSE [s EXCEPT !.info = @ \/ f.value = "OK"]
      [] OTHER             -> s

\* A job inside a result sets the status, so that an OK after it is no reply.
ReadResultField(s, f) ==
    CASE f.name = "id"     -> Convert(s, f, "id")
      [] f.name = "job"    ->
            IF f.value = Malformed THEN Throw(s)
            ELSE LET t == ReadAll(ReadJobField, s, f.value)
                 IN IF t.thrown THEN t ELSE [t EXCEPT !.status = TRUE]
      [] f.name = "status" ->
            IF f.value = Malformed THEN Throw(s)
            ELSE [s EXCEPT !.info = @ \/ (f.value = "OK" /\ ~s.status)]
      [] OTHER             -> s

ReadErrorField(s, f) ==
    IF f.name # "message" THEN s
    ELSE IF f.value \in {Malformed, "Unauthenticated"} THEN Throw(s)
    ELSE [s EXCEPT !.info = TRUE]

ReadParamField(s, f) ==
    IF f.name = "id" THEN Convert(s, f, "id") ELSE ReadJobField(s, f)

ReadMember(s, m) ==
    IF m.name \notin {"result", "error", "params"} \/ (m.name = "error" /\ m.value = Null) THEN s
    ELSE IF m.value = Malformed THEN Throw(s)
    ELSE CASE m.name = "result" -> ReadAll(ReadResultField, s, m.value)
           [] m.name = "error"  -> ReadAll(ReadErrorField, s, m.value)
           [] m.name = "params" -> ReadAll(ReadParamField, s, m.value)

\* A line that is no JSON object makes the JSON parser throw.
ParseLine(line) ==
    IF line = Malformed THEN Throw(Start) ELSE ReadAll(ReadMember, Start, line)

\* What start() makes of the outcome: an exception, which ends the session;
\* a reply, on which it goes on reading; or a job for work().  The division
\* in the message about the difficulty throws for a target of 0.
Outcome(line) ==
    LET s == ParseLine(line) IN
    CASE s.thrown                                    -> "exception"
      [] ~s.thrown /\ s.info                         -> "reply"
      [] ~s.thrown /\ ~s.info /\ s.job.target = 0    -> "exception"
      [] ~s.thrown /\ ~s.info /\ s.job.target # 0    -> "job"
=============================================================================

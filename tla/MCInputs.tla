------------------------------ MODULE MCInputs ------------------------------
(***************************************************************************)
(* Everything that the pool sends is tried: its lines, and the numbers in  *)
(* them against the hashes and nonces of the workers.  What the program    *)
(* makes of an input is compared with a definition that does not go        *)
(* through it step by step.                                                *)
(***************************************************************************)
EXTENDS PoolProtocol, ShareCodec

JobFields ==
    {Field("blob", v) : v \in {"b", Malformed}} \cup
    {Field("job_id", "j")} \cup
    {Field("target", v) : v \in {0, 5, Malformed}}

JobTables == BoundedSeq(JobFields, 2)

ResultFields ==
    {Field("id", v) : v \in {"i", Malformed}} \cup
    {Field("status", v) : v \in {"OK", "KEEPALIVED", Malformed}} \cup
    {Field("job", v) : v \in {Malformed, <<>>, <<Field("target", 5)>>,
                              <<Field("blob", Malformed), Field("target", 5)>>,
                              <<Field("blob", "b"), Field("target", 0)>>}} \cup
    {Field("other", Malformed)}

ErrorFields ==
    {Field("message", v) : v \in {"text", "Unauthenticated", Malformed}} \cup
    {Field("code", Malformed)}

Members ==
    {Field("result", v) : v \in {Malformed} \cup BoundedSeq(ResultFields, 2)} \cup
    {Field("error", v) : v \in {Null, Malformed} \cup BoundedSeq(ErrorFields, 1)} \cup
    {Field("params", v) : v \in {Malformed, <<Field("id", "i")>>} \cup JobTables} \cup
    {Field("method", Malformed)}

Lines == {Malformed} \cup BoundedSeq(Members, 2)

(* The texts of all targets of four bytes, and some that are none.         *)
Targets ==
  [1..8 -> [digit : 0..(Base - 1), upper : {FALSE}]]
  \cup {<<>>, <<Digit(1, TRUE)>>, [k \in 1..6 |-> Digit(1, FALSE)], [k \in 1..8 |-> IF k = 5 THEN NotHex ELSE Digit(0, FALSE)]}

VARIABLES
  kind,               \* of the input
  line, parsed,       \* a line, and the outcome of parsing it
  text, word, share   \* a target, a hash or nonce, and what a worker makes of them

poolVars == <<line, parsed>>
shareVars == <<text, word, share>>

NoLine == line = <<>> /\ parsed = Absent
NoShare == text = <<>> /\ word = 0 /\ share = Absent

InputsInit ==
  \/ kind = "line" /\ line \in Lines /\ parsed = Absent /\ NoShare
  \/ kind = "share" /\ NoLine /\ text \in Targets /\ word \in 0..(Ints - 1) /\ share = Absent

Parse ==
  /\ kind = "line" /\ parsed = Absent
  /\ parsed' = Outcome(line)
  /\ UNCHANGED <<kind, line, shareVars>>

(* The word is the end of a hash, most significant byte last, and the      *)
(* nonce that led to it.                                                   *)
Judge ==
  LET hash == <<ToByte(word), ToByte(word \div Bytes), ToByte(word \div (Bytes * Bytes)),
                ToByte(word \div (Bytes * Bytes * Bytes))>>
      target == Target(text)
  IN  /\ kind = "share" /\ share = Absent
      /\ share' = [readable |-> target # Unreadable,
                   sent |-> IF target = Unreadable THEN FALSE ELSE Wins(hash, target),
                   nonce |-> NonceText(Signed(word, Ints))]
      /\ UNCHANGED <<kind, text, word, poolVars>>

InputsNext == Parse \/ Judge

InputsSpec == InputsInit /\ [][InputsNext]_<<kind, poolVars, shareVars>>

-----------------------------------------------------------------------------
\* The fields of a line in the order in which they are read, each with the
\* place where it stands; the job of a result is followed by a mark for its end.
Entry(place, f) == [in |-> place, name |-> f.name, value |-> f.value]
Entries(place, fields) == [k \in DOMAIN fields |-> Entry(place, fields[k])]
EndOfJob == Entry("end of job", Field("job", Null))

EntriesOfResult(f) ==
    IF f.name # "job" \/ f.value = Malformed THEN << Entry("result", f) >>
    ELSE Entries("job", f.value) \o << EndOfJob >>

EntriesOf(m) ==
    IF m.name \notin {"result", "error", "params"} \/ (m.name = "error" /\ m.value = Null) THEN << >>
    ELSE IF m.value = Malformed THEN << Entry("line", m) >>
    ELSE IF m.name = "result" THEN FlattenSeq([k \in DOMAIN m.value |-> EntriesOfResult(m.value[k])])
    ELSE Entries(m.name, m.value)

Flat(l) == FlattenSeq([k \in DOMAIN l |-> EntriesOf(l[k])])

\* The fields that matter, by their place.
Known == {"result", "error", "params"}
FieldsRead == [line |-> Known, result |-> {"id", "job", "status"}, error |-> {"message"},
               params |-> {"id", "blob", "job_id", "target"}, job |-> {"blob", "job_id", "target"}]

IsEnd(e) == e.in = "end of job"
IsTarget(e) == e.in \in {"job", "params"} /\ e.name = "target"
IsMessage(e) == e.in = "error" /\ e.name = "message"
IsOk(e) == e.in = "result" /\ e.name = "status" /\ e.value = "OK"

IsWrong(e) ==
    \/ e.in \in DOMAIN FieldsRead /\ e.name \in FieldsRead[e.in] /\ e.value = Malformed
    \/ IsMessage(e) /\ e.value = "Unauthenticated"

Throws(l) == \E k \in DOMAIN Flat(l) : IsWrong(Flat(l)[k])

Informs(l) ==
    \E k \in DOMAIN Flat(l) :
        \/ IsMessage(Flat(l)[k])
        \/ IsOk(Flat(l)[k]) /\ \A i \in 1 .. (k - 1) : ~IsEnd(Flat(l)[i])

LastTargetIsZero(l) ==
    \A k \in DOMAIN Flat(l) : IsTarget(Flat(l)[k]) /\ Flat(l)[k].value # 0 =>
        \E i \in DOMAIN Flat(l) : i > k /\ IsTarget(Flat(l)[i]) /\ Flat(l)[i].value = 0

Reference(l) ==
    IF l = Malformed THEN "exception"
    ELSE IF Throws(l) THEN "exception"
    ELSE IF Informs(l) THEN "reply"
    ELSE IF LastTargetIsZero(l) THEN "exception" ELSE "job"

(* A line ends the session, is a reply or brings a job exactly when its    *)
(* fields say so: the fields decide by their values, except that an OK     *)
(* before the job turns the line into a reply and loses the job, and that  *)
(* the last target counts (Miner.java:86-88, 110-176).                     *)
OutcomeMatchesReference == parsed # Absent => parsed = Reference(line)

-----------------------------------------------------------------------------
(* The number that a text of eight digits, least significant byte first,   *)
(* stands for to the pool.                                                 *)
PoolNumber(t) ==
  LET byte(k) == t[2 * k - 1].digit * Base + t[2 * k].digit
  IN  ((byte(4) * Bytes + byte(3)) * Bytes + byte(2)) * Bytes + byte(1)

(* A worker sends a share when the pool would take it, and no other: all   *)
(* numbers are unsigned to the pool.  Only targets from half of the range  *)
(* on, which are negative ints, are never met (Worker.java:35-37,          *)
(* Miner.java:128-133).                                                    *)
SharesAreWanted ==
  share # Absent =>
    /\ share.readable <=> Len(text) = 8 /\ \A k \in 1..8 : text[k] # NotHex
    /\ share.sent <=> /\ share.readable
                      /\ word <= PoolNumber(text)
                      /\ PoolNumber(text) < Ints \div 2

(* The nonce that the pool reads from a share is the one that was hashed,  *)
(* byte by byte and as a number, for nonces that are negative ints as well *)
(* (Worker.java:30-41, Hex.java:24-33, Miner.java:182).                    *)
NonceArrives ==
  share # Absent =>
    /\ unhexlify(share.nonce) = NonceBytes(Signed(word, Ints))
    /\ PoolNumber(share.nonce) = word
=============================================================================

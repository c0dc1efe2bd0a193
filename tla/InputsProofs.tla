---------------------------- MODULE InputsProofs ----------------------------
(***************************************************************************)
(* What the program makes of what the pool sends, for every input: of      *)
(* lines with any number of members, fields and fields of a job; of        *)
(* targets, hashes and nonces, for every even number of digits.  The run   *)
(* takes two digits and two members.                                       *)
(*                                                                         *)
(* parseJob is a fold of folds.  Follows says what reading a sequence of   *)
(* entries makes of a state, and holds of two sequences behind each other  *)
(* if it holds of each (FollowsOn); the rest is to see that every field is *)
(* one entry or a sequence of them.                                        *)
(***************************************************************************)
EXTENDS MCInputs, FoldProofs, TLAPS

inputVars == <<kind, poolVars, shareVars>>

-----------------------------------------------------------------------------
(* Lines: what reading entries makes of a state. *)

(* What is told of a reading: that it has thrown, seen the job of a result *)
(* or a reply, and that its target is not zero.                            *)
Thrown(s) == s.thrown
HasJob(s) == s.status
HasReply(s) == s.info
Aims(s) == s.job.target # 0

IsZero(e) == IsTarget(e) /\ e.value = 0
IsAim(e) == IsTarget(e) /\ e.value # 0

(* What reading an entry makes of a state. *)
Takes(s, x, t) ==
  /\ Thrown(t) <=> Thrown(s) \/ IsWrong(x)
  /\ ~Thrown(t) =>
       /\ HasJob(t) <=> HasJob(s) \/ IsEnd(x)
       /\ HasReply(t) <=> HasReply(s) \/ IsMessage(x) \/ (IsOk(x) /\ ~HasJob(s))
       /\ Aims(t) <=> (Aims(s) /\ ~IsZero(x)) \/ IsAim(x)

(* What reading the entries of e behind a and up to b makes of a state.    *)
Follows(s, e, a, b, t) ==
  /\ Thrown(t) <=> Thrown(s) \/ \E k \in (a + 1)..b : IsWrong(e[k])
  /\ ~Thrown(t) =>
       /\ HasJob(t) <=> HasJob(s) \/ \E k \in (a + 1)..b : IsEnd(e[k])
       /\ HasReply(t) <=>
            \/ HasReply(s)
            \/ \E k \in (a + 1)..b : IsMessage(e[k])
            \/ ~HasJob(s) /\ \E k \in (a + 1)..b : IsOk(e[k]) /\ \A i \in (a + 1)..(k - 1) : ~IsEnd(e[i])
       /\ Aims(t) <=>
            \/ Aims(s) /\ \A k \in (a + 1)..b : ~IsZero(e[k])
            \/ \E k \in (a + 1)..b : IsAim(e[k]) /\ \A i \in (k + 1)..b : ~IsZero(e[i])

(* No entry changes nothing. *)
LEMMA FollowsNone ==
  ASSUME NEW s, NEW e, NEW a \in Nat
  PROVE  Follows(s, e, a, a, s)
<1>1. (a + 1)..a = {}
  OBVIOUS
<1> QED BY <1>1, Zenon DEF Follows

(* One entry. *)
LEMMA FollowsOne ==
  ASSUME NEW s, NEW e, NEW a \in Nat, NEW t, Takes(s, e[a + 1], t)
  PROVE  Follows(s, e, a, a + 1, t)
<1>1. /\ (a + 1)..(a + 1) = {a + 1}
      /\ (a + 1)..((a + 1) - 1) = {} /\ ((a + 1) + 1)..(a + 1) = {}
  OBVIOUS
<1> QED BY <1>1, Zenon DEF Follows, Takes

(* Nothing is read after an exception. *)
LEMMA FollowsThrown ==
  ASSUME NEW s, NEW e, NEW a, NEW b, Thrown(s)
  PROVE  Follows(s, e, a, b, s)
BY DEF Follows

(* The entries may stand anywhere. *)
LEMMA FollowsShift ==
  ASSUME NEW s, NEW e, NEW t, NEW n \in Nat, Follows(s, e, 0, n, t),
         NEW f, NEW a \in Nat, \A i \in 1..n : f[a + i] = e[i]
  PROVE  Follows(s, f, a, a + n, t)
<1>1. \A k : k \in 1..n <=> k \in (0 + 1)..n
  OBVIOUS
<1>2. \A k \in (a + 1)..(a + n) : k - a \in 1..n /\ f[k] = e[k - a]
  <2> TAKE k \in (a + 1)..(a + n)
  <2>1. k - a \in 1..n /\ a + (k - a) = k
    OBVIOUS
  <2> QED BY <2>1
<1>3. \A k \in 1..n : a + k \in (a + 1)..(a + n) /\ f[a + k] = e[k]
  OBVIOUS
<1>4. \A P : (\E k \in (a + 1)..(a + n) : f[k] \in P) <=> (\E k \in 1..n : e[k] \in P)
  BY <1>2, <1>3
<1> QED BY <1>2, <1>3 DEF Follows

(* Reading on where the reading stopped. *)
LEMMA FollowsOn ==
  ASSUME NEW s, NEW e, NEW t, NEW u, NEW a \in Nat, NEW b \in Nat, NEW c \in Nat, a <= b, b <= c,
         Follows(s, e, a, b, t), Follows(t, e, b, c, u)
  PROVE  Follows(s, e, a, c, u)
<1>1. \A k : k \in (a + 1)..c <=> k \in (a + 1)..b \/ k \in (b + 1)..c
  OBVIOUS
<1>2. Thrown(u) <=> Thrown(s) \/ \E k \in (a + 1)..c : IsWrong(e[k])
  BY <1>1 DEF Follows
<1>3. CASE Thrown(u)
  BY <1>2, <1>3 DEF Follows
<1>4. CASE ~Thrown(u)
  <2>1. ~Thrown(t)
    BY <1>4 DEF Follows
  <2>2. HasJob(u) <=> HasJob(s) \/ \E k \in (a + 1)..c : IsEnd(e[k])
    BY <1>1, <1>4, <2>1 DEF Follows
  <2>3. HasReply(u) <=>
            \/ HasReply(s)
            \/ \E k \in (a + 1)..c : IsMessage(e[k])
            \/ ~HasJob(s) /\ \E k \in (a + 1)..c : IsOk(e[k]) /\ \A i \in (a + 1)..(k - 1) : ~IsEnd(e[i])
    <3>1. \A k \in (b + 1)..c : \A i : i \in (a + 1)..(k - 1) <=> i \in (a + 1)..b \/ i \in (b + 1)..(k - 1)
      OBVIOUS
    <3>2. (\E k \in (a + 1)..c : IsOk(e[k]) /\ \A i \in (a + 1)..(k - 1) : ~IsEnd(e[i]))
          <=> \/ \E k \in (a + 1)..b : IsOk(e[k]) /\ \A i \in (a + 1)..(k - 1) : ~IsEnd(e[i])
              \/ /\ \A i \in (a + 1)..b : ~IsEnd(e[i])
                 /\ \E k \in (b + 1)..c : IsOk(e[k]) /\ \A i \in (b + 1)..(k - 1) : ~IsEnd(e[i])
      BY <1>1, <3>1, Zenon
    <3> QED BY <1>1, <1>4, <2>1, <3>2, Zenon DEF Follows
  <2>4. Aims(u) <=>
            \/ Aims(s) /\ \A k \in (a + 1)..c : ~IsZero(e[k])
            \/ \E k \in (a + 1)..c : IsAim(e[k]) /\ \A i \in (k + 1)..c : ~IsZero(e[i])
    <3>1. \A k \in (a + 1)..b : \A i : i \in (k + 1)..c <=> i \in (k + 1)..b \/ i \in (b + 1)..c
      OBVIOUS
    <3>2. (\E k \in (a + 1)..c : IsAim(e[k]) /\ \A i \in (k + 1)..c : ~IsZero(e[i]))
          <=> \/ \E k \in (b + 1)..c : IsAim(e[k]) /\ \A i \in (k + 1)..c : ~IsZero(e[i])
              \/ /\ \A i \in (b + 1)..c : ~IsZero(e[i])
                 /\ \E k \in (a + 1)..b : IsAim(e[k]) /\ \A i \in (k + 1)..b : ~IsZero(e[i])
      BY <1>1, <3>1, Zenon
    <3> QED BY <1>1, <1>4, <2>1, <3>2, Zenon DEF Follows
  <2> QED BY <1>2, <2>2, <2>3, <2>4, Zenon DEF Follows
<1> QED BY <1>3, <1>4

-----------------------------------------------------------------------------
(* What parseJob keeps, with values of V in the job. *)
Readings(V) ==
  [job : [id : V, blob : V, jobId : V, target : V], status : BOOLEAN, info : BOOLEAN, thrown : BOOLEAN]

(* t is s with the value of a field, unless its conversion has thrown. *)
Converted(s, f, key, t) ==
  /\ f.value = Malformed => Thrown(t)
  /\ f.value # Malformed =>
       /\ Thrown(t) <=> Thrown(s)
       /\ HasJob(t) <=> HasJob(s)
       /\ HasReply(t) <=> HasReply(s)
       /\ Aims(t) <=> IF key = "target" THEN f.value # 0 ELSE Aims(s)

(* An exception is a reading. *)
LEMMA ThrowIs ==
  ASSUME NEW V, NEW s \in Readings(V)
  PROVE  Throw(s) \in Readings(V) /\ Thrown(Throw(s))
BY DEF Readings, Throw, Thrown

(* The conversion of a field into the job. *)
LEMMA ConvertIs ==
  ASSUME NEW V, NEW s \in Readings(V), NEW f, f.value \in V, NEW key \in {"id", "blob", "jobId", "target"}
  PROVE  Convert(s, f, key) \in Readings(V) /\ Converted(s, f, key, Convert(s, f, key))
<1> DEFINE t == Convert(s, f, key)
<1>1. CASE f.value = Malformed
  <2>1. t = Throw(s)
    BY <1>1 DEF Convert
  <2> QED BY <1>1, <2>1, ThrowIs DEF Converted
<1>2. CASE f.value # Malformed
  <2>1. t = [s EXCEPT !.job[key] = f.value]
    BY <1>2 DEF Convert
  <2>2. /\ t \in Readings(V)
        /\ t.thrown = s.thrown /\ t.status = s.status /\ t.info = s.info
        /\ t.job.target = IF key = "target" THEN f.value ELSE s.job.target
    BY <2>1 DEF Readings
  <2> HIDE DEF t
  <2>3. /\ Thrown(t) = Thrown(s) /\ HasJob(t) = HasJob(s) /\ HasReply(t) = HasReply(s)
        /\ Aims(t) <=> IF key = "target" THEN f.value # 0 ELSE Aims(s)
    BY <2>2 DEF Thrown, HasJob, HasReply, Aims
  <2>4. Converted(s, f, key, t)
    BY <1>2, <2>3, Zenon DEF Converted
  <2> QED BY <2>2, <2>4 DEF t
<1> QED BY <1>1, <1>2

(* A field of a job or of params. *)
LEMMA JobFieldTakes ==
  ASSUME NEW V, NEW s \in Readings(V), ~Thrown(s), NEW f, f.value \in V, NEW place \in {"job", "params"},
         place = "params" => f.name # "id"
  PROVE  /\ ReadJobField(s, f) \in Readings(V)
         /\ Takes(s, Entry(place, f), ReadJobField(s, f))
<1> DEFINE x == Entry(place, f)
           t == ReadJobField(s, f)
<1>1. x.in = place /\ x.name = f.name /\ x.value = f.value
  BY DEF Entry
<1>2. /\ ~IsEnd(x) /\ ~IsMessage(x) /\ ~IsOk(x)
      /\ IsTarget(x) <=> f.name = "target"
      /\ IsWrong(x) <=> f.name \in {"blob", "job_id", "target"} /\ f.value = Malformed
  <2> HIDE DEF x
  <2>1. ~IsEnd(x) /\ ~IsMessage(x) /\ ~IsOk(x) /\ (IsTarget(x) <=> f.name = "target")
    BY <1>1 DEF IsEnd, IsMessage, IsOk, IsTarget
  <2>2. /\ place \in DOMAIN FieldsRead
        /\ f.name \in FieldsRead[place] <=> f.name \in {"blob", "job_id", "target"} \/ (place = "params" /\ f.name = "id")
    BY DEF FieldsRead
  <2>3. IsWrong(x) <=> f.name \in {"blob", "job_id", "target"} /\ f.value = Malformed
    BY <1>1, <2>1, <2>2 DEF IsWrong
  <2> QED BY <2>1, <2>3
<1>3. CASE f.name \notin {"blob", "job_id", "target"}
  <2>1. t = s
    BY <1>3 DEF ReadJobField
  <2> HIDE DEF x, t
  <2>2. ~IsZero(x) /\ ~IsAim(x)
    BY <1>2, <1>3 DEF IsZero, IsAim
  <2>3. Takes(s, x, t)
    BY <1>2, <1>3, <2>1, <2>2, Zenon DEF Takes
  <2> QED BY <2>1, <2>3 DEF x, t
<1>4. CASE f.name \in {"blob", "job_id", "target"}
  <2> DEFINE key == IF f.name = "job_id" THEN "jobId" ELSE f.name
  <2>1. t = Convert(s, f, key)
    BY <1>4 DEF ReadJobField
  <2>2. key \in {"id", "blob", "jobId", "target"} /\ (key = "target" <=> f.name = "target")
    BY <1>4
  <2> HIDE DEF key
  <2>3. /\ t \in Readings(V)
        /\ Converted(s, f, key, t)
    BY <2>1, <2>2, ConvertIs
  <2> HIDE DEF t, x
  <2>4. (IsZero(x) <=> key = "target" /\ f.value = 0) /\ (IsAim(x) <=> key = "target" /\ f.value # 0)
    BY <1>1, <1>2, <2>2 DEF IsZero, IsAim
  <2>5. Takes(s, x, t)
    BY <1>2, <1>4, <2>3, <2>4, Zenon DEF Takes, Converted
  <2> QED BY <2>3, <2>5 DEF x, t
<1> QED BY <1>3, <1>4

-----------------------------------------------------------------------------
(* The folds of parseJob. *)

(* The steps of reading the fields of a job, and the values they stay in. *)
StaysJobFields(T, n, s) == \A t \in T, k \in 1..n : Thrown(t) \/ ReadJobField(t, s[k]) \in T
GoesJobFields(a, n, s) ==
  \A k \in 1..n : a[k] = IF Thrown(a[k - 1]) THEN a[k - 1] ELSE ReadJobField(a[k - 1], s[k])

(* ReadAll goes through them, whatever the set of readings. *)
LEMMA ReadsJobFields ==
  ASSUME NEW n \in Nat, NEW s, IsSequence(s, n), NEW T, NEW c \in T, StaysJobFields(T, n, s)
  PROVE  \E a \in [0..n -> T] : a[0] = c /\ a[n] = ReadAll(ReadJobField, c, s) /\ GoesJobFields(a, n, s)
<1> DEFINE One(t, f) == IF t.thrown THEN t ELSE ReadJobField(t, f)
           g == [p \in (1..n) \X T |-> One(p[2], s[p[1]])]
           Solves(f) == f = [u \in SUBSET (1..n) |->
                               IF u = {} THEN c ELSE One(f[u \ {Max(u)}], s[Max(u)])]
           it == CHOOSE f : Solves(f)
<1>1. g \in [(1..n) \X T -> T]
  BY DEF Thrown, StaysJobFields
<1>2. PICK a \in [0..n -> T] : Goes(a, n, c, g)
  <2> HIDE DEF g
  <2> QED BY ONLY n \in Nat, c \in T, <1>1, StepsExist
<1>3. a[0] = c /\ \A k \in 1..n : a[k] = One(a[k - 1], s[k])
  <2>1. a[0] = c /\ \A k \in 1..n : a[k] = g[<<k, a[k - 1]>>]
    BY <1>2 DEF Goes
  <2>2. \A k \in 1..n : k - 1 \in 0..n
    OBVIOUS
  <2>3. \A k \in 1..n : a[k - 1] \in T
    BY <2>2
  <2> HIDE DEF One
  <2> QED BY <2>1, <2>3
<1>4. PICK f \in [SUBSET (1..n) -> T] : Folds(f, n, c, g)
  <2> HIDE DEF g
  <2> QED BY ONLY n \in Nat, c \in T, <1>1, FoldExists
<1>5. Solves(f)
  <2>1. ASSUME NEW u \in SUBSET (1..n), u # {}
        PROVE  g[<<Max(u), f[u \ {Max(u)}]>>] = One(f[u \ {Max(u)}], s[Max(u)])
    <3>1. Max(u) \in 1..n
      BY <2>1, Largest
    <3> QED BY <3>1
  <2> HIDE DEF g, One
  <2> QED BY <1>4, <2>1 DEF Folds
<1>6. Solves(it)
  <2> HIDE DEF Solves
  <2> QED BY <1>5
<1>7. it[1..n] = a[n]
  <2> HIDE DEF it, One
  <2>1. it[{}] = a[0]
    BY <1>3, <1>6
  <2>2. ASSUME NEW k \in 1..n, it[1..(k - 1)] = a[k - 1]
        PROVE  it[1..k] = a[k]
    <3>1. 1..k \in SUBSET (1..n) /\ k \in Nat \ {0}
      OBVIOUS
    <3>2. Max(1..k) = k /\ (1..k) \ {Max(1..k)} = 1..(k - 1) /\ 1..k # {}
      BY <3>1, LargestOfRange
    <3>3. it[1..k] = One(it[1..(k - 1)], s[k])
      BY <1>6, <3>1, <3>2
    <3> QED BY <1>3, <2>2, <3>3
  <2> HIDE DEF Solves
  <2> QED BY <2>1, <2>2, FoldSteps
<1>8. DOMAIN s = 1..n
  BY DEF IsSequence
<1>9. ReadAll(ReadJobField, c, s) = it[DOMAIN s]
  <2> HIDE DEF it
  <2> QED BY <1>8, Zenon DEF it, ReadAll, FoldLeft, MapThenFoldSet
<1>10. GoesJobFields(a, n, s)
  BY <1>3, Zenon DEF Thrown, GoesJobFields
<1> HIDE DEF it, g, One
<1> QED BY <1>3, <1>7, <1>8, <1>9, <1>10

(* The steps of reading the fields of params, and the values they stay in. *)
StaysParamFields(T, n, s) == \A t \in T, k \in 1..n : Thrown(t) \/ ReadParamField(t, s[k]) \in T
GoesParamFields(a, n, s) ==
  \A k \in 1..n : a[k] = IF Thrown(a[k - 1]) THEN a[k - 1] ELSE ReadParamField(a[k - 1], s[k])

(* ReadAll goes through them, whatever the set of readings. *)
LEMMA ReadsParamFields ==
  ASSUME NEW n \in Nat, NEW s, IsSequence(s, n), NEW T, NEW c \in T, StaysParamFields(T, n, s)
  PROVE  \E a \in [0..n -> T] : a[0] = c /\ a[n] = ReadAll(ReadParamField, c, s) /\ GoesParamFields(a, n, s)
<1> DEFINE One(t, f) == IF t.thrown THEN t ELSE ReadParamField(t, f)
           g == [p \in (1..n) \X T |-> One(p[2], s[p[1]])]
           Solves(f) == f = [u \in SUBSET (1..n) |->
                               IF u = {} THEN c ELSE One(f[u \ {Max(u)}], s[Max(u)])]
           it == CHOOSE f : Solves(f)
<1>1. g \in [(1..n) \X T -> T]
  BY DEF Thrown, StaysParamFields
<1>2. PICK a \in [0..n -> T] : Goes(a, n, c, g)
  <2> HIDE DEF g
  <2> QED BY ONLY n \in Nat, c \in T, <1>1, StepsExist
<1>3. a[0] = c /\ \A k \in 1..n : a[k] = One(a[k - 1], s[k])
  <2>1. a[0] = c /\ \A k \in 1..n : a[k] = g[<<k, a[k - 1]>>]
    BY <1>2 DEF Goes
  <2>2. \A k \in 1..n : k - 1 \in 0..n
    OBVIOUS
  <2>3. \A k \in 1..n : a[k - 1] \in T
    BY <2>2
  <2> HIDE DEF One
  <2> QED BY <2>1, <2>3
<1>4. PICK f \in [SUBSET (1..n) -> T] : Folds(f, n, c, g)
  <2> HIDE DEF g
  <2> QED BY ONLY n \in Nat, c \in T, <1>1, FoldExists
<1>5. Solves(f)
  <2>1. ASSUME NEW u \in SUBSET (1..n), u # {}
        PROVE  g[<<Max(u), f[u \ {Max(u)}]>>] = One(f[u \ {Max(u)}], s[Max(u)])
    <3>1. Max(u) \in 1..n
      BY <2>1, Largest
    <3> QED BY <3>1
  <2> HIDE DEF g, One
  <2> QED BY <1>4, <2>1 DEF Folds
<1>6. Solves(it)
  <2> HIDE DEF Solves
  <2> QED BY <1>5
<1>7. it[1..n] = a[n]
  <2> HIDE DEF it, One
  <2>1. it[{}] = a[0]
    BY <1>3, <1>6
  <2>2. ASSUME NEW k \in 1..n, it[1..(k - 1)] = a[k - 1]
        PROVE  it[1..k] = a[k]
    <3>1. 1..k \in SUBSET (1..n) /\ k \in Nat \ {0}
      OBVIOUS
    <3>2. Max(1..k) = k /\ (1..k) \ {Max(1..k)} = 1..(k - 1) /\ 1..k # {}
      BY <3>1, LargestOfRange
    <3>3. it[1..k] = One(it[1..(k - 1)], s[k])
      BY <1>6, <3>1, <3>2
    <3> QED BY <1>3, <2>2, <3>3
  <2> HIDE DEF Solves
  <2> QED BY <2>1, <2>2, FoldSteps
<1>8. DOMAIN s = 1..n
  BY DEF IsSequence
<1>9. ReadAll(ReadParamField, c, s) = it[DOMAIN s]
  <2> HIDE DEF it
  <2> QED BY <1>8, Zenon DEF it, ReadAll, FoldLeft, MapThenFoldSet
<1>10. GoesParamFields(a, n, s)
  BY <1>3, Zenon DEF Thrown, GoesParamFields
<1> HIDE DEF it, g, One
<1> QED BY <1>3, <1>7, <1>8, <1>9, <1>10

(* The steps of reading the fields of an error, and the values they stay in. *)
StaysErrorFields(T, n, s) == \A t \in T, k \in 1..n : Thrown(t) \/ ReadErrorField(t, s[k]) \in T
GoesErrorFields(a, n, s) ==
  \A k \in 1..n : a[k] = IF Thrown(a[k - 1]) THEN a[k - 1] ELSE ReadErrorField(a[k - 1], s[k])

(* ReadAll goes through them, whatever the set of readings. *)
LEMMA ReadsErrorFields ==
  ASSUME NEW n \in Nat, NEW s, IsSequence(s, n), NEW T, NEW c \in T, StaysErrorFields(T, n, s)
  PROVE  \E a \in [0..n -> T] : a[0] = c /\ a[n] = ReadAll(ReadErrorField, c, s) /\ GoesErrorFields(a, n, s)
<1> DEFINE One(t, f) == IF t.thrown THEN t ELSE ReadErrorField(t, f)
           g == [p \in (1..n) \X T |-> One(p[2], s[p[1]])]
           Solves(f) == f = [u \in SUBSET (1..n) |->
                               IF u = {} THEN c ELSE One(f[u \ {Max(u)}], s[Max(u)])]
           it == CHOOSE f : Solves(f)
<1>1. g \in [(1..n) \X T -> T]
  BY DEF Thrown, StaysErrorFields
<1>2. PICK a \in [0..n -> T] : Goes(a, n, c, g)
  <2> HIDE DEF g
  <2> QED BY ONLY n \in Nat, c \in T, <1>1, StepsExist
<1>3. a[0] = c /\ \A k \in 1..n : a[k] = One(a[k - 1], s[k])
  <2>1. a[0] = c /\ \A k \in 1..n : a[k] = g[<<k, a[k - 1]>>]
    BY <1>2 DEF Goes
  <2>2. \A k \in 1..n : k - 1 \in 0..n
    OBVIOUS
  <2>3. \A k \in 1..n : a[k - 1] \in T
    BY <2>2
  <2> HIDE DEF One
  <2> QED BY <2>1, <2>3
<1>4. PICK f \in [SUBSET (1..n) -> T] : Folds(f, n, c, g)
  <2> HIDE DEF g
  <2> QED BY ONLY n \in Nat, c \in T, <1>1, FoldExists
<1>5. Solves(f)
  <2>1. ASSUME NEW u \in SUBSET (1..n), u # {}
        PROVE  g[<<Max(u), f[u \ {Max(u)}]>>] = One(f[u \ {Max(u)}], s[Max(u)])
    <3>1. Max(u) \in 1..n
      BY <2>1, Largest
    <3> QED BY <3>1
  <2> HIDE DEF g, One
  <2> QED BY <1>4, <2>1 DEF Folds
<1>6. Solves(it)
  <2> HIDE DEF Solves
  <2> QED BY <1>5
<1>7. it[1..n] = a[n]
  <2> HIDE DEF it, One
  <2>1. it[{}] = a[0]
    BY <1>3, <1>6
  <2>2. ASSUME NEW k \in 1..n, it[1..(k - 1)] = a[k - 1]
        PROVE  it[1..k] = a[k]
    <3>1. 1..k \in SUBSET (1..n) /\ k \in Nat \ {0}
      OBVIOUS
    <3>2. Max(1..k) = k /\ (1..k) \ {Max(1..k)} = 1..(k - 1) /\ 1..k # {}
      BY <3>1, LargestOfRange
    <3>3. it[1..k] = One(it[1..(k - 1)], s[k])
      BY <1>6, <3>1, <3>2
    <3> QED BY <1>3, <2>2, <3>3
  <2> HIDE DEF Solves
  <2> QED BY <2>1, <2>2, FoldSteps
<1>8. DOMAIN s = 1..n
  BY DEF IsSequence
<1>9. ReadAll(ReadErrorField, c, s) = it[DOMAIN s]
  <2> HIDE DEF it
  <2> QED BY <1>8, Zenon DEF it, ReadAll, FoldLeft, MapThenFoldSet
<1>10. GoesErrorFields(a, n, s)
  BY <1>3, Zenon DEF Thrown, GoesErrorFields
<1> HIDE DEF it, g, One
<1> QED BY <1>3, <1>7, <1>8, <1>9, <1>10

(* The steps of reading the fields of a result, and the values they stay in. *)
StaysResultFields(T, n, s) == \A t \in T, k \in 1..n : Thrown(t) \/ ReadResultField(t, s[k]) \in T
GoesResultFields(a, n, s) ==
  \A k \in 1..n : a[k] = IF Thrown(a[k - 1]) THEN a[k - 1] ELSE ReadResultField(a[k - 1], s[k])

(* ReadAll goes through them, whatever the set of readings. *)
LEMMA ReadsResultFields ==
  ASSUME NEW n \in Nat, NEW s, IsSequence(s, n), NEW T, NEW c \in T, StaysResultFields(T, n, s)
  PROVE  \E a \in [0..n -> T] : a[0] = c /\ a[n] = ReadAll(ReadResultField, c, s) /\ GoesResultFields(a, n, s)
<1> DEFINE One(t, f) == IF t.thrown THEN t ELSE ReadResultField(t, f)
           g == [p \in (1..n) \X T |-> One(p[2], s[p[1]])]
           Solves(f) == f = [u \in SUBSET (1..n) |->
                               IF u = {} THEN c ELSE One(f[u \ {Max(u)}], s[Max(u)])]
           it == CHOOSE f : Solves(f)
<1>1. g \in [(1..n) \X T -> T]
  BY DEF Thrown, StaysResultFields
<1>2. PICK a \in [0..n -> T] : Goes(a, n, c, g)
  <2> HIDE DEF g
  <2> QED BY ONLY n \in Nat, c \in T, <1>1, StepsExist
<1>3. a[0] = c /\ \A k \in 1..n : a[k] = One(a[k - 1], s[k])
  <2>1. a[0] = c /\ \A k \in 1..n : a[k] = g[<<k, a[k - 1]>>]
    BY <1>2 DEF Goes
  <2>2. \A k \in 1..n : k - 1 \in 0..n
    OBVIOUS
  <2>3. \A k \in 1..n : a[k - 1] \in T
    BY <2>2
  <2> HIDE DEF One
  <2> QED BY <2>1, <2>3
<1>4. PICK f \in [SUBSET (1..n) -> T] : Folds(f, n, c, g)
  <2> HIDE DEF g
  <2> QED BY ONLY n \in Nat, c \in T, <1>1, FoldExists
<1>5. Solves(f)
  <2>1. ASSUME NEW u \in SUBSET (1..n), u # {}
        PROVE  g[<<Max(u), f[u \ {Max(u)}]>>] = One(f[u \ {Max(u)}], s[Max(u)])
    <3>1. Max(u) \in 1..n
      BY <2>1, Largest
    <3> QED BY <3>1
  <2> HIDE DEF g, One
  <2> QED BY <1>4, <2>1 DEF Folds
<1>6. Solves(it)
  <2> HIDE DEF Solves
  <2> QED BY <1>5
<1>7. it[1..n] = a[n]
  <2> HIDE DEF it, One
  <2>1. it[{}] = a[0]
    BY <1>3, <1>6
  <2>2. ASSUME NEW k \in 1..n, it[1..(k - 1)] = a[k - 1]
        PROVE  it[1..k] = a[k]
    <3>1. 1..k \in SUBSET (1..n) /\ k \in Nat \ {0}
      OBVIOUS
    <3>2. Max(1..k) = k /\ (1..k) \ {Max(1..k)} = 1..(k - 1) /\ 1..k # {}
      BY <3>1, LargestOfRange
    <3>3. it[1..k] = One(it[1..(k - 1)], s[k])
      BY <1>6, <3>1, <3>2
    <3> QED BY <1>3, <2>2, <3>3
  <2> HIDE DEF Solves
  <2> QED BY <2>1, <2>2, FoldSteps
<1>8. DOMAIN s = 1..n
  BY DEF IsSequence
<1>9. ReadAll(ReadResultField, c, s) = it[DOMAIN s]
  <2> HIDE DEF it
  <2> QED BY <1>8, Zenon DEF it, ReadAll, FoldLeft, MapThenFoldSet
<1>10. GoesResultFields(a, n, s)
  BY <1>3, Zenon DEF Thrown, GoesResultFields
<1> HIDE DEF it, g, One
<1> QED BY <1>3, <1>7, <1>8, <1>9, <1>10

(* The steps of reading the members of a line, and the values they stay in. *)
StaysMembers(T, n, s) == \A t \in T, k \in 1..n : Thrown(t) \/ ReadMember(t, s[k]) \in T
GoesMembers(a, n, s) ==
  \A k \in 1..n : a[k] = IF Thrown(a[k - 1]) THEN a[k - 1] ELSE ReadMember(a[k - 1], s[k])

(* ReadAll goes through them, whatever the set of readings. *)
LEMMA ReadsMembers ==
  ASSUME NEW n \in Nat, NEW s, IsSequence(s, n), NEW T, NEW c \in T, StaysMembers(T, n, s)
  PROVE  \E a \in [0..n -> T] : a[0] = c /\ a[n] = ReadAll(ReadMember, c, s) /\ GoesMembers(a, n, s)
<1> DEFINE One(t, f) == IF t.thrown THEN t ELSE ReadMember(t, f)
           g == [p \in (1..n) \X T |-> One(p[2], s[p[1]])]
           Solves(f) == f = [u \in SUBSET (1..n) |->
                               IF u = {} THEN c ELSE One(f[u \ {Max(u)}], s[Max(u)])]
           it == CHOOSE f : Solves(f)
<1>1. g \in [(1..n) \X T -> T]
  BY DEF Thrown, StaysMembers
<1>2. PICK a \in [0..n -> T] : Goes(a, n, c, g)
  <2> HIDE DEF g
  <2> QED BY ONLY n \in Nat, c \in T, <1>1, StepsExist
<1>3. a[0] = c /\ \A k \in 1..n : a[k] = One(a[k - 1], s[k])
  <2>1. a[0] = c /\ \A k \in 1..n : a[k] = g[<<k, a[k - 1]>>]
    BY <1>2 DEF Goes
  <2>2. \A k \in 1..n : k - 1 \in 0..n
    OBVIOUS
  <2>3. \A k \in 1..n : a[k - 1] \in T
    BY <2>2
  <2> HIDE DEF One
  <2> QED BY <2>1, <2>3
<1>4. PICK f \in [SUBSET (1..n) -> T] : Folds(f, n, c, g)
  <2> HIDE DEF g
  <2> QED BY ONLY n \in Nat, c \in T, <1>1, FoldExists
<1>5. Solves(f)
  <2>1. ASSUME NEW u \in SUBSET (1..n), u # {}
        PROVE  g[<<Max(u), f[u \ {Max(u)}]>>] = One(f[u \ {Max(u)}], s[Max(u)])
    <3>1. Max(u) \in 1..n
      BY <2>1, Largest
    <3> QED BY <3>1
  <2> HIDE DEF g, One
  <2> QED BY <1>4, <2>1 DEF Folds
<1>6. Solves(it)
  <2> HIDE DEF Solves
  <2> QED BY <1>5
<1>7. it[1..n] = a[n]
  <2> HIDE DEF it, One
  <2>1. it[{}] = a[0]
    BY <1>3, <1>6
  <2>2. ASSUME NEW k \in 1..n, it[1..(k - 1)] = a[k - 1]
        PROVE  it[1..k] = a[k]
    <3>1. 1..k \in SUBSET (1..n) /\ k \in Nat \ {0}
      OBVIOUS
    <3>2. Max(1..k) = k /\ (1..k) \ {Max(1..k)} = 1..(k - 1) /\ 1..k # {}
      BY <3>1, LargestOfRange
    <3>3. it[1..k] = One(it[1..(k - 1)], s[k])
      BY <1>6, <3>1, <3>2
    <3> QED BY <1>3, <2>2, <3>3
  <2> HIDE DEF Solves
  <2> QED BY <2>1, <2>2, FoldSteps
<1>8. DOMAIN s = 1..n
  BY DEF IsSequence
<1>9. ReadAll(ReadMember, c, s) = it[DOMAIN s]
  <2> HIDE DEF it
  <2> QED BY <1>8, Zenon DEF it, ReadAll, FoldLeft, MapThenFoldSet
<1>10. GoesMembers(a, n, s)
  BY <1>3, Zenon DEF Thrown, GoesMembers
<1> HIDE DEF it, g, One
<1> QED BY <1>3, <1>7, <1>8, <1>9, <1>10

-----------------------------------------------------------------------------
(* One field, and one field after the other. *)

(* A field of params. *)
LEMMA ParamFieldTakes ==
  ASSUME NEW V, NEW s \in Readings(V), ~Thrown(s), NEW f, f.value \in V
  PROVE  /\ ReadParamField(s, f) \in Readings(V)
         /\ Takes(s, Entry("params", f), ReadParamField(s, f))
<1>1. CASE f.name # "id"
  BY <1>1, JobFieldTakes DEF ReadParamField
<1>2. CASE f.name = "id"
  <2> DEFINE x == Entry("params", f)
             t == Convert(s, f, "id")
  <2>1. t \in Readings(V) /\ Converted(s, f, "id", t)
    BY ConvertIs
  <2>2. x.in = "params" /\ x.name = "id" /\ x.value = f.value
    BY <1>2 DEF Entry
  <2> HIDE DEF x, t
  <2>3. /\ ~IsEnd(x) /\ ~IsMessage(x) /\ ~IsOk(x) /\ ~IsZero(x) /\ ~IsAim(x)
        /\ IsWrong(x) <=> f.value = Malformed
    BY <2>2 DEF IsEnd, IsMessage, IsOk, IsTarget, IsZero, IsAim, IsWrong, FieldsRead
  <2>4. Takes(s, x, t)
    <3>1. "id" # "target"
      OBVIOUS
    <3> QED BY <2>1, <2>3, <3>1, Zenon DEF Takes, Converted
  <2>5. t = ReadParamField(s, f)
    BY <1>2 DEF t, ReadParamField
  <2> QED BY <2>1, <2>4, <2>5 DEF x
<1> QED BY <1>1, <1>2

(* A field of an error. *)
LEMMA ErrorFieldTakes ==
  ASSUME NEW V, NEW s \in Readings(V), ~Thrown(s), NEW f
  PROVE  /\ ReadErrorField(s, f) \in Readings(V)
         /\ Takes(s, Entry("error", f), ReadErrorField(s, f))
<1> DEFINE x == Entry("error", f)
           t == ReadErrorField(s, f)
<1>1. x.in = "error" /\ x.name = f.name /\ x.value = f.value
  BY DEF Entry
<1>2. /\ ~IsEnd(x) /\ ~IsOk(x) /\ ~IsZero(x) /\ ~IsAim(x)
      /\ IsMessage(x) <=> f.name = "message"
      /\ IsWrong(x) <=> f.name = "message" /\ f.value \in {Malformed, "Unauthenticated"}
  <2> HIDE DEF x
  <2> QED BY <1>1 DEF IsEnd, IsMessage, IsOk, IsTarget, IsZero, IsAim, IsWrong, FieldsRead
<1>3. CASE f.name # "message"
  <2>1. t = s
    BY <1>3 DEF ReadErrorField
  <2> HIDE DEF x, t
  <2>2. Takes(s, x, t)
    BY <1>2, <1>3, <2>1, Zenon DEF Takes
  <2> QED BY <2>1, <2>2 DEF x, t
<1>4. CASE f.name = "message" /\ f.value \in {Malformed, "Unauthenticated"}
  <2>1. t = Throw(s)
    BY <1>4 DEF ReadErrorField
  <2>2. t \in Readings(V) /\ Thrown(t)
    BY <2>1, ThrowIs
  <2> HIDE DEF x, t
  <2>3. Takes(s, x, t)
    BY <1>2, <1>4, <2>2, Zenon DEF Takes
  <2> QED BY <2>2, <2>3 DEF x, t
<1>5. CASE f.name = "message" /\ f.value \notin {Malformed, "Unauthenticated"}
  <2>1. t = [s EXCEPT !.info = TRUE]
    BY <1>5 DEF ReadErrorField
  <2>2. /\ t \in Readings(V)
        /\ t.thrown = s.thrown /\ t.status = s.status /\ t.info = TRUE /\ t.job = s.job
    BY <2>1 DEF Readings
  <2> HIDE DEF x, t
  <2>3. Thrown(t) = Thrown(s) /\ HasJob(t) = HasJob(s) /\ HasReply(t) = TRUE /\ Aims(t) = Aims(s)
    BY <2>2 DEF Thrown, HasJob, HasReply, Aims
  <2>4. Takes(s, x, t)
    BY <1>2, <1>5, <2>3, Zenon DEF Takes
  <2> QED BY <2>2, <2>4 DEF x, t
<1> QED BY <1>3, <1>4, <1>5

-----------------------------------------------------------------------------
(* a goes on with op until something is thrown. *)
Reads(a, e, n) ==
  \A k \in 1..n : IF Thrown(a[k - 1]) THEN a[k] = a[k - 1] ELSE Takes(a[k - 1], e[k], a[k])

(* Field after field, an entry each. *)
LEMMA ReadsFollow ==
  ASSUME NEW n \in Nat, NEW a, NEW e, Reads(a, e, n)
  PROVE  Follows(a[0], e, 0, n, a[n])
<1> DEFINE S == {k \in 0..n : Follows(a[0], e, 0, k, a[k])}
<1>1. 0 \in S
  BY FollowsNone
<1>2. ASSUME NEW k \in 1..n, k - 1 \in S PROVE k \in S
  <2>1. Follows(a[k - 1], e, k - 1, k, a[k])
    <3>1. CASE Thrown(a[k - 1])
      BY <3>1, FollowsThrown DEF Reads
    <3>2. CASE ~Thrown(a[k - 1])
      <4>1. k - 1 \in Nat /\ (k - 1) + 1 = k
        OBVIOUS
      <4>2. Takes(a[k - 1], e[(k - 1) + 1], a[k])
        BY <3>2, <4>1 DEF Reads
      <4> QED BY ONLY <4>1, <4>2, FollowsOne
    <3> QED BY <3>1, <3>2
  <2>2. /\ 0 \in Nat /\ k - 1 \in Nat /\ k \in Nat /\ 0 <= k - 1 /\ k - 1 <= k
        /\ Follows(a[0], e, 0, k - 1, a[k - 1])
    BY <1>2
  <2>3. Follows(a[0], e, 0, k, a[k])
    BY ONLY <2>1, <2>2, FollowsOn
  <2> QED BY <2>3
<1> HIDE DEF S
<1>3. \A k \in 0..n : k \in S
  BY <1>1, <1>2, Induction
<1>4. n \in S
  BY <1>3
<1> QED BY <1>4 DEF S

(* The entries of some fields. *)
LEMMA EntriesAre ==
  ASSUME NEW place, NEW n \in Nat, NEW s, IsSequence(s, n)
  PROVE  /\ IsSequence(Entries(place, s), n)
         /\ \A k \in 1..n : Entries(place, s)[k] = Entry(place, s[k])
<1>1. DOMAIN s = 1..n
  BY DEF IsSequence
<1> QED BY <1>1, Zenon DEF Entries, IsSequence

-----------------------------------------------------------------------------
(* Jobs, params, errors and results. *)

(* A sequence of fields with values of V. *)
IsTable(s, V) == \E n \in Nat : IsSequence(s, n) /\ \A k \in 1..n : s[k].value \in V

(* t is what reading the entries of e makes of s. *)
FollowsAll(s, e, t) == \E n \in Nat : IsSequence(e, n) /\ Follows(s, e, 0, n, t)

(* A sequence of one entry. *)
LEMMA OneEntry ==
  ASSUME NEW s, NEW x, NEW t, Takes(s, x, t)
  PROVE  FollowsAll(s, <<x>>, t)
<1>1. IsSequence(<<x>>, 1) /\ <<x>>[0 + 1] = x /\ 0 \in Nat /\ 1 \in Nat /\ 0 + 1 = 1
  BY DEF IsSequence
<1>2. Takes(s, <<x>>[0 + 1], t)
  BY <1>1
<1>3. Follows(s, <<x>>, 0, 0 + 1, t)
  BY ONLY <1>1, <1>2, FollowsOne
<1> QED BY <1>1, <1>3 DEF FollowsAll

(* No sequence of entries is read after an exception. *)
LEMMA ThrownFollows ==
  ASSUME NEW s, Thrown(s), NEW e, NEW n \in Nat, IsSequence(e, n)
  PROVE  FollowsAll(s, e, s)
BY FollowsThrown DEF FollowsAll

(* Two sequences behind each other. *)
LEMMA FollowsJoin ==
  ASSUME NEW s, NEW t, NEW u, NEW e, NEW f, FollowsAll(s, e, t), FollowsAll(t, f, u)
  PROVE  FollowsAll(s, e \o f, u)
<1> DEFINE E == e \o f
<1>1. PICK m \in Nat : IsSequence(e, m) /\ Follows(s, e, 0, m, t)
  BY DEF FollowsAll
<1>2. PICK n \in Nat : IsSequence(f, n) /\ Follows(t, f, 0, n, u)
  BY DEF FollowsAll
<1>3. Joined(E, e, m, f, n)
  BY <1>1, <1>2, ConcatIs
<1> HIDE DEF E
<1>4. IsSequence(E, m + n) /\ \A i \in 1..(m + n) : E[i] = IF i <= m THEN e[i] ELSE f[i - m]
  BY <1>3 DEF Joined
<1>5. (\A i \in 1..m : E[0 + i] = e[i]) /\ (\A i \in 1..n : E[m + i] = f[i])
  <2>1. ASSUME NEW i \in 1..m PROVE E[0 + i] = e[i]
    <3>1. i \in 1..(m + n) /\ i <= m /\ 0 + i = i
      OBVIOUS
    <3> QED BY <1>4, <3>1
  <2>2. ASSUME NEW i \in 1..n PROVE E[m + i] = f[i]
    <3>1. m + i \in 1..(m + n) /\ ~(m + i <= m) /\ (m + i) - m = i
      OBVIOUS
    <3> QED BY <1>4, <3>1
  <2> QED BY <2>1, <2>2
<1>6. Follows(s, E, 0, m, t)
  <2>1. 0 \in Nat /\ 0 + m = m
    OBVIOUS
  <2>2. Follows(s, E, 0, 0 + m, t)
    BY ONLY m \in Nat, <1>1, <1>5, <2>1, FollowsShift
  <2> QED BY <2>1, <2>2
<1>7. Follows(t, E, m, m + n, u)
  BY ONLY m \in Nat, n \in Nat, <1>2, <1>5, FollowsShift
<1>8. Follows(s, E, 0, m + n, u)
  <2>1. 0 \in Nat /\ m \in Nat /\ m + n \in Nat /\ 0 <= m /\ m <= m + n
    OBVIOUS
  <2> QED BY ONLY <1>6, <1>7, <2>1, FollowsOn
<1>9. FollowsAll(s, E, u)
  <2>1. m + n \in Nat
    OBVIOUS
  <2> QED BY <1>4, <1>8, <2>1 DEF FollowsAll
<1> QED BY <1>9 DEF E

(* The fields of a job. *)
LEMMA JobFollows ==
  ASSUME NEW V, NEW s \in Readings(V), NEW v, IsTable(v, V)
  PROVE  /\ ReadAll(ReadJobField, s, v) \in Readings(V)
         /\ FollowsAll(s, Entries("job", v), ReadAll(ReadJobField, s, v))
<1> DEFINE e == Entries("job", v)
<1>1. PICK n \in Nat : IsSequence(v, n) /\ \A k \in 1..n : v[k].value \in V
  BY DEF IsTable
<1>2. ASSUME NEW t \in Readings(V), NEW k \in 1..n, ~Thrown(t)
      PROVE  ReadJobField(t, v[k]) \in Readings(V) /\ Takes(t, Entry("job", v[k]), ReadJobField(t, v[k]))
  BY <1>1, <1>2, JobFieldTakes
<1>3. StaysJobFields(Readings(V), n, v)
  BY <1>2 DEF StaysJobFields
<1>4. PICK a \in [0..n -> Readings(V)] : a[0] = s /\ a[n] = ReadAll(ReadJobField, s, v) /\ GoesJobFields(a, n, v)
  <2>1. IsSequence(v, n)
    BY <1>1
  <2> QED BY ONLY n \in Nat, <2>1, s \in Readings(V), <1>3, ReadsJobFields
<1>5. IsSequence(e, n) /\ \A k \in 1..n : e[k] = Entry("job", v[k])
  BY <1>1, EntriesAre
<1> HIDE DEF e
<1>6. Reads(a, e, n)
  <2>1. ASSUME NEW k \in 1..n, ~Thrown(a[k - 1])
        PROVE  Takes(a[k - 1], e[k], a[k])
    <3>1. a[k - 1] \in Readings(V)
      OBVIOUS
    <3> QED BY <1>2, <1>4, <1>5, <2>1, <3>1 DEF GoesJobFields
  <2> QED BY <1>4, <2>1 DEF Reads, GoesJobFields
<1>7. Follows(a[0], e, 0, n, a[n])
  BY <1>6, ReadsFollow
<1>8. a[n] \in Readings(V) /\ FollowsAll(s, e, a[n])
  BY <1>4, <1>5, <1>7 DEF FollowsAll
<1> QED BY <1>4, <1>8 DEF e

(* The fields of params. *)
LEMMA ParamsFollows ==
  ASSUME NEW V, NEW s \in Readings(V), NEW v, IsTable(v, V)
  PROVE  /\ ReadAll(ReadParamField, s, v) \in Readings(V)
         /\ FollowsAll(s, Entries("params", v), ReadAll(ReadParamField, s, v))
<1> DEFINE e == Entries("params", v)
<1>1. PICK n \in Nat : IsSequence(v, n) /\ \A k \in 1..n : v[k].value \in V
  BY DEF IsTable
<1>2. ASSUME NEW t \in Readings(V), NEW k \in 1..n, ~Thrown(t)
      PROVE  ReadParamField(t, v[k]) \in Readings(V) /\ Takes(t, Entry("params", v[k]), ReadParamField(t, v[k]))
  BY <1>1, <1>2, ParamFieldTakes
<1>3. StaysParamFields(Readings(V), n, v)
  BY <1>2 DEF StaysParamFields
<1>4. PICK a \in [0..n -> Readings(V)] : a[0] = s /\ a[n] = ReadAll(ReadParamField, s, v) /\ GoesParamFields(a, n, v)
  <2>1. IsSequence(v, n)
    BY <1>1
  <2> QED BY ONLY n \in Nat, <2>1, s \in Readings(V), <1>3, ReadsParamFields
<1>5. IsSequence(e, n) /\ \A k \in 1..n : e[k] = Entry("params", v[k])
  BY <1>1, EntriesAre
<1> HIDE DEF e
<1>6. Reads(a, e, n)
  <2>1. ASSUME NEW k \in 1..n, ~Thrown(a[k - 1])
        PROVE  Takes(a[k - 1], e[k], a[k])
    <3>1. a[k - 1] \in Readings(V)
      OBVIOUS
    <3> QED BY <1>2, <1>4, <1>5, <2>1, <3>1 DEF GoesParamFields
  <2> QED BY <1>4, <2>1 DEF Reads, GoesParamFields
<1>7. Follows(a[0], e, 0, n, a[n])
  BY <1>6, ReadsFollow
<1>8. a[n] \in Readings(V) /\ FollowsAll(s, e, a[n])
  BY <1>4, <1>5, <1>7 DEF FollowsAll
<1> QED BY <1>4, <1>8 DEF e

(* The fields of an error. *)
LEMMA ErrorFollows ==
  ASSUME NEW V, NEW s \in Readings(V), NEW v, IsTable(v, V)
  PROVE  /\ ReadAll(ReadErrorField, s, v) \in Readings(V)
         /\ FollowsAll(s, Entries("error", v), ReadAll(ReadErrorField, s, v))
<1> DEFINE e == Entries("error", v)
<1>1. PICK n \in Nat : IsSequence(v, n) /\ \A k \in 1..n : v[k].value \in V
  BY DEF IsTable
<1>2. ASSUME NEW t \in Readings(V), NEW k \in 1..n, ~Thrown(t)
      PROVE  ReadErrorField(t, v[k]) \in Readings(V) /\ Takes(t, Entry("error", v[k]), ReadErrorField(t, v[k]))
  BY <1>1, <1>2, ErrorFieldTakes
<1>3. StaysErrorFields(Readings(V), n, v)
  BY <1>2 DEF StaysErrorFields
<1>4. PICK a \in [0..n -> Readings(V)] : a[0] = s /\ a[n] = ReadAll(ReadErrorField, s, v) /\ GoesErrorFields(a, n, v)
  <2>1. IsSequence(v, n)
    BY <1>1
  <2> QED BY ONLY n \in Nat, <2>1, s \in Readings(V), <1>3, ReadsErrorFields
<1>5. IsSequence(e, n) /\ \A k \in 1..n : e[k] = Entry("error", v[k])
  BY <1>1, EntriesAre
<1> HIDE DEF e
<1>6. Reads(a, e, n)
  <2>1. ASSUME NEW k \in 1..n, ~Thrown(a[k - 1])
        PROVE  Takes(a[k - 1], e[k], a[k])
    <3>1. a[k - 1] \in Readings(V)
      OBVIOUS
    <3> QED BY <1>2, <1>4, <1>5, <2>1, <3>1 DEF GoesErrorFields
  <2> QED BY <1>4, <2>1 DEF Reads, GoesErrorFields
<1>7. Follows(a[0], e, 0, n, a[n])
  BY <1>6, ReadsFollow
<1>8. a[n] \in Readings(V) /\ FollowsAll(s, e, a[n])
  BY <1>4, <1>5, <1>7 DEF FollowsAll
<1> QED BY <1>4, <1>8 DEF e

(* A field of a result, with a job or without. *)
IsResultField(f, V) ==
  IF f.name = "job" THEN f.value = Malformed \/ IsTable(f.value, V) ELSE f.value \in V

(* The job of a result: its fields and the mark, whether or not one of     *)
(* them throws. *)
LEMMA ResultJobFollows ==
  ASSUME NEW V, NEW s \in Readings(V), ~Thrown(s), NEW f, f.name = "job", f.value # Malformed, IsTable(f.value, V)
  PROVE  /\ ReadResultField(s, f) \in Readings(V)
         /\ FollowsAll(s, EntriesOfResult(f), ReadResultField(s, f))
<1> DEFINE t == ReadAll(ReadJobField, s, f.value)
           u == ReadResultField(s, f)
           e == Entries("job", f.value)
           E == EntriesOfResult(f)
<1>1. t \in Readings(V) /\ FollowsAll(s, e, t)
  BY JobFollows
<1>2. u = IF Thrown(t) THEN t ELSE [t EXCEPT !.status = TRUE]
  BY Zenon DEF ReadResultField, Thrown
<1>3. E = e \o <<EndOfJob>>
  BY DEF EntriesOfResult
<1> HIDE DEF t, u, e, E
<1>4. u \in Readings(V) /\ FollowsAll(t, <<EndOfJob>>, u)
  <2>1. CASE Thrown(t)
    <3>1. 1 \in Nat /\ IsSequence(<<EndOfJob>>, 1)
      BY DEF IsSequence
    <3> QED BY <1>1, <1>2, <2>1, <3>1, ThrownFollows
  <2>2. CASE ~Thrown(t)
    <3>1. /\ u \in Readings(V)
          /\ u.thrown = t.thrown /\ u.status = TRUE /\ u.info = t.info /\ u.job = t.job
      BY <1>1, <1>2, <2>2 DEF Readings
    <3>2. Thrown(u) = Thrown(t) /\ HasJob(u) = TRUE /\ HasReply(u) = HasReply(t) /\ Aims(u) = Aims(t)
      BY <3>1 DEF Thrown, HasJob, HasReply, Aims
    <3>3. EndOfJob.in = "end of job" /\ EndOfJob.name = "job"
      BY DEF EndOfJob, Entry, Field
    <3>4. IsEnd(EndOfJob) /\ ~IsMessage(EndOfJob) /\ ~IsOk(EndOfJob) /\ ~IsTarget(EndOfJob) /\ ~IsWrong(EndOfJob)
      BY <3>3 DEF IsEnd, IsMessage, IsOk, IsTarget, IsWrong, FieldsRead
    <3>5. Takes(t, EndOfJob, u)
      BY <2>2, <3>2, <3>4, Zenon DEF Takes, IsZero, IsAim
    <3> QED BY <3>1, <3>5, OneEntry
  <2> QED BY <2>1, <2>2
<1>5. FollowsAll(s, E, u)
  BY <1>1, <1>3, <1>4, FollowsJoin
<1> QED BY <1>4, <1>5 DEF u, E

(* A field of a result. *)
LEMMA ResultFieldFollows ==
  ASSUME NEW V, NEW s \in Readings(V), ~Thrown(s), NEW f, IsResultField(f, V)
  PROVE  /\ ReadResultField(s, f) \in Readings(V)
         /\ FollowsAll(s, EntriesOfResult(f), ReadResultField(s, f))
<1>1. CASE f.name = "job" /\ f.value # Malformed
  BY <1>1, ResultJobFollows DEF IsResultField
<1>2. CASE f.name # "job" \/ f.value = Malformed
  <2> DEFINE x == Entry("result", f)
             t == ReadResultField(s, f)
  <2>1. x.in = "result" /\ x.name = f.name /\ x.value = f.value
    BY DEF Entry
  <2>2. EntriesOfResult(f) = <<x>>
    BY <1>2 DEF EntriesOfResult
  <2>3. /\ ~IsEnd(x) /\ ~IsMessage(x) /\ ~IsTarget(x)
        /\ IsOk(x) <=> f.name = "status" /\ f.value = "OK"
        /\ IsWrong(x) <=> f.name \in {"id", "job", "status"} /\ f.value = Malformed
    <3> HIDE DEF x
    <3> QED BY <2>1 DEF IsEnd, IsMessage, IsOk, IsTarget, IsWrong, FieldsRead
  <2>4. ~IsZero(x) /\ ~IsAim(x)
    BY <2>3, Zenon DEF IsZero, IsAim
  <2>5. t \in Readings(V) /\ Takes(s, x, t)
    <3>1. CASE f.name \notin {"id", "job", "status"}
      <4>1. t = s
        BY <3>1 DEF ReadResultField
      <4> HIDE DEF x, t
      <4> QED BY <2>3, <2>4, <3>1, <4>1, Zenon DEF Takes
    <3>2. CASE f.name = "id"
      <4>1. t = Convert(s, f, "id")
        BY <3>2 DEF ReadResultField
      <4>2. f.value \in V
        BY <3>2 DEF IsResultField
      <4>3. t \in Readings(V) /\ Converted(s, f, "id", t)
        BY <4>1, <4>2, ConvertIs
      <4>4. "id" # "target" /\ ~IsOk(x)
        BY <2>3, <3>2
      <4> HIDE DEF x, t
      <4> QED BY <2>3, <2>4, <3>2, <4>3, <4>4, Zenon DEF Takes, Converted
    <3>3. CASE f.name \in {"job", "status"} /\ f.value = Malformed
      <4>1. t = Throw(s)
        BY <3>3 DEF ReadResultField
      <4>2. t \in Readings(V) /\ Thrown(t)
        BY <4>1, ThrowIs
      <4> HIDE DEF x, t
      <4> QED BY <2>3, <2>4, <3>3, <4>2, Zenon DEF Takes
    <3>4. CASE f.name = "status" /\ f.value # Malformed
      <4>1. t = [s EXCEPT !.info = @ \/ (f.value = "OK" /\ ~s.status)]
        BY <3>4 DEF ReadResultField
      <4>2. /\ t \in Readings(V)
            /\ t.thrown = s.thrown /\ t.status = s.status /\ t.job = s.job
            /\ t.info = (s.info \/ (f.value = "OK" /\ ~s.status))
        BY <4>1 DEF Readings
      <4> HIDE DEF x, t
      <4>3. /\ Thrown(t) = Thrown(s) /\ HasJob(t) = HasJob(s) /\ Aims(t) = Aims(s)
        BY <4>2 DEF Thrown, HasJob, Aims
      <4>4. HasReply(t) <=> HasReply(s) \/ (f.value = "OK" /\ ~HasJob(s))
        BY <4>2, Zenon DEF HasReply, HasJob
      <4>5. ~IsWrong(x) /\ (IsOk(x) <=> f.value = "OK")
        BY <2>3, <3>4
      <4>6. Takes(s, x, t)
        BY <2>3, <2>4, <4>3, <4>4, <4>5, Zenon DEF Takes
      <4> QED BY <4>2, <4>6
    <3> QED BY <1>2, <3>1, <3>2, <3>3, <3>4
  <2>6. FollowsAll(s, <<x>>, t)
    <3> HIDE DEF x, t
    <3> QED BY <2>5, OneEntry
  <2> QED BY <2>2, <2>5, <2>6
<1> QED BY <1>1, <1>2

(* Reading sequences of entries one after the other is reading the entries *)
(* of them all.                                                            *)
LEMMA FlattenFollows ==
  ASSUME NEW n \in Nat, NEW E, IsSequence(E, n), NEW a,
         \A k \in 1..n : FollowsAll(a[k - 1], E[k], a[k])
  PROVE  FollowsAll(a[0], FlattenSeq(E), a[n])
<1>1. Len(E) = n
  BY LengthIs
<1>2. CASE n = 0
  <2>1. FlattenSeq(E) = E
    BY <1>1, <1>2, Zenon DEF FlattenSeq
  <2> QED BY <1>2, <2>1, FollowsNone DEF FollowsAll
<1>3. CASE n # 0
  <2> DEFINE X == UNION {{E[k][j] : j \in DOMAIN E[k]} : k \in 1..n}
             T == Seq(X)
             g == [p \in (1..n) \X T |-> IF p[1] = 1 THEN E[p[1]] ELSE p[2] \o E[p[1]]]
             Solves(f) == f = [i \in 1..n |-> IF i = 1 THEN E[i] ELSE f[i - 1] \o E[i]]
             it == CHOOSE f : Solves(f)
  <2>1. ASSUME NEW k \in 1..n PROVE E[k] \in T
    <3>1. PICK m \in Nat : IsSequence(E[k], m)
      BY DEF FollowsAll
    <3>2. E[k] \in [1..m -> X]
      BY <3>1 DEF IsSequence
    <3> HIDE DEF X
    <3> QED BY <3>2, SeqDef
  <2> HIDE DEF X
  <2>2. <<>> \in T /\ \A u, v \in T : u \o v \in T
    BY EmptySeq, ConcatProperties
  <2> HIDE DEF T
  <2>3. g \in [(1..n) \X T -> T]
    BY <2>1, <2>2
  <2>4. PICK b \in [0..n -> T] : Goes(b, n, <<>>, g)
    <3> HIDE DEF g
    <3> QED BY ONLY n \in Nat, <2>2, <2>3, StepsExist
  <2>5. ASSUME NEW k \in 1..n
        PROVE  b[k] = IF k = 1 THEN E[k] ELSE b[k - 1] \o E[k]
    <3>1. b[k] = g[<<k, b[k - 1]>>]
      BY <2>4 DEF Goes
    <3>2. b[k - 1] \in T
      OBVIOUS
    <3> QED BY <3>1, <3>2
  <2>6. Solves([i \in 1..n |-> b[i]])
    <3> DEFINE f == [i \in 1..n |-> b[i]]
    <3>1. ASSUME NEW k \in 1..n
          PROVE  f[k] = IF k = 1 THEN E[k] ELSE f[k - 1] \o E[k]
      <4>1. k # 1 => k - 1 \in 1..n
        OBVIOUS
      <4> HIDE DEF g
      <4> QED BY <2>5, <4>1
    <3>2. f = [i \in 1..n |-> f[i]]
      OBVIOUS
    <3> HIDE DEF f
    <3>3. f = [i \in 1..n |-> IF i = 1 THEN E[i] ELSE f[i - 1] \o E[i]]
      BY <3>1, <3>2
    <3> QED BY <3>3 DEF f
  <2>7. Solves(it)
    <3> HIDE DEF Solves
    <3> QED BY <2>6
  <2>8. FlattenSeq(E) = it[n]
    <3>1. FlattenSeq(E) = it[Len(E)]
      <4>1. Len(E) # 0
        BY <1>1, <1>3
      <4> HIDE DEF it
      <4> QED BY <1>1, <4>1, Zenon DEF it, FlattenSeq
    <3> QED BY <1>1, <3>1
  <2>9. \A k \in 1..n : it[k] = IF k = 1 THEN E[k] ELSE it[k - 1] \o E[k]
    <3> HIDE DEF it
    <3> QED BY <2>7
  <2> HIDE DEF it
  <2> DEFINE S == {k \in 0..n : k = 0 \/ FollowsAll(a[0], it[k], a[k])}
  <2>10. 0 \in S
    OBVIOUS
  <2>11. ASSUME NEW k \in 1..n, k - 1 \in S PROVE k \in S
    <3>1. CASE k = 1
      <4>1. FollowsAll(a[0], E[1], a[1]) /\ it[1] = E[1]
        <5>1. 1 \in 1..n /\ 1 - 1 = 0
          BY <3>1
        <5> QED BY <2>9, <5>1
      <4> QED BY <3>1, <4>1
    <3>2. CASE k # 1
      <4>1. FollowsAll(a[0], it[k - 1], a[k - 1]) /\ FollowsAll(a[k - 1], E[k], a[k])
        BY <2>11, <3>2
      <4>2. it[k] = it[k - 1] \o E[k]
        BY <2>9, <3>2
      <4>3. FollowsAll(a[0], it[k], a[k])
        BY <4>1, <4>2, FollowsJoin
      <4> QED BY <4>3
    <3> QED BY <3>1, <3>2
  <2> HIDE DEF S
  <2>12. \A k \in 0..n : k \in S
    BY <2>10, <2>11, Induction
  <2>13. n \in S
    BY <2>12
  <2> QED BY <1>3, <2>8, <2>13 DEF S
<1> QED BY <1>2, <1>3

(* A result. *)
IsResult(v, V) == \E n \in Nat : IsSequence(v, n) /\ \A k \in 1..n : IsResultField(v[k], V)

(* The entries of a field of a result are a sequence. *)
LEMMA EntriesOfResultAre ==
  ASSUME NEW V, NEW f, IsResultField(f, V)
  PROVE  \E m \in Nat : IsSequence(EntriesOfResult(f), m)
<1>1. CASE f.name = "job" /\ f.value # Malformed
  <2>1. PICK n \in Nat : IsSequence(f.value, n)
    BY <1>1 DEF IsResultField, IsTable
  <2>2. IsSequence(Entries("job", f.value), n)
    BY <2>1, EntriesAre
  <2>3. IsSequence(<<EndOfJob>>, 1) /\ 1 \in Nat
    BY DEF IsSequence
  <2>4. IsSequence(EntriesOfResult(f), n + 1)
    <3>1. EntriesOfResult(f) = Entries("job", f.value) \o <<EndOfJob>>
      BY <1>1 DEF EntriesOfResult
    <3> QED BY <2>2, <2>3, <3>1, ConcatIs DEF Joined
  <2> QED BY <2>4
<1>2. CASE ~(f.name = "job" /\ f.value # Malformed)
  <2>1. EntriesOfResult(f) = <<Entry("result", f)>>
    BY <1>2 DEF EntriesOfResult
  <2>2. IsSequence(<<Entry("result", f)>>, 1) /\ 1 \in Nat
    BY DEF IsSequence
  <2> QED BY <2>1, <2>2
<1> QED BY <1>1, <1>2

(* What a result is read into, and that its entries are.                  *)
LEMMA ResultFollows ==
  ASSUME NEW V, NEW s \in Readings(V), NEW v, IsResult(v, V)
  PROVE  /\ ReadAll(ReadResultField, s, v) \in Readings(V)
         /\ FollowsAll(s, FlattenSeq([k \in DOMAIN v |-> EntriesOfResult(v[k])]), ReadAll(ReadResultField, s, v))
<1> DEFINE E == [k \in DOMAIN v |-> EntriesOfResult(v[k])]
<1>1. PICK n \in Nat : IsSequence(v, n) /\ \A k \in 1..n : IsResultField(v[k], V)
  BY DEF IsResult
<1>2. ASSUME NEW t \in Readings(V), NEW k \in 1..n, ~Thrown(t)
      PROVE  /\ ReadResultField(t, v[k]) \in Readings(V)
             /\ FollowsAll(t, EntriesOfResult(v[k]), ReadResultField(t, v[k]))
  BY <1>1, <1>2, ResultFieldFollows
<1>3. StaysResultFields(Readings(V), n, v)
  BY <1>2 DEF StaysResultFields
<1>4. PICK a \in [0..n -> Readings(V)] :
           a[0] = s /\ a[n] = ReadAll(ReadResultField, s, v) /\ GoesResultFields(a, n, v)
  <2>1. IsSequence(v, n)
    BY <1>1
  <2> QED BY ONLY n \in Nat, <2>1, s \in Readings(V), <1>3, ReadsResultFields
<1>5. DOMAIN v = 1..n
  BY <1>1 DEF IsSequence
<1>6. IsSequence(E, n) /\ \A k \in 1..n : E[k] = EntriesOfResult(v[k])
  BY <1>5, Zenon DEF IsSequence
<1> HIDE DEF E
<1>7. ASSUME NEW k \in 1..n
      PROVE  FollowsAll(a[k - 1], E[k], a[k])
  <2>1. a[k - 1] \in Readings(V)
    OBVIOUS
  <2>2. CASE Thrown(a[k - 1])
    <3>1. a[k] = a[k - 1]
      BY <1>4, <2>2 DEF GoesResultFields
    <3>2. PICK m \in Nat : IsSequence(E[k], m)
      BY <1>1, <1>6, EntriesOfResultAre
    <3> QED BY <2>2, <3>1, <3>2, ThrownFollows
  <2>3. CASE ~Thrown(a[k - 1])
    <3>1. a[k] = ReadResultField(a[k - 1], v[k])
      BY <1>4, <2>3 DEF GoesResultFields
    <3> QED BY <1>2, <1>6, <2>1, <2>3, <3>1
  <2> QED BY <2>2, <2>3
<1>8. FollowsAll(a[0], FlattenSeq(E), a[n])
  BY ONLY n \in Nat, <1>6, <1>7, FlattenFollows
<1>9. a[n] \in Readings(V) /\ FollowsAll(s, FlattenSeq(E), a[n])
  BY <1>4, <1>8
<1> QED BY <1>4, <1>9 DEF E

-----------------------------------------------------------------------------
(* Members and lines. *)

(* A member of a line, and a line, of any length and with any values.      *)
IsMember(m, V) ==
  /\ m.name = "result" => m.value = Malformed \/ IsResult(m.value, V)
  /\ m.name = "params" => m.value = Malformed \/ IsTable(m.value, V)
  /\ m.name = "error" => m.value \in {Null, Malformed} \/ IsTable(m.value, V)

IsLine(l, V) ==
  l = Malformed \/ \E n \in Nat : IsSequence(l, n) /\ \A k \in 1..n : IsMember(l[k], V)

(* A member.                                                               *)
LEMMA MemberFollows ==
  ASSUME NEW V, NEW s \in Readings(V), NEW m, IsMember(m, V)
  PROVE  /\ ReadMember(s, m) \in Readings(V)
         /\ FollowsAll(s, EntriesOf(m), ReadMember(s, m)) \/ Thrown(s)
         /\ \E n \in Nat : IsSequence(EntriesOf(m), n)
<1> DEFINE t == ReadMember(s, m)
           e == EntriesOf(m)
<1> SUFFICES t \in Readings(V) /\ (FollowsAll(s, e, t) \/ Thrown(s)) /\ \E n \in Nat : IsSequence(e, n)
  OBVIOUS
<1>1. ASSUME FollowsAll(s, e, t)
      PROVE  \E n \in Nat : IsSequence(e, n)
  BY <1>1 DEF FollowsAll
<1>2. CASE m.name \notin {"result", "error", "params"} \/ (m.name = "error" /\ m.value = Null)
  <2>1. t = s /\ e = <<>>
    BY <1>2, Zenon DEF ReadMember, EntriesOf
  <2>2. FollowsAll(s, <<>>, s)
    <3>1. 0 \in Nat /\ IsSequence(<<>>, 0)
      BY DEF IsSequence
    <3> QED BY <3>1, FollowsNone DEF FollowsAll
  <2> HIDE DEF t, e
  <2> QED BY <1>1, <2>1, <2>2
<1>3. ASSUME m.name \in {"result", "error", "params"}, ~(m.name = "error" /\ m.value = Null)
      PROVE  t \in Readings(V) /\ (FollowsAll(s, e, t) \/ Thrown(s)) /\ \E n \in Nat : IsSequence(e, n)
  <2>1. CASE m.value = Malformed
    <3> DEFINE x == Entry("line", m)
    <3>1. t = Throw(s)
      BY <1>3, <2>1, Zenon DEF ReadMember
    <3>2. e = <<x>>
      BY <1>3, <2>1, Zenon DEF EntriesOf
    <3>3. t \in Readings(V) /\ Thrown(t)
      BY <3>1, ThrowIs
    <3>4. x.in = "line" /\ x.name = m.name /\ x.value = m.value
      BY DEF Entry
    <3> HIDE DEF x, t, e
    <3>5. IsWrong(x)
      BY <1>3, <2>1, <3>4 DEF IsWrong, FieldsRead, Known
    <3>6. Takes(s, x, t)
      BY <3>3, <3>5, Zenon DEF Takes
    <3> QED BY <1>1, <3>2, <3>3, <3>6, OneEntry
  <2>2. CASE m.value # Malformed /\ m.name = "result"
    <3>1. IsResult(m.value, V)
      BY <2>2 DEF IsMember
    <3>2. t = ReadAll(ReadResultField, s, m.value)
      BY <1>3, <2>2 DEF ReadMember
    <3>3. e = FlattenSeq([k \in DOMAIN m.value |-> EntriesOfResult(m.value[k])])
      BY <1>3, <2>2, Zenon DEF EntriesOf
    <3>4. t \in Readings(V) /\ FollowsAll(s, e, t)
      <4> HIDE DEF t, e
      <4> QED BY <3>1, <3>2, <3>3, ResultFollows
    <3> QED BY <1>1, <3>4
  <2>3. CASE m.value # Malformed /\ m.name = "params"
    <3>1. IsTable(m.value, V)
      BY <2>3 DEF IsMember
    <3>2. t = ReadAll(ReadParamField, s, m.value)
      BY <1>3, <2>3 DEF ReadMember
    <3>3. e = Entries("params", m.value)
      BY <1>3, <2>3 DEF EntriesOf
    <3>4. t \in Readings(V) /\ FollowsAll(s, e, t)
      <4> HIDE DEF t, e
      <4> QED BY <3>1, <3>2, <3>3, ParamsFollows
    <3> QED BY <1>1, <3>4
  <2>4. CASE m.value # Malformed /\ m.name = "error"
    <3>1. IsTable(m.value, V)
      BY <1>3, <2>4 DEF IsMember
    <3>2. t = ReadAll(ReadErrorField, s, m.value)
      BY <1>3, <2>4 DEF ReadMember
    <3>3. e = Entries("error", m.value)
      BY <1>3, <2>4 DEF EntriesOf
    <3>4. t \in Readings(V) /\ FollowsAll(s, e, t)
      <4> HIDE DEF t, e
      <4> QED BY <3>1, <3>2, <3>3, ErrorFollows
    <3> QED BY <1>1, <3>4
  <2> QED BY <1>3, <2>1, <2>2, <2>3, <2>4
<1> QED BY <1>2, <1>3

(* A line. *)
LEMMA LineFollows ==
  ASSUME NEW V, Absent \in V, 0 \in V, NEW l, l # Malformed, IsLine(l, V)
  PROVE  ParseLine(l) \in Readings(V) /\ FollowsAll(Start, Flat(l), ParseLine(l))
<1> DEFINE E == [k \in DOMAIN l |-> EntriesOf(l[k])]
           t == ParseLine(l)
<1>1. PICK n \in Nat : IsSequence(l, n) /\ \A k \in 1..n : IsMember(l[k], V)
  BY DEF IsLine
<1>2. Start \in Readings(V)
  BY DEF Start, Blank, Readings
<1>3. t = ReadAll(ReadMember, Start, l)
  BY Zenon DEF ParseLine
<1>4. StaysMembers(Readings(V), n, l)
  BY <1>1, MemberFollows DEF StaysMembers
<1>5. PICK a \in [0..n -> Readings(V)] :
           a[0] = Start /\ a[n] = ReadAll(ReadMember, Start, l) /\ GoesMembers(a, n, l)
  <2>1. IsSequence(l, n)
    BY <1>1
  <2> QED BY ONLY n \in Nat, <2>1, <1>2, <1>4, ReadsMembers
<1>6. DOMAIN l = 1..n
  BY <1>1 DEF IsSequence
<1>7. IsSequence(E, n) /\ \A k \in 1..n : E[k] = EntriesOf(l[k])
  BY <1>6, Zenon DEF IsSequence
<1>8. Flat(l) = FlattenSeq(E)
  BY DEF Flat
<1> HIDE DEF E, t
<1>9. ASSUME NEW k \in 1..n
      PROVE  FollowsAll(a[k - 1], E[k], a[k])
  <2>1. a[k - 1] \in Readings(V)
    OBVIOUS
  <2>2. /\ FollowsAll(a[k - 1], E[k], ReadMember(a[k - 1], l[k])) \/ Thrown(a[k - 1])
        /\ \E m \in Nat : IsSequence(E[k], m)
    BY <1>1, <1>7, <2>1, MemberFollows
  <2>3. CASE Thrown(a[k - 1])
    <3>1. a[k] = a[k - 1]
      BY <1>5, <2>3 DEF GoesMembers
    <3> QED BY <2>2, <2>3, <3>1, ThrownFollows
  <2>4. CASE ~Thrown(a[k - 1])
    BY <1>5, <2>2, <2>4 DEF GoesMembers
  <2> QED BY <2>3, <2>4
<1>10. FollowsAll(a[0], FlattenSeq(E), a[n])
  BY ONLY n \in Nat, <1>7, <1>9, FlattenFollows
<1>11. a[n] \in Readings(V) /\ FollowsAll(Start, FlattenSeq(E), a[n])
  BY <1>5, <1>10
<1> QED BY <1>3, <1>5, <1>8, <1>11 DEF t

(* What start makes of a reading. *)
LEMMA OutcomeIs ==
  ASSUME NEW V, NEW l, ParseLine(l) \in Readings(V)
  PROVE  Outcome(l) = IF Thrown(ParseLine(l)) THEN "exception"
                      ELSE IF HasReply(ParseLine(l)) THEN "reply"
                      ELSE IF Aims(ParseLine(l)) THEN "job" ELSE "exception"
<1> DEFINE s == ParseLine(l)
           o == CASE s.thrown                                    -> "exception"
                  [] ~s.thrown /\ s.info                         -> "reply"
                  [] ~s.thrown /\ ~s.info /\ s.job.target = 0    -> "exception"
                  [] ~s.thrown /\ ~s.info /\ s.job.target # 0    -> "job"
<1>1. Outcome(l) = o
  BY DEF Outcome
<1>2. s.thrown \in BOOLEAN /\ s.info \in BOOLEAN
  BY DEF Readings
<1> HIDE DEF s
<1>3. o = IF s.thrown THEN "exception" ELSE IF s.info THEN "reply"
          ELSE IF s.job.target # 0 THEN "job" ELSE "exception"
  BY <1>2
<1> HIDE DEF o
<1> QED BY <1>1, <1>3, Zenon DEF s, Thrown, HasReply, Aims

(* For every line, of any number of members, fields and fields of a job,   *)
(* with any values: the outcome of reading them in order is what they mean *)
(* (Miner.java:86-88, 110-176).                                            *)
THEOREM ParseMatchesReference ==
  ASSUME NEW V, Absent \in V, 0 \in V, NEW l, IsLine(l, V)
  PROVE  Outcome(l) = Reference(l)
<1>1. CASE l = Malformed
  <2>1. ParseLine(l) = Throw(Start)
    BY <1>1, Zenon DEF ParseLine
  <2>2. Start \in Readings(V)
    BY DEF Start, Blank, Readings
  <2>3. Outcome(l) = "exception"
    BY <2>1, <2>2, ThrowIs, OutcomeIs
  <2> QED BY <1>1, <2>3, Zenon DEF Reference
<1>2. CASE l # Malformed
  <2> DEFINE s == ParseLine(l)
             e == Flat(l)
  <2>1. s \in Readings(V) /\ FollowsAll(Start, e, s)
    BY <1>2, LineFollows
  <2>2. Outcome(l) = IF Thrown(s) THEN "exception" ELSE IF HasReply(s) THEN "reply"
                     ELSE IF Aims(s) THEN "job" ELSE "exception"
    BY <2>1, OutcomeIs
  <2> HIDE DEF s, e
  <2>3. PICK n \in Nat : IsSequence(e, n) /\ Follows(Start, e, 0, n, s)
    BY <2>1 DEF FollowsAll
  <2>4. DOMAIN e = (0 + 1)..n
    BY <2>3 DEF IsSequence
  <2>5. ~Thrown(Start) /\ ~HasJob(Start) /\ ~HasReply(Start) /\ ~Aims(Start)
    BY DEF Thrown, HasJob, HasReply, Aims, Start, Blank
  <2>6. Thrown(s) <=> Throws(l)
    BY <2>3, <2>4, <2>5, Zenon DEF Follows, Throws, e
  <2>7. CASE ~Thrown(s)
    <3>1. \A k \in DOMAIN e : 0 + 1 = 1
      OBVIOUS
    <3>2. HasReply(s) <=> Informs(l)
      <4>1. HasReply(s) <=> \E k \in DOMAIN e : \/ IsMessage(e[k])
                                                \/ IsOk(e[k]) /\ \A i \in 1..(k - 1) : ~IsEnd(e[i])
        <5>1. 0 + 1 = 1
          OBVIOUS
        <5> QED BY <2>3, <2>4, <2>5, <2>7, <5>1, Zenon DEF Follows
      <4> QED BY <4>1, Zenon DEF Informs, e
    <3>3. Aims(s) <=> ~LastTargetIsZero(l)
      <4>1. Aims(s) <=> \E k \in DOMAIN e : IsAim(e[k]) /\ \A i \in (k + 1)..n : ~IsZero(e[i])
        BY <2>3, <2>4, <2>5, <2>7, Zenon DEF Follows
      <4>2. \A k \in DOMAIN e : \A i : i \in (k + 1)..n <=> i \in DOMAIN e /\ i > k
        BY <2>4
      <4>3. Aims(s) <=> \E k \in DOMAIN e : IsAim(e[k]) /\ \A i \in DOMAIN e : i > k => ~IsZero(e[i])
        BY <4>1, <4>2, Zenon
      <4> QED BY <4>3, Zenon DEF LastTargetIsZero, IsAim, IsZero, e
    <3> QED BY <1>2, <2>2, <2>6, <2>7, <3>2, <3>3, Zenon DEF Reference
  <2> QED BY <1>2, <2>2, <2>6, <2>7, Zenon DEF Reference
<1> QED BY <1>1, <1>2

(* The values in the lines of the instance. *)
Values == {Absent, Malformed, Null, 0, 5, "b", "j", "i", "OK", "KEEPALIVED", "text", "Unauthenticated"}

(* Bounded sequences are sequences. *)
LEMMA BoundedIs ==
  ASSUME NEW S, NEW n \in Nat, NEW s \in BoundedSeq(S, n)
  PROVE  \E m \in Nat : IsSequence(s, m) /\ \A k \in 1..m : s[k] \in S
<1>1. PICK m \in 0..n : s \in [1..m -> S]
  BY DEF BoundedSeq, SeqOf
<1> QED BY <1>1 DEF IsSequence

(* The fields of the instance, *)
LEMMA TablesAre ==
  ASSUME NEW S, \A f \in S : f.value \in Values, NEW n \in Nat, NEW s \in BoundedSeq(S, n)
  PROVE  IsTable(s, Values)
BY BoundedIs DEF IsTable

(* a single field, *)
LEMMA SingleIs ==
  ASSUME NEW f, f.value \in Values
  PROVE  IsTable(<<f>>, Values)
<1>1. IsSequence(<<f>>, 1) /\ 1 \in Nat /\ <<f>>[1] = f /\ \A k \in 1..1 : k = 1
  BY DEF IsSequence
<1> QED BY <1>1 DEF IsTable

(* and its lines. *)
LEMMA LinesAre == \A l \in Lines : IsLine(l, Values)
<1>1. \A f \in JobFields : f.value \in Values
  BY DEF JobFields, Field, Values
<1>2. \A f \in ErrorFields : f.value \in Values
  BY DEF ErrorFields, Field, Values
<1>3. ASSUME NEW f \in ResultFields PROVE IsResultField(f, Values)
  <2> DEFINE Jobs == {Malformed, <<>>, <<Field("target", 5)>>,
                      <<Field("blob", Malformed), Field("target", 5)>>,
                      <<Field("blob", "b"), Field("target", 0)>>}
  <2>1. ASSUME NEW v \in Jobs PROVE v = Malformed \/ IsTable(v, Values)
    <3>1. ASSUME NEW a, NEW b PROVE Field(a, b).value = b
      BY DEF Field
    <3>2. CASE v = <<>>
      <4>1. IsSequence(v, 0) /\ 0 \in Nat /\ \A k \in 1..0 : v[k].value \in Values
        BY <3>2 DEF IsSequence
      <4> QED BY <4>1 DEF IsTable
    <3>3. CASE v = <<Field("target", 5)>>
      <4>1. Field("target", 5).value \in Values
        BY <3>1 DEF Values
      <4> QED BY <3>3, <4>1, SingleIs
    <3>4. ASSUME NEW a, NEW b, a.value \in Values, b.value \in Values
          PROVE  IsTable(<<a, b>>, Values)
      <4>1. /\ IsSequence(<<a, b>>, 2) /\ 2 \in Nat
            /\ <<a, b>>[1] = a /\ <<a, b>>[2] = b /\ \A k \in 1..2 : k = 1 \/ k = 2
        BY DEF IsSequence
      <4> QED BY <3>4, <4>1 DEF IsTable
    <3>5. /\ Field("blob", Malformed).value \in Values /\ Field("target", 5).value \in Values
          /\ Field("blob", "b").value \in Values /\ Field("target", 0).value \in Values
      BY <3>1 DEF Values
    <3> QED BY <3>2, <3>3, <3>4, <3>5
  <2>2. CASE f \in {Field("job", v) : v \in Jobs}
    <3>1. PICK v \in Jobs : f = Field("job", v)
      BY <2>2
    <3>2. f.name = "job" /\ f.value = v
      BY <3>1 DEF Field
    <3> QED BY <2>1, <3>2 DEF IsResultField
  <2>3. CASE f \notin {Field("job", v) : v \in Jobs}
    <3>1. f.name # "job" /\ f.value \in Values
      BY <2>3 DEF ResultFields, Field, Values
    <3> QED BY <3>1 DEF IsResultField
  <2> QED BY <2>2, <2>3
<1>4. ASSUME NEW m \in Members PROVE IsMember(m, Values)
  <2>1. CASE m \in {Field("result", v) : v \in {Malformed} \cup BoundedSeq(ResultFields, 2)}
    <3>1. m.name = "result" /\ m.value \in {Malformed} \cup BoundedSeq(ResultFields, 2)
      BY <2>1 DEF Field
    <3>2. m.value = Malformed \/ IsResult(m.value, Values)
      BY <1>3, <3>1, BoundedIs DEF IsResult
    <3> QED BY <3>1, <3>2 DEF IsMember
  <2>2. CASE m \in {Field("error", v) : v \in {Null, Malformed} \cup BoundedSeq(ErrorFields, 1)}
    <3>1. m.name = "error" /\ m.value \in {Null, Malformed} \cup BoundedSeq(ErrorFields, 1)
      BY <2>2 DEF Field
    <3>2. m.value \in {Null, Malformed} \/ IsTable(m.value, Values)
      BY <1>2, <3>1, TablesAre
    <3> QED BY <3>1, <3>2 DEF IsMember
  <2>3. CASE m \in {Field("params", v) : v \in {Malformed, <<Field("id", "i")>>} \cup JobTables}
    <3>1. m.name = "params" /\ m.value \in {Malformed, <<Field("id", "i")>>} \cup BoundedSeq(JobFields, 2)
      BY <2>3 DEF Field, JobTables
    <3>2. Field("id", "i").value \in Values
      BY DEF Field, Values
    <3>3. m.value = Malformed \/ IsTable(m.value, Values)
      BY <1>1, <3>1, <3>2, TablesAre, SingleIs
    <3> QED BY <3>1, <3>3 DEF IsMember
  <2>4. CASE m \in {Field("method", Malformed)}
    <3>1. m.name = "method"
      BY <2>4 DEF Field
    <3> QED BY <3>1 DEF IsMember
  <2> QED BY <2>1, <2>2, <2>3, <2>4 DEF Members
<1>5. ASSUME NEW l \in Lines, l # Malformed PROVE IsLine(l, Values)
  <2>1. l \in BoundedSeq(Members, 2)
    BY <1>5 DEF Lines
  <2> QED BY <1>4, <2>1, BoundedIs DEF IsLine
<1> QED BY <1>5 DEF IsLine

(* The outcome of a line is what its fields say (Miner.java:86-88,        *)
(* 110-176). *)
THEOREM OutcomeMatchesReferenceHolds == InputsSpec => []OutcomeMatchesReference
<1> DEFINE LineInv == (kind = "line" => line \in Lines) /\ OutcomeMatchesReference
<1>1. InputsInit => LineInv
  BY DEF InputsInit, NoLine, OutcomeMatchesReference
<1>2. LineInv /\ [InputsNext]_inputVars => LineInv'
  <2> SUFFICES ASSUME LineInv, [InputsNext]_inputVars
               PROVE  LineInv'
    OBVIOUS
  <2>1. CASE UNCHANGED <<kind, line, parsed>>
    BY <2>1 DEF OutcomeMatchesReference
  <2>2. CASE Parse
    <3>1. line \in Lines /\ parsed' = Outcome(line) /\ UNCHANGED <<kind, line>>
      BY <2>2 DEF Parse
    <3>2. Absent \in Values /\ 0 \in Values
      BY DEF Values
    <3>3. Outcome(line) = Reference(line)
      BY <3>1, <3>2, LinesAre, ParseMatchesReference
    <3>4. parsed' = Reference(line')
      BY <3>1, <3>3
    <3> QED BY <3>1, <3>4 DEF OutcomeMatchesReference
  <2>3. CASE Judge
    <3>1. UNCHANGED <<kind, line, parsed>>
      BY <2>3 DEF Judge, poolVars
    <3> QED BY <2>1, <3>1
  <2> QED BY <2>1, <2>2, <2>3 DEF InputsNext, inputVars, poolVars
<1> QED BY <1>1, <1>2, PTL DEF InputsSpec, inputVars

-----------------------------------------------------------------------------
(* Facts of arithmetic. *)

(* Quotient and remainder of an integer. *)
LEMMA DivMod ==
  ASSUME NEW a \in Int, NEW b \in Nat \ {0}
  PROVE  /\ a \div b \in Int
         /\ a % b \in 0..(b - 1)
         /\ a = b * (a \div b) + (a % b)
OBVIOUS

(* No other quotient and remainder make up a number. *)
LEMMA DivModUnique ==
  ASSUME NEW a \in Int, NEW b \in Nat \ {0}, NEW q \in Int, NEW r \in 0..(b - 1), a = b * q + r
  PROVE  q = a \div b /\ r = a % b
OBVIOUS

(* A number with one more digit, in the base c. *)
LEMMA OneMoreDigit ==
  ASSUME NEW n \in Int, NEW b \in Nat \ {0}, NEW c \in Nat \ {0}
  PROVE  /\ b * c \in Nat \ {0}
         /\ n \div (b * c) = (n \div b) \div c
         /\ n % (b * c) = b * ((n \div b) % c) + (n % b)
<1> DEFINE q == n \div b
           r == n % b
           p == q \div c
           s == q % c
<1>1. q \in Int /\ r \in 0..(b - 1) /\ n = b * q + r
  BY DivMod
<1> HIDE DEF q, r
<1>2. p \in Int /\ s \in 0..(c - 1) /\ q = c * p + s
  BY <1>1, DivMod
<1> HIDE DEF p, s
<1>3. b * c \in Nat \ {0}
  OBVIOUS
<1>4. n = (b * c) * p + (b * s + r)
  BY <1>1, <1>2
<1>5. b * s + r \in 0..(b * c - 1)
  <2>1. b * s <= b * (c - 1) /\ b * s \in Nat
    BY <1>2
  <2>2. b * (c - 1) = b * c - b
    OBVIOUS
  <2> QED BY <1>1, <1>3, <2>1, <2>2
<1>6. p = n \div (b * c) /\ b * s + r = n % (b * c)
  <2> DEFINE m == b * c
             t == b * s + r
  <2>1. m \in Nat \ {0} /\ t \in 0..(m - 1) /\ n = m * p + t
    BY <1>3, <1>4, <1>5
  <2> HIDE DEF m, t
  <2>2. p = n \div m /\ t = n % m
    BY <1>2, <2>1, DivModUnique
  <2> QED BY <2>2 DEF m, t
<1>7. n \div (b * c) = (n \div b) \div c
  BY ONLY <1>6, Zenon DEF p, q
<1>8. n % (b * c) = b * ((n \div b) % c) + (n % b)
  BY ONLY <1>6, Zenon DEF q, r, s
<1> QED BY <1>3, <1>7, <1>8, Zenon

-----------------------------------------------------------------------------
(* Signed numbers. *)

(* A pattern of bits keeps its value modulo the size. *)
LEMMA SignedCases ==
  ASSUME NEW v \in Int, NEW s \in Nat \ {0}, s % 2 = 0
  PROVE  /\ v % s \in 0..(s - 1)
         /\ Signed(v, s) = IF v % s < s \div 2 THEN v % s ELSE (v % s) - s
         /\ Signed(v, s) \in -(s \div 2)..(s \div 2 - 1)
         /\ Signed(v, s) % s = v % s
         /\ Signed(v, s) >= 0 <=> v % s < s \div 2
<1> DEFINE r == v % s
           h == s \div 2
<1>1. r \in 0..(s - 1)
  BY DivMod
<1>2. h \in Nat /\ s = 2 * h
  OBVIOUS
<1>3. Signed(v, s) = IF r < h THEN r ELSE r - s
  BY DEF Signed
<1> HIDE DEF r, h
<1>4. r % s = r
  <2>1. r = s * 0 + r
    BY <1>1
  <2> QED BY <1>1, <2>1, DivModUnique
<1>5. (r - s) % s = r
  <2>1. r - s = s * (-1) + r /\ r - s \in Int
    BY <1>1
  <2> QED BY <1>1, <2>1, DivModUnique
<1> QED BY <1>1, <1>2, <1>3, <1>4, <1>5 DEF r, h

(* Equal patterns stand for equal numbers. *)
LEMMA SamePattern ==
  ASSUME NEW v \in Int, NEW w \in Int, NEW s \in Nat \ {0}, v % s = w % s
  PROVE  Signed(v, s) = Signed(w, s)
BY DEF Signed

(* A signed number is the one its pattern stands for. *)
LEMMA SignedBack ==
  ASSUME NEW s \in Nat \ {0}, s % 2 = 0, NEW b \in -(s \div 2)..(s \div 2 - 1)
  PROVE  Signed(Unsigned(b, s), s) = b
<1> DEFINE h == s \div 2
<1>1. h \in Nat /\ s = 2 * h
  OBVIOUS
<1>2. b \in Int /\ -h <= b /\ b < h
  BY <1>1
<1> HIDE DEF h
<1>3. CASE b >= 0
  <2>1. b = s * 0 + b /\ b \in 0..(s - 1)
    BY <1>1, <1>2, <1>3
  <2>2. b % s = b
    BY <2>1, DivModUnique
  <2> QED BY <1>1, <1>2, <2>2 DEF Signed, Unsigned, h
<1>4. CASE b < 0
  <2>1. b = s * (-1) + (b + s) /\ b + s \in 0..(s - 1)
    BY <1>1, <1>2, <1>4
  <2>2. b % s = b + s
    BY <1>2, <2>1, DivModUnique
  <2>3. b + s = s * 0 + (b + s) /\ b + s \in Int
    BY <1>2
  <2>4. (b + s) % s = b + s
    BY <2>1, <2>3, DivModUnique
  <2>5. ~(b + s < h) /\ (b + s) - s = b
    BY <1>1, <1>2
  <2> QED BY <2>2, <2>4, <2>5 DEF Signed, Unsigned, h
<1> QED BY <1>2, <1>3, <1>4

(* The sizes of bytes and ints are even. *)
LEMMA Even ==
  /\ Base \in Nat \ {0}
  /\ Bytes \in Nat \ {0} /\ Bytes % 2 = 0
  /\ Ints \in Nat \ {0} /\ Ints % 2 = 0
<1> DEFINE k == Base \div 2
<1>1. Base \in Nat \ {0} /\ k \in Nat /\ Base = 2 * k
  BY BaseAssumption
<1> HIDE DEF k
<1>2. Bytes \in Nat \ {0} /\ Bytes = 2 * (k * Base) /\ k * Base \in Nat
  BY <1>1 DEF Bytes
<1>3. Bytes % 2 = 0
  BY <1>2
<1> DEFINE c == Bytes * Bytes * Bytes
<1>4. c \in Nat \ {0}
  BY <1>2
<1>5. Ints = c * Bytes
  BY DEF Ints
<1> HIDE DEF c
<1>6. Ints \in Nat \ {0} /\ Ints = 2 * (c * (k * Base)) /\ c * (k * Base) \in Nat
  BY <1>2, <1>4, <1>5
<1> QED BY <1>1, <1>2, <1>3, <1>6

JavaBytes == -(Bytes \div 2)..(Bytes \div 2 - 1)
JavaInts == -(Ints \div 2)..(Ints \div 2 - 1)

(* A byte is a signed number of its size, whatever it is cut from. *)
LEMMA ByteType ==
  ASSUME NEW v \in Int
  PROVE  ToByte(v) \in JavaBytes /\ And255(ToByte(v)) = v % Bytes /\ ToByte(v) \in Int
BY Even, SignedCases DEF ToByte, And255, Unsigned, JavaBytes

(* A byte is the one its pattern stands for. *)
LEMMA ByteBack ==
  ASSUME NEW b \in JavaBytes
  PROVE  /\ b \in Int
         /\ And255(b) \in 0..(Bytes - 1)
         /\ ToByte(And255(b)) = b
<1>1. b \in Int
  <2>1. Bytes \div 2 \in Int
    BY Even
  <2> QED BY <2>1 DEF JavaBytes
<1>2. Signed(Unsigned(b, Bytes), Bytes) = b
  BY Even, SignedBack DEF JavaBytes
<1>3. b % Bytes \in 0..(Bytes - 1)
  BY <1>1, Even, DivMod
<1> QED BY <1>1, <1>2, <1>3 DEF ToByte, And255, Unsigned
-----------------------------------------------------------------------------
(* Text. *)

Characters == [digit : 0..(Base - 1), upper : BOOLEAN]

(* A function on the first numbers is a sequence of that length. *)
LEMMA FunctionIsSeq ==
  ASSUME NEW S, NEW n \in Nat, NEW f \in [1..n -> S]
  PROVE  f \in Seq(S) /\ Len(f) = n
BY SeqDef, LenProperties

(* What is read from an even number of digits. *)
LEMMA ReadDigits ==
  ASSUME NEW n \in Nat, NEW chars \in [1..(2 * n) -> Characters]
  PROVE  unhexlify(chars) = [k \in 1..n |-> ToByte(chars[2 * k - 1].digit * Base + chars[2 * k].digit)]
<1>1. 2 * n \in Nat /\ (2 * n) % 2 = 0 /\ (2 * n) \div 2 = n
  OBVIOUS
<1>2. chars \in Seq(Characters) /\ Len(chars) = 2 * n
  BY <1>1, LenProperties, SeqDef
<1>3. \A k \in DOMAIN chars : chars[k] # NotHex
  <2>1. \A k \in DOMAIN chars : chars[k] \in Characters
    OBVIOUS
  <2> QED BY <2>1, NoValueAssumption DEF Characters
<1> QED BY <1>1, <1>2, <1>3 DEF unhexlify

(* The digits of a byte, and the byte of two digits. *)
LEMMA TwoDigits ==
  ASSUME NEW v \in 0..(Bytes - 1)
  PROVE  /\ v \div Base \in 0..(Base - 1)
         /\ v % Base \in 0..(Base - 1)
         /\ (v \div Base) * Base + (v % Base) = v
<1> DEFINE q == v \div Base
           r == v % Base
<1>1. v \in Nat /\ v < Base * Base /\ Base \in Nat \ {0}
  BY Even DEF Bytes
<1>2. q \in Int /\ r \in 0..(Base - 1) /\ v = Base * q + r
  BY <1>1, DivMod
<1> HIDE DEF q, r
<1>3. q >= 0
  <2> SUFFICES ASSUME q <= -1 PROVE FALSE
    BY <1>2
  <2>1. Base * q <= Base * (-1)
    BY <1>1, <1>2
  <2> QED BY <1>1, <1>2, <2>1
<1>4. q < Base
  <2> SUFFICES ASSUME q >= Base PROVE FALSE
    BY <1>1, <1>2
  <2>1. Base * q >= Base * Base
    BY <1>1, <1>2
  <2> QED BY <1>1, <1>2, <2>1
<1>5. q * Base + r = v
  BY <1>1, <1>2
<1> QED BY <1>1, <1>2, <1>3, <1>4, <1>5 DEF q, r

(* hexlify writes digits, two for a byte. *)
LEMMA WriteDigits ==
  ASSUME NEW bytes \in Seq(JavaBytes)
  PROVE  /\ hexlify(bytes) \in [1..(2 * Len(bytes)) -> Characters]
         /\ \A k \in 1..Len(bytes) :
              hexlify(bytes)[2 * k - 1].digit * Base + hexlify(bytes)[2 * k].digit = And255(bytes[k])
<1> DEFINE n == Len(bytes)
           chars == hexlify(bytes)
<1>1. n \in Nat /\ 2 * n \in Nat
  OBVIOUS
<1>2. chars = [k \in 1..(2 * n) |->
                 Digit(IF k % 2 = 1 THEN And255(bytes[(k + 1) \div 2]) \div Base
                                    ELSE And255(bytes[(k + 1) \div 2]) % Base, TRUE)]
  BY DEF hexlify
<1> HIDE DEF chars
<1>3. ASSUME NEW k \in 1..(2 * n) PROVE chars[k] \in Characters
  <2>1. (k + 1) \div 2 \in 1..n
    BY <1>1
  <2>2. And255(bytes[(k + 1) \div 2]) \in 0..(Bytes - 1)
    BY <2>1, ByteBack
  <2> QED BY <1>2, <2>2, TwoDigits DEF Digit, Characters
<1>4. ASSUME NEW k \in 1..n
      PROVE  chars[2 * k - 1].digit * Base + chars[2 * k].digit = And255(bytes[k])
  <2>1. /\ 2 * k - 1 \in 1..(2 * n) /\ (2 * k - 1) % 2 = 1 /\ ((2 * k - 1) + 1) \div 2 = k
        /\ 2 * k \in 1..(2 * n) /\ ~((2 * k) % 2 = 1) /\ (2 * k + 1) \div 2 = k
    BY <1>1
  <2>2. chars[2 * k - 1].digit = And255(bytes[k]) \div Base
    BY <1>2, <2>1 DEF Digit
  <2>3. chars[2 * k].digit = And255(bytes[k]) % Base
    BY <1>2, <2>1 DEF Digit
  <2>4. And255(bytes[k]) \in 0..(Bytes - 1)
    BY ByteBack
  <2> QED BY <2>2, <2>3, <2>4, TwoDigits
<1>5. chars \in [1..(2 * n) -> Characters]
  BY <1>2, <1>3
<1> QED BY <1>4, <1>5 DEF chars

(* The case of the digits is all that toLowerCase changes. *)
LEMMA LowerCase ==
  ASSUME NEW m \in Nat, NEW chars \in [1..m -> Characters]
  PROVE  /\ toLowerCase(chars) \in [1..m -> Characters]
         /\ \A k \in 1..m : toLowerCase(chars)[k].digit = chars[k].digit
BY DEF toLowerCase, Characters

(* Bytes that are written as text, in either case, are read back as they   *)
(* were, the negative ones too (Hex.java:24-54).                           *)
THEOREM HexRoundTrip ==
  ASSUME NEW bytes \in Seq(JavaBytes)
  PROVE  /\ unhexlify(hexlify(bytes)) = bytes
         /\ unhexlify(toLowerCase(hexlify(bytes))) = bytes
<1> DEFINE n == Len(bytes)
           upper == hexlify(bytes)
           lower == toLowerCase(upper)
<1>1. n \in Nat /\ 2 * n \in Nat
  OBVIOUS
<1>2. /\ upper \in [1..(2 * n) -> Characters]
      /\ \A k \in 1..n : upper[2 * k - 1].digit * Base + upper[2 * k].digit = And255(bytes[k])
  BY WriteDigits
<1> HIDE DEF upper
<1>3. /\ lower \in [1..(2 * n) -> Characters]
      /\ \A k \in 1..(2 * n) : lower[k].digit = upper[k].digit
  BY <1>1, <1>2, LowerCase
<1> HIDE DEF lower
<1>4. \A k \in 1..n : lower[2 * k - 1].digit * Base + lower[2 * k].digit = And255(bytes[k])
  <2> SUFFICES ASSUME NEW k \in 1..n
               PROVE  lower[2 * k - 1].digit * Base + lower[2 * k].digit = And255(bytes[k])
    OBVIOUS
  <2>1. 2 * k - 1 \in 1..(2 * n) /\ 2 * k \in 1..(2 * n)
    BY <1>1
  <2> QED BY <1>2, <1>3, <2>1
<1>5. ASSUME NEW chars \in [1..(2 * n) -> Characters],
             \A k \in 1..n : chars[2 * k - 1].digit * Base + chars[2 * k].digit = And255(bytes[k])
      PROVE  unhexlify(chars) = bytes
  <2>1. unhexlify(chars) = [k \in 1..n |-> ToByte(chars[2 * k - 1].digit * Base + chars[2 * k].digit)]
    BY <1>1, ReadDigits
  <2>2. \A k \in 1..n : ToByte(chars[2 * k - 1].digit * Base + chars[2 * k].digit) = bytes[k]
    BY <1>5, ByteBack
  <2>3. bytes = [k \in 1..n |-> bytes[k]]
    BY LenProperties
  <2> QED BY <2>1, <2>2, <2>3
<1> QED BY <1>2, <1>3, <1>4, <1>5 DEF upper, lower
-----------------------------------------------------------------------------
(* Four bytes as a number. *)

Value(v3, v2, v1, v0) == ((v3 * Bytes + v2) * Bytes + v1) * Bytes + v0

(* Four bytes are a number below Ints. *)
LEMMA ValueRange ==
  ASSUME NEW v3 \in 0..(Bytes - 1), NEW v2 \in 0..(Bytes - 1),
         NEW v1 \in 0..(Bytes - 1), NEW v0 \in 0..(Bytes - 1)
  PROVE  Value(v3, v2, v1, v0) \in 0..(Ints - 1)
<1> DEFINE c == Bytes
<1>1. c \in Nat \ {0} /\ Ints = c * c * c * c
  BY Even DEF Ints
<1>2. Value(v3, v2, v1, v0) = ((v3 * c + v2) * c + v1) * c + v0
  BY DEF Value
<1> HIDE DEF c
<1>3. ASSUME NEW b \in Nat \ {0}, NEW x \in 0..(b - 1), NEW y \in 0..(c - 1)
      PROVE  x * c + y \in 0..(b * c - 1)
  <2>1. x * c <= (b - 1) * c /\ x * c \in Nat
    BY <1>1
  <2>2. (b - 1) * c = b * c - c
    BY <1>1
  <2> QED BY <1>1, <2>1, <2>2
<1>4. c * c \in Nat \ {0} /\ c * c * c \in Nat \ {0}
  BY <1>1
<1>5. v3 \in 0..(c - 1) /\ v2 \in 0..(c - 1) /\ v1 \in 0..(c - 1) /\ v0 \in 0..(c - 1)
  BY DEF c
<1>6. v3 * c + v2 \in 0..(c * c - 1)
  BY <1>1, <1>3, <1>5
<1>7. (v3 * c + v2) * c + v1 \in 0..(c * c * c - 1)
  BY <1>3, <1>4, <1>5, <1>6
<1>8. ((v3 * c + v2) * c + v1) * c + v0 \in 0..(c * c * c * c - 1)
  BY <1>3, <1>4, <1>5, <1>7
<1> QED BY <1>1, <1>2, <1>8

(* The signed first byte is all that may differ, by a whole turn.          *)
LEMMA AssembleIs ==
  ASSUME NEW v3 \in 0..(Bytes - 1), NEW v2 \in 0..(Bytes - 1),
         NEW v1 \in 0..(Bytes - 1), NEW v0 \in 0..(Bytes - 1)
  PROVE  Assemble(ToByte(v3), ToByte(v2), ToByte(v1), ToByte(v0))
           = Signed(Value(v3, v2, v1, v0), Ints)
<1> DEFINE c == Bytes
           p == Value(v3, v2, v1, v0)
           m == Value(ToByte(v3), v2, v1, v0)
<1>1. c \in Nat \ {0} /\ Ints = c * c * c * c
  BY Even DEF Ints
<1>2. /\ v3 \in 0..(c - 1) /\ v2 \in 0..(c - 1) /\ v1 \in 0..(c - 1) /\ v0 \in 0..(c - 1)
      /\ v3 \in Int /\ v2 \in Int /\ v1 \in Int /\ v0 \in Int
  BY <1>1
<1>3. \A v \in 0..(c - 1) : v % c = v
  <2> SUFFICES ASSUME NEW v \in 0..(c - 1) PROVE v % c = v
    OBVIOUS
  <2>1. v = c * 0 + v /\ v \in Int
    BY <1>1
  <2> QED BY <1>1, <2>1, DivModUnique
<1>4. And255(ToByte(v2)) = v2 /\ And255(ToByte(v1)) = v1 /\ And255(ToByte(v0)) = v0
  BY <1>2, <1>3, ByteType
<1>5. Assemble(ToByte(v3), ToByte(v2), ToByte(v1), ToByte(v0)) = Signed(m, Ints)
  BY <1>4 DEF Assemble, Value
<1>6. ToByte(v3) \in {v3, v3 - c}
  BY <1>2, <1>3 DEF ToByte, Signed
<1>7. p \in 0..(Ints - 1) /\ p \in Int
  BY Even, ValueRange
<1>8. m \in {p, p - Ints}
  <2>1. ASSUME ToByte(v3) = v3 - c PROVE m = p - Ints
    <3>1. (((v3 - c) * c + v2) * c + v1) * c + v0
            = (((v3 * c + v2) * c + v1) * c + v0) - c * c * c * c
      BY <1>1, <1>2
    <3> QED BY <1>1, <2>1, <3>1 DEF Value
  <2> QED BY <1>6, <2>1
<1> HIDE DEF m, p
<1>9. (p - Ints) % Ints = p % Ints
  <2>1. Ints \in Nat \ {0} /\ p % Ints \in 0..(Ints - 1) /\ p \div Ints \in Int
        /\ p = Ints * (p \div Ints) + (p % Ints)
    BY <1>7, Even, DivMod
  <2> DEFINE q == p \div Ints
             r == p % Ints
  <2>2. p - Ints = Ints * (q - 1) + r /\ p - Ints \in Int /\ q - 1 \in Int
    <3>1. q \in Int /\ r \in Int /\ p = Ints * q + r /\ Ints \in Int
      BY <2>1
    <3> HIDE DEF q, r
    <3>2. Ints * (q - 1) = Ints * q - Ints
      BY <3>1
    <3> QED BY <1>7, <3>1, <3>2
  <2>3. r = (p - Ints) % Ints
    BY <2>1, <2>2, DivModUnique
  <2> QED BY <2>3
<1>10. m % Ints = p % Ints /\ m \in Int
  BY <1>7, <1>8, <1>9, Even
<1> QED BY <1>5, <1>7, <1>10, Even, SamePattern DEF p

(* The bytes of a number, least significant first. *)
Bytes4(n) == <<ToByte(n), ToByte(n \div Bytes), ToByte(n \div (Bytes * Bytes)),
               ToByte(n \div (Bytes * Bytes * Bytes))>>

(* They are those of its digits, and the digits make up the number.        *)
LEMMA DigitsOf ==
  ASSUME NEW n \in Int
  PROVE  \E v3, v2, v1, v0 \in 0..(Bytes - 1) :
           /\ Bytes4(n) = <<ToByte(v0), ToByte(v1), ToByte(v2), ToByte(v3)>>
           /\ <<And255(Bytes4(n)[1]), And255(Bytes4(n)[2]), And255(Bytes4(n)[3]), And255(Bytes4(n)[4])>>
                = <<v0, v1, v2, v3>>
           /\ Value(v3, v2, v1, v0) = n % Ints
<1> DEFINE c == Bytes
           q1 == n \div c
           q2 == n \div (c * c)
           q3 == n \div (c * c * c)
<1>1. /\ c \in Nat \ {0} /\ c * c \in Nat \ {0} /\ c * c * c \in Nat \ {0}
      /\ Ints = (c * c * c) * c
  BY Even DEF Ints
<1>2. q1 \in Int /\ q2 \in Int /\ q3 \in Int
  BY <1>1, DivMod
<1>3. /\ n % (c * c) = c * (q1 % c) + (n % c)
      /\ n % (c * c * c) = (c * c) * (q2 % c) + (n % (c * c))
      /\ n % Ints = (c * c * c) * (q3 % c) + (n % (c * c * c))
  BY <1>1, OneMoreDigit
<1>4. \A m \in Int : /\ m % c \in 0..(c - 1)
                      /\ ToByte(m % c) = ToByte(m)
                      /\ And255(ToByte(m)) = m % c
  <2> SUFFICES ASSUME NEW m \in Int
               PROVE  m % c \in 0..(c - 1) /\ ToByte(m % c) = ToByte(m) /\ And255(ToByte(m)) = m % c
    OBVIOUS
  <2>1. m % c \in 0..(c - 1) /\ m % c \in Int
    BY <1>1, DivMod
  <2>2. (m % c) % c = m % c
    <3> DEFINE r == m % c
    <3>1. r \in 0..(c - 1) /\ r \in Int /\ r = c * 0 + r
      BY <1>1, <2>1
    <3> HIDE DEF r
    <3>2. r % c = r
      BY <1>1, <3>1, DivModUnique
    <3> QED BY <3>2 DEF r
  <2>3. ToByte(m % c) = ToByte(m)
    BY <1>1, <2>1, <2>2, SamePattern DEF ToByte
  <2> QED BY <2>1, <2>3, ByteType
<1>5. Bytes4(n) = <<ToByte(n), ToByte(q1), ToByte(q2), ToByte(q3)>>
  BY DEF Bytes4
<1>6. Value(q3 % c, q2 % c, q1 % c, n % c) = n % Ints
  <2> DEFINE d3 == q3 % c
             d2 == q2 % c
             d1 == q1 % c
             d0 == n % c
  <2>1. d3 \in Int /\ d2 \in Int /\ d1 \in Int /\ d0 \in Int
    BY <1>1, <1>2, <1>4
  <2>2. n % Ints = (c * c * c) * d3 + ((c * c) * d2 + (c * d1 + d0))
    BY <1>3
  <2> HIDE DEF d3, d2, d1, d0
  <2>3. ((d3 * c + d2) * c + d1) * c + d0 = (c * c * c) * d3 + ((c * c) * d2 + (c * d1 + d0))
    BY <1>1, <2>1
  <2> QED BY <2>2, <2>3 DEF Value, d3, d2, d1, d0
<1> HIDE DEF c, q1, q2, q3
<1>7. /\ Bytes4(n) = <<ToByte(n % c), ToByte(q1 % c), ToByte(q2 % c), ToByte(q3 % c)>>
      /\ <<And255(Bytes4(n)[1]), And255(Bytes4(n)[2]), And255(Bytes4(n)[3]), And255(Bytes4(n)[4])>>
           = <<n % c, q1 % c, q2 % c, q3 % c>>
  BY <1>2, <1>4, <1>5
<1> QED BY <1>2, <1>4, <1>6, <1>7 DEF c

-----------------------------------------------------------------------------
(* Nonces, targets and shares. *)

(* A nonce is taken apart into its bytes. *)
LEMMA NonceBytes4 == \A n : NonceBytes(n) = Bytes4(n)
BY DEF NonceBytes, Bytes4

(* A nonce that is taken apart and written as text stands for itself: the  *)
(* bytes that are hashed are those that are sent, and they make up the     *)
(* number again (Worker.java:30-41, Miner.java:182).                       *)
THEOREM NonceRoundTrip ==
  ASSUME NEW n \in JavaInts
  PROVE  LET b == NonceBytes(n)
         IN  unhexlify(NonceText(n)) = b /\ Assemble(b[4], b[3], b[2], b[1]) = n
<1> DEFINE b == NonceBytes(n)
<1>1. n \in Int /\ Signed(n % Ints, Ints) = n
  <2>1. Ints \div 2 \in Int
    BY Even
  <2> QED BY <2>1, Even, SignedBack DEF JavaInts, Unsigned
<1>2. \E v3, v2, v1, v0 \in 0..(Bytes - 1) :
        /\ Bytes4(n) = <<ToByte(v0), ToByte(v1), ToByte(v2), ToByte(v3)>>
        /\ <<And255(Bytes4(n)[1]), And255(Bytes4(n)[2]), And255(Bytes4(n)[3]), And255(Bytes4(n)[4])>>
             = <<v0, v1, v2, v3>>
        /\ Value(v3, v2, v1, v0) = n % Ints
  BY <1>1, DigitsOf, Zenon
<1>3. b = Bytes4(n)
  BY NonceBytes4
<1> HIDE DEF b
<1>4. PICK v3, v2, v1, v0 \in 0..(Bytes - 1) :
        b = <<ToByte(v0), ToByte(v1), ToByte(v2), ToByte(v3)>> /\ Value(v3, v2, v1, v0) = n % Ints
  BY <1>2, <1>3, Zenon
<1>5. Assemble(b[4], b[3], b[2], b[1]) = n
  BY <1>1, <1>4, AssembleIs
<1>6. b \in Seq(JavaBytes)
  <2>1. v3 \in Int /\ v2 \in Int /\ v1 \in Int /\ v0 \in Int
    BY Even
  <2> QED BY <1>4, <2>1, ByteType
<1> QED BY <1>5, <1>6, HexRoundTrip DEF NonceText, b

(* Signed numbers are compared as the pool compares unsigned ones, except  *)
(* that no share meets a target that is negative (Worker.java:35-37,       *)
(* Miner.java:128-133).                                                    *)
THEOREM WinsAsUnsigned ==
  ASSUME NEW w \in 0..(Ints - 1), NEW p \in 0..(Ints - 1)
  PROVE  Wins(Bytes4(w), Signed(p, Ints)) <=> w <= p /\ p < Ints \div 2
<1> DEFINE h == Ints \div 2
           d == Signed(w, Ints)
           t == Signed(p, Ints)
<1>1. Ints \in Nat \ {0} /\ Ints % 2 = 0 /\ h \in Nat /\ Ints = 2 * h
  BY Even
<1>2. \A x \in 0..(Ints - 1) : x % Ints = x /\ x \in Int
  <2> SUFFICES ASSUME NEW x \in 0..(Ints - 1) PROVE x % Ints = x /\ x \in Int
    OBVIOUS
  <2>1. x = Ints * 0 + x /\ x \in Int
    BY <1>1
  <2> QED BY <1>1, <2>1, DivModUnique
<1>3. PICK v3, v2, v1, v0 \in 0..(Bytes - 1) :
        /\ Bytes4(w) = <<ToByte(v0), ToByte(v1), ToByte(v2), ToByte(v3)>>
        /\ Value(v3, v2, v1, v0) = w
  <2>1. w \in Int /\ w % Ints = w
    BY <1>2
  <2>2. \E v3, v2, v1, v0 \in 0..(Bytes - 1) :
          /\ Bytes4(w) = <<ToByte(v0), ToByte(v1), ToByte(v2), ToByte(v3)>>
          /\ <<And255(Bytes4(w)[1]), And255(Bytes4(w)[2]), And255(Bytes4(w)[3]), And255(Bytes4(w)[4])>>
               = <<v0, v1, v2, v3>>
          /\ Value(v3, v2, v1, v0) = w % Ints
    BY <2>1, DigitsOf, Zenon
  <2> QED BY <2>1, <2>2, Zenon
<1>4. Wins(Bytes4(w), t) <=> d >= 0 /\ d <= t
  BY <1>3, AssembleIs DEF Wins
<1>5. d = (IF w < h THEN w ELSE w - Ints) /\ t = (IF p < h THEN p ELSE p - Ints)
  BY <1>2 DEF Signed
<1> HIDE DEF h, d, t
<1>6. d >= 0 /\ d <= t <=> w <= p /\ p < h
  BY <1>1, <1>5
<1> QED BY <1>4, <1>6 DEF h, t

(* A target of four bytes, as the number that its text stands for.         *)
LEMMA TargetIs ==
  ASSUME NEW chars \in [1..8 -> Characters]
  PROVE  LET byte(k) == chars[2 * k - 1].digit * Base + chars[2 * k].digit
         IN  /\ \A k \in 1..4 : byte(k) \in 0..(Bytes - 1)
             /\ Target(chars) = Signed(Value(byte(4), byte(3), byte(2), byte(1)), Ints)
             /\ Target(chars) # Unreadable
<1> DEFINE byte(k) == chars[2 * k - 1].digit * Base + chars[2 * k].digit
           b == unhexlify(chars)
<1>1. b = [k \in 1..4 |-> ToByte(byte(k))]
  <2>1. 2 * 4 = 8 /\ 4 \in Nat
    OBVIOUS
  <2> QED BY <2>1, ReadDigits
<1>2. \A k \in 1..4 : byte(k) \in 0..(Bytes - 1)
  <2> SUFFICES ASSUME NEW k \in 1..4 PROVE byte(k) \in 0..(Bytes - 1)
    OBVIOUS
  <2>1. 2 * k - 1 \in 1..8 /\ 2 * k \in 1..8
    OBVIOUS
  <2>2. chars[2 * k - 1].digit \in 0..(Base - 1) /\ chars[2 * k].digit \in 0..(Base - 1)
    BY <2>1 DEF Characters
  <2> DEFINE x == chars[2 * k - 1].digit
             y == chars[2 * k].digit
  <2> HIDE DEF x, y
  <2>3. x * Base + y \in 0..(Bytes - 1)
    <3>1. Base \in Nat \ {0} /\ Bytes = Base * Base /\ x \in 0..(Base - 1) /\ y \in 0..(Base - 1)
      BY <2>2, Even DEF Bytes, x, y
    <3>2. x * Base <= (Base - 1) * Base /\ x * Base \in Nat
      BY <3>1
    <3>3. (Base - 1) * Base = Base * Base - Base
      BY <3>1
    <3> QED BY <3>1, <3>2, <3>3
  <2> QED BY <2>3 DEF x, y
<1> HIDE DEF byte
<1>3. b \in Seq(Int) /\ Len(b) = 4
  <2>1. \A k \in 1..4 : ToByte(byte(k)) \in Int
    <3>1. \A k \in 1..4 : byte(k) \in Int
      BY <1>2, Even
    <3> QED BY <3>1, ByteType
  <2>2. b \in [1..4 -> Int]
    BY <1>1, <2>1
  <2> HIDE DEF b
  <2>3. 4 \in Nat
    OBVIOUS
  <2> QED BY ONLY <2>2, <2>3, FunctionIsSeq
<1>4. b # Unreadable
  BY <1>3, NoValueAssumption
<1>5. Target(chars) = Assemble(b[4], b[3], b[2], b[1])
  BY <1>3, <1>4 DEF Target
<1>6. Target(chars) = Signed(Value(byte(4), byte(3), byte(2), byte(1)), Ints)
  BY <1>1, <1>2, <1>5, AssembleIs
<1>7. Target(chars) \in Int
  <2>1. Value(byte(4), byte(3), byte(2), byte(1)) \in 0..(Ints - 1)
    BY <1>2, ValueRange
  <2>2. -(Ints \div 2)..(Ints \div 2 - 1) \subseteq Int
    BY Even
  <2> QED BY <1>6, <2>1, <2>2, Even, SignedCases
<1> QED BY <1>2, <1>6, <1>7, NoValueAssumption DEF byte

-----------------------------------------------------------------------------
(* Targets. *)

(* The targets of four bytes have a number, and the others have none.      *)
LEMMA ReadableTargets ==
  ASSUME NEW t \in Targets
  PROVE  \/ /\ t \in [1..8 -> Characters]
            /\ Len(t) = 8 /\ \A k \in 1..8 : t[k] # NotHex
         \/ /\ Target(t) = Unreadable
            /\ ~(Len(t) = 8 /\ \A k \in 1..8 : t[k] # NotHex)
<1>1. CASE t \in [1..8 -> [digit : 0..(Base - 1), upper : {FALSE}]]
  <2>1. t \in [1..8 -> Characters]
    BY <1>1 DEF Characters
  <2>2. Len(t) = 8
    <3>1. 8 \in Nat
      OBVIOUS
    <3> QED BY ONLY <2>1, <3>1, FunctionIsSeq
  <2>3. \A k \in 1..8 : t[k] # NotHex
    BY <2>1, NoValueAssumption DEF Characters
  <2> QED BY <2>1, <2>2, <2>3
<1>2. CASE t = <<>>
  <2>1. Len(t) = 0 /\ 0 \div 2 = 0 /\ 0 % 2 = 0
    BY <1>2
  <2>2. unhexlify(t) = Unreadable \/ Len(unhexlify(t)) = 0
    <3> DEFINE F == [k \in 1..(Len(t) \div 2) |-> ToByte(t[2 * k - 1].digit * Base + t[2 * k].digit)]
    <3>1. F = <<>>
      BY <2>1
    <3> QED BY <3>1 DEF unhexlify
  <2> QED BY <2>1, <2>2 DEF Target
<1>3. CASE t = <<Digit(1, TRUE)>>
  <2>1. Len(t) = 1 /\ 1 % 2 # 0
    BY <1>3
  <2> QED BY <2>1 DEF Target, unhexlify
<1>4. CASE t = [k \in 1..6 |-> Digit(1, FALSE)]
  <2>1. 1 \in 0..(Base - 1) /\ t \in [1..6 -> Characters]
    BY <1>4, BaseAssumption DEF Digit, Characters
  <2>2. Len(t) = 6
    <3>1. 6 \in Nat
      OBVIOUS
    <3> QED BY ONLY <2>1, <3>1, FunctionIsSeq
  <2>3. unhexlify(t) = [k \in 1..3 |-> ToByte(t[2 * k - 1].digit * Base + t[2 * k].digit)]
    <3>1. t \in [1..(2 * 3) -> Characters] /\ 3 \in Nat
      BY <2>1
    <3> QED BY <3>1, ReadDigits
  <2>4. Len(unhexlify(t)) = 3
    <3> DEFINE b == unhexlify(t)
    <3>1. 3 \in Nat /\ b \in [1..3 -> {b[k] : k \in 1..3}]
      BY <2>3
    <3> HIDE DEF b
    <3>2. Len(b) = 3
      BY ONLY <3>1, FunctionIsSeq
    <3> QED BY <3>2 DEF b
  <2> QED BY <2>2, <2>4 DEF Target
<1>5. CASE t = [k \in 1..8 |-> IF k = 5 THEN NotHex ELSE Digit(0, FALSE)]
  <2>1. 5 \in DOMAIN t /\ t[5] = NotHex
    BY <1>5
  <2>2. unhexlify(t) = Unreadable
    BY <2>1 DEF unhexlify
  <2> QED BY <2>1, <2>2 DEF Target
<1> QED BY <1>1, <1>2, <1>3, <1>4, <1>5 DEF Targets

(* A target of four bytes is the signed number of what it is to the pool.  *)
LEMMA TargetOfNumber ==
  ASSUME NEW t \in [1..8 -> Characters]
  PROVE  /\ PoolNumber(t) \in 0..(Ints - 1)
         /\ Target(t) = Signed(PoolNumber(t), Ints)
         /\ Target(t) # Unreadable
<1> DEFINE byte(k) == t[2 * k - 1].digit * Base + t[2 * k].digit
<1>1. PoolNumber(t) = Value(byte(4), byte(3), byte(2), byte(1))
  BY DEF PoolNumber, Value
<1>2. /\ \A k \in 1..4 : byte(k) \in 0..(Bytes - 1)
      /\ Target(t) = Signed(Value(byte(4), byte(3), byte(2), byte(1)), Ints)
      /\ Target(t) # Unreadable
  BY TargetIs
<1> HIDE DEF byte
<1>3. /\ byte(1) \in 0..(Bytes - 1) /\ byte(2) \in 0..(Bytes - 1)
      /\ byte(3) \in 0..(Bytes - 1) /\ byte(4) \in 0..(Bytes - 1)
  BY <1>2
<1> QED BY <1>1, <1>2, <1>3, ValueRange

-----------------------------------------------------------------------------
(* Nonces. *)

(* The pool reads the number of a word from the text of its nonce.         *)
LEMMA NumberOfNonce ==
  ASSUME NEW w \in 0..(Ints - 1)
  PROVE  /\ Signed(w, Ints) \in JavaInts
         /\ PoolNumber(NonceText(Signed(w, Ints))) = w
<1> DEFINE n == Signed(w, Ints)
           b == NonceBytes(n)
           t == NonceText(n)
           byte(k) == t[2 * k - 1].digit * Base + t[2 * k].digit
<1>1. w \in Int /\ w % Ints = w /\ Ints \in Nat \ {0} /\ Ints % 2 = 0
  <2>1. w \in Int /\ w = Ints * 0 + w
    BY Even
  <2> QED BY <2>1, Even, DivModUnique
<1>2. n \in JavaInts /\ n \in Int /\ n % Ints = w
  <2>1. n \in JavaInts /\ n % Ints = w
    BY <1>1, SignedCases DEF JavaInts
  <2>2. Ints \div 2 \in Int
    BY Even
  <2> QED BY <2>1, <2>2 DEF JavaInts
<1> HIDE DEF n
<1>3. \E v3, v2, v1, v0 \in 0..(Bytes - 1) :
        /\ Bytes4(n) = <<ToByte(v0), ToByte(v1), ToByte(v2), ToByte(v3)>>
        /\ <<And255(Bytes4(n)[1]), And255(Bytes4(n)[2]), And255(Bytes4(n)[3]), And255(Bytes4(n)[4])>>
             = <<v0, v1, v2, v3>>
        /\ Value(v3, v2, v1, v0) = n % Ints
  BY <1>2, DigitsOf, Zenon
<1>4. b = Bytes4(n)
  BY NonceBytes4
<1> HIDE DEF b
<1>5. PICK v3, v2, v1, v0 \in 0..(Bytes - 1) :
        /\ b = <<ToByte(v0), ToByte(v1), ToByte(v2), ToByte(v3)>>
        /\ <<And255(b[1]), And255(b[2]), And255(b[3]), And255(b[4])>> = <<v0, v1, v2, v3>>
        /\ Value(v3, v2, v1, v0) = n % Ints
  BY <1>3, <1>4, Zenon
<1>6. b \in Seq(JavaBytes) /\ Len(b) = 4
  <2>1. v3 \in Int /\ v2 \in Int /\ v1 \in Int /\ v0 \in Int
    BY Even
  <2> QED BY <1>5, <2>1, ByteType
<1>7. \A k \in 1..4 : byte(k) = And255(b[k])
  <2> DEFINE upper == hexlify(b)
  <2>1. t = toLowerCase(upper)
    BY DEF NonceText, b
  <2>2. /\ upper \in [1..8 -> Characters]
        /\ \A k \in 1..4 : upper[2 * k - 1].digit * Base + upper[2 * k].digit = And255(b[k])
    <3>1. /\ upper \in [1..(2 * Len(b)) -> Characters]
          /\ \A k \in 1..Len(b) : upper[2 * k - 1].digit * Base + upper[2 * k].digit = And255(b[k])
      BY <1>6, WriteDigits
    <3> HIDE DEF upper
    <3> QED BY <1>6, <3>1
  <2> HIDE DEF upper
  <2>3. \A k \in 1..8 : t[k].digit = upper[k].digit
    <3>1. 8 \in Nat
      OBVIOUS
    <3> QED BY <2>1, <2>2, <3>1, LowerCase
  <2> SUFFICES ASSUME NEW k \in 1..4 PROVE byte(k) = And255(b[k])
    OBVIOUS
  <2>4. 2 * k - 1 \in 1..8 /\ 2 * k \in 1..8
    OBVIOUS
  <2> QED BY <2>2, <2>3, <2>4
<1>8. PoolNumber(t) = Value(byte(4), byte(3), byte(2), byte(1))
  BY DEF PoolNumber, Value
<1> HIDE DEF byte, t
<1>9. byte(1) = v0 /\ byte(2) = v1 /\ byte(3) = v2 /\ byte(4) = v3
  BY <1>5, <1>7
<1> QED BY <1>2, <1>5, <1>8, <1>9 DEF n, t

-----------------------------------------------------------------------------
(* Shares. *)

(* What a worker makes of a target and a word.                             *)
Verdict(t, w) ==
  [readable |-> Target(t) # Unreadable,
   sent |-> IF Target(t) = Unreadable THEN FALSE ELSE Wins(Bytes4(w), Target(t)),
   nonce |-> NonceText(Signed(w, Ints))]

(* The inductive invariant: the target and the word stay as they came in,  *)
(* and a share is what was made of them.                                   *)
ShareInv ==
  /\ kind = "share" => text \in Targets /\ word \in 0..(Ints - 1)
  /\ share # Absent => kind = "share" /\ share = Verdict(text, word)

(* ShareInv holds in every behaviour: only Judge makes a share. *)
LEMMA ShareInvHolds == InputsSpec => []ShareInv
<1>1. InputsInit => ShareInv
  BY DEF InputsInit, NoShare, ShareInv
<1>2. ShareInv /\ [InputsNext]_inputVars => ShareInv'
  <2> SUFFICES ASSUME ShareInv, [InputsNext]_inputVars
               PROVE  ShareInv'
    OBVIOUS
  <2>1. CASE UNCHANGED <<kind, shareVars>>
    BY <2>1 DEF ShareInv, shareVars
  <2>2. CASE Judge
    BY <2>2 DEF Judge, ShareInv, Verdict, Bytes4
  <2>3. CASE Parse
    BY <2>1, <2>3 DEF Parse, shareVars
  <2> QED BY <2>1, <2>2, <2>3 DEF InputsNext, inputVars
<1> QED BY <1>1, <1>2, PTL DEF InputsSpec, inputVars

(* A worker sends exactly the shares that the pool takes, except for       *)
(* targets from half of the range on (Worker.java:35-37,                   *)
(* Miner.java:128-133).                                                    *)
THEOREM SharesAreWantedHolds == InputsSpec => []SharesAreWanted
<1>1. ShareInv => SharesAreWanted
  <2> SUFFICES ASSUME ShareInv, share # Absent
               PROVE  /\ share.readable <=> Len(text) = 8 /\ \A k \in 1..8 : text[k] # NotHex
                      /\ share.sent <=> /\ share.readable
                                        /\ word <= PoolNumber(text)
                                        /\ PoolNumber(text) < Ints \div 2
    BY DEF SharesAreWanted
  <2>1. /\ text \in Targets /\ word \in 0..(Ints - 1)
        /\ share.readable = (Target(text) # Unreadable)
        /\ share.sent = IF Target(text) = Unreadable THEN FALSE ELSE Wins(Bytes4(word), Target(text))
    <3>1. share = Verdict(text, word) /\ text \in Targets /\ word \in 0..(Ints - 1)
      BY DEF ShareInv
    <3> QED BY <3>1, Zenon DEF Verdict
  <2>2. CASE /\ text \in [1..8 -> Characters]
             /\ Len(text) = 8 /\ \A k \in 1..8 : text[k] # NotHex
    <3>1. /\ PoolNumber(text) \in 0..(Ints - 1)
          /\ Target(text) = Signed(PoolNumber(text), Ints)
          /\ Target(text) # Unreadable
      BY <2>2, TargetOfNumber
    <3>2. Wins(Bytes4(word), Target(text)) <=> word <= PoolNumber(text) /\ PoolNumber(text) < Ints \div 2
      BY <2>1, <3>1, WinsAsUnsigned
    <3> QED BY <2>1, <2>2, <3>1, <3>2
  <2>3. CASE /\ Target(text) = Unreadable
             /\ ~(Len(text) = 8 /\ \A k \in 1..8 : text[k] # NotHex)
    BY <2>1, <2>3
  <2> QED BY <2>1, <2>2, <2>3, ReadableTargets
<1> QED BY <1>1, ShareInvHolds, PTL

(* The nonce of a share is the one that was hashed, as bytes and as the    *)
(* number that the pool reads (Worker.java:30-41, Hex.java:24-33,          *)
(* Miner.java:182).                                                        *)
THEOREM NonceArrivesHolds == InputsSpec => []NonceArrives
<1>1. ShareInv => NonceArrives
  <2> SUFFICES ASSUME ShareInv, share # Absent
               PROVE  /\ unhexlify(share.nonce) = NonceBytes(Signed(word, Ints))
                      /\ PoolNumber(share.nonce) = word
    BY DEF NonceArrives
  <2>1. word \in 0..(Ints - 1) /\ share.nonce = NonceText(Signed(word, Ints))
    BY DEF ShareInv, Verdict
  <2>2. Signed(word, Ints) \in JavaInts /\ PoolNumber(NonceText(Signed(word, Ints))) = word
    BY <2>1, NumberOfNonce
  <2>3. unhexlify(NonceText(Signed(word, Ints))) = NonceBytes(Signed(word, Ints))
    BY <2>2, NonceRoundTrip
  <2> QED BY <2>1, <2>2, <2>3
<1> QED BY <1>1, ShareInvHolds, PTL
=============================================================================

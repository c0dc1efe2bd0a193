----------------------------- MODULE FoldProofs -----------------------------
(***************************************************************************)
(* Lemmas about induction, folds and sequences.  The induction theorems of *)
(* the library take operators, so an induction here goes over the set of   *)
(* the numbers for which something holds; a fold has a value because a     *)
(* function that goes through its steps exists.                            *)
(***************************************************************************)
EXTENDS Integers, SequencesExt, SequenceTheorems, WellFoundedInduction, TLAPS

-----------------------------------------------------------------------------
(* Induction, and the folds of the models. *)

(* A set of natural numbers has a least element. *)
LEMMA LeastElement ==
  ASSUME NEW S, S \subseteq Nat, S # {}
  PROVE  \E x \in S : \A y \in S : x <= y
<1> DEFINE Less == {ss \in Nat \X Nat : ss[1] < ss[2]}
<1>1. IsWellFoundedOn(Less, Nat)
  BY NatLessThanWellFounded DEF OpToRel
<1>2. PICK x \in S : \A y \in S : ~ (<<y, x>> \in Less)
  <2> HIDE DEF Less
  <2> QED BY <1>1, WFMin
<1>3. ASSUME NEW y \in S PROVE x <= y
  <2>1. ~ (y < x)
    BY <1>2
  <2> QED BY <2>1
<1> QED BY <1>3

(* Induction up to n, over the set of the numbers for which something      *)
(* holds.                                                                  *)
LEMMA Induction ==
  ASSUME NEW n \in Nat, NEW S, 0 \in S, \A k \in 1..n : k - 1 \in S => k \in S
  PROVE  \A k \in 0..n : k \in S
<1> DEFINE Rest0 == {k \in 0..n : k \notin S}
<1> SUFFICES ASSUME Rest0 # {} PROVE FALSE
  OBVIOUS
<1>1. PICK x \in Rest0 : \A y \in Rest0 : x <= y
  <2>1. Rest0 \subseteq Nat
    OBVIOUS
  <2> HIDE DEF Rest0
  <2> QED BY <2>1, LeastElement
<1>2. x \in 1..n /\ x - 1 \in 0..n /\ x - 1 \notin Rest0
  BY <1>1
<1> QED BY <1>1, <1>2

(* The largest of some numbers. *)
LEMMA Largest ==
  ASSUME NEW n \in Nat, NEW u \in SUBSET (1..n), u # {}
  PROVE  Max(u) \in u /\ \A y \in u : y <= Max(u)
<1> DEFINE S == {n - y : y \in u}
<1>1. PICK x \in S : \A y \in S : x <= y
  <2>1. \A y \in u : y \in Int /\ n - y \in Nat
    <3> TAKE y \in u
    <3>1. y \in 1..n
      OBVIOUS
    <3> QED BY <3>1
  <2>2. PICK y \in u : TRUE
    OBVIOUS
  <2>3. S \subseteq Nat /\ n - y \in S
    BY <2>1
  <2> HIDE DEF S
  <2> QED BY <2>3, LeastElement
<1>2. PICK z \in u : x = n - z
  BY <1>1
<1>3. \A y \in u : z >= y
  <2> TAKE y \in u
  <2>1. n - y \in S
    OBVIOUS
  <2> QED BY <1>1, <1>2, <2>1
<1> QED BY <1>2, <1>3 DEF Max

(* The numbers up to k, without the largest. *)
LEMMA LargestOfRange ==
  ASSUME NEW k \in Nat \ {0}
  PROVE  Max(1..k) = k /\ (1..k) \ {Max(1..k)} = 1..(k - 1) /\ 1..k # {}
<1>1. Max(1..k) \in 1..k /\ \A y \in 1..k : y <= Max(1..k)
  <2>1. k \in Nat /\ 1..k \in SUBSET (1..k) /\ 1..k # {}
    OBVIOUS
  <2> QED BY <2>1, Largest
<1>2. Max(1..k) = k
  BY <1>1
<1>3. (1..k) \ {k} = 1..(k - 1) /\ k \in 1..k
  OBVIOUS
<1> QED BY <1>2, <1>3

(* f has the results of folding g over each set of numbers up to n.        *)
Folds(f, n, c, g) ==
  \A u \in SUBSET (1..n) : f[u] = IF u = {} THEN c ELSE g[<<Max(u), f[u \ {Max(u)}]>>]

(* A fold over n elements has a value for each set of them: the function   *)
(* that MapThenFoldSet chooses exists.                                     *)
LEMMA FoldExists ==
  ASSUME NEW n \in Nat, NEW T, NEW c \in T, NEW g \in [(1..n) \X T -> T]
  PROVE  \E f \in [SUBSET (1..n) -> T] : Folds(f, n, c, g)
<1> DEFINE Solves(f, k) == Folds(f, k, c, g)
           S == {k \in 0..n : \E f \in [SUBSET (1..k) -> T] : Solves(f, k)}
<1>1. 0 \in S
  <2> DEFINE f == [u \in SUBSET (1..0) |-> c]
  <2>1. f \in [SUBSET (1..0) -> T] /\ \A u \in SUBSET (1..0) : u = {} /\ f[u] = c
    OBVIOUS
  <2> HIDE DEF f
  <2>2. Solves(f, 0) /\ f \in [SUBSET (1..0) -> T] /\ 0 \in 0..n
    BY <2>1 DEF Folds
  <2> HIDE DEF Solves
  <2> QED BY <2>2
<1>2. ASSUME NEW k \in 1..n, k - 1 \in S PROVE k \in S
  <2>1. PICK f \in [SUBSET (1..(k - 1)) -> T] : Solves(f, k - 1)
    BY <1>2
  <2> DEFINE F == [u \in SUBSET (1..k) |-> IF k \in u THEN g[<<k, f[u \ {k}]>>] ELSE f[u]]
  <2>2. \A u \in SUBSET (1..k) : /\ u \ {k} \in SUBSET (1..(k - 1))
                                 /\ k \notin u => u \in SUBSET (1..(k - 1))
    OBVIOUS
  <2>3. F \in [SUBSET (1..k) -> T]
    BY <2>1, <2>2
  <2>4. ASSUME NEW u \in SUBSET (1..k)
        PROVE  F[u] = IF u = {} THEN c ELSE g[<<Max(u), F[u \ {Max(u)}]>>]
    <3>1. CASE k \in u
      <4>1. k \in Nat /\ u # {}
        BY <3>1
      <4>2. Max(u) = k
        <5>1. Max(u) \in u /\ \A y \in u : y <= Max(u)
          BY <4>1, Largest
        <5>2. Max(u) \in 1..k /\ k <= Max(u)
          BY <3>1, <5>1
        <5> QED BY <5>2
      <4>3. F[u \ {k}] = f[u \ {k}]
        BY <2>2
      <4> QED BY <3>1, <4>2, <4>3
    <3>2. CASE k \notin u /\ u # {}
      <4>1. u \in SUBSET (1..(k - 1)) /\ k - 1 \in Nat
        BY <2>2, <3>2
      <4>2. Max(u) \in u
        BY <4>1, <3>2, Largest
      <4>3. u \ {Max(u)} \in SUBSET (1..k) /\ k \notin u \ {Max(u)} /\ F[u \ {Max(u)}] = f[u \ {Max(u)}]
        BY <3>2
      <4>4. F[u] = f[u]
        BY <3>2
      <4> HIDE DEF F
      <4> QED BY <2>1, <3>2, <4>1, <4>3, <4>4 DEF Folds
    <3>3. CASE u = {}
      BY <2>1, <3>3 DEF Folds
    <3> QED BY <3>1, <3>2, <3>3
  <2> HIDE DEF F
  <2>5. Solves(F, k) /\ k \in 0..n
    BY <2>4 DEF Folds
  <2> HIDE DEF Solves
  <2> QED BY <2>3, <2>5
<1> HIDE DEF S
<1>3. \A k \in 0..n : k \in S
  BY <1>1, <1>2, Induction
<1>4. n \in S
  BY <1>3
<1> QED BY <1>4 DEF S

(* A function on sets of numbers that goes through given values does so    *)
(* for the numbers up to n.                                                *)
LEMMA FoldSteps ==
  ASSUME NEW n \in Nat, NEW f, NEW a, f[{}] = a[0],
         \A k \in 1..n : f[1..(k - 1)] = a[k - 1] => f[1..k] = a[k]
  PROVE  f[1..n] = a[n]
<1> DEFINE S == {k \in 0..n : f[1..k] = a[k]}
<1>1. 0 \in S
  <2>1. 1..0 = {} /\ 0 \in 0..n
    OBVIOUS
  <2> QED BY <2>1
<1>2. \A k \in 1..n : k - 1 \in S => k \in S
  OBVIOUS
<1> HIDE DEF S
<1>3. \A k \in 0..n : k \in S
  BY <1>1, <1>2, Induction
<1>4. n \in S
  BY <1>3
<1> QED BY <1>4 DEF S

(* a has what becomes of c in n steps of g. *)
Goes(a, n, c, g) == a[0] = c /\ \A k \in 1..n : a[k] = g[<<k, a[k - 1]>>]

(* There is a function that goes through the steps of a fold. *)
LEMMA StepsExist ==
  ASSUME NEW n \in Nat, NEW T, NEW c \in T, NEW g \in [(1..n) \X T -> T]
  PROVE  \E a \in [0..n -> T] : Goes(a, n, c, g)
<1> DEFINE S == {m \in 0..n : \E a \in [0..m -> T] : Goes(a, m, c, g)}
<1>1. 0 \in S
  <2>1. [k \in 0..0 |-> c] \in [0..0 -> T] /\ Goes([k \in 0..0 |-> c], 0, c, g)
    BY DEF Goes
  <2> QED BY <2>1
<1>2. ASSUME NEW m \in 1..n, m - 1 \in S PROVE m \in S
  <2>1. PICK a \in [0..(m - 1) -> T] : Goes(a, m - 1, c, g)
    BY <1>2
  <2> DEFINE b == [k \in 0..m |-> IF k = m THEN g[<<m, a[m - 1]>>] ELSE a[k]]
  <2>2. b \in [0..m -> T] /\ Goes(b, m, c, g)
    <3>1. b \in [0..m -> T]
      BY <2>1
    <3>2. b[0] = c
      BY <2>1 DEF Goes
    <3>3. ASSUME NEW k \in 1..m PROVE b[k] = g[<<k, b[k - 1]>>]
      <4>1. b[k - 1] = a[k - 1]
        OBVIOUS
      <4>2. CASE k = m
        <5>1. m \in 0..m /\ b[m] = g[<<m, a[m - 1]>>]
          OBVIOUS
        <5> HIDE DEF b
        <5> QED BY <4>1, <4>2, <5>1
      <4>3. CASE k # m
        <5>1. k \in 1..(m - 1) /\ b[k] = a[k]
          BY <4>3
        <5> QED BY <2>1, <4>1, <5>1 DEF Goes
      <4> QED BY <4>2, <4>3
    <3> QED BY <3>1, <3>2, <3>3 DEF Goes
  <2> HIDE DEF b
  <2> QED BY <2>2
<1> HIDE DEF S
<1>3. \A k \in 0..n : k \in S
  BY <1>1, <1>2, Induction
<1>4. n \in S
  BY <1>3
<1> QED BY <1>4 DEF S

-----------------------------------------------------------------------------
(* Sequences as functions. *)

IsSequence(s, n) == s = [i \in 1..n |-> s[i]]

(* A function on the first numbers is a sequence of that length.           *)
LEMMA LengthIs ==
  ASSUME NEW n \in Nat, NEW s, IsSequence(s, n)
  PROVE  Len(s) = n /\ DOMAIN s = 1..n /\ s \in Seq({s[i] : i \in 1..n})
<1>1. DOMAIN s = 1..n /\ s \in [1..n -> {s[i] : i \in 1..n}]
  BY DEF IsSequence
<1> QED BY <1>1, SeqDef, LenProperties

(* u is the n elements of t behind the m elements of s. *)
Joined(u, s, m, t, n) ==
  /\ IsSequence(u, m + n)
  /\ \A i \in 1..(m + n) : u[i] = IF i <= m THEN s[i] ELSE t[i - m]

(* Two sequences behind each other. *)
LEMMA ConcatIs ==
  ASSUME NEW m \in Nat, NEW n \in Nat, NEW s, NEW t, IsSequence(s, m), IsSequence(t, n)
  PROVE  Joined(s \o t, s, m, t, n)
<1> DEFINE S == {s[i] : i \in 1..m} \cup {t[i] : i \in 1..n}
<1>1. Len(s) = m /\ Len(t) = n
  BY LengthIs
<1>2. s \in Seq(S) /\ t \in Seq(S)
  <2>1. s \in [1..m -> S] /\ t \in [1..n -> S]
    BY DEF IsSequence
  <2> HIDE DEF S
  <2> QED BY <2>1, SeqDef
<1> HIDE DEF S
<1>3. /\ s \o t \in Seq(S) /\ Len(s \o t) = m + n
      /\ \A i \in 1..(m + n) : (s \o t)[i] = IF i <= m THEN s[i] ELSE t[i - m]
  BY <1>1, <1>2, ConcatProperties
<1>4. DOMAIN (s \o t) = 1..(m + n) /\ s \o t \in [1..(m + n) -> S]
  BY <1>3, LenProperties
<1> QED BY <1>3, <1>4 DEF IsSequence, Joined

(* A part of a sequence. *)
LEMMA PartIs ==
  ASSUME NEW n \in Nat, NEW s, IsSequence(s, n), NEW a \in 1..(n + 1), NEW b \in 0..n, a <= b + 1
  PROVE  SubSeq(s, a, b) = [i \in 1..(b - a + 1) |-> s[a + i - 1]]
<1> DEFINE S == {s[i] : i \in 1..n}
           m == b - a + 1
           p == SubSeq(s, a, b)
<1>1. \A i \in a..b : s[i] \in S
  OBVIOUS
<1> HIDE DEF S, p
<1>2. p \in Seq(S) /\ Len(p) = m /\ \A i \in 1..m : p[i] = s[a + i - 1]
  BY <1>1, SubSeqProperties DEF p
<1>3. DOMAIN p = 1..m /\ p \in [1..m -> S]
  BY <1>2, LenProperties
<1> QED BY <1>2, <1>3 DEF p

(* u is the n elements of s and e. *)
Longer(u, s, n, e) ==
  /\ IsSequence(u, n + 1)
  /\ \A i \in 1..n : u[i] = s[i]
  /\ u[n + 1] = e

(* A sequence with one more element. *)
LEMMA AppendIs ==
  ASSUME NEW n \in Nat, NEW s, IsSequence(s, n), NEW e
  PROVE  Longer(Append(s, e), s, n, e)
<1> DEFINE S == {s[i] : i \in 1..n} \cup {e}
           p == Append(s, e)
<1>1. Len(s) = n
  BY LengthIs
<1>2. s \in Seq(S) /\ e \in S
  <2>1. s \in [1..n -> S] /\ e \in S
    BY DEF IsSequence
  <2> HIDE DEF S
  <2> QED BY <2>1, SeqDef
<1> HIDE DEF S, p
<1>3. p \in Seq(S) /\ Len(p) = n + 1 /\ (\A i \in 1..n : p[i] = s[i]) /\ p[n + 1] = e
  BY <1>1, <1>2, AppendProperties DEF p
<1>4. DOMAIN p = 1..(n + 1) /\ p \in [1..(n + 1) -> S]
  BY <1>3, LenProperties
<1> QED BY <1>3, <1>4 DEF p, IsSequence, Longer

(* No elements. *)
LEMMA EmptyIs ==
  /\ \A s : IsSequence(s, 0) => s = <<>>
  /\ <<>> \o <<>> = <<>>
  /\ \A F : [i \in 1..0 |-> F[i]] = <<>>
<1>1. ASSUME NEW s, IsSequence(s, 0) PROVE s = <<>>
  BY <1>1 DEF IsSequence
<1>2. <<>> \o <<>> = <<>>
  <2>1. IsSequence(<<>>, 0) /\ 0 + 0 = 0
    BY DEF IsSequence
  <2>2. IsSequence(<<>> \o <<>>, 0)
    BY <2>1, ConcatIs DEF Joined
  <2> QED BY <1>1, <2>2
<1>3. ASSUME NEW F PROVE [i \in 1..0 |-> F[i]] = <<>>
  OBVIOUS
<1> QED BY <1>1, <1>2, <1>3
=============================================================================

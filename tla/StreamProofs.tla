---------------------------- MODULE StreamProofs ----------------------------
(***************************************************************************)
(* Proofs about HashFunctions: for every length of a message, every way to *)
(* cut it into pieces that Blake's update accepts and every width of the   *)
(* counters, what each function has absorbed when it ends are the frames   *)
(* of its definition, and until then a growing prefix of them.             *)
(*                                                                         *)
(* The argument is the same for the four functions that take pieces.  A    *)
(* closed form (BlakeAt, GroestlAt, JhAt, SkeinAt) gives the context after *)
(* n bytes whatever pieces they came in; a step lemma says that a piece of *)
(* l bytes leads from the form for n to the form for n + l; a lemma unfolds*)
(* the definition of the frames block by block; and an end lemma compares  *)
(* that with what Final does to the closed form.                           *)
(***************************************************************************)
EXTENDS HashFunctions, FoldProofs, TLAPS

-----------------------------------------------------------------------------
(* The four folds. *)

(* The operator that ProcessBlocks folds. *)
Process(d, block, add) ==
  LET tweak == [d.tweak EXCEPT !.pos = @ + add]
  IN  [d EXCEPT !.frames = Append(@, Frame(tweak, block)),
                !.tweak = [tweak EXCEPT !.first = FALSE]]

(* The blocks that JH compresses one after the other. *)
LEMMA FoldF8 ==
  ASSUME NEW n \in Nat, NEW s, IsSequence(s, n), NEW T, NEW a \in [0..n -> T],
         \A x \in T, k \in 1..n : F8(x, s[k]) \in T,
         \A k \in 1..n : a[k] = F8(a[k - 1], s[k])
  PROVE  FoldLeft(F8, a[0], s) = a[n]
<1> DEFINE g == [p \in (1..n) \X T |-> F8(p[2], s[p[1]])]
           Solves(f) == f = [u \in SUBSET (1..n) |->
                               IF u = {} THEN a[0] ELSE F8(f[u \ {Max(u)}], s[Max(u)])]
           it == CHOOSE f : Solves(f)
<1>1. g \in [(1..n) \X T -> T]
  OBVIOUS
<1>2. \E f \in [SUBSET (1..n) -> T] : Folds(f, n, a[0], g)
  <2>1. a[0] \in T
    OBVIOUS
  <2> HIDE DEF g
  <2> QED BY ONLY n \in Nat, <1>1, <2>1, FoldExists
<1>3. PICK f \in [SUBSET (1..n) -> T] : Folds(f, n, a[0], g)
  BY <1>2
<1>4. Solves(f)
  <2>1. ASSUME NEW u \in SUBSET (1..n), u # {}
        PROVE  g[<<Max(u), f[u \ {Max(u)}]>>] = F8(f[u \ {Max(u)}], s[Max(u)])
    <3>1. Max(u) \in 1..n
      <4>1. Max(u) \in u
        BY <2>1, Largest
      <4> QED BY <4>1
    <3>2. f[u \ {Max(u)}] \in T
      OBVIOUS
    <3> QED BY <3>1, <3>2
  <2> HIDE DEF g
  <2> QED BY <1>3, <2>1 DEF Folds
<1>5. Solves(it)
  <2> HIDE DEF Solves
  <2> QED BY <1>4
<1>6. it[1..n] = a[n]
  <2> HIDE DEF it
  <2>1. it[{}] = a[0]
    BY <1>5
  <2>2. ASSUME NEW k \in 1..n, it[1..(k - 1)] = a[k - 1]
        PROVE  it[1..k] = a[k]
    <3>1. 1..k \in SUBSET (1..n) /\ k \in Nat \ {0}
      OBVIOUS
    <3>2. Max(1..k) = k /\ (1..k) \ {Max(1..k)} = 1..(k - 1) /\ 1..k # {}
      BY <3>1, LargestOfRange
    <3>3. it[1..k] = F8(it[1..(k - 1)], s[k])
      BY <1>5, <3>1, <3>2
    <3> QED BY <2>2, <3>3
  <2> HIDE DEF Solves
  <2> QED BY <2>1, <2>2, FoldSteps
<1>7. DOMAIN s = 1..n
  BY DEF IsSequence
<1> HIDE DEF it
<1>8. FoldLeft(F8, a[0], s) = it[DOMAIN s]
  BY <1>7, Zenon DEF it, FoldLeft, MapThenFoldSet
<1> QED BY <1>6, <1>7, <1>8

(* The blocks that Groestl digests. *)
LEMMA FoldDigest ==
  ASSUME NEW n \in Nat, NEW s, IsSequence(s, n), NEW T, NEW a \in [0..n -> T],
         \A x \in T, k \in 1..n : Digest(x, s[k]) \in T,
         \A k \in 1..n : a[k] = Digest(a[k - 1], s[k])
  PROVE  FoldLeft(Digest, a[0], s) = a[n]
<1> DEFINE g == [p \in (1..n) \X T |-> Digest(p[2], s[p[1]])]
           Solves(f) == f = [u \in SUBSET (1..n) |->
                               IF u = {} THEN a[0] ELSE Digest(f[u \ {Max(u)}], s[Max(u)])]
           it == CHOOSE f : Solves(f)
<1>1. g \in [(1..n) \X T -> T]
  OBVIOUS
<1>2. \E f \in [SUBSET (1..n) -> T] : Folds(f, n, a[0], g)
  <2>1. a[0] \in T
    OBVIOUS
  <2> HIDE DEF g
  <2> QED BY ONLY n \in Nat, <1>1, <2>1, FoldExists
<1>3. PICK f \in [SUBSET (1..n) -> T] : Folds(f, n, a[0], g)
  BY <1>2
<1>4. Solves(f)
  <2>1. ASSUME NEW u \in SUBSET (1..n), u # {}
        PROVE  g[<<Max(u), f[u \ {Max(u)}]>>] = Digest(f[u \ {Max(u)}], s[Max(u)])
    <3>1. Max(u) \in 1..n
      <4>1. Max(u) \in u
        BY <2>1, Largest
      <4> QED BY <4>1
    <3>2. f[u \ {Max(u)}] \in T
      OBVIOUS
    <3> QED BY <3>1, <3>2
  <2> HIDE DEF g
  <2> QED BY <1>3, <2>1 DEF Folds
<1>5. Solves(it)
  <2> HIDE DEF Solves
  <2> QED BY <1>4
<1>6. it[1..n] = a[n]
  <2> HIDE DEF it
  <2>1. it[{}] = a[0]
    BY <1>5
  <2>2. ASSUME NEW k \in 1..n, it[1..(k - 1)] = a[k - 1]
        PROVE  it[1..k] = a[k]
    <3>1. 1..k \in SUBSET (1..n) /\ k \in Nat \ {0}
      OBVIOUS
    <3>2. Max(1..k) = k /\ (1..k) \ {Max(1..k)} = 1..(k - 1) /\ 1..k # {}
      BY <3>1, LargestOfRange
    <3>3. it[1..k] = Digest(it[1..(k - 1)], s[k])
      BY <1>5, <3>1, <3>2
    <3> QED BY <2>2, <3>3
  <2> HIDE DEF Solves
  <2> QED BY <2>1, <2>2, FoldSteps
<1>7. DOMAIN s = 1..n
  BY DEF IsSequence
<1> HIDE DEF it
<1>8. FoldLeft(Digest, a[0], s) = it[DOMAIN s]
  BY <1>7, Zenon DEF it, FoldLeft, MapThenFoldSet
<1> QED BY <1>6, <1>7, <1>8

(* The blocks that BLAKE-256 compresses. *)
LEMMA FoldCompress ==
  ASSUME NEW n \in Nat, NEW s, IsSequence(s, n), NEW T, NEW a \in [0..n -> T],
         \A x \in T, k \in 1..n : Compress(x, s[k]) \in T,
         \A k \in 1..n : a[k] = Compress(a[k - 1], s[k])
  PROVE  FoldLeft(Compress, a[0], s) = a[n]
<1> DEFINE g == [p \in (1..n) \X T |-> Compress(p[2], s[p[1]])]
           Solves(f) == f = [u \in SUBSET (1..n) |->
                               IF u = {} THEN a[0] ELSE Compress(f[u \ {Max(u)}], s[Max(u)])]
           it == CHOOSE f : Solves(f)
<1>1. g \in [(1..n) \X T -> T]
  OBVIOUS
<1>2. \E f \in [SUBSET (1..n) -> T] : Folds(f, n, a[0], g)
  <2>1. a[0] \in T
    OBVIOUS
  <2> HIDE DEF g
  <2> QED BY ONLY n \in Nat, <1>1, <2>1, FoldExists
<1>3. PICK f \in [SUBSET (1..n) -> T] : Folds(f, n, a[0], g)
  BY <1>2
<1>4. Solves(f)
  <2>1. ASSUME NEW u \in SUBSET (1..n), u # {}
        PROVE  g[<<Max(u), f[u \ {Max(u)}]>>] = Compress(f[u \ {Max(u)}], s[Max(u)])
    <3>1. Max(u) \in 1..n
      <4>1. Max(u) \in u
        BY <2>1, Largest
      <4> QED BY <4>1
    <3>2. f[u \ {Max(u)}] \in T
      OBVIOUS
    <3> QED BY <3>1, <3>2
  <2> HIDE DEF g
  <2> QED BY <1>3, <2>1 DEF Folds
<1>5. Solves(it)
  <2> HIDE DEF Solves
  <2> QED BY <1>4
<1>6. it[1..n] = a[n]
  <2> HIDE DEF it
  <2>1. it[{}] = a[0]
    BY <1>5
  <2>2. ASSUME NEW k \in 1..n, it[1..(k - 1)] = a[k - 1]
        PROVE  it[1..k] = a[k]
    <3>1. 1..k \in SUBSET (1..n) /\ k \in Nat \ {0}
      OBVIOUS
    <3>2. Max(1..k) = k /\ (1..k) \ {Max(1..k)} = 1..(k - 1) /\ 1..k # {}
      BY <3>1, LargestOfRange
    <3>3. it[1..k] = Compress(it[1..(k - 1)], s[k])
      BY <1>5, <3>1, <3>2
    <3> QED BY <2>2, <3>3
  <2> HIDE DEF Solves
  <2> QED BY <2>1, <2>2, FoldSteps
<1>7. DOMAIN s = 1..n
  BY DEF IsSequence
<1> HIDE DEF it
<1>8. FoldLeft(Compress, a[0], s) = it[DOMAIN s]
  BY <1>7, Zenon DEF it, FoldLeft, MapThenFoldSet
<1> QED BY <1>6, <1>7, <1>8

(* The blocks that Skein processes. *)
LEMMA FoldProcess ==
  ASSUME NEW n \in Nat, NEW s, IsSequence(s, n), NEW T, NEW a \in [0..n -> T], NEW add,
         \A x \in T, k \in 1..n : Process(x, s[k], add) \in T,
         \A k \in 1..n : a[k] = Process(a[k - 1], s[k], add)
  PROVE  ProcessBlocks(a[0], s, add) = a[n]
<1> DEFINE g == [p \in (1..n) \X T |-> Process(p[2], s[p[1]], add)]
           Solves(f) == f = [u \in SUBSET (1..n) |->
                               IF u = {} THEN a[0] ELSE Process(f[u \ {Max(u)}], s[Max(u)], add)]
           it == CHOOSE f : Solves(f)
<1>1. g \in [(1..n) \X T -> T]
  OBVIOUS
<1>2. \E f \in [SUBSET (1..n) -> T] : Folds(f, n, a[0], g)
  <2>1. a[0] \in T
    OBVIOUS
  <2> HIDE DEF g
  <2> QED BY ONLY n \in Nat, <1>1, <2>1, FoldExists
<1>3. PICK f \in [SUBSET (1..n) -> T] : Folds(f, n, a[0], g)
  BY <1>2
<1>4. Solves(f)
  <2>1. ASSUME NEW u \in SUBSET (1..n), u # {}
        PROVE  g[<<Max(u), f[u \ {Max(u)}]>>] = Process(f[u \ {Max(u)}], s[Max(u)], add)
    <3>1. Max(u) \in 1..n
      <4>1. Max(u) \in u
        BY <2>1, Largest
      <4> QED BY <4>1
    <3>2. f[u \ {Max(u)}] \in T
      OBVIOUS
    <3> QED BY <3>1, <3>2
  <2> HIDE DEF g
  <2> QED BY <1>3, <2>1 DEF Folds
<1>5. Solves(it)
  <2> HIDE DEF Solves
  <2> QED BY <1>4
<1>6. it[1..n] = a[n]
  <2> HIDE DEF it
  <2>1. it[{}] = a[0]
    BY <1>5
  <2>2. ASSUME NEW k \in 1..n, it[1..(k - 1)] = a[k - 1]
        PROVE  it[1..k] = a[k]
    <3>1. 1..k \in SUBSET (1..n) /\ k \in Nat \ {0}
      OBVIOUS
    <3>2. Max(1..k) = k /\ (1..k) \ {Max(1..k)} = 1..(k - 1) /\ 1..k # {}
      BY <3>1, LargestOfRange
    <3>3. it[1..k] = Process(it[1..(k - 1)], s[k], add)
      BY <1>5, <3>1, <3>2
    <3> QED BY <2>2, <3>3
  <2> HIDE DEF Solves
  <2> QED BY <2>1, <2>2, FoldSteps
<1>7. DOMAIN s = 1..n
  BY DEF IsSequence
<1> HIDE DEF it
<1>8. ProcessBlocks(a[0], s, add) = it[DOMAIN s]
  BY <1>7, Zenon DEF it, FoldLeft, MapThenFoldSet, ProcessBlocks, Process
<1> QED BY <1>6, <1>7, <1>8

-----------------------------------------------------------------------------
(* The front and the end of a sequence, and its blocks. *)

(* The first elements of a sequence. *)
LEMMA TakeIs ==
  ASSUME NEW n \in Nat, NEW s, IsSequence(s, n), NEW k \in 0..n
  PROVE  Take(s, k) = [i \in 1..k |-> s[i]]
<1>0. Len(s) = n
  BY LengthIs
<1>1. (IF k < Len(s) THEN k ELSE Len(s)) = k
  BY <1>0
<1>2. Take(s, k) = SubSeq(s, 1, k)
  BY <1>1 DEF Take
<1>3. SubSeq(s, 1, k) = [i \in 1..(k - 1 + 1) |-> s[1 + i - 1]]
  BY PartIs
<1>4. k - 1 + 1 = k /\ \A i \in 1..k : 1 + i - 1 = i
  OBVIOUS
<1> QED BY <1>2, <1>3, <1>4

(* What is behind the first elements. *)
LEMMA DropIs ==
  ASSUME NEW n \in Nat, NEW s, IsSequence(s, n), NEW k \in 0..n
  PROVE  IsSequence(Drop(s, k), n - k) /\ \A i \in 1..(n - k) : Drop(s, k)[i] = s[k + i]
<1>1. Drop(s, k) = SubSeq(s, k + 1, n)
  BY LengthIs DEF Drop
<1>2. SubSeq(s, k + 1, n) = [i \in 1..(n - (k + 1) + 1) |-> s[(k + 1) + i - 1]]
  BY PartIs
<1>3. n - (k + 1) + 1 = n - k /\ \A i \in 1..(n - k) : (k + 1) + i - 1 = k + i
  OBVIOUS
<1>4. Drop(s, k) = [i \in 1..(n - k) |-> s[k + i]]
  BY <1>1, <1>2, <1>3
<1> QED BY <1>4 DEF IsSequence

(* The number of whole blocks. *)
LEMMA WholeBlocks ==
  ASSUME NEW n \in Nat, NEW size \in Nat \ {0}
  PROVE  /\ n \div size \in Nat
         /\ size * (n \div size) \in 0..n
         /\ n < size * (n \div size) + size
         /\ \A i \in 1..(n \div size) : size * (i - 1) \in 0..(n - size) /\ size * i = size * (i - 1) + size
<1> DEFINE m == n \div size
<1>1. m \in Nat /\ size * m \in Nat /\ size * m <= n /\ n < size * m + size
  OBVIOUS
<1> HIDE DEF m
<1>2. ASSUME NEW i \in 1..m
      PROVE  size * (i - 1) \in 0..(n - size) /\ size * i = size * (i - 1) + size
  <2>1. size * i = size * (i - 1) + size /\ size * (i - 1) \in Nat
    OBVIOUS
  <2>2. size * i <= size * m
    BY <1>1
  <2> QED BY <1>1, <2>1, <2>2
<1> QED BY <1>1, <1>2 DEF m

(* The whole blocks and the rest, byte by byte. *)
LEMMA BlocksAre ==
  ASSUME NEW n \in Nat, NEW s, IsSequence(s, n), NEW size \in Nat \ {0}
  PROVE  /\ Blocks(s, size) = [i \in 1..(n \div size) |-> [j \in 1..size |-> s[size * (i - 1) + j]]]
         /\ Rest(s, size) = Drop(s, size * (n \div size))
<1>1. Len(s) = n
  BY LengthIs
<1>2. ASSUME NEW i \in 1..(n \div size)
      PROVE  SubSeq(s, size * (i - 1) + 1, size * i) = [j \in 1..size |-> s[size * (i - 1) + j]]
  <2> DEFINE p == size * (i - 1)
  <2>1. p \in 0..(n - size) /\ size * i = p + size
    BY WholeBlocks
  <2> HIDE DEF p
  <2>2. p + 1 \in 1..(n + 1) /\ p + size \in 0..n /\ p + 1 <= (p + size) + 1
    BY <2>1
  <2>3. SubSeq(s, p + 1, p + size) = [j \in 1..((p + size) - (p + 1) + 1) |-> s[(p + 1) + j - 1]]
    BY <2>2, PartIs
  <2>4. (p + size) - (p + 1) + 1 = size /\ \A j \in 1..size : (p + 1) + j - 1 = p + j
    BY <2>1
  <2> QED BY <2>1, <2>3, <2>4 DEF p
<1>3. Blocks(s, size) = [i \in 1..(n \div size) |-> [j \in 1..size |-> s[size * (i - 1) + j]]]
  BY <1>1, <1>2 DEF Blocks
<1>4. Rest(s, size) = Drop(s, size * (n \div size))
  BY <1>1 DEF Rest
<1> QED BY <1>3, <1>4

(* A sequence that is one block. *)
LEMMA OneBlock ==
  ASSUME NEW s, IsSequence(s, 64)
  PROVE  IsSequence(Blocks(s, 64), 1) /\ Blocks(s, 64)[1] = s
<1>1. Len(s) = 64
  BY LengthIs
<1>2. SubSeq(s, 1, 64) = [i \in 1..(64 - 1 + 1) |-> s[1 + i - 1]]
  BY PartIs
<1>3. \A i \in 1..64 : 1 + i - 1 = i
  OBVIOUS
<1>4. SubSeq(s, 1, 64) = s
  BY <1>2, <1>3 DEF IsSequence
<1>5. Blocks(s, 64) = [i \in 1..1 |-> SubSeq(s, 64 * (i - 1) + 1, 64 * i)]
  BY <1>1 DEF Blocks
<1>6. Blocks(s, 64) = [i \in 1..1 |-> s]
  <2>1. \A i \in 1..1 : 64 * (i - 1) + 1 = 1 /\ 64 * i = 64
    OBVIOUS
  <2> QED BY <1>4, <1>5, <2>1
<1> QED BY <1>6 DEF IsSequence

-----------------------------------------------------------------------------
(* The message. *)

(* A piece of the message is a sequence of its bytes. *)
LEMMA MessageIs ==
  ASSUME NEW a \in Nat \ {0}, NEW b \in Nat, a <= b + 1
  PROVE  /\ IsSequence(Message(a, b), b - a + 1) /\ b - a + 1 \in Nat
         /\ Len(Message(a, b)) = b - a + 1
         /\ \A i \in 1..(b - a + 1) : Message(a, b)[i] = Byte(a + i - 1)
<1>1. /\ IsSequence(Message(a, b), b - a + 1) /\ b - a + 1 \in Nat
      /\ \A i \in 1..(b - a + 1) : Message(a, b)[i] = Byte(a + i - 1)
  BY DEF Message, IsSequence
<1>2. Len(Message(a, b)) = b - a + 1
  BY <1>1, LengthIs
<1> QED BY <1>1, <1>2

(* Two adjacent pieces. *)
LEMMA MessageJoin ==
  ASSUME NEW a \in Nat \ {0}, NEW b \in Nat, NEW c \in Nat, a <= b + 1, b <= c
  PROVE  Message(a, b) \o Message(b + 1, c) = Message(a, c)
<1> DEFINE m == b - a + 1
           n == c - b
           s == Message(a, b)
           t == Message(b + 1, c)
<1>1. /\ m \in Nat /\ IsSequence(s, m)
      /\ \A i \in 1..m : s[i] = Byte(a + i - 1)
  BY MessageIs
<1>2. /\ n \in Nat /\ IsSequence(t, n)
      /\ \A i \in 1..n : t[i] = Byte(b + i)
  <2>1. b + 1 \in Nat \ {0} /\ b + 1 <= c + 1 /\ c - (b + 1) + 1 = n
    OBVIOUS
  <2>2. IsSequence(t, n) /\ n \in Nat /\ \A i \in 1..n : t[i] = Byte((b + 1) + i - 1)
    BY <2>1, MessageIs
  <2>3. \A i \in 1..n : (b + 1) + i - 1 = b + i
    BY <2>2
  <2> QED BY <2>2, <2>3
<1> HIDE DEF s, t
<1>3. Joined(s \o t, s, m, t, n)
  <2> HIDE DEF m, n
  <2> QED BY ONLY <1>1, <1>2, ConcatIs
<1>4. \A i \in 1..(m + n) : (IF i <= m THEN s[i] ELSE t[i - m]) = Byte(a + i - 1)
  <2> TAKE i \in 1..(m + n)
  <2>1. CASE i <= m
    BY <1>1, <2>1
  <2>2. CASE i > m
    <3>1. i - m \in 1..n /\ b + (i - m) = a + i - 1
      BY <1>1, <1>2, <2>2
    <3> QED BY <1>1, <1>2, <2>2, <3>1
  <2> QED BY <1>1, <2>1, <2>2
<1>5. m + n = c - a + 1
  OBVIOUS
<1>6. s \o t = [i \in 1..(c - a + 1) |-> Byte(a + i - 1)]
  BY <1>3, <1>4, <1>5 DEF IsSequence, Joined
<1> QED BY <1>6 DEF Message, s, t

(* A piece, cut in two. *)
LEMMA MessageCut ==
  ASSUME NEW a \in Nat \ {0}, NEW b \in Nat, NEW c \in Nat, a <= b + 1, b <= c
  PROVE  /\ Take(Message(a, c), b - a + 1) = Message(a, b)
         /\ Drop(Message(a, c), b - a + 1) = Message(b + 1, c)
<1> DEFINE n == c - a + 1
           k == b - a + 1
           s == Message(a, c)
<1>1. /\ n \in Nat /\ IsSequence(s, n) /\ k \in 0..n
      /\ \A i \in 1..n : s[i] = Byte(a + i - 1)
  BY MessageIs
<1> HIDE DEF s
<1>2. Take(s, k) = [i \in 1..k |-> s[i]]
  <2> HIDE DEF n, k
  <2> QED BY ONLY <1>1, TakeIs
<1>3. IsSequence(Drop(s, k), n - k) /\ \A i \in 1..(n - k) : Drop(s, k)[i] = s[k + i]
  <2> HIDE DEF n, k
  <2> QED BY ONLY <1>1, DropIs
<1>4. \A i \in 1..k : s[i] = Byte(a + i - 1)
  BY <1>1
<1>5. n - k = c - (b + 1) + 1 /\ \A i \in 1..(n - k) : s[k + i] = Byte((b + 1) + i - 1)
  <2>1. n - k = c - (b + 1) + 1
    OBVIOUS
  <2>2. ASSUME NEW i \in 1..(n - k) PROVE s[k + i] = Byte((b + 1) + i - 1)
    <3>1. k + i \in 1..n /\ a + (k + i) - 1 = (b + 1) + i - 1
      BY <1>1
    <3> QED BY <1>1, <3>1
  <2> QED BY <2>1, <2>2
<1>6. Take(s, k) = [i \in 1..(b - a + 1) |-> Byte(a + i - 1)]
  BY <1>2, <1>4
<1>7. Drop(s, k) = [i \in 1..(c - (b + 1) + 1) |-> Byte((b + 1) + i - 1)]
  BY <1>3, <1>5 DEF IsSequence
<1> QED BY <1>6, <1>7 DEF Message, s

(* The blocks of a piece that begins with a block: m of them, behind q.    *)
HasBlocks(size, q, b, p, m) ==
  /\ m \in Nat /\ p + size * m \in p..b /\ b < p + size * m + size
  /\ p + size * m = size * (q + m)
  /\ IsSequence(Blocks(Message(p + 1, b), size), m)
  /\ \A k \in 1..m : Blocks(Message(p + 1, b), size)[k]
                       = Message(size * (q + k - 1) + 1, size * (q + k))
  /\ Rest(Message(p + 1, b), size) = Message(p + size * m + 1, b)

(* Every piece that begins with a block has them. *)
LEMMA MessageBlocks ==
  ASSUME NEW size \in Nat \ {0}, NEW q \in Nat, NEW b \in Nat, NEW p, p = size * q, p <= b,
         NEW m, m = (b - p) \div size
  PROVE  HasBlocks(size, q, b, p, m)
<1> DEFINE n == b - p
           s == Message(p + 1, b)
<1>1. p \in Nat /\ n \in Nat
  OBVIOUS
<1>2. IsSequence(s, n) /\ \A i \in 1..n : s[i] = Byte(p + i)
  <2>1. p + 1 \in Nat \ {0} /\ p + 1 <= b + 1 /\ b - (p + 1) + 1 = n
    BY <1>1
  <2>2. IsSequence(s, n) /\ \A i \in 1..n : s[i] = Byte((p + 1) + i - 1)
    BY <2>1, MessageIs
  <2>3. \A i \in 1..n : (p + 1) + i - 1 = p + i
    BY <1>1
  <2> QED BY <2>2, <2>3
<1> HIDE DEF s
<1>3. /\ m \in Nat /\ size * m \in 0..n /\ n < size * m + size
      /\ \A i \in 1..m : size * (i - 1) \in 0..(n - size) /\ size * i = size * (i - 1) + size
  BY <1>1, WholeBlocks
<1>4. /\ Blocks(s, size) = [i \in 1..m |-> [j \in 1..size |-> s[size * (i - 1) + j]]]
      /\ Rest(s, size) = Drop(s, size * m)
  <2>1. n \div size = m
    OBVIOUS
  <2>2. /\ Blocks(s, size) = [i \in 1..(n \div size) |-> [j \in 1..size |-> s[size * (i - 1) + j]]]
        /\ Rest(s, size) = Drop(s, size * (n \div size))
    <3> HIDE DEF n
    <3> QED BY <1>1, <1>2, BlocksAre
  <2> HIDE DEF n
  <2> QED BY ONLY <2>1, <2>2
<1>5. ASSUME NEW k \in 1..m
      PROVE  Blocks(s, size)[k] = Message(size * (q + k - 1) + 1, size * (q + k))
  <2> DEFINE o == size * (k - 1)
  <2>1. o \in 0..(n - size)
    BY <1>3
  <2>2. size * (q + k - 1) = p + o /\ size * (q + k) = p + o + size
    <3>1. k \in Int
      BY <1>3
    <3> QED BY <3>1
  <2> HIDE DEF o
  <2>3. Blocks(s, size)[k] = [j \in 1..size |-> s[o + j]]
    BY <1>4 DEF o
  <2>4. \A j \in 1..size : s[o + j] = Byte((p + o + 1) + j - 1)
    <3> TAKE j \in 1..size
    <3>1. o + j \in 1..n /\ p + (o + j) = (p + o + 1) + j - 1
      BY <1>1, <2>1
    <3> QED BY <1>2, <3>1
  <2>5. (p + o + size) - (p + o + 1) + 1 = size
    BY <1>1, <2>1
  <2>6. Blocks(s, size)[k] = [j \in 1..((p + o + size) - (p + o + 1) + 1) |-> Byte((p + o + 1) + j - 1)]
    BY <2>3, <2>4, <2>5
  <2> QED BY <2>2, <2>6 DEF Message
<1>6. Rest(s, size) = Message(p + size * m + 1, b)
  <2> DEFINE o == size * m
  <2>1. o \in 0..n
    BY <1>3
  <2> HIDE DEF o
  <2>2. /\ Rest(s, size) = Drop(s, o) /\ IsSequence(Drop(s, o), n - o)
        /\ \A i \in 1..(n - o) : Drop(s, o)[i] = s[o + i]
    <3>1. Rest(s, size) = Drop(s, o)
      BY <1>4 DEF o
    <3> HIDE DEF n
    <3>2. IsSequence(Drop(s, o), n - o) /\ \A i \in 1..(n - o) : Drop(s, o)[i] = s[o + i]
      BY ONLY <1>1, <1>2, <2>1, DropIs
    <3> QED BY <3>1, <3>2
  <2>3. n - o = b - (p + o + 1) + 1
    BY <1>1, <2>1
  <2>4. \A i \in 1..(n - o) : s[o + i] = Byte((p + o + 1) + i - 1)
    <3> TAKE i \in 1..(n - o)
    <3>1. o + i \in 1..n /\ p + (o + i) = (p + o + 1) + i - 1
      BY <1>1, <2>1
    <3> QED BY <1>2, <3>1
  <2>5. Rest(s, size) = [i \in 1..(b - (p + o + 1) + 1) |-> Byte((p + o + 1) + i - 1)]
    BY <2>2, <2>3, <2>4 DEF IsSequence
  <2> QED BY <2>5 DEF Message, o
<1>7. IsSequence(Blocks(s, size), m)
  BY <1>4 DEF IsSequence
<1>8. p + size * m \in p..b /\ b < p + size * m + size /\ p + size * m = size * (q + m)
  <2>1. size * (q + m) = size * q + size * m
    BY <1>3
  <2> QED BY <1>1, <1>3, <2>1
<1> QED BY <1>3, <1>5, <1>6, <1>7, <1>8 DEF s, HasBlocks


(* The blocks of 64 bytes that the message completes from q blocks on.     *)
LEMMA MessageBlocks64 ==
  ASSUME NEW q \in Nat, NEW b \in Nat, 64 * q <= b, NEW m, m = b \div 64 - q
  PROVE  /\ m \in Nat
         /\ IsSequence(Blocks(Message(64 * q + 1, b), 64), m)
         /\ \A k \in 1..m : Blocks(Message(64 * q + 1, b), 64)[k]
                              = Message(64 * (q + k - 1) + 1, 64 * (q + k))
         /\ Rest(Message(64 * q + 1, b), 64) = Message(64 * (b \div 64) + 1, b)
<1> DEFINE size == 64
           p == size * q
<1>1. /\ size \in Nat \ {0} /\ p = size * q /\ p \in Nat /\ p <= b
      /\ m = (b - p) \div size
  OBVIOUS
<1> HIDE DEF size, p
<1>2. HasBlocks(size, q, b, p, m)
  BY ONLY <1>1, q \in Nat, b \in Nat, MessageBlocks
<1>3. p + size * m = 64 * (b \div 64)
  BY <1>1, <1>2 DEF size, HasBlocks
<1> QED BY <1>1, <1>2, <1>3 DEF size, HasBlocks
-----------------------------------------------------------------------------
(* Frames. *)

(* The first q of the frames that F gives. *)
First(F, q) == [i \in 1..q |-> F[i]]

(* They grow one by one. *)
LEMMA FirstGrows ==
  ASSUME NEW F, NEW q \in Nat
  PROVE  /\ IsSequence(First(F, q), q)
         /\ First(F, q) \in Seq({F[i] : i \in Nat})
         /\ Append(First(F, q), F[q + 1]) = First(F, q + 1)
<1>1. IsSequence(First(F, q), q) /\ \A i \in 1..q : First(F, q)[i] = F[i]
  BY DEF IsSequence, First
<1>2. First(F, q) \in Seq({F[i] : i \in Nat})
  <2> DEFINE S == {F[i] : i \in Nat}
  <2>1. First(F, q) \in [1..q -> S]
    BY DEF First
  <2> HIDE DEF S
  <2>2. First(F, q) \in Seq(S)
    BY <2>1, SeqDef
  <2> QED BY <2>2 DEF S
<1> DEFINE p == Append(First(F, q), F[q + 1])
<1>3. Longer(p, First(F, q), q, F[q + 1])
  BY <1>1, AppendIs
<1> HIDE DEF p
<1>4. \A i \in 1..(q + 1) : p[i] = F[i]
  BY <1>1, <1>3 DEF Longer
<1>5. p = First(F, q + 1)
  BY <1>3, <1>4 DEF First, IsSequence, Longer
<1> QED BY <1>1, <1>2, <1>5 DEF p

(* A sequence that begins with another. *)
LEMMA PrefixIs ==
  ASSUME NEW m \in Nat, NEW n \in Nat, NEW s, NEW t, IsSequence(s, m), IsSequence(t, n),
         m <= n, \A i \in 1..m : s[i] = t[i]
  PROVE  IsPrefix(s, t) /\ (m < n => IsStrictPrefix(s, t))
<1>1. Len(s) = m /\ Len(t) = n
  BY LengthIs
<1>2. SubSeq(s, 1, m) = SubSeq(t, 1, m)
  <2>1. SubSeq(s, 1, m) = [i \in 1..(m - 1 + 1) |-> s[1 + i - 1]]
    BY PartIs
  <2>2. SubSeq(t, 1, m) = [i \in 1..(m - 1 + 1) |-> t[1 + i - 1]]
    BY PartIs
  <2>3. \A i \in 1..(m - 1 + 1) : s[1 + i - 1] = t[1 + i - 1]
    <3> TAKE i \in 1..(m - 1 + 1)
    <3>1. i \in 1..m /\ 1 + i - 1 = i
      OBVIOUS
    <3> QED BY <3>1
  <2> QED BY <2>1, <2>2, <2>3
<1> QED BY <1>1, <1>2 DEF IsPrefix, IsStrictPrefix

(* What has been absorbed is a prefix of what will be. *)
LEMMA FirstPrefix ==
  ASSUME NEW F, NEW q \in Nat, NEW r \in Nat, q <= r
  PROVE  IsPrefix(First(F, q), First(F, r))
<1>1. /\ IsSequence(First(F, q), q) /\ IsSequence(First(F, r), r)
      /\ \A i \in 1..q : First(F, q)[i] = First(F, r)[i]
  BY DEF First, IsSequence
<1> QED BY <1>1, PrefixIs

(* ... and of what is longer and begins with it. *)
LEMMA FirstStrict ==
  ASSUME NEW F, NEW q \in Nat, NEW n \in Nat, q < n, NEW t, IsSequence(t, n), \A i \in 1..q : t[i] = F[i]
  PROVE  IsStrictPrefix(First(F, q), t)
<1>1. IsSequence(First(F, q), q) /\ \A i \in 1..q : First(F, q)[i] = t[i]
  BY DEF First, IsSequence
<1> QED BY <1>1, PrefixIs

(* The blocks of the message, with nothing beside them. *)
Untagged == [i \in Nat |-> Frame(NoTag, Message(64 * (i - 1) + 1, 64 * i))]

(* The block behind q of them. *)
LEMMA UntaggedIs ==
  ASSUME NEW q \in Nat
  PROVE  Untagged[q + 1] = Frame(NoTag, Message(64 * q + 1, 64 * (q + 1)))
<1>1. q + 1 \in Nat /\ (q + 1) - 1 = q
  OBVIOUS
<1> QED BY <1>1 DEF Untagged
-----------------------------------------------------------------------------
(* Pieces of the message. *)

(* The l bytes behind the first n, of which h are behind q blocks.         *)
IsPiece(n, l, q, h, data) ==
  /\ n \in Nat /\ l \in Nat /\ q \in Nat /\ h \in 0..63
  /\ n = 64 * q + h /\ q = n \div 64
  /\ data = Message(n + 1, n + l)
  /\ Len(data) = l
  /\ Drop(data, 0) = data
  /\ IsSequence(Message(64 * q + 1, n), h) /\ Len(Message(64 * q + 1, n)) = h
  /\ Message(64 * q + 1, n) \o data = Message(64 * q + 1, n + l)

(* Every piece is one, and the first part of it may fill a block. *)
LEMMA PieceIs ==
  ASSUME NEW n \in Nat, NEW l \in Nat
  PROVE  IsPiece(n, l, n \div 64, n - 64 * (n \div 64), Message(n + 1, n + l))
<1> DEFINE q == n \div 64
           h == n - 64 * q
           data == Message(n + 1, n + l)
<1>1. q \in Nat /\ h \in 0..63 /\ n = 64 * q + h /\ q = n \div 64
  OBVIOUS
<1> HIDE DEF q, h
<1>2. Len(data) = l
  <2>1. n + 1 \in Nat \ {0} /\ n + l \in Nat /\ n + 1 <= (n + l) + 1 /\ (n + l) - (n + 1) + 1 = l
    OBVIOUS
  <2> QED BY <2>1, MessageIs
<1>3. Drop(data, 0) = data
  <2>1. n + 1 \in Nat \ {0} /\ n + l \in Nat /\ n + 1 <= n + 1 /\ n <= n + l /\ n - (n + 1) + 1 = 0
    OBVIOUS
  <2> QED BY <2>1, MessageCut
<1>4. /\ IsSequence(Message(64 * q + 1, n), h) /\ Len(Message(64 * q + 1, n)) = h
      /\ Message(64 * q + 1, n) \o data = Message(64 * q + 1, n + l)
  <2>1. 64 * q + 1 \in Nat \ {0} /\ n + l \in Nat /\ 64 * q + 1 <= n + 1 /\ n <= n + l
        /\ n - (64 * q + 1) + 1 = h
    BY <1>1
  <2> QED BY <2>1, MessageIs, MessageJoin
<1> HIDE DEF data
<1>5. IsPiece(n, l, q, h, data)
  BY <1>1, <1>2, <1>3, <1>4 DEF IsPiece, data
<1> QED BY <1>5 DEF q, h, data

(* Without enough bytes to fill the block, no block is completed. *)
LEMMA PieceFits ==
  ASSUME NEW n, NEW l, NEW q, NEW h, NEW data, IsPiece(n, l, q, h, data), h + l < 64
  PROVE  (n + l) \div 64 = q
BY DEF IsPiece

(* With enough of them, the front of the piece completes the block. *)
LEMMA PieceFills ==
  ASSUME NEW n, NEW l, NEW q, NEW h, NEW data, IsPiece(n, l, q, h, data), h + l >= 64
  PROVE  /\ Message(64 * q + 1, n) \o Take(data, 64 - h) = Message(64 * q + 1, 64 * (q + 1))
         /\ Drop(data, 64 - h) = Message(64 * (q + 1) + 1, n + l)
         /\ Len(Take(data, 64 - h)) = 64 - h
         /\ q + 1 \in Nat /\ n + l \in Nat /\ 64 * (q + 1) <= n + l
<1> DEFINE e == 64 * (q + 1)
<1>1. /\ n + 1 \in Nat \ {0} /\ e \in Nat /\ n + l \in Nat /\ n + 1 <= e + 1 /\ e <= n + l
      /\ e - (n + 1) + 1 = 64 - h
      /\ 64 * q + 1 \in Nat \ {0} /\ n \in Nat /\ q + 1 \in Nat /\ 64 * q + 1 <= n + 1 /\ n <= e
      /\ data = Message(n + 1, n + l)
  <2>1. /\ n \in Nat /\ l \in Nat /\ q \in Nat /\ h \in 0..63 /\ n = 64 * q + h
        /\ data = Message(n + 1, n + l)
    BY DEF IsPiece
  <2> QED BY <2>1
<1> HIDE DEF e
<1>2. Take(data, 64 - h) = Message(n + 1, e) /\ Drop(data, 64 - h) = Message(e + 1, n + l)
  BY <1>1, MessageCut
<1>3. Message(64 * q + 1, n) \o Message(n + 1, e) = Message(64 * q + 1, e)
  BY <1>1, MessageJoin
<1>4. Len(Message(n + 1, e)) = 64 - h
  BY <1>1, MessageIs
<1> QED BY <1>1, <1>2, <1>3, <1>4 DEF e
-----------------------------------------------------------------------------
(* Paddings. *)

(* Zeros and the words of a length are sequences of their bytes. *)
LEMMA FillIs ==
  ASSUME NEW z \in Nat, NEW w
  PROVE  /\ IsSequence(Zeros(z), z) /\ \A i \in 1..z : Zeros(z)[i] = Const(0)
         /\ IsSequence(BigEndian(w, z), z) /\ \A i \in 1..z : BigEndian(w, z)[i] = Octet(w, i)
BY DEF IsSequence, Zeros, BigEndian

(* A sequence of one element. *)
LEMMA OneIs ==
  ASSUME NEW e
  PROVE  IsSequence(<<e>>, 1) /\ <<e>>[1] = e
BY DEF IsSequence

(* s, then the byte e, then z zeros. *)
Padded(s, h, e, z) == [i \in 1..(h + 1 + z) |-> IF i <= h THEN s[i] ELSE IF i = h + 1 THEN e ELSE Const(0)]

(* The two ways in which the functions write that. *)
LEMMA PadIs ==
  ASSUME NEW h \in Nat, NEW s, IsSequence(s, h), NEW e, NEW z \in Nat
  PROVE  /\ s \o <<e>> \o Zeros(z) = Padded(s, h, e, z)
         /\ Append(s, e) \o Zeros(z) = Padded(s, h, e, z)
<1>1. IsSequence(<<e>>, 1) /\ <<e>>[1] = e /\ 1 \in Nat
  BY OneIs
<1>2. IsSequence(Zeros(z), z) /\ \A i \in 1..z : Zeros(z)[i] = Const(0)
  BY FillIs
<1>5. ASSUME NEW t, IsSequence(t, h + 1), \A i \in 1..h : t[i] = s[i], t[h + 1] = e
      PROVE  t \o Zeros(z) = Padded(s, h, e, z)
  <2>1. h + 1 \in Nat
    OBVIOUS
  <2> DEFINE u == t \o Zeros(z)
  <2>2. Joined(u, t, h + 1, Zeros(z), z)
    BY <1>2, <1>5, <2>1, ConcatIs
  <2> HIDE DEF u
  <2>3. ASSUME NEW i \in 1..(h + 1 + z)
        PROVE  u[i] = IF i <= h THEN s[i] ELSE IF i = h + 1 THEN e ELSE Const(0)
    <3>1. i <= h => i \in 1..h
      OBVIOUS
    <3>2. i > h + 1 => i - (h + 1) \in 1..z
      OBVIOUS
    <3> QED BY <1>2, <1>5, <2>2, <3>1, <3>2 DEF Joined
  <2>4. u = Padded(s, h, e, z)
    BY <2>2, <2>3 DEF Padded, IsSequence, Joined
  <2> QED BY <2>4 DEF u
<1>6. IsSequence(s \o <<e>>, h + 1) /\ (\A i \in 1..h : (s \o <<e>>)[i] = s[i]) /\ (s \o <<e>>)[h + 1] = e
  <2> DEFINE t == s \o <<e>>
             o == <<e>>
  <2>1. Joined(t, s, h, o, 1)
    BY <1>1, ConcatIs
  <2> HIDE DEF t, o
  <2>2. (h + 1) - h = 1
    OBVIOUS
  <2>3. IsSequence(t, h + 1) /\ (\A i \in 1..h : t[i] = s[i]) /\ t[h + 1] = e
    BY <1>1, <2>1, <2>2 DEF o, Joined
  <2> QED BY <2>3 DEF t
<1>7. IsSequence(Append(s, e), h + 1) /\ (\A i \in 1..h : Append(s, e)[i] = s[i]) /\ Append(s, e)[h + 1] = e
  BY AppendIs DEF Longer
<1> QED BY <1>5, <1>6, <1>7

(* A block of a message, byte by byte. *)
LEMMA BlockIs ==
  ASSUME NEW i \in Nat \ {0}, NEW size \in Nat \ {0}
  PROVE  Message(size * (i - 1) + 1, size * i) = [j \in 1..size |-> Byte(size * (i - 1) + j)]
<1> DEFINE p == size * (i - 1)
<1>1. p \in Nat /\ size * i = p + size
  OBVIOUS
<1> HIDE DEF p
<1>2. (p + size) - (p + 1) + 1 = size
  BY <1>1
<1>3. Message(p + 1, p + size) = [j \in 1..size |-> Byte((p + 1) + j - 1)]
  BY <1>2 DEF Message
<1>4. \A j \in 1..size : (p + 1) + j - 1 = p + j
  BY <1>1
<1>5. Message(p + 1, p + size) = [j \in 1..size |-> Byte(p + j)]
  BY <1>3, <1>4
<1> QED BY <1>1, <1>5 DEF p

(* q of the frames that F gives, and one or two more. *)
EndsInOne(t, F, q, d) == IsSequence(t, q + 1) /\ (\A i \in 1..q : t[i] = F[i]) /\ t[q + 1] = d
EndsInTwo(t, F, q, d, e) ==
  IsSequence(t, q + 2) /\ (\A i \in 1..q : t[i] = F[i]) /\ t[q + 1] = d /\ t[q + 2] = e

(* The frames of a message and one more. *)
LEMMA EndsWithOne ==
  ASSUME NEW F, NEW q \in Nat, NEW d, NEW t, EndsInOne(t, F, q, d)
  PROVE  Append(First(F, q), d) = t
<1>0. IsSequence(t, q + 1) /\ (\A i \in 1..q : t[i] = F[i]) /\ t[q + 1] = d
  BY DEF EndsInOne
<1>1. IsSequence(First(F, q), q) /\ \A i \in 1..q : First(F, q)[i] = F[i]
  BY DEF First, IsSequence
<1>2. Longer(Append(First(F, q), d), First(F, q), q, d)
  BY <1>1, AppendIs
<1>3. \A i \in 1..(q + 1) : i \in 1..q \/ i = q + 1
  OBVIOUS
<1>4. \A i \in 1..(q + 1) : Append(First(F, q), d)[i] = t[i]
  BY <1>0, <1>1, <1>2, <1>3 DEF Longer
<1> QED BY <1>0, <1>2, <1>4 DEF IsSequence, Longer

(* The frames of a message and two more. *)
LEMMA EndsWithTwo ==
  ASSUME NEW F, NEW q \in Nat, NEW d, NEW e, NEW t, EndsInTwo(t, F, q, d, e)
  PROVE  Append(Append(First(F, q), d), e) = t
<1>0. IsSequence(t, q + 2) /\ (\A i \in 1..q : t[i] = F[i]) /\ t[q + 1] = d /\ t[q + 2] = e
  BY DEF EndsInTwo
<1> DEFINE u == [i \in 1..(q + 1) |-> t[i]]
<1>1. \A i \in 1..(q + 1) : u[i] = t[i]
  OBVIOUS
<1>2. IsSequence(u, q + 1) /\ (\A i \in 1..q : u[i] = F[i]) /\ u[q + 1] = d
  <2>1. \A i \in 1..q : i \in 1..(q + 1)
    OBVIOUS
  <2>2. q + 1 \in 1..(q + 1)
    OBVIOUS
  <2>3. IsSequence(u, q + 1)
    BY DEF IsSequence
  <2> QED BY <1>0, <1>1, <2>1, <2>2, <2>3
<1> HIDE DEF u
<1>3. Append(First(F, q), d) = u
  BY <1>2, EndsWithOne DEF EndsInOne
<1>4. q + 1 \in Nat /\ (q + 1) + 1 = q + 2
  OBVIOUS
<1>5. Longer(Append(u, e), u, q + 1, e)
  BY <1>2, <1>4, AppendIs
<1>6. \A i \in 1..(q + 2) : Append(u, e)[i] = t[i]
  <2>1. \A i \in 1..(q + 2) : i \in 1..(q + 1) \/ i = q + 2
    OBVIOUS
  <2> QED BY <1>0, <1>1, <1>4, <1>5, <2>1 DEF Longer
<1>7. Append(u, e) = t
  BY <1>0, <1>4, <1>5, <1>6 DEF IsSequence, Longer
<1> QED BY <1>3, <1>7
-----------------------------------------------------------------------------
(* Counters of two words. *)

(* No other quotient and remainder make up a number. *)
LEMMA DivModUnique ==
  ASSUME NEW a \in Int, NEW b \in Nat \ {0}, NEW d \in Int, NEW r \in 0..(b - 1), a = b * d + r
  PROVE  d = a \div b /\ r = a % b
OBVIOUS

(* Quotient and remainder of a natural number. *)
LEMMA DivMod ==
  ASSUME NEW a \in Nat, NEW b \in Nat \ {0}
  PROVE  /\ a \div b \in Nat
         /\ a % b \in 0..(b - 1)
         /\ a = b * (a \div b) + (a % b)
OBVIOUS

(* The next number: the low word wraps to zero, and then the high word     *)
(* counts.                                                                 *)
LEMMA Carry ==
  ASSUME NEW a \in Nat, NEW b \in Nat \ {0}
  PROVE  /\ ((a % b) + 1) % b = (a + 1) % b
         /\ (a + 1) \div b = IF (a + 1) % b = 0 THEN (a \div b) + 1 ELSE a \div b
<1> DEFINE d == a \div b
           r == a % b
<1>1. d \in Nat /\ r \in 0..(b - 1) /\ a = b * d + r
  BY DivMod
<1> HIDE DEF d, r
<1>2. CASE r = b - 1
  <2>1. a + 1 = b * (d + 1) + 0 /\ r + 1 = b * 1 + 0 /\ 0 \in 0..(b - 1) /\ d + 1 \in Int /\ a + 1 \in Int
    BY <1>1, <1>2
  <2>2. d + 1 = (a + 1) \div b /\ 0 = (a + 1) % b
    BY <2>1, DivModUnique
  <2>3. 0 = (r + 1) % b
    <3>1. r + 1 \in Int /\ 1 \in Int
      BY <1>1
    <3> QED BY <2>1, <3>1, DivModUnique
  <2> QED BY <2>2, <2>3 DEF d, r
<1>3. CASE r < b - 1
  <2>1. a + 1 = b * d + (r + 1) /\ r + 1 = b * 0 + (r + 1) /\ r + 1 \in 0..(b - 1) /\ a + 1 \in Int /\ d \in Int
    BY <1>1, <1>3
  <2>2. d = (a + 1) \div b /\ r + 1 = (a + 1) % b
    BY <2>1, DivModUnique
  <2>3. r + 1 = (r + 1) % b
    <3>1. r + 1 \in Int /\ 0 \in Int
      BY <1>1
    <3> QED BY <2>1, <3>1, DivModUnique
  <2>4. r + 1 # 0
    BY <1>1
  <2> QED BY <2>2, <2>3, <2>4 DEF d, r
<1> QED BY <1>1, <1>2, <1>3
-----------------------------------------------------------------------------
(* A flag that is not set, and one that is. *)
No == FALSE
Yes == TRUE

(* Whether there is nothing yet. *)
Fresh(q) == q = 0

(* The flag for nothing, and for something. *)
LEMMA FreshIs ==
  ASSUME NEW i \in Nat
  PROVE  i > 0 => Fresh(i) = No
<1>1. ASSUME i > 0 PROVE ~ (i = 0)
  BY <1>1
<1>2. ASSUME ~ (i = 0) PROVE Fresh(i) = No
  BY <1>2, Zenon DEF Fresh, No
<1> QED BY <1>1, <1>2

-----------------------------------------------------------------------------
(* JH. *)

(* A record of JH. *)
JhContext(f, d, x) == [frames |-> f, databitlen |-> d, buffer |-> x]

(* The context after n bytes, in whatever pieces. *)
JhAt(n) == JhContext(First(Untagged, n \div 64), 8 * n, Message(64 * (n \div 64) + 1, n))

(* What an update makes of data that begin with a block. *)
JhWhole(c, bulk) == [FoldLeft(F8, c, Blocks(bulk, 64)) EXCEPT !.buffer = Rest(bulk, 64)]

(* A block is a frame more. *)
LEMMA F8Is ==
  ASSUME NEW f, NEW d, NEW x, NEW block
  PROVE  F8(JhContext(f, d, x), block) = JhContext(Append(f, Frame(NoTag, block)), d, x)
BY DEF F8, JhContext

(* The whole blocks of a piece, with the buffer empty. *)
LEMMA JhBulk ==
  ASSUME NEW q \in Nat, NEW b \in Nat, 64 * q <= b, NEW d, NEW x
  PROVE  JhWhole(JhContext(First(Untagged, q), d, x), Message(64 * q + 1, b))
           = JhContext(First(Untagged, b \div 64), d, Message(64 * (b \div 64) + 1, b))
<1> DEFINE m == b \div 64 - q
           s == Blocks(Message(64 * q + 1, b), 64)
           After(k) == JhContext(First(Untagged, q + k), d, x)
           a == [k \in 0..m |-> After(k)]
           S == {Untagged[i] : i \in Nat}
           T == [frames : Seq(S), databitlen : {d}, buffer : {x}]
<1>1. /\ m \in Nat /\ IsSequence(s, m)
      /\ \A k \in 1..m : s[k] = Message(64 * (q + k - 1) + 1, 64 * (q + k))
      /\ Rest(Message(64 * q + 1, b), 64) = Message(64 * (b \div 64) + 1, b)
  BY MessageBlocks64, SMTT(20)
<1>2. q + m = b \div 64
  OBVIOUS
<1> HIDE DEF m, s
<1>3. ASSUME NEW k \in 1..m
      PROVE  Frame(NoTag, s[k]) = Untagged[q + k] /\ q + k \in Nat
  BY <1>1 DEF Untagged
<1>4. \A k \in 0..m : First(Untagged, q + k) \in Seq(S)
  <2> TAKE k \in 0..m
  <2>1. q + k \in Nat
    BY <1>1
  <2> QED BY <2>1, FirstGrows
<1>5. a \in [0..m -> T]
  <2> HIDE DEF S
  <2> QED BY <1>4 DEF JhContext
<1>6. ASSUME NEW y \in T, NEW k \in 1..m PROVE F8(y, s[k]) \in T
  <2>1. Frame(NoTag, s[k]) \in S
    BY <1>3
  <2> HIDE DEF S
  <2>2. Append(y.frames, Frame(NoTag, s[k])) \in Seq(S)
    BY <2>1, AppendProperties
  <2> QED BY <2>2 DEF F8
<1>7. ASSUME NEW k \in 1..m PROVE a[k] = F8(a[k - 1], s[k])
  <2>1. Append(First(Untagged, q + (k - 1)), Frame(NoTag, s[k])) = First(Untagged, q + k)
    <3>1. q + (k - 1) \in Nat /\ (q + (k - 1)) + 1 = q + k
      BY <1>1
    <3> QED BY <1>3, <3>1, FirstGrows
  <2>2. a[k] = After(k) /\ a[k - 1] = After(k - 1)
    BY <1>1
  <2>3. F8(After(k - 1), s[k]) = JhContext(Append(First(Untagged, q + (k - 1)), Frame(NoTag, s[k])), d, x)
    BY F8Is
  <2> QED BY <2>1, <2>2, <2>3
<1> HIDE DEF T, a
<1>8. FoldLeft(F8, a[0], s) = a[m]
  BY <1>1, <1>5, <1>6, <1>7, FoldF8
<1>9. a[0] = After(0) /\ a[m] = After(m) /\ q + 0 = q
  BY <1>1 DEF a
<1>10. FoldLeft(F8, JhContext(First(Untagged, q), d, x), s) = JhContext(First(Untagged, b \div 64), d, x)
  BY <1>2, <1>8, <1>9
<1> QED BY <1>1, <1>10 DEF s, JhWhole, JhContext

(* Data that do not fill the buffer. *)
LEMMA JhKeeps ==
  ASSUME NEW f, NEW d, NEW x, NEW data, Len(x) > 0, Len(x) + Len(data) < 64
  PROVE  JhUpdate(JhContext(f, d, x), data) = JhContext(f, d + 8 * Len(data), x \o data)
<1> DEFINE c == JhContext(f, d, x)
<1>1. [c EXCEPT !.databitlen = @ + 8 * Len(data)] = JhContext(f, d + 8 * Len(data), x) /\ c.buffer = x
  BY DEF JhContext
<1>2. JhUpdate(c, data) = [JhContext(f, d + 8 * Len(data), x) EXCEPT !.buffer = @ \o data]
  BY <1>1 DEF JhUpdate
<1> QED BY <1>2 DEF JhContext

(* Data that fill the buffer. *)
LEMMA JhFills ==
  ASSUME NEW f, NEW d, NEW x, NEW data, Len(x) > 0, ~ (Len(x) + Len(data) < 64)
  PROVE  JhUpdate(JhContext(f, d, x), data)
           = JhWhole(JhContext(Append(f, Frame(NoTag, x \o Take(data, 64 - Len(x)))), d + 8 * Len(data), x),
                     Drop(data, 64 - Len(x)))
<1> DEFINE c == JhContext(f, d, x)
           e == d + 8 * Len(data)
           fill == 64 - Len(x)
           filled == F8(JhContext(f, e, x), x \o Take(data, fill))
<1>1. [c EXCEPT !.databitlen = @ + 8 * Len(data)] = JhContext(f, e, x) /\ c.buffer = x
  BY DEF JhContext
<1>2. filled = JhContext(Append(f, Frame(NoTag, x \o Take(data, fill))), e, x)
  BY F8Is
<1>3. JhUpdate(c, data) = JhWhole(filled, Drop(data, fill))
  BY <1>1, Zenon DEF JhUpdate, JhWhole
<1> QED BY <1>2, <1>3

(* Data that find the buffer empty. *)
LEMMA JhStarts ==
  ASSUME NEW f, NEW d, NEW x, NEW data, ~ (Len(x) > 0)
  PROVE  JhUpdate(JhContext(f, d, x), data) = JhWhole(JhContext(f, d + 8 * Len(data), x), Drop(data, 0))
<1> DEFINE c == JhContext(f, d, x)
           e == d + 8 * Len(data)
<1>1. [c EXCEPT !.databitlen = @ + 8 * Len(data)] = JhContext(f, e, x) /\ c.buffer = x
  BY DEF JhContext
<1> QED BY <1>1, Zenon DEF JhUpdate, JhWhole

(* An update takes the next piece, whatever its length. *)
LEMMA JhStep ==
  ASSUME NEW n, NEW l, NEW q, NEW h, NEW data, IsPiece(n, l, q, h, data)
  PROVE  JhUpdate(JhAt(n), data) = JhAt(n + l)
<1> DEFINE f == First(Untagged, q)
           x == Message(64 * q + 1, n)
           e == 8 * (n + l)
<1>1. JhAt(n) = JhContext(f, 8 * n, x) /\ 8 * n + 8 * Len(data) = e /\ Len(x) = h /\ Len(data) = l
  <2>1. n \in Nat /\ l \in Nat /\ q = n \div 64 /\ Len(x) = h /\ Len(data) = l
    BY DEF IsPiece
  <2>2. JhAt(n) = JhContext(f, 8 * n, x)
    BY <2>1 DEF JhAt
  <2>3. 8 * n + 8 * l = e
    BY <2>1
  <2> QED BY <2>1, <2>2, <2>3
<1>2. JhAt(n + l) = JhContext(First(Untagged, (n + l) \div 64), e, Message(64 * ((n + l) \div 64) + 1, n + l))
  BY DEF JhAt
<1>3. n \in Nat /\ l \in Nat /\ q \in Nat /\ h \in 0..63 /\ n = 64 * q + h
  BY DEF IsPiece
<1> HIDE DEF f, x, e
<1>4. CASE h > 0 /\ h + l < 64
  <2>1. JhUpdate(JhAt(n), data) = JhContext(f, e, x \o data)
    BY <1>1, <1>4, JhKeeps
  <2>2. (n + l) \div 64 = q
    BY <1>4, PieceFits
  <2>3. x \o data = Message(64 * q + 1, n + l)
    BY DEF x, IsPiece
  <2> QED BY <1>2, <2>1, <2>2, <2>3 DEF f
<1>5. CASE h > 0 /\ h + l >= 64
  <2>1. JhUpdate(JhAt(n), data)
           = JhWhole(JhContext(Append(f, Frame(NoTag, x \o Take(data, 64 - h))), e, x), Drop(data, 64 - h))
    <3>1. ~ (h + l < 64)
      BY <1>3, <1>5
    <3> QED BY <1>1, <1>5, <3>1, JhFills
  <2>2. /\ x \o Take(data, 64 - h) = Message(64 * q + 1, 64 * (q + 1))
        /\ Drop(data, 64 - h) = Message(64 * (q + 1) + 1, n + l)
        /\ q + 1 \in Nat /\ n + l \in Nat /\ 64 * (q + 1) <= n + l
    BY <1>5, PieceFills DEF x
  <2>3. Append(f, Frame(NoTag, x \o Take(data, 64 - h))) = First(Untagged, q + 1)
    <3>1. Frame(NoTag, x \o Take(data, 64 - h)) = Untagged[q + 1]
      BY <1>3, <2>2, UntaggedIs
    <3> QED BY <1>3, <3>1, FirstGrows DEF f
  <2>4. JhUpdate(JhAt(n), data)
          = JhWhole(JhContext(First(Untagged, q + 1), e, x), Message(64 * (q + 1) + 1, n + l))
    BY <2>1, <2>2, <2>3
  <2> QED BY <1>2, <2>2, <2>4, JhBulk
<1>6. CASE h = 0
  <2>1. ~ (h > 0)
    BY <1>6
  <2>2. JhUpdate(JhAt(n), data) = JhWhole(JhContext(f, e, x), Drop(data, 0))
    BY <1>1, <2>1, JhStarts
  <2>3. Drop(data, 0) = Message(64 * q + 1, n + l) /\ q \in Nat /\ n + l \in Nat /\ 64 * q <= n + l
    BY <1>3, <1>6 DEF IsPiece
  <2>4. JhUpdate(JhAt(n), data) = JhWhole(JhContext(First(Untagged, q), e, x), Message(64 * q + 1, n + l))
    BY <2>2, <2>3 DEF f
  <2> QED BY <1>2, <2>3, <2>4, JhBulk
<1>7. h = 0 \/ (h > 0 /\ (h + l < 64 \/ h + l >= 64))
  BY <1>3
<1> QED BY <1>4, <1>5, <1>6, <1>7

(* The last block of JH, the length, and what else is in front of it.      *)
JhLast(w, first) == [j \in 1..64 |-> IF j > 56 THEN Octet(w, j - 56) ELSE IF j = 1 THEN first ELSE Const(0)]

(* What JH makes of a message, block by block. *)
JhIs(t, n, q, h) ==
  /\ IsSequence(t, IF h = 0 THEN q + 1 ELSE q + 2)
  /\ \A i \in 1..q : t[i] = Untagged[i]
  /\ h = 0 => t[q + 1] = Frame(NoTag, JhLast(8 * n, Const(128)))
  /\ h > 0 => /\ t[q + 1] = Frame(NoTag, Padded(Message(64 * q + 1, n), h, Const(128), 63 - h))
              /\ t[q + 2] = Frame(NoTag, JhLast(8 * n, Const(0)))

(* The definition, block by block. *)
LEMMA JhFramesAre ==
  ASSUME NEW n \in Nat, NEW q \in Nat, NEW h \in 0..63, n = 64 * q + h
  PROVE  JhIs(JhFrames(n), n, q, h)
<1> DEFINE total == n + 1 + (47 + ((-n) % 64)) + 16
           N == IF h = 0 THEN q + 1 ELSE q + 2
           Cell(k) == CASE k <= n -> Byte(k)
                        [] k = n + 1 -> Const(128)
                        [] k > total - 8 -> Octet(8 * n, k - (total - 8))
                        [] OTHER -> Const(0)
           block(i) == [j \in 1..64 |-> Cell(64 * (i - 1) + j)]
           t == JhFrames(n)
<1>1. total = 64 * N /\ N \in Nat /\ total \div 64 = N
  <2>1. CASE h = 0
    <3>1. (-n) % 64 = 0
      BY <2>1
    <3> QED BY <2>1, <3>1
  <2>2. CASE h > 0
    <3>1. (-n) % 64 = 64 - h
      BY <2>2
    <3> QED BY <2>2, <3>1
  <2> QED BY <2>1, <2>2
<1>2. t = [i \in 1..(total \div 64) |-> Frame(NoTag, block(i))]
  BY DEF JhFrames
<1> HIDE DEF total, t
<1>3. IsSequence(t, N) /\ \A i \in 1..N : t[i] = Frame(NoTag, block(i))
  BY <1>1, <1>2 DEF IsSequence
<1>4. ASSUME NEW i \in 1..q PROVE t[i] = Untagged[i]
  <2> DEFINE p == 64 * (i - 1)
  <2>1. p \in Nat /\ p + 64 <= n
    OBVIOUS
  <2> HIDE DEF p
  <2>3. ASSUME NEW j \in 1..64 PROVE Cell(p + j) = Byte(p + j)
    <3>1. p + j <= n /\ ~ (p + j = n + 1) /\ ~ (p + j > total - 8)
      BY <2>1 DEF total
    <3> QED BY <3>1
  <2>4. block(i) = [j \in 1..64 |-> Byte(p + j)]
    BY <2>3 DEF p
  <2>5. Message(64 * (i - 1) + 1, 64 * i) = [j \in 1..64 |-> Byte(p + j)]
    <3>1. i \in Nat \ {0} /\ 64 \in Nat \ {0}
      OBVIOUS
    <3> QED BY <3>1, BlockIs DEF p
  <2>6. Untagged[i] = Frame(NoTag, block(i))
    BY <2>4, <2>5 DEF Untagged
  <2>7. i \in 1..N
    OBVIOUS
  <2> QED BY <1>3, <2>6, <2>7
<1>5. ASSUME h = 0 PROVE t[q + 1] = Frame(NoTag, JhLast(8 * n, Const(128)))
  <2>1. ASSUME NEW j \in 1..64
        PROVE  Cell(n + j) = IF j > 56 THEN Octet(8 * n, j - 56) ELSE IF j = 1 THEN Const(128) ELSE Const(0)
    <3>1. total = n + 64
      BY <1>1, <1>5
    <3>2. /\ ~ (n + j <= n)
          /\ n + j = n + 1 <=> j = 1
          /\ n + j > total - 8 <=> j > 56
          /\ (n + j) - (total - 8) = j - 56
      BY <3>1
    <3> QED BY <3>2
  <2>2. 64 * ((q + 1) - 1) = n /\ q + 1 \in 1..N
    BY <1>5
  <2>3. block(q + 1) = JhLast(8 * n, Const(128))
    BY <2>1, <2>2 DEF JhLast
  <2> QED BY <1>3, <2>2, <2>3
<1>6. ASSUME h > 0 PROVE t[q + 1] = Frame(NoTag, Padded(Message(64 * q + 1, n), h, Const(128), 63 - h))
  <2> DEFINE s == Message(64 * q + 1, n)
             p == 64 * q
  <2>1. \A j \in 1..h : s[j] = Byte(p + j)
    <3>1. 64 * q + 1 \in Nat \ {0} /\ 64 * q + 1 <= n + 1 /\ n - (64 * q + 1) + 1 = h
      OBVIOUS
    <3>2. \A j \in 1..h : s[j] = Byte((64 * q + 1) + j - 1)
      BY <3>1, MessageIs
    <3>3. \A j \in 1..h : (64 * q + 1) + j - 1 = p + j
      OBVIOUS
    <3> QED BY <3>2, <3>3
  <2> HIDE DEF s
  <2>2. ASSUME NEW j \in 1..64
        PROVE  Cell(p + j) = IF j <= h THEN s[j] ELSE IF j = h + 1 THEN Const(128) ELSE Const(0)
    <3>1. total = p + 128
      BY <1>1, <1>6
    <3>2. /\ p + j <= n <=> j <= h
          /\ p + j = n + 1 <=> j = h + 1
          /\ ~ (p + j > total - 8)
      BY <3>1
    <3> QED BY <2>1, <3>2
  <2>3. 64 * ((q + 1) - 1) = p /\ q + 1 \in 1..N /\ h + 1 + (63 - h) = 64
    BY <1>6
  <2>4. block(q + 1) = Padded(s, h, Const(128), 63 - h)
    BY <2>2, <2>3 DEF Padded
  <2> HIDE DEF block
  <2> QED BY <1>3, <2>3, <2>4 DEF s
<1>7. ASSUME h > 0 PROVE t[q + 2] = Frame(NoTag, JhLast(8 * n, Const(0)))
  <2> DEFINE p == 64 * q + 64
  <2>1. ASSUME NEW j \in 1..64
        PROVE  Cell(p + j) = IF j > 56 THEN Octet(8 * n, j - 56) ELSE IF j = 1 THEN Const(0) ELSE Const(0)
    <3>1. total = p + 64
      BY <1>1, <1>7
    <3>2. /\ ~ (p + j <= n)
          /\ ~ (p + j = n + 1)
          /\ p + j > total - 8 <=> j > 56
          /\ (p + j) - (total - 8) = j - 56
      BY <3>1
    <3> QED BY <3>2
  <2>2. 64 * ((q + 2) - 1) = p /\ q + 2 \in 1..N
    BY <1>7
  <2>3. block(q + 2) = JhLast(8 * n, Const(0))
    BY <2>1, <2>2 DEF JhLast
  <2> QED BY <1>3, <2>2, <2>3, SMTT(20)
<1> HIDE DEF Cell, block
<1> QED BY <1>3, <1>4, <1>5, <1>6, <1>7 DEF JhIs, t

(* The final blocks are those of the definition. *)
LEMMA JhEnd ==
  ASSUME NEW n \in Nat
  PROVE  JhFinal(JhAt(n)).frames = JhFrames(n)
<1> DEFINE q == n \div 64
           h == n - 64 * q
           f == First(Untagged, q)
           x == Message(64 * q + 1, n)
           c == JhAt(n)
           length == BigEndian(8 * n, 8)
           partial == [i \in 1..h |-> IF i <= Len(c.buffer) THEN c.buffer[i] ELSE Junk] \o <<Const(128)>> \o Zeros(63 - h)
<1>1. /\ q \in Nat /\ h \in 0..63 /\ n = 64 * q + h
      /\ ((8 * n) % 512) \div 8 = h
  OBVIOUS
<1>2. IsSequence(x, h) /\ Len(x) = h
  <2>1. IsPiece(n, 0, q, h, Message(n + 1, n + 0))
    BY PieceIs
  <2> QED BY <2>1 DEF IsPiece
<1>3. c = JhContext(f, 8 * n, x) /\ c.databitlen = 8 * n /\ c.buffer = x
  BY DEF JhAt, JhContext
<1>4. JhFinal(c) = IF h = 0 THEN F8(c, <<Const(128)>> \o Zeros(55) \o length)
                   ELSE F8(F8(c, partial), Zeros(56) \o length)
  <2>1. (c.databitlen % 512) \div 8 = h
    BY <1>1, <1>3
  <2> HIDE DEF c, q, h
  <2> QED BY <2>1, <1>3, SMTT(20) DEF JhFinal
<1> HIDE DEF q, h, c, x, f
<1>5. JhIs(JhFrames(n), n, q, h)
  BY <1>1, JhFramesAre
<1>6. partial = Padded(x, h, Const(128), 63 - h)
  <2>1. [i \in 1..h |-> IF i <= Len(c.buffer) THEN c.buffer[i] ELSE Junk] = x
    <3>1. \A i \in 1..h : i <= Len(x)
      BY <1>1, <1>2
    <3>2. [i \in 1..h |-> IF i <= Len(x) THEN x[i] ELSE Junk] = x
      BY <1>2, <3>1 DEF IsSequence
    <3> QED BY <1>3, <3>2
  <2>2. h \in Nat
    BY <1>1
  <2>3. x \o <<Const(128)>> \o Zeros(63 - h) = Padded(x, h, Const(128), 63 - h)
    <3> DEFINE e == Const(128)
               z == 63 - h
    <3>1. z \in Nat
      BY <1>1
    <3> HIDE DEF e, z
    <3>2. x \o <<e>> \o Zeros(z) = Padded(x, h, e, z)
      BY <1>2, <2>2, <3>1, PadIs, ZenonT(30)
    <3> QED BY <3>2 DEF e, z
  <2> QED BY <2>1, <2>3
<1> HIDE DEF partial, length
<1>7. ASSUME NEW e, NEW s, IsSequence(s, 56), s[1] = e, \A i \in 2..56 : s[i] = Const(0)
      PROVE  s \o length = JhLast(8 * n, e)
  <2>1. IsSequence(length, 8) /\ \A i \in 1..8 : length[i] = Octet(8 * n, i)
    BY FillIs DEF length
  <2>2. Joined(s \o length, s, 56, length, 8)
    BY <1>7, <2>1, ConcatIs
  <2> DEFINE u == s \o length
  <2>3. ASSUME NEW i \in 1..64
        PROVE  u[i] = IF i > 56 THEN Octet(8 * n, i - 56) ELSE IF i = 1 THEN e ELSE Const(0)
    <3>1. i \in 1..(56 + 8)
      OBVIOUS
    <3>2. u[i] = IF i <= 56 THEN s[i] ELSE length[i - 56]
      BY <2>2, <3>1 DEF Joined
    <3> HIDE DEF u
    <3>3. i = 1 \/ i \in 2..56 \/ (i > 56 /\ i - 56 \in 1..8)
      OBVIOUS
    <3> QED BY <1>7, <2>1, <3>2, <3>3
  <2>4. IsSequence(u, 64)
    BY <2>2 DEF Joined
  <2> HIDE DEF u
  <2>5. u = JhLast(8 * n, e)
    BY <2>3, <2>4 DEF IsSequence, JhLast
  <2> QED BY <2>5 DEF u
<1>8. CASE h = 0
  <2> DEFINE s == <<Const(128)>> \o Zeros(55)
             last == JhLast(8 * n, Const(128))
  <2>1. IsSequence(s, 56) /\ s[1] = Const(128) /\ \A i \in 2..56 : s[i] = Const(0)
    <3> DEFINE o == <<Const(128)>>
               z == Zeros(55)
    <3>1. IsSequence(o, 1) /\ o[1] = Const(128)
      BY OneIs
    <3>2. IsSequence(z, 55) /\ \A i \in 1..55 : z[i] = Const(0)
      BY FillIs
    <3> HIDE DEF o, z
    <3>3. Joined(o \o z, o, 1, z, 55)
      BY <3>1, <3>2, ConcatIs
    <3>4. 1 + 55 = 56 /\ 1 \in 1..56 /\ \A i \in 2..56 : i \in 1..56 /\ i - 1 \in 1..55 /\ ~ (i <= 1)
      OBVIOUS
    <3>5. IsSequence(o \o z, 56) /\ \A i \in 1..56 : (o \o z)[i] = IF i <= 1 THEN o[i] ELSE z[i - 1]
      BY <3>3, <3>4 DEF Joined
    <3> DEFINE u == o \o z
    <3> HIDE DEF u
    <3>6. \A i \in 2..56 : u[i] = Const(0)
      <4> TAKE i \in 2..56
      <4>1. i \in 1..56 /\ i - 1 \in 1..55 /\ ~ (i <= 1)
        BY <3>4
      <4>2. u[i] = z[i - 1]
        BY <3>5, <4>1 DEF u
      <4> QED BY <3>2, <4>1, <4>2
    <3>7. u[1] = Const(128)
      <4>1. ASSUME NEW i \in 1..56, i <= 1 PROVE u[i] = o[i]
        BY <3>5, <4>1 DEF u
      <4>2. 1 \in 1..56 /\ 1 <= 1
        OBVIOUS
      <4>3. u[1] = o[1]
        BY <4>1, <4>2
      <4> QED BY <3>1, <4>3
    <3>8. IsSequence(o \o z, 56) /\ (o \o z)[1] = Const(128) /\ \A i \in 2..56 : (o \o z)[i] = Const(0)
      BY <3>5, <3>6, <3>7 DEF u
    <3> QED BY <3>8 DEF o, z
  <2> HIDE DEF s
  <2>2. s \o length = last
    BY <1>7, <2>1
  <2>3. JhFinal(c) = JhContext(Append(f, Frame(NoTag, last)), 8 * n, x)
    <3>1. JhFinal(c) = F8(c, s \o length)
      BY <1>4, <1>8 DEF s
    <3> HIDE DEF last
    <3> QED BY <1>3, <2>2, <3>1, F8Is
  <2>4. Append(f, Frame(NoTag, last)) = JhFrames(n)
    <3>1. /\ IsSequence(JhFrames(n), q + 1) /\ \A i \in 1..q : JhFrames(n)[i] = Untagged[i]
          /\ JhFrames(n)[q + 1] = Frame(NoTag, last)
      BY <1>5, <1>8 DEF JhIs
    <3> DEFINE d == Frame(NoTag, last)
               t == JhFrames(n)
    <3> HIDE DEF d, t
    <3>2. EndsInOne(t, Untagged, q, d)
      BY <3>1 DEF EndsInOne, d, t
    <3> QED BY <1>1, <3>2, EndsWithOne DEF f, d, t
  <2> QED BY <2>3, <2>4 DEF JhContext, c
<1>9. CASE h > 0
  <2> DEFINE last == JhLast(8 * n, Const(0))
             before == Padded(x, h, Const(128), 63 - h)
  <2>1. Zeros(56) \o length = last
    <3>1. IsSequence(Zeros(56), 56) /\ \A i \in 1..56 : Zeros(56)[i] = Const(0)
      BY FillIs
    <3>2. 1 \in 1..56 /\ \A i \in 2..56 : i \in 1..56
      OBVIOUS
    <3> DEFINE z == Zeros(56)
    <3>3. IsSequence(z, 56) /\ z[1] = Const(0) /\ \A i \in 2..56 : z[i] = Const(0)
      BY <3>1, <3>2
    <3> HIDE DEF z
    <3>4. z \o length = JhLast(8 * n, Const(0))
      BY <1>7, <3>3
    <3> QED BY <3>4 DEF z
  <2> HIDE DEF last, before
  <2>2. JhFinal(c) = F8(F8(c, before), last)
    <3>1. ~ (h = 0)
      BY <1>1, <1>9
    <3> QED BY <1>4, <1>6, <2>1, <3>1 DEF before
  <2>3. JhFinal(c) = JhContext(Append(Append(f, Frame(NoTag, before)), Frame(NoTag, last)), 8 * n, x)
    BY <1>3, <2>2, F8Is
  <2>4. Append(Append(f, Frame(NoTag, before)), Frame(NoTag, last)) = JhFrames(n)
    <3>1. /\ IsSequence(JhFrames(n), q + 2) /\ \A i \in 1..q : JhFrames(n)[i] = Untagged[i]
          /\ JhFrames(n)[q + 1] = Frame(NoTag, before) /\ JhFrames(n)[q + 2] = Frame(NoTag, last)
      <4>1. ~ (h = 0)
        BY <1>1, <1>9
      <4> QED BY <1>5, <1>9, <4>1 DEF JhIs, x, before, last
    <3> DEFINE d == Frame(NoTag, before)
               e == Frame(NoTag, last)
               t == JhFrames(n)
    <3> HIDE DEF d, e, t
    <3>2. EndsInTwo(t, Untagged, q, d, e)
      BY <3>1 DEF EndsInTwo, d, e, t
    <3> QED BY <1>1, <3>2, EndsWithTwo DEF f, d, e, t
  <2> QED BY <2>3, <2>4 DEF JhContext, c
<1> QED BY <1>1, <1>8, <1>9
-----------------------------------------------------------------------------
(* Groestl. *)

(* A context after k blocks: the frames, the counter and the buffer. *)
GroestlContext(f, k, x) ==
  [frames |-> f, counter1 |-> k % GroestlWord, counter2 |-> k \div GroestlWord, buffer |-> x]

(* The contexts with frames of S. *)
GroestlContexts(S, x) == [frames : Seq(S), counter1 : Int, counter2 : Int, buffer : {x}]

(* The context after n bytes, in whatever pieces. *)
GroestlAt(n) == GroestlContext(First(Untagged, n \div 64), n \div 64, Message(64 * (n \div 64) + 1, n))

(* The counter counts on, over both words. *)
LEMMA CountIs ==
  ASSUME NEW f, NEW k \in Nat, NEW x
  PROVE  Count(GroestlContext(f, k, x)) = GroestlContext(f, k + 1, x)
<1> DEFINE W == GroestlWord
<1>1. W \in Nat \ {0}
  BY GroestlWordAssumption
<1>2. /\ ((k % W) + 1) % W = (k + 1) % W
      /\ (k + 1) \div W = IF (k + 1) % W = 0 THEN (k \div W) + 1 ELSE k \div W
  BY <1>1, Carry
<1> DEFINE Context4(u, v) == [frames |-> f, counter1 |-> u, counter2 |-> v, buffer |-> x]
<1>3. ASSUME NEW u, NEW v
      PROVE  Count(Context4(u, v)) = Context4((u + 1) % W, IF (u + 1) % W = 0 THEN v + 1 ELSE v)
  <2> DEFINE low == (u + 1) % W
             c == Context4(u, v)
  <2>1. c.counter1 = u /\ c.counter2 = v
    OBVIOUS
  <2>2. Count(c) = [c EXCEPT !.counter1 = low, !.counter2 = IF low = 0 THEN v + 1 ELSE v]
    <3> HIDE DEF c
    <3> QED BY <2>1, Zenon DEF Count
  <2> HIDE DEF low
  <2>3. ASSUME NEW w PROVE [c EXCEPT !.counter1 = low, !.counter2 = w] = Context4(low, w)
    <3>1. [c EXCEPT !.counter1 = low] = Context4(low, v)
      OBVIOUS
    <3>2. [c EXCEPT !.counter1 = low, !.counter2 = w] = [[c EXCEPT !.counter1 = low] EXCEPT !.counter2 = w]
      <4> HIDE DEF c
      <4> QED OBVIOUS
    <3>3. [Context4(low, v) EXCEPT !.counter2 = w] = Context4(low, w)
      OBVIOUS
    <3> HIDE DEF c, Context4
    <3> QED BY <3>1, <3>2, <3>3
  <2> QED BY <2>2, <2>3 DEF low
<1>4. Count(GroestlContext(f, k, x))
        = Context4(((k % W) + 1) % W, IF ((k % W) + 1) % W = 0 THEN (k \div W) + 1 ELSE k \div W)
  BY <1>3 DEF GroestlContext
<1>5. GroestlContext(f, k + 1, x) = Context4((k + 1) % W, (k + 1) \div W)
  BY DEF GroestlContext
<1> HIDE DEF Context4, W
<1> QED BY <1>2, <1>4, <1>5

(* A block is a frame and a count more. *)
LEMMA DigestIs ==
  ASSUME NEW f, NEW k \in Nat, NEW x, NEW block
  PROVE  Digest(GroestlContext(f, k, x), block) = GroestlContext(Append(f, Frame(NoTag, block)), k + 1, x)
<1>1. Count(GroestlContext(f, k, x)) = GroestlContext(f, k + 1, x)
  BY CountIs
<1> DEFINE Context4(g, u, v) == [frames |-> g, counter1 |-> u, counter2 |-> v, buffer |-> x]
<1>2. ASSUME NEW u, NEW v
      PROVE  [Context4(f, u, v) EXCEPT !.frames = Append(@, Frame(NoTag, block))]
               = Context4(Append(f, Frame(NoTag, block)), u, v)
  OBVIOUS
<1>3. ASSUME NEW g
      PROVE  GroestlContext(g, k + 1, x) = Context4(g, (k + 1) % GroestlWord, (k + 1) \div GroestlWord)
  BY DEF GroestlContext
<1>4. Digest(GroestlContext(f, k, x), block)
        = [GroestlContext(f, k + 1, x) EXCEPT !.frames = Append(@, Frame(NoTag, block))]
  BY <1>1 DEF Digest
<1> HIDE DEF Context4
<1> QED BY <1>2, <1>3, <1>4

(* A block keeps a context a context. *)
LEMMA DigestType ==
  ASSUME NEW S, NEW x, NEW c \in GroestlContexts(S, x), NEW block, Frame(NoTag, block) \in S
  PROVE  Digest(c, block) \in GroestlContexts(S, x)
<1>1. Append(c.frames, Frame(NoTag, block)) \in Seq(S)
  BY AppendProperties DEF GroestlContexts
<1>2. (c.counter1 + 1) % GroestlWord \in Int /\ c.counter2 \in Int /\ c.counter2 + 1 \in Int
  BY GroestlWordAssumption DEF GroestlContexts
<1> QED BY <1>1, <1>2 DEF Digest, Count, GroestlContexts

(* The type of the contexts that occur. *)
LEMMA GroestlContextType ==
  ASSUME NEW S, NEW x, NEW f \in Seq(S), NEW k \in Nat
  PROVE  GroestlContext(f, k, x) \in GroestlContexts(S, x)
<1>1. k % GroestlWord \in Int /\ k \div GroestlWord \in Int
  BY GroestlWordAssumption
<1> QED BY <1>1 DEF GroestlContext, GroestlContexts

(* The whole blocks of a piece. *)
LEMMA GroestlBulk ==
  ASSUME NEW q \in Nat, NEW b \in Nat, 64 * q <= b, NEW x
  PROVE  /\ Transform(GroestlContext(First(Untagged, q), q, x), Message(64 * q + 1, b))
              = GroestlContext(First(Untagged, b \div 64), b \div 64, x)
         /\ Rest(Message(64 * q + 1, b), 64) = Message(64 * (b \div 64) + 1, b)
<1> DEFINE m == b \div 64 - q
           s == Blocks(Message(64 * q + 1, b), 64)
           After(k) == GroestlContext(First(Untagged, q + k), q + k, x)
           a == [k \in 0..m |-> After(k)]
           S == {Untagged[i] : i \in Nat}
           T == GroestlContexts(S, x)
<1>1. /\ m \in Nat /\ IsSequence(s, m)
      /\ \A k \in 1..m : s[k] = Message(64 * (q + k - 1) + 1, 64 * (q + k))
      /\ Rest(Message(64 * q + 1, b), 64) = Message(64 * (b \div 64) + 1, b)
  BY MessageBlocks64, SMTT(20)
<1>2. q + m = b \div 64
  OBVIOUS
<1> HIDE DEF m, s
<1>3. ASSUME NEW k \in 1..m
      PROVE  Frame(NoTag, s[k]) = Untagged[q + k] /\ q + k \in Nat
  BY <1>1 DEF Untagged
<1>5. a \in [0..m -> T]
  <2>1. ASSUME NEW k \in 0..m PROVE After(k) \in T
    <3>1. q + k \in Nat
      BY <1>1
    <3>2. First(Untagged, q + k) \in Seq(S)
      BY <3>1, FirstGrows
    <3> HIDE DEF S
    <3> QED BY <3>1, <3>2, GroestlContextType
  <2> HIDE DEF T
  <2> QED BY <2>1
<1>6. ASSUME NEW y \in T, NEW k \in 1..m PROVE Digest(y, s[k]) \in T
  <2>1. Frame(NoTag, s[k]) \in S
    BY <1>3
  <2> HIDE DEF S
  <2> QED BY <2>1, DigestType
<1>7. ASSUME NEW k \in 1..m PROVE a[k] = Digest(a[k - 1], s[k])
  <2>1. q + (k - 1) \in Nat /\ (q + (k - 1)) + 1 = q + k
    BY <1>1
  <2>2. Append(First(Untagged, q + (k - 1)), Frame(NoTag, s[k])) = First(Untagged, q + k)
    BY <1>3, <2>1, FirstGrows
  <2>3. a[k] = After(k) /\ a[k - 1] = After(k - 1)
    BY <1>1
  <2>4. Digest(After(k - 1), s[k])
          = GroestlContext(Append(First(Untagged, q + (k - 1)), Frame(NoTag, s[k])), (q + (k - 1)) + 1, x)
    BY <2>1, DigestIs
  <2> HIDE DEF a
  <2> QED BY <2>1, <2>2, <2>3, <2>4
<1> HIDE DEF T, a
<1>8. FoldLeft(Digest, a[0], s) = a[m]
  BY <1>1, <1>5, <1>6, <1>7, FoldDigest
<1>9. a[0] = After(0) /\ a[m] = After(m) /\ q + 0 = q
  BY <1>1 DEF a
<1>10. FoldLeft(Digest, GroestlContext(First(Untagged, q), q, x), s)
         = GroestlContext(First(Untagged, b \div 64), b \div 64, x)
  BY <1>2, <1>8, <1>9
<1> QED BY <1>1, <1>10 DEF s, Transform

(* A block that is not one of the message. *)
LEMMA TransformOne ==
  ASSUME NEW j \in Nat, NEW f, IsSequence(f, j), NEW k \in Nat, NEW x, NEW s, IsSequence(s, 64)
  PROVE  Transform(GroestlContext(f, k, x), s) = GroestlContext(Append(f, Frame(NoTag, s)), k + 1, x)
<1> DEFINE S == {f[i] : i \in 1..j} \cup {Frame(NoTag, s)}
           T == GroestlContexts(S, x)
           c == GroestlContext(f, k, x)
           d == GroestlContext(Append(f, Frame(NoTag, s)), k + 1, x)
           blocks == Blocks(s, 64)
           a == [i \in 0..1 |-> IF i = 0 THEN c ELSE d]
<1>1. IsSequence(blocks, 1) /\ blocks[1] = s
  BY OneBlock
<1> HIDE DEF blocks
<1>2. Frame(NoTag, s) \in S /\ f \in Seq(S)
  <2>1. f \in [1..j -> S]
    BY DEF IsSequence
  <2> HIDE DEF S
  <2>2. f \in Seq(S)
    BY <2>1, SeqDef
  <2> QED BY <2>2 DEF S
<1> HIDE DEF S
<1>3. c \in T /\ d \in T
  <2>1. Append(f, Frame(NoTag, s)) \in Seq(S) /\ k + 1 \in Nat
    BY <1>2, AppendProperties
  <2> QED BY <1>2, <2>1, GroestlContextType
<1>4. d = Digest(c, s)
  BY DigestIs
<1>5. ASSUME NEW y \in T, NEW i \in 1..1 PROVE Digest(y, blocks[i]) \in T
  <2>1. blocks[i] = s
    BY <1>1
  <2> QED BY <1>2, <2>1, DigestType
<1> HIDE DEF c, d, T
<1>6. a \in [0..1 -> T] /\ a[0] = c /\ a[1] = d /\ 1 \in Nat
  BY <1>3
<1> HIDE DEF a
<1>7. ASSUME NEW i \in 1..1 PROVE a[i] = Digest(a[i - 1], blocks[i])
  <2>1. i = 1 /\ i - 1 = 0
    OBVIOUS
  <2> QED BY <1>1, <1>4, <1>6, <2>1
<1>8. FoldLeft(Digest, a[0], blocks) = a[1]
  BY <1>1, <1>5, <1>6, <1>7, FoldDigest
<1> QED BY <1>6, <1>8 DEF Transform, blocks, c, d

(* An update takes the next piece, whatever its length. *)
LEMMA GroestlStep ==
  ASSUME NEW n, NEW l, NEW q, NEW h, NEW data, IsPiece(n, l, q, h, data)
  PROVE  GroestlUpdate(GroestlAt(n), data) = GroestlAt(n + l)
<1> DEFINE f == First(Untagged, q)
           x == Message(64 * q + 1, n)
           c == GroestlContext(f, q, x)
           r == (n + l) \div 64
           fill == IF x = <<>> THEN <<>> ELSE Take(data, 64 - Len(x))
           full == x \o fill
           bulk == Drop(data, Len(fill))
           rest == Message(64 * r + 1, n + l)
<1>1. n \in Nat /\ l \in Nat /\ q \in Nat /\ h \in 0..63 /\ n = 64 * q + h /\ q = n \div 64
  BY DEF IsPiece
<1>2. /\ data = Message(n + 1, n + l) /\ Len(data) = l /\ Drop(data, 0) = data
      /\ IsSequence(x, h) /\ Len(x) = h /\ x \o data = Message(64 * q + 1, n + l)
  BY DEF IsPiece
<1>3. GroestlAt(n) = c /\ GroestlAt(n + l) = GroestlContext(First(Untagged, r), r, rest)
  BY <1>1 DEF GroestlAt
<1>4. c.buffer = x /\ \A g, k, z : /\ [c EXCEPT !.buffer = z] = GroestlContext(f, q, z)
                                   /\ [GroestlContext(g, k, x) EXCEPT !.buffer = z] = GroestlContext(g, k, z)
  BY DEF GroestlContext
<1>5. GroestlUpdate(c, data) =
        IF full # <<>> /\ Len(full) < 64 THEN [c EXCEPT !.buffer = full]
        ELSE [Transform(Transform(c, full), bulk) EXCEPT !.buffer = Rest(bulk, 64)]
  <2> HIDE DEF c, x
  <2> QED BY <1>4, Zenon DEF GroestlUpdate
<1>6. ASSUME NEW k \in Nat, 64 * k <= n + l, Transform(c, full) = GroestlContext(First(Untagged, k), k, x),
             bulk = Message(64 * k + 1, n + l), ~ (full # <<>> /\ Len(full) < 64)
      PROVE  GroestlUpdate(c, data) = GroestlAt(n + l)
  <2>1. GroestlUpdate(c, data) = [Transform(Transform(c, full), bulk) EXCEPT !.buffer = Rest(bulk, 64)]
    BY <1>5, <1>6
  <2>2. /\ Transform(GroestlContext(First(Untagged, k), k, x), Message(64 * k + 1, n + l))
             = GroestlContext(First(Untagged, r), r, x)
        /\ Rest(Message(64 * k + 1, n + l), 64) = rest
    <3>1. n + l \in Nat
      BY <1>1
    <3> HIDE DEF x
    <3> QED BY <1>6, <3>1, GroestlBulk
  <2> HIDE DEF c, x, full, bulk, rest, r
  <2> QED BY <1>3, <1>4, <1>6, <2>1, <2>2
<1>7. CASE h = 0
  <2>1. x = <<>> /\ fill = <<>> /\ full = <<>>
    <3>1. x = <<>>
      BY <1>2, <1>7, EmptyIs
    <3> QED BY <3>1, EmptyIs
  <2>2. bulk = data /\ n = 64 * q /\ 64 * q \in Nat
    <3>1. Len(<<>>) = 0
      OBVIOUS
    <3>2. bulk = data
      BY <1>2, <2>1, <3>1
    <3> QED BY <1>1, <1>7, <3>2
  <2>3. Transform(c, full) = c
    <3>1. Message(64 * q + 1, 64 * q) = <<>> /\ (64 * q) \div 64 = q
      <4>1. IsSequence(Message(64 * q + 1, 64 * q), 0)
        BY <1>2, <1>7, <2>2
      <4> QED BY <1>1, <4>1, EmptyIs
    <3>2. Transform(GroestlContext(First(Untagged, q), q, x), Message(64 * q + 1, 64 * q))
            = GroestlContext(First(Untagged, (64 * q) \div 64), (64 * q) \div 64, x)
      <4> HIDE DEF x
      <4> QED BY <1>1, <2>2, GroestlBulk
    <3> QED BY <2>1, <3>1, <3>2
  <2>4. bulk = Message(64 * q + 1, n + l) /\ 64 * q <= n + l
    <3>1. data = Message(64 * q + 1, n + l)
      BY <1>2, <2>2
    <3>2. 64 * q <= n + l
      BY <1>1, <2>2
    <3> HIDE DEF bulk
    <3> QED BY <2>2, <3>1, <3>2
  <2> HIDE DEF full, bulk, x
  <2> QED BY <1>1, <1>3, <1>6, <2>1, <2>3, <2>4
<1>8. CASE h > 0 /\ h + l < 64
  <2>1. x # <<>>
    <3>1. Len(<<>>) = 0
      OBVIOUS
    <3> QED BY <1>2, <1>8, <3>1
  <2>2. fill = data
    <3>1. Take(data, 64 - h) = SubSeq(data, 1, IF 64 - h < l THEN 64 - h ELSE l)
      BY <1>2 DEF Take
    <3>2. Take(data, l) = SubSeq(data, 1, IF l < l THEN l ELSE l)
      BY <1>2 DEF Take
    <3>3. ~ (64 - h < l) /\ ~ (l < l)
      BY <1>1, <1>8
    <3>4. Take(data, l) = data
      <4>1. n + 1 \in Nat \ {0} /\ n + l \in Nat /\ n + 1 <= (n + l) + 1 /\ n + l <= n + l /\ (n + l) - (n + 1) + 1 = l
        BY <1>1
      <4>2. Take(Message(n + 1, n + l), l) = Message(n + 1, n + l)
        BY <4>1, MessageCut
      <4> QED BY <1>2, <4>2
    <3> QED BY <1>2, <2>1, <3>1, <3>2, <3>3, <3>4
  <2>3. full = Message(64 * q + 1, n + l) /\ r = q
    BY <1>2, <1>8, <2>2, PieceFits
  <2>4. Len(full) = h + l
    <3>1. 64 * q + 1 \in Nat \ {0} /\ n + l \in Nat /\ 64 * q + 1 <= (n + l) + 1 /\ (n + l) - (64 * q + 1) + 1 = h + l
      BY <1>1
    <3>2. Len(Message(64 * q + 1, n + l)) = h + l
      BY <3>1, MessageIs
    <3> QED BY <2>3, <3>2
  <2>5. full # <<>> /\ Len(full) < 64
    <3>1. Len(<<>>) = 0 /\ h + l # 0
      BY <1>1, <1>8
    <3> QED BY <1>8, <2>4, <3>1
  <2>6. GroestlUpdate(c, data) = [c EXCEPT !.buffer = full]
    BY <1>5, <2>5
  <2>7. rest = full
    BY <2>3
  <2> HIDE DEF full, rest, c
  <2> QED BY <1>3, <1>4, <2>3, <2>6, <2>7
<1>9. CASE h > 0 /\ h + l >= 64
  <2>1. x # <<>>
    <3>1. Len(<<>>) = 0
      OBVIOUS
    <3> QED BY <1>2, <1>9, <3>1
  <2>2. /\ x \o Take(data, 64 - h) = Message(64 * q + 1, 64 * (q + 1))
        /\ Drop(data, 64 - h) = Message(64 * (q + 1) + 1, n + l)
        /\ Len(Take(data, 64 - h)) = 64 - h
        /\ q + 1 \in Nat /\ n + l \in Nat /\ 64 * (q + 1) <= n + l
    BY <1>9, PieceFills
  <2>3. full = Message(64 * q + 1, 64 * (q + 1)) /\ bulk = Message(64 * (q + 1) + 1, n + l)
    BY <1>2, <2>1, <2>2
  <2>4. Len(full) = 64
    <3>1. 64 * q + 1 \in Nat \ {0} /\ 64 * (q + 1) \in Nat /\ 64 * q + 1 <= 64 * (q + 1) + 1
          /\ 64 * (q + 1) - (64 * q + 1) + 1 = 64
      BY <1>1
    <3>2. Len(Message(64 * q + 1, 64 * (q + 1))) = 64
      BY <3>1, MessageIs
    <3> QED BY <2>3, <3>2
  <2>5. Transform(c, full) = GroestlContext(First(Untagged, q + 1), q + 1, x)
    <3>1. 64 * (q + 1) \in Nat /\ 64 * q <= 64 * (q + 1) /\ (64 * (q + 1)) \div 64 = q + 1
      BY <1>1
    <3>2. Transform(GroestlContext(First(Untagged, q), q, x), Message(64 * q + 1, 64 * (q + 1)))
            = GroestlContext(First(Untagged, (64 * (q + 1)) \div 64), (64 * (q + 1)) \div 64, x)
      <4> HIDE DEF x
      <4> QED BY <1>1, <3>1, GroestlBulk
    <3> QED BY <2>3, <3>1, <3>2
  <2>6. ~ (full # <<>> /\ Len(full) < 64)
    <3> HIDE DEF full
    <3> QED BY <2>4
  <2> HIDE DEF full, bulk, x
  <2> QED BY <1>3, <1>6, <2>2, <2>3, <2>5, <2>6
<1>10. h = 0 \/ (h > 0 /\ (h + l < 64 \/ h + l >= 64))
  BY <1>1
<1> QED BY <1>3, <1>7, <1>8, <1>9, <1>10

(* A block that ends with two words of four bytes. *)
Closing(s, hi, lo) ==
  [j \in 1..64 |-> IF j > 60 THEN Octet(lo, j - 60) ELSE IF j > 56 THEN Octet(hi, j - 56) ELSE s[j]]

(* The two ways in which the functions write that. *)
LEMMA ClosingIs ==
  ASSUME NEW s, IsSequence(s, 56), NEW hi, NEW lo
  PROVE  /\ s \o BigEndian(hi, 4) \o BigEndian(lo, 4) = Closing(s, hi, lo)
         /\ s \o (BigEndian(hi, 4) \o BigEndian(lo, 4)) = Closing(s, hi, lo)
         /\ IsSequence(Closing(s, hi, lo), 64)
         /\ IsSequence(BigEndian(hi, 4) \o BigEndian(lo, 4), 8)
<1> DEFINE a == BigEndian(hi, 4)
           b == BigEndian(lo, 4)
<1>1. /\ IsSequence(a, 4) /\ \A i \in 1..4 : a[i] = Octet(hi, i)
      /\ IsSequence(b, 4) /\ \A i \in 1..4 : b[i] = Octet(lo, i)
  BY FillIs
<1> HIDE DEF a, b
<1>2. 56 + 4 = 60 /\ 60 + 4 = 64 /\ 4 + 4 = 8 /\ 56 + 8 = 64
  OBVIOUS
<1>3. Joined(s \o a, s, 56, a, 4) /\ Joined(a \o b, a, 4, b, 4)
  BY <1>1, ConcatIs
<1>4. IsSequence(s \o a, 60) /\ IsSequence(a \o b, 8)
  BY <1>2, <1>3 DEF Joined
<1>5. Joined((s \o a) \o b, s \o a, 60, b, 4) /\ Joined(s \o (a \o b), s, 56, a \o b, 8)
  BY <1>1, <1>4, ConcatIs
<1> DEFINE u == s \o a
           v == a \o b
           x == u \o b
           y == s \o v
<1>6. Joined(u, s, 56, a, 4) /\ Joined(v, a, 4, b, 4) /\ Joined(x, u, 60, b, 4) /\ Joined(y, s, 56, v, 8)
  BY <1>3, <1>5
<1> HIDE DEF u, v, x, y
<1>7. ASSUME NEW j \in 1..64
      PROVE  /\ x[j] = IF j > 60 THEN Octet(lo, j - 60) ELSE IF j > 56 THEN Octet(hi, j - 56) ELSE s[j]
             /\ y[j] = IF j > 60 THEN Octet(lo, j - 60) ELSE IF j > 56 THEN Octet(hi, j - 56) ELSE s[j]
  <2>1. /\ x[j] = IF j <= 60 THEN u[j] ELSE b[j - 60]
        /\ y[j] = IF j <= 56 THEN s[j] ELSE v[j - 56]
    BY <1>6 DEF Joined
  <2>2. CASE j > 60
    <3>1. j - 60 \in 1..4 /\ j - 56 \in 1..8 /\ ~ (j - 56 <= 4) /\ (j - 56) - 4 = j - 60 /\ ~ (j <= 60) /\ ~ (j <= 56)
      BY <2>2
    <3>2. \A i \in 1..8 : v[i] = IF i <= 4 THEN a[i] ELSE b[i - 4]
      BY <1>6 DEF Joined
    <3>3. v[j - 56] = b[(j - 56) - 4]
      BY <3>1, <3>2
    <3> QED BY <1>1, <2>1, <2>2, <3>1, <3>3
  <2>3. CASE j > 56 /\ j <= 60
    <3>1. j - 56 \in 1..4 /\ j \in 1..60 /\ ~ (j > 60) /\ ~ (j <= 56)
      BY <2>3
    <3>2. \A i \in 1..60 : u[i] = IF i <= 56 THEN s[i] ELSE a[i - 56]
      BY <1>6 DEF Joined
    <3>3. \A i \in 1..4 : v[i] = a[i]
      BY <1>6 DEF Joined
    <3>4. u[j] = a[j - 56] /\ v[j - 56] = a[j - 56]
      BY <3>1, <3>2, <3>3
    <3> QED BY <1>1, <2>1, <2>3, <3>1, <3>4
  <2>4. CASE j <= 56
    <3>1. u[j] = s[j]
      <4>1. \A i \in 1..60 : u[i] = IF i <= 56 THEN s[i] ELSE a[i - 56]
        BY <1>6 DEF Joined
      <4> QED BY <2>4, <4>1
    <3> QED BY <2>1, <2>4, <3>1
  <2> QED BY <2>2, <2>3, <2>4
<1>8. IsSequence(x, 64) /\ IsSequence(y, 64)
  BY <1>2, <1>6 DEF Joined
<1>9. x = Closing(s, hi, lo) /\ y = Closing(s, hi, lo)
  BY <1>7, <1>8 DEF Closing, IsSequence
<1>10. IsSequence(Closing(s, hi, lo), 64)
  BY DEF Closing, IsSequence
<1> QED BY <1>4, <1>9, <1>10 DEF u, v, x, y, a, b

(* What Groestl makes of a message, block by block. *)
GroestlIs(t, n, q, h) ==
  LET N == IF h <= 55 THEN q + 1 ELSE q + 2
      x == Message(64 * q + 1, n)
      Whole(s) == Frame(NoTag, Closing(s, N \div GroestlWord, N % GroestlWord))
  IN  /\ IsSequence(t, N)
      /\ \A i \in 1..q : t[i] = Untagged[i]
      /\ h <= 55 => t[q + 1] = Whole(Padded(x, h, Const(128), 55 - h))
      /\ h > 55 => /\ t[q + 1] = Frame(NoTag, Padded(x, h, Const(128), 63 - h))
                   /\ t[q + 2] = Whole(Zeros(56))

(* The definition, block by block. *)
LEMMA GroestlFramesAre ==
  ASSUME NEW n \in Nat, NEW q \in Nat, NEW h \in 0..63, n = 64 * q + h
  PROVE  GroestlIs(GroestlFrames(n), n, q, h)
<1> DEFINE N == (n + 72) \div 64
           hi == N \div GroestlWord
           lo == N % GroestlWord
           Cell(k) == CASE k <= n -> Byte(k)
                        [] k = n + 1 -> Const(128)
                        [] k > 64 * N - 8 ->
                             IF k > 64 * N - 4 THEN Octet(lo, k - (64 * N - 4)) ELSE Octet(hi, k - (64 * N - 8))
                        [] OTHER -> Const(0)
           block(i) == [j \in 1..64 |-> Cell(64 * (i - 1) + j)]
           t == GroestlFrames(n)
           x == Message(64 * q + 1, n)
<1>1. N = (IF h <= 55 THEN q + 1 ELSE q + 2) /\ N \in Nat
  OBVIOUS
<1>2. t = [i \in 1..N |-> Frame(NoTag, block(i))]
  BY DEF GroestlFrames
<1> HIDE DEF N, t, hi, lo
<1>3. IsSequence(t, N) /\ \A i \in 1..N : t[i] = Frame(NoTag, block(i))
  BY <1>1, <1>2 DEF IsSequence
<1>4. ASSUME NEW i \in 1..q PROVE t[i] = Untagged[i]
  <2> DEFINE p == 64 * (i - 1)
  <2>1. p \in Nat /\ p + 64 <= n
    OBVIOUS
  <2> HIDE DEF p
  <2>2. ASSUME NEW j \in 1..64 PROVE Cell(p + j) = Byte(p + j)
    <3>1. p + j <= n /\ ~ (p + j = n + 1) /\ ~ (p + j > 64 * N - 4) /\ ~ (p + j > 64 * N - 8)
      BY <1>1, <2>1
    <3> QED BY <3>1
  <2>3. block(i) = [j \in 1..64 |-> Byte(p + j)]
    BY <2>2 DEF p
  <2>4. Message(64 * (i - 1) + 1, 64 * i) = [j \in 1..64 |-> Byte(p + j)]
    <3>1. i \in Nat \ {0} /\ 64 \in Nat \ {0}
      OBVIOUS
    <3> QED BY <3>1, BlockIs DEF p
  <2>5. Untagged[i] = Frame(NoTag, block(i))
    <3>1. i \in Nat
      OBVIOUS
    <3> HIDE DEF block
    <3> QED BY <2>3, <2>4, <3>1 DEF Untagged
  <2>6. i \in 1..N
    BY <1>1
  <2> QED BY <1>3, <2>5, <2>6
<1>5. IsSequence(x, h) /\ \A j \in 1..h : x[j] = Byte(64 * q + j)
  <2>1. 64 * q + 1 \in Nat \ {0} /\ 64 * q + 1 <= n + 1 /\ n - (64 * q + 1) + 1 = h
    OBVIOUS
  <2>2. IsSequence(x, h) /\ \A j \in 1..h : x[j] = Byte((64 * q + 1) + j - 1)
    BY <2>1, MessageIs
  <2>3. \A j \in 1..h : (64 * q + 1) + j - 1 = 64 * q + j
    OBVIOUS
  <2> QED BY <2>2, <2>3
<1> HIDE DEF x
<1>6. ASSUME h <= 55
      PROVE  t[q + 1] = Frame(NoTag, Closing(Padded(x, h, Const(128), 55 - h), hi, lo))
  <2> DEFINE p == 64 * q
             s == Padded(x, h, Const(128), 55 - h)
  <2>1. ASSUME NEW j \in 1..56
        PROVE  s[j] = IF j <= h THEN x[j] ELSE IF j = h + 1 THEN Const(128) ELSE Const(0)
    <3>1. h + 1 + (55 - h) = 56
      OBVIOUS
    <3> QED BY <3>1 DEF Padded
  <2> HIDE DEF s
  <2>2. ASSUME NEW j \in 1..64
        PROVE  Cell(p + j) = IF j > 60 THEN Octet(lo, j - 60) ELSE IF j > 56 THEN Octet(hi, j - 56) ELSE s[j]
    <3>1. 64 * N = p + 64
      BY <1>1, <1>6
    <3>2. /\ p + j <= n <=> j <= h
          /\ p + j = n + 1 <=> j = h + 1
          /\ p + j > 64 * N - 4 <=> j > 60
          /\ p + j > 64 * N - 8 <=> j > 56
          /\ (p + j) - (64 * N - 4) = j - 60
          /\ (p + j) - (64 * N - 8) = j - 56
      BY <3>1
    <3> HIDE DEF p
    <3>3. CASE j > 60
      <4>1. ~ (j <= h) /\ ~ (j = h + 1)
        BY <1>6, <3>3
      <4> QED BY <3>2, <3>3, <4>1
    <3>4. CASE j > 56 /\ ~ (j > 60)
      <4>1. ~ (j <= h) /\ ~ (j = h + 1)
        BY <1>6, <3>4
      <4> QED BY <3>2, <3>4, <4>1
    <3>5. CASE ~ (j > 56)
      <4>1. j \in 1..56 /\ ~ (j > 60)
        BY <3>5
      <4> QED BY <1>5, <2>1, <3>2, <3>5, <4>1 DEF p
    <3> QED BY <3>3, <3>4, <3>5
  <2>3. 64 * ((q + 1) - 1) = p /\ q + 1 \in 1..N
    BY <1>1
  <2>4. block(q + 1) = Closing(s, hi, lo)
    BY <2>2, <2>3 DEF Closing
  <2> HIDE DEF block
  <2> QED BY <1>3, <2>3, <2>4 DEF s
<1>7. ASSUME h > 55
      PROVE  t[q + 1] = Frame(NoTag, Padded(x, h, Const(128), 63 - h))
  <2> DEFINE p == 64 * q
  <2>1. ASSUME NEW j \in 1..64
        PROVE  Cell(p + j) = IF j <= h THEN x[j] ELSE IF j = h + 1 THEN Const(128) ELSE Const(0)
    <3>1. 64 * N = p + 128
      BY <1>1, <1>7
    <3>2. /\ p + j <= n <=> j <= h
          /\ p + j = n + 1 <=> j = h + 1
          /\ ~ (p + j > 64 * N - 4)
          /\ ~ (p + j > 64 * N - 8)
          /\ j \in 1..h <=> j <= h
      BY <3>1
    <3>3. CASE j <= h
      <4>1. Cell(p + j) = Byte(p + j)
        <5> HIDE DEF p
        <5> QED BY <3>2, <3>3
      <4> QED BY <1>5, <3>2, <3>3, <4>1
    <3>4. CASE ~ (j <= h)
      <4> HIDE DEF p
      <4> QED BY <3>2, <3>4
    <3> QED BY <3>3, <3>4
  <2>2. 64 * ((q + 1) - 1) = p /\ q + 1 \in 1..N /\ h + 1 + (63 - h) = 64
    BY <1>1, <1>7
  <2>3. block(q + 1) = Padded(x, h, Const(128), 63 - h)
    BY <2>1, <2>2, SMTT(20) DEF Padded
  <2> HIDE DEF block
  <2> QED BY <1>3, <2>2, <2>3
<1>8. ASSUME h > 55
      PROVE  t[q + 2] = Frame(NoTag, Closing(Zeros(56), hi, lo))
  <2> DEFINE p == 64 * q + 64
             s == Zeros(56)
  <2>1. \A j \in 1..56 : s[j] = Const(0)
    BY FillIs
  <2> HIDE DEF s
  <2>2. ASSUME NEW j \in 1..64
        PROVE  Cell(p + j) = IF j > 60 THEN Octet(lo, j - 60) ELSE IF j > 56 THEN Octet(hi, j - 56) ELSE s[j]
    <3>1. 64 * N = p + 64
      BY <1>1, <1>8
    <3>2. /\ ~ (p + j <= n)
          /\ ~ (p + j = n + 1)
          /\ p + j > 64 * N - 4 <=> j > 60
          /\ p + j > 64 * N - 8 <=> j > 56
          /\ (p + j) - (64 * N - 4) = j - 60
          /\ (p + j) - (64 * N - 8) = j - 56
      BY <3>1
    <3> HIDE DEF p
    <3>3. CASE j > 60
      BY <3>2, <3>3
    <3>4. CASE j > 56 /\ ~ (j > 60)
      BY <3>2, <3>4
    <3>5. CASE ~ (j > 56)
      <4>1. j \in 1..56 /\ ~ (j > 60)
        BY <3>5
      <4> QED BY <2>1, <3>2, <3>5, <4>1
    <3> QED BY <3>3, <3>4, <3>5
  <2>3. 64 * ((q + 2) - 1) = p /\ q + 2 \in 1..N
    BY <1>1, <1>8
  <2>4. block(q + 2) = Closing(s, hi, lo)
    BY <2>2, <2>3 DEF Closing
  <2> HIDE DEF block
  <2> QED BY <1>3, <2>3, <2>4 DEF s
<1> DEFINE M == IF h <= 55 THEN q + 1 ELSE q + 2
<1>9. hi = M \div GroestlWord /\ lo = M % GroestlWord
  BY <1>1 DEF hi, lo
<1>10. IsSequence(t, M)
  BY <1>1, <1>3
<1> HIDE DEF Cell, block, M
<1> QED BY <1>4, <1>6, <1>7, <1>8, <1>9, <1>10 DEF GroestlIs, t, x, M

(* Padding makes a block of the length it should have. *)
LEMMA PaddedIs ==
  ASSUME NEW s, NEW h \in Nat, NEW e, NEW z \in Nat, NEW m, m = h + 1 + z
  PROVE  IsSequence(Padded(s, h, e, z), m)
BY DEF Padded, IsSequence

(* The fields of a context. *)
LEMMA GroestlFields ==
  ASSUME NEW f, NEW k, NEW x
  PROVE  /\ GroestlContext(f, k, x).frames = f
         /\ GroestlContext(f, k, x).counter1 = k % GroestlWord
         /\ GroestlContext(f, k, x).counter2 = k \div GroestlWord
         /\ GroestlContext(f, k, x).buffer = x
BY DEF GroestlContext

(* The final block, from a context in which k blocks were counted. *)
LEMMA GroestlLast ==
  ASSUME NEW j \in Nat, NEW f, IsSequence(f, j), NEW k \in Nat, NEW x, NEW s, IsSequence(s, 56), NEW c,
         c = Count(GroestlContext(f, k, x))
  PROVE  Transform(c, s \o BigEndian(c.counter2, 4) \o BigEndian(c.counter1, 4)).frames
           = Append(f, Frame(NoTag, Closing(s, (k + 1) \div GroestlWord, (k + 1) % GroestlWord)))
<1> DEFINE hi == (k + 1) \div GroestlWord
           lo == (k + 1) % GroestlWord
           last == Closing(s, hi, lo)
<1>1. c = GroestlContext(f, k + 1, x) /\ k + 1 \in Nat
  BY CountIs
<1>2. c.counter2 = hi /\ c.counter1 = lo
  BY <1>1, GroestlFields
<1> HIDE DEF hi, lo
<1>3. s \o BigEndian(hi, 4) \o BigEndian(lo, 4) = last /\ IsSequence(last, 64)
  BY ClosingIs
<1> HIDE DEF last
<1>4. Transform(c, last) = GroestlContext(Append(f, Frame(NoTag, last)), (k + 1) + 1, x)
  BY <1>1, <1>3, TransformOne
<1>5. Transform(c, last).frames = Append(f, Frame(NoTag, last))
  <2> DEFINE g == Append(f, Frame(NoTag, last))
             m == (k + 1) + 1
  <2>1. Transform(c, last) = GroestlContext(g, m, x)
    BY <1>4
  <2>2. GroestlContext(g, m, x).frames = g
    <3> HIDE DEF g, m
    <3> QED BY GroestlFields
  <2> QED BY <2>1, <2>2
<1> QED BY <1>2, <1>3, <1>5 DEF last, hi, lo

(* The final blocks are those of the definition. *)
LEMMA GroestlEnd ==
  ASSUME NEW n \in Nat
  PROVE  GroestlFinal(GroestlAt(n)).frames = GroestlFrames(n)
<1> DEFINE q == n \div 64
           h == n - 64 * q
           f == First(Untagged, q)
           x == Message(64 * q + 1, n)
           c == GroestlAt(n)
           e == Const(128)
           ended == Append(x, e)
<1>1. q \in Nat /\ h \in 0..63 /\ n = 64 * q + h
  OBVIOUS
<1>2. IsSequence(x, h)
  <2>1. IsPiece(n, 0, q, h, Message(n + 1, n + 0))
    BY PieceIs
  <2> QED BY <2>1 DEF IsPiece
<1>3. c = GroestlContext(f, q, x)
  BY DEF GroestlAt
<1>4. IsSequence(f, q)
  BY <1>1, FirstGrows
<1>5. GroestlIs(GroestlFrames(n), n, q, h)
  BY <1>1, GroestlFramesAre
<1> HIDE DEF q, h, c, x, f, e
<1>6. Len(ended) = h + 1
  <2>1. h \in Nat /\ h + 1 \in Nat
    BY <1>1
  <2>2. IsSequence(ended, h + 1)
    BY <1>2, <2>1, AppendIs DEF Longer
  <2> HIDE DEF ended
  <2> QED BY <2>1, <2>2, LengthIs
<1>7. c.buffer = x
  BY <1>3, GroestlFields
<1> DEFINE split == Len(Append(c.buffer, Const(128))) > 56
           before == IF split THEN Transform(c, Append(c.buffer, Const(128)) \o Zeros(64 - Len(Append(c.buffer, Const(128))))) ELSE c
           last == IF split THEN Zeros(56) ELSE Append(c.buffer, Const(128)) \o Zeros(56 - Len(Append(c.buffer, Const(128))))
           after == Count(before)
<1>8. GroestlFinal(c) = Transform(after, last \o BigEndian(after.counter2, 4) \o BigEndian(after.counter1, 4))
  BY Zenon DEF GroestlFinal
<1>9. split <=> h > 55
  BY <1>1, <1>6, <1>7 DEF e
<1>10. h \in Nat
  BY <1>1
<1>11. CASE h <= 55
  <2> DEFINE z == 55 - h
             s == Padded(x, h, e, z)
  <2>1. z \in Nat /\ 56 - (h + 1) = z /\ 56 = h + 1 + z /\ ~ (h > 55)
    BY <1>1, <1>11
  <2>2. last = ended \o Zeros(z)
    <3>1. last = ended \o Zeros(56 - Len(ended))
      BY <1>7, <1>9, <2>1 DEF e
    <3> HIDE DEF ended, last, z
    <3> QED BY <1>6, <2>1, <3>1
  <2> HIDE DEF z
  <2>3. ended \o Zeros(z) = s /\ IsSequence(s, 56)
    BY <1>2, <1>10, <2>1, PadIs, PaddedIs, ZenonT(30)
  <2>4. after = Count(GroestlContext(f, q, x))
    BY <1>3, <1>9, <2>1
  <2> HIDE DEF s, last, after, split, before
  <2>5. GroestlFinal(c).frames = Append(f, Frame(NoTag, Closing(s, (q + 1) \div GroestlWord, (q + 1) % GroestlWord)))
    BY <1>1, <1>4, <1>8, <2>2, <2>3, <2>4, GroestlLast
  <2> DEFINE d == Frame(NoTag, Closing(s, (q + 1) \div GroestlWord, (q + 1) % GroestlWord))
             t == GroestlFrames(n)
  <2>6. IsSequence(t, q + 1) /\ (\A i \in 1..q : t[i] = Untagged[i]) /\ t[q + 1] = d
    BY <1>5, <1>11 DEF GroestlIs, s, z, x, e
  <2>7. Append(f, d) = t
    <3> HIDE DEF d, t
    <3>1. EndsInOne(t, Untagged, q, d)
      BY <2>6 DEF EndsInOne
    <3> QED BY <1>1, <3>1, EndsWithOne DEF f
  <2> QED BY <2>5, <2>7 DEF c
<1>12. CASE h > 55
  <2> DEFINE z == 63 - h
             p == Padded(x, h, e, z)
             g == Append(f, Frame(NoTag, p))
  <2>1. z \in Nat /\ 64 - (h + 1) = z /\ 64 = h + 1 + z
    BY <1>1, <1>12
  <2>2. before = Transform(c, ended \o Zeros(z)) /\ last = Zeros(56)
    <3>1. before = Transform(c, ended \o Zeros(64 - Len(ended)))
      BY <1>7, <1>9, <1>12 DEF e
    <3>2. last = Zeros(56)
      BY <1>9, <1>12
    <3> HIDE DEF ended, last, z, before
    <3> QED BY <1>6, <2>1, <3>1, <3>2
  <2> HIDE DEF z
  <2>3. ended \o Zeros(z) = p /\ IsSequence(p, 64)
    <3> HIDE DEF split, before, last, after
    <3>1. ended \o Zeros(z) = p
      <4>1. z \in Nat
        BY <2>1
      <4> HIDE DEF g
      <4>2. Append(x, e) \o Zeros(z) = Padded(x, h, e, z)
        <5> HIDE DEF ended, p
        <5> QED BY ONLY <1>2, <1>10, <4>1, PadIs
      <4> QED BY <4>2
    <3>2. IsSequence(p, 64)
      BY <1>10, <2>1, PaddedIs
    <3> QED BY <3>1, <3>2
  <2>4. before = GroestlContext(g, q + 1, x)
    <3> HIDE DEF p, before
    <3> QED BY <1>1, <1>3, <1>4, <2>2, <2>3, TransformOne
  <2>5. IsSequence(Zeros(56), 56)
    BY FillIs
  <2>6. IsSequence(g, q + 1) /\ q + 1 \in Nat /\ (q + 1) + 1 = q + 2
    BY <1>1, <1>4, AppendIs DEF Longer
  <2>7. after = Count(GroestlContext(g, q + 1, x))
    BY <2>4
  <2> HIDE DEF p, last, after, split, before, g
  <2>8. GroestlFinal(c).frames
          = Append(g, Frame(NoTag, Closing(Zeros(56), (q + 2) \div GroestlWord, (q + 2) % GroestlWord)))
    <3>1. GroestlFinal(c).frames
            = Append(g, Frame(NoTag, Closing(Zeros(56), ((q + 1) + 1) \div GroestlWord, ((q + 1) + 1) % GroestlWord)))
      BY <1>8, <2>2, <2>5, <2>6, <2>7, GroestlLast
    <3> QED BY <2>6, <3>1
  <2> DEFINE d == Frame(NoTag, Closing(Zeros(56), (q + 2) \div GroestlWord, (q + 2) % GroestlWord))
             t == GroestlFrames(n)
             y == Frame(NoTag, p)
  <2>9. IsSequence(t, q + 2) /\ (\A i \in 1..q : t[i] = Untagged[i]) /\ t[q + 1] = y /\ t[q + 2] = d
    <3>1. ~ (h <= 55)
      BY <1>1, <1>12
    <3> QED BY <1>5, <1>12, <3>1 DEF GroestlIs, p, z, x, e
  <2>10. Append(g, d) = t
    <3>1. g = Append(First(Untagged, q), y)
      BY DEF f, g
    <3> HIDE DEF d, t, y
    <3>2. EndsInTwo(t, Untagged, q, y, d)
      BY <2>9 DEF EndsInTwo
    <3> QED BY <1>1, <3>1, <3>2, EndsWithTwo
  <2> QED BY <2>8, <2>10 DEF c
<1> QED BY <1>1, <1>11, <1>12
-----------------------------------------------------------------------------
(* Keccak. *)

(* A byte of padding at the end of a block. *)
LEMMA OrEndIs == OrEnd(Const(1)) = Const(1 + 128) /\ OrEnd(Const(0)) = Const(0 + 128)
<1>1. Const(0) # Const(1) /\ 1 + 128 = 129 /\ 0 + 128 = 128
  BY DEF Const
<1> QED BY <1>1 DEF OrEnd

(* The blocks of the message, padded, are those of the definition. *)
LEMMA KeccakEnd ==
  ASSUME NEW n \in Nat
  PROVE  KeccakFinal(Message(1, n)) = KeccakFrames(n)
<1> DEFINE size == 136
           m == n \div size
           p == size * m
           h == n - p
           in == Message(1, n)
           x == Message(p + 1, n)
           e == Const(1)
           blocks == Blocks(in, size)
           last == Padded(x, h, e, (size - 1) - h)
           end == [last EXCEPT ![size] = OrEnd(@)]
           all == Append(blocks, end)
           Cell(k) == IF k <= n THEN Byte(k)
                      ELSE Const((IF k = n + 1 THEN 1 ELSE 0) + (IF k = size * (m + 1) THEN size - 8 ELSE 0))
           block(i) == [j \in 1..size |-> Cell(size * (i - 1) + j)]
<1>1. m \in Nat /\ p \in 0..n /\ h \in 0..(size - 1) /\ n = p + h
  OBVIOUS
<1>2. size = 136 /\ size - 8 = 128 /\ size \in Nat \ {0}
  OBVIOUS
<1>3. /\ IsSequence(blocks, m) /\ \A k \in 1..m : blocks[k] = Message(size * (k - 1) + 1, size * k)
      /\ Rest(in, size) = x
  <2>1. HasBlocks(size, 0, n, 0, m)
    <3>1. 0 \in Nat /\ 0 = size * 0 /\ 0 <= n /\ m = (n - 0) \div size
      OBVIOUS
    <3> HIDE DEF size, m
    <3> QED BY <1>2, <3>1, MessageBlocks
  <2>2. 0 + 1 = 1 /\ 0 + size * m = p /\ \A k \in 1..m : 0 + k - 1 = k - 1 /\ 0 + k = k
    OBVIOUS
  <2> HIDE DEF size, m, p
  <2> QED BY <2>1, <2>2 DEF HasBlocks
<1>4. KeccakFrames(n) = [i \in 1..(m + 1) |-> Frame(NoTag, block(i))]
  BY <1>2 DEF KeccakFrames
<1>5. IsSequence(x, h) /\ \A j \in 1..h : x[j] = Byte(p + j)
  <2>1. p + 1 \in Nat \ {0} /\ p + 1 <= n + 1 /\ n - (p + 1) + 1 = h
    BY <1>1
  <2>2. IsSequence(x, h) /\ \A j \in 1..h : x[j] = Byte((p + 1) + j - 1)
    <3> HIDE DEF h, p
    <3> QED BY <1>1, <2>1, MessageIs
  <2>3. \A j \in 1..h : (p + 1) + j - 1 = p + j
    BY <1>1
  <2> QED BY <2>2, <2>3
<1>6. size * (m + 1) = p + size /\ \A i \in 1..m : size * (i - 1) \in Nat /\ size * (i - 1) + size <= p
  OBVIOUS
<1> HIDE DEF m, p, h, x, size
<1>7. Append(x, e) \o Zeros(size - Len(Append(x, e))) = last
  <2> DEFINE z == (size - 1) - h
  <2>1. z \in Nat /\ h \in Nat /\ size - (h + 1) = z /\ h + 1 \in Nat
    BY <1>1, <1>2
  <2> HIDE DEF z, e
  <2>2. IsSequence(Append(x, e), h + 1)
    BY <1>5, <2>1, AppendIs DEF Longer
  <2>3. Len(Append(x, e)) = h + 1
    BY <2>1, <2>2, LengthIs
  <2>4. Append(x, e) \o Zeros(z) = Padded(x, h, e, z)
    <3>1. IsSequence(x, h) /\ z \in Nat /\ h \in Nat
      BY <1>5, <2>1
    <3> QED BY ONLY <3>1, PadIs
  <2> QED BY <2>1, <2>3, <2>4 DEF z
<1>8. KeccakFinal(in) = [i \in 1..Len(all) |-> Frame(NoTag, all[i])]
  <2>1. HASH_DATA_AREA = size
    BY <1>2 DEF HASH_DATA_AREA
  <2> HIDE DEF in, last
  <2> QED BY <1>3, <1>7, <2>1, Zenon DEF KeccakFinal
<1> HIDE DEF blocks, end
<1>9. Longer(all, blocks, m, end)
  BY <1>1, <1>3, AppendIs
<1>10. Len(all) = m + 1
  <2>1. m + 1 \in Nat
    BY <1>1
  <2> HIDE DEF all
  <2> QED BY <1>9, <2>1, LengthIs DEF Longer
<1> HIDE DEF all
<1>11. ASSUME NEW i \in 1..m PROVE all[i] = block(i)
  <2> DEFINE o == size * (i - 1)
  <2>1. o \in Nat /\ o + size <= p /\ i \in Nat \ {0}
    BY <1>1, <1>6
  <2>2. blocks[i] = [j \in 1..size |-> Byte(o + j)]
    <3>1. Message(size * (i - 1) + 1, size * i) = [j \in 1..size |-> Byte(size * (i - 1) + j)]
      <4>1. size \in Nat \ {0} /\ i \in Nat \ {0}
        BY <1>2, <2>1
      <4> QED BY ONLY <4>1, BlockIs
    <3> QED BY <1>3, <3>1
  <2> HIDE DEF o
  <2>3. \A j \in 1..size : Cell(o + j) = Byte(o + j)
    BY <1>1, <1>2, <2>1
  <2> HIDE DEF Cell
  <2> QED BY <1>9, <2>2, <2>3 DEF Longer, o
<1>12. all[m + 1] = block(m + 1)
  <2>1. size * ((m + 1) - 1) = p
    <3>1. (m + 1) - 1 = m
      BY <1>1
    <3> QED BY <3>1 DEF p
  <2> DEFINE z == (size - 1) - h
             u == [j \in 1..size |-> IF j <= h THEN x[j] ELSE IF j = h + 1 THEN e ELSE Const(0)]
             v == [j \in 1..size |-> IF j = size THEN OrEnd(u[j]) ELSE u[j]]
  <2>2. last = u
    <3>1. h + 1 + ((size - 1) - h) = size
      BY <1>1, <1>2
    <3> QED BY <3>1 DEF Padded
  <2>3. end = v
    <3>1. size \in 1..size
      BY <1>2
    <3> HIDE DEF last
    <3> QED BY <2>2, <3>1 DEF end
  <2>4. ASSUME NEW j \in 1..size PROVE v[j] = Cell(p + j)
    <3>1. /\ p + j <= n <=> j <= h
          /\ p + j = n + 1 <=> j = h + 1
          /\ p + j = size * (m + 1) <=> j = size
          /\ j <= h => j \in 1..h /\ j # size
      BY <1>1, <1>2, <1>6
    <3>2. CASE j <= h
      BY <1>5, <3>1, <3>2
    <3>3. CASE ~ (j <= h) /\ j = h + 1 /\ j = size
      <4>1. v[j] = OrEnd(Const(1))
        BY <3>3
      <4>2. Cell(p + j) = Const(1 + (size - 8))
        BY <3>1, <3>3
      <4> QED BY <1>2, <4>1, <4>2, OrEndIs
    <3>4. CASE ~ (j <= h) /\ j = h + 1 /\ j # size
      <4>1. v[j] = Const(1)
        BY <3>4
      <4>2. Cell(p + j) = Const(1 + 0)
        BY <3>1, <3>4
      <4> QED BY <4>1, <4>2
    <3>5. CASE ~ (j <= h) /\ j # h + 1 /\ j = size
      <4>1. v[j] = OrEnd(Const(0))
        BY <3>5
      <4>2. Cell(p + j) = Const(0 + (size - 8))
        BY <3>1, <3>5
      <4> QED BY <1>2, <4>1, <4>2, OrEndIs
    <3>6. CASE ~ (j <= h) /\ j # h + 1 /\ j # size
      <4>1. v[j] = Const(0)
        BY <3>6
      <4>2. Cell(p + j) = Const(0 + 0)
        BY <3>1, <3>6
      <4> QED BY <4>1, <4>2
    <3> QED BY <3>2, <3>3, <3>4, <3>5, <3>6
  <2> HIDE DEF Cell, u
  <2>5. v = block(m + 1)
    BY <2>1, <2>4
  <2> HIDE DEF v, block
  <2> QED BY <1>9, <2>3, <2>5 DEF Longer
<1>13. \A i \in 1..(m + 1) : all[i] = block(i)
  <2>1. \A i \in 1..(m + 1) : i \in 1..m \/ i = m + 1
    BY <1>1
  <2> HIDE DEF block
  <2> QED BY <1>11, <1>12, <2>1
<1> HIDE DEF block
<1> QED BY <1>4, <1>8, <1>10, <1>13

(* The blocks that Skein processes, as the values a in T. *)
ProcessRun(n, s, T, a, add) ==
  /\ n \in Nat
  /\ IsSequence(s, n)
  /\ a \in [0..n -> T]
  /\ \A y \in T, i \in 1..n : Process(y, s[i], add) \in T
  /\ \A i \in 1..n : a[i] = Process(a[i - 1], s[i], add)

(* The last of them is what Skein has then. *)
LEMMA ProcessRuns ==
  ASSUME NEW n, NEW s, NEW T, NEW a, NEW add, ProcessRun(n, s, T, a, add)
  PROVE  ProcessBlocks(a[0], s, add) = a[n]
<1>1. ASSUME NEW m \in Nat, IsSequence(s, m), NEW b \in [0..m -> T],
             \A y \in T, i \in 1..m : Process(y, s[i], add) \in T,
             \A i \in 1..m : b[i] = Process(b[i - 1], s[i], add)
      PROVE  ProcessBlocks(b[0], s, add) = b[m]
  BY ONLY <1>1, m \in Nat, b \in [0..m -> T], FoldProcess, ZenonT(30)
<1>2. n \in Nat
  BY DEF ProcessRun
<1>3. IsSequence(s, n)
  BY DEF ProcessRun
<1>4. a \in [0..n -> T]
  BY DEF ProcessRun
<1>5. \A y \in T, i \in 1..n : Process(y, s[i], add) \in T
  BY DEF ProcessRun
<1>6. \A i \in 1..n : a[i] = Process(a[i - 1], s[i], add)
  BY DEF ProcessRun
<1> QED BY ONLY <1>1, <1>2, <1>3, <1>4, <1>5, <1>6

(* One block. *)
LEMMA ProcessRunsOnce ==
  ASSUME NEW s, IsSequence(s, 1), NEW T, NEW c \in T, NEW d \in T, NEW add,
         \A y \in T : Process(y, s[1], add) \in T,
         d = Process(c, s[1], add)
  PROVE  ProcessBlocks(c, s, add) = d
<1> DEFINE m == 1
           a == [i \in 0..m |-> IF i = 0 THEN c ELSE d]
<1>1. /\ m \in Nat /\ IsSequence(s, m) /\ a \in [0..m -> T] /\ a[0] = c /\ a[m] = d
      /\ \A y \in T, i \in 1..m : Process(y, s[i], add) \in T
      /\ \A i \in 1..m : a[i] = Process(a[i - 1], s[i], add)
  OBVIOUS
<1> HIDE DEF a, m
<1>2. ProcessRun(m, s, T, a, add)
  BY <1>1 DEF ProcessRun
<1> QED BY <1>1, <1>2, ProcessRuns
-----------------------------------------------------------------------------
(* Skein. *)

SkeinTweak(t, p, first, final) == [type |-> t, pos |-> p, first |-> first, final |-> final]

(* A context with its tweak. *)
SkeinState(f, w, x) == [frames |-> f, tweak |-> w, b |-> x]
SkeinContext(f, t, p, first, final, x) == SkeinState(f, SkeinTweak(t, p, first, final), x)

(* The tweaks and the contexts of one type. *)
SkeinTweaks(t, Flags, final) == [type : {t}, pos : Int, first : Flags, final : {final}]
SkeinContexts(S, t, Flags, final, x) == [frames : Seq(S), tweak : SkeinTweaks(t, Flags, final), b : {x}]

(* The blocks of the message in front of its last one, with their tweaks. *)
Marked == [i \in Nat |-> Frame(SkeinTweak("msg", 64 * i, Fresh(i - 1), No), Message(64 * (i - 1) + 1, 64 * i))]

(* The number of blocks that are processed before the final one is known.  *)
Known(n) == IF n = 0 THEN 0 ELSE (n - 1) \div 64

(* The context after q blocks, with x in the buffer. *)
SkeinAfter(q, x) == SkeinContext(First(Marked, q), "msg", 64 * q, Fresh(q), No, x)

(* The context after n bytes, in whatever pieces. *)
SkeinAt(n) == SkeinAfter(Known(n), Message(64 * Known(n) + 1, n))

(* The fields of a tweak. *)
LEMMA TweakFields ==
  ASSUME NEW t, NEW p, NEW first, NEW final, NEW u
  PROVE  /\ SkeinTweak(t, p, first, final).pos = p
         /\ [SkeinTweak(t, p, first, final) EXCEPT !.pos = u] = SkeinTweak(t, u, first, final)
         /\ [SkeinTweak(t, p, first, final) EXCEPT !.first = u] = SkeinTweak(t, p, u, final)
         /\ [SkeinTweak(t, p, first, final) EXCEPT !.final = u] = SkeinTweak(t, p, first, u)
BY DEF SkeinTweak

(* The fields of a context. *)
LEMMA StateFields ==
  ASSUME NEW f, NEW w, NEW x, NEW u
  PROVE  /\ SkeinState(f, w, x).frames = f /\ SkeinState(f, w, x).tweak = w /\ SkeinState(f, w, x).b = x
         /\ [SkeinState(f, w, x) EXCEPT !.frames = u] = SkeinState(u, w, x)
         /\ [SkeinState(f, w, x) EXCEPT !.tweak = u] = SkeinState(f, u, x)
         /\ [SkeinState(f, w, x) EXCEPT !.b = u] = SkeinState(f, w, u)
BY DEF SkeinState

(* What a block does, with c any context. *)
Advanced(w, add) == [w EXCEPT !.pos = w.pos + add]

(* The block, its tweak with the position behind it, and the tweak after.  *)
LEMMA ProcessUnfolds ==
  ASSUME NEW c, NEW block, NEW add
  PROVE  Process(c, block, add)
           = [[c EXCEPT !.frames = Append(c.frames, Frame(Advanced(c.tweak, add), block))]
                EXCEPT !.tweak = [Advanced(c.tweak, add) EXCEPT !.first = No]]
<1> DEFINE tweak == Advanced(c.tweak, add)
           g == Append(c.frames, Frame(tweak, block))
           w == [tweak EXCEPT !.first = No]
<1>1. Process(c, block, add) = [c EXCEPT !.frames = g, !.tweak = w]
  BY Zenon DEF Process, No, Advanced
<1> HIDE DEF g, w
<1>2. [c EXCEPT !.frames = g, !.tweak = w] = [[c EXCEPT !.frames = g] EXCEPT !.tweak = w]
  OBVIOUS
<1> QED BY <1>1, <1>2 DEF g, w

(* A block is a frame with the next position, and the flag is cleared. *)
LEMMA ProcessIs ==
  ASSUME NEW f, NEW t, NEW p, NEW first, NEW final, NEW x, NEW block, NEW add
  PROVE  Process(SkeinContext(f, t, p, first, final, x), block, add)
           = SkeinContext(Append(f, Frame(SkeinTweak(t, p + add, first, final), block)),
                          t, p + add, No, final, x)
<1> DEFINE o == p + add
           v == SkeinTweak(t, p, first, final)
           c == SkeinState(f, v, x)
           tweak == Advanced(c.tweak, add)
           w == [tweak EXCEPT !.first = No]
           g == Append(f, Frame(SkeinTweak(t, o, first, final), block))
<1>1. c.tweak = v /\ c.frames = f /\ v.pos = p
  <2>1. v.pos = p
    BY TweakFields
  <2> HIDE DEF v
  <2> QED BY <2>1, StateFields
<1>2. tweak = SkeinTweak(t, o, first, final)
  <2>1. tweak = [v EXCEPT !.pos = o]
    <3> HIDE DEF v, c
    <3> QED BY <1>1 DEF Advanced
  <2> HIDE DEF o, tweak, c
  <2> QED BY <2>1, TweakFields
<1> HIDE DEF o, tweak
<1>3. w = SkeinTweak(t, o, No, final)
  <2>1. [SkeinTweak(t, o, first, final) EXCEPT !.first = No] = SkeinTweak(t, o, No, final)
    BY TweakFields
  <2> HIDE DEF c, v, g
  <2> QED BY <1>2, <2>1
<1>4. Process(c, block, add) = [[c EXCEPT !.frames = Append(c.frames, Frame(tweak, block))] EXCEPT !.tweak = w]
  <2> HIDE DEF c
  <2> HIDE DEF g, v
  <2> QED BY ONLY ProcessUnfolds DEF tweak
<1>5. Append(c.frames, Frame(tweak, block)) = g
  <2> HIDE DEF c
  <2> QED BY <1>1, <1>2
<1> HIDE DEF g, v, w
<1>6. [c EXCEPT !.frames = g] = SkeinState(g, v, x)
  BY StateFields
<1>7. [SkeinState(g, v, x) EXCEPT !.tweak = w] = SkeinState(g, w, x)
  BY StateFields
<1> HIDE DEF c
<1>8. Process(c, block, add) = SkeinState(g, w, x)
  BY <1>4, <1>5, <1>6, <1>7
<1> QED BY <1>3, <1>8 DEF SkeinContext, c, g, o, v

(* A block keeps a context a context. *)
LEMMA ProcessType ==
  ASSUME NEW t, NEW Flags, No \in Flags, NEW final, NEW x, NEW B, NEW S,
         [tag : SkeinTweaks(t, Flags, final), block : B] \subseteq S,
         NEW c \in SkeinContexts(S, t, Flags, final, x), NEW block \in B, NEW add \in Int
  PROVE  Process(c, block, add) \in SkeinContexts(S, t, Flags, final, x)
<1> DEFINE tweak == Advanced(c.tweak, add)
<1>1. c.tweak \in SkeinTweaks(t, Flags, final) /\ c.frames \in Seq(S)
  BY DEF SkeinContexts
<1>2. tweak \in SkeinTweaks(t, Flags, final) /\ [tweak EXCEPT !.first = No] \in SkeinTweaks(t, Flags, final)
  <2>1. No \in Flags /\ add \in Int
    OBVIOUS
  <2> DEFINE w == c.tweak
             u == w.pos + add
  <2>2. w \in [type : {t}, pos : Int, first : Flags, final : {final}]
    BY <1>1 DEF SkeinTweaks
  <2>3. u \in Int
    <3>1. w.pos \in Int
      <4> HIDE DEF w
      <4> QED BY ONLY <2>2
    <3> QED BY <2>1, <3>1
  <2> HIDE DEF w, u
  <2>4. [w EXCEPT !.pos = u] \in [type : {t}, pos : Int, first : Flags, final : {final}]
    BY ONLY <2>2, <2>3
  <2>5. tweak = [w EXCEPT !.pos = u]
    BY DEF u, w, Advanced
  <2> HIDE DEF tweak
  <2>6. [tweak EXCEPT !.first = No] \in [type : {t}, pos : Int, first : Flags, final : {final}]
    BY ONLY <2>1, <2>4, <2>5
  <2> QED BY <2>4, <2>5, <2>6 DEF SkeinTweaks
<1> HIDE DEF tweak
<1>3. Process(c, block, add)
        = [[c EXCEPT !.frames = Append(c.frames, Frame(tweak, block))] EXCEPT !.tweak = [tweak EXCEPT !.first = No]]
  BY ONLY ProcessUnfolds DEF tweak
<1>4. Append(c.frames, Frame(tweak, block)) \in Seq(S)
  <2>1. Frame(tweak, block) \in S
    <3>1. Frame(tweak, block) \in [tag : SkeinTweaks(t, Flags, final), block : B]
      BY <1>2 DEF Frame
    <3> QED BY <3>1
  <2> QED BY <1>1, <2>1, AppendProperties
<1>5. c \in SkeinContexts(S, t, Flags, final, x)
  OBVIOUS
<1> QED BY ONLY <1>2, <1>3, <1>4, <1>5 DEF SkeinContexts

(* The type of the contexts that occur. *)
LEMMA SkeinContextType ==
  ASSUME NEW S, NEW t, NEW Flags, NEW final, NEW x, NEW f \in Seq(S), NEW p \in Int, NEW first \in Flags
  PROVE  SkeinContext(f, t, p, first, final, x) \in SkeinContexts(S, t, Flags, final, x)
BY DEF SkeinContext, SkeinContexts, SkeinState, SkeinTweak, SkeinTweaks

(* One block. *)
LEMMA ProcessOne ==
  ASSUME NEW j \in Nat, NEW f, IsSequence(f, j), NEW t, NEW p \in Int, NEW first, NEW final, NEW x,
         NEW block, NEW add \in Int
  PROVE  ProcessBlocks(SkeinContext(f, t, p, first, final, x), <<block>>, add)
           = SkeinContext(Append(f, Frame(SkeinTweak(t, p + add, first, final), block)),
                          t, p + add, No, final, x)
<1> DEFINE Flags == {first, No}
           B == {block}
           S == {f[i] : i \in 1..j} \cup [tag : SkeinTweaks(t, Flags, final), block : B]
           T == SkeinContexts(S, t, Flags, final, x)
           c == SkeinContext(f, t, p, first, final, x)
           o == p + add
           e == Frame(SkeinTweak(t, o, first, final), block)
           d == SkeinContext(Append(f, e), t, o, No, final, x)
           s == <<block>>
<1>1. IsSequence(s, 1) /\ s[1] = block
  BY OneIs
<1>2. f \in Seq(S) /\ e \in S
  <2>1. f \in [1..j -> S]
    BY DEF IsSequence
  <2>2. e \in [tag : SkeinTweaks(t, Flags, final), block : B]
    BY DEF Frame, SkeinTweak, SkeinTweaks
  <2>3. e \in S
    <3> HIDE DEF e
    <3> QED BY <2>2
  <2> HIDE DEF S, e
  <2> QED BY <2>1, <2>3, SeqDef
<1>3. [tag : SkeinTweaks(t, Flags, final), block : B] \subseteq S
  OBVIOUS
<1>4. first \in Flags /\ No \in Flags /\ block \in B /\ o \in Int
  OBVIOUS
<1>5. d = Process(c, block, add)
  <2>1. Process(SkeinContext(f, t, p, first, final, x), block, add)
          = SkeinContext(Append(f, Frame(SkeinTweak(t, p + add, first, final), block)), t, p + add, No, final, x)
    BY ONLY ProcessIs
  <2> QED BY <2>1
<1> HIDE DEF S, Flags, B, e, s, o
<1>6. c \in T /\ d \in T
  <2>1. Append(f, e) \in Seq(S)
    BY <1>2, AppendProperties
  <2> QED BY <1>2, <1>4, <2>1, SkeinContextType
<1>7. ASSUME NEW y \in T, NEW i \in 1..1 PROVE Process(y, s[i], add) \in T
  <2>1. s[i] = block
    BY <1>1
  <2> QED BY <1>3, <1>4, <2>1, ProcessType
<1> HIDE DEF c, d, T
<1>8. \A y \in T : Process(y, s[1], add) \in T
  <2>1. 1 \in 1..1
    OBVIOUS
  <2> QED BY <1>7, <2>1
<1>9. d = Process(c, s[1], add)
  BY <1>1, <1>5
<1>10. ProcessBlocks(c, s, add) = d
  BY ONLY <1>1, <1>6, <1>8, <1>9, ProcessRunsOnce
<1> QED BY <1>10 DEF s, c, d, e, o

(* The whole blocks of a piece. *)
LEMMA SkeinBulk ==
  ASSUME NEW q \in Nat, NEW r \in Nat, q <= r, NEW x
  PROVE  ProcessBlocks(SkeinAfter(q, x), Blocks(Message(64 * q + 1, 64 * r), 64), 64) = SkeinAfter(r, x)
<1> DEFINE m == r - q
           s == Blocks(Message(64 * q + 1, 64 * r), 64)
           add == 64
           Flags == {Fresh(i) : i \in Nat} \cup {No}
           B == {Message(64 * (i - 1) + 1, 64 * i) : i \in Nat}
           S == [tag : SkeinTweaks("msg", Flags, No), block : B]
           T == SkeinContexts(S, "msg", Flags, No, x)
           a == [k \in 0..m |-> SkeinAfter(q + k, x)]
<1>1. m \in Nat /\ q + 0 = q /\ q + m = r /\ add \in Int /\ No \in Flags
  OBVIOUS
<1>2. IsSequence(s, m) /\ \A k \in 1..m : s[k] = Message(64 * (q + k - 1) + 1, 64 * (q + k))
  <2> DEFINE b == 64 * r
  <2>1. b \in Nat /\ 64 * q <= b /\ m = b \div 64 - q
    OBVIOUS
  <2> HIDE DEF b, m
  <2> QED BY <2>1, MessageBlocks64 DEF b
<1> HIDE DEF m, s
<1>3. ASSUME NEW i \in Nat \ {0}
      PROVE  Marked[i] \in S
  <2>1. i \in Nat /\ i - 1 \in Nat /\ 64 * i \in Int
    OBVIOUS
  <2>2. Marked[i] = Frame(SkeinTweak("msg", 64 * i, Fresh(i - 1), No), Message(64 * (i - 1) + 1, 64 * i))
    BY <2>1 DEF Marked
  <2>3. Fresh(i - 1) \in Flags
    BY <2>1
  <2>4. Message(64 * (i - 1) + 1, 64 * i) \in B
    BY <2>1
  <2> HIDE DEF Flags, B
  <2>5. SkeinTweak("msg", 64 * i, Fresh(i - 1), No) \in SkeinTweaks("msg", Flags, No)
    <3> DEFINE p == 64 * i
               fi == Fresh(i - 1)
    <3> HIDE DEF p, fi
    <3>1. SkeinTweak("msg", p, fi, No) \in SkeinTweaks("msg", Flags, No)
      BY <2>1, <2>3 DEF SkeinTweak, SkeinTweaks, p, fi
    <3> QED BY <3>1 DEF p, fi
  <2> QED BY <2>2, <2>4, <2>5 DEF Frame
<1>4. ASSUME NEW k \in Nat
      PROVE  SkeinAfter(k, x) \in T
  <2>1. First(Marked, k) \in Seq(S)
    <3>1. \A i \in 1..k : i \in Nat \ {0}
      OBVIOUS
    <3>2. First(Marked, k) \in [1..k -> S]
      <4> HIDE DEF S
      <4> QED BY <1>3, <3>1 DEF First
    <3> HIDE DEF S
    <3> QED BY <3>2, SeqDef
  <2>2. Fresh(k) \in Flags
    OBVIOUS
  <2>3. 64 * k \in Int
    OBVIOUS
  <2> DEFINE p == 64 * k
  <2> HIDE DEF S, Flags, p
  <2> QED BY <2>1, <2>2, <2>3, SkeinContextType DEF SkeinAfter, p
<1>5. a \in [0..m -> T]
  <2>1. \A k \in 0..m : q + k \in Nat
    BY <1>1
  <2> HIDE DEF T
  <2> QED BY <1>4, <2>1
<1>6. ASSUME NEW y \in T, NEW k \in 1..m
      PROVE  Process(y, s[k], add) \in T
  <2>1. s[k] \in B
    <3>1. s[k] = Message(64 * ((q + k) - 1) + 1, 64 * (q + k)) /\ q + k \in Nat
      BY <1>1, <1>2
    <3> QED BY <3>1
  <2> HIDE DEF B, Flags, add
  <2> QED BY <1>1, <2>1, ProcessType
<1>7. ASSUME NEW k \in 1..m
      PROVE  a[k] = Process(a[k - 1], s[k], add)
  <2> DEFINE i == q + (k - 1)
             f == First(Marked, i)
             p == 64 * i
             u == p + add
  <2>1. i \in Nat /\ i + 1 = q + k /\ (i + 1) - 1 = i /\ u = 64 * (i + 1) /\ k \in 0..m /\ k - 1 \in 0..m
    BY <1>1
  <2>2. a[k] = SkeinAfter(i + 1, x) /\ a[k - 1] = SkeinAfter(i, x)
    BY <2>1
  <2>3. s[k] = Message(64 * ((i + 1) - 1) + 1, 64 * (i + 1))
    BY <1>1, <1>2
  <2> HIDE DEF i, a, add, u
  <2>4. Process(SkeinContext(f, "msg", p, Fresh(i), No, x), s[k], add)
          = SkeinContext(Append(f, Frame(SkeinTweak("msg", u, Fresh(i), No), s[k])), "msg", u, No, No, x)
    BY ProcessIs DEF u
  <2>5. Marked[i + 1] = Frame(SkeinTweak("msg", u, Fresh(i), No), s[k])
    BY <2>1, <2>3 DEF Marked
  <2>6. Append(f, Marked[i + 1]) = First(Marked, i + 1)
    BY <2>1, FirstGrows
  <2>7. Fresh(i + 1) = No
    BY <2>1, FreshIs
  <2>8. SkeinAfter(i, x) = SkeinContext(f, "msg", p, Fresh(i), No, x)
    BY DEF SkeinAfter
  <2>9. SkeinAfter(i + 1, x) = SkeinContext(First(Marked, i + 1), "msg", u, No, No, x)
    BY <2>1, <2>7 DEF SkeinAfter
  <2> HIDE DEF f, p
  <2> QED BY <2>2, <2>4, <2>5, <2>6, <2>8, <2>9
<1> HIDE DEF T, a, add
<1>8. m \in Nat
  BY <1>1
<1>9. IsSequence(s, m)
  BY <1>2
<1>10. ProcessBlocks(a[0], s, add) = a[m]
  <2>1. ProcessRun(m, s, T, a, add)
    BY ONLY <1>5, <1>6, <1>7, <1>8, <1>9 DEF ProcessRun
  <2> QED BY <2>1, ProcessRuns
<1>11. a[0] = SkeinAfter(q, x) /\ a[m] = SkeinAfter(r, x)
  BY <1>1 DEF a
<1> QED BY <1>10, <1>11 DEF s, add

(* Nothing of the message. *)
LEMMA NoMessage ==
  ASSUME NEW k \in Nat
  PROVE  Message(k + 1, k) = <<>>
<1>1. k + 1 \in Nat \ {0} /\ k + 1 <= k + 1 /\ k - (k + 1) + 1 = 0
  OBVIOUS
<1>2. IsSequence(Message(k + 1, k), 0)
  BY <1>1, MessageIs
<1> QED BY <1>2, EmptyIs

(* The blocks that are known not to be the last: q after n bytes, of which *)
(* h are behind them, and r after l more.                                  *)
AreKnown(n, l, q, h, r) ==
  /\ q \in Nat /\ h \in 0..64 /\ n = 64 * q + h /\ (h = 0 => n = 0 /\ q = 0)
  /\ h + l <= 64 => r = q
  /\ h + l > 64 => r = (n + l - 1) \div 64
  /\ r \in Nat /\ 64 * r <= n + l /\ (n + l > 0 => 64 * r < n + l)

(* They are. *)
LEMMA KnownAre ==
  ASSUME NEW n \in Nat, NEW l \in Nat
  PROVE  AreKnown(n, l, Known(n), n - 64 * Known(n), Known(n + l))
<1>1. CASE n = 0
  BY <1>1 DEF Known, AreKnown
<1>2. CASE n > 0
  BY <1>2 DEF Known, AreKnown
<1> QED BY <1>1, <1>2

(* The block behind q of them. *)
LEMMA MarkedIs ==
  ASSUME NEW q \in Nat
  PROVE  Marked[q + 1] = Frame(SkeinTweak("msg", 64 * (q + 1), Fresh(q), No), Message(64 * q + 1, 64 * (q + 1)))
<1>1. q + 1 \in Nat /\ (q + 1) - 1 = q
  OBVIOUS
<1> QED BY <1>1 DEF Marked

(* The fields of the context after some blocks. *)
LEMMA AfterFields ==
  ASSUME NEW q, NEW x, NEW u
  PROVE  SkeinAfter(q, x).b = x /\ SkeinAfter(q, x).frames = First(Marked, q)
         /\ [SkeinAfter(q, x) EXCEPT !.b = u] = SkeinAfter(q, u)
BY StateFields DEF SkeinAfter, SkeinContext

(* One more block. *)
LEMMA AfterOne ==
  ASSUME NEW q \in Nat, NEW x
  PROVE  ProcessBlocks(SkeinAfter(q, x), <<Message(64 * q + 1, 64 * (q + 1))>>, 64) = SkeinAfter(q + 1, x)
<1> DEFINE f == First(Marked, q)
           p == 64 * q
           add == 64
           block == Message(64 * q + 1, 64 * (q + 1))
           first == Fresh(q)
           o == 64 * (q + 1)
<1>1. p \in Int /\ add \in Int /\ p + add = o /\ q + 1 \in Nat /\ q + 1 > 0
  OBVIOUS
<1>2. IsSequence(f, q) /\ Append(f, Marked[q + 1]) = First(Marked, q + 1)
  BY FirstGrows
<1>3. Marked[q + 1] = Frame(SkeinTweak("msg", o, first, No), block)
  BY MarkedIs
<1>4. Fresh(q + 1) = No
  BY <1>1, FreshIs
<1>5. SkeinAfter(q, x) = SkeinContext(f, "msg", p, first, No, x)
  BY DEF SkeinAfter
<1>6. SkeinAfter(q + 1, x) = SkeinContext(First(Marked, q + 1), "msg", o, No, No, x)
  BY <1>4 DEF SkeinAfter
<1> HIDE DEF f, p, add, block, first, o
<1>7. ProcessBlocks(SkeinContext(f, "msg", p, first, No, x), <<block>>, add)
        = SkeinContext(Append(f, Frame(SkeinTweak("msg", p + add, first, No), block)), "msg", p + add, No, No, x)
  BY <1>1, <1>2, ProcessOne
<1>8. ProcessBlocks(SkeinAfter(q, x), <<block>>, add) = SkeinAfter(q + 1, x)
  BY <1>1, <1>2, <1>3, <1>5, <1>6, <1>7
<1> QED BY <1>8 DEF block, add

(* An update takes the next piece, whatever its length. *)
LEMMA SkeinStep ==
  ASSUME NEW n \in Nat, NEW l \in Nat
  PROVE  SkeinUpdate(SkeinAt(n), Message(n + 1, n + l)) = SkeinAt(n + l)
<1> DEFINE N == n + l
           q == Known(n)
           h == n - 64 * q
           r == Known(N)
           x == Message(64 * q + 1, n)
           c == SkeinAfter(q, x)
           data == Message(n + 1, N)
           more == Len(data) + Len(c.b) > 64
           fill == IF more /\ c.b # <<>> THEN 64 - Len(c.b) ELSE 0
           filled == IF more /\ c.b # <<>>
                     THEN [ProcessBlocks(c, <<c.b \o Take(data, fill)>>, 64) EXCEPT !.b = <<>>] ELSE c
           left == Drop(data, fill)
           k == IF more /\ Len(left) > 64 THEN (Len(left) - 1) \div 64 ELSE 0
           whole == ProcessBlocks(filled, Blocks(Take(left, 64 * k), 64), 64)
<1>1. /\ N \in Nat /\ q \in Nat /\ h \in 0..64 /\ n = 64 * q + h /\ (h = 0 => n = 0 /\ q = 0)
      /\ h + l <= 64 => r = q
      /\ h + l > 64 => r = (N - 1) \div 64
      /\ r \in Nat /\ 64 * r <= N /\ (N > 0 => 64 * r < N)
  <2>1. AreKnown(n, l, q, h, r)
    BY KnownAre
  <2> HIDE DEF q, h, r
  <2> QED BY <2>1 DEF AreKnown
<1> HIDE DEF q, h, r
<1>2. /\ n + 1 \in Nat \ {0} /\ n + 1 <= n + 1 /\ n <= N /\ n - (n + 1) + 1 = 0 /\ N - (n + 1) + 1 = l
      /\ 64 * q + 1 \in Nat \ {0} /\ 64 * q + 1 <= n + 1 /\ n - (64 * q + 1) + 1 = h
      /\ n + 1 <= N + 1
  BY <1>1
<1>3. /\ Len(data) = l /\ Drop(data, 0) = data /\ Take(data, 0) = Message(n + 1, n)
      /\ Len(x) = h /\ IsSequence(x, h) /\ x \o data = Message(64 * q + 1, N)
  <2>1. Len(data) = l /\ Drop(data, 0) = data /\ Take(data, 0) = Message(n + 1, n)
    <3> HIDE DEF N
    <3> QED BY <1>1, <1>2, MessageIs, MessageCut
  <2>2. Len(x) = h /\ IsSequence(x, h)
    BY <1>2, MessageIs
  <2>3. x \o data = Message(64 * q + 1, N)
    <3> HIDE DEF N
    <3> QED BY <1>1, <1>2, MessageJoin, ZenonT(30)
  <2> QED BY <2>1, <2>2, <2>3
<1>4. c.b = x
  BY AfterFields
<1>5. SkeinUpdate(c, data) = [whole EXCEPT !.b = whole.b \o Drop(left, 64 * k)]
  <2> HIDE DEF c, data
  <2> QED BY Zenon DEF SkeinUpdate
<1>6. SkeinAt(n) = c /\ SkeinAt(N) = SkeinAfter(r, Message(64 * r + 1, N))
  BY DEF SkeinAt, q, r
<1> SUFFICES SkeinUpdate(c, data) = SkeinAt(N)
  BY <1>6
<1> HIDE DEF N, x, c, data, more, fill, filled, left, k, whole
<1>7. ASSUME NEW i \in Nat, i <= r, NEW y, filled = SkeinAfter(i, y),
             Take(left, 64 * k) = Message(64 * i + 1, 64 * r), y \o Drop(left, 64 * k) = Message(64 * r + 1, N)
      PROVE  SkeinUpdate(c, data) = SkeinAt(N)
  <2>1. whole = SkeinAfter(r, y)
    BY <1>1, <1>7, SkeinBulk DEF whole
  <2>2. whole.b = y /\ [SkeinAfter(r, y) EXCEPT !.b = Message(64 * r + 1, N)] = SkeinAfter(r, Message(64 * r + 1, N))
    BY <2>1, AfterFields
  <2> QED BY <1>5, <1>6, <1>7, <2>1, <2>2
<1>8. more <=> h + l > 64
  BY <1>1, <1>3, <1>4 DEF more
<1>9. CASE h + l <= 64
  <2>1. ~ more /\ r = q
    BY <1>1, <1>8, <1>9
  <2>2. fill = 0 /\ filled = c /\ k = 0
    BY <2>1 DEF fill, filled, k
  <2>3. left = data
    BY <1>3, <2>2 DEF left
  <2>4. Message(n + 1, n) = Message(64 * q + 1, 64 * r) /\ q <= r
    <3>1. 64 * q \in Nat /\ q <= r
      BY <1>1, <2>1
    <3> QED BY <2>1, <3>1, NoMessage
  <2> DEFINE z == 64 * k
  <2>5. z = 0
    BY <2>2
  <2> HIDE DEF z
  <2>6. Take(left, z) = Message(64 * q + 1, 64 * r) /\ x \o Drop(left, z) = Message(64 * r + 1, N)
    BY <1>3, <2>1, <2>3, <2>4, <2>5
  <2> QED BY <1>1, <1>7, <2>2, <2>4, <2>6 DEF z, c
<1>10. ASSUME h + l > 64, NEW i \in Nat, 64 * i < N, filled = SkeinAfter(i, <<>>), left = Message(64 * i + 1, N)
       PROVE  SkeinUpdate(c, data) = SkeinAt(N)
  <2>1. more
    BY <1>8, <1>10
  <2>2. /\ 64 * i + 1 \in Nat \ {0} /\ 64 * i + 1 <= N + 1 /\ N - (64 * i + 1) + 1 = N - 64 * i
        /\ r = (N - 1) \div 64
    BY <1>1, <1>10
  <2>3. Len(left) = N - 64 * i
    BY <1>1, <1>10, <2>2, MessageIs
  <2>4. k = IF N - 64 * i > 64 THEN (N - 64 * i - 1) \div 64 ELSE 0
    BY <2>1, <2>3 DEF k
  <2>5. k = r - i /\ i <= r
    <3>1. N \in Int
      BY <1>1
    <3>2. CASE N - 64 * i > 64
      BY <2>2, <2>4, <3>1, <3>2
    <3>3. CASE ~ (N - 64 * i > 64)
      BY <1>10, <2>2, <2>4, <3>1, <3>3
    <3> QED BY <3>2, <3>3
  <2>6. 64 * r \in Nat /\ 64 * i + 1 <= 64 * r + 1 /\ 64 * r <= N /\ 64 * r - (64 * i + 1) + 1 = 64 * k
    BY <1>1, <2>5
  <2>7. Take(left, 64 * k) = Message(64 * i + 1, 64 * r) /\ Drop(left, 64 * k) = Message(64 * r + 1, N)
    <3> DEFINE a == 64 * i + 1
               b == 64 * r
    <3>1. a \in Nat \ {0} /\ b \in Nat /\ N \in Nat /\ a <= b + 1 /\ b <= N /\ b - a + 1 = 64 * k
      BY <1>1, <2>2, <2>6
    <3> HIDE DEF a, b
    <3>2. Take(Message(a, N), b - a + 1) = Message(a, b) /\ Drop(Message(a, N), b - a + 1) = Message(b + 1, N)
      BY ONLY <3>1, MessageCut
    <3>3. Take(left, 64 * k) = Message(a, b) /\ Drop(left, 64 * k) = Message(b + 1, N)
      BY <1>10, <3>1, <3>2 DEF a
    <3> QED BY <3>3 DEF a, b
  <2>8. <<>> \o Message(64 * r + 1, N) = Message(64 * r + 1, N)
    <3> DEFINE b == 64 * r
    <3>1. b \in Nat /\ N \in Nat /\ b + 1 \in Nat \ {0} /\ b + 1 <= b + 1 /\ b <= N
      BY <1>1, <2>6
    <3> HIDE DEF b
    <3>2. Message(b + 1, b) \o Message(b + 1, N) = Message(b + 1, N)
      BY <3>1, MessageJoin
    <3>3. Message(b + 1, b) = <<>>
      BY <3>1, NoMessage
    <3> QED BY <3>2, <3>3 DEF b
  <2> QED BY <1>7, <1>10, <2>5, <2>7, <2>8
<1>11. CASE h = 0 /\ h + l > 64
  <2>1. x = <<>> /\ n = 0 /\ q = 0
    <3>1. x = <<>>
      BY <1>3, <1>11, EmptyIs
    <3> QED BY <1>1, <1>11, <3>1
  <2>2. fill = 0 /\ filled = c
    BY <1>4, <2>1 DEF fill, filled
  <2>3. left = data
    BY <1>3, <2>2 DEF left
  <2>4. 64 * 0 < N /\ left = Message(64 * 0 + 1, N) /\ filled = SkeinAfter(0, <<>>)
    <3>1. 64 * 0 < N
      BY <1>1, <1>11, <2>1
    <3>2. 64 * 0 + 1 = n + 1
      BY <2>1
    <3> QED BY <2>1, <2>2, <2>3, <3>1, <3>2 DEF c, data
  <2>5. ASSUME NEW i \in Nat, i = 0 PROVE SkeinUpdate(c, data) = SkeinAt(N)
    <3>1. 64 * i < N /\ left = Message(64 * i + 1, N) /\ filled = SkeinAfter(i, <<>>)
      BY <2>4, <2>5
    <3> QED BY <1>10, <1>11, <3>1
  <2> QED BY <2>5
<1>12. CASE h > 0 /\ h + l > 64
  <2> DEFINE i == q + 1
             e == 64 * i
  <2>1. /\ e \in Nat /\ n + 1 <= e + 1 /\ e <= N /\ e < N /\ e - (n + 1) + 1 = 64 - h /\ i \in Nat /\ i > 0
        /\ n <= e
    BY <1>1, <1>12 DEF N
  <2>2. x # <<>>
    <3>1. Len(<<>>) = 0 /\ h # 0
      BY <1>12
    <3> QED BY <1>3, <3>1
  <2>3. fill = 64 - h /\ filled = [ProcessBlocks(c, <<x \o Take(data, 64 - h)>>, 64) EXCEPT !.b = <<>>]
    <3>1. fill = 64 - h
      BY <1>3, <1>4, <1>8, <1>12, <2>2 DEF fill
    <3>2. more
      BY <1>8, <1>12
    <3> QED BY <1>4, <2>2, <3>1, <3>2 DEF filled
  <2>4. Take(data, 64 - h) = Message(n + 1, e) /\ Drop(data, 64 - h) = Message(e + 1, N)
    <3> HIDE DEF e
    <3> QED BY <1>1, <1>2, <2>1, MessageCut DEF data
  <2>5. x \o Message(n + 1, e) = Message(64 * q + 1, e)
    <3> HIDE DEF e
    <3> QED BY <1>1, <1>2, <2>1, MessageJoin, ZenonT(30) DEF x
  <2>6. ProcessBlocks(c, <<Message(64 * q + 1, e)>>, 64) = SkeinAfter(i, x)
    BY <1>1, AfterOne DEF c
  <2>7. filled = SkeinAfter(i, <<>>) /\ left = Message(64 * i + 1, N)
    <3>1. left = Message(e + 1, N)
      <4> HIDE DEF e
      <4> QED BY <2>3, <2>4 DEF left
    <3>2. [SkeinAfter(i, x) EXCEPT !.b = <<>>] = SkeinAfter(i, <<>>)
      BY AfterFields
    <3> HIDE DEF i
    <3> QED BY <2>3, <2>4, <2>5, <2>6, <3>1, <3>2
  <2> HIDE DEF i
  <2> QED BY <1>10, <1>12, <2>1, <2>7
<1>13. h = 0 \/ h > 0
  BY <1>1
<1>14. h + l <= 64 \/ h + l > 64
  BY <1>1
<1> QED BY <1>9, <1>11, <1>12, <1>13, <1>14

(* s, then zeros to the end of the block. *)
ZeroPadded(s, h) == [j \in 1..64 |-> IF j <= h THEN s[j] ELSE Const(0)]

(* The final block and the output block. *)
SkeinClosing(n, q, h) ==
  <<Frame(SkeinTweak("msg", n, Fresh(q), Yes), ZeroPadded(Message(64 * q + 1, n), h)),
    Frame(SkeinTweak("out", 8, Yes, Yes), Zeros(64))>>

(* What Skein makes of a message, block by block. *)
SkeinIs(t, n, q, h) ==
  /\ IsSequence(t, q + 2)
  /\ \A i \in 1..q : t[i] = Marked[i]
  /\ t[q + 1] = SkeinClosing(n, q, h)[1]
  /\ t[q + 2] = SkeinClosing(n, q, h)[2]

(* Zeros behind a sequence. *)
LEMMA ZeroPaddedIs ==
  ASSUME NEW h \in 0..64, NEW s, IsSequence(s, h)
  PROVE  s \o Zeros(64 - h) = ZeroPadded(s, h)
<1> DEFINE z == 64 - h
           u == s \o Zeros(z)
<1>1. h \in Nat /\ z \in Nat /\ h + z = 64
  OBVIOUS
<1> HIDE DEF z
<1>2. IsSequence(Zeros(z), z) /\ \A i \in 1..z : Zeros(z)[i] = Const(0)
  BY <1>1, FillIs
<1>3. Joined(u, s, h, Zeros(z), z)
  BY <1>1, <1>2, ConcatIs
<1> HIDE DEF u
<1>4. IsSequence(u, 64) /\ \A i \in 1..64 : u[i] = IF i <= h THEN s[i] ELSE Zeros(z)[i - h]
  BY <1>1, <1>3 DEF Joined
<1>5. ASSUME NEW i \in 1..64 PROVE u[i] = IF i <= h THEN s[i] ELSE Const(0)
  <2>1. ~ (i <= h) => i - h \in 1..z
    BY <1>1
  <2> QED BY <1>2, <1>4, <2>1
<1>6. u = ZeroPadded(s, h)
  BY <1>4, <1>5 DEF ZeroPadded, IsSequence
<1> QED BY <1>6 DEF u, z

(* The definition, block by block. *)
LEMMA SkeinFramesAre ==
  ASSUME NEW n \in Nat, NEW q \in Nat, NEW h \in 0..64, n = 64 * q + h, h = 0 => n = 0
  PROVE  SkeinIs(SkeinFrames(n), n, q, h)
<1> DEFINE N == IF n = 0 THEN 1 ELSE (n + 63) \div 64
           Cell(k) == IF k <= n THEN Byte(k) ELSE Const(0)
           pos(i) == IF 64 * i < n THEN 64 * i ELSE n
           first(i) == i = 1
           final(i) == i = N
           block(i) == [j \in 1..64 |-> Cell(64 * (i - 1) + j)]
           Out == Frame([type |-> "out", pos |-> 8, first |-> TRUE, final |-> TRUE], Zeros(64))
           body == [i \in 1..N |-> Frame([type |-> "msg", pos |-> pos(i), first |-> first(i), final |-> final(i)], block(i))]
           t == SkeinFrames(n)
           x == Message(64 * q + 1, n)
<1>2. q \in Nat /\ h \in 0..64 /\ n = 64 * q + h /\ N = q + 1
  <2>1. q \in Nat /\ h \in 0..64 /\ n = 64 * q + h /\ (h = 0 => n = 0 /\ q = 0)
    OBVIOUS
  <2>2. N = q + 1
    <3>1. CASE n = 0
      BY <3>1, <2>1
    <3>2. CASE n > 0
      <4>1. h > 0
        BY <2>1, <3>2
      <4> QED BY <2>1, <3>2, <4>1
    <3> QED BY <3>1, <3>2
  <2> QED BY <2>1, <2>2
<1>3. t = body \o <<Out>>
  BY DEF SkeinFrames
<1>4. \A i : first(i) <=> i = 1
  OBVIOUS
<1>5. \A i : final(i) <=> i = N
  OBVIOUS
<1>6. ASSUME NEW i \in Nat \ {0} PROVE first(i) = Fresh(i - 1)
  <2>1. i = 1 <=> i - 1 = 0
    OBVIOUS
  <2> QED BY <2>1, Zenon DEF Fresh
<1>7. ASSUME NEW i PROVE /\ i = N => final(i) = Yes
                         /\ ~ (i = N) => final(i) = No
  BY Zenon DEF Yes, No
<1>8. Out = Frame(SkeinTweak("out", 8, Yes, Yes), Zeros(64))
  BY Zenon DEF Yes, SkeinTweak
<1> HIDE DEF first, final, N, Out, t
<1>9. IsSequence(body, N) /\ \A i \in 1..N : body[i] = Frame(SkeinTweak("msg", pos(i), first(i), final(i)), block(i))
  BY DEF IsSequence, SkeinTweak
<1> HIDE DEF body
<1>10. IsSequence(t, q + 2) /\ (\A i \in 1..N : t[i] = body[i]) /\ t[q + 2] = Out
  <2> DEFINE o == <<Out>>
  <2>1. IsSequence(o, 1) /\ o[1] = Out /\ N \in Nat /\ 1 \in Nat
    BY <1>2, OneIs
  <2> HIDE DEF o
  <2>2. Joined(body \o o, body, N, o, 1)
    BY <1>9, <2>1, ConcatIs
  <2>3. t = body \o o
    BY <1>3 DEF o
  <2>4. N + 1 = q + 2 /\ q + 2 \in 1..(N + 1) /\ ~ (q + 2 <= N) /\ (q + 2) - N = 1
        /\ \A i \in 1..N : i \in 1..(N + 1) /\ i <= N
    BY <1>2
  <2>5. IsSequence(t, N + 1) /\ \A i \in 1..(N + 1) : t[i] = IF i <= N THEN body[i] ELSE o[i - N]
    BY <2>2, <2>3 DEF Joined
  <2>6. \A i \in 1..N : t[i] = body[i]
    BY <2>4, <2>5
  <2>7. t[q + 2] = o[(q + 2) - N]
    BY <2>4, <2>5
  <2> QED BY <2>1, <2>4, <2>5, <2>6, <2>7
<1>11. ASSUME NEW i \in 1..q PROVE t[i] = Marked[i]
  <2> DEFINE p == 64 * (i - 1)
  <2>1. i \in Nat \ {0} /\ i \in 1..N /\ ~ (i = N) /\ 64 * i <= n /\ p \in Nat /\ 64 * i = p + 64
    BY <1>2
  <2>2. pos(i) = 64 * i
    <3>1. 64 * i < n \/ 64 * i = n
      BY <2>1
    <3> QED BY <3>1
  <2>3. block(i) = [j \in 1..64 |-> Byte(p + j)]
    <3>1. \A j \in 1..64 : p + j <= n
      BY <2>1
    <3> QED BY <3>1
  <2>4. Message(64 * (i - 1) + 1, 64 * i) = [j \in 1..64 |-> Byte(p + j)]
    <3>1. 64 \in Nat \ {0}
      OBVIOUS
    <3> QED BY <2>1, <3>1, BlockIs
  <2>5. Marked[i] = Frame(SkeinTweak("msg", 64 * i, Fresh(i - 1), No), Message(64 * (i - 1) + 1, 64 * i))
    BY <2>1 DEF Marked
  <2>6. first(i) = Fresh(i - 1) /\ final(i) = No
    BY <1>6, <1>7, <2>1
  <2> HIDE DEF p, block, pos
  <2> QED BY <1>9, <1>10, <2>1, <2>2, <2>3, <2>4, <2>5, <2>6
<1>12. t[q + 1] = Frame(SkeinTweak("msg", n, Fresh(q), Yes), ZeroPadded(x, h))
  <2>1. q + 1 \in 1..N /\ q + 1 = N /\ (q + 1) - 1 = q /\ q + 1 \in Nat \ {0} /\ ~ (64 * (q + 1) < n)
    BY <1>2
  <2>2. pos(q + 1) = n
    BY <2>1
  <2>3. first(q + 1) = Fresh(q) /\ final(q + 1) = Yes
    BY <1>6, <1>7, <2>1
  <2>4. block(q + 1) = ZeroPadded(x, h)
    <3>1. \A j \in 1..h : x[j] = Byte(64 * q + j)
      <4>1. 64 * q + 1 \in Nat \ {0} /\ 64 * q + 1 <= n + 1 /\ n - (64 * q + 1) + 1 = h
        BY <1>2
      <4>2. \A j \in 1..h : x[j] = Byte((64 * q + 1) + j - 1)
        BY <4>1, MessageIs
      <4>3. \A j \in 1..h : (64 * q + 1) + j - 1 = 64 * q + j
        BY <1>2
      <4> QED BY <4>2, <4>3
    <3> HIDE DEF x
    <3>2. \A j \in 1..64 : /\ 64 * q + j <= n <=> j <= h
                           /\ j <= h => j \in 1..h
      BY <1>2
    <3>3. \A j \in 1..64 : Cell(64 * q + j) = IF j <= h THEN x[j] ELSE Const(0)
      BY <3>1, <3>2
    <3> HIDE DEF Cell
    <3> QED BY <2>1, <3>3 DEF ZeroPadded
  <2> HIDE DEF block, pos
  <2> QED BY <1>9, <1>10, <2>1, <2>2, <2>3, <2>4
<1>13. /\ SkeinClosing(n, q, h)[1] = Frame(SkeinTweak("msg", n, Fresh(q), Yes), ZeroPadded(x, h))
       /\ SkeinClosing(n, q, h)[2] = Frame(SkeinTweak("out", 8, Yes, Yes), Zeros(64))
  BY DEF SkeinClosing
<1> HIDE DEF x
<1> QED BY <1>8, <1>10, <1>11, <1>12, <1>13 DEF SkeinIs, t

(* The context for the final block, and the one for the output block. *)
LastOf(c) == [c EXCEPT !.tweak = [c.tweak EXCEPT !.final = Yes]]
OutputOf(c) == [[c EXCEPT !.tweak = SkeinTweak("out", 0, Yes, Yes)] EXCEPT !.b = Zeros(64)]

(* What SkeinFinal does, with c any context. *)
LEMMA FinalUnfolds ==
  ASSUME NEW c, NEW last, last = ProcessBlocks(LastOf(c), <<c.b \o Zeros(64 - Len(c.b))>>, Len(c.b))
  PROVE  SkeinFinal(c) = ProcessBlocks(OutputOf(last), <<OutputOf(last).b>>, 8)
<1> DEFINE block == <<c.b \o Zeros(64 - Len(c.b))>>
           add == Len(c.b)
           c1 == [c EXCEPT !.tweak.final = TRUE]
           o1 == [ProcessBlocks(c1, block, add) EXCEPT !.tweak = StartNewType("out", TRUE), !.b = Zeros(64)]
<1>1. SkeinFinal(c) = ProcessBlocks(o1, <<o1.b>>, 8)
  BY Zenon DEF SkeinFinal
<1>2. c1 = LastOf(c)
  BY Zenon DEF LastOf, Yes
<1>3. StartNewType("out", TRUE) = SkeinTweak("out", 0, Yes, Yes)
  BY Zenon DEF StartNewType, SkeinTweak, Yes
<1> HIDE DEF c1
<1>4. o1 = [last EXCEPT !.tweak = SkeinTweak("out", 0, Yes, Yes), !.b = Zeros(64)]
  BY <1>2, <1>3
<1> HIDE DEF o1
<1> DEFINE w == SkeinTweak("out", 0, Yes, Yes)
           z == Zeros(64)
<1> HIDE DEF w, z
<1>5. [last EXCEPT !.tweak = w, !.b = z] = [[last EXCEPT !.tweak = w] EXCEPT !.b = z]
  OBVIOUS
<1>6. o1 = OutputOf(last)
  BY <1>4, <1>5 DEF OutputOf, w, z
<1> QED BY <1>1, <1>6

(* The end of any message: all its blocks and the output block. *)
LEMMA SkeinEnd ==
  ASSUME NEW n \in Nat
  PROVE  SkeinFinal(SkeinAt(n)).frames = SkeinFrames(n)
<1> DEFINE q == Known(n)
           h == n - 64 * q
           x == Message(64 * q + 1, n)
           c == SkeinAt(n)
           f == First(Marked, q)
           p == 64 * q
           first == Fresh(q)
           t == SkeinFrames(n)
           block == ZeroPadded(x, h)
           e1 == Frame(SkeinTweak("msg", n, first, Yes), block)
           e2 == Frame(SkeinTweak("out", 8, Yes, Yes), Zeros(64))
           d == SkeinContext(Append(f, e1), "msg", n, No, Yes, x)
           z == Zeros(64)
<1>1. q \in Nat /\ h \in 0..64 /\ n = 64 * q + h /\ (h = 0 => n = 0)
  <2>1. AreKnown(n, 0, q, h, Known(n + 0))
    BY KnownAre
  <2> HIDE DEF q, h
  <2> QED BY <2>1 DEF AreKnown
<1> HIDE DEF q, h
<1>2. SkeinIs(t, n, q, h)
  BY <1>1, SkeinFramesAre
<1>3. IsSequence(x, h) /\ Len(x) = h
  <2>1. 64 * q + 1 \in Nat \ {0} /\ 64 * q + 1 <= n + 1 /\ n - (64 * q + 1) + 1 = h
    BY <1>1
  <2> QED BY <2>1, MessageIs
<1>4. x \o Zeros(64 - h) = block
  <2> HIDE DEF x
  <2> QED BY <1>1, <1>3, ZeroPaddedIs
<1>5. c = SkeinContext(f, "msg", p, first, No, x)
  BY DEF SkeinAt, SkeinAfter, q
<1>6. /\ IsSequence(t, q + 2) /\ \A i \in 1..q : t[i] = Marked[i]
      /\ t[q + 1] = e1 /\ t[q + 2] = e2
  BY <1>2 DEF SkeinIs, SkeinClosing
<1>7. IsSequence(f, q) /\ p \in Int /\ h \in Int /\ p + h = n
  <2>1. IsSequence(f, q)
    BY <1>1, FirstGrows
  <2>2. p \in Int /\ h \in Int /\ p + h = n
    BY <1>1
  <2> QED BY <2>1, <2>2
<1> HIDE DEF x, first, p, t, block, f, c
<1>8. c.b = x /\ LastOf(c) = SkeinContext(f, "msg", p, first, Yes, x)
  <2> DEFINE v == SkeinTweak("msg", p, first, No)
             w == SkeinTweak("msg", p, first, Yes)
  <2>1. [v EXCEPT !.final = Yes] = w
    BY DEF SkeinTweak
  <2>2. c = SkeinState(f, v, x)
    BY <1>5 DEF SkeinContext
  <2> HIDE DEF v, w
  <2>3. c.b = x /\ c.tweak = v
    BY <2>2, StateFields
  <2>4. [SkeinState(f, v, x) EXCEPT !.tweak = w] = SkeinState(f, w, x)
    BY StateFields
  <2>5. LastOf(c) = SkeinState(f, w, x)
    BY <2>1, <2>2, <2>3, <2>4 DEF LastOf
  <2> QED BY <2>3, <2>5 DEF w, SkeinContext
<1>9. ProcessBlocks(LastOf(c), <<block>>, h) = d
  <2> HIDE DEF e1, e2, d
  <2>1. ProcessBlocks(SkeinContext(f, "msg", p, first, Yes, x), <<block>>, h)
          = SkeinContext(Append(f, Frame(SkeinTweak("msg", p + h, first, Yes), block)), "msg", p + h, No, Yes, x)
    BY <1>1, <1>7, ProcessOne
  <2> QED BY <1>7, <1>8, <2>1 DEF d, e1
<1>10. d = ProcessBlocks(LastOf(c), <<c.b \o Zeros(64 - Len(c.b))>>, Len(c.b))
  <2> HIDE DEF d
  <2> QED BY <1>3, <1>4, <1>8, <1>9
<1> HIDE DEF d, z
<1>11. SkeinFinal(c) = ProcessBlocks(OutputOf(d), <<OutputOf(d).b>>, 8)
  BY <1>10, FinalUnfolds
<1>12. OutputOf(d) = SkeinContext(Append(f, e1), "out", 0, Yes, Yes, z) /\ OutputOf(d).b = z
  <2> DEFINE g == Append(f, e1)
             v == SkeinTweak("msg", n, No, Yes)
             w == SkeinTweak("out", 0, Yes, Yes)
  <2>1. d = SkeinState(g, v, x)
    BY DEF d, SkeinContext
  <2> HIDE DEF g, v, w, e1, e2
  <2>2. [SkeinState(g, v, x) EXCEPT !.tweak = w] = SkeinState(g, w, x)
    BY StateFields
  <2>3. [SkeinState(g, w, x) EXCEPT !.b = z] = SkeinState(g, w, z) /\ SkeinState(g, w, z).b = z
    BY StateFields
  <2>4. OutputOf(d) = SkeinState(g, w, z)
    BY <2>1, <2>2, <2>3 DEF OutputOf, w, z
  <2> QED BY <2>3, <2>4 DEF SkeinContext, g, w
<1> DEFINE g == Append(f, e1)
           j == q + 1
           o == 0
           add == 8
<1>13. IsSequence(g, j) /\ j \in Nat /\ o \in Int /\ add \in Int /\ o + add = 8
  <2>1. Longer(g, f, q, e1)
    <3> HIDE DEF e1
    <3> QED BY <1>1, <1>7, AppendIs
  <2> HIDE DEF g
  <2> QED BY <1>1, <2>1 DEF Longer
<1>14. ProcessBlocks(SkeinContext(g, "out", o, Yes, Yes, z), <<z>>, add)
         = SkeinContext(Append(g, Frame(SkeinTweak("out", o + add, Yes, Yes), z)), "out", o + add, No, Yes, z)
  <2> HIDE DEF g, j, o, add, e1, e2
  <2> QED BY <1>13, ProcessOne
<1>15. SkeinFinal(c) = SkeinContext(Append(g, e2), "out", 8, No, Yes, z)
  <2>1. Frame(SkeinTweak("out", o + add, Yes, Yes), z) = e2
    <3> HIDE DEF o, add
    <3> QED BY <1>13 DEF e2, z
  <2>2. SkeinFinal(c) = ProcessBlocks(SkeinContext(g, "out", o, Yes, Yes, z), <<z>>, add)
    <3> HIDE DEF e1, e2
    <3> QED BY <1>11, <1>12
  <2>3. o + add = 8
    BY <1>13
  <2> HIDE DEF g, o, add, e2
  <2> QED BY <1>14, <2>1, <2>2, <2>3
<1>16. Append(g, e2) = t
  <2> HIDE DEF e1, e2
  <2>1. EndsInTwo(t, Marked, q, e1, e2)
    BY <1>6 DEF EndsInTwo
  <2> QED BY <1>1, <2>1, EndsWithTwo DEF f
<1>17. SkeinContext(Append(g, e2), "out", 8, No, Yes, z).frames = Append(g, e2)
  <2> DEFINE w == SkeinTweak("out", 8, No, Yes)
             y == Append(g, e2)
  <2> HIDE DEF y, w
  <2>1. SkeinState(y, w, z).frames = y
    BY StateFields
  <2> QED BY <2>1 DEF SkeinContext, w, y
<1>18. SkeinFinal(c).frames = t
  <2> HIDE DEF g, e2
  <2> QED BY <1>15, <1>16, <1>17
<1> QED BY <1>18 DEF c, t
-----------------------------------------------------------------------------
(* BLAKE-256. *)

(* The two words that count b bits. *)
Low(b) == b % BlakeWord
High(b) == b \div BlakeWord

(* Blocks count 512 bits each, and the low word holds a whole number of    *)
(* them: V.                                                                *)
InBlocks(V) == V \in Nat \ {0} /\ BlakeWord = 512 * V

(* There is such a number. *)
LEMMA BlakeWordIs ==
  \E V \in Nat \ {0} : InBlocks(V)
<1> DEFINE V == BlakeWord \div 512
<1>1. BlakeWord \in Nat \ {0} /\ BlakeWord % 512 = 0
  BY BlakeWordAssumption
<1>2. V \in Nat \ {0} /\ InBlocks(V)
  BY <1>1 DEF InBlocks
<1> HIDE DEF V
<1> QED BY <1>2

(* The words for q blocks and e bits more. *)
Counts(q, e, V) == Low(512 * q + e) = 512 * (q % V) + e /\ High(512 * q + e) = q \div V

(* They do not carry into one another inside a block. *)
LEMMA BitsAre ==
  ASSUME NEW q \in Nat, NEW e \in 0..511, NEW V, InBlocks(V)
  PROVE  Counts(q, e, V)
<1> DEFINE d == q \div V
           r == q % V
           a == 512 * q + e
           s == 512 * r + e
           W == BlakeWord
<1>0. V \in Nat \ {0} /\ W = 512 * V
  BY DEF InBlocks
<1>1. d \in Nat /\ r \in 0..(V - 1) /\ q = V * d + r
  BY <1>0, DivMod
<1> HIDE DEF d, r
<1>2. W * d = 512 * (V * d)
  BY <1>0, <1>1
<1>3. a \in Int /\ W \in Nat \ {0} /\ d \in Int /\ s \in 0..(W - 1)
  BY <1>0, <1>1
<1> DEFINE m == V * d
<1>4. m \in Int
  BY <1>0, <1>1
<1>5. a = W * d + s
  <2>1. q = m + r /\ W * d = 512 * m /\ r \in Int
    BY <1>1, <1>2
  <2> DEFINE y == W * d
  <2> HIDE DEF m, W, y
  <2>2. a = y + s
    BY <1>4, <2>1 DEF y
  <2> QED BY <2>2 DEF y
<1> HIDE DEF a, s, W
<1>6. d = a \div W /\ s = a % W
  BY <1>3, <1>5, DivModUnique
<1> QED BY <1>6 DEF Counts, Low, High, a, s, W, d, r

(* What an addition makes of the words: the low word is reduced once.      *)
LEMMA LowAdds ==
  ASSUME NEW a \in Int, NEW b \in Int
  PROVE  Low(Low(a) + b) = Low(a + b) /\ Low(Low(a) - b) = Low(a - b) /\ Low(a) \in Int
<1> DEFINE W == BlakeWord
           d == a \div W
           r == a % W
<1>1. W \in Nat \ {0}
  BY BlakeWordAssumption
<1>2. d \in Int /\ r \in Int /\ a = W * d + r
  BY <1>1
<1> HIDE DEF d, r, W
<1>3. ASSUME NEW k \in Int PROVE (r + k) % W = (a + k) % W
  <2> DEFINE u == r + k
             i == u \div W
             j == u % W
             v == i + d
             x == a + k
  <2>1. u \in Int /\ x \in Int
    BY <1>2
  <2> HIDE DEF u
  <2>2. i \in Int /\ j \in 0..(W - 1) /\ u = W * i + j
    BY <1>1, <2>1
  <2> HIDE DEF i, j
  <2>3. x = W * v + j /\ v \in Int
    <3>1. W * (i + d) = W * i + W * d
      BY <1>1, <1>2, <2>2
    <3> DEFINE m == W * i
               n == W * d
               o == W * (i + d)
    <3>2. m \in Int /\ n \in Int /\ o = m + n /\ a = n + r /\ u = m + j
      BY <1>1, <1>2, <2>2, <3>1
    <3> HIDE DEF m, n, o
    <3>3. x = o + j
      BY <1>2, <2>2, <3>2 DEF u
    <3> QED BY <1>2, <2>2, <3>3 DEF o
  <2> HIDE DEF x, v
  <2>4. j = x % W
    BY <1>1, <2>1, <2>2, <2>3, DivModUnique
  <2> QED BY <2>4 DEF j, u, x
<1>4. (r + b) % W = (a + b) % W
  BY <1>3
<1>5. (r + (-b)) % W = (a + (-b)) % W
  BY <1>3
<1>6. r + (-b) = r - b /\ a + (-b) = a - b
  BY <1>2
<1>7. Low(a) = r /\ \A x : Low(x) = x % W
  BY DEF Low, r, W
<1> QED BY <1>2, <1>4, <1>5, <1>6, <1>7

(* The next block: the low word is zero when it wrapped, and only then. *)
LEMMA BlockCounts ==
  ASSUME NEW q \in Nat
  PROVE  /\ Low(Low(512 * q) + 512) = Low(512 * (q + 1))
         /\ High(512 * (q + 1)) = IF Low(512 * (q + 1)) = 0 THEN High(512 * q) + 1 ELSE High(512 * q)
<1>1. PICK V \in Nat \ {0} : InBlocks(V)
  BY BlakeWordIs
<1>2. Low(Low(512 * q) + 512) = Low(512 * (q + 1))
  <2>1. 512 * q \in Int /\ 512 \in Int /\ 512 * q + 512 = 512 * (q + 1)
    OBVIOUS
  <2>2. Low(Low(512 * q) + 512) = Low(512 * q + 512)
    BY <2>1, LowAdds
  <2> QED BY <2>1, <2>2
<1>3. ASSUME NEW k \in Nat
      PROVE  Low(512 * k) = 512 * (k % V) /\ High(512 * k) = k \div V
  <2> DEFINE e == 0
  <2>1. e \in 0..511
    OBVIOUS
  <2> HIDE DEF e
  <2>2. Counts(k, e, V)
    BY <1>1, <2>1, BitsAre
  <2>3. 512 * k + e = 512 * k /\ 512 * (k % V) + e = 512 * (k % V)
    BY <1>1, DivMod DEF e
  <2> QED BY <2>2, <2>3 DEF Counts
<1>4. (q + 1) \div V = IF (q + 1) % V = 0 THEN (q \div V) + 1 ELSE q \div V
  BY Carry
<1>5. Low(512 * (q + 1)) = 0 <=> (q + 1) % V = 0
  <2> DEFINE k == q + 1
             r == (q + 1) % V
  <2>1. k \in Nat /\ (q + 1) % V \in Int
    BY DivMod
  <2>2. Low(512 * k) = 512 * r
    <3>1. Low(512 * k) = 512 * (k % V)
      <4> HIDE DEF k
      <4> QED BY <1>3, <2>1, ZenonT(30)
    <3> QED BY <3>1
  <2> HIDE DEF r
  <2>3. 512 * r = 0 <=> r = 0
    BY <2>1 DEF r
  <2> QED BY <2>2, <2>3 DEF r
<1>6. High(512 * (q + 1)) = (q + 1) \div V /\ High(512 * q) = q \div V
  <2> DEFINE k == q + 1
  <2>1. k \in Nat
    OBVIOUS
  <2>2. High(512 * k) = k \div V
    <3> HIDE DEF k
    <3> QED BY <1>3, <2>1
  <2> QED BY <1>3, <2>2
<1> QED BY <1>2, <1>4, <1>5, <1>6

(* A context, and the tag that goes with a block. *)
BlakeContext(f, lo, hi, nullt, x) == [frames |-> f, lo |-> lo, hi |-> hi, nullt |-> nullt, buf |-> x]
Tagged(nullt, hi, lo) == IF nullt THEN NoTag ELSE <<hi, lo>>
Carried(hi, lo) == IF lo = 0 THEN hi + 1 ELSE hi

(* The tag is one unless a flag is set. *)
LEMMA TaggedIs ==
  ASSUME NEW hi, NEW lo
  PROVE  Tagged(No, hi, lo) = <<hi, lo>> /\ Tagged(Yes, hi, lo) = NoTag
BY Zenon DEF Tagged, No, Yes

(* The contexts in which blocks of B are compressed. *)
BlakeContexts(B, x) ==
  [frames : Seq([tag : Int \X Int, block : B]), lo : Int, hi : Int, nullt : {No}, buf : {x}]

(* The fields of a context. *)
LEMMA BlakeFields ==
  ASSUME NEW f, NEW lo, NEW hi, NEW nullt, NEW x
  PROVE  /\ BlakeContext(f, lo, hi, nullt, x).frames = f
         /\ BlakeContext(f, lo, hi, nullt, x).lo = lo
         /\ BlakeContext(f, lo, hi, nullt, x).hi = hi
         /\ BlakeContext(f, lo, hi, nullt, x).nullt = nullt
         /\ BlakeContext(f, lo, hi, nullt, x).buf = x
BY DEF BlakeContext

(* A context with another field. *)
LEMMA BlakeWith ==
  ASSUME NEW f, NEW lo, NEW hi, NEW nullt, NEW x, NEW u
  PROVE  /\ [BlakeContext(f, lo, hi, nullt, x) EXCEPT !.frames = u] = BlakeContext(u, lo, hi, nullt, x)
         /\ [BlakeContext(f, lo, hi, nullt, x) EXCEPT !.lo = u] = BlakeContext(f, u, hi, nullt, x)
         /\ [BlakeContext(f, lo, hi, nullt, x) EXCEPT !.hi = u] = BlakeContext(f, lo, u, nullt, x)
         /\ [BlakeContext(f, lo, hi, nullt, x) EXCEPT !.nullt = u] = BlakeContext(f, lo, hi, u, x)
         /\ [BlakeContext(f, lo, hi, nullt, x) EXCEPT !.buf = u] = BlakeContext(f, lo, hi, nullt, u)
BY DEF BlakeContext

(* What a block does, with c any context. *)
LowOf(c) == Low(c.lo + 512)
HighOf(c) == Carried(c.hi, LowOf(c))
FramesOf(c, block) == Append(c.frames, Frame(Tagged(c.nullt, HighOf(c), LowOf(c)), block))

(* It does. *)
LEMMA CompressUnfolds ==
  ASSUME NEW c, NEW block
  PROVE  Compress(c, block)
           = [[[c EXCEPT !.lo = LowOf(c)] EXCEPT !.hi = HighOf(c)] EXCEPT !.frames = FramesOf(c, block)]
<1> DEFINE l == (c.lo + 512) % BlakeWord
           k == IF l = 0 THEN c.hi + 1 ELSE c.hi
           m == Append(c.frames, Frame(IF c.nullt THEN NoTag ELSE <<k, l>>, block))
           lo == LowOf(c)
           hi == HighOf(c)
           g == FramesOf(c, block)
<1>1. Compress(c, block) = [c EXCEPT !.lo = l, !.hi = k, !.frames = m]
  BY Zenon DEF Compress
<1>2. l = lo
  BY DEF Low, LowOf
<1>3. k = hi
  <2> HIDE DEF l
  <2> QED BY <1>2, Zenon DEF Carried, HighOf
<1>4. m = g
  <2> HIDE DEF l, k
  <2> QED BY <1>2, <1>3, Zenon DEF Tagged, FramesOf
<1> HIDE DEF l, k, m, lo, hi, g
<1>5. Compress(c, block) = [c EXCEPT !.lo = lo, !.hi = hi, !.frames = g]
  BY <1>1, <1>2, <1>3, <1>4
<1>6. [c EXCEPT !.lo = lo, !.hi = hi, !.frames = g] = [[[c EXCEPT !.lo = lo] EXCEPT !.hi = hi] EXCEPT !.frames = g]
  BY ONLY TRUE
<1> QED BY <1>5, <1>6 DEF lo, hi, g

(* The words after a block. *)
AreNext(lo, hi, l, h) == l = Low(lo + 512) /\ h = Carried(hi, l)

(* A block is a frame beside the bits up to its end. *)
LEMMA CompressIs ==
  ASSUME NEW f, NEW lo, NEW hi, NEW nullt, NEW x, NEW block, NEW l, NEW h, AreNext(lo, hi, l, h)
  PROVE  Compress(BlakeContext(f, lo, hi, nullt, x), block)
           = BlakeContext(Append(f, Frame(Tagged(nullt, h, l), block)), l, h, nullt, x)
<1> DEFINE c == BlakeContext(f, lo, hi, nullt, x)
           g == Append(f, Frame(Tagged(nullt, h, l), block))
<1>1. c.frames = f /\ c.lo = lo /\ c.hi = hi /\ c.nullt = nullt
  BY ONLY BlakeFields
<1>2. [c EXCEPT !.lo = l] = BlakeContext(f, l, hi, nullt, x)
  BY DEF BlakeContext
<1>3. [BlakeContext(f, l, hi, nullt, x) EXCEPT !.hi = h] = BlakeContext(f, l, h, nullt, x)
  BY ONLY BlakeWith
<1>4. [BlakeContext(f, l, h, nullt, x) EXCEPT !.frames = g] = BlakeContext(g, l, h, nullt, x)
  <2> HIDE DEF g
  <2> QED BY ONLY BlakeWith
<1> HIDE DEF c
<1>5. LowOf(c) = l
  BY <1>1 DEF LowOf, AreNext
<1>6. HighOf(c) = h
  BY <1>1, <1>5 DEF HighOf, AreNext
<1>7. FramesOf(c, block) = g
  BY <1>1, <1>5, <1>6 DEF FramesOf
<1> HIDE DEF g
<1>8. Compress(c, block)
        = [[[c EXCEPT !.lo = LowOf(c)] EXCEPT !.hi = HighOf(c)] EXCEPT !.frames = FramesOf(c, block)]
  BY ONLY CompressUnfolds
<1>9. Compress(c, block) = BlakeContext(g, l, h, nullt, x)
  BY ONLY <1>2, <1>3, <1>4, <1>5, <1>6, <1>7, <1>8
<1> QED BY <1>9 DEF c, g

(* A block keeps a context a context. *)
LEMMA CompressType ==
  ASSUME NEW B, NEW x, NEW c \in BlakeContexts(B, x), NEW block \in B
  PROVE  Compress(c, block) \in BlakeContexts(B, x)
<1> DEFINE S == [tag : Int \X Int, block : B]
           lo == LowOf(c)
           hi == HighOf(c)
           g == FramesOf(c, block)
<1>1. c.frames \in Seq(S) /\ c.lo \in Int /\ c.hi \in Int /\ c.nullt = No
  BY DEF BlakeContexts
<1>2. lo \in Int /\ hi \in Int
  <2>1. c.lo + 512 \in Int
    BY <1>1
  <2>2. lo \in Int
    BY <2>1, BlakeWordAssumption DEF Low, LowOf
  <2> HIDE DEF lo
  <2> QED BY <1>1, <2>2 DEF Carried, HighOf, lo
<1>3. Compress(c, block) = [[[c EXCEPT !.lo = lo] EXCEPT !.hi = hi] EXCEPT !.frames = g]
  BY ONLY CompressUnfolds
<1> HIDE DEF lo, hi
<1>4. g \in Seq(S)
  <2>1. Tagged(c.nullt, hi, lo) = <<hi, lo>>
    BY <1>1, TaggedIs
  <2>2. Frame(Tagged(c.nullt, hi, lo), block) \in S
    BY <1>2, <2>1 DEF Frame
  <2> HIDE DEF S
  <2> QED BY <1>1, <2>2, AppendProperties DEF FramesOf, lo, hi
<1>5. c \in [frames : Seq(S), lo : Int, hi : Int, nullt : {No}, buf : {x}]
  BY DEF BlakeContexts
<1> HIDE DEF g, S
<1>6. [[[c EXCEPT !.lo = lo] EXCEPT !.hi = hi] EXCEPT !.frames = g]
        \in [frames : Seq(S), lo : Int, hi : Int, nullt : {No}, buf : {x}]
  BY ONLY <1>2, <1>4, <1>5
<1> QED BY <1>3, <1>6 DEF BlakeContexts, S

(* The blocks of the message with the bits up to their end. *)
Counted == [i \in Nat |-> Frame(<<High(512 * i), Low(512 * i)>>, Message(64 * (i - 1) + 1, 64 * i))]

(* The context after q blocks, with x in the buffer; the context after n   *)
(* bytes, in whatever pieces that are taken.                               *)
BlakeAfter(q, x) == BlakeContext(First(Counted, q), Low(512 * q), High(512 * q), No, x)
BlakeAt(n) == BlakeAfter(n \div 64, Message(64 * (n \div 64) + 1, n))

(* The block behind q of them. *)
LEMMA CountedIs ==
  ASSUME NEW q \in Nat
  PROVE  Counted[q + 1] = Frame(<<High(512 * (q + 1)), Low(512 * (q + 1))>>, Message(64 * q + 1, 64 * (q + 1)))
<1>1. q + 1 \in Nat /\ (q + 1) - 1 = q
  OBVIOUS
<1> QED BY <1>1 DEF Counted

(* One more block. *)
LEMMA CompressNext ==
  ASSUME NEW q \in Nat, NEW x
  PROVE  Compress(BlakeAfter(q, x), Message(64 * q + 1, 64 * (q + 1))) = BlakeAfter(q + 1, x)
<1> DEFINE f == First(Counted, q)
           lo == Low(512 * q)
           hi == High(512 * q)
           l == Low(512 * (q + 1))
           h == High(512 * (q + 1))
           block == Message(64 * q + 1, 64 * (q + 1))
<1>1. AreNext(lo, hi, l, h)
  BY BlockCounts DEF Carried, AreNext
<1>2. Counted[q + 1] = Frame(Tagged(No, h, l), block)
  BY CountedIs, TaggedIs
<1>3. Append(f, Counted[q + 1]) = First(Counted, q + 1)
  BY FirstGrows
<1>4. BlakeAfter(q, x) = BlakeContext(f, lo, hi, No, x) /\ BlakeAfter(q + 1, x) = BlakeContext(First(Counted, q + 1), l, h, No, x)
  BY DEF BlakeAfter
<1> HIDE DEF f, lo, hi, l, h, block
<1>5. Compress(BlakeContext(f, lo, hi, No, x), block) = BlakeContext(Append(f, Frame(Tagged(No, h, l), block)), l, h, No, x)
  BY ONLY <1>1, CompressIs
<1> QED BY <1>2, <1>3, <1>4, <1>5 DEF block

(* Blocks that are compressed one after the other, as the values a in T.   *)
CompressRun(n, s, T, a) ==
  /\ n \in Nat
  /\ IsSequence(s, n)
  /\ a \in [0..n -> T]
  /\ \A y \in T, i \in 1..n : Compress(y, s[i]) \in T
  /\ \A i \in 1..n : a[i] = Compress(a[i - 1], s[i])

(* The last of them is what the fold gives. *)
LEMMA CompressRuns ==
  ASSUME NEW n, NEW s, NEW T, NEW a, CompressRun(n, s, T, a)
  PROVE  FoldLeft(Compress, a[0], s) = a[n]
<1>1. ASSUME NEW m \in Nat, IsSequence(s, m), NEW b \in [0..m -> T],
             \A y \in T, i \in 1..m : Compress(y, s[i]) \in T,
             \A i \in 1..m : b[i] = Compress(b[i - 1], s[i])
      PROVE  FoldLeft(Compress, b[0], s) = b[m]
  BY ONLY <1>1, m \in Nat, b \in [0..m -> T], FoldCompress
<1>2. n \in Nat
  BY DEF CompressRun
<1>3. IsSequence(s, n)
  BY DEF CompressRun
<1>4. a \in [0..n -> T]
  BY DEF CompressRun
<1>5. \A y \in T, i \in 1..n : Compress(y, s[i]) \in T
  BY DEF CompressRun
<1>6. \A i \in 1..n : a[i] = Compress(a[i - 1], s[i])
  BY DEF CompressRun
<1> QED BY ONLY <1>1, <1>2, <1>3, <1>4, <1>5, <1>6

(* No block at all. *)
LEMMA CompressNone ==
  ASSUME NEW c, NEW s, IsSequence(s, 0)
  PROVE  FoldLeft(Compress, c, s) = c
<1> DEFINE m == 0
           T == {c}
           a == [i \in 0..m |-> c]
<1>1. /\ m \in Nat /\ IsSequence(s, m) /\ a \in [0..m -> T] /\ a[0] = c /\ a[m] = c
      /\ \A y \in T, i \in 1..m : Compress(y, s[i]) \in T
      /\ \A i \in 1..m : a[i] = Compress(a[i - 1], s[i])
  OBVIOUS
<1> HIDE DEF a, m, T
<1>2. CompressRun(m, s, T, a)
  BY <1>1 DEF CompressRun
<1>3. FoldLeft(Compress, a[0], s) = a[m]
  BY ONLY <1>2, CompressRuns
<1> QED BY <1>1, <1>3

(* The whole blocks of a piece. *)
LEMMA BlakeBulk ==
  ASSUME NEW q \in Nat, NEW b \in Nat, 64 * q <= b, NEW x
  PROVE  /\ FoldLeft(Compress, BlakeAfter(q, x), Blocks(Message(64 * q + 1, b), 64)) = BlakeAfter(b \div 64, x)
         /\ Rest(Message(64 * q + 1, b), 64) = Message(64 * (b \div 64) + 1, b)
<1> DEFINE m == b \div 64 - q
           s == Blocks(Message(64 * q + 1, b), 64)
           B == {Message(64 * (i - 1) + 1, 64 * i) : i \in Nat}
           S == [tag : Int \X Int, block : B]
           T == BlakeContexts(B, x)
           a == [k \in 0..m |-> BlakeAfter(q + k, x)]
<1>1. /\ m \in Nat /\ IsSequence(s, m)
      /\ \A k \in 1..m : s[k] = Message(64 * (q + k - 1) + 1, 64 * (q + k))
      /\ Rest(Message(64 * q + 1, b), 64) = Message(64 * (b \div 64) + 1, b)
  BY MessageBlocks64, SMTT(20)
<1>2. q + m = b \div 64 /\ q + 0 = q
  OBVIOUS
<1> HIDE DEF m, s
<1>3. ASSUME NEW i \in Nat PROVE Low(i) \in Int /\ High(i) \in Int
  BY BlakeWordAssumption DEF Low, High
<1>4. ASSUME NEW i \in Nat \ {0} PROVE Counted[i] \in S
  <2> DEFINE lo == Low(512 * i)
             hi == High(512 * i)
             block == Message(64 * (i - 1) + 1, 64 * i)
  <2>1. Counted[i] = Frame(<<hi, lo>>, block)
    BY DEF Counted
  <2>2. lo \in Int /\ hi \in Int
    <3>1. 512 * i \in Nat
      OBVIOUS
    <3> QED BY <1>3, <3>1
  <2>3. block \in B
    OBVIOUS
  <2> HIDE DEF lo, hi, block, B
  <2> QED BY <2>1, <2>2, <2>3 DEF Frame
<1>5. ASSUME NEW k \in Nat PROVE BlakeAfter(k, x) \in T
  <2> DEFINE lo == Low(512 * k)
             hi == High(512 * k)
             f == First(Counted, k)
  <2>1. f \in Seq(S)
    <3>1. \A i \in 1..k : i \in Nat \ {0}
      OBVIOUS
    <3>2. First(Counted, k) \in [1..k -> S]
      <4> HIDE DEF S
      <4> QED BY <1>4, <3>1 DEF First
    <3> HIDE DEF S
    <3> QED BY <3>2, SeqDef
  <2>2. lo \in Int /\ hi \in Int
    <3>1. 512 * k \in Nat
      OBVIOUS
    <3> QED BY <1>3, <3>1
  <2>3. BlakeAfter(k, x) = BlakeContext(f, lo, hi, No, x)
    BY DEF BlakeAfter
  <2> HIDE DEF f, lo, hi, B
  <2> QED BY <2>1, <2>2, <2>3 DEF BlakeContext, BlakeContexts
<1>6. a \in [0..m -> T]
  <2>1. \A k \in 0..m : q + k \in Nat
    BY <1>1
  <2> HIDE DEF T
  <2> QED BY <1>5, <2>1
<1>7. ASSUME NEW y \in T, NEW k \in 1..m PROVE Compress(y, s[k]) \in T
  <2>1. s[k] \in B
    <3>1. s[k] = Message(64 * ((q + k) - 1) + 1, 64 * (q + k)) /\ q + k \in Nat
      BY <1>1
    <3> QED BY <3>1
  <2> HIDE DEF B
  <2> QED BY <2>1, CompressType
<1>8. ASSUME NEW k \in 1..m PROVE a[k] = Compress(a[k - 1], s[k])
  <2> DEFINE i == q + (k - 1)
  <2>1. i \in Nat /\ i + 1 = q + k /\ (q + k) - 1 = i /\ k \in 0..m /\ k - 1 \in 0..m
    BY <1>1
  <2>2. a[k] = BlakeAfter(i + 1, x) /\ a[k - 1] = BlakeAfter(i, x)
    BY <2>1
  <2>3. s[k] = Message(64 * i + 1, 64 * (i + 1))
    BY <1>1, <2>1
  <2> HIDE DEF i, a
  <2> QED BY <2>1, <2>2, <2>3, CompressNext
<1>9. a[0] = BlakeAfter(q, x) /\ a[m] = BlakeAfter(b \div 64, x)
  BY <1>1, <1>2
<1> HIDE DEF T, a
<1>10. CompressRun(m, s, T, a)
  BY ONLY <1>1, <1>6, <1>7, <1>8 DEF CompressRun
<1>11. FoldLeft(Compress, a[0], s) = a[m]
  BY ONLY <1>10, CompressRuns
<1> QED BY <1>1, <1>9, <1>11 DEF s

(* What an update does with the data once the buffer was flushed or left.  *)
Absorbs(c, y) ==
  [FoldLeft(Compress, c, Blocks(y, 64)) EXCEPT
     !.buf = IF Rest(y, 64) = <<>> THEN <<>> ELSE FoldLeft(Compress, c, Blocks(y, 64)).buf \o Rest(y, 64)]
Flushes(c, y) == c.buf # <<>> /\ Len(y) % 64 >= 64 - Len(c.buf)
Flushed(c, y) == [Compress(c, c.buf \o Take(y, 64 - Len(c.buf))) EXCEPT !.buf = <<>>]

(* An update, with c any context. *)
LEMMA UpdateUnfolds ==
  ASSUME NEW c, NEW y
  PROVE  /\ Flushes(c, y) => BlakeUpdate(c, y) = Absorbs(Flushed(c, y), Drop(y, 64 - Len(c.buf)))
         /\ ~ Flushes(c, y) => BlakeUpdate(c, y) = Absorbs(c, y)
<1>1. ASSUME Flushes(c, y)
      PROVE  BlakeUpdate(c, y) = Absorbs(Flushed(c, y), Drop(y, 64 - Len(c.buf)))
  BY <1>1, Zenon DEF BlakeUpdate, Absorbs, Flushes, Flushed
<1>2. ASSUME ~ Flushes(c, y)
      PROVE  BlakeUpdate(c, y) = Absorbs(c, y)
  BY <1>2, Zenon DEF BlakeUpdate, Absorbs, Flushes
<1> QED BY <1>1, <1>2

(* Data that is shorter than a block has no whole blocks. *)
LEMMA AbsorbsShort ==
  ASSUME NEW c, NEW l \in 0..63, NEW y, IsSequence(y, l)
  PROVE  Absorbs(c, y) = [c EXCEPT !.buf = IF y = <<>> THEN <<>> ELSE c.buf \o y]
<1>1. Blocks(y, 64) = [i \in 1..(l \div 64) |-> [j \in 1..64 |-> y[64 * (i - 1) + j]]] /\ Rest(y, 64) = Drop(y, 64 * (l \div 64))
  <2>1. l \in Nat /\ 64 \in Nat \ {0}
    OBVIOUS
  <2> QED BY <2>1, BlocksAre
<1>2. l \div 64 = 0 /\ 64 * (l \div 64) = 0
  OBVIOUS
<1>3. IsSequence(Blocks(y, 64), 0)
  BY <1>1, <1>2 DEF IsSequence
<1>4. Rest(y, 64) = y
  <2>1. l \in Nat /\ 0 \in 0..l /\ l - 0 = l /\ \A i \in 1..l : 0 + i = i
    OBVIOUS
  <2>2. IsSequence(Drop(y, 0), l - 0) /\ \A i \in 1..(l - 0) : Drop(y, 0)[i] = y[0 + i]
    BY <2>1, DropIs
  <2>3. Drop(y, 0) = y
    BY <2>1, <2>2 DEF IsSequence
  <2> QED BY <1>1, <1>2, <2>3
<1>5. FoldLeft(Compress, c, Blocks(y, 64)) = c
  BY <1>3, CompressNone
<1> QED BY <1>4, <1>5 DEF Absorbs

(* Data from the beginning of a block on. *)
LEMMA AbsorbsWhole ==
  ASSUME NEW q \in Nat, NEW b \in Nat, 64 * q <= b
  PROVE  Absorbs(BlakeAfter(q, <<>>), Message(64 * q + 1, b)) = BlakeAt(b)
<1> DEFINE r == b \div 64
           y == Message(64 * q + 1, b)
           rest == Message(64 * r + 1, b)
           f == First(Counted, r)
           lo == Low(512 * r)
           hi == High(512 * r)
           e == <<>>
<1>1. FoldLeft(Compress, BlakeAfter(q, e), Blocks(y, 64)) = BlakeAfter(r, e) /\ Rest(y, 64) = rest
  BY BlakeBulk, ZenonT(30)
<1>2. BlakeAfter(r, e) = BlakeContext(f, lo, hi, No, e) /\ BlakeAt(b) = BlakeContext(f, lo, hi, No, rest)
  BY DEF BlakeAfter, BlakeAt
<1>3. (IF rest = <<>> THEN <<>> ELSE e \o rest) = rest
  <2>1. e \o rest = rest
    <3> DEFINE a == 64 * r
    <3>1. a \in Nat /\ a + 1 \in Nat \ {0} /\ a + 1 <= a + 1 /\ a <= b
      OBVIOUS
    <3> HIDE DEF a
    <3>2. Message(a + 1, a) \o Message(a + 1, b) = Message(a + 1, b)
      BY <3>1, MessageJoin
    <3>3. Message(a + 1, a) = <<>>
      <4>1. a + 1 <= a + 1 /\ a - (a + 1) + 1 = 0
        BY <3>1
      <4>2. IsSequence(Message(a + 1, a), 0)
        BY <3>1, <4>1, MessageIs
      <4> QED BY <4>2, EmptyIs
    <3> QED BY <3>2, <3>3 DEF a
  <2> HIDE DEF rest, e
  <2>2. CASE rest = <<>>
    BY <2>2
  <2>3. CASE ~ (rest = <<>>)
    BY <2>1, <2>3
  <2> QED BY <2>2, <2>3
<1> HIDE DEF f, lo, hi, y, rest, r
<1>4. BlakeContext(f, lo, hi, No, e).buf = e
  BY BlakeFields
<1>5. [BlakeContext(f, lo, hi, No, e) EXCEPT !.buf = rest] = BlakeContext(f, lo, hi, No, rest)
  BY BlakeWith
<1> DEFINE c == BlakeAfter(q, e)
           d == BlakeContext(f, lo, hi, No, e)
<1>6. FoldLeft(Compress, c, Blocks(y, 64)) = d
  BY <1>1, <1>2
<1>7. Absorbs(c, y) = [d EXCEPT !.buf = IF rest = <<>> THEN <<>> ELSE d.buf \o rest]
  <2> HIDE DEF c, d
  <2> QED BY <1>1, <1>6 DEF Absorbs
<1> HIDE DEF e
<1>8. Absorbs(c, y) = BlakeContext(f, lo, hi, No, rest)
  BY <1>3, <1>4, <1>5, <1>7
<1> QED BY <1>2, <1>8 DEF y, e

(* The buffer of a context after some blocks. *)
LEMMA BlakeBuffer ==
  ASSUME NEW q, NEW x, NEW u
  PROVE  BlakeAfter(q, x).buf = x /\ [BlakeAfter(q, x) EXCEPT !.buf = u] = BlakeAfter(q, u)
<1> DEFINE f == First(Counted, q)
           lo == Low(512 * q)
           hi == High(512 * q)
<1>1. \A y : BlakeAfter(q, y) = BlakeContext(f, lo, hi, No, y)
  BY DEF BlakeAfter
<1> HIDE DEF f, lo, hi
<1> DEFINE n == No
<1> HIDE DEF n
<1>2. BlakeContext(f, lo, hi, n, x).buf = x
  BY BlakeFields
<1>3. [BlakeContext(f, lo, hi, n, x) EXCEPT !.buf = u] = BlakeContext(f, lo, hi, n, u)
  BY BlakeWith, SMTT(20)
<1> QED BY <1>1, <1>2, <1>3 DEF n

(* An update takes the next piece, when it is one that it takes in order.  *)
LEMMA BlakeStep ==
  ASSUME NEW n, NEW l, NEW q, NEW h, NEW data, IsPiece(n, l, q, h, data), BlakeFits(BlakeAt(n), l)
  PROVE  BlakeUpdate(BlakeAt(n), data) = BlakeAt(n + l)
<1> DEFINE f == First(Counted, q)
           lo == Low(512 * q)
           hi == High(512 * q)
           x == Message(64 * q + 1, n)
           c == BlakeAt(n)
           d == BlakeAt(n + l)
<1>1. n \in Nat /\ l \in Nat /\ q \in Nat /\ h \in 0..63 /\ n = 64 * q + h /\ q = n \div 64
  BY DEF IsPiece
<1>2. /\ data = Message(n + 1, n + l) /\ Len(data) = l
      /\ IsSequence(x, h) /\ Len(x) = h /\ x \o data = Message(64 * q + 1, n + l)
  BY DEF IsPiece
<1>3. c = BlakeAfter(q, x)
  BY <1>1 DEF BlakeAt
<1>4. BlakeAfter(q, x).buf = x
  BY BlakeBuffer
<1>5. c.buf = x
  BY <1>3, <1>4
<1>6. x = <<>> <=> h = 0
  <2>1. Len(<<>>) = 0
    OBVIOUS
  <2>2. h = 0 => IsSequence(x, 0)
    BY <1>2
  <2> HIDE DEF x
  <2> QED BY <1>2, <2>1, <2>2, EmptyIs
<1>7. h > 0 => l > 0 /\ (l < 64 \/ l % 64 >= 64 - h)
  <2>1. h > 0 => ~ (x = <<>>)
    BY <1>1, <1>6
  <2>2. BlakeFits(c, l)
    OBVIOUS
  <2> HIDE DEF x, c
  <2>3. h > 0 => l > 0 /\ (l < 64 \/ l % 64 >= 64 - Len(c.buf))
    BY <1>5, <2>1, <2>2 DEF BlakeFits
  <2>4. Len(c.buf) = h
    BY <1>2, <1>5
  <2> QED BY <2>3, <2>4
<1>8. Flushes(c, data) <=> h > 0 /\ l % 64 >= 64 - h
  <2>1. h > 0 <=> ~ (x = <<>>)
    BY <1>1, <1>6
  <2> HIDE DEF x, c
  <2> QED BY <1>2, <1>5, <2>1 DEF Flushes
<1>9. CASE h = 0
  <2>1. n = 64 * q /\ 64 * q <= n + l /\ n + l \in Nat
    BY <1>1, <1>9
  <2>2. data = Message(64 * q + 1, n + l)
    BY <1>2, <2>1
  <2>3. c = BlakeAfter(q, <<>>)
    BY <1>3, <1>6, <1>9
  <2>4. ~ (h > 0)
    BY <1>9
  <2>5. BlakeUpdate(c, data) = Absorbs(c, data)
    <3>1. ~ Flushes(c, data)
      BY <1>8, <2>4
    <3> HIDE DEF c
    <3> QED BY ONLY <3>1, UpdateUnfolds
  <2>6. Absorbs(BlakeAfter(q, <<>>), Message(64 * q + 1, n + l)) = d
    <3> DEFINE b == n + l
    <3>1. b \in Nat /\ 64 * q <= b
      BY <2>1
    <3> HIDE DEF b
    <3>2. Absorbs(BlakeAfter(q, <<>>), Message(64 * q + 1, b)) = BlakeAt(b)
      BY <1>1, <3>1, AbsorbsWhole
    <3> QED BY <3>2 DEF b
  <2> QED BY <2>2, <2>3, <2>5, <2>6
<1>10. CASE h > 0 /\ l % 64 >= 64 - h
  <2>1. h + l >= 64
    BY <1>1, <1>10
  <2>2. /\ x \o Take(data, 64 - h) = Message(64 * q + 1, 64 * (q + 1))
        /\ Drop(data, 64 - h) = Message(64 * (q + 1) + 1, n + l)
        /\ q + 1 \in Nat /\ n + l \in Nat /\ 64 * (q + 1) <= n + l
    BY <2>1, PieceFills
  <2>3. Flushed(c, data) = BlakeAfter(q + 1, <<>>)
    <3>1. c.buf \o Take(data, 64 - Len(c.buf)) = Message(64 * q + 1, 64 * (q + 1))
      <4> HIDE DEF x, c
      <4> QED BY <1>2, <1>5, <2>2
    <3>2. Compress(BlakeAfter(q, x), Message(64 * q + 1, 64 * (q + 1))) = BlakeAfter(q + 1, x)
      BY <1>1, CompressNext
    <3>3. [BlakeAfter(q + 1, x) EXCEPT !.buf = <<>>] = BlakeAfter(q + 1, <<>>)
      BY BlakeBuffer
    <3> HIDE DEF x, c
    <3> QED BY <1>3, <3>1, <3>2, <3>3 DEF Flushed
  <2>4. BlakeUpdate(c, data) = Absorbs(Flushed(c, data), Drop(data, 64 - Len(c.buf)))
    <3>1. Flushes(c, data)
      BY <1>8, <1>10
    <3> HIDE DEF c
    <3> QED BY ONLY <3>1, UpdateUnfolds
  <2>5. Drop(data, 64 - Len(c.buf)) = Message(64 * (q + 1) + 1, n + l)
    <3> HIDE DEF x, c
    <3> QED BY <1>2, <1>5, <2>2
  <2>6. Absorbs(BlakeAfter(q + 1, <<>>), Message(64 * (q + 1) + 1, n + l)) = d
    <3> DEFINE b == n + l
               i == q + 1
    <3>1. b \in Nat /\ i \in Nat /\ 64 * i <= b
      BY <2>2
    <3> HIDE DEF b, i
    <3>2. Absorbs(BlakeAfter(i, <<>>), Message(64 * i + 1, b)) = BlakeAt(b)
      BY <3>1, AbsorbsWhole
    <3> QED BY <3>2 DEF b, i
  <2> QED BY <2>3, <2>4, <2>5, <2>6
<1>11. CASE h > 0 /\ ~ (l % 64 >= 64 - h)
  <2>1. l \in 1..63 /\ l % 64 = l /\ h + l < 64
    <3>1. l > 0 /\ l < 64
      BY <1>7, <1>11
    <3>2. l % 64 = l
      BY <1>1, <3>1
    <3> QED BY <1>1, <1>11, <3>1, <3>2
  <2>2. (n + l) \div 64 = q
    BY <2>1, PieceFits
  <2>3. BlakeUpdate(c, data) = Absorbs(c, data)
    <3>1. ~ Flushes(c, data)
      BY <1>8, <1>11
    <3> HIDE DEF c
    <3> QED BY ONLY <3>1, UpdateUnfolds
  <2>4. IsSequence(data, l) /\ l \in 0..63
    <3>1. n + 1 \in Nat \ {0} /\ n + l \in Nat /\ n + 1 <= (n + l) + 1 /\ (n + l) - (n + 1) + 1 = l
      BY <1>1
    <3>2. IsSequence(data, l)
      BY <1>2, <3>1, MessageIs
    <3> QED BY <2>1, <3>2
  <2>5. Absorbs(c, data) = [c EXCEPT !.buf = IF data = <<>> THEN <<>> ELSE c.buf \o data]
    <3> HIDE DEF c
    <3> QED BY <2>4, AbsorbsShort
  <2>6. ~ (data = <<>>)
    <3>1. Len(<<>>) = 0 /\ ~ (l = 0)
      BY <2>1
    <3> QED BY <1>2, <3>1
  <2>7. BlakeUpdate(c, data) = [BlakeAfter(q, x) EXCEPT !.buf = x \o data]
    <3> HIDE DEF x, c
    <3> QED BY <1>3, <1>5, <2>3, <2>5, <2>6
  <2>8. d = BlakeAfter(q, Message(64 * q + 1, n + l))
    BY <2>2 DEF BlakeAt
  <2>9. [BlakeAfter(q, x) EXCEPT !.buf = x \o data] = BlakeAfter(q, x \o data)
    <3> DEFINE u == x \o data
    <3> HIDE DEF u
    <3> QED BY BlakeBuffer
  <2>10. d = BlakeAfter(q, x \o data)
    <3> HIDE DEF d, x
    <3> QED BY <1>2, <2>8
  <2>11. BlakeUpdate(c, data) = d
    <3> HIDE DEF c, d, x
    <3> QED BY <2>7, <2>9, <2>10
  <2> QED BY <2>11
<1>12. h = 0 \/ h > 0
  BY <1>1
<1> QED BY <1>9, <1>10, <1>11, <1>12

(* The 56 bytes in front of the length, when h bytes of the message are in *)
(* the same block and when there is none.                                  *)
Ended(s, h) ==
  [j \in 1..56 |-> IF j <= h THEN s[j]
                   ELSE IF j = h + 1 THEN (IF h = 55 THEN Const(129) ELSE Const(128))
                   ELSE IF j = 56 THEN Const(1) ELSE Const(0)]
Trailer == [j \in 1..56 |-> IF j = 56 THEN Const(1) ELSE Const(0)]

(* What BLAKE-256 makes of a message, block by block. *)
BlakeIs(t, n, q, h) ==
  LET N == IF h <= 55 THEN q + 1 ELSE q + 2
      x == Message(64 * q + 1, n)
      Whole(s) == Closing(s, High(8 * n), Low(8 * n))
      tag == <<High(8 * n), Low(8 * n)>>
  IN  /\ IsSequence(t, N)
      /\ \A i \in 1..q : t[i] = Counted[i]
      /\ h = 0 => t[q + 1] = Frame(NoTag, Whole(Ended(x, h)))
      /\ h > 0 /\ h <= 55 => t[q + 1] = Frame(tag, Whole(Ended(x, h)))
      /\ h > 55 => /\ t[q + 1] = Frame(tag, Padded(x, h, Const(128), 63 - h))
                   /\ t[q + 2] = Frame(NoTag, Whole(Trailer))

(* The definition, block by block. *)
LEMMA BlakeFramesAre ==
  ASSUME NEW n \in Nat, NEW q \in Nat, NEW h \in 0..63, n = 64 * q + h
  PROVE  BlakeIs(BlakeFrames(n), n, q, h)
<1> DEFINE N == (n + 72) \div 64
           hi == High(8 * n)
           lo == Low(8 * n)
           Stop(k) == Const((IF k = n + 1 THEN 128 ELSE 0) + (IF k = 64 * N - 8 THEN 1 ELSE 0))
           Cell(k) == CASE k <= n -> Byte(k)
                        [] k > 64 * N - 8 ->
                             IF k > 64 * N - 4 THEN Octet(lo, k - (64 * N - 4)) ELSE Octet(hi, k - (64 * N - 8))
                        [] OTHER -> Stop(k)
           Bits(i) == 8 * (IF 64 * i < n THEN 64 * i ELSE n)
           Tag(i) == IF 64 * (i - 1) >= n THEN NoTag ELSE <<High(Bits(i)), Low(Bits(i))>>
           block(i) == [j \in 1..64 |-> Cell(64 * (i - 1) + j)]
           t == BlakeFrames(n)
           x == Message(64 * q + 1, n)
<1>1. N = (IF h <= 55 THEN q + 1 ELSE q + 2) /\ N \in Nat
  OBVIOUS
<1>2. t = [i \in 1..N |-> Frame(Tag(i), block(i))]
  BY DEF BlakeFrames, High, Low
<1> HIDE DEF N, t, hi, lo
<1>3. IsSequence(t, N) /\ \A i \in 1..N : t[i] = Frame(Tag(i), block(i))
  <2> HIDE DEF Tag, block
  <2> QED BY <1>1, <1>2 DEF IsSequence
<1>4. ASSUME NEW i \in 1..q PROVE t[i] = Counted[i]
  <2> DEFINE p == 64 * (i - 1)
  <2>1. p \in Nat /\ p + 64 <= n /\ 64 * i = p + 64 /\ i \in Nat \ {0} /\ i \in 1..N
    BY <1>1
  <2>2. ASSUME NEW j \in 1..64 PROVE Cell(p + j) = Byte(p + j)
    <3> HIDE DEF p, Stop
    <3>1. p + j <= n /\ ~ (p + j > 64 * N - 8)
      BY <1>1, <2>1
    <3> QED BY <3>1
  <2>3. block(i) = [j \in 1..64 |-> Byte(p + j)]
    <3> HIDE DEF Cell
    <3> QED BY <2>2 DEF p
  <2>4. Message(64 * (i - 1) + 1, 64 * i) = [j \in 1..64 |-> Byte(p + j)]
    <3>1. i \in Nat \ {0} /\ 64 \in Nat \ {0}
      BY <2>1
    <3> QED BY <3>1, BlockIs DEF p
  <2>5. Tag(i) = <<High(512 * i), Low(512 * i)>>
    <3>1. Bits(i) = 512 * i
      <4>1. 64 * i < n \/ 64 * i = n
        BY <2>1
      <4> QED BY <4>1
    <3>2. ~ (64 * (i - 1) >= n)
      BY <2>1
    <3> HIDE DEF Bits
    <3> QED BY <3>1, <3>2
  <2>6. Counted[i] = Frame(<<High(512 * i), Low(512 * i)>>, Message(64 * (i - 1) + 1, 64 * i))
    BY <2>1 DEF Counted
  <2> HIDE DEF Tag, block, p
  <2> QED BY <1>3, <2>1, <2>3, <2>4, <2>5, <2>6
<1>5. IsSequence(x, h) /\ \A j \in 1..h : x[j] = Byte(64 * q + j)
  <2>1. 64 * q + 1 \in Nat \ {0} /\ 64 * q + 1 <= n + 1 /\ n - (64 * q + 1) + 1 = h
    OBVIOUS
  <2>2. IsSequence(x, h) /\ \A j \in 1..h : x[j] = Byte((64 * q + 1) + j - 1)
    BY <2>1, MessageIs
  <2>3. \A j \in 1..h : (64 * q + 1) + j - 1 = 64 * q + j
    OBVIOUS
  <2> QED BY <2>2, <2>3
<1> HIDE DEF x
<1>6. Tag(q + 1) = (IF h = 0 THEN NoTag ELSE <<hi, lo>>)
  <2>1. Bits(q + 1) = 8 * n
    <3>1. ~ (64 * (q + 1) < n)
      OBVIOUS
    <3> QED BY <3>1
  <2>2. 64 * ((q + 1) - 1) >= n <=> h = 0
    OBVIOUS
  <2> HIDE DEF Bits
  <2> QED BY <2>1, <2>2 DEF hi, lo
<1>7. Tag(q + 2) = NoTag
  <2>1. 64 * ((q + 2) - 1) >= n
    OBVIOUS
  <2> HIDE DEF Bits
  <2> QED BY <2>1
<1>8. ASSUME h <= 55
      PROVE  block(q + 1) = Closing(Ended(x, h), hi, lo)
  <2> DEFINE p == 64 * q
             s == Ended(x, h)
  <2>1. ASSUME NEW j \in 1..56
        PROVE  s[j] = IF j <= h THEN x[j]
                      ELSE IF j = h + 1 THEN (IF h = 55 THEN Const(129) ELSE Const(128))
                      ELSE IF j = 56 THEN Const(1) ELSE Const(0)
    BY DEF Ended
  <2> HIDE DEF s
  <2>2. ASSUME NEW j \in 1..64
        PROVE  Cell(p + j) = IF j > 60 THEN Octet(lo, j - 60) ELSE IF j > 56 THEN Octet(hi, j - 56) ELSE s[j]
    <3>1. 64 * N = p + 64
      BY <1>1, <1>8
    <3>2. /\ p + j <= n <=> j <= h
          /\ p + j = n + 1 <=> j = h + 1
          /\ p + j > 64 * N - 4 <=> j > 60
          /\ p + j > 64 * N - 8 <=> j > 56
          /\ p + j = 64 * N - 8 <=> j = 56
          /\ (p + j) - (64 * N - 4) = j - 60
          /\ (p + j) - (64 * N - 8) = j - 56
      BY <3>1
    <3> HIDE DEF p
    <3>3. CASE j > 60
      <4>1. ~ (j <= h) /\ j > 56
        BY <1>8, <3>3
      <4> HIDE DEF Stop
      <4> QED BY <3>2, <3>3, <4>1
    <3>4. CASE j > 56 /\ ~ (j > 60)
      <4>1. ~ (j <= h)
        BY <1>8, <3>4
      <4> HIDE DEF Stop
      <4> QED BY <3>2, <3>4, <4>1
    <3>5. CASE ~ (j > 56) /\ j <= h
      <4>1. j \in 1..56 /\ ~ (j > 60) /\ j \in 1..h
        BY <3>5
      <4>2. Cell(p + j) = Byte(p + j)
        <5> HIDE DEF Stop
        <5> QED BY <3>2, <3>5
      <4> HIDE DEF Cell
      <4> QED BY <1>5, <2>1, <3>5, <4>1, <4>2 DEF p
    <3>6. CASE ~ (j > 56) /\ ~ (j <= h)
      <4>1. j \in 1..56 /\ ~ (j > 60)
        BY <3>6
      <4>2. Cell(p + j) = Stop(p + j)
        <5> HIDE DEF Stop
        <5> QED BY <3>2, <3>6
      <4>3. s[j] = IF j = h + 1 THEN (IF h = 55 THEN Const(129) ELSE Const(128))
                   ELSE IF j = 56 THEN Const(1) ELSE Const(0)
        BY <2>1, <3>6, <4>1
      <4>4. Stop(p + j) = s[j]
        <5>1. Stop(p + j) = Const((IF j = h + 1 THEN 128 ELSE 0) + (IF j = 56 THEN 1 ELSE 0))
          BY <3>2
        <5> HIDE DEF Stop
        <5>2. CASE j = h + 1 /\ h = 55
          <6>1. j = 56 /\ 128 + 1 = 129
            BY <5>2
          <6> QED BY <4>3, <5>1, <5>2, <6>1
        <5>3. CASE j = h + 1 /\ ~ (h = 55)
          <6>1. ~ (j = 56) /\ 128 + 0 = 128
            BY <5>3
          <6> QED BY <4>3, <5>1, <5>3, <6>1
        <5>4. CASE ~ (j = h + 1) /\ j = 56
          <6>1. 0 + 1 = 1
            OBVIOUS
          <6> QED BY <4>3, <5>1, <5>4, <6>1
        <5>5. CASE ~ (j = h + 1) /\ ~ (j = 56)
          <6>1. 0 + 0 = 0
            OBVIOUS
          <6> QED BY <4>3, <5>1, <5>5, <6>1
        <5> QED BY <5>2, <5>3, <5>4, <5>5
      <4> HIDE DEF Cell, Stop
      <4> QED BY <3>6, <4>1, <4>2, <4>4
    <3> QED BY <3>3, <3>4, <3>5, <3>6
  <2>3. 64 * ((q + 1) - 1) = p
    OBVIOUS
  <2> HIDE DEF Cell
  <2>4. block(q + 1) = Closing(s, hi, lo)
    BY <2>2, <2>3 DEF Closing
  <2> HIDE DEF block
  <2> QED BY <2>4 DEF s
<1>9. ASSUME h > 55
      PROVE  block(q + 1) = Padded(x, h, Const(128), 63 - h)
  <2> DEFINE p == 64 * q
  <2>1. ASSUME NEW j \in 1..64
        PROVE  Cell(p + j) = IF j <= h THEN x[j] ELSE IF j = h + 1 THEN Const(128) ELSE Const(0)
    <3>1. 64 * N = p + 128
      BY <1>1, <1>9
    <3>2. /\ p + j <= n <=> j <= h
          /\ p + j = n + 1 <=> j = h + 1
          /\ ~ (p + j > 64 * N - 8)
          /\ ~ (p + j = 64 * N - 8)
          /\ j \in 1..h <=> j <= h
      BY <3>1
    <3>3. CASE j <= h
      <4>1. Cell(p + j) = Byte(p + j)
        <5> HIDE DEF p, Stop
        <5> QED BY <3>2, <3>3
      <4> HIDE DEF Cell
      <4> QED BY <1>5, <3>2, <3>3, <4>1
    <3>4. CASE ~ (j <= h)
      <4> HIDE DEF p
      <4>1. Cell(p + j) = Stop(p + j)
        <5> HIDE DEF Stop
        <5> QED BY <3>2, <3>4
      <4>2. Stop(p + j) = IF j = h + 1 THEN Const(128) ELSE Const(0)
        <5>1. 128 + 0 = 128 /\ 0 + 0 = 0
          OBVIOUS
        <5>2. CASE j = h + 1
          BY <3>2, <5>1, <5>2
        <5>3. CASE ~ (j = h + 1)
          BY <3>2, <5>1, <5>3
        <5> QED BY <5>2, <5>3
      <4> HIDE DEF Cell, Stop
      <4> QED BY <3>4, <4>1, <4>2
    <3> QED BY <3>3, <3>4
  <2>2. 64 * ((q + 1) - 1) = p /\ h + 1 + (63 - h) = 64
    BY <1>9
  <2> HIDE DEF Cell
  <2> QED BY <2>1, <2>2 DEF Padded
<1>10. ASSUME h > 55
       PROVE  block(q + 2) = Closing(Trailer, hi, lo)
  <2> DEFINE p == 64 * q + 64
             s == Trailer
  <2>1. \A j \in 1..56 : s[j] = IF j = 56 THEN Const(1) ELSE Const(0)
    BY DEF Trailer
  <2> HIDE DEF s
  <2>2. ASSUME NEW j \in 1..64
        PROVE  Cell(p + j) = IF j > 60 THEN Octet(lo, j - 60) ELSE IF j > 56 THEN Octet(hi, j - 56) ELSE s[j]
    <3>1. 64 * N = p + 64
      BY <1>1, <1>10
    <3>2. /\ ~ (p + j <= n)
          /\ ~ (p + j = n + 1)
          /\ p + j > 64 * N - 4 <=> j > 60
          /\ p + j > 64 * N - 8 <=> j > 56
          /\ p + j = 64 * N - 8 <=> j = 56
          /\ (p + j) - (64 * N - 4) = j - 60
          /\ (p + j) - (64 * N - 8) = j - 56
      BY <3>1
    <3> HIDE DEF p
    <3>3. CASE j > 60
      <4>1. j > 56
        BY <3>3
      <4> HIDE DEF Stop
      <4> QED BY <3>2, <3>3, <4>1
    <3>4. CASE j > 56 /\ ~ (j > 60)
      <4> HIDE DEF Stop
      <4> QED BY <3>2, <3>4
    <3>5. CASE ~ (j > 56)
      <4>1. j \in 1..56 /\ ~ (j > 60)
        BY <3>5
      <4>2. Cell(p + j) = Stop(p + j)
        <5> HIDE DEF Stop
        <5> QED BY <3>2, <3>5
      <4>3. Stop(p + j) = IF j = 56 THEN Const(1) ELSE Const(0)
        <5>1. 0 + 1 = 1 /\ 0 + 0 = 0
          OBVIOUS
        <5>2. CASE j = 56
          BY <3>2, <5>1, <5>2
        <5>3. CASE ~ (j = 56)
          BY <3>2, <5>1, <5>3
        <5> QED BY <5>2, <5>3
      <4> HIDE DEF Cell, Stop
      <4> QED BY <2>1, <3>5, <4>1, <4>2, <4>3
    <3> QED BY <3>3, <3>4, <3>5
  <2>3. 64 * ((q + 2) - 1) = p
    OBVIOUS
  <2> HIDE DEF Cell
  <2>4. block(q + 2) = Closing(s, hi, lo)
    BY <2>2, <2>3 DEF Closing
  <2> HIDE DEF block
  <2> QED BY <2>4 DEF s
<1> DEFINE M == IF h <= 55 THEN q + 1 ELSE q + 2
<1>11. IsSequence(t, M) /\ q + 1 \in 1..N /\ (h > 55 => q + 2 \in 1..N)
  BY <1>1, <1>3
<1> HIDE DEF Cell, block, M, Tag, Bits, Stop
<1>12. h = 0 => t[q + 1] = Frame(NoTag, Closing(Ended(x, h), hi, lo))
  <2> SUFFICES ASSUME h = 0 PROVE t[q + 1] = Frame(NoTag, Closing(Ended(x, h), hi, lo))
    OBVIOUS
  <2>1. h <= 55
    OBVIOUS
  <2> QED BY <1>3, <1>6, <1>8, <1>11, <2>1
<1>13. h > 0 /\ h <= 55 => t[q + 1] = Frame(<<hi, lo>>, Closing(Ended(x, h), hi, lo))
  <2> SUFFICES ASSUME h > 0, h <= 55 PROVE t[q + 1] = Frame(<<hi, lo>>, Closing(Ended(x, h), hi, lo))
    OBVIOUS
  <2>1. ~ (h = 0)
    OBVIOUS
  <2> QED BY <1>3, <1>6, <1>8, <1>11, <2>1
<1>14. h > 55 => /\ t[q + 1] = Frame(<<hi, lo>>, Padded(x, h, Const(128), 63 - h))
                 /\ t[q + 2] = Frame(NoTag, Closing(Trailer, hi, lo))
  <2> SUFFICES ASSUME h > 55
               PROVE /\ t[q + 1] = Frame(<<hi, lo>>, Padded(x, h, Const(128), 63 - h))
                     /\ t[q + 2] = Frame(NoTag, Closing(Trailer, hi, lo))
    OBVIOUS
  <2>1. ~ (h = 0)
    OBVIOUS
  <2> QED BY <1>3, <1>6, <1>7, <1>9, <1>10, <1>11, <2>1
<1> QED BY <1>4, <1>11, <1>12, <1>13, <1>14 DEF BlakeIs, t, x, M, hi, lo

(* Setting the counter back. *)
LEMMA UncountIs ==
  ASSUME NEW f, NEW lo, NEW hi, NEW nullt, NEW x, NEW b
  PROVE  Uncount(BlakeContext(f, lo, hi, nullt, x), b) = BlakeContext(f, Low(lo - b), hi, nullt, x)
<1> DEFINE c == BlakeContext(f, lo, hi, nullt, x)
           u == (c.lo - b) % BlakeWord
<1>1. Uncount(c, b) = [c EXCEPT !.lo = u]
  <2> HIDE DEF c
  <2> QED BY DEF Uncount
<1>2. u = Low(lo - b)
  <2>1. c.lo = lo
    BY BlakeFields
  <2> HIDE DEF c
  <2> QED BY <2>1 DEF Low
<1> HIDE DEF u
<1>3. [c EXCEPT !.lo = u] = BlakeContext(f, u, hi, nullt, x)
  BY DEF BlakeContext
<1> QED BY <1>1, <1>2, <1>3

(* An update that does not fill the buffer. *)
LEMMA UpdateShort ==
  ASSUME NEW f, NEW lo, NEW hi, NEW nullt, NEW x, NEW h \in 0..63, IsSequence(x, h),
         NEW y, NEW l \in 1..63, IsSequence(y, l), h + l < 64
  PROVE  BlakeUpdate(BlakeContext(f, lo, hi, nullt, x), y) = BlakeContext(f, lo, hi, nullt, x \o y)
<1> DEFINE c == BlakeContext(f, lo, hi, nullt, x)
           z == x \o y
<1>1. c.buf = x
  BY BlakeFields
<1>2. Len(x) = h /\ Len(y) = l
  <2>1. h \in Nat /\ l \in Nat
    OBVIOUS
  <2> QED BY <2>1, LengthIs
<1>3. l % 64 = l /\ ~ (l >= 64 - h) /\ ~ (l = 0) /\ l \in 0..63
  OBVIOUS
<1>4. ~ (y = <<>>)
  <2>1. Len(<<>>) = 0
    OBVIOUS
  <2> QED BY <1>2, <1>3, <2>1
<1> HIDE DEF c
<1>5. ~ Flushes(c, y)
  BY <1>1, <1>2, <1>3 DEF Flushes
<1>6. BlakeUpdate(c, y) = Absorbs(c, y)
  BY ONLY <1>5, UpdateUnfolds
<1>7. Absorbs(c, y) = [c EXCEPT !.buf = IF y = <<>> THEN <<>> ELSE c.buf \o y]
  BY <1>3, AbsorbsShort
<1>8. [c EXCEPT !.buf = IF y = <<>> THEN <<>> ELSE c.buf \o y] = [c EXCEPT !.buf = z]
  BY <1>1, <1>4
<1> HIDE DEF z
<1>9. [c EXCEPT !.buf = z] = BlakeContext(f, lo, hi, nullt, z)
  BY DEF BlakeContext, c
<1> QED BY <1>6, <1>7, <1>8, <1>9 DEF c, z

(* An update that fills it. *)
LEMMA UpdateFull ==
  ASSUME NEW f, NEW lo, NEW hi, NEW nullt, NEW x, NEW h \in 1..63, IsSequence(x, h),
         NEW y, NEW l \in 1..63, IsSequence(y, l), h + l = 64, NEW lo2, NEW hi2, AreNext(lo, hi, lo2, hi2)
  PROVE  BlakeUpdate(BlakeContext(f, lo, hi, nullt, x), y)
           = BlakeContext(Append(f, Frame(Tagged(nullt, hi2, lo2), x \o y)), lo2, hi2, nullt, <<>>)
<1> DEFINE c == BlakeContext(f, lo, hi, nullt, x)
           block == x \o y
           g == Append(f, Frame(Tagged(nullt, hi2, lo2), block))
           d == BlakeContext(g, lo2, hi2, nullt, x)
           e == BlakeContext(g, lo2, hi2, nullt, <<>>)
<1>1. c.buf = x
  BY BlakeFields
<1>2. Len(x) = h /\ Len(y) = l
  <2>1. h \in Nat /\ l \in Nat
    OBVIOUS
  <2> QED BY <2>1, LengthIs
<1>3. l % 64 = l /\ l >= 64 - h /\ 64 - h = l /\ ~ (h = 0) /\ l \in Nat /\ l \in 0..l /\ l - l = 0
  OBVIOUS
<1>4. ~ (x = <<>>)
  <2>1. Len(<<>>) = 0
    OBVIOUS
  <2> QED BY <1>2, <1>3, <2>1
<1> HIDE DEF block, g
<1>5. Compress(c, block) = d
  <2>1. Compress(BlakeContext(f, lo, hi, nullt, x), block)
          = BlakeContext(Append(f, Frame(Tagged(nullt, hi2, lo2), block)), lo2, hi2, nullt, x)
    BY ONLY AreNext(lo, hi, lo2, hi2), CompressIs
  <2> QED BY <2>1 DEF g
<1>6. [d EXCEPT !.buf = <<>>] = e
  <2> DEFINE z == <<>>
  <2> HIDE DEF z
  <2>1. [d EXCEPT !.buf = z] = BlakeContext(g, lo2, hi2, nullt, z)
    BY DEF BlakeContext
  <2> QED BY <2>1 DEF z
<1>7. e.buf = <<>> /\ [e EXCEPT !.buf = <<>>] = e
  BY DEF BlakeContext
<1> HIDE DEF c, d, e
<1>8. Flushes(c, y)
  BY <1>1, <1>2, <1>3, <1>4 DEF Flushes
<1>9. BlakeUpdate(c, y) = Absorbs(Flushed(c, y), Drop(y, 64 - Len(c.buf)))
  BY ONLY <1>8, UpdateUnfolds
<1>10. Take(y, l) = y
  <2>1. Take(y, l) = [i \in 1..l |-> y[i]]
    BY <1>3, TakeIs
  <2> QED BY <2>1 DEF IsSequence
<1>11. Drop(y, l) = <<>>
  <2>1. IsSequence(Drop(y, l), l - l)
    BY <1>3, DropIs
  <2>2. IsSequence(Drop(y, l), 0)
    BY <1>3, <2>1
  <2> QED BY <2>2, EmptyIs
<1>12. Flushed(c, y) = e
  BY <1>1, <1>2, <1>3, <1>5, <1>6, <1>10 DEF Flushed, block
<1>13. Absorbs(e, <<>>) = e
  <2> DEFINE z == <<>>
             k == 0
  <2>1. IsSequence(z, k) /\ k \in 0..63
    BY DEF IsSequence
  <2>2. z = <<>>
    OBVIOUS
  <2> HIDE DEF z, k
  <2>3. Absorbs(e, z) = [e EXCEPT !.buf = IF z = <<>> THEN <<>> ELSE e.buf \o z]
    BY <2>1, AbsorbsShort, ZenonT(30)
  <2> QED BY <1>7, <2>2, <2>3
<1>14. BlakeUpdate(c, y) = e
  BY <1>1, <1>2, <1>3, <1>9, <1>11, <1>12, <1>13
<1> QED BY <1>14 DEF c, e, g, block

(* The words for n bytes, of which h are behind q blocks. *)
LEMMA BytesAre ==
  ASSUME NEW q \in Nat, NEW h \in 0..63, NEW n, n = 64 * q + h
  PROVE  /\ Low(Low(512 * q) + 8 * h) = Low(8 * n)
         /\ High(8 * n) = High(512 * q)
         /\ Low(8 * n) \in Int
         /\ ~ (Low(8 * n) < 8 * h)
         /\ h > 0 => ~ (Low(8 * n) = 0)
<1>1. PICK V \in Nat \ {0} : InBlocks(V)
  BY BlakeWordIs
<1> DEFINE e == 8 * h
           z == 0
           r == 512 * (q % V)
<1>2. e \in 0..511 /\ z \in 0..511 /\ 512 * q + e = 8 * n /\ 512 * q \in Int /\ e \in Int
  OBVIOUS
<1>3. r \in Nat
  <2>1. q % V \in Nat
    BY DivMod
  <2> QED BY <2>1
<1>4. 512 * q + z = 512 * q
  OBVIOUS
<1>5. h > 0 => e > 0
  OBVIOUS
<1>6. Low(Low(512 * q) + e) = Low(512 * q + e)
  <2> DEFINE a == 512 * q
  <2>1. a \in Int
    BY <1>2
  <2> HIDE DEF a, e
  <2>2. Low(Low(a) + e) = Low(a + e)
    BY <1>2, <2>1, LowAdds
  <2> QED BY <2>2 DEF a
<1> HIDE DEF e, z
<1>7. Counts(q, e, V) /\ Counts(q, z, V)
  BY <1>1, <1>2, BitsAre
<1>8. Low(512 * q + e) = r + e /\ High(512 * q + e) = q \div V /\ High(512 * q + z) = q \div V
  BY <1>7 DEF Counts
<1> HIDE DEF r
<1>9. Low(8 * n) = r + e /\ High(8 * n) = q \div V /\ High(512 * q) = q \div V
  BY <1>2, <1>4, <1>8
<1>10. r + e \in Int /\ ~ (r + e < e) /\ (e > 0 => ~ (r + e = 0))
  BY <1>2, <1>3
<1> QED BY <1>2, <1>5, <1>6, <1>9, <1>10 DEF e

(* The padding. *)
LEMMA PaddingWhole ==
  IsSequence(Padding, 64) /\ \A i \in 1..64 : Padding[i] = IF i = 1 THEN Const(128) ELSE Const(0)
<1> DEFINE o == <<Const(128)>>
           z == Zeros(63)
           m == 1
           p == Padding
<1>1. IsSequence(o, m) /\ o[1] = Const(128) /\ IsSequence(z, 63) /\ \A i \in 1..63 : z[i] = Const(0)
  BY OneIs, FillIs
<1>2. m \in Nat /\ m + 63 = 64
  OBVIOUS
<1>3. p = o \o z
  BY DEF Padding
<1> HIDE DEF o, z, p, m
<1>4. Joined(o \o z, o, m, z, 63)
  BY <1>1, <1>2, ConcatIs
<1>5. IsSequence(p, 64) /\ \A i \in 1..64 : p[i] = IF i <= m THEN o[i] ELSE z[i - m]
  BY <1>2, <1>3, <1>4 DEF Joined
<1>6. ASSUME NEW i \in 1..64 PROVE p[i] = IF i = 1 THEN Const(128) ELSE Const(0)
  <2>1. CASE i = 1
    <3>1. i <= m
      BY <2>1 DEF m
    <3> QED BY <1>1, <1>5, <2>1, <3>1
  <2>2. CASE ~ (i = 1)
    <3>1. ~ (i <= m) /\ i - m \in 1..63
      BY <2>2 DEF m
    <3> QED BY <1>1, <1>5, <2>2, <3>1
  <2> QED BY <2>1, <2>2
<1> QED BY <1>5, <1>6 DEF p

(* Parts of it. *)
LEMMA PaddingIs ==
  ASSUME NEW k \in 1..64
  PROVE  IsSequence(Take(Padding, k), k) /\ \A i \in 1..k : Take(Padding, k)[i] = IF i = 1 THEN Const(128) ELSE Const(0)
<1> DEFINE p == Padding
<1>1. IsSequence(p, 64) /\ \A i \in 1..64 : p[i] = IF i = 1 THEN Const(128) ELSE Const(0)
  BY PaddingWhole
<1> HIDE DEF p
<1>2. Take(p, k) = [i \in 1..k |-> p[i]]
  <2>1. k \in 0..64 /\ 64 \in Nat
    OBVIOUS
  <2> QED BY <1>1, <2>1, TakeIs
<1>3. \A i \in 1..k : i \in 1..64
  OBVIOUS
<1> QED BY <1>1, <1>2, <1>3 DEF IsSequence, p

(* Zeros of it. *)
LEMMA PaddingZeros ==
  IsSequence(Take(Drop(Padding, 1), 55), 55) /\ \A i \in 1..55 : Take(Drop(Padding, 1), 55)[i] = Const(0)
<1> DEFINE p == Padding
           k == 64
           m == 1
           d == Drop(p, m)
<1>1. IsSequence(p, k) /\ \A i \in 1..k : p[i] = IF i = 1 THEN Const(128) ELSE Const(0)
  BY PaddingWhole
<1>2. k \in Nat /\ m \in 0..k /\ k - m = 63 /\ \A i \in 1..63 : m + i \in 1..k /\ ~ (m + i = 1)
  OBVIOUS
<1>3. 55 \in 0..63 /\ 63 \in Nat /\ \A i \in 1..55 : i \in 1..63
  OBVIOUS
<1> HIDE DEF p, k, m, d
<1>4. IsSequence(d, k - m) /\ \A i \in 1..(k - m) : d[i] = p[m + i]
  BY <1>1, <1>2, DropIs DEF d
<1>5. IsSequence(d, 63) /\ \A i \in 1..63 : d[i] = Const(0)
  BY <1>1, <1>2, <1>4
<1>6. Take(d, 55) = [i \in 1..55 |-> d[i]]
  BY <1>3, <1>5, TakeIs
<1> QED BY <1>3, <1>5, <1>6 DEF IsSequence, d, p, m

(* The last bytes in front of the length, in the three ways in which they  *)
(* come about.                                                             *)
LEMMA EndedIs ==
  ASSUME NEW x, NEW h \in 0..55, IsSequence(x, h)
  PROVE  /\ h = 55 => x \o <<Const(129)>> = Ended(x, h)
         /\ h < 55 => (x \o Take(Padding, 55 - h)) \o <<Const(1)>> = Ended(x, h)
         /\ IsSequence(Ended(x, h), 56)
<1> DEFINE m == 1
           o == <<Const(129)>>
           e == <<Const(1)>>
           k == 55 - h
           y == Take(Padding, k)
           u == x \o y
           v == u \o e
           w == x \o o
           t == Ended(x, h)
<1>1. IsSequence(o, m) /\ o[1] = Const(129) /\ IsSequence(e, m) /\ e[1] = Const(1) /\ m \in Nat /\ m = 1
  BY OneIs
<1>2. h \in Nat /\ k \in Nat /\ h + k = 55 /\ 55 + m = 56 /\ 55 \in Nat
  OBVIOUS
<1>3. IsSequence(t, 56) /\ \A j \in 1..56 :
        t[j] = IF j <= h THEN x[j]
               ELSE IF j = h + 1 THEN (IF h = 55 THEN Const(129) ELSE Const(128))
               ELSE IF j = 56 THEN Const(1) ELSE Const(0)
  BY DEF Ended, IsSequence
<1> HIDE DEF o, e, m, y, t
<1>4. ASSUME h = 55 PROVE w = t
  <2>1. Joined(w, x, h, o, m)
    <3> HIDE DEF w
    <3>1. Joined(x \o o, x, h, o, m)
      BY <1>1, <1>2, ConcatIs
    <3> QED BY <3>1 DEF w
  <2> HIDE DEF w
  <2>2. h + m = 56
    BY <1>2, <1>4
  <2>3. IsSequence(w, 56) /\ \A i \in 1..56 : w[i] = IF i <= h THEN x[i] ELSE o[i - h]
    BY <2>1, <2>2 DEF Joined
  <2>4. ASSUME NEW i \in 1..56 PROVE w[i] = t[i]
    <3>1. CASE i <= h
      BY <1>3, <2>3, <3>1
    <3>2. CASE ~ (i <= h)
      <4>1. i - h = 1 /\ i = h + 1
        BY <1>4, <3>2
      <4> QED BY <1>1, <1>3, <1>4, <2>3, <3>2, <4>1
    <3> QED BY <3>1, <3>2
  <2> QED BY <1>3, <2>3, <2>4 DEF IsSequence
<1>5. ASSUME h < 55 PROVE v = t
  <2>1. k \in 1..64
    BY <1>5
  <2>2. IsSequence(y, k) /\ \A i \in 1..k : y[i] = IF i = 1 THEN Const(128) ELSE Const(0)
    BY <2>1, PaddingIs DEF y
  <2> HIDE DEF k
  <2>3. Joined(x \o y, x, h, y, k)
    BY <1>2, <2>2, ConcatIs
  <2>4. Joined(u, x, h, y, k)
    BY <2>3
  <2> HIDE DEF u
  <2>5. IsSequence(u, 55) /\ \A i \in 1..55 : u[i] = IF i <= h THEN x[i] ELSE y[i - h]
    BY <1>2, <2>4 DEF Joined
  <2>6. Joined(u \o e, u, 55, e, m)
    BY <1>1, <1>2, <2>5, ConcatIs
  <2>7. Joined(v, u, 55, e, m)
    BY <2>6
  <2> HIDE DEF v
  <2>8. IsSequence(v, 56) /\ \A i \in 1..56 : v[i] = IF i <= 55 THEN u[i] ELSE e[i - 55]
    BY <1>2, <2>7 DEF Joined
  <2>9. ASSUME NEW i \in 1..56 PROVE v[i] = t[i]
    <3>1. CASE i <= h
      <4>1. i <= 55 /\ i \in 1..55
        BY <1>5, <3>1
      <4> QED BY <1>3, <2>5, <2>8, <3>1, <4>1
    <3>2. CASE i = h + 1
      <4>1. i <= 55 /\ i \in 1..55 /\ ~ (i <= h) /\ i - h = 1 /\ i - h \in 1..k /\ ~ (h = 55)
        BY <1>2, <1>5, <3>2
      <4>2. y[i - h] = Const(128)
        BY <2>2, <4>1
      <4> QED BY <1>3, <2>5, <2>8, <3>2, <4>1, <4>2
    <3>3. CASE ~ (i <= h) /\ ~ (i = h + 1) /\ ~ (i = 56)
      <4>1. i <= 55 /\ i \in 1..55 /\ ~ (i - h = 1) /\ i - h \in 1..k
        BY <1>2, <3>3
      <4>2. y[i - h] = Const(0)
        BY <2>2, <4>1
      <4> QED BY <1>3, <2>5, <2>8, <3>3, <4>1, <4>2
    <3>4. CASE i = 56
      <4>1. ~ (i <= 55) /\ i - 55 = 1 /\ ~ (i <= h) /\ ~ (i = h + 1)
        BY <1>5, <3>4
      <4> QED BY <1>1, <1>3, <2>8, <3>4, <4>1
    <3> QED BY <3>1, <3>2, <3>3, <3>4
  <2> QED BY <1>3, <2>8, <2>9 DEF IsSequence
<1> QED BY <1>3, <1>4, <1>5 DEF w, v, u, y, o, e, t

(* A block of padding alone. *)
LEMMA TrailerIs ==
  /\ (<<>> \o Take(Drop(Padding, 1), 55)) \o <<Const(1)>> = Trailer
  /\ IsSequence(<<>> \o Take(Drop(Padding, 1), 55), 55)
  /\ IsSequence(Trailer, 56)
<1> DEFINE m == 1
           n == 0
           c == <<>>
           e == <<Const(1)>>
           y == Take(Drop(Padding, 1), 55)
           u == c \o y
           v == u \o e
           t == Trailer
<1>1. IsSequence(e, m) /\ e[1] = Const(1) /\ m \in Nat /\ m = 1 /\ n \in Nat /\ IsSequence(c, n) /\ n + 55 = 55
      /\ 55 + m = 56 /\ 55 \in Nat /\ \A i \in 1..55 : ~ (i <= n) /\ i - n = i
  BY OneIs DEF IsSequence
<1>2. IsSequence(y, 55) /\ \A i \in 1..55 : y[i] = Const(0)
  BY PaddingZeros
<1>3. IsSequence(t, 56) /\ \A j \in 1..56 : t[j] = IF j = 56 THEN Const(1) ELSE Const(0)
  BY DEF Trailer, IsSequence
<1> HIDE DEF e, m, n, c, y, t
<1>4. Joined(c \o y, c, n, y, 55)
  BY <1>1, <1>2, ConcatIs
<1>5. IsSequence(u, 55) /\ \A i \in 1..55 : u[i] = y[i]
  <2>1. Joined(u, c, n, y, 55)
    BY <1>4
  <2> HIDE DEF u
  <2> QED BY <1>1, <2>1 DEF Joined
<1> HIDE DEF u
<1>6. Joined(u \o e, u, 55, e, m)
  BY <1>1, <1>5, ConcatIs
<1>7. IsSequence(v, 56) /\ \A i \in 1..56 : v[i] = IF i <= 55 THEN u[i] ELSE e[i - 55]
  <2>1. Joined(v, u, 55, e, m)
    BY <1>6
  <2> HIDE DEF v
  <2> QED BY <1>1, <2>1 DEF Joined
<1> HIDE DEF v
<1>8. ASSUME NEW i \in 1..56 PROVE v[i] = t[i]
  <2>1. CASE i = 56
    <3>1. ~ (i <= 55) /\ i - 55 = 1
      BY <2>1
    <3> QED BY <1>1, <1>3, <1>7, <2>1, <3>1
  <2>2. CASE ~ (i = 56)
    <3>1. i <= 55 /\ i \in 1..55
      BY <2>2
    <3> QED BY <1>2, <1>3, <1>5, <1>7, <2>2, <3>1
  <2> QED BY <2>1, <2>2
<1>9. v = t
  BY <1>3, <1>7, <1>8 DEF IsSequence
<1> QED BY <1>3, <1>5, <1>9 DEF v, u, c, y, e, t

(* One byte of padding. *)
LEMMA PadByteIs ==
  ASSUME NEW f, NEW lo, NEW hi, NEW nullt, NEW x, IsSequence(x, 55)
  PROVE  PadByte(BlakeContext(f, lo, hi, nullt, x)) = BlakeContext(f, Low(lo - 8), hi, nullt, Ended(x, 55))
<1> DEFINE c == BlakeContext(f, lo, hi, nullt, x)
           l == Low(lo - 8)
           y == <<Const(129)>>
           h == 55
           m == 1
<1>1. Uncount(c, 8) = BlakeContext(f, l, hi, nullt, x)
  BY UncountIs
<1>2. IsSequence(y, m) /\ IsSequence(x, h) /\ h \in 0..63 /\ m \in 1..63 /\ h + m < 64 /\ h \in 0..55
  BY OneIs
<1>3. x \o y = Ended(x, h)
  <2> HIDE DEF y
  <2>1. h = 55
    OBVIOUS
  <2> HIDE DEF h
  <2> QED BY <1>2, <2>1, EndedIs DEF y
<1>4. BlakeUpdate(BlakeContext(f, l, hi, nullt, x), y) = BlakeContext(f, l, hi, nullt, x \o y)
  <2> HIDE DEF l, y, h, m, c
  <2> QED BY ONLY <1>2, UpdateShort
<1>5. PadByte(c) = BlakeUpdate(Uncount(c, 8), y)
  <2> HIDE DEF c
  <2> QED BY DEF PadByte
<1> HIDE DEF c, l, y
<1>6. PadByte(c) = BlakeContext(f, l, hi, nullt, Ended(x, h))
  BY <1>1, <1>3, <1>4, <1>5
<1> QED BY <1>6 DEF c, l

(* Padding that fits into the block. *)
LEMMA PadBlockIs ==
  ASSUME NEW f, NEW lo, NEW hi, NEW nullt, NEW x, NEW h \in 0..54, IsSequence(x, h)
  PROVE  PadBlock(BlakeContext(f, lo, hi, nullt, x))
           = BlakeContext(f, Low(Low(lo - (440 - 8 * h)) - 8), hi, Fresh(h), Ended(x, h))
<1> DEFINE c == BlakeContext(f, lo, hi, nullt, x)
           bits == 440 - 8 * h
           k == 55 - h
           l == Low(lo - bits)
           o == Low(l - 8)
           flag == Fresh(h)
           y == Take(Padding, k)
           e == <<Const(1)>>
           z == 55
           m == 1
           start == [c EXCEPT !.nullt = Len(c.buf) = 0]
           body == BlakeUpdate(Uncount(start, 440 - 8 * Len(c.buf)), Take(Padding, 55 - Len(c.buf)))
<1>1. PadBlock(c) = Uncount(BlakeUpdate(body, e), 8)
  <2> HIDE DEF c
  <2> QED BY Zenon DEF PadBlock
<1>2. Len(c.buf) = h
  <2>1. c.buf = x
    BY BlakeFields
  <2>2. h \in Nat
    OBVIOUS
  <2> HIDE DEF c
  <2> QED BY <2>1, <2>2, LengthIs
<1>3. start = BlakeContext(f, lo, hi, flag, x)
  <2>1. (Len(c.buf) = 0) = flag
    <3> HIDE DEF c
    <3> QED BY <1>2, Zenon DEF Fresh
  <2>2. start = [c EXCEPT !.nullt = flag]
    <3> HIDE DEF c, flag
    <3> QED BY <2>1
  <2>3. [c EXCEPT !.nullt = flag] = BlakeContext(f, lo, hi, flag, x)
    <3> HIDE DEF flag
    <3> QED BY DEF BlakeContext
  <2> HIDE DEF start, c, flag
  <2> QED BY <2>2, <2>3
<1>4. k \in 1..63 /\ k \in 1..64 /\ h \in 0..63 /\ h + k < 64 /\ h + k = 55 /\ z = 55 /\ z \in 0..63 /\ m \in 1..63 /\ z + m < 64
      /\ h \in Nat /\ k \in Nat /\ h \in 0..55 /\ h < 55
  OBVIOUS
<1>5. IsSequence(y, k)
  <2> HIDE DEF k
  <2> QED BY <1>4, PaddingIs
<1>6. IsSequence(x \o y, z)
  <2> HIDE DEF k, y, z
  <2>1. Joined(x \o y, x, h, y, k)
    BY <1>4, <1>5, ConcatIs
  <2> QED BY <1>4, <2>1 DEF Joined
<1>7. IsSequence(e, m)
  BY OneIs
<1>8. (x \o y) \o e = Ended(x, h)
  <2> HIDE DEF bits, l, o, start, body, z, m, c
  <2> QED BY <1>4, EndedIs
<1> HIDE DEF start, body, bits, l, o, flag, z, m, c
<1>9. body = BlakeUpdate(Uncount(start, bits), y)
  <2>1. body = BlakeUpdate(Uncount(start, 440 - 8 * Len(c.buf)), Take(Padding, 55 - Len(c.buf)))
    BY DEF body
  <2> QED BY <1>2, <2>1 DEF bits
<1> HIDE DEF y, e, k
<1>10. Uncount(start, bits) = BlakeContext(f, l, hi, flag, x)
  <2>1. Uncount(BlakeContext(f, lo, hi, flag, x), bits) = BlakeContext(f, Low(lo - bits), hi, flag, x)
    BY ONLY UncountIs
  <2> QED BY <1>3, <2>1 DEF l
<1>11. BlakeUpdate(BlakeContext(f, l, hi, flag, x), y) = BlakeContext(f, l, hi, flag, x \o y)
  <2>1. h \in 0..63 /\ k \in 1..63 /\ h + k < 64 /\ IsSequence(x, h) /\ IsSequence(y, k)
    BY <1>4, <1>5
  <2> QED BY ONLY <2>1, UpdateShort
<1> DEFINE u == x \o y
<1>12. BlakeUpdate(BlakeContext(f, l, hi, flag, u), e) = BlakeContext(f, l, hi, flag, u \o e)
  <2>1. z \in 0..63 /\ m \in 1..63 /\ z + m < 64 /\ IsSequence(u, z) /\ IsSequence(e, m)
    BY <1>4, <1>6, <1>7
  <2> HIDE DEF u
  <2> QED BY ONLY <2>1, UpdateShort
<1> DEFINE w == Ended(x, h)
<1>13. Uncount(BlakeContext(f, l, hi, flag, w), 8) = BlakeContext(f, o, hi, flag, w)
  <2> HIDE DEF w
  <2> QED BY UncountIs DEF o
<1>14. PadBlock(c) = BlakeContext(f, o, hi, flag, w)
  <2>1. body = BlakeContext(f, l, hi, flag, u)
    BY <1>9, <1>10, <1>11
  <2>2. u \o e = w
    BY <1>8
  <2> HIDE DEF u, w
  <2> QED BY <1>1, <1>12, <1>13, <2>1, <2>2
<1> QED BY <1>14 DEF c, o, l, bits, flag

(* Padding that needs a block of its own. *)
LEMMA PadTwoBlocksIs ==
  ASSUME NEW f, NEW lo, NEW hi, NEW nullt, NEW x, NEW h \in 56..63, IsSequence(x, h),
         NEW lo2, NEW hi2, AreNext(Low(lo - (512 - 8 * h)), hi, lo2, hi2)
  PROVE  PadTwoBlocks(BlakeContext(f, lo, hi, nullt, x))
           = BlakeContext(Append(f, Frame(Tagged(nullt, hi2, lo2), Padded(x, h, Const(128), 63 - h))),
                          Low(Low(lo2 - 440) - 8), hi2, Yes, Trailer)
<1> DEFINE c == BlakeContext(f, lo, hi, nullt, x)
           bits == 512 - 8 * h
           k == 64 - h
           l == Low(lo - bits)
           l2 == Low(lo2 - 440)
           o == Low(l2 - 8)
           y == Take(Padding, k)
           s == Take(Drop(Padding, 1), 55)
           e == <<Const(1)>>
           block == Padded(x, h, Const(128), 63 - h)
           g == Append(f, Frame(Tagged(nullt, hi2, lo2), block))
           empty == <<>>
           z == 55
           n == 0
           m == 1
           first == BlakeUpdate(Uncount(c, 512 - 8 * Len(c.buf)), Take(Padding, 64 - Len(c.buf)))
           second == [BlakeUpdate(Uncount(first, 440), Take(Drop(Padding, 1), 55)) EXCEPT !.nullt = TRUE]
           second2 == [BlakeUpdate(Uncount(first, 440), s) EXCEPT !.nullt = Yes]
<1>1. PadTwoBlocks(c) = Uncount(BlakeUpdate(second2, e), 8)
  <2>1. PadTwoBlocks(c) = Uncount(BlakeUpdate(second, e), 8)
    <3> HIDE DEF c
    <3> QED BY Zenon DEF PadTwoBlocks
  <2>2. second = second2
    BY Zenon DEF Yes
  <2> HIDE DEF second, second2, c
  <2> QED BY <2>1, <2>2
<1>2. Len(c.buf) = h
  <2>1. c.buf = x
    BY BlakeFields
  <2>2. h \in Nat
    OBVIOUS
  <2> HIDE DEF c
  <2> QED BY <2>1, <2>2, LengthIs
<1>3. /\ k \in 1..63 /\ k \in 1..64 /\ h \in 1..63 /\ h + k = 64 /\ z = 55 /\ z \in 1..63 /\ z \in 0..63 /\ m \in 1..63
      /\ z + m < 64 /\ n \in 0..63 /\ n + z < 64 /\ h \in Nat /\ k \in Nat /\ 63 - h \in Nat
      /\ h + 1 + (63 - h) = 64
  OBVIOUS
<1>4. IsSequence(y, k) /\ \A i \in 1..k : y[i] = IF i = 1 THEN Const(128) ELSE Const(0)
  <2> HIDE DEF k
  <2> QED BY <1>3, PaddingIs
<1>5. x \o y = block
  <2> DEFINE u == x \o y
  <2> HIDE DEF y
  <2>1. Joined(x \o y, x, h, y, k)
    <3> HIDE DEF k
    <3> QED BY <1>3, <1>4, ConcatIs
  <2>2. Joined(u, x, h, y, k)
    BY <2>1
  <2> HIDE DEF u
  <2>3. IsSequence(u, 64) /\ \A i \in 1..64 : u[i] = IF i <= h THEN x[i] ELSE y[i - h]
    BY <1>3, <2>2 DEF Joined
  <2>4. ASSUME NEW i \in 1..64
        PROVE  u[i] = IF i <= h THEN x[i] ELSE IF i = h + 1 THEN Const(128) ELSE Const(0)
    <3>1. CASE i <= h
      BY <2>3, <3>1
    <3>2. CASE ~ (i <= h)
      <4>1. i - h \in 1..k /\ (i - h = 1 <=> i = h + 1)
        BY <3>2
      <4> QED BY <1>4, <2>3, <3>2, <4>1
    <3> QED BY <3>1, <3>2
  <2>5. block = [i \in 1..64 |-> IF i <= h THEN x[i] ELSE IF i = h + 1 THEN Const(128) ELSE Const(0)]
    BY <1>3 DEF Padded
  <2> HIDE DEF block
  <2>6. u = block
    BY <2>3, <2>4, <2>5 DEF IsSequence
  <2> QED BY <2>6 DEF u
<1>6. IsSequence(s, z) /\ IsSequence(e, m) /\ IsSequence(empty, n)
  BY OneIs, PaddingZeros DEF IsSequence
<1>7. IsSequence(empty \o s, z) /\ (empty \o s) \o e = Trailer
  BY TrailerIs
<1> HIDE DEF second, second2, first, l, l2, o, z, m, n, c, g, block
<1>8. first = BlakeUpdate(Uncount(c, bits), y)
  <2>1. first = BlakeUpdate(Uncount(c, 512 - 8 * Len(c.buf)), Take(Padding, 64 - Len(c.buf)))
    BY DEF first
  <2> QED BY <1>2, <2>1
<1>9. AreNext(l, hi, lo2, hi2)
  BY DEF l
<1> HIDE DEF y, e, s, empty, k, bits
<1>10. Uncount(c, bits) = BlakeContext(f, l, hi, nullt, x)
  <2>1. Uncount(BlakeContext(f, lo, hi, nullt, x), bits) = BlakeContext(f, Low(lo - bits), hi, nullt, x)
    BY ONLY UncountIs
  <2> QED BY <2>1 DEF l, c
<1>11. BlakeUpdate(BlakeContext(f, l, hi, nullt, x), y)
         = BlakeContext(Append(f, Frame(Tagged(nullt, hi2, lo2), x \o y)), lo2, hi2, nullt, <<>>)
  <2>1. h \in 1..63 /\ k \in 1..63 /\ h + k = 64 /\ IsSequence(x, h) /\ IsSequence(y, k)
    BY <1>3, <1>4
  <2> QED BY ONLY <1>9, <2>1, UpdateFull
<1>12. first = BlakeContext(g, lo2, hi2, nullt, empty)
  BY <1>5, <1>8, <1>10, <1>11 DEF g, empty
<1>13. Uncount(first, 440) = BlakeContext(g, l2, hi2, nullt, empty)
  <2>1. Uncount(BlakeContext(g, lo2, hi2, nullt, empty), 440) = BlakeContext(g, Low(lo2 - 440), hi2, nullt, empty)
    BY ONLY UncountIs
  <2> QED BY <1>12, <2>1 DEF l2
<1>14. BlakeUpdate(BlakeContext(g, l2, hi2, nullt, empty), s) = BlakeContext(g, l2, hi2, nullt, empty \o s)
  <2>1. n \in 0..63 /\ z \in 1..63 /\ n + z < 64 /\ IsSequence(empty, n) /\ IsSequence(s, z)
    BY <1>3, <1>6
  <2> QED BY ONLY <2>1, UpdateShort
<1> DEFINE u == empty \o s
           w == Trailer
           flag == Yes
<1>15. second2 = BlakeContext(g, l2, hi2, flag, u)
  <2>1. second2 = [BlakeUpdate(Uncount(first, 440), s) EXCEPT !.nullt = flag]
    BY DEF second2
  <2> HIDE DEF flag, u
  <2>2. [BlakeContext(g, l2, hi2, nullt, u) EXCEPT !.nullt = flag] = BlakeContext(g, l2, hi2, flag, u)
    BY DEF BlakeContext
  <2> QED BY <1>13, <1>14, <2>1, <2>2 DEF u
<1>16. BlakeUpdate(BlakeContext(g, l2, hi2, flag, u), e) = BlakeContext(g, l2, hi2, flag, u \o e)
  <2>1. z \in 0..63 /\ m \in 1..63 /\ z + m < 64 /\ IsSequence(u, z) /\ IsSequence(e, m)
    BY <1>3, <1>6, <1>7
  <2> HIDE DEF u, flag
  <2> QED BY ONLY <2>1, UpdateShort
<1>17. Uncount(BlakeContext(g, l2, hi2, flag, w), 8) = BlakeContext(g, o, hi2, flag, w)
  <2> HIDE DEF w, flag
  <2> QED BY UncountIs DEF o
<1>18. PadTwoBlocks(c) = BlakeContext(g, o, hi2, flag, w)
  <2>1. u \o e = w
    BY <1>7
  <2> HIDE DEF u, w, flag
  <2> QED BY <1>1, <1>15, <1>16, <1>17, <2>1
<1> QED BY <1>18 DEF c, o, l2, g, block

(* All of a block but its length, and the count of the bits in front of    *)
(* the length, which it steps over.                                        *)
IsLong(s) == IsSequence(s, 56)
AreLast(lo, hi, lo2, hi2) == AreNext(Low(lo - 64), hi, lo2, hi2)

(* What BlakeFinal does, with c any context in which h bytes are held. *)
PaddedFor(c, h) == IF h = 55 THEN PadByte(c) ELSE IF h < 55 THEN PadBlock(c) ELSE PadTwoBlocks(c)

(* BlakeFinal takes the length from the counter before the padding changes *)
(* it.                                                                     *)
LEMMA BlakeFinalUnfolds ==
  ASSUME NEW c, NEW h \in 0..63, Len(c.buf) = h, NEW lo, lo = Low(c.lo + 8 * h), ~ (lo < 8 * h)
  PROVE  BlakeFinal(c) = BlakeUpdate(Uncount(PaddedFor(c, h), 64), BigEndian(c.hi, 4) \o BigEndian(lo, 4))
<1> DEFINE bits == 8 * Len(c.buf)
           l == (c.lo + bits) % BlakeWord
           hi == IF l < bits THEN c.hi + 1 ELSE c.hi
           padded == IF bits = 440 THEN PadByte(c) ELSE IF bits < 440 THEN PadBlock(c) ELSE PadTwoBlocks(c)
<1>1. BlakeFinal(c) = BlakeUpdate(Uncount(padded, 64), BigEndian(hi, 4) \o BigEndian(l, 4))
  BY Zenon DEF BlakeFinal
<1>2. bits = 8 * h /\ (8 * h = 440 <=> h = 55) /\ (8 * h < 440 <=> h < 55)
  OBVIOUS
<1> HIDE DEF bits
<1>3. l = lo
  BY <1>2 DEF Low
<1> HIDE DEF l
<1>4. hi = c.hi
  BY <1>2, <1>3
<1>5. padded = PaddedFor(c, h)
  BY <1>2 DEF PaddedFor
<1> HIDE DEF hi, padded
<1> QED BY <1>1, <1>3, <1>4, <1>5

(* A message of q blocks and h bytes, padded so that s waits for the length. *)
IsPadded(n, q, h, g, l, k, nullt, s) ==
  /\ n = 64 * q + h
  /\ IsLong(s)
  /\ PaddedFor(BlakeAt(n), h) = BlakeContext(g, l, k, nullt, s)

(* The frames at the end of a message, from the context that was padded.   *)
LEMMA BlakeEndsWith ==
  ASSUME NEW n, NEW q \in Nat, NEW h \in 0..63, NEW g, NEW l, NEW k, NEW nullt, NEW s,
         IsPadded(n, q, h, g, l, k, nullt, s),
         NEW lo2, NEW hi2, AreLast(l, k, lo2, hi2)
  PROVE  BlakeFinal(BlakeAt(n)).frames
           = Append(g, Frame(Tagged(nullt, hi2, lo2), Closing(s, High(8 * n), Low(8 * n))))
<1> DEFINE c == BlakeAt(n)
           x == Message(64 * q + 1, n)
           a == High(8 * n)
           b == Low(8 * n)
           hi == High(512 * q)
           lo == Low(512 * q)
           f == First(Counted, q)
           flag == No
<1>0. n = 64 * q + h /\ PaddedFor(BlakeAt(n), h) = BlakeContext(g, l, k, nullt, s)
  BY DEF IsPadded
<1>1. q = n \div 64 /\ n \in Nat
  BY <1>0
<1>2. c = BlakeContext(f, lo, hi, flag, x)
  BY <1>1 DEF BlakeAt, BlakeAfter
<1>3. Len(x) = h
  <2>1. 64 * q + 1 \in Nat \ {0} /\ 64 * q + 1 <= n + 1 /\ n - (64 * q + 1) + 1 = h
    BY <1>0
  <2> QED BY <1>1, <2>1, MessageIs
<1>4. b = Low(lo + 8 * h) /\ a = hi /\ ~ (b < 8 * h)
  BY <1>0, BytesAre
<1> HIDE DEF a, b, hi, lo, f, x, flag, c
<1>5. c.buf = x /\ c.lo = lo /\ c.hi = hi
  BY <1>2, BlakeFields
<1>6. Len(c.buf) = h /\ b = Low(c.lo + 8 * h)
  BY <1>3, <1>4, <1>5
<1>7. BlakeFinal(c) = BlakeUpdate(Uncount(PaddedFor(c, h), 64), BigEndian(c.hi, 4) \o BigEndian(b, 4))
  BY <1>4, <1>6, BlakeFinalUnfolds
<1>8. PaddedFor(c, h) = BlakeContext(g, l, k, nullt, s) /\ c.hi = a
  BY <1>0, <1>4, <1>5 DEF c
<1>9. BlakeUpdate(Uncount(BlakeContext(g, l, k, nullt, s), 64), BigEndian(a, 4) \o BigEndian(b, 4)).frames
        = Append(g, Frame(Tagged(nullt, hi2, lo2), Closing(s, a, b)))
  <2> DEFINE l3 == Low(l - 64)
             y == BigEndian(a, 4) \o BigEndian(b, 4)
             u == 56
             v == 8
             e == Append(g, Frame(Tagged(nullt, hi2, lo2), s \o y))
             empty == <<>>
  <2>1. Uncount(BlakeContext(g, l, k, nullt, s), 64) = BlakeContext(g, l3, k, nullt, s)
    BY ONLY UncountIs
  <2>2. IsSequence(s, u)
    BY DEF IsPadded, IsLong
  <2>3. s \o y = Closing(s, a, b) /\ IsSequence(y, v)
    BY <2>2, ClosingIs
  <2>4. AreNext(l3, k, lo2, hi2)
    BY DEF AreLast
  <2>5. u \in 1..63 /\ v \in 1..63 /\ u + v = 64
    OBVIOUS
  <2> HIDE DEF l3, y, u, v
  <2>6. BlakeUpdate(BlakeContext(g, l3, k, nullt, s), y)
          = BlakeContext(Append(g, Frame(Tagged(nullt, hi2, lo2), s \o y)), lo2, hi2, nullt, <<>>)
    <3>1. u \in 1..63 /\ v \in 1..63 /\ u + v = 64 /\ IsSequence(s, u) /\ IsSequence(y, v)
      BY <2>2, <2>3, <2>5
    <3> QED BY ONLY <2>4, <3>1, UpdateFull
  <2> HIDE DEF e, empty
  <2>7. BlakeContext(e, lo2, hi2, nullt, empty).frames = e
    BY BlakeFields
  <2>8. BlakeUpdate(BlakeContext(g, l3, k, nullt, s), y).frames = e
    BY <2>6, <2>7 DEF e, empty
  <2> QED BY <2>1, <2>3, <2>8 DEF e, y
<1>10. BlakeFinal(c).frames = Append(g, Frame(Tagged(nullt, hi2, lo2), Closing(s, a, b)))
  BY <1>7, <1>8, <1>9
<1> QED BY <1>10 DEF c, a, b

(* The end of any message: all its blocks, with its length. *)
LEMMA BlakeEnd ==
  ASSUME NEW n \in Nat
  PROVE  BlakeFinal(BlakeAt(n)).frames = BlakeFrames(n)
<1> DEFINE q == n \div 64
           h == n - 64 * q
           x == Message(64 * q + 1, n)
           f == First(Counted, q)
           c == BlakeAt(n)
           hi == High(512 * q)
           lo == Low(512 * q)
           a == High(8 * n)
           b == Low(8 * n)
           t == BlakeFrames(n)
           Whole(s) == Closing(s, a, b)
<1>1. q \in Nat /\ h \in 0..63 /\ n = 64 * q + h
  OBVIOUS
<1> HIDE DEF q, h
<1>2. BlakeIs(t, n, q, h)
  BY <1>1, BlakeFramesAre
<1>3. IsSequence(x, h)
  <2>1. 64 * q + 1 \in Nat \ {0} /\ 64 * q + 1 <= n + 1 /\ n - (64 * q + 1) + 1 = h
    BY <1>1
  <2> QED BY <2>1, MessageIs
<1>4. c = BlakeContext(f, lo, hi, No, x)
  BY DEF BlakeAt, BlakeAfter, q
<1>5. /\ Low(lo + 8 * h) = b /\ a = hi /\ b \in Int /\ (h > 0 => ~ (b = 0))
  BY <1>1, BytesAre
<1>6. /\ h = 0 => t[q + 1] = Frame(NoTag, Whole(Ended(x, h)))
      /\ h > 0 /\ h <= 55 => t[q + 1] = Frame(<<a, b>>, Whole(Ended(x, h)))
      /\ h > 55 => /\ t[q + 1] = Frame(<<a, b>>, Padded(x, h, Const(128), 63 - h))
                   /\ t[q + 2] = Frame(NoTag, Whole(Trailer))
      /\ h <= 55 => IsSequence(t, q + 1)
      /\ h > 55 => IsSequence(t, q + 2)
      /\ \A i \in 1..q : t[i] = Counted[i]
  <2>1. h > 55 => ~ (h <= 55)
    BY <1>1
  <2> HIDE DEF x, f, c, hi, lo, a, b, t, Whole
  <2> QED BY <1>2, <2>1 DEF BlakeIs, x, a, b, Whole
<1>7. 512 * q \in Int
  BY <1>1
<1> DEFINE p == 512 * q
<1> HIDE DEF p
<1>8. lo = Low(p) /\ p \in Int
  BY <1>7 DEF p
<1> HIDE DEF x, f, c, hi, lo, a, b, t, Whole
<1>9. ASSUME NEW k \in Int PROVE Low(lo + k) = Low(p + k) /\ Low(lo - k) = Low(p - k)
  BY <1>8, LowAdds
<1>10. ASSUME NEW i \in Int, NEW k \in Int PROVE Low(Low(i) + k) = Low(i + k) /\ Low(Low(i) - k) = Low(i - k)
  BY LowAdds
<1>11. h > 0 => Carried(hi, b) = hi
  BY <1>5 DEF Carried
<1>12. ASSUME NEW i \in Int, i - 64 + 512 = p + 8 * h
       PROVE  AreNext(Low(Low(i) - 64), hi, b, Carried(hi, b))
  <2>1. i - 64 \in Int
    OBVIOUS
  <2>2. Low(Low(i) - 64) = Low(i - 64)
    BY <1>10
  <2>3. Low(Low(i - 64) + 512) = Low((i - 64) + 512)
    BY <1>10, <2>1
  <2>4. Low((i - 64) + 512) = Low(p + 8 * h)
    BY <1>12
  <2>5. Low(p + 8 * h) = b
    <3>1. 8 * h \in Int
      BY <1>1
    <3> QED BY <1>5, <1>9, <3>1
  <2> QED BY <2>2, <2>3, <2>4, <2>5 DEF AreNext
<1>13. CASE h = 55
  <2> DEFINE s == Ended(x, h)
             i == p - 8
             d == Frame(Tagged(No, Carried(hi, b), b), Whole(s))
  <2>1. h > 0 /\ h <= 55 /\ h \in 0..55 /\ i \in Int /\ i - 64 + 512 = p + 8 * h
    BY <1>8, <1>13
  <2>2. IsSequence(s, 56)
    BY <1>3, <2>1, EndedIs
  <2>3. PaddedFor(c, h) = BlakeContext(f, Low(lo - 8), hi, No, s)
    <3>1. PadByte(BlakeContext(f, lo, hi, No, x)) = BlakeContext(f, Low(lo - 8), hi, No, Ended(x, 55))
      BY <1>3, <1>13, PadByteIs
    <3>2. PaddedFor(c, h) = PadByte(c)
      BY <1>13 DEF PaddedFor
    <3> QED BY <1>4, <1>13, <3>1, <3>2
  <2>4. Low(lo - 8) = Low(i)
    BY <1>9
  <2> HIDE DEF s, i
  <2>5. AreNext(Low(Low(i) - 64), hi, b, Carried(hi, b))
    BY <1>12, <2>1
  <2>6. PaddedFor(BlakeAt(n), h) = BlakeContext(f, Low(i), hi, No, s)
    BY <2>3, <2>4 DEF c
  <2>7. BlakeFinal(c).frames = Append(f, d)
    <3>1. BlakeFinal(BlakeAt(n)).frames
            = Append(f, Frame(Tagged(No, Carried(hi, b), b), Closing(s, High(8 * n), Low(8 * n))))
      <4>1. IsPadded(n, q, h, f, Low(i), hi, No, s)
        BY <1>1, <2>2, <2>6 DEF IsPadded, IsLong
      <4>2. AreLast(Low(i), hi, b, Carried(hi, b)) /\ q \in Nat /\ h \in 0..63
        BY <1>1, <2>5 DEF AreLast
      <4> QED BY ONLY <4>1, <4>2, BlakeEndsWith
    <3> QED BY <3>1 DEF c, Whole, a, b
  <2>8. Tagged(No, Carried(hi, b), b) = <<a, b>>
    BY <1>5, <1>11, <2>1, TaggedIs
  <2>9. t[q + 1] = d /\ IsSequence(t, q + 1)
    BY <1>6, <2>1, <2>8 DEF s
  <2> HIDE DEF d
  <2>10. Append(f, d) = t
    <3>1. EndsInOne(t, Counted, q, d)
      BY <1>6, <2>9 DEF EndsInOne
    <3> QED BY <1>1, <3>1, EndsWithOne DEF f
  <2> QED BY <2>7, <2>10 DEF c, t
<1>14. CASE h < 55
  <2> DEFINE s == Ended(x, h)
             i == p - (440 - 8 * h) - 8
             k == 440 - 8 * h
             e == Frame(Tagged(Fresh(h), Carried(hi, b), b), Whole(s))
  <2>1. /\ h <= 55 /\ h \in 0..55 /\ h \in 0..54 /\ i \in Int /\ i - 64 + 512 = p + 8 * h /\ k \in Int
        /\ p - k \in Int /\ (p - k) - 8 = i /\ 8 \in Int
    BY <1>1, <1>8, <1>14
  <2>2. IsSequence(s, 56)
    BY <1>3, <2>1, EndedIs
  <2>3. PaddedFor(c, h) = BlakeContext(f, Low(Low(lo - k) - 8), hi, Fresh(h), s)
    <3>1. PadBlock(BlakeContext(f, lo, hi, No, x))
            = BlakeContext(f, Low(Low(lo - (440 - 8 * h)) - 8), hi, Fresh(h), Ended(x, h))
      BY <1>3, <2>1, PadBlockIs
    <3>2. PaddedFor(c, h) = PadBlock(c)
      BY <1>14 DEF PaddedFor
    <3> QED BY <1>4, <3>1, <3>2
  <2> HIDE DEF s, i, k
  <2>4. Low(Low(lo - k) - 8) = Low(i)
    <3>1. Low(lo - k) = Low(p - k)
      BY <1>9, <2>1
    <3>2. Low(Low(p - k) - 8) = Low((p - k) - 8)
      BY <1>10, <2>1
    <3> QED BY <2>1, <3>1, <3>2
  <2>5. AreNext(Low(Low(i) - 64), hi, b, Carried(hi, b))
    BY <1>12, <2>1
  <2>6. PaddedFor(BlakeAt(n), h) = BlakeContext(f, Low(i), hi, Fresh(h), s)
    BY <2>3, <2>4 DEF c
  <2>7. BlakeFinal(c).frames = Append(f, e)
    <3>1. BlakeFinal(BlakeAt(n)).frames
            = Append(f, Frame(Tagged(Fresh(h), Carried(hi, b), b), Closing(s, High(8 * n), Low(8 * n))))
      <4>1. IsPadded(n, q, h, f, Low(i), hi, Fresh(h), s)
        BY <1>1, <2>2, <2>6 DEF IsPadded, IsLong
      <4>2. AreLast(Low(i), hi, b, Carried(hi, b)) /\ q \in Nat /\ h \in 0..63
        BY <1>1, <2>5 DEF AreLast
      <4> QED BY ONLY <4>1, <4>2, BlakeEndsWith
    <3> QED BY <3>1 DEF c, Whole, a, b
  <2>8. t[q + 1] = e /\ IsSequence(t, q + 1)
    <3>1. CASE h > 0
      <4>1. Fresh(h) = No
        BY <1>1, <3>1, FreshIs
      <4>2. Tagged(Fresh(h), Carried(hi, b), b) = <<a, b>>
        BY <1>5, <1>11, <3>1, <4>1, TaggedIs
      <4> QED BY <1>6, <2>1, <3>1, <4>2 DEF s
    <3>2. CASE h = 0
      <4>1. Fresh(h) = Yes
        BY <3>2, Zenon DEF Fresh, Yes
      <4>2. Tagged(Fresh(h), Carried(hi, b), b) = NoTag
        BY <4>1, TaggedIs
      <4> QED BY <1>6, <2>1, <3>2, <4>2 DEF s
    <3> QED BY <1>1, <3>1, <3>2
  <2> HIDE DEF e
  <2>9. Append(f, e) = t
    <3>1. EndsInOne(t, Counted, q, e)
      BY <1>6, <2>8 DEF EndsInOne
    <3> QED BY <1>1, <3>1, EndsWithOne DEF f
  <2> QED BY <2>7, <2>9 DEF c, t
<1>15. CASE h > 55
  <2> DEFINE k == 512 - 8 * h
             y == Frame(Tagged(No, hi, b), Padded(x, h, Const(128), 63 - h))
             g == Append(f, y)
             l == Low(Low(b - 440) - 8)
             lo2 == Low(Low(l - 64) + 512)
             hi2 == Carried(hi, lo2)
             s == Trailer
             e == Frame(Tagged(Yes, hi2, lo2), Whole(s))
  <2>1. h \in 56..63 /\ k \in Int /\ p - k \in Int /\ (p - k) + 512 = p + 8 * h /\ h > 0 /\ 512 \in Int /\ 8 * h \in Int
    BY <1>1, <1>8, <1>15
  <2>2. IsSequence(s, 56)
    BY TrailerIs
  <2>3. AreNext(Low(lo - k), hi, b, hi)
    <3> HIDE DEF k
    <3>1. Low(lo - k) = Low(p - k)
      BY <1>9, <2>1
    <3>2. Low(Low(p - k) + 512) = Low((p - k) + 512)
      BY <1>10, <2>1
    <3>3. Low(p + 8 * h) = b
      BY <1>5, <1>9, <2>1
    <3>4. Carried(hi, b) = hi
      BY <1>11, <2>1
    <3> QED BY <2>1, <3>1, <3>2, <3>3, <3>4 DEF AreNext
  <2>4. PaddedFor(c, h) = BlakeContext(g, l, hi, Yes, s)
    <3>1. AreNext(Low(lo - (512 - 8 * h)), hi, b, hi)
      BY <2>3
    <3>2. PadTwoBlocks(BlakeContext(f, lo, hi, No, x))
            = BlakeContext(Append(f, Frame(Tagged(No, hi, b), Padded(x, h, Const(128), 63 - h))),
                           Low(Low(b - 440) - 8), hi, Yes, Trailer)
      BY ONLY <1>3, <2>1, <3>1, PadTwoBlocksIs
    <3>3. PaddedFor(c, h) = PadTwoBlocks(c)
      <4>1. ~ (h = 55) /\ ~ (h < 55)
        BY <1>1, <1>15
      <4> QED BY <4>1 DEF PaddedFor
    <3> QED BY <1>4, <3>2, <3>3
  <2>5. AreNext(Low(l - 64), hi, lo2, hi2)
    BY DEF AreNext
  <2> HIDE DEF k, y, g, l, lo2, hi2, s
  <2>6. PaddedFor(BlakeAt(n), h) = BlakeContext(g, l, hi, Yes, s)
    BY <2>4 DEF c
  <2>7. BlakeFinal(c).frames = Append(g, e)
    <3>1. BlakeFinal(BlakeAt(n)).frames
            = Append(g, Frame(Tagged(Yes, hi2, lo2), Closing(s, High(8 * n), Low(8 * n))))
      <4>1. IsPadded(n, q, h, g, l, hi, Yes, s)
        BY <1>1, <2>2, <2>6 DEF IsPadded, IsLong
      <4>2. AreLast(l, hi, lo2, hi2) /\ q \in Nat /\ h \in 0..63
        BY <1>1, <2>5 DEF AreLast
      <4> QED BY ONLY <4>1, <4>2, BlakeEndsWith
    <3> QED BY <3>1 DEF c, Whole, a, b
  <2>8. t[q + 1] = y /\ t[q + 2] = e /\ IsSequence(t, q + 2)
    <3>1. Tagged(No, hi, b) = <<a, b>> /\ Tagged(Yes, hi2, lo2) = NoTag
      BY <1>5, TaggedIs
    <3> QED BY <1>6, <1>15, <3>1 DEF y, s
  <2> HIDE DEF e
  <2>9. Append(g, e) = t
    <3>1. g = Append(First(Counted, q), y)
      BY DEF g, f
    <3>2. EndsInTwo(t, Counted, q, y, e)
      BY <1>6, <2>8 DEF EndsInTwo
    <3> QED BY <1>1, <3>1, <3>2, EndsWithTwo
  <2> QED BY <2>7, <2>9 DEF c, t
<1> QED BY <1>1, <1>13, <1>14, <1>15
-----------------------------------------------------------------------------
(* The specification. *)

(* The context of a function after n bytes, in whatever pieces; Keccak has *)
(* none before its one call.                                               *)
At(a, n) ==
  CASE a = "blake"   -> BlakeAt(n)
    [] a = "groestl" -> GroestlAt(n)
    [] a = "jh"      -> JhAt(n)
    [] a = "skein"   -> SkeinAt(n)
    [] a = "keccak"  -> [frames |-> <<>>]

(* The frames of the blocks of a function, and how many of them it has     *)
(* absorbed after n bytes.                                                 *)
BlocksOf(a) == IF a = "blake" THEN Counted ELSE IF a = "skein" THEN Marked ELSE Untagged
Before(a, n) == IF a = "skein" THEN Known(n) ELSE n \div 64

(* The functions that take pieces. *)
Piecewise == {"blake", "groestl", "jh", "skein"}

(* They and Keccak are all. *)
LEMMA AlgorithmsAre ==
  Range(extra_hashes) = Piecewise /\ Algorithms = Piecewise \union {"keccak"}
<1>1. DOMAIN extra_hashes = 1..4
  BY DEF extra_hashes
<1>2. Range(extra_hashes) = {extra_hashes[1], extra_hashes[2], extra_hashes[3], extra_hashes[4]}
  BY <1>1 DEF Range
<1>3. Range(extra_hashes) = Piecewise
  BY <1>2 DEF Piecewise, extra_hashes
<1> QED BY <1>3 DEF Algorithms

(* Until a message ends the context is the one after the bytes so far, and *)
(* Keccak has none; then its frames are those of the definition.           *)
StreamInv ==
  /\ algorithm \in Algorithms
  /\ fed \in 0..MaxLength
  /\ done \in BOOLEAN
  /\ ~done => ctx = At(algorithm, fed)
  /\ ~done /\ algorithm = "keccak" => fed = 0
  /\ done => ctx.frames = Framed(algorithm, fed)

(* The context before the first byte. *)
LEMMA ContextIs ==
  ASSUME NEW a \in Algorithms
  PROVE  Context(a) = At(a, 0)
<1>1. /\ First(Counted, 0) = <<>> /\ First(Untagged, 0) = <<>> /\ First(Marked, 0) = <<>>
      /\ Message(1, 0) = <<>>
  BY DEF First, Message
<1>2. /\ 0 \div 64 = 0 /\ 64 * 0 + 1 = 1 /\ 512 * 0 = 0 /\ 8 * 0 = 0 /\ 64 * 0 = 0
      /\ 0 \div GroestlWord = 0 /\ 0 % GroestlWord = 0
      /\ 0 \div BlakeWord = 0 /\ 0 % BlakeWord = 0
  BY BlakeWordAssumption, GroestlWordAssumption
<1>3. BlakeInit = BlakeAt(0)
  <2>1. BlakeInit = BlakeContext(<<>>, 0, 0, No, <<>>)
    BY Zenon DEF BlakeInit, BlakeContext, No
  <2>2. Low(0) = 0 /\ High(0) = 0
    BY <1>2 DEF Low, High
  <2> QED BY <1>1, <1>2, <2>1, <2>2 DEF BlakeAt, BlakeAfter
<1>4. GroestlInit = GroestlAt(0)
  BY <1>1, <1>2 DEF GroestlInit, GroestlAt, GroestlContext
<1>5. JhInit = JhAt(0)
  BY <1>1, <1>2 DEF JhInit, JhAt, JhContext
<1>6. SkeinInit = SkeinAt(0)
  <2>1. Known(0) = 0 /\ Fresh(0) = Yes
    <3>1. Known(0) = 0
      BY DEF Known
    <3>2. Fresh(0) = Yes
      BY Zenon DEF Fresh, Yes
    <3> QED BY <3>1, <3>2
  <2>2. SkeinInit = SkeinContext(<<>>, "msg", 0, Yes, No, <<>>)
    BY Zenon DEF SkeinInit, StartNewType, SkeinContext, SkeinState, SkeinTweak, Yes, No
  <2> QED BY <1>1, <1>2, <2>1, <2>2 DEF SkeinAt, SkeinAfter
<1> QED BY <1>3, <1>4, <1>5, <1>6, AlgorithmsAre DEF Piecewise, Context, At

(* A piece more, for each function. *)
LEMMA UpdateIs ==
  ASSUME NEW n \in Nat, fed \in Nat, algorithm \in Piecewise, ctx = At(algorithm, fed),
         algorithm = "blake" => BlakeFits(ctx, n)
  PROVE  Update(Message(fed + 1, fed + n)) = At(algorithm, fed + n)
<1> DEFINE q == fed \div 64
           h == fed - 64 * q
           data == Message(fed + 1, fed + n)
<1>1. IsPiece(fed, n, q, h, data)
  BY PieceIs
<1> HIDE DEF q, h, data
<1>2. CASE algorithm = "blake"
  <2>1. ctx = BlakeAt(fed) /\ Update(data) = BlakeUpdate(ctx, data) /\ At(algorithm, fed + n) = BlakeAt(fed + n)
    BY <1>2 DEF At, Update
  <2>2. BlakeFits(BlakeAt(fed), n)
    BY <1>2, <2>1
  <2>3. BlakeUpdate(BlakeAt(fed), data) = BlakeAt(fed + n)
    BY ONLY <1>1, <2>2, BlakeStep
  <2> QED BY <2>1, <2>3 DEF data
<1>3. CASE algorithm = "groestl"
  <2>1. ctx = GroestlAt(fed) /\ Update(data) = GroestlUpdate(ctx, data) /\ At(algorithm, fed + n) = GroestlAt(fed + n)
    BY <1>3 DEF At, Update
  <2>2. GroestlUpdate(GroestlAt(fed), data) = GroestlAt(fed + n)
    BY ONLY <1>1, GroestlStep
  <2> QED BY <2>1, <2>2 DEF data
<1>4. CASE algorithm = "jh"
  <2>1. ctx = JhAt(fed) /\ Update(data) = JhUpdate(ctx, data) /\ At(algorithm, fed + n) = JhAt(fed + n)
    BY <1>4 DEF At, Update
  <2>2. JhUpdate(JhAt(fed), data) = JhAt(fed + n)
    BY ONLY <1>1, JhStep
  <2> QED BY <2>1, <2>2 DEF data
<1>5. CASE algorithm = "skein"
  <2>1. ctx = SkeinAt(fed) /\ Update(data) = SkeinUpdate(ctx, data) /\ At(algorithm, fed + n) = SkeinAt(fed + n)
    BY <1>5 DEF At, Update
  <2>2. SkeinUpdate(SkeinAt(fed), data) = SkeinAt(fed + n)
    BY SkeinStep DEF data
  <2> QED BY <2>1, <2>2 DEF data
<1> QED BY <1>2, <1>3, <1>4, <1>5 DEF Piecewise

(* The end of the message, for each function. *)
LEMMA FinalIs ==
  ASSUME fed \in Nat, algorithm \in Piecewise, ctx = At(algorithm, fed)
  PROVE  Final.frames = Framed(algorithm, fed)
<1>1. CASE algorithm = "blake"
  <2>1. ctx = BlakeAt(fed) /\ Final = BlakeFinal(ctx) /\ Framed(algorithm, fed) = BlakeFrames(fed)
    BY <1>1 DEF At, Final, Framed
  <2> QED BY <2>1, BlakeEnd
<1>2. CASE algorithm = "groestl"
  <2>1. ctx = GroestlAt(fed) /\ Final = GroestlFinal(ctx) /\ Framed(algorithm, fed) = GroestlFrames(fed)
    BY <1>2 DEF At, Final, Framed
  <2> QED BY <2>1, GroestlEnd
<1>3. CASE algorithm = "jh"
  <2>1. ctx = JhAt(fed) /\ Final = JhFinal(ctx) /\ Framed(algorithm, fed) = JhFrames(fed)
    BY <1>3 DEF At, Final, Framed
  <2> QED BY <2>1, JhEnd
<1>4. CASE algorithm = "skein"
  <2>1. ctx = SkeinAt(fed) /\ Final = SkeinFinal(ctx) /\ Framed(algorithm, fed) = SkeinFrames(fed)
    BY <1>4 DEF At, Final, Framed
  <2> QED BY <2>1, SkeinEnd
<1> QED BY <1>1, <1>2, <1>3, <1>4 DEF Piecewise

(* What one call of Keccak absorbs. *)
LEMMA AbsorbIs ==
  ASSUME NEW n \in Nat
  PROVE  KeccakFinal(Message(1, n)) = Framed("keccak", n)
<1>1. Framed("keccak", n) = KeccakFrames(n)
  BY DEF Framed
<1> QED BY <1>1, KeccakEnd

(* Every state that is reached is one of those. *)
THEOREM StreamInvHolds == Spec => []StreamInv
<1>1. ASSUME Init PROVE StreamInv
  <2>1. algorithm \in Algorithms /\ ctx = At(algorithm, fed) /\ fed = 0
    BY <1>1, ContextIs DEF Init
  <2>2. fed \in 0..MaxLength
    BY <2>1, MaxLengthAssumption
  <2>3. ~ done /\ done \in BOOLEAN
    BY <1>1 DEF Init
  <2> QED BY <2>1, <2>2, <2>3 DEF StreamInv
<1>2. StreamInv /\ [Next]_vars => StreamInv'
  <2> SUFFICES ASSUME StreamInv, [Next]_vars PROVE StreamInv'
    OBVIOUS
  <2>1. ASSUME NEW n \in 0..MaxLength, Feed(n) PROVE StreamInv'
    <3>1. n \in Nat /\ fed \in Nat /\ algorithm \in Piecewise /\ ctx = At(algorithm, fed)
          /\ fed + n \in 0..MaxLength /\ ~done /\ algorithm # "keccak"
          /\ (algorithm = "blake" => BlakeFits(ctx, n))
      BY <2>1, MaxLengthAssumption, AlgorithmsAre DEF StreamInv, Feed, Piecewise
    <3>2. Update(Message(fed + 1, fed + n)) = At(algorithm, fed + n)
      BY <3>1, UpdateIs
    <3>3. algorithm' = algorithm /\ fed' = fed + n /\ done' = done /\ ctx' = At(algorithm', fed')
      BY <2>1, <3>2 DEF Feed
    <3> QED BY <3>1, <3>3 DEF StreamInv
  <2>2. ASSUME NEW n \in 0..MaxLength, Absorb(n) PROVE StreamInv'
    <3>1. KeccakFinal(Message(1, n)) = Framed("keccak", n)
      BY MaxLengthAssumption, AbsorbIs
    <3>2. ctx'.frames = Framed(algorithm', fed') /\ fed' \in 0..MaxLength /\ done' = TRUE /\ algorithm' \in Algorithms
      BY <2>2, <3>1 DEF Absorb, StreamInv
    <3> QED BY <3>2 DEF StreamInv
  <2>3. CASE Finish
    <3>1. fed \in Nat /\ algorithm \in Piecewise /\ ctx = At(algorithm, fed)
      BY <2>3, MaxLengthAssumption, AlgorithmsAre DEF StreamInv, Finish
    <3>2. Final.frames = Framed(algorithm, fed)
      BY <3>1, FinalIs
    <3>3. ctx'.frames = Framed(algorithm', fed') /\ fed' = fed /\ done' = TRUE /\ algorithm' = algorithm
      BY <2>3, <3>2 DEF Finish
    <3> QED BY <3>3 DEF StreamInv
  <2>4. CASE UNCHANGED vars
    BY <2>4 DEF StreamInv, vars
  <2> QED BY <2>1, <2>2, <2>3, <2>4 DEF Next
<1> QED BY <1>1, <1>2, PTL DEF Spec

(* However a message is cut, and whatever its length, each function has    *)
(* absorbed the frames of its definition when it ends: padding, counters   *)
(* that are set back for it, length fields and tweaks included.            *)
THEOREM FramesAsDefinedHolds == Spec => []FramesAsDefined
<1>1. StreamInv => FramesAsDefined
  BY DEF StreamInv, FramesAsDefined, BlakeAbsorbs, GroestlAbsorbs, JhAbsorbs, KeccakAbsorbs, SkeinAbsorbs,
         Absorbed
<1> QED BY <1>1, StreamInvHolds, PTL

(* How many blocks a function has absorbed grows with the message.         *)
LEMMA BeforeGrows ==
  ASSUME NEW a, NEW n \in Nat, NEW m \in Nat, n <= m
  PROVE  Before(a, n) \in Nat /\ Before(a, m) \in Nat /\ Before(a, n) <= Before(a, m)
<1>1. n \div 64 \in Nat /\ m \div 64 \in Nat /\ n \div 64 <= m \div 64
  OBVIOUS
<1>2. Known(n) \in Nat /\ Known(m) \in Nat /\ Known(n) <= Known(m)
  BY DEF Known
<1> QED BY <1>1, <1>2 DEF Before

(* They are blocks of the message. *)
LEMMA AtFrames ==
  ASSUME NEW a \in Piecewise, NEW n \in Nat
  PROVE  At(a, n).frames = First(BlocksOf(a), Before(a, n))
<1>1. CASE a = "blake"
  BY <1>1, BlakeFields DEF At, BlakeAt, BlakeAfter, BlocksOf, Before
<1>2. CASE a = "groestl"
  BY <1>2, GroestlFields DEF At, GroestlAt, BlocksOf, Before
<1>3. CASE a = "jh"
  BY <1>3 DEF At, JhAt, JhContext, BlocksOf, Before
<1>4. CASE a = "skein"
  <2>1. At(a, n) = SkeinContext(First(Marked, Known(n)), "msg", 64 * Known(n), Fresh(Known(n)), No,
                                Message(64 * Known(n) + 1, n))
    BY <1>4 DEF At, SkeinAt, SkeinAfter
  <2>2. At(a, n).frames = First(Marked, Known(n))
    BY <2>1, StateFields DEF SkeinContext
  <2> QED BY <1>4, <2>2 DEF BlocksOf, Before
<1> QED BY <1>1, <1>2, <1>3, <1>4 DEF Piecewise

(* t begins with the q blocks of F and goes on. *)
GoesOn(t, F, q) == \E N \in Nat : q < N /\ IsSequence(t, N) /\ \A i \in 1..q : t[i] = F[i]

(* So does what is absorbed in the end. *)
LEMMA FramedGoesOn ==
  ASSUME NEW a \in Piecewise, NEW n \in Nat
  PROVE  GoesOn(Framed(a, n), BlocksOf(a), Before(a, n))
<1> DEFINE q == n \div 64
           h == n - 64 * q
           r == Known(n)
           g == n - 64 * r
<1>1. q \in Nat /\ h \in 0..63 /\ n = 64 * q + h /\ q + 1 \in Nat /\ q + 2 \in Nat /\ q < q + 1 /\ q < q + 2
  OBVIOUS
<1>2. r \in Nat /\ g \in 0..64 /\ n = 64 * r + g /\ (g = 0 => n = 0) /\ r + 2 \in Nat /\ r < r + 2
  BY DEF Known
<1> HIDE DEF q, h, r, g
<1>3. CASE a = "blake"
  <2>1. BlakeIs(BlakeFrames(n), n, q, h)
    BY <1>1, BlakeFramesAre
  <2>2. Framed(a, n) = BlakeFrames(n) /\ BlocksOf(a) = Counted /\ Before(a, n) = q
    BY <1>3 DEF Framed, BlocksOf, Before, q
  <2> DEFINE t == BlakeFrames(n)
             N == IF h <= 55 THEN q + 1 ELSE q + 2
  <2>3. N \in Nat /\ q < N
    BY <1>1
  <2> HIDE DEF t
  <2>4. IsSequence(t, N) /\ \A i \in 1..q : t[i] = Counted[i]
    BY <2>1 DEF BlakeIs, t
  <2> HIDE DEF N
  <2>5. GoesOn(t, Counted, q)
    BY <2>3, <2>4 DEF GoesOn
  <2> QED BY <2>2, <2>5 DEF t
<1>4. CASE a = "groestl"
  <2>1. GroestlIs(GroestlFrames(n), n, q, h)
    BY <1>1, GroestlFramesAre
  <2>2. Framed(a, n) = GroestlFrames(n) /\ BlocksOf(a) = Untagged /\ Before(a, n) = q
    BY <1>4 DEF Framed, BlocksOf, Before, q
  <2> DEFINE t == GroestlFrames(n)
             N == IF h <= 55 THEN q + 1 ELSE q + 2
  <2>3. N \in Nat /\ q < N
    BY <1>1
  <2> HIDE DEF t
  <2>4. IsSequence(t, N) /\ \A i \in 1..q : t[i] = Untagged[i]
    BY <2>1 DEF GroestlIs, t
  <2> HIDE DEF N
  <2>5. GoesOn(t, Untagged, q)
    BY <2>3, <2>4 DEF GoesOn
  <2> QED BY <2>2, <2>5 DEF t
<1>5. CASE a = "jh"
  <2>1. JhIs(JhFrames(n), n, q, h)
    BY <1>1, JhFramesAre
  <2>2. Framed(a, n) = JhFrames(n) /\ BlocksOf(a) = Untagged /\ Before(a, n) = q
    BY <1>5 DEF Framed, BlocksOf, Before, q
  <2> DEFINE t == JhFrames(n)
             N == IF h = 0 THEN q + 1 ELSE q + 2
  <2>3. N \in Nat /\ q < N
    BY <1>1
  <2> HIDE DEF t
  <2>4. IsSequence(t, N) /\ \A i \in 1..q : t[i] = Untagged[i]
    BY <2>1 DEF JhIs, t
  <2> HIDE DEF N
  <2>5. GoesOn(t, Untagged, q)
    BY <2>3, <2>4 DEF GoesOn
  <2> QED BY <2>2, <2>5 DEF t
<1>6. CASE a = "skein"
  <2>1. SkeinIs(SkeinFrames(n), n, r, g)
    BY <1>2, SkeinFramesAre
  <2>2. Framed(a, n) = SkeinFrames(n) /\ BlocksOf(a) = Marked /\ Before(a, n) = r
    BY <1>6 DEF Framed, BlocksOf, Before, r
  <2> DEFINE t == SkeinFrames(n)
             N == r + 2
  <2>3. N \in Nat /\ r < N
    BY <1>2
  <2> HIDE DEF t
  <2>4. IsSequence(t, N) /\ \A i \in 1..r : t[i] = Marked[i]
    BY <2>1 DEF SkeinIs, t
  <2> HIDE DEF N
  <2>5. GoesOn(t, Marked, r)
    BY <2>3, <2>4 DEF GoesOn
  <2> QED BY <2>2, <2>5 DEF t
<1> QED BY <1>3, <1>4, <1>5, <1>6 DEF Piecewise

(* A piece more keeps what was absorbed and does not absorb the end. *)
LEMMA PieceStreams ==
  ASSUME NEW a \in Piecewise, NEW n \in Nat, NEW m \in Nat, n <= m
  PROVE  IsPrefix(At(a, n).frames, At(a, m).frames) /\ IsStrictPrefix(At(a, m).frames, Framed(a, m))
<1> DEFINE F == BlocksOf(a)
           q == Before(a, n)
           r == Before(a, m)
           t == Framed(a, m)
<1>1. q \in Nat /\ r \in Nat /\ q <= r
  BY BeforeGrows
<1>2. At(a, n).frames = First(F, q) /\ At(a, m).frames = First(F, r)
  BY AtFrames
<1>3. PICK N \in Nat : r < N /\ IsSequence(t, N) /\ \A i \in 1..r : t[i] = F[i]
  BY FramedGoesOn DEF GoesOn
<1> HIDE DEF F, q, r, t
<1>4. IsPrefix(First(F, q), First(F, r))
  BY <1>1, FirstPrefix
<1>5. IsStrictPrefix(First(F, r), t)
  BY <1>1, <1>3, FirstStrict
<1> QED BY <1>2, <1>4, <1>5 DEF t

(* However a message is cut, the functions absorb it as a stream: they     *)
(* implement the abstract specification, step by step.                     *)
THEOREM KeepsStreamingHolds == Spec => KeepsStreaming
<1>1. ASSUME Init PROVE Promise!Init
  <2>1. algorithm \in Algorithms /\ ctx = At(algorithm, 0) /\ fed = 0 /\ done = FALSE
    BY <1>1, ContextIs DEF Init
  <2>2. ctx.frames = <<>>
    <3>1. CASE algorithm = "keccak"
      BY <2>1, <3>1 DEF At
    <3>2. CASE algorithm \in Piecewise
      <4>1. 0 \in Nat /\ Before(algorithm, 0) = 0
        BY DEF Before, Known
      <4>2. ctx.frames = First(BlocksOf(algorithm), 0)
        BY <2>1, <3>2, <4>1, AtFrames
      <4> QED BY <4>2 DEF First
    <3> QED BY <2>1, <3>1, <3>2, AlgorithmsAre
  <2> QED BY <2>1, <2>2 DEF Promise!Init
<1>2. ASSUME StreamInv, StreamInv', [Next]_vars PROVE [Promise!Next]_(Promise!vars)
  <2>1. ASSUME NEW n \in 0..MaxLength, Feed(n) PROVE Promise!Feed
    <3>1. /\ fed \in Nat /\ n \in Nat /\ fed' = fed + n /\ fed' \in Nat /\ fed <= fed' /\ fed' \in fed..MaxLength
          /\ algorithm \in Piecewise /\ algorithm' = algorithm
      <4>1. fed' = fed + n /\ fed + n <= MaxLength /\ algorithm \in Piecewise /\ algorithm' = algorithm
        BY <2>1, AlgorithmsAre DEF Feed
      <4>2. fed \in Nat /\ n \in Nat
        BY <1>2, MaxLengthAssumption DEF StreamInv
      <4> QED BY <4>1, <4>2, MaxLengthAssumption
    <3>5. ~ done /\ done' = done
      BY <2>1 DEF Feed
    <3>2. ctx = At(algorithm, fed) /\ ctx' = At(algorithm, fed')
      BY <1>2, <3>1, <3>5 DEF StreamInv
    <3>3. IsPrefix(ctx.frames, ctx'.frames) /\ IsStrictPrefix(ctx'.frames, Framed(algorithm, fed'))
      BY <3>1, <3>2, PieceStreams
    <3>4. /\ Promise!IsPrefix(ctx.frames, ctx'.frames)
          /\ Promise!IsStrictPrefix(ctx'.frames, Framed(algorithm, fed'))
      BY <3>3 DEF IsPrefix, IsStrictPrefix, Promise!IsPrefix, Promise!IsStrictPrefix
    <3> QED BY <3>1, <3>4, <3>5 DEF Promise!Feed
  <2>2. ASSUME NEW n \in 0..MaxLength, Absorb(n) PROVE Promise!Finish
    <3>1. ~ done /\ fed = 0 /\ fed' = n /\ done' = TRUE /\ algorithm' = algorithm
      BY <1>2, <2>2 DEF Absorb, StreamInv
    <3>2. ctx'.frames = Framed(algorithm, fed') /\ fed' \in fed..MaxLength
      BY <1>2, <3>1, MaxLengthAssumption DEF StreamInv
    <3> QED BY <3>1, <3>2 DEF Promise!Finish
  <2>3. ASSUME Finish PROVE Promise!Finish
    <3>1. ~ done /\ fed' = fed /\ done' = TRUE /\ algorithm' = algorithm
      BY <2>3 DEF Finish
    <3>2. ctx'.frames = Framed(algorithm, fed') /\ fed' \in fed..MaxLength
      BY <1>2, <3>1, MaxLengthAssumption DEF StreamInv
    <3> QED BY <3>1, <3>2 DEF Promise!Finish
  <2>4. CASE UNCHANGED vars
    BY <2>4 DEF vars, Promise!vars
  <2> QED BY <1>2, <2>1, <2>2, <2>3, <2>4 DEF Next, Promise!Next
<1> QED BY <1>1, <1>2, StreamInvHolds, PTL DEF Spec, KeepsStreaming, Promise!Spec
=============================================================================

---------------------------- MODULE NativeProofs ----------------------------
(***************************************************************************)
(* Proofs about the native library.                                        *)
(*                                                                         *)
(* First the contexts that hasher.cpp keeps, for every number of threads,  *)
(* contexts, huge pages and lockable pages: what holds of their memory.    *)
(*                                                                         *)
(* Then the functions on blocks that the hashes are made of, for every     *)
(* input: what the code computes is what the function is by definition.    *)
(* Each has an inductive invariant that says so after every round, with    *)
(* the types of its words, and a lemma that one round of the code is one   *)
(* round of the definition.  They rest on words being sets of bits: an     *)
(* exclusive or is known bit by bit, and sums may be taken in any order    *)
(* because the carries of two additions are the same together.             *)
(***************************************************************************)
EXTENDS NativeContext, Compressions, FoldProofs, SequenceTheorems, FunctionTheorems, FiniteSetTheorems, TLAPS

\* What the proof needs of the types.
Typed ==
    /\ pc \in [Threads -> {"idle", "first", "second", "third", "hashing", "freeing"}]
    /\ ctx \in [Threads -> Seq(Contexts)]
    /\ free \in Nat
    /\ foreign \in Nat
    /\ \A t \in Threads : pc[t] \in {"hashing", "freeing"} => ctx[t] # <<>>

\* The null pointer alloc_ctx returns is not a huge page.
LEMMA NullContext == Null \in Contexts /\ Null.kind = "null"
  BY DEF Null, Contexts

-----------------------------------------------------------------------------
(* The huge pages. *)

\* The huge pages in the arrays f.
Held(f) == {p \in Threads \X (1 .. Size) :
              p[2] \in DOMAIN f[p[1]] /\ f[p[1]][p[2]].kind = "huge"}

\* The pages that are counted are those of the arrays as they are.
LEMMA HeldNow == HugeContexts = Held(ctx) /\ HugeContexts' = Held(ctx')
BY DEF HugeContexts, Held

\* There are finitely many of them.
LEMMA HeldFinite ==
  ASSUME NEW f
  PROVE  IsFiniteSet(Held(f)) /\ Cardinality(Held(f)) \in Nat
<1>1. IsFiniteSet(Threads) /\ IsFiniteSet(1 .. Size)
  BY ConstantsAssumption, FS_Interval
<1>2. IsFiniteSet(Threads \X (1 .. Size))
  BY <1>1, FS_Product
<1>3. Held(f) \subseteq Threads \X (1 .. Size)
  BY DEF Held
<1> QED  BY <1>2, <1>3, FS_Subset, FS_CardinalityType

\* A page is a thread and a place in its array.
LEMMA HeldAt ==
  ASSUME NEW f
  PROVE  /\ \A t \in Threads, i \in 1 .. Size :
              <<t, i>> \in Held(f) <=> i \in DOMAIN f[t] /\ f[t][i].kind = "huge"
         /\ \A p \in Held(f) : \E t \in Threads, i \in 1 .. Size : p = <<t, i>>
BY DEF Held

\* A context at the end of an array is one more page if it is in one.
LEMMA HeldAppend ==
  ASSUME NEW f \in [Threads -> Seq(Contexts)], NEW t \in Threads, NEW c \in Contexts,
         Len(f[t]) < Size
  PROVE  Cardinality(Held([f EXCEPT ![t] = Append(@, c)]))
           = Cardinality(Held(f)) + IF c.kind = "huge" THEN 1 ELSE 0
<1> DEFINE g == [f EXCEPT ![t] = Append(@, c)]
           n == Len(f[t]) + 1
<1>1. f[t] \in Seq(Contexts) /\ n \in 1 .. Size
  BY ConstantsAssumption
<1>2. /\ DOMAIN f[t] = 1 .. (n - 1)
      /\ DOMAIN g[t] = 1 .. n
      /\ g[t][n] = c
      /\ \A i \in 1 .. (n - 1) : g[t][i] = f[t][i]
  BY <1>1, AppendProperties
<1>3. \A u \in Threads \ {t} : g[u] = f[u]
  OBVIOUS
<1> HIDE DEF g, n
<1>4. <<t, n>> \notin Held(f)
  BY <1>1, <1>2 DEF Held
<1>5. Held(g) = IF c.kind = "huge" THEN Held(f) \cup {<<t, n>>} ELSE Held(f)
  <2>1. ASSUME NEW p \in Threads \X (1 .. Size)
        PROVE  p \in Held(g) <=> p \in Held(f) \/ (c.kind = "huge" /\ p = <<t, n>>)
    <3>1. CASE p[1] # t
      BY <1>3, <3>1 DEF Held
    <3>2. CASE p[1] = t /\ p[2] # n
      BY <1>1, <1>2, <3>2 DEF Held
    <3>3. CASE p = <<t, n>>
      BY <1>1, <1>2, <1>4, <3>3 DEF Held
    <3> QED  BY <3>1, <3>2, <3>3
  <2>2. Held(g) \subseteq Threads \X (1 .. Size) /\ Held(f) \subseteq Threads \X (1 .. Size)
    BY DEF Held
  <2> QED  BY <1>1, <2>1, <2>2
<1>6. Cardinality(Held(g)) = Cardinality(Held(f)) + IF c.kind = "huge" THEN 1 ELSE 0
  <2>1. CASE c.kind = "huge"
    <3>1. IsFiniteSet(Held(f)) /\ Cardinality(Held(f)) \in Nat
      BY HeldFinite
    <3>2. Cardinality(Held(f) \cup {<<t, n>>}) = Cardinality(Held(f)) + 1
      BY <1>4, <3>1, FS_AddElement
    <3> QED  BY <1>5, <2>1, <3>2
  <2>2. CASE c.kind # "huge"
    BY <1>5, <2>2, HeldFinite
  <2> QED  BY <2>1, <2>2
<1> QED  BY <1>6 DEF g

\* Without its first context an array has one page less if that was in one.
LEMMA HeldTail ==
  ASSUME NEW f \in [Threads -> Seq(Contexts)], NEW t \in Threads,
         f[t] # <<>>, Len(f[t]) <= Size
  PROVE  Cardinality(Held([f EXCEPT ![t] = Tail(@)]))
           = Cardinality(Held(f)) - IF Head(f[t]).kind = "huge" THEN 1 ELSE 0
<1> DEFINE g == [f EXCEPT ![t] = Tail(@)]
           n == Len(f[t])
           Rest == Held(f) \ {<<t, 1>>}
           back == [p \in Rest |-> IF p[1] = t THEN <<t, p[2] - 1>> ELSE p]
<1>1. f[t] \in Seq(Contexts) /\ n \in 1 .. Size
  BY ConstantsAssumption
<1>2. /\ DOMAIN f[t] = 1 .. n
      /\ DOMAIN g[t] = 1 .. (n - 1)
      /\ \A i \in 1 .. (n - 1) : g[t][i] = f[t][i + 1]
      /\ Head(f[t]) = f[t][1]
  BY <1>1, HeadTailProperties
<1>3. \A u \in Threads \ {t} : g[u] = f[u]
  OBVIOUS
<1> HIDE DEF g, n
<1>4. <<t, 1>> \in Held(f) <=> Head(f[t]).kind = "huge"
  <2>1. 1 \in DOMAIN f[t] /\ 1 \in 1 .. Size
    BY <1>1, <1>2, ConstantsAssumption
  <2> QED  BY <1>2, <2>1, HeldAt
<1>5. \A i \in 2 .. n : <<t, i>> \in Held(f) <=> <<t, i - 1>> \in Held(g)
  <2> SUFFICES ASSUME NEW i \in 2 .. n
               PROVE  <<t, i>> \in Held(f) <=> <<t, i - 1>> \in Held(g)
    OBVIOUS
  <2>1. /\ i \in 1 .. Size /\ i - 1 \in 1 .. Size
        /\ i \in 1 .. n /\ i - 1 \in 1 .. (n - 1) /\ (i - 1) + 1 = i
    BY <1>1, ConstantsAssumption
  <2>2. g[t][i - 1] = f[t][i]
    BY <1>2, <2>1
  <2>3. <<t, i>> \in Held(f) <=> f[t][i].kind = "huge"
    BY <1>2, <2>1, HeldAt
  <2>4. <<t, i - 1>> \in Held(g) <=> g[t][i - 1].kind = "huge"
    BY <1>2, <2>1, HeldAt
  <2> QED  BY <2>2, <2>3, <2>4
<1>6. \A u \in Threads \ {t}, i \in 1 .. Size : <<u, i>> \in Held(f) <=> <<u, i>> \in Held(g)
  <2> SUFFICES ASSUME NEW u \in Threads \ {t}, NEW i \in 1 .. Size
               PROVE  <<u, i>> \in Held(f) <=> <<u, i>> \in Held(g)
    OBVIOUS
  <2>1. g[u] = f[u]
    BY <1>3
  <2>2. <<u, i>> \in Held(f) <=> i \in DOMAIN f[u] /\ f[u][i].kind = "huge"
    BY HeldAt
  <2>3. <<u, i>> \in Held(g) <=> i \in DOMAIN g[u] /\ g[u][i].kind = "huge"
    BY HeldAt
  <2> QED  BY <2>1, <2>2, <2>3
<1>7. ASSUME NEW p \in Rest
      PROVE  /\ back[p] \in Held(g)
             /\ \/ \E i \in 2 .. n : p = <<t, i>> /\ back[p] = <<t, i - 1>>
                \/ p[1] # t /\ back[p] = p
  <2>1. PICK u \in Threads, i \in 1 .. Size : p = <<u, i>>
    BY HeldAt
  <2>2. CASE u = t
    <3>1. i \in DOMAIN f[t] /\ i # 1
      BY <2>1, <2>2, HeldAt
    <3>2. i \in 2 .. n
      BY <1>1, <1>2, <3>1
    <3>3. back[p] = <<t, i - 1>>
      BY <2>1, <2>2
    <3>4. back[p] \in Held(g)
      BY <1>5, <2>1, <2>2, <3>2, <3>3
    <3> QED  BY <2>1, <2>2, <3>2, <3>3, <3>4
  <2>3. CASE u # t
    BY <1>6, <2>1, <2>3
  <2> QED  BY <2>2, <2>3
<1>8. ASSUME NEW q \in Held(g) PROVE \E p \in Rest : back[p] = q
  <2>1. PICK u \in Threads, i \in 1 .. Size : q = <<u, i>>
    BY HeldAt
  <2>2. CASE u = t
    <3> DEFINE p == <<t, i + 1>>
    <3>1. i \in DOMAIN g[t]
      BY <2>1, <2>2, HeldAt
    <3>2. i + 1 \in 2 .. n /\ (i + 1) - 1 = i /\ i + 1 # 1
      BY <1>1, <1>2, <3>1
    <3>3. p \in Rest
      BY <1>5, <2>1, <2>2, <3>2
    <3>4. back[p] = q
      BY <2>1, <2>2, <3>2, <3>3
    <3> QED  BY <3>3, <3>4
  <2>3. CASE u # t
    <3>1. q \in Rest
      BY <1>6, <2>1, <2>3
    <3> QED  BY <2>1, <2>3, <3>1
  <2> QED  BY <2>2, <2>3
<1> HIDE DEF back
<1>9. ASSUME NEW p \in Rest, NEW q \in Rest, back[p] = back[q] PROVE p = q
  <2>1. CASE p[1] # t /\ q[1] # t
    BY <1>7, <1>9, <2>1
  <2>2. CASE p[1] = t /\ q[1] = t
    <3>1. PICK i \in 2 .. n : p = <<t, i>> /\ back[p] = <<t, i - 1>>
      BY <1>7, <2>2
    <3>2. PICK j \in 2 .. n : q = <<t, j>> /\ back[q] = <<t, j - 1>>
      BY <1>7, <2>2
    <3>3. i - 1 = j - 1
      BY <1>9, <3>1, <3>2
    <3>4. i = j
      BY <1>1, <3>3
    <3> QED  BY <3>1, <3>2, <3>4
  <2>3. CASE (p[1] = t) # (q[1] = t)
    <3>1. (back[p])[1] # (back[q])[1]
      BY <1>7, <2>3
    <3> QED  BY <1>9, <3>1
  <2> QED  BY <2>1, <2>2, <2>3
<1>10. back \in Bijection(Rest, Held(g))
  <2>1. back \in [Rest -> Held(g)]
    BY <1>7 DEF back
  <2> QED  BY <1>8, <1>9, <2>1, Fun_IsBij
<1>11. IsFiniteSet(Rest) /\ Cardinality(Rest)
         = Cardinality(Held(f)) - IF Head(f[t]).kind = "huge" THEN 1 ELSE 0
  <2>1. IsFiniteSet(Held(f)) /\ Cardinality(Held(f)) \in Nat
    BY HeldFinite
  <2>2. IsFiniteSet(Rest) /\ Cardinality(Rest)
          = IF <<t, 1>> \in Held(f) THEN Cardinality(Held(f)) - 1 ELSE Cardinality(Held(f))
    BY <2>1, FS_RemoveElement
  <2> QED  BY <1>4, <2>1, <2>2
<1>12. ExistsBijection(Rest, Held(g))
  BY <1>10, Fun_ExistsBij
<1>13. Cardinality(Held(g)) = Cardinality(Rest)
  BY <1>11, <1>12, FS_Bijection
<1> QED  BY <1>11, <1>13 DEF g

\* How full an array is where its thread is.
Filling == \A t \in Threads :
  /\ Len(ctx[t]) <= Size
  /\ pc[t] = "idle" => ctx[t] = <<>>
  /\ pc[t] \in {"first", "second", "third"} => Len(ctx[t]) < Size

Counters == leaked \in Nat /\ locked \in 0 .. LockLimit /\ crashed \in BOOLEAN

AccountInv == Typed /\ Filling /\ Counters /\ PagesAccounted

\* A context is one more, a huge page if it is in one.
LEMMA FillCounts ==
  ASSUME AccountInv, NEW t \in Threads, NEW c \in Contexts,
         pc[t] \in {"first", "second", "third"}, Fill(t, c)
  PROVE  /\ pc' \in [Threads -> {"idle", "first", "second", "third", "hashing", "freeing"}]
         /\ ctx' \in [Threads -> Seq(Contexts)]
         /\ \A u \in Threads : pc'[u] \in {"hashing", "freeing"} => ctx'[u] # <<>>
         /\ Filling'
         /\ Cardinality(HugeContexts')
              = Cardinality(HugeContexts) + IF c.kind = "huge" THEN 1 ELSE 0
<1>1. /\ ctx' = [ctx EXCEPT ![t] = Append(ctx[t], c)]
      /\ pc' = [pc EXCEPT ![t] = IF Len(ctx'[t]) = Size THEN "hashing" ELSE "first"]
  BY DEF Fill
<1>2. ctx[t] \in Seq(Contexts) /\ Len(ctx[t]) < Size
  BY DEF AccountInv, Typed, Filling
<1>3. /\ Append(ctx[t], c) \in Seq(Contexts) /\ Append(ctx[t], c) # <<>>
      /\ Len(Append(ctx[t], c)) = Len(ctx[t]) + 1
  BY <1>2, AppendProperties
<1>4. /\ pc' \in [Threads -> {"idle", "first", "second", "third", "hashing", "freeing"}]
      /\ ctx' \in [Threads -> Seq(Contexts)]
  BY <1>1, <1>3 DEF AccountInv, Typed
<1>5. \A u \in Threads : pc'[u] \in {"hashing", "freeing"} => ctx'[u] # <<>>
  BY <1>1, <1>3 DEF AccountInv, Typed
<1>6. Filling'
  <2> SUFFICES ASSUME NEW u \in Threads
               PROVE  /\ Len(ctx'[u]) <= Size
                      /\ pc'[u] = "idle" => ctx'[u] = <<>>
                      /\ pc'[u] \in {"first", "second", "third"} => Len(ctx'[u]) < Size
    BY DEF Filling
  <2>1. CASE u = t
    <3>1. ctx'[u] = Append(ctx[t], c)
      BY <1>1, <2>1 DEF AccountInv, Typed
    <3>2. pc'[u] = IF Len(ctx'[u]) = Size THEN "hashing" ELSE "first"
      BY <1>1, <2>1 DEF AccountInv, Typed
    <3>3. Len(ctx'[u]) \in Nat /\ Len(ctx'[u]) <= Size
      BY <1>2, <1>3, <3>1, ConstantsAssumption
    <3> QED  BY <3>2, <3>3, ConstantsAssumption
  <2>2. CASE u # t
    BY <1>1, <2>2 DEF AccountInv, Typed, Filling
  <2> QED  BY <2>1, <2>2
<1>7. Cardinality(HugeContexts')
        = Cardinality(HugeContexts) + IF c.kind = "huge" THEN 1 ELSE 0
  BY <1>1, <1>2, HeldNow, HeldAppend DEF AccountInv, Typed
<1> QED  BY <1>4, <1>5, <1>6, <1>7

(* AccountInv holds at first. *)
LEMMA AccountInit == Init => AccountInv
<1> SUFFICES ASSUME Init PROVE AccountInv
  OBVIOUS
<1>1. Typed
  <2>1. <<>> \in Seq(Contexts)
    OBVIOUS
  <2> QED  BY <2>1, ConstantsAssumption DEF Init, Typed
<1>2. Filling /\ Counters
  <2>1. Len(<<>>) = 0 /\ 0 <= Size /\ 0 \in 0 .. LockLimit
    BY ConstantsAssumption
  <2>2. \A t \in Threads : ctx[t] = <<>> /\ pc[t] = "idle"
    BY DEF Init
  <2>3. Filling
    BY <2>1, <2>2 DEF Filling
  <2> QED  BY <2>1, <2>3 DEF Init, Counters
<1>3. HugeContexts = {}
  BY DEF Init, HugeContexts
<1>4. Cardinality(HugeContexts) = 0
  BY <1>3, FS_EmptySet
<1>5. PagesAccounted
  BY <1>4, ConstantsAssumption DEF Init, PagesAccounted
<1> QED  BY <1>1, <1>2, <1>5 DEF AccountInv

(* Every step keeps AccountInv: a page that changes hands is counted once  *)
(* before and once after.                                                  *)
LEMMA AccountStep == AccountInv /\ [Next]_vars => AccountInv'
<1> SUFFICES ASSUME AccountInv, [Next]_vars PROVE AccountInv'
  OBVIOUS
<1>1. /\ free \in Nat /\ foreign \in Nat /\ leaked \in Nat /\ locked \in 0 .. LockLimit
      /\ LockLimit \in Nat /\ HugePages \in Nat
      /\ Cardinality(HugeContexts) \in Nat
      /\ free + foreign + leaked + Cardinality(HugeContexts) = HugePages
  BY ConstantsAssumption, HeldNow, HeldFinite
  DEF AccountInv, Typed, Counters, PagesAccounted
<1>2. ASSUME UNCHANGED ctx PROVE HugeContexts' = HugeContexts
  BY <1>2 DEF HugeContexts
<1>3. ASSUME NEW t \in Threads, Call(t) PROVE AccountInv'
  <2>1. Len(<<>>) < Size
    BY ConstantsAssumption
  <2> QED
    BY <1>2, <1>3, <2>1
    DEF Call, AccountInv, Typed, Filling, Counters, PagesAccounted
<1>4. ASSUME NEW t \in Threads, FirstAttempt(t) PROVE AccountInv'
  <2>1. CASE free > 0
    <3>1. /\ Fill(t, Null) /\ free' = free - 1 /\ leaked' = leaked + 1
          /\ locked' = IF locked < LockLimit THEN locked + 1 ELSE locked
          /\ UNCHANGED <<foreign, crashed>>
      BY <1>4, <2>1 DEF FirstAttempt
    <3>2. pc[t] \in {"first", "second", "third"} /\ Null \in Contexts /\ Null.kind # "huge"
      BY <1>4, NullContext DEF FirstAttempt
    <3>3. Cardinality(HugeContexts') = Cardinality(HugeContexts)
      BY <1>1, <3>1, <3>2, FillCounts
    <3>4. Counters' /\ PagesAccounted'
      BY <1>1, <2>1, <3>1, <3>3 DEF AccountInv, Counters, PagesAccounted
    <3>5. free' \in Nat
      BY <1>1, <2>1, <3>1
    <3> QED  BY <1>1, <3>1, <3>2, <3>4, <3>5, FillCounts DEF AccountInv, Typed
  <2>2. CASE ~(free > 0)
    BY <1>2, <1>4, <2>2
    DEF FirstAttempt, GoTo, AccountInv, Typed, Filling, Counters, PagesAccounted
  <2> QED  BY <2>1, <2>2
<1>5. ASSUME NEW t \in Threads, SecondAttempt(t) PROVE AccountInv'
  <2>1. CASE free > 0
    <3> DEFINE c == [kind |-> "huge", munlock |-> TRUE]
    <3>1. Fill(t, c) /\ free' = free - 1 /\ UNCHANGED <<foreign, leaked, locked, crashed>>
      BY <1>5, <2>1 DEF SecondAttempt
    <3>2. pc[t] \in {"first", "second", "third"} /\ c \in Contexts /\ c.kind = "huge"
      BY <1>5 DEF SecondAttempt, Contexts
    <3> HIDE DEF c
    <3>3. Cardinality(HugeContexts') = Cardinality(HugeContexts) + 1
      BY <1>1, <3>1, <3>2, FillCounts
    <3>4. Counters' /\ PagesAccounted'
      BY <1>1, <2>1, <3>1, <3>3 DEF AccountInv, Counters, PagesAccounted
    <3>5. free' \in Nat
      BY <1>1, <2>1, <3>1
    <3> QED  BY <1>1, <3>1, <3>2, <3>4, <3>5, FillCounts DEF AccountInv, Typed
  <2>2. CASE ~(free > 0)
    BY <1>2, <1>5, <2>2
    DEF SecondAttempt, GoTo, AccountInv, Typed, Filling, Counters, PagesAccounted
  <2> QED  BY <2>1, <2>2
<1>6. ASSUME NEW t \in Threads, ThirdAttempt(t) PROVE AccountInv'
  <2> DEFINE c == [kind |-> "slow", munlock |-> FALSE]
  <2>1. Fill(t, c) /\ UNCHANGED <<free, foreign, leaked, locked, crashed>>
    BY <1>6 DEF ThirdAttempt
  <2>2. pc[t] \in {"first", "second", "third"} /\ c \in Contexts /\ c.kind # "huge"
    BY <1>6 DEF ThirdAttempt, Contexts
  <2> HIDE DEF c
  <2>3. Cardinality(HugeContexts') = Cardinality(HugeContexts)
    BY <1>1, <2>1, <2>2, FillCounts
  <2>4. Counters' /\ PagesAccounted'
    BY <1>1, <2>1, <2>3 DEF AccountInv, Counters, PagesAccounted
  <2> QED  BY <1>1, <2>1, <2>2, <2>4, FillCounts DEF AccountInv, Typed
<1>7. ASSUME NEW t \in Threads, Hash(t) PROVE AccountInv'
  BY <1>2, <1>7
  DEF Hash, AccountInv, Typed, Filling, Counters, PagesAccounted
<1>8. ASSUME NEW t \in Threads, Free(t) PROVE AccountInv'
  <2>1. CASE Head(ctx[t]) = Null
    BY <1>2, <1>8, <2>1
    DEF Free, AccountInv, Typed, Filling, Counters, PagesAccounted
  <2>2. CASE Head(ctx[t]) # Null
    <3>1. /\ free' = IF Head(ctx[t]).kind = "huge" THEN free + 1 ELSE free
          /\ ctx' = [ctx EXCEPT ![t] = Tail(ctx[t])]
          /\ pc' = [pc EXCEPT ![t] = IF ctx'[t] = <<>> THEN "idle" ELSE "freeing"]
          /\ UNCHANGED <<foreign, leaked, locked, crashed>>
      BY <1>8, <2>2 DEF Free
    <3>2. ctx[t] \in Seq(Contexts) /\ ctx[t] # <<>> /\ Len(ctx[t]) <= Size
      BY <1>8 DEF Free, AccountInv, Typed, Filling
    <3>3. Tail(ctx[t]) \in Seq(Contexts) /\ Len(Tail(ctx[t])) = Len(ctx[t]) - 1
      BY <3>2, HeadTailProperties
    <3>4. Cardinality(HugeContexts')
            = Cardinality(HugeContexts) - IF Head(ctx[t]).kind = "huge" THEN 1 ELSE 0
      BY <3>1, <3>2, HeldNow, HeldTail DEF AccountInv, Typed
    <3>5. free' \in Nat /\ Counters' /\ PagesAccounted'
      BY <1>1, <3>1, <3>4 DEF AccountInv, Counters, PagesAccounted
    <3>6. Typed'
      BY <3>1, <3>3, <3>5 DEF AccountInv, Typed
    <3>7. Filling'
      <4> SUFFICES ASSUME NEW u \in Threads
                   PROVE  /\ Len(ctx'[u]) <= Size
                          /\ pc'[u] = "idle" => ctx'[u] = <<>>
                          /\ pc'[u] \in {"first", "second", "third"} => Len(ctx'[u]) < Size
        BY DEF Filling
      <4>1. CASE u = t
        <5>1. ctx'[u] = Tail(ctx[t]) /\ pc'[u] = IF ctx'[u] = <<>> THEN "idle" ELSE "freeing"
          BY <3>1, <4>1 DEF AccountInv, Typed
        <5>2. Len(ctx'[u]) <= Size
          BY <3>2, <3>3, <5>1, ConstantsAssumption
        <5> QED  BY <5>1, <5>2
      <4>2. CASE u # t
        BY <3>1, <4>2 DEF AccountInv, Typed, Filling
      <4> QED  BY <4>1, <4>2
    <3> QED  BY <3>5, <3>6, <3>7 DEF AccountInv
  <2> QED  BY <2>1, <2>2
<1>9. CASE TakeForeign \/ GiveForeign
  <2>1. /\ free' \in Nat /\ foreign' \in Nat /\ free' + foreign' = free + foreign
        /\ UNCHANGED <<pc, ctx, leaked, locked, crashed>>
    BY <1>1, <1>9 DEF TakeForeign, GiveForeign
  <2>2. PagesAccounted'
    BY <1>1, <1>2, <2>1 DEF PagesAccounted
  <2> QED  BY <2>1, <2>2 DEF AccountInv, Typed, Filling, Counters
<1>10. CASE UNCHANGED vars
  BY <1>2, <1>10 DEF vars, AccountInv, Typed, Filling, Counters, PagesAccounted
<1> QED
  BY <1>3, <1>4, <1>5, <1>6, <1>7, <1>8, <1>9, <1>10 DEF Next, Step

\* Every huge page is free, in use by someone, or leaked, for every number of
\* threads that map and free theirs in any order.
THEOREM PagesAccountedHolds == Spec => []PagesAccounted
<1>1. AccountInv => PagesAccounted
  BY DEF AccountInv
<1> QED  BY <1>1, AccountInit, AccountStep, PTL DEF Spec

\* No array outgrows SIZE and no counter the machine, since the pages are
\* accounted for.
THEOREM TypeCorrect == Spec => []TypeOK
<1>1. AccountInv => TypeOK
  <2> SUFFICES ASSUME AccountInv PROVE TypeOK
    OBVIOUS
  <2>1. free \in 0 .. HugePages /\ foreign \in 0 .. HugePages /\ leaked \in 0 .. HugePages
    BY ConstantsAssumption, HeldNow, HeldFinite
    DEF AccountInv, Typed, Counters, PagesAccounted
  <2> QED  BY <2>1 DEF AccountInv, Typed, Filling, Counters, TypeOK
<1> QED  BY <1>1, AccountInit, AccountStep, PTL DEF Spec

-----------------------------------------------------------------------------
(* The end of the process. *)

\* Some array holds a null pointer.
HasNull(f) == \E t \in Threads : \E i \in DOMAIN f[t] : f[t][i] = Null

\* A null pointer comes of a leak, and so does the end of the process.
LeakInv == AccountInv /\ (HasNull(ctx) => leaked > 0) /\ OnlyLeaksKill

\* A context at the end of an array brings no null pointer unless it is one.
LEMMA FillServes ==
  ASSUME ctx \in [Threads -> Seq(Contexts)], NEW t \in Threads, NEW c \in Contexts, c # Null, Fill(t, c)
  PROVE  HasNull(ctx') => HasNull(ctx)
<1>1. ctx' = [ctx EXCEPT ![t] = Append(ctx[t], c)] /\ ctx[t] \in Seq(Contexts)
  BY DEF Fill
<1>2. /\ DOMAIN Append(ctx[t], c) = 1 .. (Len(ctx[t]) + 1)
      /\ Append(ctx[t], c)[Len(ctx[t]) + 1] = c
      /\ \A i \in 1 .. Len(ctx[t]) : Append(ctx[t], c)[i] = ctx[t][i]
      /\ DOMAIN ctx[t] = 1 .. Len(ctx[t])
  BY <1>1, AppendProperties
<1> SUFFICES ASSUME NEW u \in Threads, NEW i \in DOMAIN ctx'[u], ctx'[u][i] = Null
             PROVE  \E j \in DOMAIN ctx[u] : ctx[u][j] = Null
  BY DEF HasNull
<1>3. CASE u = t
  <2>1. ctx'[u] = Append(ctx[t], c)
    BY <1>1, <1>3
  <2>2. i \in 1 .. (Len(ctx[t]) + 1) /\ i # Len(ctx[t]) + 1
    BY <1>2, <2>1
  <2>3. i \in 1 .. Len(ctx[t])
    BY <1>1, <2>2
  <2> QED  BY <1>2, <1>3, <2>1, <2>3
<1>4. CASE u # t
  BY <1>1, <1>4
<1> QED  BY <1>3, <1>4

\* Nor does an array without its first context.
LEMMA FreeServes ==
  ASSUME ctx \in [Threads -> Seq(Contexts)], NEW t \in Threads, ctx[t] # <<>>,
         ctx' = [ctx EXCEPT ![t] = Tail(@)]
  PROVE  HasNull(ctx') => HasNull(ctx)
<1>1. ctx[t] \in Seq(Contexts)
  OBVIOUS
<1>2. /\ DOMAIN Tail(ctx[t]) = 1 .. (Len(ctx[t]) - 1)
      /\ \A i \in 1 .. (Len(ctx[t]) - 1) : Tail(ctx[t])[i] = ctx[t][i + 1]
      /\ DOMAIN ctx[t] = 1 .. Len(ctx[t])
  BY <1>1, HeadTailProperties
<1> SUFFICES ASSUME NEW u \in Threads, NEW i \in DOMAIN ctx'[u], ctx'[u][i] = Null
             PROVE  \E j \in DOMAIN ctx[u] : ctx[u][j] = Null
  BY DEF HasNull
<1>3. CASE u = t
  <2>1. ctx'[u] = Tail(ctx[t])
    BY <1>3
  <2>2. i \in 1 .. (Len(ctx[t]) - 1)
    BY <1>2, <2>1
  <2>3. i + 1 \in 1 .. Len(ctx[t])
    BY <1>1, <2>2
  <2> QED  BY <1>2, <1>3, <2>1, <2>2, <2>3
<1>4. CASE u # t
  BY <1>4
<1> QED  BY <1>3, <1>4

(* LeakInv holds at first. *)
LEMMA LeakInit == Init => LeakInv
<1> SUFFICES ASSUME Init PROVE LeakInv
  OBVIOUS
<1>1. ~HasNull(ctx) /\ ~crashed
  BY DEF Init, HasNull
<1> QED  BY <1>1, AccountInit DEF LeakInv, OnlyLeaksKill

(* Every step keeps LeakInv: only the first attempt returns null, and it   *)
(* leaks; and only a null pointer in an array ends the process.            *)
LEMMA LeakStep == LeakInv /\ [Next]_vars => LeakInv'
<1> SUFFICES ASSUME LeakInv, [Next]_vars PROVE LeakInv'
  OBVIOUS
<1>1. AccountInv /\ AccountInv'
  BY AccountStep DEF LeakInv
<1>2. /\ ctx \in [Threads -> Seq(Contexts)] /\ leaked \in Nat
      /\ \A t \in Threads : pc[t] \in {"hashing", "freeing"} => ctx[t] # <<>>
  BY <1>1 DEF AccountInv, Typed, Counters
<1>3. (HasNull(ctx) => leaked > 0) /\ (crashed => leaked > 0)
  BY DEF LeakInv, OnlyLeaksKill
<1> DEFINE Kept == (HasNull(ctx') => leaked' > 0) /\ (crashed' => leaked' > 0)
<1> SUFFICES Kept
  BY <1>1 DEF LeakInv, OnlyLeaksKill, HasNull
<1>4. ASSUME leaked' = leaked, HasNull(ctx') => HasNull(ctx), crashed' => crashed \/ HasNull(ctx)
      PROVE  Kept
  BY <1>3, <1>4
<1>5. ASSUME UNCHANGED <<ctx, leaked, crashed>> PROVE Kept
  BY <1>3, <1>5
<1>6. ASSUME NEW t \in Threads, pc[t] \in {"hashing", "freeing"}, ctx[t][1] = Null PROVE HasNull(ctx)
  <2>1. ctx[t] \in Seq(Contexts) /\ ctx[t] # <<>>
    BY <1>2, <1>6
  <2>2. 1 \in DOMAIN ctx[t]
    BY <2>1
  <2> QED  BY <1>6, <2>2 DEF HasNull
<1>7. ASSUME NEW t \in Threads, Call(t) PROVE Kept
  BY <1>5, <1>7 DEF Call
<1>8. ASSUME NEW t \in Threads, FirstAttempt(t) PROVE Kept
  <2>1. CASE free > 0
    <3>1. leaked' = leaked + 1
      BY <1>8, <2>1 DEF FirstAttempt
    <3> QED  BY <1>2, <3>1
  <2>2. CASE ~(free > 0)
    BY <1>5, <1>8, <2>2 DEF FirstAttempt, GoTo
  <2> QED  BY <2>1, <2>2
<1>9. ASSUME NEW t \in Threads, SecondAttempt(t) PROVE Kept
  <2>1. CASE free > 0
    <3> DEFINE c == [kind |-> "huge", munlock |-> TRUE]
    <3>1. Fill(t, c) /\ UNCHANGED <<leaked, crashed>>
      BY <1>9, <2>1 DEF SecondAttempt
    <3>2. c \in Contexts /\ c # Null
      BY NullContext DEF Contexts
    <3> HIDE DEF c
    <3> QED  BY <1>2, <1>4, <3>1, <3>2, FillServes
  <2>2. CASE ~(free > 0)
    BY <1>5, <1>9, <2>2 DEF SecondAttempt, GoTo
  <2> QED  BY <2>1, <2>2
<1>10. ASSUME NEW t \in Threads, ThirdAttempt(t) PROVE Kept
  <2> DEFINE c == [kind |-> "slow", munlock |-> FALSE]
  <2>1. Fill(t, c) /\ UNCHANGED <<leaked, crashed>>
    BY <1>10 DEF ThirdAttempt
  <2>2. c \in Contexts /\ c # Null
    BY NullContext DEF Contexts
  <2> HIDE DEF c
  <2> QED  BY <1>2, <1>4, <2>1, <2>2, FillServes
<1>11. ASSUME NEW t \in Threads, Hash(t) PROVE Kept
  BY <1>4, <1>6, <1>11 DEF Hash
<1>12. ASSUME NEW t \in Threads, Free(t) PROVE Kept
  <2>1. ctx[t] \in Seq(Contexts) /\ ctx[t] # <<>> /\ Head(ctx[t]) = ctx[t][1]
    BY <1>2, <1>12 DEF Free
  <2>2. CASE Head(ctx[t]) = Null
    BY <1>4, <1>6, <1>12, <2>1, <2>2 DEF Free
  <2>3. CASE Head(ctx[t]) # Null
    <3>1. ctx' = [ctx EXCEPT ![t] = Tail(@)] /\ UNCHANGED <<leaked, crashed>>
      BY <1>12, <2>3 DEF Free
    <3> QED  BY <1>2, <1>4, <2>1, <3>1, FreeServes
  <2> QED  BY <2>2, <2>3
<1>13. CASE TakeForeign \/ GiveForeign \/ UNCHANGED vars
  BY <1>5, <1>13 DEF TakeForeign, GiveForeign, vars
<1> QED
  BY <1>7, <1>8, <1>9, <1>10, <1>11, <1>12, <1>13 DEF Next, Step

\* The process dies of nothing but a first attempt that succeeded, for every
\* number of threads, contexts, huge pages and lockable pages, and whatever
\* other processes do between the attempts.
THEOREM OnlyLeaksKillHolds == Spec => []OnlyLeaksKill
<1>1. LeakInv => OnlyLeaksKill
  BY DEF LeakInv
<1> QED  BY <1>1, LeakInit, LeakStep, PTL DEF Spec

-----------------------------------------------------------------------------
(* Words: bits, carries and sums.                                          *)

(* The carry into a bit of a sum. *)
Carry(a, b, i) == \E j \in a \intersect b : j < i /\ (j + 1)..(i - 1) \subseteq XorBits(a, b)

(* A bit of an exclusive or is in one of the words and not in the other.   *)
LEMMA XorBitsIn ==
  ASSUME NEW a, NEW b, NEW i
  PROVE  i \in XorBits(a, b) <=> (i \in a /\ i \notin b) \/ (i \notin a /\ i \in b)
BY DEF XorBits

(* No carry comes into the lowest bit of a sum.                            *)
LEMMA CarryZero ==
  ASSUME NEW a \in SUBSET Nat, NEW b
  PROVE  ~Carry(a, b, 0)
BY DEF Carry

(* A carry comes into the next bit when both words have this bit, or one   *)
(* has it and a carry came into it.                                        *)
LEMMA CarryNext ==
  ASSUME NEW a \in SUBSET Nat, NEW b, NEW i \in Nat
  PROVE  Carry(a, b, i + 1) <=> \/ i \in a /\ i \in b
                                \/ ((i \in a \/ i \in b) /\ Carry(a, b, i))
<1>1. ASSUME Carry(a, b, i + 1)
      PROVE  (i \in a /\ i \in b) \/ ((i \in a \/ i \in b) /\ Carry(a, b, i))
  <2>1. PICK j \in a \intersect b : j < i + 1 /\ (j + 1)..i \subseteq XorBits(a, b)
    BY <1>1 DEF Carry
  <2>2. CASE j = i
    <3>1. i \in a /\ i \in b
      BY <2>2
    <3> QED BY <3>1
  <2>3. CASE j # i
    <3>1. j < i /\ i \in (j + 1)..i /\ (j + 1)..(i - 1) \subseteq (j + 1)..i
      BY <2>1, <2>3
    <3>2. i \in a \/ i \in b
      BY <2>1, <3>1, XorBitsIn
    <3> QED BY <2>1, <3>1, <3>2 DEF Carry
  <2> QED BY <2>2, <2>3
<1>2. ASSUME i \in a, i \in b PROVE Carry(a, b, i + 1)
  <2>1. i < i + 1 /\ (i + 1)..((i + 1) - 1) = {}
    OBVIOUS
  <2> QED BY <1>2, <2>1 DEF Carry
<1>3. ASSUME Carry(a, b, i), i \in a \/ i \in b PROVE Carry(a, b, i + 1)
  <2>1. CASE i \in a /\ i \in b
    BY <1>2, <2>1
  <2>2. CASE ~(i \in a /\ i \in b)
    <3>1. PICK j \in a \intersect b : j < i /\ (j + 1)..(i - 1) \subseteq XorBits(a, b)
      BY <1>3 DEF Carry
    <3>2. j < i + 1 /\ (j + 1)..((i + 1) - 1) \subseteq ((j + 1)..(i - 1)) \union {i}
      BY <3>1
    <3>3. i \in XorBits(a, b)
      BY <1>3, <2>2, XorBitsIn
    <3> QED BY <3>1, <3>2, <3>3 DEF Carry
  <2> QED BY <2>1, <2>2
<1> QED BY <1>1, <1>2, <1>3

(* A bit of a sum: the exclusive or of the bits of the words and of the    *)
(* carry into it.                                                          *)
LEMMA PlusIn ==
  ASSUME NEW w, NEW a, NEW b, NEW i
  PROVE  i \in Plus(w, a, b) <=> /\ i \in 0..w - 1
                                /\ \/ i \in XorBits(a, b) /\ ~Carry(a, b, i)
                                   \/ i \notin XorBits(a, b) /\ Carry(a, b, i)
BY DEF Plus, Carry

(* A sum of three, by the first two or the last two: together, the carries *)
(* of the two additions are the same.                                      *)
LEMMA CarriesAgree ==
  ASSUME NEW w \in Nat, NEW a \in SUBSET Nat, NEW b \in SUBSET Nat, NEW c \in SUBSET Nat, NEW i \in 0..w
  PROVE  /\ (Carry(a, b, i) <=> Carry(Plus(w, a, b), c, i)) <=> (Carry(b, c, i) <=> Carry(a, Plus(w, b, c), i))
         /\ (Carry(a, b, i) /\ Carry(Plus(w, a, b), c, i)) <=> (Carry(b, c, i) /\ Carry(a, Plus(w, b, c), i))
<1> DEFINE ab == Plus(w, a, b)
           bc == Plus(w, b, c)
           Agree(k) == /\ (Carry(a, b, k) <=> Carry(ab, c, k)) <=> (Carry(b, c, k) <=> Carry(a, bc, k))
                       /\ (Carry(a, b, k) /\ Carry(ab, c, k)) <=> (Carry(b, c, k) /\ Carry(a, bc, k))
           S == {k \in 0..w : Agree(k)}
<1>0. ab \in SUBSET Nat /\ bc \in SUBSET Nat
  BY DEF Plus
<1>1. 0 \in S
  <2>1. ~Carry(a, b, 0) /\ ~Carry(ab, c, 0) /\ ~Carry(b, c, 0) /\ ~Carry(a, bc, 0)
    <3> HIDE DEF ab, bc
    <3> QED BY <1>0, CarryZero
  <2> QED BY <2>1
<1>2. ASSUME NEW k \in 1..w, k - 1 \in S PROVE k \in S
  <2> DEFINE j == k - 1
             p == Carry(a, b, j)
             q == Carry(ab, c, j)
             r == Carry(b, c, j)
             s == Carry(a, bc, j)
             A == j \in a
             B == j \in b
             C == j \in c
             AB == j \in ab
             BC == j \in bc
  <2>0. j \in Nat /\ k = j + 1 /\ j \in 0..w - 1
    OBVIOUS
  <2>1. ((p <=> q) <=> (r <=> s)) /\ ((p /\ q) <=> (r /\ s))
    BY <1>2
  <2>2. /\ AB <=> ((A <=> B) <=> p)
        /\ BC <=> ((B <=> C) <=> r)
    <3> HIDE DEF j
    <3> QED BY <2>0, PlusIn, XorBitsIn
  <2>3. /\ Carry(a, b, k) <=> (A /\ B) \/ ((A \/ B) /\ p)
        /\ Carry(ab, c, k) <=> (AB /\ C) \/ ((AB \/ C) /\ q)
        /\ Carry(b, c, k) <=> (B /\ C) \/ ((B \/ C) /\ r)
        /\ Carry(a, bc, k) <=> (A /\ BC) \/ ((A \/ BC) /\ s)
    <3> HIDE DEF j, ab, bc
    <3> QED BY <1>0, <2>0, CarryNext
  <2>4. Agree(k)
    <3> HIDE DEF p, q, r, s, A, B, C, AB, BC
    <3> QED BY <2>1, <2>2, <2>3
  <2> QED BY <2>4
<1> HIDE DEF S
<1>3. \A k \in 0..w : k \in S
  BY <1>1, <1>2, Induction
<1> QED BY <1>3 DEF S

(* Machine words add in any order. *)
LEMMA PlusAssociates ==
  ASSUME NEW w \in Nat, NEW a \in SUBSET Nat, NEW b \in SUBSET Nat, NEW c \in SUBSET Nat
  PROVE  Plus(w, Plus(w, a, b), c) = Plus(w, a, Plus(w, b, c))
<1> DEFINE ab == Plus(w, a, b)
           bc == Plus(w, b, c)
<1>1. ASSUME NEW i \in 0..w - 1 PROVE i \in Plus(w, ab, c) <=> i \in Plus(w, a, bc)
  <2>1. /\ (Carry(a, b, i) <=> Carry(ab, c, i)) <=> (Carry(b, c, i) <=> Carry(a, bc, i))
        /\ (Carry(a, b, i) /\ Carry(ab, c, i)) <=> (Carry(b, c, i) /\ Carry(a, bc, i))
    BY CarriesAgree
  <2>2. /\ i \in ab <=> ((i \in a <=> i \in b) <=> Carry(a, b, i))
        /\ i \in bc <=> ((i \in b <=> i \in c) <=> Carry(b, c, i))
    BY PlusIn, XorBitsIn
  <2> HIDE DEF ab, bc
  <2>3. /\ i \in Plus(w, ab, c) <=> ((i \in ab <=> i \in c) <=> Carry(ab, c, i))
        /\ i \in Plus(w, a, bc) <=> ((i \in a <=> i \in bc) <=> Carry(a, bc, i))
    BY PlusIn, XorBitsIn
  <2> QED BY <2>1, <2>2, <2>3
<1>2. Plus(w, ab, c) \subseteq 0..w - 1 /\ Plus(w, a, bc) \subseteq 0..w - 1
  BY DEF Plus
<1> HIDE DEF ab, bc
<1>3. Plus(w, ab, c) = Plus(w, a, bc)
  BY <1>1, <1>2
<1> QED BY <1>3 DEF ab, bc

(* f goes through the values of a on the sets of the first numbers. *)
Climbs(f, n, a) == f[{}] = a[0] /\ \A k \in 1..n : f[1..(k - 1)] = a[k - 1] => f[1..k] = a[k]

(* At the last of them it has the last value.                              *)
LEMMA Climbed ==
  ASSUME NEW n \in Nat, NEW f, NEW a, Climbs(f, n, a)
  PROVE  f[1..n] = a[n]
BY FoldSteps DEF Climbs

(* One more element makes an odd number even and an even number odd. *)
LEMMA OddAdd ==
  ASSUME NEW S, IsFiniteSet(S), NEW x, x \notin S
  PROVE  Odd(S \union {x}) <=> ~Odd(S)
<1>1. Cardinality(S \union {x}) = Cardinality(S) + 1 /\ Cardinality(S) \in Nat
  BY FS_AddElement, FS_CardinalityType
<1> QED BY <1>1 DEF Odd

(* Nothing behind a sequence. *)
LEMMA Whole ==
  ASSUME NEW n \in Nat, NEW s, IsSequence(s, n)
  PROVE  s \o <<>> = s /\ DOMAIN s = 1..n
<1>1. s \in Seq({s[i] : i \in 1..n}) /\ DOMAIN s = 1..n
  BY LengthIs
<1> QED BY <1>1, ConcatEmptySeq

(* A bit of an exclusive or, word by word. *)
LEMMA XorAllIn ==
  ASSUME NEW n \in Nat, NEW s, IsSequence(s, n), NEW i
  PROVE  i \in XorAll(s) <=> Odd({k \in 1..n : i \in s[k]})
<1>1. s \o <<>> = s /\ DOMAIN s = 1..n
  BY Whole
<1>2. Odd({k \in 1..n : i \in s[k]}) => \E k \in 1..n : i \in s[k]
  <2> DEFINE S == {k \in 1..n : i \in s[k]}
  <2>1. ~Odd({})
    BY FS_EmptySet DEF Odd
  <2>2. Odd(S) => S # {}
    <3> HIDE DEF S
    <3> QED BY <2>1
  <2> QED BY <2>2
<1>3. (\E k \in 1..n : i \in s[k]) => i \in UNION Range(s)
  BY <1>1 DEF Range
<1> QED BY <1>1, <1>2, <1>3 DEF XorAll

(* The exclusive or of one more word. *)
LEMMA XorAllNext ==
  ASSUME NEW n \in Nat, NEW s, IsSequence(s, n + 1), NEW f, IsSequence(f, n), \A k \in 1..n : f[k] = s[k],
         NEW i
  PROVE  i \in XorAll(s) <=> ~(i \in XorAll(f) <=> i \in s[n + 1])
<1> DEFINE S == {k \in 1..n : i \in f[k]}
           U == {k \in 1..n + 1 : i \in s[k]}
<1>2. i \in XorAll(f) <=> Odd(S)
  BY XorAllIn
<1>3. i \in XorAll(s) <=> Odd(U)
  <2>1. n + 1 \in Nat
    OBVIOUS
  <2> QED BY ONLY <2>1, IsSequence(s, n + 1), XorAllIn
<1>4. IsFiniteSet(S) /\ n + 1 \notin S
  <2>1. IsFiniteSet(1..n) /\ S \subseteq 1..n
    BY FS_Interval
  <2> QED BY <2>1, FS_Subset
<1>5. Odd(S \union {n + 1}) <=> ~Odd(S)
  <2> HIDE DEF S
  <2> QED BY <1>4, OddAdd
<1>6. CASE i \in s[n + 1]
  <2>1. U = S \union {n + 1}
    BY <1>6
  <2> HIDE DEF U, S
  <2> QED BY <1>2, <1>3, <1>5, <1>6, <2>1
<1>7. CASE i \notin s[n + 1]
  <2>1. U = S
    BY <1>7
  <2> HIDE DEF U, S
  <2> QED BY <1>2, <1>3, <1>7, <2>1
<1> QED BY <1>6, <1>7

(* The exclusive or of two words, up to five. *)
LEMMA XorAllFive ==
  ASSUME NEW n \in 2..5, NEW s, IsSequence(s, n), NEW i
  PROVE  /\ n = 2 => (i \in XorAll(s) <=> ~(i \in s[1] <=> i \in s[2]))
         /\ n = 3 => (i \in XorAll(s) <=> ((i \in s[1] <=> i \in s[2]) <=> i \in s[3]))
         /\ n = 4 => (i \in XorAll(s) <=> ~(((i \in s[1] <=> i \in s[2]) <=> i \in s[3]) <=> i \in s[4]))
         /\ n = 5 => (i \in XorAll(s) <=> ((((i \in s[1] <=> i \in s[2]) <=> i \in s[3]) <=> i \in s[4]) <=> i \in s[5]))
<1> DEFINE f(m) == [k \in 1..m |-> s[k]]
           X(m) == i \in XorAll(f(m))
<1>1. ASSUME NEW m \in 0..4 PROVE X(m + 1) <=> ~(X(m) <=> i \in s[m + 1])
  <2>1. /\ m \in Nat /\ IsSequence(f(m + 1), m + 1) /\ IsSequence(f(m), m) 
        /\ (\A k \in 1..m : f(m)[k] = f(m + 1)[k]) /\ f(m + 1)[m + 1] = s[m + 1]
    BY DEF IsSequence
  <2> HIDE DEF f
  <2>2. X(m + 1) <=> ~(X(m) <=> i \in f(m + 1)[m + 1])
    BY ONLY <2>1, XorAllNext
  <2> QED BY <2>1, <2>2
<1>2. ~X(0)
  <2>1. 0 \in Nat /\ IsSequence(f(0), 0) /\ {k \in 1..0 : i \in f(0)[k]} = {} 
    BY DEF IsSequence
  <2>2. ~Odd({})
    BY FS_EmptySet DEF Odd
  <2> HIDE DEF f
  <2> QED BY <2>1, <2>2, XorAllIn
<1>3. XorAll(s) = XorAll(f(n))
  BY DEF IsSequence
<1> HIDE DEF f
<1>4. i \in XorAll(s) <=> X(n)
  BY <1>3
<1> HIDE DEF X
<1>5. (X(1) <=> i \in s[1]) /\ (X(2) <=> ~(X(1) <=> i \in s[2])) 
  BY <1>1, <1>2
<1>6. (X(3) <=> ~(X(2) <=> i \in s[3])) /\ (X(4) <=> ~(X(3) <=> i \in s[4])) /\ (X(5) <=> ~(X(4) <=> i \in s[5]))
  BY <1>1
<1> QED BY <1>4, <1>5, <1>6

-----------------------------------------------------------------------------
(* Skein: the rounds of Threefish in place, and its subkeys.               *)

(* The pairs of a round, one after the other. *)
RoundFoldSteps(n, p, rot, V, a) ==
  /\ a \in [0..(n \div 2) -> V]
  /\ \A x \in V, k \in 1..(n \div 2) : MixPair(x, p[2 * k - 1], p[2 * k], rot[k]) \in V
  /\ \A k \in 1..(n \div 2) : a[k] = MixPair(a[k - 1], p[2 * k - 1], p[2 * k], rot[k])

(* The fold ends where they end. *)
LEMMA RoundFold ==
  ASSUME NEW n \in {8, 16},
         NEW p,
         NEW rot,
         NEW V, NEW a, RoundFoldSteps(n, p, rot, V, a)
  PROVE  Round(n, a[0], p, rot) = a[(n \div 2)]
<1> DEFINE m == (n \div 2)
           s == [k \in 1..n \div 2 |-> k]
           Op(x, e) == MixPair(x, p[2 * e - 1], p[2 * e], rot[e])
           g == [q \in (1..m) \X V |-> Op(q[2], s[q[1]])]
           Solves(f) == f = [u \in SUBSET (1..m) |-> IF u = {} THEN a[0] ELSE Op(f[u \ {Max(u)}], s[Max(u)])]
           it == CHOOSE f : Solves(f)
<1>1. m \in Nat /\ DOMAIN s = 1..m /\ \A k \in 1..m : s[k] = k
  BY n \in {8, 16}
<1>2. /\ a \in [0..m -> V]
      /\ \A x \in V, k \in 1..m : Op(x, k) \in V
      /\ \A k \in 1..m : a[k] = Op(a[k - 1], k)
  <2> HIDE DEF s
  <2> QED BY <1>1 DEF RoundFoldSteps
<1> HIDE DEF m, s, Op
<1>3. g \in [(1..m) \X V -> V]
  BY <1>1, <1>2
<1>4. PICK f \in [SUBSET (1..m) -> V] : Folds(f, m, a[0], g)
  <2>1. a[0] \in V
    BY <1>1, <1>2
  <2> HIDE DEF g
  <2> QED BY ONLY <1>1, <1>3, <2>1, FoldExists
<1>5. Solves(f)
  <2>1. ASSUME NEW u \in SUBSET (1..m), u # {}
        PROVE  g[<<Max(u), f[u \ {Max(u)}]>>] = Op(f[u \ {Max(u)}], s[Max(u)])
    <3>1. Max(u) \in 1..m
      <4>1. Max(u) \in u
        BY <1>1, <2>1, Largest
      <4> QED BY <4>1
    <3>2. f[u \ {Max(u)}] \in V
      OBVIOUS
    <3> QED BY <3>1, <3>2
  <2> HIDE DEF g
  <2> QED BY <1>4, <2>1 DEF Folds
<1>6. Solves(it)
  <2> HIDE DEF Solves
  <2> QED BY <1>5
<1>7. it[1..m] = a[m]
  <2> HIDE DEF it
  <2>1. it[{}] = a[0]
    BY <1>6
  <2>2. ASSUME NEW k \in 1..m, it[1..(k - 1)] = a[k - 1]
        PROVE  it[1..k] = a[k]
    <3>1. 1..k \in SUBSET (1..m) /\ k \in Nat \ {0}
      BY <1>1
    <3>2. Max(1..k) = k /\ (1..k) \ {Max(1..k)} = 1..(k - 1) /\ 1..k # {}
      BY <3>1, LargestOfRange
    <3>3. it[1..k] = Op(it[1..(k - 1)], s[k])
      BY <1>6, <3>1, <3>2
    <3> QED BY <1>1, <1>2, <2>2, <3>3
  <2> HIDE DEF Solves
  <2>3. m \in Nat
    BY <1>1
  <2>4. Climbs(it, m, a)
    <3> HIDE DEF Solves
    <3> QED BY <2>1, <2>2 DEF Climbs
  <2> HIDE DEF g, Solves
  <2> QED BY <2>3, <2>4, Climbed
<1> HIDE DEF it
<1>8. Round(n, a[0], p, rot) = it[DOMAIN s]
  BY Zenon DEF it, s, m, Op, FoldLeft, MapThenFoldSet, Round
<1> QED BY <1>1, <1>7, <1>8 DEF m

(* Four rounds of the code. *)
FourFoldSteps(n, t, V, a) ==
  /\ a \in [0..4 -> V]
  /\ \A x \in V, k \in 1..4 : Round(n, x, Order(n)[k], Rotations(n)[k + 4 * (t % 2)]) \in V
  /\ \A k \in 1..4 : a[k] = Round(n, a[k - 1], Order(n)[k], Rotations(n)[k + 4 * (t % 2)])

(* The fold ends where they end. *)
LEMMA FourFold ==
  ASSUME NEW n \in {8, 16},
         NEW t,
         NEW V, NEW a, FourFoldSteps(n, t, V, a)
  PROVE  FourRounds(n, a[0], t) = a[4]
<1> DEFINE m == 4
           s == [j \in 1..4 |-> j]
           Op(x, e) == Round(n, x, Order(n)[e], Rotations(n)[e + 4 * (t % 2)])
           g == [q \in (1..m) \X V |-> Op(q[2], s[q[1]])]
           Solves(f) == f = [u \in SUBSET (1..m) |-> IF u = {} THEN a[0] ELSE Op(f[u \ {Max(u)}], s[Max(u)])]
           it == CHOOSE f : Solves(f)
<1>1. m \in Nat /\ DOMAIN s = 1..m /\ \A k \in 1..m : s[k] = k
  OBVIOUS
<1>2. /\ a \in [0..m -> V]
      /\ \A x \in V, k \in 1..m : Op(x, k) \in V
      /\ \A k \in 1..m : a[k] = Op(a[k - 1], k)
  <2> HIDE DEF s
  <2> QED BY <1>1 DEF FourFoldSteps
<1> HIDE DEF m, s, Op
<1>3. g \in [(1..m) \X V -> V]
  BY <1>1, <1>2
<1>4. PICK f \in [SUBSET (1..m) -> V] : Folds(f, m, a[0], g)
  <2>1. a[0] \in V
    BY <1>1, <1>2
  <2> HIDE DEF g
  <2> QED BY ONLY <1>1, <1>3, <2>1, FoldExists
<1>5. Solves(f)
  <2>1. ASSUME NEW u \in SUBSET (1..m), u # {}
        PROVE  g[<<Max(u), f[u \ {Max(u)}]>>] = Op(f[u \ {Max(u)}], s[Max(u)])
    <3>1. Max(u) \in 1..m
      <4>1. Max(u) \in u
        BY <1>1, <2>1, Largest
      <4> QED BY <4>1
    <3>2. f[u \ {Max(u)}] \in V
      OBVIOUS
    <3> QED BY <3>1, <3>2
  <2> HIDE DEF g
  <2> QED BY <1>4, <2>1 DEF Folds
<1>6. Solves(it)
  <2> HIDE DEF Solves
  <2> QED BY <1>5
<1>7. it[1..m] = a[m]
  <2> HIDE DEF it
  <2>1. it[{}] = a[0]
    BY <1>6
  <2>2. ASSUME NEW k \in 1..m, it[1..(k - 1)] = a[k - 1]
        PROVE  it[1..k] = a[k]
    <3>1. 1..k \in SUBSET (1..m) /\ k \in Nat \ {0}
      BY <1>1
    <3>2. Max(1..k) = k /\ (1..k) \ {Max(1..k)} = 1..(k - 1) /\ 1..k # {}
      BY <3>1, LargestOfRange
    <3>3. it[1..k] = Op(it[1..(k - 1)], s[k])
      BY <1>6, <3>1, <3>2
    <3> QED BY <1>1, <1>2, <2>2, <3>3
  <2> HIDE DEF Solves
  <2>3. m \in Nat
    BY <1>1
  <2>4. Climbs(it, m, a)
    <3> HIDE DEF Solves
    <3> QED BY <2>1, <2>2 DEF Climbs
  <2> HIDE DEF g, Solves
  <2> QED BY <2>3, <2>4, Climbed
<1> HIDE DEF it
<1>8. FourRounds(n, a[0], t) = it[DOMAIN s]
  BY Zenon DEF it, s, m, Op, FoldLeft, MapThenFoldSet, FourRounds
<1> QED BY <1>1, <1>7, <1>8 DEF m

(* Four rounds of Threefish. *)
ThreefishFoldSteps(n, t, V, a) ==
  /\ a \in [0..4 -> V]
  /\ \A x \in V, k \in 1..4 : ThreefishRound(n, x, Rotations(n)[k + 4 * (t % 2)]) \in V
  /\ \A k \in 1..4 : a[k] = ThreefishRound(n, a[k - 1], Rotations(n)[k + 4 * (t % 2)])

(* The fold ends where they end. *)
LEMMA ThreefishFold ==
  ASSUME NEW n \in {8, 16},
         NEW t,
         NEW V, NEW a, ThreefishFoldSteps(n, t, V, a)
  PROVE  FourThreefishRounds(n, a[0], t) = a[4]
<1> DEFINE m == 4
           s == [j \in 1..4 |-> j]
           Op(x, e) == ThreefishRound(n, x, Rotations(n)[e + 4 * (t % 2)])
           g == [q \in (1..m) \X V |-> Op(q[2], s[q[1]])]
           Solves(f) == f = [u \in SUBSET (1..m) |-> IF u = {} THEN a[0] ELSE Op(f[u \ {Max(u)}], s[Max(u)])]
           it == CHOOSE f : Solves(f)
<1>1. m \in Nat /\ DOMAIN s = 1..m /\ \A k \in 1..m : s[k] = k
  OBVIOUS
<1>2. /\ a \in [0..m -> V]
      /\ \A x \in V, k \in 1..m : Op(x, k) \in V
      /\ \A k \in 1..m : a[k] = Op(a[k - 1], k)
  <2> HIDE DEF s
  <2> QED BY <1>1 DEF ThreefishFoldSteps
<1> HIDE DEF m, s, Op
<1>3. g \in [(1..m) \X V -> V]
  BY <1>1, <1>2
<1>4. PICK f \in [SUBSET (1..m) -> V] : Folds(f, m, a[0], g)
  <2>1. a[0] \in V
    BY <1>1, <1>2
  <2> HIDE DEF g
  <2> QED BY ONLY <1>1, <1>3, <2>1, FoldExists
<1>5. Solves(f)
  <2>1. ASSUME NEW u \in SUBSET (1..m), u # {}
        PROVE  g[<<Max(u), f[u \ {Max(u)}]>>] = Op(f[u \ {Max(u)}], s[Max(u)])
    <3>1. Max(u) \in 1..m
      <4>1. Max(u) \in u
        BY <1>1, <2>1, Largest
      <4> QED BY <4>1
    <3>2. f[u \ {Max(u)}] \in V
      OBVIOUS
    <3> QED BY <3>1, <3>2
  <2> HIDE DEF g
  <2> QED BY <1>4, <2>1 DEF Folds
<1>6. Solves(it)
  <2> HIDE DEF Solves
  <2> QED BY <1>5
<1>7. it[1..m] = a[m]
  <2> HIDE DEF it
  <2>1. it[{}] = a[0]
    BY <1>6
  <2>2. ASSUME NEW k \in 1..m, it[1..(k - 1)] = a[k - 1]
        PROVE  it[1..k] = a[k]
    <3>1. 1..k \in SUBSET (1..m) /\ k \in Nat \ {0}
      BY <1>1
    <3>2. Max(1..k) = k /\ (1..k) \ {Max(1..k)} = 1..(k - 1) /\ 1..k # {}
      BY <3>1, LargestOfRange
    <3>3. it[1..k] = Op(it[1..(k - 1)], s[k])
      BY <1>6, <3>1, <3>2
    <3> QED BY <1>1, <1>2, <2>2, <3>3
  <2> HIDE DEF Solves
  <2>3. m \in Nat
    BY <1>1
  <2>4. Climbs(it, m, a)
    <3> HIDE DEF Solves
    <3> QED BY <2>1, <2>2 DEF Climbs
  <2> HIDE DEF g, Solves
  <2> QED BY <2>3, <2>4, Climbed
<1> HIDE DEF it
<1>8. FourThreefishRounds(n, a[0], t) = it[DOMAIN s]
  BY Zenon DEF it, s, m, Op, FoldLeft, MapThenFoldSet, FourThreefishRounds
<1> QED BY <1>1, <1>7, <1>8 DEF m

(* The states of n words. *)
WordState(n) == [Word(n) -> SUBSET Nat]

(* Words stay words. *)
LEMMA WordTypes ==
  ASSUME NEW a \in SUBSET Nat, NEW b \in SUBSET Nat
  PROVE  /\ Add(a, b) \in SUBSET Nat
         /\ XorBits(a, b) \in SUBSET Nat
         /\ \A r \in Nat : RotateLeft(64, a, r) \in SUBSET Nat
<1>1. Add(a, b) \subseteq 0..64 - 1
  BY DEF Add, Plus
<1>2. \A r \in Nat : RotateLeft(64, a, r) \in SUBSET Nat
  BY DEF RotateLeft
<1>3. XorBits(a, b) \subseteq a \union b
  BY DEF XorBits
<1>4. Add(a, b) \in SUBSET Nat
  <2>1. 0..64 - 1 \subseteq Nat
    OBVIOUS
  <2> QED BY <1>1, <2>1, Zenon
<1>5. XorBits(a, b) \in SUBSET Nat
  BY <1>3, Zenon
<1> QED BY <1>2, <1>4, <1>5

(* The tables of the orders: every order names every word once, and the    *)
(* next one is the permutation of Threefish, applied to it.                *)
LEMMA OrderFacts ==
  ASSUME NEW n \in {8, 16}
  PROVE  /\ \A j \in 1..4 : /\ \A q \in 1..n : Order(n)[j][q] \in Word(n)
                            /\ \A q, r \in 1..n : Order(n)[j][q] = Order(n)[j][r] => q = r
         /\ \A i \in Word(n) : /\ Permutation(n)[i + 1] \in Word(n)
                               /\ Order(n)[1][i + 1] = i
                               /\ Order(n)[2][i + 1] = Order(n)[1][Permutation(n)[i + 1] + 1]
                               /\ Order(n)[3][i + 1] = Order(n)[2][Permutation(n)[i + 1] + 1]
                               /\ Order(n)[4][i + 1] = Order(n)[3][Permutation(n)[i + 1] + 1]
                               /\ i = Order(n)[4][Permutation(n)[i + 1] + 1]
         /\ \A d \in 1..8, k \in 1..n \div 2 : Rotations(n)[d][k] \in Nat
<1>1. CASE n = 8
  <2>1. ASSUME NEW j \in 1..4
        PROVE  /\ \A q \in 1..n : Order(n)[j][q] \in Word(n)
               /\ \A q, r \in 1..n : Order(n)[j][q] = Order(n)[j][r] => q = r
    <3>1. CASE j = 1
      BY <1>1, <3>1, SMTT(60) DEF Order, Word
    <3>2. CASE j = 2
      BY <1>1, <3>2, SMTT(60) DEF Order, Word
    <3>3. CASE j = 3
      BY <1>1, <3>3, SMTT(60) DEF Order, Word
    <3>4. CASE j = 4
      BY <1>1, <3>4, SMTT(60) DEF Order, Word
    <3> QED BY <3>1, <3>2, <3>3, <3>4
  <2>2. ASSUME NEW i \in Word(n)
        PROVE  /\ Permutation(n)[i + 1] \in Word(n)
                               /\ Order(n)[1][i + 1] = i
                               /\ Order(n)[2][i + 1] = Order(n)[1][Permutation(n)[i + 1] + 1]
                               /\ Order(n)[3][i + 1] = Order(n)[2][Permutation(n)[i + 1] + 1]
                               /\ Order(n)[4][i + 1] = Order(n)[3][Permutation(n)[i + 1] + 1]
                               /\ i = Order(n)[4][Permutation(n)[i + 1] + 1]
    BY <1>1, SMTT(60) DEF Order, Word, Permutation
  <2>3. \A d \in 1..8, k \in 1..n \div 2 : Rotations(n)[d][k] \in Nat
    BY <1>1, SMTT(60) DEF Rotations, R_512
  <2> QED BY <2>1, <2>2, <2>3
<1>2. CASE n = 16
  <2>1. ASSUME NEW j \in 1..4
        PROVE  /\ \A q \in 1..n : Order(n)[j][q] \in Word(n)
               /\ \A q, r \in 1..n : Order(n)[j][q] = Order(n)[j][r] => q = r
    <3>1. CASE j = 1
      BY <1>2, <3>1, SMTT(60) DEF Order, Word
    <3>2. CASE j = 2
      BY <1>2, <3>2, SMTT(60) DEF Order, Word
    <3>3. CASE j = 3
      BY <1>2, <3>3, SMTT(60) DEF Order, Word
    <3>4. CASE j = 4
      BY <1>2, <3>4, SMTT(60) DEF Order, Word
    <3> QED BY <3>1, <3>2, <3>3, <3>4
  <2>2. ASSUME NEW i \in Word(n)
        PROVE  /\ Permutation(n)[i + 1] \in Word(n)
                               /\ Order(n)[1][i + 1] = i
                               /\ Order(n)[2][i + 1] = Order(n)[1][Permutation(n)[i + 1] + 1]
                               /\ Order(n)[3][i + 1] = Order(n)[2][Permutation(n)[i + 1] + 1]
                               /\ Order(n)[4][i + 1] = Order(n)[3][Permutation(n)[i + 1] + 1]
                               /\ i = Order(n)[4][Permutation(n)[i + 1] + 1]
    BY <1>2, SMTT(60) DEF Order, Word, Permutation
  <2>3. \A d \in 1..8, k \in 1..n \div 2 : Rotations(n)[d][k] \in Nat
    BY <1>2, SMTT(60) DEF Rotations, R1024
  <2> QED BY <2>1, <2>2, <2>3
<1> QED BY <1>1, <1>2

(* Word i of the mixed words, where the words of X are taken in the order  *)
(* p.                                                                      *)
MixedWord(X, p, rot, i) ==
  LET sum == Add(X[p[i - (i % 2) + 1]], X[p[i - (i % 2) + 1 + 1]])
  IN  IF i % 2 = 0 THEN sum ELSE XorBits(RotateLeft(64, X[p[i + 1]], rot[(i \div 2) + 1]), sum)

IsOrder(p, n) ==
  /\ \A q \in 1..n : p[q] \in Word(n)
  /\ \A q, r \in 1..n : p[q] = p[r] => q = r

(* A mixed word is a word. *)
LEMMA MixedWordType ==
  ASSUME NEW n \in {8, 16}, NEW X \in WordState(n), NEW p, IsOrder(p, n),
         NEW rot, \A k \in 1..n \div 2 : rot[k] \in Nat, NEW i \in Word(n)
  PROVE  MixedWord(X, p, rot, i) \in SUBSET Nat
<1>1. \A q \in 1..n : X[p[q]] \in SUBSET Nat
  BY DEF IsOrder, WordState
<1>2. /\ i - (i % 2) + 1 \in 1..n /\ i - (i % 2) + 1 + 1 \in 1..n /\ i + 1 \in 1..n /\ (i \div 2) + 1 \in 1..n \div 2
  BY DEF Word
<1>3. rot[(i \div 2) + 1] \in Nat
  BY <1>2
<1>4. Add(X[p[i - (i % 2) + 1]], X[p[i - (i % 2) + 1 + 1]]) \in SUBSET Nat
  BY <1>1, <1>2, WordTypes
<1>5. RotateLeft(64, X[p[i + 1]], rot[(i \div 2) + 1]) \in SUBSET Nat
  BY <1>1, <1>2, <1>3, WordTypes
<1> QED BY <1>4, <1>5, WordTypes DEF MixedWord

(* A pair that is mixed in place leaves the other words. *)
LEMMA MixPairIs ==
  ASSUME NEW n \in {8, 16}, NEW Y \in WordState(n), NEW a \in Word(n), NEW b \in Word(n), a # b, NEW r \in Nat
  PROVE  /\ MixPair(Y, a, b, r) \in WordState(n)
         /\ MixPair(Y, a, b, r)[a] = Add(Y[a], Y[b])
         /\ MixPair(Y, a, b, r)[b] = XorBits(RotateLeft(64, Y[b], r), Add(Y[a], Y[b]))
         /\ \A w \in Word(n) \ {a, b} : MixPair(Y, a, b, r)[w] = Y[w]
<1> DEFINE sum == Add(Y[a], Y[b])
           mixed == XorBits(RotateLeft(64, Y[b], r), sum)
<1>1. Y[a] \in SUBSET Nat /\ Y[b] \in SUBSET Nat
  BY DEF WordState
<1>2. sum \in SUBSET Nat /\ RotateLeft(64, Y[b], r) \in SUBSET Nat
  BY <1>1, WordTypes
<1>3. mixed \in SUBSET Nat
  <2> HIDE DEF sum
  <2> QED BY <1>2, WordTypes
<1>4. MixPair(Y, a, b, r) = [Y EXCEPT ![a] = sum, ![b] = mixed]
  BY DEF MixPair, WordState
<1> HIDE DEF sum, mixed
<1>5. /\ [Y EXCEPT ![a] = sum, ![b] = mixed] \in WordState(n)
      /\ [Y EXCEPT ![a] = sum, ![b] = mixed][a] = sum
      /\ [Y EXCEPT ![a] = sum, ![b] = mixed][b] = mixed
      /\ \A w \in Word(n) \ {a, b} : [Y EXCEPT ![a] = sum, ![b] = mixed][w] = Y[w]
  BY <1>2, <1>3 DEF WordState
<1> QED BY <1>4, <1>5 DEF sum, mixed

(* A round in place makes the mixed words, whatever the order. *)
LEMMA RoundIs ==
  ASSUME NEW n \in {8, 16}, NEW X \in WordState(n), NEW p, IsOrder(p, n),
         NEW rot, \A k \in 1..n \div 2 : rot[k] \in Nat
  PROVE  /\ Round(n, X, p, rot) \in WordState(n)
         /\ \A i \in Word(n) : Round(n, X, p, rot)[p[i + 1]] = MixedWord(X, p, rot, i)
<1> DEFINE h == n \div 2
           V == WordState(n)
           Done(k, w) == \E q \in 1..2 * k : p[q] = w
           Place(w) == CHOOSE q \in 1..n : p[q] = w
           a == [k \in 0..h |-> [w \in Word(n) |-> IF Done(k, w) THEN MixedWord(X, p, rot, Place(w) - 1) ELSE X[w]]]
<1>0. h \in {4, 8} /\ n = 2 * h
  OBVIOUS
<1>1. \A q \in 1..n : p[q] \in Word(n) /\ Place(p[q]) = q
  BY DEF IsOrder
<1>2. \A k \in 0..h, w \in Word(n) : Done(k, w) => Place(w) \in 1..n
  <2> TAKE k \in 0..h, w \in Word(n)
  <2>1. 1..2 * k \subseteq 1..n
    BY <1>0
  <2> HIDE DEF Place
  <2> QED BY <1>1, <2>1
<1>3. a \in [0..h -> V]
  <2>1. \A q \in 1..n : q - 1 \in Word(n)
    BY DEF Word
  <2>2. \A i \in Word(n) : MixedWord(X, p, rot, i) \in SUBSET Nat
    BY MixedWordType
  <2> HIDE DEF Place, Done, h
  <2> QED BY <1>2, <2>1, <2>2 DEF WordState
<1>4. ASSUME NEW x \in V, NEW k \in 1..h
      PROVE  MixPair(x, p[2 * k - 1], p[2 * k], rot[k]) \in V
  <2>1. 2 * k - 1 \in 1..n /\ 2 * k \in 1..n /\ 2 * k - 1 # 2 * k
    BY <1>0
  <2>2. p[2 * k - 1] \in Word(n) /\ p[2 * k] \in Word(n) /\ p[2 * k - 1] # p[2 * k] /\ rot[k] \in Nat
    BY <2>1 DEF IsOrder
  <2> QED BY <2>2, MixPairIs
<1>5. ASSUME NEW k \in 1..h
      PROVE  a[k] = MixPair(a[k - 1], p[2 * k - 1], p[2 * k], rot[k])
  <2> DEFINE A == p[2 * k - 1]
             B == p[2 * k]
             y == a[k - 1]
  <2>1. 2 * k - 1 \in 1..n /\ 2 * k \in 1..n /\ 2 * k - 1 # 2 * k /\ k - 1 \in 0..h
    BY <1>0
  <2>2. A \in Word(n) /\ B \in Word(n) /\ A # B /\ rot[k] \in Nat
    BY <2>1 DEF IsOrder
  <2>3. y \in WordState(n)
    <3> HIDE DEF a
    <3> QED BY <1>3, <2>1
  <2>4. ~Done(k - 1, A) /\ ~Done(k - 1, B) /\ Done(k, A) /\ Done(k, B)
    <3>1. 1..2 * (k - 1) \subseteq 1..n /\ 2 * k - 1 \notin 1..2 * (k - 1) /\ 2 * k \notin 1..2 * (k - 1)
      BY <1>0
    <3>2. 2 * k - 1 \in 1..2 * k /\ 2 * k \in 1..2 * k
      BY <1>0
    <3> QED BY <2>1, <3>1, <3>2 DEF IsOrder
  <2>5. \A w \in Word(n) \ {A, B} : Done(k, w) <=> Done(k - 1, w)
    <3>1. 1..2 * k = (1..2 * (k - 1)) \union {2 * k - 1, 2 * k}
      BY <1>0
    <3> QED BY <3>1
  <2>6. \A w \in Word(n) : /\ y[w] = IF Done(k - 1, w) THEN MixedWord(X, p, rot, Place(w) - 1) ELSE X[w]
                           /\ a[k][w] = IF Done(k, w) THEN MixedWord(X, p, rot, Place(w) - 1) ELSE X[w]
    <3> HIDE DEF Done, Place
    <3> QED BY <2>1
  <2>7. y[A] = X[A] /\ y[B] = X[B]
    <3> HIDE DEF Done, Place, y, A, B
    <3> QED BY <2>2, <2>4, <2>6
  <2>8. a[k][A] = MixedWord(X, p, rot, 2 * k - 2) /\ a[k][B] = MixedWord(X, p, rot, 2 * k - 1)
    <3>1. Place(A) = 2 * k - 1 /\ Place(B) = 2 * k /\ (2 * k - 1) - 1 = 2 * k - 2
      BY <1>1, <2>1
    <3> HIDE DEF Done, Place, y, A, B, a
    <3> QED BY <2>2, <2>4, <2>6, <3>1
  <2>9. MixedWord(X, p, rot, 2 * k - 2) = Add(X[A], X[B])
    <3>1. (2 * k - 2) % 2 = 0 /\ (2 * k - 2) - 0 + 1 = 2 * k - 1 /\ (2 * k - 2) - 0 + 1 + 1 = 2 * k
      BY <1>0
    <3> QED BY <3>1 DEF MixedWord
  <2>10. MixedWord(X, p, rot, 2 * k - 1) = XorBits(RotateLeft(64, X[B], rot[k]), Add(X[A], X[B]))
    <3>1. /\ (2 * k - 1) % 2 = 1 /\ (2 * k - 1) - 1 + 1 = 2 * k - 1 /\ (2 * k - 1) - 1 + 1 + 1 = 2 * k
          /\ (2 * k - 1) + 1 = 2 * k /\ ((2 * k - 1) \div 2) + 1 = k
      BY <1>0
    <3> QED BY <3>1 DEF MixedWord
  <2>11. \A w \in Word(n) : a[k][w] = MixPair(y, A, B, rot[k])[w]
    <3> HIDE DEF Done, Place, y, A, B, a
    <3> DEFINE r == rot[k]
    <3>0. r \in Nat
      BY <2>2
    <3> HIDE DEF r
    <3>a. MixPair(y, A, B, r)[A] = Add(y[A], y[B])
      BY ONLY n \in {8, 16}, <2>2, <2>3, <3>0, MixPairIs
    <3>b. MixPair(y, A, B, r)[B] = XorBits(RotateLeft(64, y[B], r), Add(y[A], y[B]))
      BY ONLY n \in {8, 16}, <2>2, <2>3, <3>0, MixPairIs
    <3>c. \A w \in Word(n) \ {A, B} : MixPair(y, A, B, r)[w] = y[w]
      BY ONLY n \in {8, 16}, <2>2, <2>3, <3>0, MixPairIs
    <3>1. /\ MixPair(y, A, B, rot[k])[A] = Add(y[A], y[B])
          /\ MixPair(y, A, B, rot[k])[B] = XorBits(RotateLeft(64, y[B], rot[k]), Add(y[A], y[B]))
          /\ \A w \in Word(n) \ {A, B} : MixPair(y, A, B, rot[k])[w] = y[w]
      BY <3>a, <3>b, <3>c DEF r
    <3>2. \A w \in Word(n) \ {A, B} : a[k][w] = y[w]
      BY <2>5, <2>6
    <3> QED BY <2>7, <2>8, <2>9, <2>10, <3>1, <3>2
  <2>12. a[k] \in WordState(n) /\ MixPair(y, A, B, rot[k]) \in WordState(n)
    <3> HIDE DEF a
    <3> QED BY <1>3, <1>4, <2>3
  <2> HIDE DEF a, y, A, B
  <2>13. a[k] = MixPair(y, A, B, rot[k])
    BY <2>11, <2>12 DEF WordState
  <2> QED BY <2>13 DEF y, A, B
<1>6. a[0] = X
  <2>1. \A w \in Word(n) : ~Done(0, w)
    OBVIOUS
  <2>2. 0 \in 0..h /\ X = [w \in Word(n) |-> X[w]]
    BY <1>0 DEF WordState
  <2> HIDE DEF Done, h
  <2> QED BY <2>1, <2>2
<1>7. Round(n, a[0], p, rot) = a[h]
  <2>1. a \in [0..(n \div 2) -> WordState(n)]
    BY <1>3
  <2>2. \A x \in WordState(n), k \in 1..(n \div 2) : MixPair(x, p[2 * k - 1], p[2 * k], rot[k]) \in WordState(n)
    BY <1>4
  <2>3. \A k \in 1..(n \div 2) : a[k] = MixPair(a[k - 1], p[2 * k - 1], p[2 * k], rot[k])
    <3> HIDE DEF a
    <3> QED BY <1>5
  <2> HIDE DEF a, V
  <2>4. Round(n, a[0], p, rot) = a[(n \div 2)]
    <3>1. RoundFoldSteps(n, p, rot, WordState(n), a)
      BY <2>1, <2>2, <2>3 DEF RoundFoldSteps
    <3> QED BY ONLY n \in {8, 16}, <3>1, RoundFold
  <2> QED BY <2>4
<1>8. \A i \in Word(n) : a[h][p[i + 1]] = MixedWord(X, p, rot, i)
  <2> TAKE i \in Word(n)
  <2>1. i + 1 \in 1..n /\ h \in 0..h /\ i + 1 \in 1..2 * h /\ (i + 1) - 1 = i
    BY <1>0 DEF Word
  <2>2. p[i + 1] \in Word(n) /\ Place(p[i + 1]) = i + 1 /\ Done(h, p[i + 1])
    BY <1>1, <2>1
  <2> HIDE DEF Place, Done, h
  <2> QED BY <2>1, <2>2
<1>9. a[h] \in WordState(n)
  <2>1. h \in 0..h
    BY <1>0
  <2> HIDE DEF a, h
  <2> QED BY <1>3, <2>1
<1> HIDE DEF a
<1> QED BY <1>6, <1>7, <1>8, <1>9

(* A round of Threefish makes words of words. *)
LEMMA ThreefishRoundType ==
  ASSUME NEW n \in {8, 16}, NEW v \in WordState(n), NEW rot, \A k \in 1..n \div 2 : rot[k] \in Nat
  PROVE  ThreefishRound(n, v, rot) \in WordState(n)
<1> DEFINE Mixed(i) == LET sum == Add(v[i - (i % 2)], v[i - (i % 2) + 1])
                       IN  IF i % 2 = 0 THEN sum ELSE XorBits(RotateLeft(64, v[i], rot[(i \div 2) + 1]), sum)
<1>1. ASSUME NEW i \in Word(n) PROVE Mixed(i) \in SUBSET Nat
  <2>1. i - (i % 2) \in Word(n) /\ i - (i % 2) + 1 \in Word(n) /\ (i \div 2) + 1 \in 1..n \div 2
    BY DEF Word
  <2>2. v[i] \in SUBSET Nat /\ v[i - (i % 2)] \in SUBSET Nat /\ v[i - (i % 2) + 1] \in SUBSET Nat
    BY <2>1 DEF WordState
  <2>3. Add(v[i - (i % 2)], v[i - (i % 2) + 1]) \in SUBSET Nat
    BY <2>2, WordTypes
  <2>4. RotateLeft(64, v[i], rot[(i \div 2) + 1]) \in SUBSET Nat
    BY <2>1, <2>2, WordTypes
  <2> QED BY <2>3, <2>4, WordTypes
<1>2. \A i \in Word(n) : Permutation(n)[i + 1] \in Word(n)
  BY OrderFacts
<1>3. ThreefishRound(n, v, rot) = [i \in Word(n) |-> Mixed(Permutation(n)[i + 1])]
  BY DEF ThreefishRound
<1> HIDE DEF Mixed
<1> QED BY <1>1, <1>2, <1>3 DEF WordState

(* A round of Threefish on permuted words is the round in place, taken in  *)
(* the next order.                                                         *)
LEMMA PermutedRound ==
  ASSUME NEW n \in {8, 16}, NEW X \in WordState(n), NEW v \in WordState(n), NEW p, IsOrder(p, n), NEW q,
         NEW rot, \A k \in 1..n \div 2 : rot[k] \in Nat,
         \A i \in Word(n) : v[i] = X[p[i + 1]],
         \A i \in Word(n) : Permutation(n)[i + 1] \in Word(n) /\ q[i + 1] = p[Permutation(n)[i + 1] + 1]
  PROVE  /\ ThreefishRound(n, v, rot) \in WordState(n)
         /\ Round(n, X, p, rot) \in WordState(n)
         /\ \A i \in Word(n) : ThreefishRound(n, v, rot)[i] = Round(n, X, p, rot)[q[i + 1]]
<1> DEFINE Mixed(i) == LET sum == Add(v[i - (i % 2)], v[i - (i % 2) + 1])
                       IN  IF i % 2 = 0 THEN sum ELSE XorBits(RotateLeft(64, v[i], rot[(i \div 2) + 1]), sum)
<1>1. \A i \in Word(n) : Mixed(i) = MixedWord(X, p, rot, i)
  <2> TAKE i \in Word(n)
  <2>1. i - (i % 2) \in Word(n) /\ i - (i % 2) + 1 \in Word(n)
    BY DEF Word
  <2>2. v[i] = X[p[i + 1]] /\ v[i - (i % 2)] = X[p[i - (i % 2) + 1]] /\ v[i - (i % 2) + 1] = X[p[i - (i % 2) + 1 + 1]]
    BY <2>1
  <2> QED BY <2>2 DEF MixedWord
<1>2. /\ Round(n, X, p, rot) \in WordState(n)
      /\ \A i \in Word(n) : Round(n, X, p, rot)[p[i + 1]] = MixedWord(X, p, rot, i)
  BY RoundIs
<1>3. ThreefishRound(n, v, rot) = [i \in Word(n) |-> Mixed(Permutation(n)[i + 1])]
  BY DEF ThreefishRound
<1>4. \A i \in Word(n) : MixedWord(X, p, rot, i) \in SUBSET Nat
  BY MixedWordType
<1> HIDE DEF Mixed
<1>5. ThreefishRound(n, v, rot) \in WordState(n)
  BY <1>1, <1>3, <1>4 DEF WordState
<1>6. \A i \in Word(n) : ThreefishRound(n, v, rot)[i] = Round(n, X, p, rot)[q[i + 1]]
  BY <1>1, <1>2, <1>3
<1> QED BY <1>2, <1>5, <1>6

(* After four rounds the words are back in place. *)
LEMMA FourRoundsAre ==
  ASSUME NEW n \in {8, 16}, NEW v \in WordState(n), NEW t \in Nat
  PROVE  /\ FourRounds(n, v, t) \in WordState(n)
         /\ FourRounds(n, v, t) = FourThreefishRounds(n, v, t)
<1> DEFINE rot(k) == Rotations(n)[k + 4 * (t % 2)]
           In(x, k) == Round(n, x, Order(n)[k], rot(k))
           Moving(y, k) == ThreefishRound(n, y, rot(k))
           x1 == In(v, 1)
           x2 == In(x1, 2)
           x3 == In(x2, 3)
           x4 == In(x3, 4)
           y1 == Moving(v, 1)
           y2 == Moving(y1, 2)
           y3 == Moving(y2, 3)
           y4 == Moving(y3, 4)
<1>1. \A k \in 1..4 : \A e \in 1..n \div 2 : rot(k)[e] \in Nat
  <2>1. \A k \in 1..4 : k + 4 * (t % 2) \in 1..8
    OBVIOUS
  <2> QED BY <2>1, OrderFacts
<1>2. \A k \in 1..4 : IsOrder(Order(n)[k], n)
  BY OrderFacts DEF IsOrder
<1>3. \A i \in Word(n) : /\ Permutation(n)[i + 1] \in Word(n)
                         /\ Order(n)[1][i + 1] = i
                         /\ Order(n)[2][i + 1] = Order(n)[1][Permutation(n)[i + 1] + 1]
                         /\ Order(n)[3][i + 1] = Order(n)[2][Permutation(n)[i + 1] + 1]
                         /\ Order(n)[4][i + 1] = Order(n)[3][Permutation(n)[i + 1] + 1]
                         /\ i = Order(n)[4][Permutation(n)[i + 1] + 1]
  BY OrderFacts
<1>4. ASSUME NEW k \in 1..4, NEW x \in WordState(n), NEW y \in WordState(n), NEW q,
             \A i \in Word(n) : y[i] = x[Order(n)[k][i + 1]],
             \A i \in Word(n) : q[i + 1] = Order(n)[k][Permutation(n)[i + 1] + 1]
      PROVE  /\ In(x, k) \in WordState(n)
             /\ Moving(y, k) \in WordState(n)
             /\ \A i \in Word(n) : Moving(y, k)[i] = In(x, k)[q[i + 1]]
  <2> DEFINE r == rot(k)
             p == Order(n)[k]
  <2>1. IsOrder(p, n) /\ \A e \in 1..n \div 2 : r[e] \in Nat
    BY <1>1, <1>2
  <2>2. \A i \in Word(n) : Permutation(n)[i + 1] \in Word(n) /\ q[i + 1] = p[Permutation(n)[i + 1] + 1]
    BY <1>3, <1>4
  <2>3. \A i \in Word(n) : y[i] = x[p[i + 1]]
    BY <1>4
  <2> HIDE DEF r, p
  <2>4. /\ ThreefishRound(n, y, r) \in WordState(n)
        /\ Round(n, x, p, r) \in WordState(n)
        /\ \A i \in Word(n) : ThreefishRound(n, y, r)[i] = Round(n, x, p, r)[q[i + 1]]
    BY <2>1, <2>2, <2>3, PermutedRound
  <2> QED BY <2>4 DEF r, p
<1> HIDE DEF In, Moving
<1>5. x1 \in WordState(n) /\ y1 \in WordState(n) /\ \A i \in Word(n) : y1[i] = x1[Order(n)[2][i + 1]]
  <2>1. \A i \in Word(n) : v[i] = v[Order(n)[1][i + 1]]
    BY <1>3
  <2>2. \A i \in Word(n) : Order(n)[2][i + 1] = Order(n)[1][Permutation(n)[i + 1] + 1]
    BY <1>3
  <2> QED BY <1>4, <2>1, <2>2
<1> HIDE DEF x1, y1
<1>6. x2 \in WordState(n) /\ y2 \in WordState(n) /\ \A i \in Word(n) : y2[i] = x2[Order(n)[3][i + 1]]
  <2>2. \A i \in Word(n) : Order(n)[3][i + 1] = Order(n)[2][Permutation(n)[i + 1] + 1]
    BY <1>3
  <2> QED BY <1>4, <1>5, <2>2
<1> HIDE DEF x2, y2
<1>7. x3 \in WordState(n) /\ y3 \in WordState(n) /\ \A i \in Word(n) : y3[i] = x3[Order(n)[4][i + 1]]
  <2>2. \A i \in Word(n) : Order(n)[4][i + 1] = Order(n)[3][Permutation(n)[i + 1] + 1]
    BY <1>3
  <2> QED BY <1>4, <1>6, <2>2
<1> HIDE DEF x3, y3
<1>8. x4 \in WordState(n) /\ y4 \in WordState(n) /\ \A i \in Word(n) : y4[i] = x4[i]
  <2> DEFINE id == [m \in 1..n |-> m - 1]
  <2>1. \A i \in Word(n) : id[i + 1] = i
    BY DEF Word
  <2>2. \A i \in Word(n) : id[i + 1] = Order(n)[4][Permutation(n)[i + 1] + 1]
    BY <1>3, <2>1
  <2> HIDE DEF id
  <2>3. x4 \in WordState(n) /\ y4 \in WordState(n) /\ \A i \in Word(n) : y4[i] = x4[id[i + 1]]
    BY <1>4, <1>7, <2>2
  <2> QED BY <2>1, <2>3
<1>9. y4 = x4
  <2> HIDE DEF x4, y4
  <2> QED BY <1>8 DEF WordState
<1> DEFINE a == [k \in 0..4 |-> IF k = 0 THEN v ELSE IF k = 1 THEN x1 ELSE IF k = 2 THEN x2 ELSE IF k = 3 THEN x3 ELSE x4]
           b == [k \in 0..4 |-> IF k = 0 THEN v ELSE IF k = 1 THEN y1 ELSE IF k = 2 THEN y2 ELSE IF k = 3 THEN y3 ELSE y4]
<1>10. /\ a[0] = v /\ a[1] = x1 /\ a[2] = x2 /\ a[3] = x3 /\ a[4] = x4
       /\ b[0] = v /\ b[1] = y1 /\ b[2] = y2 /\ b[3] = y3 /\ b[4] = y4
  OBVIOUS
<1>11. a \in [0..4 -> WordState(n)] /\ b \in [0..4 -> WordState(n)]
  <2> HIDE DEF x4, y4
  <2> QED BY <1>5, <1>6, <1>7, <1>8
<1> HIDE DEF a, b
<1>12. FourFoldSteps(n, t, WordState(n), a)
  <2>1. ASSUME NEW x \in WordState(n), NEW k \in 1..4
        PROVE  Round(n, x, Order(n)[k], Rotations(n)[k + 4 * (t % 2)]) \in WordState(n)
    <3> DEFINE r == rot(k)
               p == Order(n)[k]
    <3>1. IsOrder(p, n) /\ \A e \in 1..n \div 2 : r[e] \in Nat
      BY <1>1, <1>2
    <3> HIDE DEF r, p
    <3>2. Round(n, x, p, r) \in WordState(n)
      BY <3>1, RoundIs
    <3> QED BY <3>2 DEF r, p
  <2>2. ASSUME NEW k \in 1..4
        PROVE  a[k] = In(a[k - 1], k)
    <3>1. k = 1 \/ k = 2 \/ k = 3 \/ k = 4
      OBVIOUS
    <3> QED BY <1>10, <3>1 DEF x1, x2, x3, x4
  <2> QED BY <1>11, <2>1, <2>2 DEF FourFoldSteps, In
<1>13. ThreefishFoldSteps(n, t, WordState(n), b)
  <2>1. ASSUME NEW y \in WordState(n), NEW k \in 1..4
        PROVE  ThreefishRound(n, y, Rotations(n)[k + 4 * (t % 2)]) \in WordState(n)
    <3> DEFINE r == rot(k)
    <3>1. \A e \in 1..n \div 2 : r[e] \in Nat
      BY <1>1
    <3> HIDE DEF r
    <3>5. ThreefishRound(n, y, r) \in WordState(n)
      BY <3>1, ThreefishRoundType
    <3> QED BY <3>5 DEF r
  <2>2. ASSUME NEW k \in 1..4
        PROVE  b[k] = Moving(b[k - 1], k)
    <3>1. k = 1 \/ k = 2 \/ k = 3 \/ k = 4
      OBVIOUS
    <3> QED BY <1>10, <3>1 DEF y1, y2, y3, y4
  <2> QED BY <1>11, <2>1, <2>2 DEF ThreefishFoldSteps, Moving
<1>14. FourRounds(n, a[0], t) = a[4]
  BY ONLY n \in {8, 16}, <1>12, FourFold
<1>15. FourThreefishRounds(n, b[0], t) = b[4]
  BY ONLY n \in {8, 16}, <1>13, ThreefishFold
<1>16. FourThreefishRounds(n, v, t) = y4
  BY <1>10, <1>15
<1> QED BY <1>8, <1>9, <1>10, <1>14, <1>16

(* A number given in four groups of digits is a word. *)
LEMMA HexIsWord ==
  ASSUME NEW a, NEW b, NEW c, NEW d
  PROVE  Hex(<<a, b, c, d>>) \in SUBSET Nat
<1> DEFINE groups == <<a, b, c, d>>
           words == [k \in DOMAIN groups |-> Bits(groups[k])]
<1>1. IsSequence(words, 4)
  BY DEF IsSequence
<1>2. Len(words) = 4 /\ DOMAIN words = 1..4
  BY <1>1, LengthIs
<1>3. \A k \in 1..4 : words[k] \subseteq 0..30
  BY DEF Bits
<1> HIDE DEF words
<1>4. \A k \in 1..4 : \A i \in words[k] : i + 16 * (Len(words) - k) \in Nat
  BY <1>2, <1>3
<1>5. Concat(16, words) \in SUBSET Nat
  BY <1>2, <1>4 DEF Concat
<1> QED BY <1>5 DEF Hex, words

(* The bits of a number are a word, and so is an exclusive or of words. *)
LEMMA BitsAreWord ==
  ASSUME NEW s
  PROVE  Bits(s) \in SUBSET Nat
BY DEF Bits

(* The exclusive or of words is a word. *)
LEMMA XorAllIsWord ==
  ASSUME NEW n \in Nat, NEW s, IsSequence(s, n), \A k \in 1..n : s[k] \in SUBSET Nat
  PROVE  XorAll(s) \in SUBSET Nat
<1>1. s \o <<>> = s /\ DOMAIN s = 1..n
  BY Whole
<1>2. UNION Range(s) \in SUBSET Nat
  BY <1>1 DEF Range
<1>3. XorAll(s) \subseteq UNION Range(s)
  BY <1>1 DEF XorAll
<1> QED BY <1>2, <1>3

(* The word of parity, which the code adds last and the definition takes   *)
(* among the words of the key.                                             *)
LEMMA KeyScheduleIs ==
  ASSUME NEW n \in {8, 16}, NEW K \in WordState(n)
  PROVE  /\ ks(n, K) \in [0..n -> SUBSET Nat]
         /\ ks(n, K) = [i \in 0..n |-> IF i = n THEN XorAll([k \in 1..n + 1 |-> IF k <= n THEN K[k - 1] ELSE SKEIN_KS_PARITY])
                                       ELSE K[i]]
<1> DEFINE f == [k \in 1..n |-> K[k - 1]]
           s == [k \in 1..n + 1 |-> IF k <= n THEN K[k - 1] ELSE SKEIN_KS_PARITY]
<1>1. SKEIN_KS_PARITY \in SUBSET Nat
  BY HexIsWord DEF SKEIN_KS_PARITY
<1>2. IsSequence(f, n) /\ IsSequence(s, n + 1) /\ n \in Nat
  BY DEF IsSequence
<1>3. (\A k \in 1..n : f[k] = s[k]) /\ s[n + 1] = SKEIN_KS_PARITY
  BY SMT
<1>4. \A k \in 1..n : f[k] \in SUBSET Nat
  BY DEF WordState, Word
<1> HIDE DEF f, s
<1>5. XorAll(f) \in SUBSET Nat
  BY <1>2, <1>4, XorAllIsWord
<1>6. XorBits(XorAll(f), SKEIN_KS_PARITY) \in SUBSET Nat
  BY <1>1, <1>5, WordTypes
<1>7. XorBits(XorAll(f), SKEIN_KS_PARITY) = XorAll(s)
  <2>1. ASSUME NEW i PROVE i \in XorAll(s) <=> ~(i \in XorAll(f) <=> i \in s[n + 1])
    BY ONLY <1>2, <1>3, XorAllNext
  <2>2. ASSUME NEW i PROVE i \in XorAll(s) <=> i \in XorBits(XorAll(f), SKEIN_KS_PARITY)
    BY <1>3, <2>1, XorBitsIn
  <2> QED BY <2>2
<1>8. ks(n, K) = [i \in 0..n |-> IF i < n THEN K[i] ELSE XorBits(XorAll(f), SKEIN_KS_PARITY)]
  BY DEF ks, f
<1>9. \A i \in 0..n : /\ i < n <=> i # n
                      /\ i < n => K[i] \in SUBSET Nat
  BY DEF WordState, Word
<1>10. ks(n, K) \in [0..n -> SUBSET Nat]
  BY <1>6, <1>8, <1>9
<1>11. ks(n, K) = [i \in 0..n |-> IF i = n THEN XorAll(s) ELSE K[i]]
  BY <1>7, <1>8, <1>9
<1> QED BY <1>10, <1>11 DEF s

(* The sum of a subkey and the words is the sum of the words of the key,   *)
(* the tweak and the number of the injection, whichever are added first.   *)
LEMMA InjectIs ==
  ASSUME NEW n \in {8, 16}, NEW X \in WordState(n), NEW K \in WordState(n),
         NEW V, V[1] \in SUBSET Nat, V[2] \in SUBSET Nat, NEW s \in Nat
  PROVE  /\ Inject(n, X, ks(n, K), ts(V), s) = AddSubkey(n, X, K, V, s)
         /\ AddSubkey(n, X, K, V, s) \in WordState(n)
<1> DEFINE key == ks(n, K)
           tweak == <<V[1], V[2], XorBits(V[1], V[2])>>
           Early(i) == CASE i = n - 3 -> tweak[(s % 3) + 1]
                         [] i = n - 2 -> tweak[((s + 1) % 3) + 1]
                         [] i = n - 1 -> Bits(s)
                         [] OTHER     -> {}
           Extra(i) == CASE i = n - 1 -> Bits(s)
                         [] i \in {n - 2, n - 3} -> tweak[1 + ((s + i - (n - 3)) % 3)]
                         [] OTHER -> {}
<1>1. \A k \in 1..3 : tweak[k] \in SUBSET Nat
  <2>1. XorBits(V[1], V[2]) \in SUBSET Nat
    BY WordTypes
  <2>2. tweak[1] = V[1] /\ tweak[2] = V[2] /\ tweak[3] = XorBits(V[1], V[2])
    OBVIOUS
  <2>3. \A k \in 1..3 : k = 1 \/ k = 2 \/ k = 3
    OBVIOUS
  <2> HIDE DEF tweak
  <2> QED BY <2>1, <2>2, <2>3
<1>2. ts(V) = tweak
  BY DEF ts
<1> HIDE DEF tweak
<1>3. ASSUME NEW i \in Word(n) PROVE Early(i) = Extra(i) /\ Extra(i) \in SUBSET Nat
  <2>0. i \in Int /\ s \in Int /\ n \in Int
    BY DEF Word
  <2>1. CASE i = n - 3
    <3>1. s + i - (n - 3) = s /\ (s % 3) + 1 = 1 + (s % 3) /\ 1 + (s % 3) \in 1..3
      BY <2>0, <2>1
    <3>2. Early(i) = tweak[(s % 3) + 1] /\ Extra(i) = tweak[1 + ((s + i - (n - 3)) % 3)]
      BY <2>0, <2>1
    <3> QED BY <1>1, <3>1, <3>2
  <2>2. CASE i = n - 2
    <3>1. s + i - (n - 3) = s + 1 /\ ((s + 1) % 3) + 1 = 1 + ((s + 1) % 3) /\ 1 + ((s + 1) % 3) \in 1..3
      BY <2>0, <2>2
    <3>2. Early(i) = tweak[((s + 1) % 3) + 1] /\ Extra(i) = tweak[1 + ((s + i - (n - 3)) % 3)]
      BY <2>0, <2>2
    <3> QED BY <1>1, <3>1, <3>2
  <2>3. CASE i = n - 1
    <3>1. Early(i) = Bits(s) /\ Extra(i) = Bits(s)
      BY <2>0, <2>3
    <3> QED BY <3>1, BitsAreWord
  <2>4. CASE i # n - 1 /\ i # n - 2 /\ i # n - 3
    <3>1. Early(i) = {} /\ Extra(i) = {}
      BY <2>4
    <3> QED BY <3>1
  <2> QED BY <2>1, <2>2, <2>3, <2>4
<1>4. key \in [0..n -> SUBSET Nat]
  BY KeyScheduleIs
<1>5. Inject(n, X, key, tweak, s) = [i \in Word(n) |-> Add(Add(X[i], key[(s + i) % (n + 1)]), Early(i))]
  BY DEF Inject
<1>6. AddSubkey(n, X, K, V, s) = [i \in Word(n) |-> Add(X[i], Add(key[(s + i) % (n + 1)], Extra(i)))]
  <2>1. ks(n, K) = [i \in 0..n |-> IF i = n THEN XorAll([k \in 1..n + 1 |-> IF k <= n THEN K[k - 1] ELSE SKEIN_KS_PARITY])
                                   ELSE K[i]]
    BY KeyScheduleIs
  <2>2. <<V[1], V[2], XorBits(V[1], V[2])>> = tweak
    BY DEF tweak
  <2> DEFINE kk == [i \in 0..n |-> IF i = n THEN XorAll([k \in 1..n + 1 |-> IF k <= n THEN K[k - 1] ELSE SKEIN_KS_PARITY])
                                   ELSE K[i]]
             sub == [i \in Word(n) |-> Add(kk[(s + i) % (n + 1)], Extra(i))]
  <2>3. Subkey(n, K, V, s) = sub
    BY <2>2 DEF Subkey
  <2>4. AddSubkey(n, X, K, V, s) = [i \in Word(n) |-> Add(X[i], sub[i])]
    <3> HIDE DEF sub
    <3> QED BY <2>3 DEF AddSubkey
  <2>5. kk = key
    BY <2>1
  <2> HIDE DEF kk, Extra, key
  <2> QED BY <2>4, <2>5
<1>7. ASSUME NEW i \in Word(n)
      PROVE  /\ Add(Add(X[i], key[(s + i) % (n + 1)]), Extra(i)) = Add(X[i], Add(key[(s + i) % (n + 1)], Extra(i)))
             /\ Add(X[i], Add(key[(s + i) % (n + 1)], Extra(i))) \in SUBSET Nat
  <2> DEFINE x == X[i]
             y == key[(s + i) % (n + 1)]
             z == Extra(i)
  <2>1. (s + i) % (n + 1) \in 0..n
    BY DEF Word
  <2>2. x \in SUBSET Nat /\ y \in SUBSET Nat /\ z \in SUBSET Nat
    <3> HIDE DEF key, Extra
    <3> QED BY <1>3, <1>4, <2>1 DEF WordState
  <2> HIDE DEF x, y, z
  <2>3. Plus(64, Plus(64, x, y), z) = Plus(64, x, Plus(64, y, z))
    BY <2>2, PlusAssociates
  <2>4. Add(y, z) \in SUBSET Nat
    BY <2>2, WordTypes
  <2>5. Add(x, Add(y, z)) \in SUBSET Nat
    BY <2>2, <2>4, WordTypes
  <2>6. Add(Add(x, y), z) = Add(x, Add(y, z))
    BY <2>3 DEF Add
  <2> QED BY <2>5, <2>6 DEF x, y, z
<1> HIDE DEF key, Early, Extra
<1>8. Inject(n, X, key, tweak, s) = AddSubkey(n, X, K, V, s)
  BY <1>3, <1>5, <1>6, <1>7
<1>9. AddSubkey(n, X, K, V, s) \in WordState(n)
  BY <1>6, <1>7 DEF WordState
<1> QED BY <1>2, <1>8, <1>9 DEF key

(* The step of the code is the step of the definition. *)
LEMMA SkeinStepIs ==
  ASSUME NEW n \in {8, 16}, NEW X \in WordState(n), NEW K \in WordState(n),
         NEW V, V[1] \in SUBSET Nat, V[2] \in SUBSET Nat, NEW s \in Nat
  PROVE  /\ ProcessRounds(n, X, ks(n, K), ts(V), s) = ThreefishRounds(n, X, K, V, s)
         /\ ThreefishRounds(n, X, K, V, s) \in WordState(n)
<1> DEFINE Y == FourRounds(n, X, s)
<1>1. Y \in WordState(n) /\ Y = FourThreefishRounds(n, X, s)
  BY FourRoundsAre
<1> HIDE DEF Y
<1>2. s + 1 \in Nat
  OBVIOUS
<1>3. /\ Inject(n, Y, ks(n, K), ts(V), s + 1) = AddSubkey(n, Y, K, V, s + 1)
      /\ AddSubkey(n, Y, K, V, s + 1) \in WordState(n)
  <2> DEFINE r == s + 1
  <2>1. r \in Nat
    OBVIOUS
  <2> HIDE DEF r
  <2>2. /\ Inject(n, Y, ks(n, K), ts(V), r) = AddSubkey(n, Y, K, V, r)
        /\ AddSubkey(n, Y, K, V, r) \in WordState(n)
    BY <1>1, <2>1, InjectIs, ZenonT(40)
  <2> QED BY <2>2 DEF r
<1> QED BY <1>1, <1>3 DEF ProcessRounds, ThreefishRounds, Y

(* The words of an input are words. *)
LEMMA DatumIsWord ==
  ASSUME NEW c, NEW w, NEW k
  PROVE  /\ Datum(c, w, k) \subseteq 0..(w - 1)
         /\ Datum(c, w, k) \in SUBSET Nat
BY DEF Datum

SkeinCalls == {c \in Calls : c.function \in {"skein512", "skein1024"}}

(* What a call of Skein is given are words. *)
LEMMA SkeinGiven ==
  ASSUME NEW c \in SkeinCalls
  PROVE  /\ SkeinWords(c) \in {8, 16}
         /\ SkeinKey(c) \in WordState(SkeinWords(c))
         /\ SkeinMessage(c) \in WordState(SkeinWords(c))
         /\ SkeinTweak(c)[1] \in SUBSET Nat /\ SkeinTweak(c)[2] \in SUBSET Nat
<1>1. SkeinWords(c) \in {8, 16}
  BY DEF SkeinWords
<1>2. IsConfig(c) => SkeinWords(c) = 8
  BY GivenAssumption DEF IsConfig, SkeinWords, SkeinCalls, Calls
<1>3. SkeinKey(c) \in WordState(SkeinWords(c))
  <2>1. CASE IsConfig(c)
    BY <1>2, <2>1 DEF SkeinKey, WordState
  <2>2. CASE ~IsConfig(c)
    BY <1>1, <2>2, DatumIsWord DEF SkeinKey, WordState, Data, Word
  <2> QED BY <2>1, <2>2
<1>4. SkeinMessage(c) \in WordState(SkeinWords(c))
  <2>1. CASE IsConfig(c)
    <3>1. SKEIN_SCHEMA_VER \in SUBSET Nat /\ Bits(256) \in SUBSET Nat
      BY HexIsWord, BitsAreWord DEF SKEIN_SCHEMA_VER
    <3> QED BY <1>2, <2>1, <3>1 DEF SkeinMessage, ConfigBlock, WordState
  <2>2. CASE ~IsConfig(c)
    BY <1>1, <2>2, DatumIsWord DEF SkeinMessage, WordState, Data, Word
  <2> QED BY <2>1, <2>2
<1>5. SkeinTweak(c)[1] \in SUBSET Nat /\ SkeinTweak(c)[2] \in SUBSET Nat
  <2>1. CASE IsConfig(c)
    BY <2>1, BitsAreWord DEF SkeinTweak, ConfigTweak, SKEIN_T1_FLAG_FIRST, SKEIN_T1_FLAG_FINAL, SKEIN_T1_BLK_TYPE_CFG
  <2>2. CASE ~IsConfig(c)
    BY <2>2, DatumIsWord DEF SkeinTweak, SKEIN_T1_BLK_TYPE_MSG
  <2> QED BY <2>1, <2>2
<1> QED BY <1>1, <1>3, <1>4, <1>5

(* Of a call of Skein code and definition have the same words. *)
SkeinInv ==
  call \in SkeinCalls => /\ round \in Nat
                         /\ code = ideal
                         /\ ideal \in WordState(SkeinWords(call))

(* Before the first round a call of Skein has the words of the definition: *)
(* the block with the first subkey added.                                  *)
LEMMA SkeinInitially ==
  CallInit => SkeinInv /\ call \in Calls
<1> SUFFICES ASSUME CallInit, call \in SkeinCalls PROVE SkeinInv
  BY DEF CallInit, SkeinInv
<1> DEFINE n == SkeinWords(call)
           K == SkeinKey(call)
           X == SkeinMessage(call)
           V == SkeinTweak(call)
<1>1. n \in {8, 16} /\ K \in WordState(n) /\ X \in WordState(n)
  BY SkeinGiven
<1>2. V[1] \in SUBSET Nat /\ V[2] \in SUBSET Nat
  BY SkeinGiven
<1>3. code = FirstInject(n, X, ks(n, K), ts(V))
  BY DEF CallInit, Begun, SkeinCalls
<1>4. ideal = AddSubkey(n, X, K, V, 0)
  BY DEF CallInit, BegunIdeal, SkeinCalls
<1>5. round = 0
  BY DEF CallInit, SkeinCalls
<1> HIDE DEF n, K, X, V
<1>6. /\ Inject(n, X, ks(n, K), ts(V), 0) = AddSubkey(n, X, K, V, 0)
      /\ AddSubkey(n, X, K, V, 0) \in WordState(n)
  <2> DEFINE s == 0
  <2>1. s \in Nat
    OBVIOUS
  <2> HIDE DEF s
  <2>2. /\ Inject(n, X, ks(n, K), ts(V), s) = AddSubkey(n, X, K, V, s)
        /\ AddSubkey(n, X, K, V, s) \in WordState(n)
    BY <1>1, <1>2, <2>1, InjectIs
  <2> QED BY <2>2 DEF s
<1>7. code = ideal /\ ideal \in WordState(n)
  BY <1>2, <1>3, <1>4, <1>6 DEF FirstInject
<1> QED BY <1>5, <1>7 DEF SkeinInv, n

(* Four rounds of Skein, or the feed-forward at the end, keep them the     *)
(* same.                                                                   *)
LEMMA SkeinNext ==
  ASSUME SkeinInv, [CallNext]_callVars
  PROVE  SkeinInv'
<1> SUFFICES ASSUME CallNext, call \in SkeinCalls PROVE SkeinInv'
  <2>1. CASE UNCHANGED callVars
    BY <2>1 DEF callVars, SkeinInv, SkeinCalls, Calls
  <2>2. CASE CallNext
    <3>1. call' = call
      BY <2>2 DEF CallNext
    <3>2. CASE call \notin SkeinCalls
      <4>1. call' \notin SkeinCalls'
        BY <3>1, <3>2 DEF SkeinCalls, Calls
      <4> QED BY <4>1 DEF SkeinInv
    <3> QED BY <2>2, <3>2
  <2> QED BY <2>1, <2>2
<1> DEFINE n == SkeinWords(call)
           K == SkeinKey(call)
           X == SkeinMessage(call)
           V == SkeinTweak(call)
<1>1. n \in {8, 16} /\ K \in WordState(n) /\ X \in WordState(n)
  BY SkeinGiven
<1>2. V[1] \in SUBSET Nat /\ V[2] \in SUBSET Nat
  BY SkeinGiven
<1>3. round \in Nat /\ code = ideal /\ ideal \in WordState(n)
  BY DEF SkeinInv
<1>4. call' = call /\ round' = round + 1 /\ SkeinWords(call') = n
  BY DEF CallNext, SkeinWords
<1>5. SkeinRounds \/ SkeinEnd
  BY DEF CallNext, SkeinCalls, AesRounds, BlakeRounds, BlakeEnd, GroestlRounds, GroestlEnd, JhRounds, JhEnd, KeccakRounds
<1>6. CASE SkeinRounds
  <2>1. /\ code' = ProcessRounds(n, code, ks(n, K), ts(V), round)
        /\ ideal' = ThreefishRounds(n, ideal, K, V, round)
    BY <1>6 DEF SkeinRounds
  <2> HIDE DEF n, K, X, V
  <2>2. /\ ProcessRounds(n, ideal, ks(n, K), ts(V), round) = ThreefishRounds(n, ideal, K, V, round)
        /\ ThreefishRounds(n, ideal, K, V, round) \in WordState(n)
    BY <1>1, <1>2, <1>3, SkeinStepIs
  <2>3. code' = ideal' /\ ideal' \in WordState(n)
    BY <1>2, <1>3, <2>1, <2>2
  <2> QED BY <1>3, <1>4, <2>3 DEF SkeinInv
<1>7. CASE SkeinEnd
  <2>1. /\ code' = FeedForward(n, code, X)
        /\ ideal' = [i \in Word(n) |-> XorBits(X[i], ideal[i])]
    BY <1>7 DEF SkeinEnd
  <2> HIDE DEF n, K, X, V
  <2>2. \A i \in Word(n) : /\ XorBits(X[i], ideal[i]) = XorBits(ideal[i], X[i])
                           /\ XorBits(X[i], ideal[i]) \in SUBSET Nat
    <3> TAKE i \in Word(n)
    <3>1. X[i] \in SUBSET Nat /\ ideal[i] \in SUBSET Nat
      BY <1>1, <1>3 DEF WordState
    <3>2. XorBits(X[i], ideal[i]) \in SUBSET Nat
      BY <3>1, WordTypes
    <3>3. XorBits(X[i], ideal[i]) = XorBits(ideal[i], X[i])
      BY DEF XorBits
    <3> QED BY <3>2, <3>3
  <2>3. code' = ideal' /\ ideal' \in WordState(n)
    BY <1>3, <2>1, <2>2 DEF FeedForward, WordState
  <2> QED BY <1>3, <1>4, <2>3 DEF SkeinInv
<1> QED BY <1>5, <1>6, <1>7

(* Skein-512 and Skein-1024 enciphers every block as Threefish does,       *)
(* whatever the chaining value, the tweak and the block                    *)
(* (c_skein.c:717-908, 925-1166).                                          *)
THEOREM SkeinHolds ==
  CallSpec => []SkeinAsDefined
<1>1. CallInit => SkeinInv /\ call \in Calls
  BY SkeinInitially
<1>2. SkeinInv /\ call \in Calls /\ [CallNext]_callVars => (SkeinInv /\ call \in Calls)'
  <2>1. call \in Calls /\ [CallNext]_callVars => (call \in Calls)'
    BY DEF CallNext, callVars, Calls
  <2> QED BY <2>1, SkeinNext
<1>3. SkeinInv /\ call \in Calls => SkeinAsDefined
  BY DEF SkeinInv, SkeinCalls, SkeinAsDefined, Of
<1> QED BY <1>1, <1>2, <1>3, PTL DEF CallSpec

-----------------------------------------------------------------------------
(* BLAKE: the G of a round, one after the other.                           *)

(* The eight G of a round, one after the other. *)
GFoldSteps(M, r, V, a) ==
  /\ a \in [0..8 -> V]
  /\ \A x \in V, k \in 1..8 : G(x, M, r, GWords[k][1], GWords[k][2], GWords[k][3], GWords[k][4], GWords[k][5]) \in V
  /\ \A k \in 1..8 : a[k] = G(a[k - 1], M, r, GWords[k][1], GWords[k][2], GWords[k][3], GWords[k][4], GWords[k][5])

(* The fold ends where they end. *)
LEMMA GFold ==
  ASSUME NEW M,
         NEW r,
         NEW V, NEW a, GFoldSteps(M, r, V, a)
  PROVE  BlakeRound(a[0], M, r) = a[8]
<1> DEFINE m == 8
           s == [k \in 1..8 |-> k]
           Op(x, e) == G(x, M, r, GWords[e][1], GWords[e][2], GWords[e][3], GWords[e][4], GWords[e][5])
           g == [q \in (1..m) \X V |-> Op(q[2], s[q[1]])]
           Solves(f) == f = [u \in SUBSET (1..m) |-> IF u = {} THEN a[0] ELSE Op(f[u \ {Max(u)}], s[Max(u)])]
           it == CHOOSE f : Solves(f)
<1>1. m \in Nat /\ DOMAIN s = 1..m /\ \A k \in 1..m : s[k] = k
  OBVIOUS
<1>2. /\ a \in [0..m -> V]
      /\ \A x \in V, k \in 1..m : Op(x, k) \in V
      /\ \A k \in 1..m : a[k] = Op(a[k - 1], k)
  <2> HIDE DEF s
  <2> QED BY <1>1 DEF GFoldSteps
<1> HIDE DEF m, s, Op
<1>3. g \in [(1..m) \X V -> V]
  BY <1>1, <1>2
<1>4. PICK f \in [SUBSET (1..m) -> V] : Folds(f, m, a[0], g)
  <2>1. a[0] \in V
    BY <1>1, <1>2
  <2> HIDE DEF g
  <2> QED BY ONLY <1>1, <1>3, <2>1, FoldExists
<1>5. Solves(f)
  <2>1. ASSUME NEW u \in SUBSET (1..m), u # {}
        PROVE  g[<<Max(u), f[u \ {Max(u)}]>>] = Op(f[u \ {Max(u)}], s[Max(u)])
    <3>1. Max(u) \in 1..m
      <4>1. Max(u) \in u
        BY <1>1, <2>1, Largest
      <4> QED BY <4>1
    <3>2. f[u \ {Max(u)}] \in V
      OBVIOUS
    <3> QED BY <3>1, <3>2
  <2> HIDE DEF g
  <2> QED BY <1>4, <2>1 DEF Folds
<1>6. Solves(it)
  <2> HIDE DEF Solves
  <2> QED BY <1>5
<1>7. it[1..m] = a[m]
  <2> HIDE DEF it
  <2>1. it[{}] = a[0]
    BY <1>6
  <2>2. ASSUME NEW k \in 1..m, it[1..(k - 1)] = a[k - 1]
        PROVE  it[1..k] = a[k]
    <3>1. 1..k \in SUBSET (1..m) /\ k \in Nat \ {0}
      BY <1>1
    <3>2. Max(1..k) = k /\ (1..k) \ {Max(1..k)} = 1..(k - 1) /\ 1..k # {}
      BY <3>1, LargestOfRange
    <3>3. it[1..k] = Op(it[1..(k - 1)], s[k])
      BY <1>6, <3>1, <3>2
    <3> QED BY <1>1, <1>2, <2>2, <3>3
  <2> HIDE DEF Solves
  <2>3. m \in Nat
    BY <1>1
  <2>4. Climbs(it, m, a)
    <3> HIDE DEF Solves
    <3> QED BY <2>1, <2>2 DEF Climbs
  <2> HIDE DEF g, Solves
  <2> QED BY <2>3, <2>4, Climbed
<1> HIDE DEF it
<1>8. BlakeRound(a[0], M, r) = it[DOMAIN s]
  BY Zenon DEF it, s, m, Op, FoldLeft, MapThenFoldSet, BlakeRound
<1> QED BY <1>1, <1>7, <1>8 DEF m

(* The sixteen words that go into the chaining value. *)
IntoFoldSteps(v, V, a) ==
  /\ a \in [0..16 -> V]
  /\ \A x \in V, k \in 1..16 : Into(x, v, k - 1) \in V
  /\ \A k \in 1..16 : a[k] = Into(a[k - 1], v, k - 1)

(* The fold ends where they end. *)
LEMMA IntoFold ==
  ASSUME NEW v,
         NEW V, NEW a, IntoFoldSteps(v, V, a)
  PROVE  AllInto(a[0], v) = a[16]
<1> DEFINE m == 16
           s == [k \in 1..16 |-> k]
           Op(x, e) == Into(x, v, e - 1)
           g == [q \in (1..m) \X V |-> Op(q[2], s[q[1]])]
           Solves(f) == f = [u \in SUBSET (1..m) |-> IF u = {} THEN a[0] ELSE Op(f[u \ {Max(u)}], s[Max(u)])]
           it == CHOOSE f : Solves(f)
<1>1. m \in Nat /\ DOMAIN s = 1..m /\ \A k \in 1..m : s[k] = k
  OBVIOUS
<1>2. /\ a \in [0..m -> V]
      /\ \A x \in V, k \in 1..m : Op(x, k) \in V
      /\ \A k \in 1..m : a[k] = Op(a[k - 1], k)
  <2> HIDE DEF s
  <2> QED BY <1>1 DEF IntoFoldSteps
<1> HIDE DEF m, s, Op
<1>3. g \in [(1..m) \X V -> V]
  BY <1>1, <1>2
<1>4. PICK f \in [SUBSET (1..m) -> V] : Folds(f, m, a[0], g)
  <2>1. a[0] \in V
    BY <1>1, <1>2
  <2> HIDE DEF g
  <2> QED BY ONLY <1>1, <1>3, <2>1, FoldExists
<1>5. Solves(f)
  <2>1. ASSUME NEW u \in SUBSET (1..m), u # {}
        PROVE  g[<<Max(u), f[u \ {Max(u)}]>>] = Op(f[u \ {Max(u)}], s[Max(u)])
    <3>1. Max(u) \in 1..m
      <4>1. Max(u) \in u
        BY <1>1, <2>1, Largest
      <4> QED BY <4>1
    <3>2. f[u \ {Max(u)}] \in V
      OBVIOUS
    <3> QED BY <3>1, <3>2
  <2> HIDE DEF g
  <2> QED BY <1>4, <2>1 DEF Folds
<1>6. Solves(it)
  <2> HIDE DEF Solves
  <2> QED BY <1>5
<1>7. it[1..m] = a[m]
  <2> HIDE DEF it
  <2>1. it[{}] = a[0]
    BY <1>6
  <2>2. ASSUME NEW k \in 1..m, it[1..(k - 1)] = a[k - 1]
        PROVE  it[1..k] = a[k]
    <3>1. 1..k \in SUBSET (1..m) /\ k \in Nat \ {0}
      BY <1>1
    <3>2. Max(1..k) = k /\ (1..k) \ {Max(1..k)} = 1..(k - 1) /\ 1..k # {}
      BY <3>1, LargestOfRange
    <3>3. it[1..k] = Op(it[1..(k - 1)], s[k])
      BY <1>6, <3>1, <3>2
    <3> QED BY <1>1, <1>2, <2>2, <3>3
  <2> HIDE DEF Solves
  <2>3. m \in Nat
    BY <1>1
  <2>4. Climbs(it, m, a)
    <3> HIDE DEF Solves
    <3> QED BY <2>1, <2>2 DEF Climbs
  <2> HIDE DEF g, Solves
  <2> QED BY <2>3, <2>4, Climbed
<1> HIDE DEF it
<1>8. AllInto(a[0], v) = it[DOMAIN s]
  BY Zenon DEF it, s, m, Op, FoldLeft, MapThenFoldSet, AllInto
<1> QED BY <1>1, <1>7, <1>8 DEF m

BlakeWords == [0..15 -> SUBSET Nat]

(* Words stay words. *)
LEMMA Word32Types ==
  ASSUME NEW a \in SUBSET Nat, NEW b \in SUBSET Nat
  PROVE  /\ Add32(a, b) \in SUBSET Nat
         /\ \A n \in Nat : ROT(a, n) \in SUBSET Nat
<1>1. Add32(a, b) \in SUBSET Nat
  <2>1. Add32(a, b) \subseteq 0..32 - 1
    BY DEF Add32, Plus
  <2>2. 0..32 - 1 \subseteq Nat
    OBVIOUS
  <2> QED BY <2>1, <2>2, Zenon
<1>2. \A n \in Nat : ROT(a, n) \in SUBSET Nat
  BY DEF ROT, RotateRight
<1> QED BY <1>1, <1>2

(* What is added to the sum of two words may be added to the second first. *)
LEMMA AddMoves ==
  ASSUME NEW a \in SUBSET Nat, NEW b \in SUBSET Nat, NEW w \in SUBSET Nat
  PROVE  Add32(a, Add32(w, b)) = Add32(Add32(a, b), w)
<1>1. Plus(32, w, b) = Plus(32, b, w)
  <2>1. XorBits(w, b) = XorBits(b, w) /\ w \intersect b = b \intersect w
    BY DEF XorBits
  <2> QED BY <2>1, Zenon DEF Plus
<1>2. Plus(32, Plus(32, a, b), w) = Plus(32, a, Plus(32, b, w))
  BY PlusAssociates
<1> QED BY <1>1, <1>2 DEF Add32

(* A rotation to the right by the bits that are not rotated to the left. *)
LEMMA TurnIs ==
  ASSUME NEW a \in SUBSET Nat, NEW n \in 0..32
  PROVE  {(i + 32 - n) % 32 : i \in a} = ROT(a, n)
<1>1. \A i \in Nat : (i + 32 - n) % 32 = (i - n) % 32
  OBVIOUS
<1> QED BY <1>1 DEF ROT, RotateRight

(* The tables: a permutation names words, and those of the last four       *)
(* rounds are the first again.                                             *)
LEMMA SigmaFacts ==
  /\ \A i \in 1..14, k \in 1..16 : sigma[i][k] \in 0..15
  /\ \A i \in 0..13, k \in 1..16 : sigma[(i % 10) + 1][k] = sigma[i + 1][k]
  /\ \A k \in 1..16 : cst[k] \in SUBSET Nat
<1>1. \A i \in 1..14, k \in 1..16 : sigma[i][k] \in 0..15
  BY SMTT(60) DEF sigma
<1>2. \A i \in 0..13, k \in 1..16 : sigma[(i % 10) + 1][k] = sigma[i + 1][k]
  <2> TAKE i \in 0..13, k \in 1..16
  <2>1. CASE i < 10
    <3>1. i % 10 = i
      BY <2>1
    <3> QED BY <3>1
  <2>2. CASE i >= 10
    <3>1. (i = 10 /\ i % 10 = 0) \/ (i = 11 /\ i % 10 = 1) \/ (i = 12 /\ i % 10 = 2) \/ (i = 13 /\ i % 10 = 3)
      BY <2>2
    <3>2. sigma[11] = sigma[1] /\ sigma[12] = sigma[2] /\ sigma[13] = sigma[3] /\ sigma[14] = sigma[4]
      BY DEF sigma
    <3> HIDE DEF sigma
    <3> QED BY <3>1, <3>2
  <2> QED BY <2>1, <2>2
<1>3. \A k \in 1..16 : cst[k] \in SUBSET Nat
  <2>1. ASSUME NEW a, NEW b PROVE Hex(<<a, b>>) \in SUBSET Nat
    <3> DEFINE groups == <<a, b>>
               words == [k \in DOMAIN groups |-> Bits(groups[k])]
    <3>1. IsSequence(words, 2)
      BY DEF IsSequence
    <3>2. Len(words) = 2 /\ DOMAIN words = 1..2
      BY <3>1, LengthIs
    <3>3. \A k \in 1..2 : words[k] \subseteq 0..30
      BY DEF Bits
    <3> HIDE DEF words
    <3>4. \A k \in 1..2 : \A i \in words[k] : i + 16 * (Len(words) - k) \in Nat
      BY <3>2, <3>3
    <3>5. Concat(16, words) \in SUBSET Nat
      BY <3>2, <3>4 DEF Concat
    <3> QED BY <3>5 DEF Hex, words
  <2>2. /\ cst[1] \in SUBSET Nat /\ cst[2] \in SUBSET Nat /\ cst[3] \in SUBSET Nat /\ cst[4] \in SUBSET Nat
        /\ cst[5] \in SUBSET Nat /\ cst[6] \in SUBSET Nat /\ cst[7] \in SUBSET Nat /\ cst[8] \in SUBSET Nat
        /\ cst[9] \in SUBSET Nat /\ cst[10] \in SUBSET Nat /\ cst[11] \in SUBSET Nat /\ cst[12] \in SUBSET Nat
        /\ cst[13] \in SUBSET Nat /\ cst[14] \in SUBSET Nat /\ cst[15] \in SUBSET Nat /\ cst[16] \in SUBSET Nat
    BY <2>1 DEF cst
  <2> QED BY <2>2
<1> QED BY <1>1, <1>2, <1>3

(* u is v with the words a, b, c and d mixed as g has them. *)
Mixes(u, v, g, a, b, c, d) ==
  /\ u \in BlakeWords
  /\ u[a] = g[1] /\ u[b] = g[2] /\ u[c] = g[3] /\ u[d] = g[4]
  /\ \A n \in 0..15 \ {a, b, c, d} : u[n] = v[n]

(* G on four words of v is the function that BLAKE applies to them. *)
LEMMA GIs ==
  ASSUME NEW v \in BlakeWords, NEW m \in BlakeWords, NEW i \in 0..13, NEW x \in 0..7, NEW e, e = 2 * x,
         NEW a \in 0..15, NEW b \in 0..15, NEW c \in 0..15, NEW d \in 0..15,
         a # b, a # c, a # d, b # c, b # d, c # d
  PROVE  Mixes(G(v, m, i, a, b, c, d, e), v, Mixing(m, sigma[(i % 10) + 1], x, v[a], v[b], v[c], v[d]), a, b, c, d)
<1> DEFINE p == sigma[(i % 10) + 1]
           j == p[2 * x + 1]
           k == p[2 * x + 2]
           w1 == XorBits(m[j], cst[k + 1])
           w2 == XorBits(m[k], cst[j + 1])
           A == v[a]
           B == v[b]
           C == v[c]
           D == v[d]
           a1 == Add32(Add32(A, B), w1)
           d1 == ROT(XorBits(D, a1), 16)
           c1 == Add32(C, d1)
           b1 == ROT(XorBits(B, c1), 12)
           a2 == Add32(Add32(a1, b1), w2)
           d2 == ROT(XorBits(d1, a2), 8)
           c2 == Add32(c1, d2)
           b2 == ROT(XorBits(b1, c2), 7)
<1>1. /\ j = sigma[i + 1][e + 1] /\ k = sigma[i + 1][e + 2] /\ j \in 0..15 /\ k \in 0..15
  <2> DEFINE y == 2 * x + 1
             z == 2 * x + 2
             h == i + 1
  <2>1. y = e + 1 /\ z = e + 2 /\ y \in 1..16 /\ z \in 1..16 /\ h \in 1..14
    OBVIOUS
  <2> HIDE DEF y, z, h
  <2>2. sigma[h][y] \in 0..15 /\ sigma[h][z] \in 0..15
    BY ONLY <2>1, SigmaFacts
  <2>3. p[y] = sigma[i + 1][y] /\ p[z] = sigma[i + 1][z]
    BY ONLY <2>1, i \in 0..13, SigmaFacts
  <2> QED BY <2>1, <2>2, <2>3 DEF y, z, h
<1> HIDE DEF j, k
<1>2. w1 \in SUBSET Nat /\ w2 \in SUBSET Nat
  <2>1. m[j] \in SUBSET Nat /\ m[k] \in SUBSET Nat /\ cst[j + 1] \in SUBSET Nat /\ cst[k + 1] \in SUBSET Nat
    <3>1. m[j] \in SUBSET Nat /\ m[k] \in SUBSET Nat
      BY ONLY <1>1, m \in BlakeWords DEF BlakeWords
    <3>2. j + 1 \in 1..16 /\ k + 1 \in 1..16
      BY ONLY <1>1
    <3>3. cst[j + 1] \in SUBSET Nat /\ cst[k + 1] \in SUBSET Nat
      BY ONLY <3>2, SigmaFacts
    <3> QED BY <3>1, <3>3
  <2> QED BY <2>1, WordTypes
<1>3. /\ XorBits(m[sigma[i + 1][e + 1]], cst[sigma[i + 1][(e + 1) + 1] + 1]) = w1
      /\ XorBits(m[sigma[i + 1][(e + 1) + 1]], cst[sigma[i + 1][e + 1] + 1]) = w2
  <2>1. (e + 1) + 1 = e + 2
    OBVIOUS
  <2> QED BY <1>1, <2>1
<1>4. A \in SUBSET Nat /\ B \in SUBSET Nat /\ C \in SUBSET Nat /\ D \in SUBSET Nat
  BY DEF BlakeWords
<1> HIDE DEF w1, w2, A, B, C, D
<1>5. a1 \in SUBSET Nat
  BY <1>2, <1>4, Word32Types
<1>6. Add32(A, Add32(w1, B)) = a1
  BY <1>2, <1>4, AddMoves
<1> HIDE DEF a1
<1>7. XorBits(D, a1) \in SUBSET Nat /\ d1 \in SUBSET Nat
  BY <1>4, <1>5, WordTypes, Word32Types
<1>8. {(y + 32 - 16) % 32 : y \in XorBits(D, a1)} = d1
  BY <1>7, TurnIs
<1> HIDE DEF d1
<1>9. c1 \in SUBSET Nat
  BY <1>4, <1>7, Word32Types
<1> HIDE DEF c1
<1>10. XorBits(B, c1) \in SUBSET Nat /\ b1 \in SUBSET Nat
  BY <1>4, <1>9, WordTypes, Word32Types
<1>11. {(y + 32 - 12) % 32 : y \in XorBits(B, c1)} = b1
  BY <1>10, TurnIs
<1> HIDE DEF b1
<1>12. a2 \in SUBSET Nat
  BY <1>2, <1>5, <1>10, Word32Types
<1>13. Add32(a1, Add32(w2, b1)) = a2
  BY <1>2, <1>5, <1>10, AddMoves
<1> HIDE DEF a2
<1>14. XorBits(d1, a2) \in SUBSET Nat /\ d2 \in SUBSET Nat
  BY <1>7, <1>12, WordTypes, Word32Types
<1>15. {(y + 32 - 8) % 32 : y \in XorBits(d1, a2)} = d2
  BY <1>14, TurnIs
<1> HIDE DEF d2
<1>16. c2 \in SUBSET Nat
  BY <1>9, <1>14, Word32Types
<1> HIDE DEF c2
<1>17. XorBits(b1, c2) \in SUBSET Nat /\ b2 \in SUBSET Nat
  BY <1>10, <1>16, WordTypes, Word32Types
<1>18. {(y + 32 - 7) % 32 : y \in XorBits(b1, c2)} = b2
  BY <1>17, TurnIs
<1> HIDE DEF b2
<1>19. G(v, m, i, a, b, c, d, e) = [v EXCEPT ![a] = a2, ![b] = b2, ![c] = c2, ![d] = d2]
  <2> DEFINE u1 == Add32(A, Add32(w1, B))
             v1 == ROT(XorBits(D, u1), 16)
             x1 == Add32(C, v1)
             y1 == ROT(XorBits(B, x1), 12)
             u2 == Add32(u1, Add32(w2, y1))
             v2 == ROT(XorBits(v1, u2), 8)
             x2 == Add32(x1, v2)
             y2 == ROT(XorBits(y1, x2), 7)
  <2>1. G(v, m, i, a, b, c, d, e) = [v EXCEPT ![a] = u2, ![b] = y2, ![c] = x2, ![d] = v2]
    BY <1>3 DEF G, A, B, C, D
  <2>2. u1 = a1
    BY <1>6
  <2> HIDE DEF u1
  <2>3. v1 = d1
    BY <2>2 DEF d1
  <2> HIDE DEF v1
  <2>4. x1 = c1
    BY <2>3 DEF c1
  <2> HIDE DEF x1
  <2>5. y1 = b1
    BY <2>4 DEF b1
  <2> HIDE DEF y1
  <2>6. u2 = a2
    BY <1>13, <2>2, <2>5
  <2> HIDE DEF u2
  <2>7. v2 = d2
    BY <2>3, <2>6 DEF d2
  <2> HIDE DEF v2
  <2>8. x2 = c2
    BY <2>4, <2>7 DEF c2
  <2> HIDE DEF x2
  <2>9. y2 = b2
    BY <2>5, <2>8 DEF b2
  <2> HIDE DEF y2
  <2> QED BY <2>1, <2>6, <2>7, <2>8, <2>9
<1>20. Mixing(m, p, x, A, B, C, D) = <<a2, b2, c2, d2>>
  BY <1>8, <1>11, <1>15, <1>18, Zenon DEF Mixing, a1, a2, c1, c2, w1, w2, j, k
<1>21. Mixes([v EXCEPT ![a] = a2, ![b] = b2, ![c] = c2, ![d] = d2], v, <<a2, b2, c2, d2>>, a, b, c, d)
  BY <1>12, <1>14, <1>16, <1>17 DEF Mixes, BlakeWords
<1> QED BY <1>19, <1>20, <1>21 DEF A, B, C, D

(* The words that the k-th G takes, and what it makes of them. *)
Taken(v, m, i, k) ==
  Mixing(m, sigma[(i % 10) + 1], GWords[k][5] \div 2, v[GWords[k][1]], v[GWords[k][2]], v[GWords[k][3]], v[GWords[k][4]])

(* The k-th G of a round. *)
GStep(v, m, i, k) == G(v, m, i, GWords[k][1], GWords[k][2], GWords[k][3], GWords[k][4], GWords[k][5])

(* The G of a half of a round take every word once, and their places in    *)
(* the permutation are even.                                               *)
LEMMA GWordsFacts ==
  /\ \A k \in 1..8, j \in 1..4 : GWords[k][j] \in 0..15
  /\ \A k \in 1..8, j, q \in 1..4 : GWords[k][j] = GWords[k][q] => j = q
  /\ \A k, l \in 1..4, j, q \in 1..4 : GWords[k][j] = GWords[l][q] => k = l
  /\ \A k, l \in 5..8, j, q \in 1..4 : GWords[k][j] = GWords[l][q] => k = l
  /\ \A k \in 1..8 : GWords[k][5] = 2 * (GWords[k][5] \div 2) /\ GWords[k][5] \div 2 \in 0..7
<1>1. \A k \in 1..8, j \in 1..4 : GWords[k][j] \in 0..15
  BY SMTT(60) DEF GWords
<1>2. \A k \in 1..8, j, q \in 1..4 : GWords[k][j] = GWords[k][q] => j = q
  BY SMTT(60) DEF GWords
<1>3. \A k, l \in 1..4, j, q \in 1..4 : GWords[k][j] = GWords[l][q] => k = l
  BY SMTT(60) DEF GWords
<1>4. \A k, l \in 5..8, j, q \in 1..4 : GWords[k][j] = GWords[l][q] => k = l
  BY SMTT(60) DEF GWords
<1>5. \A k \in 1..8 : GWords[k][5] = 2 * (GWords[k][5] \div 2) /\ GWords[k][5] \div 2 \in 0..7
  BY SMTT(60) DEF GWords
<1> QED BY <1>1, <1>2, <1>3, <1>4, <1>5

(* The application number k of G makes u of w. *)
Applied(u, w, m, i, k) ==
  /\ u \in BlakeWords
  /\ \A j \in 1..4 : u[GWords[k][j]] = Taken(w, m, i, k)[j]
  /\ \A n \in 0..15 : (\A j \in 1..4 : n # GWords[k][j]) => u[n] = w[n]

(* One G of a round. *)
LEMMA StepIs ==
  ASSUME NEW v \in BlakeWords, NEW m \in BlakeWords, NEW i \in 0..13, NEW k \in 1..8
  PROVE  Applied(GStep(v, m, i, k), v, m, i, k)
<1> DEFINE a == GWords[k][1]
           b == GWords[k][2]
           c == GWords[k][3]
           d == GWords[k][4]
           e == GWords[k][5]
           x == e \div 2
<1>1. /\ a \in 0..15 /\ b \in 0..15 /\ c \in 0..15 /\ d \in 0..15
      /\ a # b /\ a # c /\ a # d /\ b # c /\ b # d /\ c # d
  BY GWordsFacts
<1>2. e = 2 * x /\ x \in 0..7
  BY GWordsFacts
<1> HIDE DEF a, b, c, d, e, x
<1>3. Mixes(G(v, m, i, a, b, c, d, e), v, Mixing(m, sigma[(i % 10) + 1], x, v[a], v[b], v[c], v[d]), a, b, c, d)
  BY <1>1, <1>2, GIs
<1> DEFINE u == G(v, m, i, a, b, c, d, e)
           g == Mixing(m, sigma[(i % 10) + 1], x, v[a], v[b], v[c], v[d])
<1>4. GStep(v, m, i, k) = u /\ Taken(v, m, i, k) = g
  BY DEF GStep, Taken, a, b, c, d, e, x
<1> HIDE DEF u, g
<1>5. /\ u \in BlakeWords
      /\ u[a] = g[1] /\ u[b] = g[2] /\ u[c] = g[3] /\ u[d] = g[4]
      /\ \A n \in 0..15 \ {a, b, c, d} : u[n] = v[n]
  BY <1>3 DEF Mixes, u, g
<1>6. \A j \in 1..4 : u[GWords[k][j]] = g[j]
  <2>1. \A j \in 1..4 : j = 1 \/ j = 2 \/ j = 3 \/ j = 4
    OBVIOUS
  <2>2. u[GWords[k][1]] = g[1] /\ u[GWords[k][2]] = g[2] /\ u[GWords[k][3]] = g[3] /\ u[GWords[k][4]] = g[4]
    BY <1>5 DEF a, b, c, d
  <2> QED BY <2>1, <2>2
<1>7. \A n \in 0..15 : (\A j \in 1..4 : n # GWords[k][j]) => u[n] = v[n]
  <2> TAKE n \in 0..15
  <2> HAVE \A j \in 1..4 : n # GWords[k][j]
  <2>1. n # a /\ n # b /\ n # c /\ n # d
    BY DEF a, b, c, d
  <2> QED BY <1>5, <2>1
<1> QED BY <1>4, <1>5, <1>6, <1>7 DEF Applied

(* u is v after the G from f + 1 to f + 4. *)
HalfRound(u, v, m, i, f) ==
  /\ u \in BlakeWords
  /\ \A k \in (f + 1)..(f + 4), j \in 1..4 : u[GWords[k][j]] = Taken(v, m, i, k)[j]

(* The four G of a half do not meet. *)
LEMMA HalfRoundIs ==
  ASSUME NEW v \in BlakeWords, NEW m \in BlakeWords, NEW i \in 0..13, NEW f \in {0, 4}, NEW a,
         a[f] = v, \A k \in (f + 1)..(f + 4) : a[k] = GStep(a[k - 1], m, i, k)
  PROVE  /\ \A k \in f..(f + 4) : a[k] \in BlakeWords
         /\ HalfRound(a[f + 4], v, m, i, f)
<1> DEFINE Good(h) == /\ a[f + h] \in BlakeWords
                      /\ \A k \in (f + 1)..(f + h), j \in 1..4 : a[f + h][GWords[k][j]] = Taken(v, m, i, k)[j]
                      /\ \A k \in (f + h + 1)..(f + 4), j \in 1..4 : a[f + h][GWords[k][j]] = v[GWords[k][j]]
<1>1. Good(0)
  OBVIOUS
<1>2. ASSUME NEW h \in 1..4, Good(h - 1) PROVE Good(h)
  <2> DEFINE k == f + h
             w == a[k - 1]
             u == a[k]
  <2>1. k \in 1..8 /\ k \in (f + 1)..(f + 4) /\ f + (h - 1) = k - 1 /\ k - 1 \in 0..8
    OBVIOUS
  <2>2. w \in BlakeWords /\ u = GStep(w, m, i, k)
    BY <1>2, <2>1
  <2>3. /\ \A l \in (f + 1)..(k - 1), j \in 1..4 : w[GWords[l][j]] = Taken(v, m, i, l)[j]
        /\ \A l \in k..(f + 4), j \in 1..4 : w[GWords[l][j]] = v[GWords[l][j]]
    <3>1. (k - 1) + 1 = k
      BY <2>1
    <3> HIDE DEF k
    <3> QED BY <1>2, <2>1, <3>1
  <2>4. \A l \in (f + 1)..(f + 4), j \in 1..4 :
          GWords[l][j] \in 0..15 /\ (l # k => \A q \in 1..4 : GWords[l][j] # GWords[k][q])
    BY <2>1, GWordsFacts
  <2> HIDE DEF k, w, u
  <2>5. /\ u \in BlakeWords
        /\ \A j \in 1..4 : u[GWords[k][j]] = Taken(w, m, i, k)[j]
        /\ \A n \in 0..15 : (\A j \in 1..4 : n # GWords[k][j]) => u[n] = w[n]
    <3>1. k \in 1..8 /\ w \in BlakeWords
      BY ONLY <2>1, <2>2
    <3>2. Applied(GStep(w, m, i, k), w, m, i, k)
      BY ONLY m \in BlakeWords, i \in 0..13, <3>1, StepIs
    <3> QED BY ONLY <2>2, <3>2 DEF Applied
  <2>6. Taken(w, m, i, k) = Taken(v, m, i, k)
    <3>1. \A j \in 1..4 : w[GWords[k][j]] = v[GWords[k][j]]
      BY <2>1, <2>3
    <3> QED BY <3>1 DEF Taken
  <2>7. \A l \in (f + 1)..k, j \in 1..4 : u[GWords[l][j]] = Taken(v, m, i, l)[j]
    <3> TAKE l \in (f + 1)..k, j \in 1..4
    <3>1. CASE l = k
      BY <2>5, <2>6, <3>1
    <3>2. CASE l # k
      <4>1. l \in (f + 1)..(k - 1) /\ l \in (f + 1)..(f + 4)
        BY <2>1, <3>2
      <4>2. u[GWords[l][j]] = w[GWords[l][j]]
        BY <2>4, <2>5, <3>2, <4>1
      <4> QED BY <2>3, <4>1, <4>2
    <3> QED BY <3>1, <3>2
  <2>8. \A l \in (k + 1)..(f + 4), j \in 1..4 : u[GWords[l][j]] = v[GWords[l][j]]
    <3> TAKE l \in (k + 1)..(f + 4), j \in 1..4
    <3>1. l \in k..(f + 4) /\ l \in (f + 1)..(f + 4) /\ l # k
      BY <2>1
    <3>2. u[GWords[l][j]] = w[GWords[l][j]]
      BY <2>4, <2>5, <3>1
    <3> QED BY <2>3, <3>1, <3>2
  <2> QED BY <2>5, <2>7, <2>8 DEF u, k
<1> HIDE DEF Good
<1>3. Good(1)
  BY <1>1, <1>2
<1>4. Good(2)
  BY <1>2, <1>3
<1>5. Good(3)
  BY <1>2, <1>4
<1>6. Good(4)
  BY <1>2, <1>5
<1>7. \A k \in f..(f + 4) : a[k] \in BlakeWords
  <2>1. \A k \in f..(f + 4) : k = f + 0 \/ k = f + 1 \/ k = f + 2 \/ k = f + 3 \/ k = f + 4
    OBVIOUS
  <2> QED BY <1>1, <1>3, <1>4, <1>5, <1>6, <2>1 DEF Good
<1> QED BY <1>6, <1>7 DEF Good, HalfRound

(* The half round as the definition has it. *)
DefinedStep(m, r, u, first) ==
  LET g == [x \in 0..3 |-> Mixing(m, sigma[(r % 10) + 1], first + x, u[x], u[4 + x], u[8 + x], u[12 + x])]
  IN  [n \in 0..15 |-> g[n % 4][(n \div 4) + 1]]

(* u with its diagonals where d has its columns. *)
Unslanted(u, d) == \A n \in 0..15 : u[4 * (n \div 4) + (((n % 4) + (n \div 4)) % 4)] = d[n]

(* The columns of a matrix, each mixed on its own. *)
LEMMA ColumnsAre ==
  ASSUME NEW v \in BlakeWords, NEW m \in BlakeWords, NEW i \in 0..13, NEW u, HalfRound(u, v, m, i, 0)
  PROVE  u = DefinedStep(m, i, v, 0)
<1> SUFFICES ASSUME NEW n \in 0..15 PROVE u[n] = DefinedStep(m, i, v, 0)[n]
  BY DEF HalfRound, BlakeWords, DefinedStep
<1> DEFINE x == n % 4
           k == x + 1
           j == (n \div 4) + 1
<1>1. k \in (0 + 1)..(0 + 4) /\ j \in 1..4 /\ n = 4 * (j - 1) + x /\ x \in 0..3 /\ j - 1 \in 0..3
  OBVIOUS
<1>2. \A y \in 0..3 : /\ GWords[y + 1][5] \div 2 = y
                      /\ GWords[y + 1][1] = y /\ GWords[y + 1][2] = 4 + y
                      /\ GWords[y + 1][3] = 8 + y /\ GWords[y + 1][4] = 12 + y
  <2> TAKE y \in 0..3
  <2>1. y = 0 \/ y = 1 \/ y = 2 \/ y = 3
    OBVIOUS
  <2> QED BY <2>1, SMTT(30) DEF GWords
<1> HIDE DEF x, k, j
<1>3. GWords[k][j] = n
  <2>1. j = 1 \/ j = 2 \/ j = 3 \/ j = 4
    BY <1>1
  <2> QED BY <1>1, <1>2, <2>1 DEF k
<1>4. u[n] = Taken(v, m, i, k)[j]
  BY <1>1, <1>3 DEF HalfRound
<1>5. Taken(v, m, i, k) = Mixing(m, sigma[(i % 10) + 1], x, v[x], v[4 + x], v[8 + x], v[12 + x])
  BY <1>1, <1>2 DEF Taken, k
<1>6. DefinedStep(m, i, v, 0)[n] = Mixing(m, sigma[(i % 10) + 1], 0 + x, v[x], v[4 + x], v[8 + x], v[12 + x])[j]
  <2>1. n % 4 \in 0..3
    OBVIOUS
  <2> QED BY <2>1 DEF DefinedStep, x, j
<1>7. 0 + x = x
  BY <1>1
<1> QED BY <1>4, <1>5, <1>6, <1>7

(* The diagonals are the columns of the slanted matrix. *)
LEMMA DiagonalsAre ==
  ASSUME NEW v \in BlakeWords, NEW m \in BlakeWords, NEW i \in 0..13, NEW u, HalfRound(u, v, m, i, 4)
  PROVE  Unslanted(u, DefinedStep(m, i, Slanted(v, 1), 4))
<1> DEFINE s == Slanted(v, 1)
<1> SUFFICES ASSUME NEW n \in 0..15
             PROVE  u[4 * (n \div 4) + (((n % 4) + (n \div 4)) % 4)] = DefinedStep(m, i, s, 4)[n]
  BY DEF Unslanted
<1> DEFINE K(y) == IF y = 0 THEN 7 ELSE IF y = 1 THEN 8 ELSE IF y = 2 THEN 6 ELSE 5
           x == n % 4
           k == K(x)
           j == (n \div 4) + 1
<1>1. k \in (4 + 1)..(4 + 4) /\ j \in 1..4 /\ n = 4 * (j - 1) + x /\ x \in 0..3 /\ n \div 4 = j - 1
  OBVIOUS
<1>2. \A y \in 0..3 : /\ GWords[K(y)][5] \div 2 = 4 + y
                      /\ GWords[K(y)][1] = y /\ GWords[K(y)][2] = 4 + ((y + 1) % 4)
                      /\ GWords[K(y)][3] = 8 + ((y + 2) % 4) /\ GWords[K(y)][4] = 12 + ((y + 3) % 4)
  <2> TAKE y \in 0..3
  <2>1. y = 0 \/ y = 1 \/ y = 2 \/ y = 3
    OBVIOUS
  <2> QED BY <2>1, SMTT(30) DEF GWords
<1> HIDE DEF K
<1>3. GWords[k][j] = 4 * (j - 1) + ((x + (j - 1)) % 4)
  <2>1. j = 1 \/ j = 2 \/ j = 3 \/ j = 4
    BY <1>1
  <2>2. j = 1 => (x + (j - 1)) % 4 = x
    BY <1>1
  <2> HIDE DEF x, j
  <2> QED BY <1>1, <1>2, <2>1, <2>2 DEF k
<1>4. \A y \in 0..3 : /\ s[y] = v[y] /\ s[4 + y] = v[4 + ((y + 1) % 4)]
                      /\ s[8 + y] = v[8 + ((y + 2) % 4)] /\ s[12 + y] = v[12 + ((y + 3) % 4)]
  <2> TAKE y \in 0..3
  <2>1. y = 0 \/ y = 1 \/ y = 2 \/ y = 3
    OBVIOUS
  <2> QED BY <2>1 DEF Slanted
<1> HIDE DEF x, k, j, s
<1>5. u[4 * (j - 1) + ((x + (j - 1)) % 4)] = Taken(v, m, i, k)[j]
  BY <1>1, <1>3 DEF HalfRound
<1>6. Taken(v, m, i, k) = Mixing(m, sigma[(i % 10) + 1], 4 + x, s[x], s[4 + x], s[8 + x], s[12 + x])
  <2>1. /\ GWords[k][5] \div 2 = 4 + x /\ GWords[k][1] = x /\ GWords[k][2] = 4 + ((x + 1) % 4)
        /\ GWords[k][3] = 8 + ((x + 2) % 4) /\ GWords[k][4] = 12 + ((x + 3) % 4)
    BY <1>1, <1>2 DEF k
  <2>2. /\ s[x] = v[x] /\ s[4 + x] = v[4 + ((x + 1) % 4)]
        /\ s[8 + x] = v[8 + ((x + 2) % 4)] /\ s[12 + x] = v[12 + ((x + 3) % 4)]
    BY <1>1, <1>4
  <2> QED BY <2>1, <2>2 DEF Taken
<1>7. u[4 * (n \div 4) + ((x + (n \div 4)) % 4)] = Taken(v, m, i, k)[j]
  BY <1>1, <1>5
<1>8. DefinedStep(m, i, s, 4)[n] = Mixing(m, sigma[(i % 10) + 1], 4 + x, s[x], s[4 + x], s[8 + x], s[12 + x])[j]
  <2>1. n % 4 \in 0..3
    OBVIOUS
  <2> QED BY <2>1 DEF DefinedStep, x, j
<1> QED BY <1>6, <1>7, <1>8 DEF x

(* The round. *)
LEMMA BlakeRoundIs ==
  ASSUME NEW v \in BlakeWords, NEW m \in BlakeWords, NEW i \in 0..13
  PROVE  /\ BlakeRound(v, m, i) = BlakeRoundDefined(v, m, i)
         /\ BlakeRound(v, m, i) \in BlakeWords
<1> DEFINE x1 == GStep(v, m, i, 1)
           x2 == GStep(x1, m, i, 2)
           x3 == GStep(x2, m, i, 3)
           x4 == GStep(x3, m, i, 4)
           x5 == GStep(x4, m, i, 5)
           x6 == GStep(x5, m, i, 6)
           x7 == GStep(x6, m, i, 7)
           x8 == GStep(x7, m, i, 8)
           a == [k \in 0..8 |-> CASE k = 0 -> v [] k = 1 -> x1 [] k = 2 -> x2 [] k = 3 -> x3 [] k = 4 -> x4
                                  [] k = 5 -> x5 [] k = 6 -> x6 [] k = 7 -> x7 [] k = 8 -> x8]
<1>1. /\ a[0] = v /\ a[1] = x1 /\ a[2] = x2 /\ a[3] = x3 /\ a[4] = x4
      /\ a[5] = x5 /\ a[6] = x6 /\ a[7] = x7 /\ a[8] = x8
  <2> HIDE DEF x1, x2, x3, x4, x5, x6, x7, x8
  <2> QED OBVIOUS
<1>2. /\ a[1] = GStep(a[0], m, i, 1) /\ a[2] = GStep(a[1], m, i, 2) /\ a[3] = GStep(a[2], m, i, 3)
      /\ a[4] = GStep(a[3], m, i, 4) /\ a[5] = GStep(a[4], m, i, 5) /\ a[6] = GStep(a[5], m, i, 6)
      /\ a[7] = GStep(a[6], m, i, 7) /\ a[8] = GStep(a[7], m, i, 8)
  <2> HIDE DEF a
  <2> QED BY <1>1
<1>3. DOMAIN a = 0..8 /\ a = [k \in 0..8 |-> a[k]]
  OBVIOUS
<1> HIDE DEF a
<1>4. \A k \in 1..8 : a[k] = GStep(a[k - 1], m, i, k)
  <2> TAKE k \in 1..8
  <2>1. k = 1 \/ k = 2 \/ k = 3 \/ k = 4 \/ k = 5 \/ k = 6 \/ k = 7 \/ k = 8
    OBVIOUS
  <2> QED BY <1>2, <2>1
<1> DEFINE w == a[4]
           u == a[8]
<1>5. (\A k \in 0..4 : a[k] \in BlakeWords) /\ HalfRound(w, v, m, i, 0)
  <2> DEFINE f == 0
  <2>1. f \in {0, 4} /\ a[f] = v /\ \A k \in (f + 1)..(f + 4) : a[k] = GStep(a[k - 1], m, i, k)
    BY <1>1, <1>4
  <2>2. f + 4 = 4
    OBVIOUS
  <2> HIDE DEF f
  <2>3. (\A k \in f..(f + 4) : a[k] \in BlakeWords) /\ HalfRound(a[f + 4], v, m, i, f)
    BY <2>1, HalfRoundIs
  <2> QED BY <2>2, <2>3 DEF f
<1>6. w \in BlakeWords
  BY <1>5
<1>7. (\A k \in 4..8 : a[k] \in BlakeWords) /\ HalfRound(u, w, m, i, 4)
  <2> DEFINE f == 4
  <2>1. f \in {0, 4} /\ a[f] = w /\ \A k \in (f + 1)..(f + 4) : a[k] = GStep(a[k - 1], m, i, k)
    BY <1>4
  <2>2. f + 4 = 8
    OBVIOUS
  <2> HIDE DEF f, w
  <2>3. (\A k \in f..(f + 4) : a[k] \in BlakeWords) /\ HalfRound(a[f + 4], w, m, i, f)
    BY <1>6, <2>1, HalfRoundIs
  <2> QED BY <2>2, <2>3 DEF f
<1>8. GFoldSteps(m, i, BlakeWords, a)
  <2>1. \A k \in 0..8 : a[k] \in BlakeWords
    BY <1>5, <1>7
  <2>2. a \in [0..8 -> BlakeWords]
    BY <1>3, <2>1
  <2>3. \A y \in BlakeWords, k \in 1..8 : GStep(y, m, i, k) \in BlakeWords
    BY StepIs DEF Applied
  <2> QED BY <1>4, <2>2, <2>3 DEF GFoldSteps, GStep
<1>9. BlakeRound(v, m, i) = u
  <2>1. BlakeRound(a[0], m, i) = a[8]
    BY ONLY <1>8, GFold
  <2> QED BY <1>1, <2>1
<1>10. u \in BlakeWords
  BY <1>7
<1> HIDE DEF w, u
<1> DEFINE d1 == DefinedStep(m, i, v, 0)
           s == Slanted(w, 1)
           d2 == DefinedStep(m, i, s, 4)
<1>11. w = d1
  BY <1>5, ColumnsAre
<1>12. Unslanted(u, d2)
  BY <1>6, <1>7, DiagonalsAre
<1>13. Slanted(d2, 3) = u
  <2>1. Slanted(d2, 3) = [n \in 0..15 |-> d2[4 * (n \div 4) + (((n % 4) + 3 * (n \div 4)) % 4)]]
    BY DEF Slanted
  <2>2. ASSUME NEW n \in 0..15
        PROVE  d2[4 * (n \div 4) + (((n % 4) + 3 * (n \div 4)) % 4)] = u[n]
    <3> DEFINE q == 4 * (n \div 4) + (((n % 4) + 3 * (n \div 4)) % 4)
    <3>1. q \in 0..15 /\ q \div 4 = n \div 4 /\ q % 4 = ((n % 4) + 3 * (n \div 4)) % 4
      OBVIOUS
    <3>2. 4 * (n \div 4) + (((((n % 4) + 3 * (n \div 4)) % 4) + (n \div 4)) % 4) = n
      OBVIOUS
    <3> HIDE DEF q, d2
    <3>3. u[4 * (q \div 4) + (((q % 4) + (q \div 4)) % 4)] = d2[q]
      BY <1>12, <3>1 DEF Unslanted
    <3>4. 4 * (q \div 4) + (((q % 4) + (q \div 4)) % 4) = n
      BY <3>1, <3>2
    <3>5. d2[q] = u[n]
      BY <3>3, <3>4
    <3> QED BY <3>5 DEF q
  <2> HIDE DEF d2
  <2> QED BY <1>10, <2>1, <2>2 DEF BlakeWords
<1>14. BlakeRoundDefined(v, m, i) = Slanted(DefinedStep(m, i, Slanted(DefinedStep(m, i, v, 0), 1), 4), 3)
  BY Zenon DEF BlakeRoundDefined, DefinedStep
<1>15. BlakeRoundDefined(v, m, i) = Slanted(d2, 3)
  BY <1>11, <1>14
<1> QED BY <1>9, <1>10, <1>13, <1>15

(* What goes into h, one word after another, is the exclusive or of both   *)
(* halves of v.                                                            *)
LEMMA AllIntoIs ==
  ASSUME NEW h \in [0..7 -> SUBSET Nat], NEW v \in BlakeWords
  PROVE  \A j \in 0..7 : AllInto(h, v)[j] = XorBits(XorBits(h[j], v[j]), v[j + 8])
<1> DEFINE V == [0..7 -> SUBSET Nat]
           once == [j \in 0..7 |-> XorBits(h[j], v[j])]
           twice == [j \in 0..7 |-> XorBits(once[j], v[j + 8])]
           a == [k \in 0..16 |-> [j \in 0..7 |-> IF k <= j THEN h[j] ELSE IF k <= j + 8 THEN once[j] ELSE twice[j]]]
<1>1. once \in V
  <2>1. \A j \in 0..7 : h[j] \in SUBSET Nat /\ v[j] \in SUBSET Nat
    BY DEF BlakeWords
  <2>2. \A j \in 0..7 : XorBits(h[j], v[j]) \in SUBSET Nat
    BY <2>1, WordTypes
  <2> QED BY <2>2
<1>2. twice \in V
  <2>1. \A j \in 0..7 : once[j] \in SUBSET Nat /\ v[j + 8] \in SUBSET Nat
    <3> HIDE DEF once
    <3> QED BY <1>1 DEF BlakeWords
  <2> HIDE DEF once
  <2>2. \A j \in 0..7 : XorBits(once[j], v[j + 8]) \in SUBSET Nat
    BY <2>1, WordTypes
  <2> QED BY <2>2
<1>3. (\A j \in 0..7 : once[j] = XorBits(h[j], v[j])) /\ \A j \in 0..7 : twice[j] = XorBits(once[j], v[j + 8])
  <2>1. \A j \in 0..7 : once[j] = XorBits(h[j], v[j])
    OBVIOUS
  <2> HIDE DEF once
  <2> QED BY <2>1
<1> HIDE DEF once, twice
<1>4. a \in [0..16 -> V]
  BY <1>1, <1>2
<1>5. \A x \in V, k \in 1..16 : Into(x, v, k - 1) \in V
  <2> TAKE x \in V, k \in 1..16
  <2>1. (k - 1) % 8 \in 0..7 /\ k - 1 \in 0..15
    OBVIOUS
  <2>2. XorBits(x[(k - 1) % 8], v[k - 1]) \in SUBSET Nat
    BY <2>1, WordTypes DEF BlakeWords
  <2> QED BY <2>1, <2>2 DEF Into
<1>6. \A k \in 1..16 : a[k] = Into(a[k - 1], v, k - 1)
  <2> TAKE k \in 1..16
  <2> DEFINE y == a[k - 1]
             q == (k - 1) % 8
  <2>1. k - 1 \in 0..16 /\ q \in 0..7 /\ ((k <= 8 /\ q = k - 1) \/ (k > 8 /\ q + 8 = k - 1))
    OBVIOUS
  <2>2. y \in V
    <3> HIDE DEF a, V
    <3> QED BY <1>4, <2>1
  <2>3. \A j \in 0..7 : /\ y[j] = IF k - 1 <= j THEN h[j] ELSE IF k - 1 <= j + 8 THEN once[j] ELSE twice[j]
                        /\ a[k][j] = IF k <= j THEN h[j] ELSE IF k <= j + 8 THEN once[j] ELSE twice[j]
    BY <2>1
  <2>4. a[k] \in V
    <3> HIDE DEF a, V
    <3> QED BY <1>4
  <2>5. Into(y, v, k - 1) = [y EXCEPT ![q] = XorBits(y[q], v[k - 1])]
    <3> HIDE DEF y
    <3> QED BY <2>1, <2>2 DEF Into
  <2> HIDE DEF a, y, q
  <2>6. \A j \in 0..7 : j # q => a[k][j] = y[j]
    BY <2>1, <2>3
  <2>7. a[k][q] = XorBits(y[q], v[k - 1])
    <3>1. CASE k <= 8
      <4>1. y[q] = h[q] /\ a[k][q] = once[q] /\ q = k - 1
        BY <2>1, <2>3, <3>1
      <4> QED BY <1>3, <2>1, <4>1
    <3>2. CASE k > 8
      <4>1. y[q] = once[q] /\ a[k][q] = twice[q] /\ q + 8 = k - 1
        BY <2>1, <2>3, <3>2
      <4> QED BY <1>3, <2>1, <4>1
    <3> QED BY <3>1, <3>2
  <2>8. a[k] = [y EXCEPT ![q] = XorBits(y[q], v[k - 1])]
    BY <2>1, <2>2, <2>4, <2>6, <2>7
  <2> QED BY <2>5, <2>8 DEF y
<1>7. a[0] = h /\ a[16] = twice
  <2>1. \A j \in 0..7 : 0 <= j /\ ~(16 <= j) /\ ~(16 <= j + 8)
    OBVIOUS
  <2>2. h = [j \in 0..7 |-> h[j]] /\ twice = [j \in 0..7 |-> twice[j]]
    BY <1>2
  <2> QED BY <2>1, <2>2
<1>8. IntoFoldSteps(v, V, a)
  <2> HIDE DEF a, V
  <2> QED BY <1>4, <1>5, <1>6 DEF IntoFoldSteps
<1>9. AllInto(a[0], v) = a[16]
  <2> HIDE DEF a, V
  <2> QED BY ONLY <1>8, IntoFold
<1> HIDE DEF a
<1> QED BY <1>3, <1>7, <1>9

(* The output of the code is the output of BLAKE. *)
LEMMA BlakeLeaveIs ==
  ASSUME NEW S, S.h \in [0..7 -> SUBSET Nat], S.s \in [0..3 -> SUBSET Nat], NEW v \in BlakeWords
  PROVE  BlakeLeave(S, v) = BlakeOutput(S, v)
<1> DEFINE h == S.h
           salt == S.s
<1>1. \A j \in 0..7 : AllInto(h, v)[j] = XorBits(XorBits(h[j], v[j]), v[j + 8])
  BY AllIntoIs
<1>2. ASSUME NEW j \in 0..7
      PROVE  XorBits(XorBits(XorBits(h[j], v[j]), v[j + 8]), salt[j % 4]) = XorAll(<<h[j], salt[j % 4], v[j], v[j + 8]>>)
  <2> DEFINE A == h[j]
             B == salt[j % 4]
             C == v[j]
             D == v[j + 8]
             s == <<A, B, C, D>>
  <2> HIDE DEF A, B, C, D
  <2>1. IsSequence(s, 4) /\ s[1] = A /\ s[2] = B /\ s[3] = C /\ s[4] = D
    BY DEF IsSequence
  <2> HIDE DEF s
  <2>2. ASSUME NEW i PROVE i \in XorAll(s) <=> i \in XorBits(XorBits(XorBits(A, C), D), B)
    <3>1. i \in XorAll(s) <=> ~(((i \in s[1] <=> i \in s[2]) <=> i \in s[3]) <=> i \in s[4])
      <4>1. 4 \in 2..5
        OBVIOUS
      <4> QED BY <2>1, <4>1, XorAllFive
    <3>2. /\ i \in XorBits(XorBits(XorBits(A, C), D), B) <=> ~(i \in XorBits(XorBits(A, C), D) <=> i \in B)
          /\ i \in XorBits(XorBits(A, C), D) <=> ~(i \in XorBits(A, C) <=> i \in D)
          /\ i \in XorBits(A, C) <=> ~(i \in A <=> i \in C)
      <4>1. ASSUME NEW p, NEW q PROVE i \in XorBits(p, q) <=> ~(i \in p <=> i \in q)
        BY XorBitsIn
      <4> QED BY <4>1
    <3> QED BY <2>1, <3>1, <3>2
  <2>3. XorAll(s) = XorBits(XorBits(XorBits(A, C), D), B)
    BY <2>2
  <2> QED BY <2>3 DEF A, B, C, D, s
<1>3. BlakeLeave(S, v) = [j \in 0..7 |-> XorBits(AllInto(h, v)[j], salt[j % 4])]
  BY DEF BlakeLeave
<1>4. BlakeOutput(S, v) = [j \in 0..7 |-> XorAll(<<h[j], salt[j % 4], v[j], v[j + 8]>>)]
  BY DEF BlakeOutput
<1> HIDE DEF h, salt
<1> QED BY <1>1, <1>2, <1>3, <1>4

(* The first words are words. *)
LEMMA BlakeEnterIs ==
  ASSUME NEW S, S.h \in [0..7 -> SUBSET Nat], S.s \in [0..3 -> SUBSET Nat], S.t \in [0..1 -> SUBSET Nat]
  PROVE  BlakeEnter(S) \in BlakeWords
<1> DEFINE W(i) == CASE i < 8  -> S.h[i]
                     [] i \in 8..11 -> XorBits(S.s[i - 8], cst[i - 7])
                     [] i > 11 /\ S.nullt -> cst[i - 7]
                     [] OTHER  -> XorBits(cst[i - 7], S.t[(i - 12) \div 2])
<1>1. ASSUME NEW i \in 0..15 PROVE W(i) \in SUBSET Nat
  <2>1. CASE i < 8
    BY <2>1
  <2>2. CASE i \in 8..11
    <3>1. S.s[i - 8] \in SUBSET Nat /\ cst[i - 7] \in SUBSET Nat
      BY <2>2, SigmaFacts
    <3>2. W(i) = XorBits(S.s[i - 8], cst[i - 7])
      BY <2>2
    <3>3. XorBits(S.s[i - 8], cst[i - 7]) \in SUBSET Nat
      BY <3>1, WordTypes
    <3> QED BY <3>2, <3>3, Zenon
  <2>3. CASE i \in 12..15
    <3>1. S.t[(i - 12) \div 2] \in SUBSET Nat /\ cst[i - 7] \in SUBSET Nat
      BY <2>3, SigmaFacts
    <3>2. W(i) = cst[i - 7] \/ W(i) = XorBits(cst[i - 7], S.t[(i - 12) \div 2])
      BY <2>3
    <3>3. XorBits(cst[i - 7], S.t[(i - 12) \div 2]) \in SUBSET Nat
      BY <3>1, WordTypes
    <3> QED BY <3>1, <3>2, <3>3, Zenon
  <2> QED BY <2>1, <2>2, <2>3
<1>2. BlakeEnter(S) = [i \in 0..15 |-> W(i)]
  BY DEF BlakeEnter
<1> HIDE DEF W
<1> QED BY <1>1, <1>2 DEF BlakeWords

(* Of a call of BLAKE code and definition have the same words. *)
BlakeInv ==
  call.function = "blake" => /\ round \in Nat
                             /\ code = ideal
                             /\ round <= 14 => ideal \in BlakeWords

(* What a call of BLAKE is given are words. *)
LEMMA BlakeGiven ==
  ASSUME NEW c
  PROVE  /\ BlakeState(c).h \in [0..7 -> SUBSET Nat]
         /\ BlakeState(c).s \in [0..3 -> SUBSET Nat]
         /\ BlakeState(c).t \in [0..1 -> SUBSET Nat]
         /\ BlakeMessage(c) \in BlakeWords
BY DatumIsWord DEF BlakeState, BlakeMessage, Data, BlakeWords

(* Before the first round a call of BLAKE has the words of the definition. *)
LEMMA BlakeInitially ==
  CallInit => BlakeInv
<1> SUFFICES ASSUME CallInit, call.function = "blake" PROVE BlakeInv
  BY DEF BlakeInv
<1>1. code = BlakeEnter(BlakeState(call)) /\ ideal = code /\ round = 0
  BY DEF CallInit, Begun, BegunIdeal
<1> QED BY <1>1, BlakeGiven, BlakeEnterIs DEF BlakeInv

(* A round of BLAKE, or what follows the last, keeps them the same.        *)
LEMMA BlakeNext ==
  ASSUME BlakeInv, [CallNext]_callVars
  PROVE  BlakeInv'
<1>1. CASE UNCHANGED callVars
  BY <1>1 DEF callVars, BlakeInv
<1>2. CASE CallNext /\ call.function # "blake"
  BY <1>2 DEF CallNext, BlakeInv
<1>3. CASE CallNext /\ call.function = "blake"
  <2> DEFINE m == BlakeMessage(call)
             S == BlakeState(call)
  <2>1. call' = call /\ round' = round + 1 /\ round \in Nat /\ code = ideal /\ (round <= 14 => ideal \in BlakeWords)
    BY <1>3 DEF CallNext, BlakeInv
  <2>2. BlakeRounds \/ BlakeEnd
    BY <1>3 DEF CallNext, SkeinRounds, SkeinEnd, AesRounds, GroestlRounds, GroestlEnd, JhRounds, JhEnd, KeccakRounds
  <2>3. CASE BlakeRounds
    <3>1. code' = BlakeRound(ideal, m, round) /\ ideal' = BlakeRoundDefined(ideal, m, round) /\ round \in 0..13
      BY <2>1, <2>3 DEF BlakeRounds
    <3>2. m \in BlakeWords /\ ideal \in BlakeWords
      BY <2>1, <3>1, BlakeGiven
    <3> HIDE DEF m
    <3>3. BlakeRound(ideal, m, round) = BlakeRoundDefined(ideal, m, round) /\ BlakeRound(ideal, m, round) \in BlakeWords
      BY <3>1, <3>2, BlakeRoundIs
    <3> QED BY <2>1, <3>1, <3>3 DEF BlakeInv
  <2>4. CASE BlakeEnd
    <3>1. code' = BlakeLeave(S, ideal) /\ ideal' = BlakeOutput(S, ideal) /\ round = 14
      BY <2>1, <2>4 DEF BlakeEnd
    <3>2. ideal \in BlakeWords /\ S.h \in [0..7 -> SUBSET Nat] /\ S.s \in [0..3 -> SUBSET Nat]
      BY <2>1, <3>1, BlakeGiven
    <3> HIDE DEF S
    <3>3. code' = ideal'
      BY <3>1, <3>2, BlakeLeaveIs
    <3> QED BY <2>1, <3>1, <3>3 DEF BlakeInv
  <2> QED BY <2>2, <2>3, <2>4
<1> QED BY <1>1, <1>2, <1>3

(* The compression of BLAKE-256 is as it is defined, whatever the chaining *)
(* value, the salt, the counter and the block (c_blake256.c:53-98).        *)
THEOREM BlakeHolds ==
  CallSpec => []BlakeAsDefined
<1>1. BlakeInv => BlakeAsDefined
  BY DEF BlakeInv, BlakeAsDefined, Of
<1> QED BY <1>1, BlakeInitially, BlakeNext, PTL DEF CallSpec

-----------------------------------------------------------------------------
(* Keccak: the lanes that move, chi in place, and the table of constants.  *)

(* The lanes that are moved, one after the other. *)
MoveFoldSteps(V, a) ==
  /\ a \in [0..23 -> V]
  /\ \A x \in V, k \in 1..23 : Move(x, k) \in V
  /\ \A k \in 1..23 : a[k] = Move(a[k - 1], k)

(* The fold ends where they end. *)
LEMMA MoveFold ==
  ASSUME NEW V, NEW a, MoveFoldSteps(V, a)
  PROVE  Moved(a[0]) = a[23]
<1> DEFINE m == 23
           s == [k \in 1..23 |-> k]
           Op(x, e) == Move(x, e)
           g == [q \in (1..m) \X V |-> Op(q[2], s[q[1]])]
           Solves(f) == f = [u \in SUBSET (1..m) |-> IF u = {} THEN a[0] ELSE Op(f[u \ {Max(u)}], s[Max(u)])]
           it == CHOOSE f : Solves(f)
<1>1. m \in Nat /\ DOMAIN s = 1..m /\ \A k \in 1..m : s[k] = k
  OBVIOUS
<1>2. /\ a \in [0..m -> V]
      /\ \A x \in V, k \in 1..m : Op(x, k) \in V
      /\ \A k \in 1..m : a[k] = Op(a[k - 1], k)
  <2> HIDE DEF s
  <2> QED BY <1>1 DEF MoveFoldSteps
<1> HIDE DEF m, s, Op
<1>3. g \in [(1..m) \X V -> V]
  BY <1>1, <1>2
<1>4. PICK f \in [SUBSET (1..m) -> V] : Folds(f, m, a[0], g)
  <2>1. a[0] \in V
    BY <1>1, <1>2
  <2> HIDE DEF g
  <2> QED BY ONLY <1>1, <1>3, <2>1, FoldExists
<1>5. Solves(f)
  <2>1. ASSUME NEW u \in SUBSET (1..m), u # {}
        PROVE  g[<<Max(u), f[u \ {Max(u)}]>>] = Op(f[u \ {Max(u)}], s[Max(u)])
    <3>1. Max(u) \in 1..m
      <4>1. Max(u) \in u
        BY <1>1, <2>1, Largest
      <4> QED BY <4>1
    <3>2. f[u \ {Max(u)}] \in V
      OBVIOUS
    <3> QED BY <3>1, <3>2
  <2> HIDE DEF g
  <2> QED BY <1>4, <2>1 DEF Folds
<1>6. Solves(it)
  <2> HIDE DEF Solves
  <2> QED BY <1>5
<1>7. it[1..m] = a[m]
  <2> HIDE DEF it
  <2>1. it[{}] = a[0]
    BY <1>6
  <2>2. ASSUME NEW k \in 1..m, it[1..(k - 1)] = a[k - 1]
        PROVE  it[1..k] = a[k]
    <3>1. 1..k \in SUBSET (1..m) /\ k \in Nat \ {0}
      BY <1>1
    <3>2. Max(1..k) = k /\ (1..k) \ {Max(1..k)} = 1..(k - 1) /\ 1..k # {}
      BY <3>1, LargestOfRange
    <3>3. it[1..k] = Op(it[1..(k - 1)], s[k])
      BY <1>6, <3>1, <3>2
    <3> QED BY <1>1, <1>2, <2>2, <3>3
  <2> HIDE DEF Solves
  <2>3. m \in Nat
    BY <1>1
  <2>4. Climbs(it, m, a)
    <3> HIDE DEF Solves
    <3> QED BY <2>1, <2>2 DEF Climbs
  <2> HIDE DEF g, Solves
  <2> QED BY <2>3, <2>4, Climbed
<1> HIDE DEF it
<1>8. Moved(a[0]) = it[DOMAIN s]
  BY Zenon DEF it, s, m, Op, FoldLeft, MapThenFoldSet, Moved
<1> QED BY <1>1, <1>7, <1>8 DEF m

(* The rows, one after the other. *)
ChiFoldSteps(V, a) ==
  /\ a \in [0..5 -> V]
  /\ \A x \in V, k \in 1..5 : ChiRow(x, 5 * (k - 1)) \in V
  /\ \A k \in 1..5 : a[k] = ChiRow(a[k - 1], 5 * (k - 1))

(* The fold ends where they end. *)
LEMMA ChiFold ==
  ASSUME NEW V, NEW a, ChiFoldSteps(V, a)
  PROVE  Chi(a[0]) = a[5]
<1> DEFINE m == 5
           s == [k \in 1..5 |-> k]
           Op(x, e) == ChiRow(x, 5 * (e - 1))
           g == [q \in (1..m) \X V |-> Op(q[2], s[q[1]])]
           Solves(f) == f = [u \in SUBSET (1..m) |-> IF u = {} THEN a[0] ELSE Op(f[u \ {Max(u)}], s[Max(u)])]
           it == CHOOSE f : Solves(f)
<1>1. m \in Nat /\ DOMAIN s = 1..m /\ \A k \in 1..m : s[k] = k
  OBVIOUS
<1>2. /\ a \in [0..m -> V]
      /\ \A x \in V, k \in 1..m : Op(x, k) \in V
      /\ \A k \in 1..m : a[k] = Op(a[k - 1], k)
  <2> HIDE DEF s
  <2> QED BY <1>1 DEF ChiFoldSteps
<1> HIDE DEF m, s, Op
<1>3. g \in [(1..m) \X V -> V]
  BY <1>1, <1>2
<1>4. PICK f \in [SUBSET (1..m) -> V] : Folds(f, m, a[0], g)
  <2>1. a[0] \in V
    BY <1>1, <1>2
  <2> HIDE DEF g
  <2> QED BY ONLY <1>1, <1>3, <2>1, FoldExists
<1>5. Solves(f)
  <2>1. ASSUME NEW u \in SUBSET (1..m), u # {}
        PROVE  g[<<Max(u), f[u \ {Max(u)}]>>] = Op(f[u \ {Max(u)}], s[Max(u)])
    <3>1. Max(u) \in 1..m
      <4>1. Max(u) \in u
        BY <1>1, <2>1, Largest
      <4> QED BY <4>1
    <3>2. f[u \ {Max(u)}] \in V
      OBVIOUS
    <3> QED BY <3>1, <3>2
  <2> HIDE DEF g
  <2> QED BY <1>4, <2>1 DEF Folds
<1>6. Solves(it)
  <2> HIDE DEF Solves
  <2> QED BY <1>5
<1>7. it[1..m] = a[m]
  <2> HIDE DEF it
  <2>1. it[{}] = a[0]
    BY <1>6
  <2>2. ASSUME NEW k \in 1..m, it[1..(k - 1)] = a[k - 1]
        PROVE  it[1..k] = a[k]
    <3>1. 1..k \in SUBSET (1..m) /\ k \in Nat \ {0}
      BY <1>1
    <3>2. Max(1..k) = k /\ (1..k) \ {Max(1..k)} = 1..(k - 1) /\ 1..k # {}
      BY <3>1, LargestOfRange
    <3>3. it[1..k] = Op(it[1..(k - 1)], s[k])
      BY <1>6, <3>1, <3>2
    <3> QED BY <1>1, <1>2, <2>2, <3>3
  <2> HIDE DEF Solves
  <2>3. m \in Nat
    BY <1>1
  <2>4. Climbs(it, m, a)
    <3> HIDE DEF Solves
    <3> QED BY <2>1, <2>2 DEF Climbs
  <2> HIDE DEF g, Solves
  <2> QED BY <2>3, <2>4, Climbed
<1> HIDE DEF it
<1>8. Chi(a[0]) = it[DOMAIN s]
  BY Zenon DEF it, s, m, Op, FoldLeft, MapThenFoldSet, Chi
<1> QED BY <1>1, <1>7, <1>8 DEF m

Lanes == [0..24 -> SUBSET (0..63)]

(* Where a lane is on the path. *)
Place == <<1, 7, 19, 13, 18, 2, 23, 16, 3, 24, 22, 8, 9, 5, 12, 17, 21, 20, 10, 6, 15, 4, 11, 14>>

(* The lane where the walk of the definition is after t steps. *)
WalkLane(t) == IF t = 0 THEN 1 ELSE Path[25 - t]

(* The path names every lane but 0 once, backwards along the walk, and the *)
(* offsets are the triangular numbers, by which a lane of 64 bits turns.   *)
LEMMA PathFacts ==
  /\ \A k \in 1..24 : Path[k] \in 1..24 /\ Place[Path[k]] = k
  /\ \A n \in 1..24 : Place[n] \in 1..24 /\ Path[Place[n]] = n
  /\ Path[24] = 10
  /\ \A k \in 1..23 : Offsets[k] \in 0..63 /\ (((25 - k) * (26 - k)) \div 2) % 64 = Offsets[k]
  /\ \A t \in 1..23 : /\ WalkLane(t) % 5 = WalkLane(t - 1) \div 5
                      /\ WalkLane(t) \div 5 = (2 * (WalkLane(t - 1) % 5) + 3 * (WalkLane(t - 1) \div 5)) % 5
  /\ \A t \in 0..23 : WalkLane(t) \in 1..24
  /\ \A n \in 1..24 : ((3 * (n \div 5 + 2 * (n % 5))) % 5) + 5 * (n % 5) = WalkLane(24 - Place[n])
<1>1. \A k \in 1..24 : Path[k] \in 1..24 /\ Place[Path[k]] = k
  BY SMTT(60) DEF Path, Place
<1>2. \A n \in 1..24 : Place[n] \in 1..24 /\ Path[Place[n]] = n
  BY SMTT(60) DEF Path, Place
<1>3. Path[24] = 10
  BY DEF Path
<1>4. \A k \in 1..23 : Offsets[k] \in 0..63 /\ (((25 - k) * (26 - k)) \div 2) % 64 = Offsets[k]
  BY SMTT(60) DEF Offsets
<1>5. \A t \in 1..23 : /\ WalkLane(t) % 5 = WalkLane(t - 1) \div 5
                      /\ WalkLane(t) \div 5 = (2 * (WalkLane(t - 1) % 5) + 3 * (WalkLane(t - 1) \div 5)) % 5
  BY SMTT(60) DEF Path, WalkLane
<1>6. \A t \in 0..23 : WalkLane(t) \in 1..24
  BY <1>1 DEF WalkLane
<1>7. \A n \in 1..24 : ((3 * (n \div 5 + 2 * (n % 5))) % 5) + 5 * (n % 5) = WalkLane(24 - Place[n])
  BY SMTT(60) DEF Path, Place, WalkLane
<1> QED BY <1>1, <1>2, <1>3, <1>4, <1>5, <1>6, <1>7

IsWalk(f) ==
  f = [t \in 0..23 |-> IF t = 0 THEN <<1, 0>> ELSE LET p == f[t - 1] IN <<p[2], (2 * p[1] + 3 * p[2]) % 5>>]

(* The walk of the definition. *)
LEMMA WalkIs ==
  \A t \in 0..23 : Walk[t] = <<WalkLane(t) % 5, WalkLane(t) \div 5>>
<1> DEFINE a == [t \in 0..23 |-> <<WalkLane(t) % 5, WalkLane(t) \div 5>>]
           f == CHOOSE f : IsWalk(f)
<1>1. a[0] = <<1, 0>>
  BY DEF WalkLane
<1>2. \A t \in 1..23 : a[t] = <<a[t - 1][2], (2 * a[t - 1][1] + 3 * a[t - 1][2]) % 5>>
  BY PathFacts
<1>3. IsWalk(a)
  <2> DEFINE e(t) == IF t = 0 THEN <<1, 0>> ELSE <<a[t - 1][2], (2 * a[t - 1][1] + 3 * a[t - 1][2]) % 5>>
  <2>1. \A t \in 0..23 : a[t] = e(t)
    <3> TAKE t \in 0..23
    <3>1. t = 0 \/ t \in 1..23
      OBVIOUS
    <3> HIDE DEF a
    <3> QED BY <1>1, <1>2, <3>1
  <2>2. a = [t \in 0..23 |-> a[t]]
    OBVIOUS
  <2> HIDE DEF a
  <2>3. a = [t \in 0..23 |-> e(t)]
    <3> HIDE DEF e
    <3> QED BY <2>1, <2>2
  <2> QED BY <2>3 DEF IsWalk
<1>4. IsWalk(f)
  <2> HIDE DEF a
  <2> QED BY <1>3
<1>5. Walk = f
  BY Zenon DEF Walk, IsWalk
<1> HIDE DEF f
<1>6. f[0] = <<1, 0>> /\ \A t \in 1..23 : f[t] = <<f[t - 1][2], (2 * f[t - 1][1] + 3 * f[t - 1][2]) % 5>>
  <2> DEFINE e(t) == IF t = 0 THEN <<1, 0>> ELSE <<f[t - 1][2], (2 * f[t - 1][1] + 3 * f[t - 1][2]) % 5>>
  <2>1. f = [t \in 0..23 |-> e(t)]
    BY ONLY <1>4, ZenonT(30) DEF IsWalk
  <2>2. \A t \in 0..23 : f[t] = e(t)
    <3> HIDE DEF e
    <3> QED BY <2>1
  <2> QED BY <2>2
<1> HIDE DEF a
<1> DEFINE S == {t \in 0..23 : f[t] = a[t]}
<1>7. 0 \in S /\ \A t \in 1..23 : t - 1 \in S => t \in S
  <2>1. 0 \in S
    <3>1. f[0] = a[0]
      BY <1>1, <1>6, Zenon
    <3> QED BY <3>1
  <2>2. ASSUME NEW t \in 1..23, t - 1 \in S PROVE t \in S
    <3>1. f[t - 1] = a[t - 1] /\ t \in 0..23
      BY <2>2
    <3>2. f[t] = a[t]
      BY <1>2, <1>6, <3>1
    <3> QED BY <3>1, <3>2
  <2> QED BY <2>1, <2>2
<1>8. \A t \in 0..23 : t \in S
  <2> HIDE DEF S
  <2>1. 23 \in Nat
    OBVIOUS
  <2> QED BY ONLY <1>7, <2>1, Induction
<1>9. \A t \in 0..23 : a[t] = <<WalkLane(t) % 5, WalkLane(t) \div 5>>
  BY DEF a
<1> QED BY <1>5, <1>8, <1>9

(* The offset of the lane where the walk is after t steps. *)
LEMMA OffsetIs ==
  ASSUME NEW t \in 0..23, NEW x \in 0..4, NEW y \in 0..4, x + 5 * y = WalkLane(t)
  PROVE  OffsetOf(x, y) = ((t + 1) * (t + 2)) \div 2
<1>0. \A s \in 0..23 : WalkLane(s) \in 1..24
  BY PathFacts
<1>1. WalkLane(t) % 5 = x /\ WalkLane(t) \div 5 = y /\ WalkLane(t) \in 1..24
  <2>1. \A p \in 0..4, q \in 0..4 : (p + 5 * q) % 5 = p /\ (p + 5 * q) \div 5 = q
    OBVIOUS
  <2> QED BY <1>0, <2>1
<1>2. ~(x = 0 /\ y = 0)
  BY <1>1
<1>3. Walk[t] = <<x, y>>
  BY <1>1, WalkIs
<1>4. ASSUME NEW u \in 0..23, Walk[u] = <<x, y>> PROVE u = t
  <2>1. WalkLane(u) % 5 = x /\ WalkLane(u) \div 5 = y /\ WalkLane(u) \in 1..24
    <3>1. Walk[u] = <<WalkLane(u) % 5, WalkLane(u) \div 5>>
      BY WalkIs
    <3> QED BY <1>0, <1>4, <3>1
  <2>2. WalkLane(u) = WalkLane(t)
    BY <1>1, <2>1
  <2> DEFINE q(s) == IF s = 0 THEN 24 ELSE 24 - s
  <2>3. \A s \in 1..23 : Place[WalkLane(s)] = 25 - s
    BY PathFacts DEF WalkLane
  <2>4. Place[WalkLane(0)] = 1
    BY DEF WalkLane, Place
  <2>5. u = 0 \/ u \in 1..23
    OBVIOUS
  <2>6. t = 0 \/ t \in 1..23
    OBVIOUS
  <2> QED BY <2>2, <2>3, <2>4, <2>5, <2>6
<1>5. (CHOOSE u \in 0..23 : Walk[u] = <<x, y>>) = t
  BY <1>3, <1>4
<1> QED BY <1>2, <1>5, Zenon DEF OffsetOf

(* Turns by offsets that differ by whole words are the same. *)
LEMMA TurnsAgree ==
  ASSUME NEW a \in SUBSET (0..63), NEW n \in Nat, NEW m \in Nat, n % 64 = m % 64
  PROVE  /\ RotateLeft(64, a, n) = RotateLeft(64, a, m)
         /\ RotateLeft(64, a, n) \in SUBSET (0..63)
<1>1. \A i \in 0..63 : (i + n) % 64 = (i + m) % 64 /\ (i + n) % 64 \in 0..63
  <2>1. n = 64 * (n \div 64) + (n % 64) /\ m = 64 * (m \div 64) + (m % 64)
    OBVIOUS
  <2> QED BY <2>1
<1> QED BY <1>1 DEF RotateLeft

(* What is rotated by nothing stays. *)
LEMMA TurnByZero ==
  ASSUME NEW a \in SUBSET (0..63)
  PROVE  RotateLeft(64, a, 0) = a
<1>1. \A i \in 0..63 : (i + 0) % 64 = i
  OBVIOUS
<1>2. ASSUME NEW i PROVE i \in {(j + 0) % 64 : j \in a} <=> i \in a
  <2>1. i \in {(j + 0) % 64 : j \in a} <=> \E j \in a : i = (j + 0) % 64
    OBVIOUS
  <2>2. \A j \in a : (j + 0) % 64 = j
    BY <1>1
  <2> QED BY <2>1, <2>2
<1> QED BY <1>2 DEF RotateLeft

(* The lanes after k moves: those that the path named before are the next  *)
(* ones on it, rotated.                                                    *)
LEMMA RhoPiIs ==
  ASSUME NEW th \in Lanes
  PROVE  /\ RhoPi(th) \in Lanes
         /\ RhoPi(th)[0] = th[0]
         /\ RhoPi(th)[10] = ROTL64(th[1], 1)
         /\ \A k \in 1..23 : RhoPi(th)[Path[k]] = ROTL64(th[Path[k + 1]], Offsets[k])
<1> DEFINE Gone(k, n) == n # 0 /\ Place[n] <= k
           new == [k \in 1..23 |-> ROTL64(th[Path[k + 1]], Offsets[k])]
           a == [k \in 0..23 |-> [n \in 0..24 |-> IF Gone(k, n) THEN new[Place[n]] ELSE th[n]]]
<1>1. \A k \in 1..24 : Path[k] \in 1..24 /\ Place[Path[k]] = k
  BY PathFacts
<1>2. \A n \in 1..24 : Place[n] \in 1..24 /\ Path[Place[n]] = n
  BY PathFacts
<1>3. ASSUME NEW s \in Lanes, NEW k \in 1..23 PROVE ROTL64(s[Path[k + 1]], Offsets[k]) \in SUBSET (0..63)
  <2> DEFINE lane == s[Path[k + 1]]
             n == Offsets[k]
  <2>1. lane \in SUBSET (0..63) /\ n \in Nat /\ n % 64 = n % 64
    <3>1. k + 1 \in 1..24
      OBVIOUS
    <3>2. Path[k + 1] \in 0..24
      BY <1>1, <3>1
    <3>3. lane \in SUBSET (0..63)
      BY <3>2, Zenon DEF Lanes
    <3>4. n \in 0..63
      BY PathFacts
    <3> HIDE DEF lane, n
    <3> QED BY <3>3, <3>4
  <2> HIDE DEF lane, n
  <2>2. RotateLeft(64, lane, n) \in SUBSET (0..63)
    BY <2>1, TurnsAgree
  <2> QED BY <2>2 DEF ROTL64, lane, n
<1>4. new \in [1..23 -> SUBSET (0..63)] /\ \A k \in 1..23 : new[k] = ROTL64(th[Path[k + 1]], Offsets[k])
  BY <1>3
<1> HIDE DEF new
<1>5. a \in [0..23 -> Lanes]
  <2>1. ASSUME NEW k \in 0..23, NEW n \in 0..24, Gone(k, n) PROVE Place[n] \in 1..23
    BY <1>2, <2>1
  <2> HIDE DEF Gone
  <2> QED BY <1>4, <2>1 DEF Lanes
<1>6. ASSUME NEW x \in Lanes, NEW k \in 1..23 PROVE Move(x, k) \in Lanes
  <2> DEFINE r == ROTL64(x[Path[k + 1]], Offsets[k])
             p == Path[k]
  <2>1. r \in SUBSET (0..63)
    BY <1>3
  <2>2. p \in 0..24
    BY <1>1
  <2>3. Move(x, k) = [x EXCEPT ![p] = r]
    BY DEF Move
  <2> HIDE DEF r, p
  <2> QED BY <2>1, <2>2, <2>3 DEF Lanes
<1>7. ASSUME NEW k \in 1..23 PROVE a[k] = Move(a[k - 1], k)
  <2> DEFINE y == a[k - 1]
             p == Path[k]
             q == Path[k + 1]
  <2>1. k - 1 \in 0..23 /\ k \in 0..23 /\ p \in 1..24 /\ q \in 1..24 /\ Place[p] = k /\ Place[q] = k + 1
    BY <1>1
  <2>2. y \in Lanes /\ a[k] \in Lanes
    <3> HIDE DEF a
    <3> QED BY <1>5, <2>1
  <2>3. \A n \in 0..24 : /\ y[n] = IF Gone(k - 1, n) THEN new[Place[n]] ELSE th[n]
                         /\ a[k][n] = IF Gone(k, n) THEN new[Place[n]] ELSE th[n]
    <3> HIDE DEF Gone
    <3> QED BY <2>1
  <2> HIDE DEF a, y, p, q
  <2>4. y[q] = th[q] /\ a[k][p] = new[k]
    <3>1. ~Gone(k - 1, q) /\ Gone(k, p)
      BY <2>1
    <3> QED BY <2>1, <2>3, <3>1
  <2>5. new[k] = ROTL64(y[q], Offsets[k])
    BY <1>4, <2>4 DEF q
  <2>6. \A n \in 0..24 : n # p => a[k][n] = y[n]
    <3> TAKE n \in 0..24
    <3> HAVE n # p
    <3>1. n # 0 => Place[n] # k /\ Place[n] \in Nat
      BY <1>2 DEF p
    <3>2. Gone(k, n) <=> Gone(k - 1, n)
      BY <3>1
    <3> HIDE DEF Gone
    <3> QED BY <2>3, <3>2
  <2>7. Move(y, k) = [y EXCEPT ![p] = ROTL64(y[q], Offsets[k])]
    BY DEF Move, p, q
  <2>8. a[k] = [y EXCEPT ![p] = ROTL64(y[q], Offsets[k])]
    BY <2>1, <2>2, <2>4, <2>5, <2>6 DEF Lanes
  <2> QED BY <2>7, <2>8 DEF y
<1>8. a[0] = th
  <2>1. \A n \in 0..24 : ~Gone(0, n)
    BY <1>2
  <2>2. th = [n \in 0..24 |-> th[n]]
    BY DEF Lanes
  <2> HIDE DEF Gone
  <2> QED BY <2>1, <2>2
<1>9. \A k \in 1..23 : a[23][Path[k]] = new[k]
  <2> TAKE k \in 1..23
  <2>1. Path[k] \in 0..24 /\ Gone(23, Path[k]) /\ Place[Path[k]] = k
    BY <1>1
  <2> HIDE DEF Gone
  <2> QED BY <2>1
<1>10. a[23][0] = th[0]
  OBVIOUS
<1>11. a[23] \in Lanes
  <2> HIDE DEF a
  <2> QED BY <1>5
<1>12. Moved(th) = a[23]
  <2> HIDE DEF a
  <2>1. MoveFoldSteps(Lanes, a)
    BY <1>5, <1>6, <1>7 DEF MoveFoldSteps
  <2>2. Moved(a[0]) = a[23]
    BY ONLY <2>1, MoveFold
  <2> QED BY <1>8, <2>2
<1> DEFINE r == ROTL64(th[1], 1)
           w == a[23]
<1>13. r \in SUBSET (0..63)
  <2> DEFINE one == 1
             lane == th[1]
  <2>1. lane \in SUBSET (0..63) /\ one \in Nat /\ one % 64 = one % 64
    BY DEF Lanes
  <2> HIDE DEF one, lane
  <2>2. RotateLeft(64, lane, one) \in SUBSET (0..63)
    BY <2>1, TurnsAgree
  <2> QED BY <2>2 DEF ROTL64, one, lane
<1>14. \A k \in 1..23 : Path[k] # 10 /\ Path[k] \in 0..24
  <2>1. Path[24] = 10
    BY PathFacts
  <2> QED BY <1>1, <2>1
<1> HIDE DEF w, r, a
<1>15. RhoPi(th) = [w EXCEPT ![10] = r]
  BY <1>12 DEF RhoPi, r, w
<1>16. w \in Lanes /\ w[0] = th[0] /\ \A k \in 1..23 : w[Path[k]] = new[k]
  BY <1>9, <1>10, <1>11 DEF w
<1>17. /\ [w EXCEPT ![10] = r] \in Lanes
       /\ [w EXCEPT ![10] = r][0] = th[0]
       /\ [w EXCEPT ![10] = r][10] = r
       /\ \A k \in 1..23 : [w EXCEPT ![10] = r][Path[k]] = new[k]
  BY <1>13, <1>14, <1>16 DEF Lanes
<1> QED BY <1>4, <1>15, <1>17 DEF r

(* Rho and pi of the definition, on the lanes that theta made. *)
PiOf(th) ==
  [n \in 0..24 |-> LET y == n % 5
                       x == (3 * (n \div 5 + 2 * y)) % 5
                   IN  RotateLeft(64, th[x + 5 * y], OffsetOf(x, y))]

(* The moves along the path are rho and pi. *)
LEMMA PathIsPi ==
  ASSUME NEW th \in Lanes
  PROVE  RhoPi(th) = PiOf(th)
<1>1. ASSUME NEW n \in 0..24 PROVE RhoPi(th)[n] = PiOf(th)[n]
  <2> DEFINE y == n % 5
             x == (3 * (n \div 5 + 2 * y)) % 5
             lane == th[x + 5 * y]
  <2>1. x \in 0..4 /\ y \in 0..4 /\ x + 5 * y \in 0..24
    OBVIOUS
  <2>2. lane \in SUBSET (0..63)
    <3> HIDE DEF x, y
    <3> QED BY <2>1 DEF Lanes
  <2>3. PiOf(th)[n] = RotateLeft(64, lane, OffsetOf(x, y))
    BY DEF PiOf
  <2>4. CASE n = 0
    <3>1. x = 0 /\ y = 0 /\ x + 5 * y = 0
      BY <2>4
    <3>2. OffsetOf(x, y) = 0
      BY <3>1 DEF OffsetOf
    <3>3. RotateLeft(64, lane, OffsetOf(x, y)) = lane
      <4> HIDE DEF x, y, lane
      <4> QED BY <2>2, <3>2, TurnByZero
    <3>4. lane = RhoPi(th)[0]
      <4> HIDE DEF x, y
      <4> QED BY <3>1, RhoPiIs
    <3> HIDE DEF x, y, lane
    <3> QED BY <2>3, <2>4, <3>3, <3>4
  <2>5. CASE n \in 1..24
    <3> DEFINE k == Place[n]
               t == 24 - k
               m == ((t + 1) * (t + 2)) \div 2
    <3>1. k \in 1..24 /\ Path[k] = n /\ t \in 0..23
      <4>1. k \in 1..24 /\ Path[k] = n
        BY <2>5, PathFacts
      <4> QED BY ONLY <4>1
    <3>2. x + 5 * y = WalkLane(t)
      BY <2>5, PathFacts
    <3>3. OffsetOf(x, y) = m
      <4> HIDE DEF x, y, k, t
      <4> QED BY <2>1, <3>1, <3>2, OffsetIs
    <3>4. m \in Nat
      <4>1. (t + 1) * (t + 2) \in Nat
        <5>1. t + 1 \in Nat /\ t + 2 \in Nat
          BY <3>1
        <5>2. \A p, q \in Nat : p * q \in Nat
          OBVIOUS
        <5> HIDE DEF t
        <5> QED BY <5>1, <5>2
      <4> HIDE DEF t
      <4> QED BY <4>1
    <3> HIDE DEF x, y, lane
    <3>5. CASE k \in 1..23
      <4> DEFINE d == Offsets[k]
      <4>1. WalkLane(t) = Path[k + 1]
        <5>1. t # 0 /\ 25 - t = k + 1
          BY <3>5
        <5> HIDE DEF t
        <5> QED BY <5>1 DEF WalkLane
      <4>2. d \in 0..63 /\ m % 64 = d % 64
        <5>1. t + 1 = 25 - k /\ t + 2 = 26 - k
          BY <3>5
        <5>2. m = ((25 - k) * (26 - k)) \div 2
          <6> HIDE DEF t
          <6> QED BY <5>1
        <5>3. d \in 0..63 /\ (((25 - k) * (26 - k)) \div 2) % 64 = d
          BY <3>5, PathFacts
        <5>4. d % 64 = d
          BY <5>3
        <5> HIDE DEF m, d, k
        <5> QED BY <5>2, <5>3, <5>4
      <4> HIDE DEF d, m
      <4>3. RotateLeft(64, lane, m) = RotateLeft(64, lane, d)
        <5>1. d \in Nat
          BY <4>2
        <5> QED BY <2>2, <3>4, <4>2, <5>1, TurnsAgree
      <4>4. RhoPi(th)[n] = ROTL64(lane, d)
        <5>1. RhoPi(th)[Path[k]] = ROTL64(th[Path[k + 1]], Offsets[k])
          BY <3>5, RhoPiIs
        <5> QED BY <3>1, <3>2, <4>1, <5>1 DEF lane, d
      <4> QED BY <2>3, <3>3, <4>3, <4>4 DEF ROTL64
    <3>6. CASE k = 24
      <4>1. n = 10 /\ t = 0
        BY <3>1, <3>6, PathFacts
      <4>2. m = 1 /\ WalkLane(t) = 1
        <5>1. (0 + 1) * (0 + 2) = 2 /\ 2 \div 2 = 1
          OBVIOUS
        <5> QED BY <4>1, <5>1 DEF WalkLane
      <4>3. RhoPi(th)[n] = ROTL64(lane, 1)
        BY <3>2, <4>1, <4>2, RhoPiIs DEF lane
      <4> QED BY <2>3, <3>3, <4>2, <4>3 DEF ROTL64
    <3> QED BY <3>1, <3>5, <3>6
  <2> QED BY <2>4, <2>5
<1>2. RhoPi(th) \in Lanes
  BY RhoPiIs
<1>3. RhoPi(th) = [n \in 0..24 |-> RhoPi(th)[n]] /\ PiOf(th) = [n \in 0..24 |-> PiOf(th)[n]]
  BY <1>2 DEF Lanes, PiOf
<1> QED BY <1>1, <1>3

(* Lanes stay lanes. *)
LEMMA LaneTypes ==
  ASSUME NEW a \in SUBSET (0..63), NEW b \in SUBSET (0..63)
  PROVE  /\ XorBits(a, b) \in SUBSET (0..63)
         /\ \A c : XorBits(a, b \ c) \in SUBSET (0..63)
BY DEF XorBits

(* Theta as the definition has it. *)
ThetaOf(A) ==
  LET C(x) == XorAll([y \in 1..5 |-> A[x + 5 * (y - 1)]])
      D    == [x \in 0..4 |-> XorBits(C((x + 4) % 5), RotateLeft(64, C((x + 1) % 5), 1))]
  IN  [n \in 0..24 |-> XorBits(A[n], D[n % 5])]

(* Theta with the parities of the columns in five words is theta of FIPS   *)
(* 202.                                                                    *)
LEMMA ThetaIs ==
  ASSUME NEW A \in Lanes
  PROVE  Theta(A) = ThetaOf(A) /\ Theta(A) \in Lanes
<1> DEFINE C(x) == XorAll([y \in 1..5 |-> A[x + 5 * (y - 1)]])
           D(x) == XorBits(C((x + 4) % 5), ROTL64(C((x + 1) % 5), 1))
           d == [x \in 0..4 |-> D(x)]
           bc == [x \in 0..4 |-> C(x)]
<1>1. \A x \in 0..4 : C(x) \in SUBSET (0..63)
  <2> TAKE x \in 0..4
  <2> DEFINE s == [y \in 1..5 |-> A[x + 5 * (y - 1)]]
  <2>1. \A y \in 1..5 : s[y] \in SUBSET (0..63)
    BY DEF Lanes
  <2>2. IsSequence(s, 5) /\ 5 \in Nat
    BY DEF IsSequence
  <2> HIDE DEF s
  <2>3. s \o <<>> = s /\ DOMAIN s = 1..5
    BY <2>2, Whole
  <2>4. UNION Range(s) \in SUBSET (0..63)
    BY <2>1, <2>3 DEF Range
  <2>5. XorAll(s) \subseteq UNION Range(s)
    BY <2>3 DEF XorAll
  <2> QED BY <2>4, <2>5 DEF s
<1>2. \A x \in 0..4 : (x + 4) % 5 \in 0..4 /\ (x + 1) % 5 \in 0..4
  OBVIOUS
<1> HIDE DEF C
<1>3. \A x \in 0..4 : D(x) \in SUBSET (0..63)
  <2> TAKE x \in 0..4
  <2> DEFINE a == C((x + 4) % 5)
             b == C((x + 1) % 5)
             one == 1
             r == ROTL64(b, one)
  <2>1. a \in SUBSET (0..63) /\ b \in SUBSET (0..63) /\ one \in Nat /\ one % 64 = one % 64
    BY <1>1, <1>2
  <2> HIDE DEF a, b, one
  <2>2. r \in SUBSET (0..63)
    BY <2>1, TurnsAgree DEF ROTL64
  <2> HIDE DEF r
  <2>3. XorBits(a, r) \in SUBSET (0..63)
    BY <2>1, <2>2, LaneTypes
  <2> QED BY <2>3 DEF a, r, b, one
<1>4. \A x \in 0..4 : XorBits(bc[(x + 4) % 5], ROTL64(bc[(x + 1) % 5], 1)) = D(x)
  BY <1>2
<1>5. \A n \in 0..24 : n % 5 \in 0..4
  OBVIOUS
<1>6. Theta(A) = [n \in 0..24 |-> XorBits(A[n], XorBits(bc[((n % 5) + 4) % 5], ROTL64(bc[((n % 5) + 1) % 5], 1)))]
  BY DEF Theta, C
<1>7. ThetaOf(A) = [n \in 0..24 |-> XorBits(A[n], d[n % 5])]
  BY DEF ThetaOf, C, ROTL64
<1> HIDE DEF bc, D
<1>8. \A x \in 0..4 : d[x] = D(x)
  OBVIOUS
<1> HIDE DEF d
<1>9. \A n \in 0..24 : XorBits(bc[((n % 5) + 4) % 5], ROTL64(bc[((n % 5) + 1) % 5], 1)) = d[n % 5]
  BY <1>4, <1>5, <1>8
<1>10. Theta(A) = ThetaOf(A)
  BY <1>6, <1>7, <1>9
<1>11. \A n \in 0..24 : XorBits(A[n], d[n % 5]) \in SUBSET (0..63)
  <2> TAKE n \in 0..24
  <2> DEFINE a == A[n]
             b == d[n % 5]
  <2>1. a \in SUBSET (0..63) /\ b \in SUBSET (0..63)
    BY <1>3, <1>5, <1>8 DEF Lanes
  <2> HIDE DEF a, b
  <2>2. XorBits(a, b) \in SUBSET (0..63)
    BY <2>1, LaneTypes
  <2> QED BY <2>2 DEF a, b
<1> QED BY <1>7, <1>10, <1>11 DEF Lanes

(* Lane n after chi. *)
ChiLane(st, n) ==
  XorBits(st[n], st[(((n % 5) + 2) % 5) + 5 * (n \div 5)] \ st[(((n % 5) + 1) % 5) + 5 * (n \div 5)])

(* A row in place, for which the first two lanes are saved. *)
LEMMA ChiRowIs ==
  ASSUME NEW st \in Lanes, NEW y \in 0..4
  PROVE  /\ ChiRow(st, 5 * y) \in Lanes
         /\ \A n \in 0..24 : ChiRow(st, 5 * y)[n] = IF n \div 5 = y THEN ChiLane(st, n) ELSE st[n]
<1> DEFINE j == 5 * y
           Lane(i) == ChiLane(st, j + i)
           s1 == [st EXCEPT ![j] = XorBits(@, st[j + 2] \ st[j + 1])]
           s2 == [s1 EXCEPT ![j + 1] = XorBits(@, s1[j + 3] \ s1[j + 2])]
           s3 == [s2 EXCEPT ![j + 2] = XorBits(@, s2[j + 4] \ s2[j + 3])]
           s4 == [s3 EXCEPT ![j + 3] = XorBits(@, st[j] \ s3[j + 4])]
           s5 == [s4 EXCEPT ![j + 4] = XorBits(@, st[j + 1] \ st[j])]
           Good(s, k) == /\ s \in Lanes
                         /\ \A n \in 0..24 : s[n] = IF n >= j /\ n < j + k THEN Lane(n - j) ELSE st[n]
<1>1. ChiRow(st, j) = s5
  BY DEF ChiRow
<1>2. j \in Nat /\ j <= 20 /\ \A i \in 0..4 : /\ j + i \in 0..24
                                              /\ (j + i) % 5 = i
                                              /\ (j + i) \div 5 = y
  OBVIOUS
<1>3. /\ Lane(0) = XorBits(st[j], st[j + 2] \ st[j + 1])
      /\ Lane(1) = XorBits(st[j + 1], st[j + 3] \ st[j + 2])
      /\ Lane(2) = XorBits(st[j + 2], st[j + 4] \ st[j + 3])
      /\ Lane(3) = XorBits(st[j + 3], st[j] \ st[j + 4])
      /\ Lane(4) = XorBits(st[j + 4], st[j + 1] \ st[j])
  <2>1. /\ (0 + 2) % 5 = 2 /\ (0 + 1) % 5 = 1 /\ (1 + 2) % 5 = 3 /\ (1 + 1) % 5 = 2 /\ (2 + 2) % 5 = 4
        /\ (2 + 1) % 5 = 3 /\ (3 + 2) % 5 = 0 /\ (3 + 1) % 5 = 4 /\ (4 + 2) % 5 = 1 /\ (4 + 1) % 5 = 0
    OBVIOUS
  <2>2. j + 0 = j /\ 0 + 5 * y = j /\ 1 + 5 * y = j + 1 /\ 2 + 5 * y = j + 2 /\ 3 + 5 * y = j + 3 /\ 4 + 5 * y = j + 4
    OBVIOUS
  <2>3. \A i \in 0..4 : Lane(i) = XorBits(st[j + i], st[((i + 2) % 5) + 5 * y] \ st[((i + 1) % 5) + 5 * y])
    <3> HIDE DEF j
    <3> QED BY <1>2 DEF ChiLane
  <2> HIDE DEF Lane, j
  <2>4. Lane(0) = XorBits(st[j + 0], st[2 + 5 * y] \ st[1 + 5 * y])
    BY <2>1, <2>3
  <2>5. Lane(1) = XorBits(st[j + 1], st[3 + 5 * y] \ st[2 + 5 * y])
    BY <2>1, <2>3
  <2>6. Lane(2) = XorBits(st[j + 2], st[4 + 5 * y] \ st[3 + 5 * y])
    BY <2>1, <2>3
  <2>7. Lane(3) = XorBits(st[j + 3], st[0 + 5 * y] \ st[4 + 5 * y])
    BY <2>1, <2>3
  <2>8. Lane(4) = XorBits(st[j + 4], st[1 + 5 * y] \ st[0 + 5 * y])
    BY <2>1, <2>3
  <2> QED BY <2>2, <2>4, <2>5, <2>6, <2>7, <2>8
<1>4. \A i \in 0..4 : Lane(i) \in SUBSET (0..63)
  <2> TAKE i \in 0..4
  <2> DEFINE a == st[j + i]
             b == st[((((j + i) % 5) + 2) % 5) + 5 * ((j + i) \div 5)]
             c == st[((((j + i) % 5) + 1) % 5) + 5 * ((j + i) \div 5)]
  <2>1. a \in SUBSET (0..63) /\ b \in SUBSET (0..63)
    BY <1>2 DEF Lanes
  <2>2. Lane(i) = XorBits(a, b \ c)
    BY DEF ChiLane
  <2> HIDE DEF a, b, c, Lane
  <2> QED BY <2>1, <2>2, LaneTypes
<1> HIDE DEF Lane, j
<1>5. Good(st, 0)
  BY <1>2
<1>6. Good(s1, 1)
  BY <1>2, <1>3, <1>4 DEF Lanes
<1> HIDE DEF s1
<1>7. Good(s2, 2)
  <2>1. s1[j + 1] = st[j + 1] /\ s1[j + 2] = st[j + 2] /\ s1[j + 3] = st[j + 3]
    BY <1>2, <1>6
  <2>2. s2 = [s1 EXCEPT ![j + 1] = Lane(1)]
    BY <1>2, <1>3, <1>6, <2>1 DEF Lanes
  <2> HIDE DEF s2
  <2> QED BY <1>2, <1>4, <1>6, <2>2 DEF Lanes
<1> HIDE DEF s2
<1>8. Good(s3, 3)
  <2>1. s2[j + 2] = st[j + 2] /\ s2[j + 3] = st[j + 3] /\ s2[j + 4] = st[j + 4]
    BY <1>2, <1>7
  <2>2. s3 = [s2 EXCEPT ![j + 2] = Lane(2)]
    BY <1>2, <1>3, <1>7, <2>1 DEF Lanes
  <2> HIDE DEF s3
  <2> QED BY <1>2, <1>4, <1>7, <2>2 DEF Lanes
<1> HIDE DEF s3
<1>9. Good(s4, 4)
  <2>1. s3[j + 3] = st[j + 3] /\ s3[j + 4] = st[j + 4]
    BY <1>2, <1>8
  <2>2. s4 = [s3 EXCEPT ![j + 3] = Lane(3)]
    BY <1>2, <1>3, <1>8, <2>1 DEF Lanes
  <2> HIDE DEF s4
  <2> QED BY <1>2, <1>4, <1>8, <2>2 DEF Lanes
<1> HIDE DEF s4
<1>10. Good(s5, 5)
  <2>1. s4[j + 4] = st[j + 4]
    BY <1>2, <1>9
  <2>2. s5 = [s4 EXCEPT ![j + 4] = Lane(4)]
    BY <1>2, <1>3, <1>9, <2>1 DEF Lanes
  <2> HIDE DEF s5
  <2> QED BY <1>2, <1>4, <1>9, <2>2 DEF Lanes
<1>11. \A n \in 0..24 : n \div 5 = y <=> n >= j /\ n < j + 5
  BY DEF j
<1>12. \A n \in 0..24 : n >= j => j + (n - j) = n
  BY <1>2
<1> HIDE DEF s5
<1>13. \A n \in 0..24 : s5[n] = IF n \div 5 = y THEN ChiLane(st, n) ELSE st[n]
  BY <1>10, <1>11, <1>12 DEF Lane
<1> QED BY <1>1, <1>10, <1>13 DEF j

(* The five rows. *)
LEMMA ChiIs ==
  ASSUME NEW st \in Lanes
  PROVE  Chi(st) = [n \in 0..24 |-> ChiLane(st, n)] /\ Chi(st) \in Lanes
<1> DEFINE a == [k \in 0..5 |-> [n \in 0..24 |-> IF n \div 5 < k THEN ChiLane(st, n) ELSE st[n]]]
<1>1. \A n \in 0..24 : ChiLane(st, n) \in SUBSET (0..63)
  <2> TAKE n \in 0..24
  <2> DEFINE x == st[n]
             b == st[(((n % 5) + 2) % 5) + 5 * (n \div 5)]
             c == st[(((n % 5) + 1) % 5) + 5 * (n \div 5)]
  <2>1. x \in SUBSET (0..63) /\ b \in SUBSET (0..63)
    BY DEF Lanes
  <2>2. ChiLane(st, n) = XorBits(x, b \ c)
    BY DEF ChiLane
  <2> HIDE DEF x, b, c
  <2>3. XorBits(x, b \ c) \in SUBSET (0..63)
    BY ONLY <2>1, ZenonT(30) DEF XorBits
  <2> QED BY ONLY <2>2, <2>3
<1>2. a \in [0..5 -> Lanes]
  BY <1>1 DEF Lanes
<1>3. ASSUME NEW x \in Lanes, NEW k \in 1..5 PROVE ChiRow(x, 5 * (k - 1)) \in Lanes
  <2> DEFINE y == k - 1
  <2>1. y \in 0..4
    OBVIOUS
  <2> HIDE DEF y
  <2>2. ChiRow(x, 5 * y) \in Lanes
    BY <2>1, ChiRowIs
  <2> QED BY <2>2 DEF y
<1>4. ASSUME NEW k \in 1..5 PROVE a[k] = ChiRow(a[k - 1], 5 * (k - 1))
  <2> DEFINE y == k - 1
             s == a[y]
  <2>1. y \in 0..4 /\ y \in 0..5 /\ k = y + 1 /\ \A n \in 0..24 : n \div 5 \in Int
    OBVIOUS
  <2>2. s \in Lanes /\ a[k] \in Lanes
    <3> HIDE DEF a, y
    <3> QED BY <1>2, <2>1
  <2>3. \A n \in 0..24 : /\ s[n] = IF n \div 5 < y THEN ChiLane(st, n) ELSE st[n]
                         /\ a[k][n] = IF n \div 5 < k THEN ChiLane(st, n) ELSE st[n]
    <3> HIDE DEF y
    <3> QED BY <2>1
  <2> HIDE DEF a, s, y
  <2>4. \A n \in 0..24 : n \div 5 = y => ChiLane(s, n) = ChiLane(st, n)
    <3> TAKE n \in 0..24
    <3> HAVE n \div 5 = y
    <3> DEFINE p == (((n % 5) + 2) % 5) + 5 * (n \div 5)
               q == (((n % 5) + 1) % 5) + 5 * (n \div 5)
    <3>1. p \in 0..24 /\ q \in 0..24 /\ p \div 5 = y /\ q \div 5 = y
      OBVIOUS
    <3>2. ~(y < y)
      BY <2>1
    <3> HIDE DEF p, q
    <3>3. s[p] = st[p] /\ s[q] = st[q] /\ s[n] = st[n]
      BY <2>3, <3>1, <3>2
    <3> QED BY <3>3 DEF ChiLane, p, q
  <2>5. /\ ChiRow(s, 5 * y) \in Lanes
        /\ \A n \in 0..24 : ChiRow(s, 5 * y)[n] = IF n \div 5 = y THEN ChiLane(s, n) ELSE s[n]
    BY <2>1, <2>2, ChiRowIs
  <2>6. \A n \in 0..24 : a[k][n] = ChiRow(s, 5 * y)[n]
    <3> TAKE n \in 0..24
    <3>1. n \div 5 < k <=> n \div 5 < y \/ n \div 5 = y
      BY <2>1
    <3>2. n \div 5 = y => ~(n \div 5 < y)
      BY <2>1
    <3> QED BY <2>3, <2>4, <2>5, <3>1, <3>2
  <2>7. a[k] = ChiRow(s, 5 * y)
    BY <2>2, <2>5, <2>6 DEF Lanes
  <2> QED BY <2>7 DEF s, y
<1>5. a[0] = st /\ a[5] = [n \in 0..24 |-> ChiLane(st, n)]
  <2>1. \A n \in 0..24 : ~(n \div 5 < 0) /\ n \div 5 < 5
    OBVIOUS
  <2>2. st = [n \in 0..24 |-> st[n]]
    BY DEF Lanes
  <2> QED BY <2>1, <2>2
<1>6. a[5] \in Lanes
  <2> HIDE DEF a
  <2> QED BY <1>2
<1> HIDE DEF a
<1>7. ChiFoldSteps(Lanes, a)
  BY <1>2, <1>3, <1>4 DEF ChiFoldSteps
<1>8. Chi(a[0]) = a[5]
  BY ONLY <1>7, ChiFold
<1> QED BY <1>5, <1>6, <1>8

(* A round of the code is a round of FIPS 202. *)
LEMMA KeccakRoundIs ==
  ASSUME NEW A \in Lanes, NEW r \in 0..23
  PROVE  KeccakRound(A, r) = FipsRound(A, r) /\ KeccakRound(A, r) \in Lanes
<1> DEFINE th == Theta(A)
           B == PiOf(th)
           E == [n \in 0..24 |-> ChiLane(B, n)]
<1>1. th = ThetaOf(A) /\ th \in Lanes
  BY ThetaIs
<1>2. RhoPi(th) = B /\ B \in Lanes
  <2> HIDE DEF th
  <2> QED BY <1>1, PathIsPi, RhoPiIs
<1>3. Chi(B) = E /\ E \in Lanes
  <2> HIDE DEF B
  <2> QED BY <1>2, ChiIs
<1>4. keccakf_rndc[r + 1] = RC(r)
  BY RoundConstants DEF KECCAK_ROUNDS
<1>5. RC(r) \in SUBSET (0..63)
  <2>1. ASSUME NEW j \in 0..6 PROVE 2^j - 1 \in 0..63
    <3>1. j = 0 \/ j = 1 \/ j = 2 \/ j = 3 \/ j = 4 \/ j = 5 \/ j = 6
      OBVIOUS
    <3>2. 2^0 = 1 /\ 2^1 = 2 /\ 2^2 = 4 /\ 2^3 = 8 /\ 2^4 = 16 /\ 2^5 = 32 /\ 2^6 = 64
      OBVIOUS
    <3>3. 2^j \in {1, 2, 4, 8, 16, 32, 64}
      BY <3>1, <3>2, Zenon
    <3> QED BY <3>3
  <2> QED BY <2>1 DEF RC
<1>6. KeccakRound(A, r) = [E EXCEPT ![0] = XorBits(E[0], RC(r))]
  <2> HIDE DEF th, B, E
  <2> QED BY <1>2, <1>3, <1>4 DEF KeccakRound, Iota, th, Lanes
<1>7. KeccakRound(A, r) \in Lanes
  <2> DEFINE x == E[0]
             c == RC(r)
  <2>1. x \in SUBSET (0..63) /\ c \in SUBSET (0..63)
    <3> HIDE DEF E
    <3> QED BY <1>3, <1>5 DEF Lanes
  <2>2. XorBits(x, c) \in SUBSET (0..63)
    <3> HIDE DEF x, c
    <3> QED BY <2>1, LaneTypes
  <2> HIDE DEF E
  <2> QED BY <1>3, <1>6, <2>2 DEF Lanes
<1>8. FipsRound(A, r) = [E EXCEPT ![0] = XorBits(E[0], RC(r))]
  <2> DEFINE C(x) == XorAll([y \in 1..5 |-> A[x + 5 * (y - 1)]])
             D == [x \in 0..4 |-> XorBits(C((x + 4) % 5), RotateLeft(64, C((x + 1) % 5), 1))]
             BB == [n \in 0..24 |-> LET y == n % 5
                                        x == (3 * (n \div 5 + 2 * y)) % 5
                                    IN  RotateLeft(64, XorBits(A[x + 5 * y], D[x]), OffsetOf(x, y))]
             Row(x, y) == BB[(x % 5) + 5 * y]
             EE == [n \in 0..24 |-> LET x == n % 5  y == n \div 5
                                    IN  XorBits(Row(x, y), Row(x + 2, y) \ Row(x + 1, y))]
  <2>1. FipsRound(A, r) = [EE EXCEPT ![0] = XorBits(@, RC(r))]
    BY Zenon DEF FipsRound
  <2>2. \A n \in 0..24 : th[n] = XorBits(A[n], D[n % 5])
    <3> HIDE DEF th
    <3> QED BY <1>1 DEF ThetaOf
  <2> HIDE DEF th, D
  <2>3. BB = B
    <3>1. \A n \in 0..24 : LET y == n % 5
                               x == (3 * (n \div 5 + 2 * y)) % 5
                           IN  x + 5 * y \in 0..24 /\ (x + 5 * y) % 5 = x
      OBVIOUS
    <3> QED BY <2>2, <3>1 DEF PiOf
  <2> HIDE DEF BB, B
  <2>4. EE = E
    <3>1. \A n \in 0..24 : ((n % 5) % 5) + 5 * (n \div 5) = n
      OBVIOUS
    <3> QED BY <2>3, <3>1 DEF ChiLane
  <2> HIDE DEF EE, E
  <2>5. [E EXCEPT ![0] = XorBits(@, RC(r))] = [E EXCEPT ![0] = XorBits(E[0], RC(r))]
    BY <1>3 DEF Lanes
  <2> QED BY <2>1, <2>4, <2>5
<1> QED BY <1>6, <1>7, <1>8

(* Of a call of Keccak code and definition have the same lanes. *)
KeccakInv ==
  call.function = "keccak" => /\ round \in Nat
                              /\ code = ideal
                              /\ ideal \in Lanes

(* Before the first round a call of Keccak has the lanes of the            *)
(* definition.                                                             *)
LEMMA KeccakInitially ==
  CallInit => KeccakInv
<1> SUFFICES ASSUME CallInit, call.function = "keccak" PROVE KeccakInv
  BY DEF KeccakInv
<1>1. code = Data(call, 64, 0, 25) /\ ideal = code /\ round = 0
  BY DEF CallInit, Begun, BegunIdeal
<1>2. Data(call, 64, 0, 25) \in Lanes
  BY DatumIsWord DEF Data, Lanes
<1> QED BY <1>1, <1>2 DEF KeccakInv

(* A round of Keccak keeps them the same.                                  *)
LEMMA KeccakNext ==
  ASSUME KeccakInv, [CallNext]_callVars
  PROVE  KeccakInv'
<1>1. CASE UNCHANGED callVars
  BY <1>1 DEF callVars, KeccakInv
<1>2. CASE CallNext /\ call.function # "keccak"
  BY <1>2 DEF CallNext, KeccakInv
<1>3. CASE CallNext /\ call.function = "keccak"
  <2>1. call' = call /\ round' = round + 1 /\ round \in Nat /\ code = ideal /\ ideal \in Lanes
    BY <1>3 DEF CallNext, KeccakInv
  <2>2. KeccakRounds
    BY <1>3 DEF CallNext, SkeinRounds, SkeinEnd, AesRounds, BlakeRounds, BlakeEnd, GroestlRounds, GroestlEnd, JhRounds, JhEnd
  <2>3. code' = KeccakRound(ideal, round) /\ ideal' = FipsRound(ideal, round) /\ round \in 0..23
    BY <2>1, <2>2 DEF KeccakRounds, KECCAK_ROUNDS
  <2>4. KeccakRound(ideal, round) = FipsRound(ideal, round) /\ KeccakRound(ideal, round) \in Lanes
    BY <2>1, <2>3, KeccakRoundIs
  <2> QED BY <2>1, <2>3, <2>4 DEF KeccakInv
<1> QED BY <1>1, <1>2, <1>3

(* The permutation of Keccak is as it is defined, whatever its lanes       *)
(* (c_keccak.c:29-137).                                                    *)
THEOREM KeccakHolds ==
  CallSpec => []KeccakAsDefined
<1>1. KeccakInv => KeccakAsDefined
  BY DEF KeccakInv, KeccakAsDefined, Of
<1> QED BY <1>1, KeccakInitially, KeccakNext, PTL DEF CallSpec

-----------------------------------------------------------------------------
(* Bytes, and the AES and Groestl made of them. *)

Byte == SUBSET (0..7)

(* The exclusive or of bytes is a byte. *)
LEMMA XorBytes ==
  ASSUME NEW n \in Nat, NEW s, IsSequence(s, n), \A k \in 1..n : s[k] \in Byte
  PROVE  XorAll(s) \in Byte
<1>1. s \o <<>> = s /\ DOMAIN s = 1..n
  BY Whole
<1>2. \A k \in 1..n : \A i \in s[k] : i \in 0..7
  BY DEF Byte
<1>3. UNION Range(s) \subseteq 0..7
  BY <1>1, <1>2 DEF Range
<1>4. XorAll(s) \subseteq UNION Range(s)
  BY <1>1 DEF XorAll
<1> QED BY <1>3, <1>4 DEF Byte

(* The table of the substitution holds it. *)
LEMMA SubBytesIs ==
  ASSUME NEW b \in Byte
  PROVE  /\ SubBytes[Number(b) + 1] = SubByte(b) /\ saes_sbox(b) = SubByte(b) /\ SubByte(b) \in Byte
         /\ Number(b) \in 0..255 /\ Number(b) + 1 \in 1..256 /\ Number(b) + 1 - 1 = Number(b)
         /\ Bits(Number(b)) = b
<1> DEFINE s == [n \in 1..256 |-> SubByte(Bits(n - 1))]
           n == Number(b) + 1
<1>1. /\ Number(b) \in 0..255 /\ Bits(Number(b)) = b
      /\ saes_sbox(b) = SubByte(b) /\ saes_sbox(b) \in Byte
  BY FieldTables DEF Byte
<1>2. n \in 1..256 /\ n - 1 = Number(b)
  BY <1>1
<1>3. s[n] = SubByte(Bits(n - 1))
  <2> HIDE DEF n
  <2> QED BY <1>2
<1>4. s \o <<>> = s
  <2>1. IsSequence(s, 256) /\ 256 \in Nat
    BY DEF IsSequence
  <2> HIDE DEF s
  <2> QED BY <2>1, Whole
<1>5. SubBytes = s
  BY <1>4 DEF SubBytes
<1> HIDE DEF s, n
<1>6. SubBytes[n] = SubByte(b)
  BY <1>1, <1>2, <1>3, <1>5
<1> QED BY <1>1, <1>2, <1>6 DEF n

(* A table of 256 entries, by the number of a byte. *)
LEMMA LookedUp ==
  ASSUME NEW s, IsSequence(s, 256), NEW b \in Byte, NEW e, s[Number(b) + 1] = e
  PROVE  (s \o <<>>)[Number(b) + 1] = e
<1>1. s \o <<>> = s
  <2>1. 256 \in Nat
    OBVIOUS
  <2> QED BY <2>1, Whole
<1> QED BY <1>1

(* Entry row of a column of the table is the multiple of the substituted   *)
(* byte that the row of the matrix says.                                   *)
LEMMA ColumnsOfTIs ==
  ASSUME NEW b \in Byte
  PROVE  /\ Columns_of_T[Number(b) + 1] = T(b) /\ IsSequence(T(b), 8)
         /\ \A row \in 0..7, k \in 0..7 :
              /\ T(b)[((row - k) % 8) + 1] = Products[Circulant[((k - row) % 8) + 1]][Number(SubByte(b)) + 1]
              /\ T(b)[((row - k) % 8) + 1] \in Byte
<1> DEFINE s == [n \in 1..256 |-> T(Bits(n - 1))]
           m == Number(b) + 1
           p == SubByte(b)
           q == Number(p) + 1
<1>1. m \in 1..256 /\ Bits(m - 1) = b /\ p \in Byte
  BY SubBytesIs
<1>2. q \in 1..256 /\ Bits(q - 1) = p
  <2> HIDE DEF p
  <2> QED BY <1>1, SubBytesIs
<1>3. IsSequence(T(b), 8)
  BY DEF T, IsSequence
<1>4. Columns_of_T[m] = T(b)
  <2>1. IsSequence(s, 256) /\ s[m] = T(b)
    <3> HIDE DEF m
    <3> QED BY <1>1 DEF IsSequence
  <2> HIDE DEF s
  <2> QED BY <2>1, LookedUp DEF Columns_of_T, s
<1>5. ASSUME NEW row \in 0..7, NEW k \in 0..7
      PROVE  /\ T(b)[((row - k) % 8) + 1] = Products[Circulant[((k - row) % 8) + 1]][q]
             /\ T(b)[((row - k) % 8) + 1] \in Byte
  <2> DEFINE d == (row - k) % 8
             c == Circulant[((0 - d) % 8) + 1]
             t == [n \in 1..256 |-> Times(Bits(n - 1), Bits(c))]
  <2>1. d \in 0..7 /\ (k - row) % 8 = (0 - d) % 8
    OBVIOUS
  <2>2. c \in Multiples
    <3> HIDE DEF d
    <3> QED BY <2>1 DEF Circulant, Multiples
  <2>3. T(b)[d + 1] = Times(p, Bits(c))
    <3> HIDE DEF d
    <3> QED BY <2>1, ColumnOfMultiples DEF Byte
  <2>4. Products[c][q] = Times(p, Bits(c))
    <3>1. Products[c] = t \o <<>>
      <4> HIDE DEF c
      <4> QED BY <2>2 DEF Products
    <3>2. IsSequence(t, 256) /\ t[q] = Times(p, Bits(c))
      <4> HIDE DEF c, q, p
      <4> QED BY <1>2 DEF IsSequence
    <3>3. t \o <<>> = t
      <4>1. 256 \in Nat
        OBVIOUS
      <4> HIDE DEF t
      <4> QED BY <3>2, <4>1, Whole
    <3> QED BY <3>1, <3>2, <3>3
  <2>5. Times(p, Bits(c)) \in Byte
    BY DEF Times, Byte
  <2> HIDE DEF p, q, c, d
  <2>6. T(b)[d + 1] = Products[c][q] /\ T(b)[d + 1] \in Byte
    BY <2>3, <2>4, <2>5
  <2> QED BY <2>1, <2>6 DEF d, c
<1> QED BY <1>3, <1>4, <1>5 DEF m

(* The two words of a column together are rotated by amount bytes. *)
LEMMA RotatedIs ==
  ASSUME NEW c, IsSequence(c, 8), NEW amount \in 0..3
  PROVE  ROTATE_COLUMN_DOWN(c, amount) = [k \in 1..8 |-> c[((k - 1 - amount) % 8) + 1]]
<1> DEFINE a1 == SubSeq(c, 9 - amount, 8)
           a2 == SubSeq(c, 1, 4 - amount)
           a3 == SubSeq(c, 5 - amount, 4)
           a4 == SubSeq(c, 5, 8 - amount)
           m1 == amount
           m2 == 4 - amount
           v1 == a1 \o a2
           u  == v1 \o a3
           w  == u \o a4
<1>1. /\ a1 = [i \in 1..m1 |-> c[8 - amount + i]]
      /\ a2 = [i \in 1..m2 |-> c[i]]
      /\ a3 = [i \in 1..m1 |-> c[4 - amount + i]]
      /\ a4 = [i \in 1..m2 |-> c[4 + i]]
  <2>1. /\ 8 \in Nat /\ 9 - amount \in 1..(8 + 1) /\ 8 \in 0..8 /\ 9 - amount <= 8 + 1
        /\ 1 \in 1..(8 + 1) /\ 4 - amount \in 0..8 /\ 1 <= (4 - amount) + 1
        /\ 5 - amount \in 1..(8 + 1) /\ 4 \in 0..8 /\ 5 - amount <= 4 + 1
        /\ 5 \in 1..(8 + 1) /\ 8 - amount \in 0..8 /\ 5 <= (8 - amount) + 1
    OBVIOUS
  <2> DEFINE b1 == 9 - amount
             b2 == 4 - amount
             b3 == 5 - amount
             b4 == 8 - amount
  <2>2. /\ SubSeq(c, b1, 8) = [i \in 1..(8 - b1 + 1) |-> c[b1 + i - 1]]
        /\ SubSeq(c, 1, b2) = [i \in 1..(b2 - 1 + 1) |-> c[1 + i - 1]]
        /\ SubSeq(c, b3, 4) = [i \in 1..(4 - b3 + 1) |-> c[b3 + i - 1]]
        /\ SubSeq(c, 5, b4) = [i \in 1..(b4 - 5 + 1) |-> c[5 + i - 1]]
    <3> HIDE DEF b1, b2, b3, b4
    <3>1. /\ 8 \in Nat /\ b1 \in 1..(8 + 1) /\ 8 \in 0..8 /\ b1 <= 8 + 1
          /\ 1 \in 1..(8 + 1) /\ b2 \in 0..8 /\ 1 <= b2 + 1
          /\ b3 \in 1..(8 + 1) /\ 4 \in 0..8 /\ b3 <= 4 + 1
          /\ 5 \in 1..(8 + 1) /\ b4 \in 0..8 /\ 5 <= b4 + 1
      BY <2>1 DEF b1, b2, b3, b4
    <3> QED BY ONLY <3>1, IsSequence(c, 8), PartIs
  <2>3. /\ 8 - b1 + 1 = m1 /\ b2 - 1 + 1 = m2 /\ 4 - b3 + 1 = m1 /\ b4 - 5 + 1 = m2
        /\ \A i \in 1..8 : b1 + i - 1 = 8 - amount + i /\ 1 + i - 1 = i /\ b3 + i - 1 = 4 - amount + i /\ 5 + i - 1 = 4 + i
        /\ 1..m1 \subseteq 1..8 /\ 1..m2 \subseteq 1..8
    OBVIOUS
  <2> HIDE DEF b1, b2, b3, b4, m1, m2
  <2>4. /\ SubSeq(c, b1, 8) = [i \in 1..m1 |-> c[8 - amount + i]]
        /\ SubSeq(c, 1, b2) = [i \in 1..m2 |-> c[i]]
        /\ SubSeq(c, b3, 4) = [i \in 1..m1 |-> c[4 - amount + i]]
        /\ SubSeq(c, 5, b4) = [i \in 1..m2 |-> c[4 + i]]
    BY <2>2, <2>3, Zenon
  <2> QED BY <2>4 DEF b1, b2, b3, b4
<1>2. IsSequence(a1, m1) /\ IsSequence(a2, m2) /\ IsSequence(a3, m1) /\ IsSequence(a4, m2) /\ m1 \in Nat /\ m2 \in Nat
  <2>1. m1 \in Nat /\ m2 \in Nat
    OBVIOUS
  <2> HIDE DEF a1, a2, a3, a4, m1, m2
  <2> QED BY <1>1, <2>1 DEF IsSequence
<1>3. /\ \A i \in 1..m1 : a1[i] = c[8 - amount + i] /\ a3[i] = c[4 - amount + i]
      /\ \A i \in 1..m2 : a2[i] = c[i] /\ a4[i] = c[4 + i]
  <2> HIDE DEF a1, a2, a3, a4
  <2> QED BY <1>1
<1> HIDE DEF a1, a2, a3, a4
<1>4. IsSequence(v1, 4) /\ \A i \in 1..4 : v1[i] = IF i <= m1 THEN a1[i] ELSE a2[i - m1]
  <2>1. Joined(a1 \o a2, a1, m1, a2, m2)
    <3> HIDE DEF m1, m2
    <3> QED BY <1>2, ConcatIs
  <2>2. m1 + m2 = 4
    OBVIOUS
  <2> HIDE DEF m1, m2
  <2> QED BY <2>1, <2>2 DEF Joined
<1> HIDE DEF v1
<1>5. IsSequence(u, 4 + m1) /\ \A i \in 1..(4 + m1) : u[i] = IF i <= 4 THEN v1[i] ELSE a3[i - 4]
  <2>1. Joined(v1 \o a3, v1, 4, a3, m1)
    <3> HIDE DEF m1, m2
    <3>1. 4 \in Nat
      OBVIOUS
    <3> QED BY <1>2, <1>4, <3>1, ConcatIs
  <2> HIDE DEF m1, m2
  <2> QED BY <2>1 DEF Joined
<1> HIDE DEF u
<1>6. IsSequence(w, 8) /\ \A i \in 1..8 : w[i] = IF i <= 4 + m1 THEN u[i] ELSE a4[i - (4 + m1)]
  <2> DEFINE m3 == 4 + m1
  <2>1. m3 \in Nat /\ m3 + m2 = 8
    OBVIOUS
  <2>2. Joined(u \o a4, u, m3, a4, m2)
    <3> HIDE DEF m1, m2
    <3>1. IsSequence(u, m3)
      BY <1>5
    <3> HIDE DEF m3
    <3> QED BY <1>2, <2>1, <3>1, ConcatIs
  <2> HIDE DEF m2
  <2>3. w = u \o a4
    OBVIOUS
  <2> HIDE DEF m3, w
  <2>4. IsSequence(w, 8) /\ \A i \in 1..8 : w[i] = IF i <= m3 THEN u[i] ELSE a4[i - m3]
    BY <2>1, <2>2, <2>3 DEF Joined
  <2> QED BY <2>4 DEF m3
<1> HIDE DEF w
<1>7. \A k \in 1..8 : w[k] = c[((k - 1 - amount) % 8) + 1]
  <2> TAKE k \in 1..8
  <2> DEFINE d == ((k - 1 - amount) % 8) + 1
  <2>1. CASE k <= amount
    <3>1. k \in 1..m1 /\ k <= 4 + m1 /\ k <= 4 /\ k \in 1..4 /\ k \in 1..(4 + m1) /\ 8 - amount + k = d
      BY <2>1
    <3> HIDE DEF d
    <3> QED BY <1>3, <1>4, <1>5, <1>6, <3>1
  <2>2. CASE amount < k /\ k <= 4
    <3>1. k - m1 \in 1..m2 /\ k <= 4 + m1 /\ ~(k <= m1) /\ k \in 1..4 /\ k \in 1..(4 + m1) /\ k - m1 = d
      BY <2>2
    <3> HIDE DEF d, m2
    <3>2. w[k] = u[k] /\ u[k] = v1[k] /\ v1[k] = a2[k - m1]
      BY <1>4, <1>5, <1>6, <2>2, <3>1
    <3> QED BY <1>3, <3>1, <3>2
  <2>3. CASE 4 < k /\ k <= 4 + amount
    <3>1. k - 4 \in 1..m1 /\ ~(k <= 4) /\ k <= 4 + m1 /\ k \in 1..(4 + m1) /\ 4 - amount + (k - 4) = d
      BY <2>3
    <3> HIDE DEF d, m2
    <3>2. w[k] = u[k] /\ u[k] = a3[k - 4]
      BY <1>5, <1>6, <2>3, <3>1
    <3>3. a3[k - 4] = c[4 - amount + (k - 4)]
      BY <1>3, <3>1
    <3> QED BY <3>1, <3>2, <3>3
  <2>4. CASE 4 + amount < k
    <3>1. k - (4 + m1) \in 1..m2 /\ ~(k <= 4 + m1) /\ 4 + (k - (4 + m1)) = d
      BY <2>4
    <3> HIDE DEF d, m2
    <3>2. w[k] = a4[k - (4 + m1)]
      BY <1>6, <3>1
    <3>3. a4[k - (4 + m1)] = c[4 + (k - (4 + m1))]
      BY <1>3, <3>1
    <3> QED BY <3>1, <3>2, <3>3
  <2> QED BY <2>1, <2>2, <2>3, <2>4
<1>8. ROTATE_COLUMN_DOWN(c, amount) = w
  BY DEF ROTATE_COLUMN_DOWN, w, u, v1, a1, a2, a3, a4
<1> QED BY <1>6, <1>7, <1>8 DEF IsSequence

(* The rotation of the columns of the lower rows: the halves change places *)
(* too.                                                                    *)
LEMMA SwappedIs ==
  ASSUME NEW c, IsSequence(c, 8)
  PROVE  /\ IsSequence(SubSeq(c, 5, 8) \o SubSeq(c, 1, 4), 8)
         /\ \A k \in 1..8 : (SubSeq(c, 5, 8) \o SubSeq(c, 1, 4))[k] = c[((k + 3) % 8) + 1]
<1> DEFINE a == SubSeq(c, 5, 8)
           b == SubSeq(c, 1, 4)
           w == a \o b
<1>1. a = [i \in 1..4 |-> c[4 + i]] /\ b = [i \in 1..4 |-> c[i]]
  <2>1. 8 \in Nat /\ 5 \in 1..(8 + 1) /\ 8 \in 0..8 /\ 5 <= 8 + 1 /\ 1 \in 1..(8 + 1) /\ 4 \in 0..8 /\ 1 <= 4 + 1
    OBVIOUS
  <2>2. a = [i \in 1..(8 - 5 + 1) |-> c[5 + i - 1]] /\ b = [i \in 1..(4 - 1 + 1) |-> c[1 + i - 1]]
    BY ONLY <2>1, IsSequence(c, 8), PartIs
  <2>3. 8 - 5 + 1 = 4 /\ 4 - 1 + 1 = 4 /\ \A i \in 1..4 : 5 + i - 1 = 4 + i /\ 1 + i - 1 = i
    OBVIOUS
  <2> HIDE DEF a, b
  <2> QED BY <2>2, <2>3
<1> HIDE DEF a, b
<1>2. IsSequence(a, 4) /\ IsSequence(b, 4)
  BY <1>1 DEF IsSequence
<1>3. Joined(w, a, 4, b, 4)
  <2>1. 4 \in Nat
    OBVIOUS
  <2> QED BY <1>2, <2>1, ConcatIs
<1> HIDE DEF w
<1>4. IsSequence(w, 8) /\ \A k \in 1..8 : w[k] = IF k <= 4 THEN a[k] ELSE b[k - 4]
  <2>1. 4 + 4 = 8
    OBVIOUS
  <2> QED BY <1>3, <2>1 DEF Joined
<1>5. ASSUME NEW k \in 1..8 PROVE w[k] = c[((k + 3) % 8) + 1]
  <2>1. CASE k <= 4
    <3>1. k \in 1..4 /\ ((k + 3) % 8) + 1 = 4 + k
      BY <2>1
    <3> QED BY <1>1, <1>4, <3>1
  <2>2. CASE ~(k <= 4)
    <3>1. k - 4 \in 1..4 /\ ((k + 3) % 8) + 1 = k - 4
      BY <2>2
    <3>2. w[k] = b[k - 4] /\ b[k - 4] = c[k - 4]
      BY <1>1, <1>4, <2>2, <3>1
    <3> QED BY <3>1, <3>2
  <2> QED BY <2>1, <2>2
<1> QED BY <1>4, <1>5 DEF w, a, b

(* The words of the code from which column j takes its bytes.              *)
FromOf(q) == IF q THEN FromQ ELSE FromP

(* They are those of the shifted columns: byte i - 1 of a column is in its *)
(* upper word for the first four.                                          *)
LEMMA FromIsShift ==
  ASSUME NEW q \in BOOLEAN, NEW j \in 0..7, NEW i \in 1..8
  PROVE  /\ 4 * ((FromOf(q)[i] + 2 * j) % 16) + ((i - 1) % 4) + 1 = 8 * ((j + Shift(q)[i]) % 8) + i
         /\ 8 * ((j + Shift(q)[i]) % 8) + i \in 1..64
         /\ (j + Shift(q)[i]) % 8 \in 0..7
<1> DEFINE f == FromOf(q)[i]
           h == Shift(q)[i]
           z == (j + h) % 8
<1>1. h \in 0..7 /\ f = IF i <= 4 THEN 2 * h ELSE 2 * h + 1
  <2>1. CASE q
    BY <2>1 DEF FromOf, FromQ, Shift
  <2>2. CASE ~q
    BY <2>2 DEF FromOf, FromP, Shift
  <2> QED BY <2>1, <2>2
<1> HIDE DEF f, h
<1>2. z \in 0..7 /\ (f + 2 * j) % 16 = IF i <= 4 THEN 2 * z ELSE 2 * z + 1
  BY <1>1
<1>3. (i - 1) % 4 = IF i <= 4 THEN i - 1 ELSE i - 5
  OBVIOUS
<1> HIDE DEF z
<1>4. /\ 4 * ((f + 2 * j) % 16) + ((i - 1) % 4) + 1 = 8 * z + i
      /\ 8 * z + i \in 1..64
  BY <1>2, <1>3
<1> QED BY <1>2, <1>4 DEF f, h, z

(* All the columns that have been looked up are sequences of eight. *)
AreColumns(looked) == \A n \in 1..64 : IsSequence(looked[n], 8)

(* Column j, of the columns that have been looked up. *)
ColumnOf(looked, j, q) ==
  [k \in 1..8 |-> XorAll([i \in 1..8 |-> looked[8 * ((j + Shift(q)[i]) % 8) + i][((k - i) % 8) + 1]])]

(* Column j of the code. *)
LEMMA ColumnIs ==
  ASSUME NEW looked, AreColumns(looked), NEW q \in BOOLEAN, NEW j \in 0..7
  PROVE  COLUMN(looked, j, FromOf(q)) = ColumnOf(looked, j, q)
<1> DEFINE from == FromOf(q)
           Part(i) == ROTATE_COLUMN_DOWN(looked[4 * ((from[i] + 2 * j) % 16) + ((i - 1) % 4) + 1], (i - 1) % 4)
           p == [i \in 1..8 |-> IF i <= 4 THEN Part(i) ELSE SubSeq(Part(i), 5, 8) \o SubSeq(Part(i), 1, 4)]
           Is(i, k) == looked[8 * ((j + Shift(q)[i]) % 8) + i][((k - i) % 8) + 1]
           r == [k \in 1..8 |-> XorAll([i \in 1..8 |-> p[i][k]])]
<1>1. ASSUME NEW i \in 1..8
      PROVE  Part(i) = [k \in 1..8 |-> looked[8 * ((j + Shift(q)[i]) % 8) + i][((k - 1 - ((i - 1) % 4)) % 8) + 1]]
  <2> DEFINE n == 8 * ((j + Shift(q)[i]) % 8) + i
             c == looked[n]
             amount == (i - 1) % 4
  <2>1. n \in 1..64 /\ Part(i) = ROTATE_COLUMN_DOWN(c, amount)
    BY FromIsShift
  <2>2. amount \in 0..3 /\ IsSequence(c, 8)
    <3>1. amount \in 0..3
      OBVIOUS
    <3> HIDE DEF n
    <3> QED BY <2>1, <3>1 DEF AreColumns
  <2> HIDE DEF n, c, amount
  <2>3. ROTATE_COLUMN_DOWN(c, amount) = [k \in 1..8 |-> c[((k - 1 - amount) % 8) + 1]]
    BY <2>2, RotatedIs
  <2> HIDE DEF Part
  <2>4. Part(i) = [k \in 1..8 |-> c[((k - 1 - amount) % 8) + 1]]
    BY <2>1, <2>3
  <2> QED BY <2>4 DEF c, amount, n
<1> HIDE DEF Part
<1>2. ASSUME NEW i \in 1..8, NEW k \in 1..8 PROVE p[i][k] = Is(i, k)
  <2>1. CASE i <= 4
    <3>1. (k - 1 - ((i - 1) % 4)) % 8 = (k - i) % 8
      BY <2>1
    <3>2. p[i] = Part(i)
      BY <2>1
    <3> HIDE DEF p
    <3> DEFINE At(m) == looked[8 * ((j + Shift(q)[i]) % 8) + i][((m - 1 - ((i - 1) % 4)) % 8) + 1]
    <3>3. Part(i) = [m \in 1..8 |-> At(m)]
      BY <1>1, Zenon
    <3> HIDE DEF At
    <3>4. p[i][k] = At(k)
      BY <3>2, <3>3
    <3> QED BY <3>1, <3>4 DEF At
  <2>2. CASE ~(i <= 4)
    <3> DEFINE c == Part(i)
               d == ((k + 3) % 8) + 1
    <3>1. IsSequence(c, 8)
      BY <1>1 DEF IsSequence
    <3>2. p[i] = SubSeq(c, 5, 8) \o SubSeq(c, 1, 4)
      BY <2>2
    <3>3. c = [m \in 1..8 |-> looked[8 * ((j + Shift(q)[i]) % 8) + i][((m - 1 - ((i - 1) % 4)) % 8) + 1]]
      BY <1>1
    <3> HIDE DEF c, p
    <3>4. p[i][k] = c[d]
      BY <3>1, <3>2, SwappedIs
    <3>5. d \in 1..8 /\ (d - 1 - ((i - 1) % 4)) % 8 = (k - i) % 8
      BY <2>2
    <3> HIDE DEF d
    <3> QED BY <3>3, <3>4, <3>5
  <2> QED BY <2>1, <2>2
<1>3. p \o <<>> = p
  <2>1. IsSequence(p, 8) /\ 8 \in Nat
    BY DEF IsSequence
  <2> HIDE DEF p
  <2> QED BY <2>1, Whole
<1>4. r \o <<>> = r
  <2>1. IsSequence(r, 8) /\ 8 \in Nat
    BY DEF IsSequence
  <2> HIDE DEF r
  <2> QED BY <2>1, Whole
<1>5. COLUMN(looked, j, from) = r
  BY <1>3, <1>4, Zenon DEF COLUMN, Part
<1> HIDE DEF p, Is
<1>6. r = [k \in 1..8 |-> XorAll([i \in 1..8 |-> Is(i, k)])]
  BY <1>2
<1> QED BY <1>5, <1>6, Zenon DEF Is, ColumnOf

(* The columns of a state, substituted, shifted and mixed. *)
MixedBytes(x, q) ==
  [n \in 0..63 |-> XorAll([k \in 1..8 |->
     Products[Circulant[((k - 1 - (n % 8)) % 8) + 1]]
             [Number(SubByte(x[8 * (((n \div 8) + Shift(q)[k]) % 8) + k - 1])) + 1]])]

(* A look at the table and a rotation for each byte give them. *)
LEMMA AllColumnsIs ==
  ASSUME NEW x \in [0..63 -> Byte], NEW q \in BOOLEAN
  PROVE  AllColumns(x, FromOf(q)) = MixedBytes(x, q) /\ MixedBytes(x, q) \in [0..63 -> Byte]
<1> DEFINE l == [n \in 1..64 |-> Columns_of_T[Number(x[n - 1]) + 1]]
           c == [j \in 1..8 |-> COLUMN(l, j - 1, FromOf(q))]
           b(n, k) == x[8 * (((n \div 8) + Shift(q)[k]) % 8) + k - 1]
           t(n, k) == T(b(n, k))[(((n % 8) - (k - 1)) % 8) + 1]
           e(n, k) == Products[Circulant[((k - 1 - (n % 8)) % 8) + 1]][Number(SubByte(b(n, k))) + 1]
<1>1. \A n \in 1..64 : x[n - 1] \in Byte /\ l[n] = T(x[n - 1]) /\ IsSequence(l[n], 8)
  <2> TAKE n \in 1..64
  <2> DEFINE y == x[n - 1]
  <2>1. y \in Byte
    <3>1. n - 1 \in 0..63
      OBVIOUS
    <3> QED BY <3>1
  <2>2. l[n] = Columns_of_T[Number(y) + 1]
    OBVIOUS
  <2> HIDE DEF y, l
  <2>3. l[n] = T(y) /\ IsSequence(T(y), 8)
    BY <2>1, <2>2, ColumnsOfTIs
  <2> QED BY <2>1, <2>3 DEF y
<1>2. l \o <<>> = l /\ c \o <<>> = c
  <2>1. IsSequence(l, 64) /\ IsSequence(c, 8) /\ 64 \in Nat /\ 8 \in Nat
    BY DEF IsSequence
  <2> HIDE DEF l, c
  <2> QED BY <2>1, Whole
<1>3. AllColumns(x, FromOf(q)) = [n \in 0..63 |-> c[(n \div 8) + 1][(n % 8) + 1]]
  BY <1>2, Zenon DEF AllColumns
<1> HIDE DEF l
<1>4. AreColumns(l)
  BY <1>1 DEF AreColumns
<1>5. ASSUME NEW n \in 0..63, NEW k \in 1..8
      PROVE  /\ b(n, k) \in Byte /\ t(n, k) = e(n, k) /\ t(n, k) \in Byte
             /\ l[8 * (((n \div 8) + Shift(q)[k]) % 8) + k][(((n % 8) + 1 - k) % 8) + 1] = t(n, k)
  <2> DEFINE j == n \div 8
             row == n % 8
             m == 8 * ((j + Shift(q)[k]) % 8) + k
             y == x[m - 1]
             z == k - 1
             d == ((row - z) % 8) + 1
  <2>1. j \in 0..7 /\ row \in 0..7 /\ z \in 0..7
    OBVIOUS
  <2>2. m \in 1..64
    <3> HIDE DEF j
    <3> QED BY <2>1, FromIsShift
  <2>0. 8 * ((j + Shift(q)[k]) % 8) + (k - 1) = m - 1
    <3>1. (j + Shift(q)[k]) % 8 \in 0..7
      <4> HIDE DEF j
      <4> QED BY <2>1, FromIsShift
    <3> QED BY <3>1
  <2>3. (row + 1 - k) % 8 = (row - z) % 8
    <3> HIDE DEF row
    <3> QED BY <2>1
  <2> HIDE DEF m, row, z
  <2>4. l[m] = T(y) /\ y \in Byte
    BY <1>1, <2>2
  <2> HIDE DEF y
  <2>5. /\ T(y)[d] = Products[Circulant[((z - row) % 8) + 1]][Number(SubByte(y)) + 1]
        /\ T(y)[d] \in Byte
    BY <2>1, <2>4, ColumnsOfTIs
  <2>6. b(n, k) = y
    <3>1. b(n, k) = x[8 * ((j + Shift(q)[k]) % 8) + (k - 1)]
      BY Zenon
    <3> QED BY <2>0, <3>1, Zenon DEF y
  <2>7. /\ y \in Byte /\ T(y)[d] \in Byte
        /\ l[m][((row + 1 - k) % 8) + 1] = T(y)[d]
    BY <2>3, <2>4, <2>5
  <2>8. /\ t(n, k) = T(y)[d]
        /\ e(n, k) = Products[Circulant[((z - row) % 8) + 1]][Number(SubByte(y)) + 1]
    <3> HIDE DEF b
    <3> QED BY <2>6, Zenon DEF d, z, row
  <2> HIDE DEF d, b, t, e
  <2>9. b(n, k) \in Byte /\ t(n, k) = e(n, k) /\ t(n, k) \in Byte
    BY <2>5, <2>6, <2>7, <2>8
  <2> QED BY <2>7, <2>8, <2>9 DEF m, row
<1>6. ASSUME NEW n \in 0..63
      PROVE  c[(n \div 8) + 1][(n % 8) + 1] = XorAll([k \in 1..8 |-> t(n, k)])
  <2> DEFINE j == n \div 8
             row == (n % 8) + 1
  <2>1. j \in 0..7 /\ row \in 1..8 /\ j + 1 \in 1..8 /\ (j + 1) - 1 = j
    OBVIOUS
  <2>2. c[j + 1] = COLUMN(l, j, FromOf(q))
    <3> HIDE DEF j
    <3> QED BY <2>1
  <2>3. COLUMN(l, j, FromOf(q)) = ColumnOf(l, j, q)
    <3> HIDE DEF j
    <3> QED BY <1>4, <2>1, ColumnIs
  <2> HIDE DEF c, t
  <2>4. c[j + 1][row] = XorAll([i \in 1..8 |-> l[8 * ((j + Shift(q)[i]) % 8) + i][((row - i) % 8) + 1]])
    <3> HIDE DEF row, j
    <3> QED BY <2>1, <2>2, <2>3 DEF ColumnOf
  <2>5. \A i \in 1..8 : l[8 * ((j + Shift(q)[i]) % 8) + i][((row - i) % 8) + 1] = t(n, i)
    <3> TAKE i \in 1..8
    <3> HIDE DEF b, e
    <3>1. l[8 * (((n \div 8) + Shift(q)[i]) % 8) + i][(((n % 8) + 1 - i) % 8) + 1] = t(n, i)
      BY <1>5
    <3> QED BY <3>1
  <2> HIDE DEF j, row
  <2>6. c[j + 1][row] = XorAll([i \in 1..8 |-> t(n, i)])
    BY <2>4, <2>5
  <2> QED BY <2>6 DEF j, row
<1>7. ASSUME NEW n \in 0..63
      PROVE  /\ XorAll([k \in 1..8 |-> t(n, k)]) = XorAll([k \in 1..8 |-> e(n, k)])
             /\ XorAll([k \in 1..8 |-> t(n, k)]) \in Byte
  <2> DEFINE s == [k \in 1..8 |-> t(n, k)]
  <2> HIDE DEF t, e
  <2>1. IsSequence(s, 8) /\ 8 \in Nat /\ \A k \in 1..8 : s[k] \in Byte
    BY <1>5 DEF IsSequence
  <2>2. s = [k \in 1..8 |-> e(n, k)]
    BY <1>5
  <2> HIDE DEF s
  <2>3. XorAll(s) \in Byte
    BY <2>1, XorBytes
  <2> QED BY <2>2, <2>3 DEF s
<1> HIDE DEF c, t, e
<1>8. [n \in 0..63 |-> c[(n \div 8) + 1][(n % 8) + 1]] = [n \in 0..63 |-> XorAll([k \in 1..8 |-> e(n, k)])]
  BY <1>6, <1>7
<1>9. MixedBytes(x, q) = [n \in 0..63 |-> XorAll([k \in 1..8 |-> e(n, k)])]
  BY Zenon DEF MixedBytes, e
<1>10. [n \in 0..63 |-> XorAll([k \in 1..8 |-> e(n, k)])] \in [0..63 -> Byte]
  BY <1>7
<1> QED BY <1>3, <1>8, <1>9, <1>10

(* The bits of an exclusive or of three words, by twos. *)
LEMMA XorTwice ==
  ASSUME NEW a, NEW b, NEW c, NEW i
  PROVE  /\ i \in XorBits(a, XorBits(b, c)) <=> ((i \in a <=> i \in b) <=> i \in c)
         /\ i \in XorBits(XorBits(a, b), c) <=> ((i \in a <=> i \in b) <=> i \in c)
BY DEF XorBits

(* The bytes with the constants of a round. *)
WithConstant(A, q, r) == [n \in 0..63 |-> XorBits(A[n], RoundConstant(q, n % 8, n \div 8, r))]

(* A byte with the constant, as the code adds it. *)
ConstantAdded(q, row, col, r, a) ==
  IF q THEN IF row = 7 THEN XorAll(<<Not(8, a), Bits(16 * col), Bits(r)>>) ELSE Not(8, a)
       ELSE IF row = 0 THEN XorAll(<<a, Bits(16 * col), Bits(r)>>) ELSE a

(* The constants are bytes, and as the code adds them. *)
LEMMA ConstantIs ==
  ASSUME NEW a \in Byte, NEW r \in 0..9, NEW row \in 0..7, NEW col \in 0..7, NEW q \in BOOLEAN
  PROVE  /\ XorBits(a, RoundConstant(q, row, col, r)) \in Byte
         /\ XorBits(a, RoundConstant(q, row, col, r)) = ConstantAdded(q, row, col, r, a)
<1> DEFINE b == Bits(16 * col)
           c == Bits(r)
           na == Not(8, a)
           nb == Not(8, b)
<1>1. b \in Byte /\ c \in Byte
  <2>1. 16 * col \in 0..255 /\ r \in 0..255
    OBVIOUS
  <2> QED BY <2>1, FieldTables DEF Byte
<1>2. a \subseteq 0..7 /\ b \subseteq 0..7 /\ c \subseteq 0..7
  BY <1>1 DEF Byte
<1>3. \A i : /\ i \in XorAll(<<a, b, c>>) <=> ((i \in a <=> i \in b) <=> i \in c)
             /\ i \in XorAll(<<na, b, c>>) <=> ((i \in na <=> i \in b) <=> i \in c)
  <2> DEFINE s == <<a, b, c>>
             t == <<na, b, c>>
  <2>1. /\ IsSequence(s, 3) /\ s[1] = a /\ s[2] = b /\ s[3] = c /\ 3 \in 2..5
        /\ IsSequence(t, 3) /\ t[1] = na /\ t[2] = b /\ t[3] = c
    BY DEF IsSequence
  <2> HIDE DEF s, t, na, b, c
  <2>2. TAKE i
  <2>3. /\ i \in XorAll(s) <=> ((i \in s[1] <=> i \in s[2]) <=> i \in s[3])
        /\ i \in XorAll(t) <=> ((i \in t[1] <=> i \in t[2]) <=> i \in t[3])
    BY <2>1, XorAllFive
  <2> QED BY <2>1, <2>3 DEF s, t
<1>4. \A i : /\ i \in na <=> i \in 0..7 /\ i \notin a
             /\ i \in nb <=> i \in 0..7 /\ i \notin b
  BY DEF Not
<1> HIDE DEF na, b, c, nb
<1>5. CASE ~q
  <2>1. row = 0 => RoundConstant(q, row, col, r) = XorBits(b, c)
    BY <1>5 DEF RoundConstant, b, c
  <2>2. row # 0 => RoundConstant(q, row, col, r) = {}
    BY <1>5 DEF RoundConstant
  <2>3. XorBits(a, XorBits(b, c)) = XorAll(<<a, b, c>>)
    <3>1. \A i : i \in XorBits(a, XorBits(b, c)) <=> i \in XorAll(<<a, b, c>>)
      BY <1>3, XorTwice
    <3> QED BY <3>1
  <2>4. XorBits(a, {}) = a
    BY DEF XorBits
  <2>5. XorBits(a, XorBits(b, c)) \in Byte
    BY <1>2 DEF XorBits, Byte
  <2> QED BY <1>5, <2>1, <2>2, <2>3, <2>4, <2>5 DEF ConstantAdded, b, c
<1>6. CASE q
  <2>1. row = 7 => RoundConstant(q, row, col, r) = XorBits(nb, c)
    BY <1>6 DEF RoundConstant, nb, b, c
  <2>2. row # 7 => RoundConstant(q, row, col, r) = 0..7
    BY <1>6 DEF RoundConstant
  <2>3. XorBits(a, XorBits(nb, c)) = XorAll(<<na, b, c>>)
    <3>1. \A i : i \in XorBits(a, XorBits(nb, c)) <=> ((i \in a <=> i \in nb) <=> i \in c)
      BY XorTwice
    <3>2. \A i \in 0..7 : i \in XorBits(a, XorBits(nb, c)) <=> i \in XorAll(<<na, b, c>>)
      BY <1>3, <1>4, <3>1
    <3>3. \A i : i \notin 0..7 => i \notin XorBits(a, XorBits(nb, c)) /\ i \notin XorAll(<<na, b, c>>)
      BY <1>2, <1>3, <1>4, <3>1
    <3> QED BY <3>2, <3>3
  <2>4. XorBits(a, 0..7) = na
    <3>1. \A i \in 0..7 : i \in XorBits(a, 0..7) <=> i \in na
      BY <1>4 DEF XorBits
    <3>2. XorBits(a, 0..7) \subseteq 0..7 /\ na \subseteq 0..7
      BY <1>2, <1>4 DEF XorBits
    <3> QED BY <3>1, <3>2
  <2>5. XorBits(a, XorBits(nb, c)) \in Byte
    BY <1>2, <1>4 DEF XorBits, Byte
  <2>6. na \in Byte
    BY <1>4 DEF Byte
  <2> QED BY <1>6, <2>1, <2>2, <2>3, <2>4, <2>5, <2>6 DEF ConstantAdded, b, c, na
<1> QED BY <1>5, <1>6

(* The definition of a round, of the bytes with the constants. *)
LEMMA DefinedIs ==
  ASSUME NEW A \in [0..63 -> Byte], NEW q \in BOOLEAN, NEW r \in 0..9
  PROVE  /\ WithConstant(A, q, r) \in [0..63 -> Byte]
         /\ GroestlRoundDefined(A, q, r) = MixedBytes(WithConstant(A, q, r), q)
<1> DEFINE y == WithConstant(A, q, r)
           Sub(row, col) == SubBytes[Number(XorBits(A[8 * col + row], RoundConstant(q, row, col, r))) + 1]
           s == [n \in 1..64 |-> Number(Sub((n - 1) % 8, (((n - 1) \div 8) + Shift(q)[((n - 1) % 8) + 1]) % 8))]
           e(n, k) == Products[Circulant[((k - 1 - (n % 8)) % 8) + 1]]
                              [s[8 * (n \div 8) + (k - 1) + 1] + 1]
           g(n, k) == Products[Circulant[((k - 1 - (n % 8)) % 8) + 1]]
                              [Number(SubByte(y[8 * (((n \div 8) + Shift(q)[k]) % 8) + k - 1])) + 1]
<1>1. y \in [0..63 -> Byte] /\ \A n \in 0..63 : y[n] = XorBits(A[n], RoundConstant(q, n % 8, n \div 8, r))
  <2>1. ASSUME NEW n \in 0..63 PROVE XorBits(A[n], RoundConstant(q, n % 8, n \div 8, r)) \in Byte
    <3> DEFINE row == n % 8
               col == n \div 8
               a == A[n]
    <3>1. row \in 0..7 /\ col \in 0..7 /\ a \in Byte
      OBVIOUS
    <3> HIDE DEF row, col, a
    <3>2. XorBits(a, RoundConstant(q, row, col, r)) \in Byte
      BY <3>1, ConstantIs
    <3> QED BY <3>2 DEF row, col, a
  <2> QED BY <2>1 DEF WithConstant
<1>2. s \o <<>> = s
  <2>1. IsSequence(s, 64) /\ 64 \in Nat
    BY DEF IsSequence
  <2> HIDE DEF s
  <2> QED BY <2>1, Whole
<1>3. GroestlRoundDefined(A, q, r) = [n \in 0..63 |-> XorAll([k \in 1..8 |-> e(n, k)])]
  BY <1>2, Zenon DEF GroestlRoundDefined
<1>4. ASSUME NEW row \in 0..7, NEW col \in 0..7 PROVE Sub(row, col) = SubByte(y[8 * col + row])
  <2> DEFINE n == 8 * col + row
             b == y[n]
  <2>1. n \in 0..63 /\ n % 8 = row /\ n \div 8 = col
    OBVIOUS
  <2>2. b = XorBits(A[n], RoundConstant(q, row, col, r)) /\ b \in Byte
    <3> HIDE DEF n, y
    <3> QED BY <1>1, <2>1
  <2> HIDE DEF b, y
  <2>3. SubBytes[Number(b) + 1] = SubByte(b)
    BY <2>2, SubBytesIs
  <2> QED BY <2>2, <2>3, Zenon DEF n, b
<1> HIDE DEF y, Sub
<1>5. ASSUME NEW n \in 0..63, NEW k \in 1..8 PROVE e(n, k) = g(n, k)
  <2> DEFINE col == n \div 8
             z == k - 1
             m == 8 * col + z + 1
             c == (col + Shift(q)[k]) % 8
             p == 8 * c + z
  <2>1. z \in 0..7 /\ col \in 0..7 /\ m \in 1..64 /\ (m - 1) % 8 = z /\ (m - 1) \div 8 = col /\ z + 1 = k
    OBVIOUS
  <2>2. c \in 0..7
    <3> HIDE DEF col
    <3> QED BY <2>1, FromIsShift
  <2>3. s[m] = Number(Sub(z, c))
    <3>1. s[m] = Number(Sub((m - 1) % 8, (((m - 1) \div 8) + Shift(q)[((m - 1) % 8) + 1]) % 8))
      <4> HIDE DEF m
      <4> QED BY <2>1
    <3> HIDE DEF m, s, z, col
    <3> QED BY <2>1, <3>1 DEF c
  <2>4. Sub(z, c) = SubByte(y[p])
    <3> HIDE DEF z, c
    <3> QED BY <1>4, <2>1, <2>2
  <2>5. 8 * (((n \div 8) + Shift(q)[k]) % 8) + k - 1 = p
    <3>1. 8 * c + k - 1 = 8 * c + (k - 1)
      <4> HIDE DEF c
      <4> QED BY <2>2
    <3> QED BY <3>1
  <2> HIDE DEF s, p
  <2>6. s[m] = Number(SubByte(y[p]))
    BY <2>3, <2>4
  <2>7. e(n, k) = Products[Circulant[((k - 1 - (n % 8)) % 8) + 1]][s[m] + 1]
    BY Zenon DEF m, col, z
  <2>8. g(n, k) = Products[Circulant[((k - 1 - (n % 8)) % 8) + 1]][Number(SubByte(y[p])) + 1]
    BY <2>5, Zenon
  <2> HIDE DEF e, g, m
  <2> QED BY <2>6, <2>7, <2>8
<1>6. MixedBytes(y, q) = [n \in 0..63 |-> XorAll([k \in 1..8 |-> g(n, k)])]
  BY Zenon DEF MixedBytes
<1> HIDE DEF e, g
<1>7. GroestlRoundDefined(A, q, r) = MixedBytes(y, q)
  BY <1>3, <1>5, <1>6
<1> QED BY <1>1, <1>7 DEF y

(* A round of the code is one of the definition. *)
LEMMA GroestlRoundIs ==
  ASSUME NEW x \in [0..63 -> Byte], NEW r \in 0..9
  PROVE  /\ RND512P(x, r) = GroestlRoundDefined(x, FALSE, r) /\ RND512P(x, r) \in [0..63 -> Byte]
         /\ RND512Q(x, r) = GroestlRoundDefined(x, TRUE, r) /\ RND512Q(x, r) \in [0..63 -> Byte]
<1> DEFINE y(q) == WithConstant(x, q, r)
           flipped == [n \in 0..63 |-> Not(8, x[n])]
           zp == [n \in 0..63 |-> IF n % 8 = 0 THEN XorAll(<<x[n], Bits(16 * (n \div 8)), Bits(r)>>) ELSE x[n]]
           zq == [n \in 0..63 |-> IF n % 8 = 7 THEN XorAll(<<flipped[n], Bits(16 * (n \div 8)), Bits(r)>>)
                                  ELSE flipped[n]]
<1>1. ASSUME NEW q \in BOOLEAN
      PROVE  /\ AllColumns(y(q), FromOf(q)) = GroestlRoundDefined(x, q, r)
             /\ AllColumns(y(q), FromOf(q)) \in [0..63 -> Byte]
  <2>1. y(q) \in [0..63 -> Byte] /\ GroestlRoundDefined(x, q, r) = MixedBytes(y(q), q)
    BY DefinedIs
  <2> DEFINE v == y(q)
  <2> HIDE DEF v
  <2>2. AllColumns(v, FromOf(q)) = MixedBytes(v, q) /\ MixedBytes(v, q) \in [0..63 -> Byte]
    BY <2>1, AllColumnsIs DEF v
  <2> QED BY <2>1, <2>2 DEF v
<1>2. ASSUME NEW n \in 0..63, NEW q \in BOOLEAN
      PROVE  y(q)[n] = IF q THEN IF n % 8 = 7 THEN XorAll(<<Not(8, x[n]), Bits(16 * (n \div 8)), Bits(r)>>) ELSE Not(8, x[n])
                       ELSE IF n % 8 = 0 THEN XorAll(<<x[n], Bits(16 * (n \div 8)), Bits(r)>>) ELSE x[n]
  <2> DEFINE row == n % 8
             col == n \div 8
             a == x[n]
  <2>1. row \in 0..7 /\ col \in 0..7 /\ a \in Byte /\ y(q)[n] = XorBits(a, RoundConstant(q, row, col, r))
    BY DEF WithConstant
  <2> HIDE DEF row, col, a, y
  <2>2. XorBits(a, RoundConstant(q, row, col, r)) = ConstantAdded(q, row, col, r, a)
    BY <2>1, ConstantIs
  <2> QED BY <2>1, <2>2, Zenon DEF ConstantAdded, row, col, a
<1>3. y(FALSE) = zp
  <2>1. \A n \in 0..63 : y(FALSE)[n] = zp[n]
    <3> HIDE DEF y
    <3> QED BY <1>2
  <2> QED BY <2>1 DEF WithConstant
<1>4. y(TRUE) = zq
  <2>1. \A n \in 0..63 : y(TRUE)[n] = zq[n]
    <3>1. \A n \in 0..63 : flipped[n] = Not(8, x[n])
      OBVIOUS
    <3> HIDE DEF y, flipped
    <3> QED BY <1>2, <3>1
  <2> HIDE DEF flipped
  <2> QED BY <2>1 DEF WithConstant
<1>5. RND512P(x, r) = AllColumns(zp, FromP) /\ RND512Q(x, r) = AllColumns(zq, FromQ)
  BY Zenon DEF RND512P, RND512Q
<1>6. FromOf(FALSE) = FromP /\ FromOf(TRUE) = FromQ
  BY DEF FromOf
<1> HIDE DEF y, zp, zq
<1> QED BY <1>1, <1>3, <1>4, <1>5, <1>6

(* Of a call of Groestl code and definition have the same bytes. *)
GroestlInv ==
  call.function \in {"groestl", "groestl_output"} =>
    /\ call \in Calls /\ round \in 0..21
    /\ code = ideal
    /\ round <= 20 => ideal \in [Q : [0..63 -> Byte], P : [0..63 -> Byte]]

(* Before the first round a call of Groestl has the bytes of the           *)
(* definition, that of the output too, whose Q is not computed.            *)
LEMMA GroestlInitially ==
  CallInit => GroestlInv
<1> SUFFICES ASSUME CallInit, call.function \in {"groestl", "groestl_output"} PROVE GroestlInv
  BY DEF GroestlInv
<1> DEFINE h == GroestlState(call)
           m == GroestlBlock(call)
           st == [Q |-> m, P |-> [n \in 0..63 |-> XorBits(h[n], m[n])]]
<1>1. call \in Calls /\ round \in 0..21
  BY DEF CallInit
<1>2. h \in [0..63 -> Byte] /\ m \in [0..63 -> Byte]
  <2>1. \A k : Datum(call, 8, k) \in Byte
    <3>1. 8 - 1 = 7
      OBVIOUS
    <3> QED BY <3>1, DatumIsWord DEF Byte
  <2>2. 64 - 1 = 63 /\ {} \in Byte
    BY DEF Byte
  <2> QED BY <2>1, <2>2 DEF GroestlState, GroestlBlock, Data
<1>3. ideal = st
  BY DEF CallInit, BegunIdeal
<1>4. code = st
  <2>1. CASE call.function = "groestl"
    BY <2>1 DEF CallInit, Begun, F512Start
  <2>2. CASE call.function = "groestl_output"
    <3>1. code = [Q |-> [n \in 0..63 |-> {}], P |-> h]
      BY <2>2 DEF CallInit, Begun, OutputStart
    <3>2. m = [n \in 0..63 |-> {}]
      BY <2>2 DEF GroestlBlock
    <3>3. \A n \in 0..63 : XorBits(h[n], {}) = h[n]
      BY DEF XorBits
    <3> HIDE DEF h, m
    <3>4. [n \in 0..63 |-> XorBits(h[n], m[n])] = h
      BY <1>2, <3>2, <3>3
    <3> QED BY <3>1, <3>2, <3>4
  <2> QED BY <2>1, <2>2
<1> HIDE DEF h, m
<1>5. st \in [Q : [0..63 -> Byte], P : [0..63 -> Byte]]
  <2>1. \A n \in 0..63 : XorBits(h[n], m[n]) \in Byte
    BY <1>2 DEF XorBits, Byte
  <2> QED BY <1>2, <2>1
<1> QED BY <1>1, <1>3, <1>4, <1>5 DEF GroestlInv

(* A round of Groestl, or the sum at the end, keeps them the same.         *)
LEMMA GroestlNext ==
  ASSUME GroestlInv, [CallNext]_callVars
  PROVE  GroestlInv'
<1>1. CASE UNCHANGED callVars
  BY <1>1 DEF callVars, GroestlInv
<1>2. CASE CallNext /\ call.function \notin {"groestl", "groestl_output"}
  BY <1>2 DEF CallNext, GroestlInv
<1>3. CASE CallNext /\ call.function \in {"groestl", "groestl_output"}
  <2> DEFINE St == [Q : [0..63 -> Byte], P : [0..63 -> Byte]]
             h == GroestlState(call)
  <2>1. /\ call' = call /\ call' \in Calls /\ round' = round + 1 /\ round \in 0..21
        /\ code = ideal /\ (round <= 20 => ideal \in St)
    BY <1>3 DEF CallNext, GroestlInv
  <2>2. GroestlRounds \/ GroestlEnd
    BY <1>3 DEF CallNext, SkeinRounds, SkeinEnd, AesRounds, BlakeRounds, BlakeEnd, KeccakRounds, JhRounds, JhEnd
  <2>3. CASE GroestlRounds
    <3>1. round < 20 /\ code' = GroestlRound(code, round)
          /\ ideal' = IF round < 10 THEN [ideal EXCEPT !.Q = GroestlRoundDefined(@, TRUE, round)]
                            ELSE [ideal EXCEPT !.P = GroestlRoundDefined(@, FALSE, round - 10)]
      BY <2>3 DEF GroestlRounds
    <3>2. ideal \in St /\ ideal.Q \in [0..63 -> Byte] /\ ideal.P \in [0..63 -> Byte] /\ round' \in 0..20
      BY <2>1, <3>1
    <3>3. CASE round < 10
      <4> DEFINE a == ideal.Q
      <4>1. round \in 0..9 /\ a \in [0..63 -> Byte]
        BY <2>1, <3>2, <3>3
      <4> HIDE DEF a
      <4>2. RND512Q(a, round) = GroestlRoundDefined(a, TRUE, round) /\ RND512Q(a, round) \in [0..63 -> Byte]
        BY <4>1, GroestlRoundIs
      <4>3. code' = [ideal EXCEPT !.Q = RND512Q(a, round)] /\ ideal' = [ideal EXCEPT !.Q = GroestlRoundDefined(a, TRUE, round)]
        BY <2>1, <3>1, <3>2, <3>3 DEF GroestlRound, a
      <4>4. code' = ideal' /\ ideal' \in St
        BY <3>2, <4>2, <4>3
      <4> QED BY <2>1, <3>2, <4>4 DEF GroestlInv
    <3>4. CASE ~(round < 10)
      <4> DEFINE a == ideal.P
                 r == round - 10
      <4>1. r \in 0..9 /\ a \in [0..63 -> Byte]
        BY <2>1, <3>1, <3>2, <3>4
      <4> HIDE DEF a, r
      <4>2. RND512P(a, r) = GroestlRoundDefined(a, FALSE, r) /\ RND512P(a, r) \in [0..63 -> Byte]
        BY <4>1, GroestlRoundIs
      <4>3. code' = [ideal EXCEPT !.P = RND512P(a, r)] /\ ideal' = [ideal EXCEPT !.P = GroestlRoundDefined(a, FALSE, r)]
        BY <2>1, <3>1, <3>2, <3>4 DEF GroestlRound, a, r
      <4>4. code' = ideal' /\ ideal' \in St
        BY <3>2, <4>2, <4>3
      <4> QED BY <2>1, <3>2, <4>4 DEF GroestlInv
    <3> QED BY <3>3, <3>4
  <2>4. CASE GroestlEnd
    <3>1. /\ round = 20 /\ code' = F512End(code, h)
          /\ ideal' = [n \in 0..63 |-> XorBits(XorBits(ideal.P[n], ideal.Q[n]), h[n])]
      BY <2>4 DEF GroestlEnd
    <3>2. ASSUME NEW n \in 0..63
          PROVE  XorAll(<<h[n], ideal.P[n], ideal.Q[n]>>) = XorBits(XorBits(ideal.P[n], ideal.Q[n]), h[n])
      <4> DEFINE a == h[n]
                 b == ideal.P[n]
                 c == ideal.Q[n]
                 s == <<a, b, c>>
      <4>1. IsSequence(s, 3) /\ s[1] = a /\ s[2] = b /\ s[3] = c /\ 3 \in 2..5
        BY DEF IsSequence
      <4> HIDE DEF s, a, b, c
      <4>2. ASSUME NEW i PROVE i \in XorAll(s) <=> i \in XorBits(XorBits(b, c), a)
        <5>1. i \in XorAll(s) <=> ((i \in s[1] <=> i \in s[2]) <=> i \in s[3])
          BY <4>1, XorAllFive
        <5>2. i \in XorBits(XorBits(b, c), a) <=> ((i \in b <=> i \in c) <=> i \in a)
          BY XorTwice
        <5> QED BY <4>1, <5>1, <5>2
      <4>3. XorAll(s) = XorBits(XorBits(b, c), a)
        BY <4>2
      <4> QED BY <4>3 DEF s, a, b, c
    <3>3. code' = ideal'
      <4>1. code' = [n \in 0..63 |-> XorAll(<<h[n], ideal.P[n], ideal.Q[n]>>)]
        BY <2>1, <3>1 DEF F512End
      <4> HIDE DEF h
      <4> QED BY <3>1, <3>2, <4>1
    <3>4. round' \in 0..21 /\ ~(round' <= 20)
      BY <2>1, <3>1
    <3> QED BY <2>1, <3>3, <3>4 DEF GroestlInv
  <2> QED BY <2>2, <2>3, <2>4
<1> QED BY <1>1, <1>2, <1>3

(* The compression of Groestl is as it is defined, whatever its bytes      *)
(* (c_groestl.c:27-160, 179-203).                                          *)
THEOREM GroestlHolds ==
  CallSpec => []GroestlAsDefined
<1>1. GroestlInv => GroestlAsDefined
  BY DEF GroestlInv, GroestlAsDefined, Of
<1> QED BY <1>1, GroestlInitially, GroestlNext, PTL DEF CallSpec

-----------------------------------------------------------------------------
(* AES: blocks of 16 bytes and words of four. *)

FourBytes == [1..4 -> Byte]
Sixteen == [1..16 -> Byte]

(* The bytes of four words, one behind the other. *)
Block(a, b, c, d) ==
  [k \in 1..16 |-> IF k <= 4 THEN a[k] ELSE IF k <= 8 THEN b[k - 4] ELSE IF k <= 12 THEN c[k - 8] ELSE d[k - 12]]

Behind(a, b, c, d) == a \o b \o c \o d

(* Four words behind each other are a block, and its words are they. *)
LEMMA BlockIs ==
  ASSUME NEW a \in FourBytes, NEW b \in FourBytes, NEW c \in FourBytes, NEW d \in FourBytes
  PROVE  Behind(a, b, c, d) = Block(a, b, c, d) /\ Block(a, b, c, d) \in Sixteen
<1> DEFINE u == a \o b
           v == u \o c
           w == v \o d
<1>1. IsSequence(a, 4) /\ IsSequence(b, 4) /\ IsSequence(c, 4) /\ IsSequence(d, 4) /\ 4 \in Nat /\ 8 \in Nat /\ 12 \in Nat
  BY DEF FourBytes, IsSequence
<1>2. IsSequence(u, 8) /\ \A i \in 1..8 : u[i] = IF i <= 4 THEN a[i] ELSE b[i - 4]
  <2>1. Joined(a \o b, a, 4, b, 4)
    BY <1>1, ConcatIs
  <2>2. 4 + 4 = 8
    OBVIOUS
  <2> QED BY <2>1, <2>2 DEF Joined
<1> HIDE DEF u
<1>3. IsSequence(v, 12) /\ \A i \in 1..12 : v[i] = IF i <= 8 THEN u[i] ELSE c[i - 8]
  <2>1. Joined(u \o c, u, 8, c, 4)
    BY <1>1, <1>2, ConcatIs
  <2>2. 8 + 4 = 12
    OBVIOUS
  <2> QED BY <2>1, <2>2 DEF Joined
<1> HIDE DEF v
<1>4. IsSequence(w, 16) /\ \A i \in 1..16 : w[i] = IF i <= 12 THEN v[i] ELSE d[i - 12]
  <2>1. Joined(v \o d, v, 12, d, 4)
    BY <1>1, <1>3, ConcatIs
  <2>2. 12 + 4 = 16
    OBVIOUS
  <2> QED BY <2>1, <2>2 DEF Joined
<1> HIDE DEF w
<1>5. \A k \in 1..16 : w[k] = Block(a, b, c, d)[k]
  BY <1>2, <1>3, <1>4 DEF Block
<1>6. w = Block(a, b, c, d)
  BY <1>4, <1>5 DEF IsSequence, Block
<1>7. Block(a, b, c, d) \in Sixteen
  BY DEF Block, Sixteen, FourBytes
<1> QED BY <1>6, <1>7, Zenon DEF Behind, u, v, w

(* The words of a block. *)
LEMMA DwordIs ==
  ASSUME NEW a \in FourBytes, NEW b \in FourBytes, NEW c \in FourBytes, NEW d \in FourBytes
  PROVE  /\ Dword(Block(a, b, c, d), 1) = b
         /\ Dword(Block(a, b, c, d), 2) = c
         /\ Dword(Block(a, b, c, d), 3) = d
<1> DEFINE x == Block(a, b, c, d)
<1>1. IsSequence(x, 16) /\ 16 \in Nat
  BY DEF Block, IsSequence
<1>2. ASSUME NEW i \in 1..3 PROVE Dword(x, i) = [k \in 1..4 |-> x[4 * i + k]]
  <2> DEFINE f == 4 * i + 1
             l == 4 * i + 4
  <2>1. f \in 1..(16 + 1) /\ l \in 0..16 /\ f <= l + 1 /\ l - f + 1 = 4 /\ \A k \in 1..4 : f + k - 1 = 4 * i + k
    OBVIOUS
  <2> HIDE DEF f, l, x
  <2>2. SubSeq(x, f, l) = [k \in 1..(l - f + 1) |-> x[f + k - 1]]
    BY <1>1, <2>1, PartIs
  <2>3. SubSeq(x, f, l) = [k \in 1..4 |-> x[4 * i + k]]
    BY <2>1, <2>2
  <2> QED BY <2>3 DEF Dword, f, l
<1>3. /\ \A k \in 1..4 : x[4 * 1 + k] = b[k] /\ x[4 * 2 + k] = c[k] /\ x[4 * 3 + k] = d[k]
  BY DEF Block
<1> HIDE DEF x
<1>4. Dword(x, 1) = b /\ Dword(x, 2) = c /\ Dword(x, 3) = d
  BY <1>2, <1>3 DEF FourBytes
<1> QED BY <1>4 DEF x

(* The exclusive or of m sequences of n bytes. *)
LEMMA XorWordsIs ==
  ASSUME NEW m \in Nat \ {0}, NEW n \in Nat, NEW s, IsSequence(s, m), \A i \in 1..m : s[i] \in [1..n -> Byte]
  PROVE  /\ XorWords(s) = [k \in 1..n |-> XorAll([i \in 1..m |-> s[i][k]])]
         /\ XorWords(s) \in [1..n -> Byte]
<1> DEFINE r == [k \in 1..n |-> XorAll([i \in 1..m |-> s[i][k]])]
<1>1. Len(s[1]) = n
  <2>1. s[1] \in [1..n -> Byte]
    OBVIOUS
  <2>2. IsSequence(s[1], n)
    BY <2>1 DEF IsSequence
  <2> QED BY <2>2, LengthIs
<1>2. DOMAIN s = 1..m
  BY DEF IsSequence
<1>3. r \o <<>> = r
  <2>1. IsSequence(r, n)
    BY DEF IsSequence
  <2> HIDE DEF r
  <2> QED BY <2>1, Whole
<1>4. XorWords(s) = r
  BY <1>1, <1>2, <1>3, Zenon DEF XorWords
<1>5. ASSUME NEW k \in 1..n PROVE XorAll([i \in 1..m |-> s[i][k]]) \in Byte
  <2> DEFINE t == [i \in 1..m |-> s[i][k]]
  <2>1. IsSequence(t, m) /\ \A i \in 1..m : t[i] \in Byte
    BY DEF IsSequence
  <2> HIDE DEF t
  <2>2. XorAll(t) \in Byte
    BY <2>1, XorBytes
  <2> QED BY <2>2 DEF t
<1>6. r \in [1..n -> Byte]
  BY <1>5
<1> QED BY <1>4, <1>6

(* The exclusive or of two sequences of n bytes, bit by bit. *)
Xored(x, a, b, n) ==
  /\ x \in [1..n -> Byte]
  /\ \A k \in 1..n, i \in 0..7 : i \in x[k] <=> ~(i \in a[k] <=> i \in b[k])

(* The exclusive or of two sequences of bytes is taken byte by byte.       *)
LEMMA XorOfTwo ==
  ASSUME NEW n \in Nat, NEW a \in [1..n -> Byte], NEW b \in [1..n -> Byte]
  PROVE  Xored(XorWords(<<a, b>>), a, b, n)
<1> DEFINE s == <<a, b>>
<1>1. IsSequence(s, 2) /\ s[1] = a /\ s[2] = b /\ 2 \in Nat \ {0}
  BY DEF IsSequence
<1>2. \A i \in 1..2 : s[i] \in [1..n -> Byte]
  BY <1>1
<1> HIDE DEF s
<1>3. XorWords(s) = [k \in 1..n |-> XorAll([i \in 1..2 |-> s[i][k]])] /\ XorWords(s) \in [1..n -> Byte]
  BY <1>1, <1>2, XorWordsIs
<1>4. ASSUME NEW k \in 1..n, NEW i PROVE i \in XorWords(s)[k] <=> ~(i \in a[k] <=> i \in b[k])
  <2> DEFINE t == [j \in 1..2 |-> s[j][k]]
  <2>1. IsSequence(t, 2) /\ t[1] = a[k] /\ t[2] = b[k] /\ 2 \in 2..5
    BY <1>1 DEF IsSequence
  <2>2. XorWords(s)[k] = XorAll(t)
    BY <1>3
  <2> HIDE DEF t
  <2>3. i \in XorAll(t) <=> ~(i \in t[1] <=> i \in t[2])
    BY <2>1, XorAllFive
  <2> QED BY <2>1, <2>2, <2>3
<1> QED BY <1>3, <1>4 DEF Xored, s

(* Sequences of bytes are equal when their bits are. *)
LEMMA SameBytes ==
  ASSUME NEW n \in Nat, NEW x \in [1..n -> Byte], NEW y \in [1..n -> Byte],
         \A k \in 1..n, i \in 0..7 : i \in x[k] <=> i \in y[k]
  PROVE  x = y
<1>1. \A k \in 1..n : x[k] = y[k]
  <2> TAKE k \in 1..n
  <2>1. x[k] \subseteq 0..7 /\ y[k] \subseteq 0..7
    BY DEF Byte
  <2> QED BY <2>1
<1> QED BY <1>1

(* A block shifted by n words. *)
LEMMA ShiftedIs ==
  ASSUME NEW x \in Sixteen, NEW n \in 1..3
  PROVE  [k \in 1..4 * n |-> {}] \o SubSeq(x, 1, 16 - 4 * n) = [k \in 1..16 |-> IF k <= 4 * n THEN {} ELSE x[k - 4 * n]]
<1> DEFINE m == 4 * n
           l == 16 - 4 * n
           z == [k \in 1..m |-> {}]
           p == SubSeq(x, 1, l)
           w == z \o p
<1>1. m \in Nat /\ l \in 0..16 /\ l \in Nat /\ m + l = 16 /\ 16 \in Nat /\ 1 \in 1..(16 + 1) /\ 1 <= l + 1 
      /\ l - 1 + 1 = l /\ m \in {4, 8, 12} /\ \A k \in 1..16 : 1 + k - 1 = k
  OBVIOUS
<1>2. IsSequence(x, 16)
  BY DEF Sixteen, IsSequence
<1> HIDE DEF l, m
<1>3. p = [k \in 1..l |-> x[k]]
  <2>1. p = [k \in 1..(l - 1 + 1) |-> x[1 + k - 1]]
    BY ONLY <1>1, <1>2, PartIs
  <2>2. \A k \in 1..l : 1 + k - 1 = k
    BY <1>1
  <2> HIDE DEF p
  <2> QED BY <1>1, <2>1, <2>2
<1>4. IsSequence(z, m) /\ \A k \in 1..m : z[k] = {}
  BY DEF IsSequence
<1> HIDE DEF p, z
<1>5. IsSequence(p, l)
  BY <1>3 DEF IsSequence
<1>6. Joined(w, z, m, p, l)
  BY <1>1, <1>4, <1>5, ConcatIs
<1> HIDE DEF w
<1>7. IsSequence(w, 16) /\ \A k \in 1..16 : w[k] = IF k <= m THEN z[k] ELSE p[k - m]
  BY <1>1, <1>6 DEF Joined
<1>8. \A k \in 1..16 : w[k] = IF k <= m THEN {} ELSE x[k - m]
  <2> TAKE k \in 1..16
  <2>1. CASE k <= m
    <3>1. k \in 1..m
      BY <1>1, <2>1
    <3> QED BY <1>4, <1>7, <2>1, <3>1
  <2>2. CASE ~(k <= m)
    <3>1. k - m \in 1..l
      BY <1>1, <2>2
    <3>2. w[k] = p[k - m]
      BY <1>7, <2>2
    <3> QED BY <1>3, <2>2, <3>1, <3>2
  <2> QED BY <2>1, <2>2
<1> QED BY <1>7, <1>8 DEF IsSequence, w, z, p, l, m

(* A block and what it is when shifted by one, two and three words. *)
LEMMA SlXorIs ==
  ASSUME NEW x \in Sixteen
  PROVE  /\ sl_xor_words(x) \in Sixteen
         /\ \A k \in 1..4, i \in 0..7 :
              /\ i \in sl_xor_words(x)[k] <=> i \in x[k]
              /\ i \in sl_xor_words(x)[4 + k] <=> ~(i \in x[4 + k] <=> i \in x[k])
              /\ i \in sl_xor_words(x)[8 + k] <=> ((i \in x[8 + k] <=> i \in x[4 + k]) <=> i \in x[k])
              /\ i \in sl_xor_words(x)[12 + k] <=>
                   ~(((i \in x[12 + k] <=> i \in x[8 + k]) <=> i \in x[4 + k]) <=> i \in x[k])
<1> DEFINE S(n) == [k \in 1..4 * n |-> {}] \o SubSeq(x, 1, 16 - 4 * n)
           s == <<x, S(1), S(2), S(3)>>
           y == XorWords(s)
<1>1. \A n \in 1..3 : S(n) = [k \in 1..16 |-> IF k <= 4 * n THEN {} ELSE x[k - 4 * n]]
  BY ShiftedIs
<1> HIDE DEF S
<1>2. /\ S(1) = [k \in 1..16 |-> IF k <= 4 THEN {} ELSE x[k - 4]]
      /\ S(2) = [k \in 1..16 |-> IF k <= 8 THEN {} ELSE x[k - 8]]
      /\ S(3) = [k \in 1..16 |-> IF k <= 12 THEN {} ELSE x[k - 12]]
  BY <1>1
<1>3. S(1) \in Sixteen /\ S(2) \in Sixteen /\ S(3) \in Sixteen
  <2>1. \A k \in 1..16 : /\ ~(k <= 4) => x[k - 4] \in Byte
                         /\ ~(k <= 8) => x[k - 8] \in Byte
                         /\ ~(k <= 12) => x[k - 12] \in Byte
                         /\ {} \in Byte
    BY DEF Sixteen, Byte
  <2> QED BY <1>2, <2>1 DEF Sixteen
<1>4. IsSequence(s, 4) /\ s[1] = x /\ s[2] = S(1) /\ s[3] = S(2) /\ s[4] = S(3) /\ 4 \in Nat \ {0} /\ 16 \in Nat
  BY DEF IsSequence
<1>5. \A j \in 1..4 : s[j] \in [1..16 -> Byte]
  BY <1>3, <1>4 DEF Sixteen
<1> HIDE DEF s
<1>6. y = [k \in 1..16 |-> XorAll([j \in 1..4 |-> s[j][k]])] /\ y \in [1..16 -> Byte]
  BY <1>4, <1>5, XorWordsIs
<1> HIDE DEF y
<1>7. ASSUME NEW k \in 1..16, NEW i
      PROVE  i \in y[k] <=> ~(((i \in x[k] <=> i \in S(1)[k]) <=> i \in S(2)[k]) <=> i \in S(3)[k])
  <2> DEFINE t == [j \in 1..4 |-> s[j][k]]
  <2>1. IsSequence(t, 4) /\ t[1] = x[k] /\ t[2] = S(1)[k] /\ t[3] = S(2)[k] /\ t[4] = S(3)[k] /\ 4 \in 2..5
    BY <1>4 DEF IsSequence
  <2>2. y[k] = XorAll(t)
    BY <1>6
  <2> HIDE DEF t
  <2>3. i \in XorAll(t) <=> ~(((i \in t[1] <=> i \in t[2]) <=> i \in t[3]) <=> i \in t[4])
    BY <2>1, XorAllFive
  <2> QED BY <2>1, <2>2, <2>3
<1>8. ASSUME NEW k \in 1..4, NEW i \in 0..7
      PROVE   /\ i \in y[k] <=> i \in x[k]
              /\ i \in y[4 + k] <=> ~(i \in x[4 + k] <=> i \in x[k])
              /\ i \in y[8 + k] <=> ((i \in x[8 + k] <=> i \in x[4 + k]) <=> i \in x[k])
              /\ i \in y[12 + k] <=>
                   ~(((i \in x[12 + k] <=> i \in x[8 + k]) <=> i \in x[4 + k]) <=> i \in x[k])
  <2>1. S(1)[k] = {} /\ S(2)[k] = {} /\ S(3)[k] = {}
    BY <1>2
  <2>2. S(1)[4 + k] = x[k] /\ S(2)[4 + k] = {} /\ S(3)[4 + k] = {}
    BY <1>2
  <2>3. S(1)[8 + k] = x[4 + k] /\ S(2)[8 + k] = x[k] /\ S(3)[8 + k] = {}
    BY <1>2
  <2>4. S(1)[12 + k] = x[8 + k] /\ S(2)[12 + k] = x[4 + k] /\ S(3)[12 + k] = x[k]
    BY <1>2
  <2>5. k \in 1..16 /\ 4 + k \in 1..16 /\ 8 + k \in 1..16 /\ 12 + k \in 1..16
    OBVIOUS
  <2>6. i \in y[k] <=> i \in x[k]
    BY <1>7, <2>1, <2>5
  <2>7. i \in y[4 + k] <=> ~(i \in x[4 + k] <=> i \in x[k])
    BY <1>7, <2>2, <2>5
  <2>8. i \in y[8 + k] <=> ((i \in x[8 + k] <=> i \in x[4 + k]) <=> i \in x[k])
    BY <1>7, <2>3, <2>5
  <2>9. i \in y[12 + k] <=> ~(((i \in x[12 + k] <=> i \in x[8 + k]) <=> i \in x[4 + k]) <=> i \in x[k])
    BY <1>7, <2>4, <2>5
  <2> QED BY <2>6, <2>7, <2>8, <2>9
<1>9. sl_xor_words(x) = y
  BY Zenon DEF sl_xor_words, y, s, S
<1> QED BY <1>6, <1>8, <1>9 DEF Sixteen

(* Words that are each the one before it and the word of a key. *)
Chained(v, w, e) ==
  /\ v[1] = XorWords(<<w[1], e>>)
  /\ \A k \in 1..3 : v[k + 1] = XorWords(<<w[k + 1], v[k]>>)

Words4(w) == Block(w[1], w[2], w[3], w[4])

(* The words of a block are chained at once by what sl_xor does. *)
LEMMA SpreadIs ==
  ASSUME NEW w \in [1..4 -> FourBytes], NEW e \in FourBytes, NEW v, Chained(v, w, e)
  PROVE  /\ XorWords(<<sl_xor_words(Words4(w)), Block(e, e, e, e)>>) = Words4(v)
         /\ \A k \in 1..4 : v[k] \in FourBytes
<1> DEFINE x == Words4(w)
           z == Block(e, e, e, e)
           y == sl_xor_words(x)
           r == XorWords(<<y, z>>)
           q == Words4(v)
<1>1. 4 \in Nat /\ 16 \in Nat /\ \A k \in 1..4 : w[k] \in [1..4 -> Byte]
  BY DEF FourBytes
<1>2. /\ v[1] = XorWords(<<w[1], e>>) /\ v[2] = XorWords(<<w[2], v[1]>>)
      /\ v[3] = XorWords(<<w[3], v[2]>>) /\ v[4] = XorWords(<<w[4], v[3]>>)
  <2>1. 1 \in 1..3 /\ 2 \in 1..3 /\ 3 \in 1..3 /\ 1 + 1 = 2 /\ 2 + 1 = 3 /\ 3 + 1 = 4
    OBVIOUS
  <2> QED BY <2>1 DEF Chained
<1>3. Xored(v[1], w[1], e, 4)
  <2>1. e \in [1..4 -> Byte] /\ w[1] \in [1..4 -> Byte]
    BY <1>1 DEF FourBytes
  <2> QED BY <1>1, <1>2, <2>1, XorOfTwo
<1>4. Xored(v[2], w[2], v[1], 4)
  <2>1. v[1] \in [1..4 -> Byte] /\ w[2] \in [1..4 -> Byte]
    BY <1>1, <1>3 DEF Xored
  <2> QED BY <1>1, <1>2, <2>1, XorOfTwo
<1>5. Xored(v[3], w[3], v[2], 4)
  <2>1. v[2] \in [1..4 -> Byte] /\ w[3] \in [1..4 -> Byte]
    BY <1>1, <1>4 DEF Xored
  <2> QED BY <1>1, <1>2, <2>1, XorOfTwo
<1>6. Xored(v[4], w[4], v[3], 4)
  <2>1. v[3] \in [1..4 -> Byte] /\ w[4] \in [1..4 -> Byte]
    BY <1>1, <1>5 DEF Xored
  <2> QED BY <1>1, <1>2, <2>1, XorOfTwo
<1>7. \A k \in 1..4 : v[k] \in FourBytes
  BY <1>3, <1>4, <1>5, <1>6 DEF Xored, FourBytes
<1>8. x \in Sixteen /\ z \in Sixteen /\ q \in Sixteen
  BY <1>7 DEF Words4, Block, Sixteen, FourBytes
<1>9. \A k \in 1..4 : /\ x[k] = w[1][k] /\ x[4 + k] = w[2][k] /\ x[8 + k] = w[3][k] /\ x[12 + k] = w[4][k]
                      /\ q[k] = v[1][k] /\ q[4 + k] = v[2][k] /\ q[8 + k] = v[3][k] /\ q[12 + k] = v[4][k]
                      /\ z[k] = e[k] /\ z[4 + k] = e[k] /\ z[8 + k] = e[k] /\ z[12 + k] = e[k]
  BY DEF Words4, Block
<1> HIDE DEF x, z, q
<1>10. y \in Sixteen
  BY <1>8, SlXorIs
<1>11. Xored(r, y, z, 16)
  <2> HIDE DEF y
  <2> QED BY <1>1, <1>8, <1>10, XorOfTwo DEF Sixteen
<1>12. ASSUME NEW k \in 1..4, NEW i \in 0..7
       PROVE  /\ i \in r[k] <=> i \in q[k]
              /\ i \in r[4 + k] <=> i \in q[4 + k]
              /\ i \in r[8 + k] <=> i \in q[8 + k]
              /\ i \in r[12 + k] <=> i \in q[12 + k]
  <2>1. /\ i \in y[k] <=> i \in x[k]
        /\ i \in y[4 + k] <=> ~(i \in x[4 + k] <=> i \in x[k])
        /\ i \in y[8 + k] <=> ((i \in x[8 + k] <=> i \in x[4 + k]) <=> i \in x[k])
        /\ i \in y[12 + k] <=> ~(((i \in x[12 + k] <=> i \in x[8 + k]) <=> i \in x[4 + k]) <=> i \in x[k])
    BY <1>8, SlXorIs
  <2>2. k \in 1..16 /\ 4 + k \in 1..16 /\ 8 + k \in 1..16 /\ 12 + k \in 1..16
    OBVIOUS
  <2> HIDE DEF r, y
  <2>3. /\ i \in r[k] <=> ~(i \in y[k] <=> i \in z[k])
        /\ i \in r[4 + k] <=> ~(i \in y[4 + k] <=> i \in z[4 + k])
        /\ i \in r[8 + k] <=> ~(i \in y[8 + k] <=> i \in z[8 + k])
        /\ i \in r[12 + k] <=> ~(i \in y[12 + k] <=> i \in z[12 + k])
    BY <1>11, <2>2 DEF Xored
  <2>4. /\ i \in v[1][k] <=> ~(i \in w[1][k] <=> i \in e[k])
        /\ i \in v[2][k] <=> ~(i \in w[2][k] <=> i \in v[1][k])
        /\ i \in v[3][k] <=> ~(i \in w[3][k] <=> i \in v[2][k])
        /\ i \in v[4][k] <=> ~(i \in w[4][k] <=> i \in v[3][k])
    BY <1>3, <1>4, <1>5, <1>6 DEF Xored
  <2> QED BY <1>9, <2>1, <2>3, <2>4
<1>13. \A m \in 1..16, i \in 0..7 : i \in r[m] <=> i \in q[m]
  <2> TAKE m \in 1..16, i \in 0..7
  <2>1. \/ m \in 1..4
        \/ m - 4 \in 1..4 /\ 4 + (m - 4) = m
        \/ m - 8 \in 1..4 /\ 8 + (m - 8) = m
        \/ m - 12 \in 1..4 /\ 12 + (m - 12) = m
    OBVIOUS
  <2> HIDE DEF r
  <2>2. CASE m \in 1..4
    BY <1>12, <2>2
  <2>3. CASE m - 4 \in 1..4 /\ 4 + (m - 4) = m
    <3>1. i \in r[4 + (m - 4)] <=> i \in q[4 + (m - 4)]
      BY <1>12, <2>3
    <3> QED BY <2>3, <3>1
  <2>4. CASE m - 8 \in 1..4 /\ 8 + (m - 8) = m
    <3>1. i \in r[8 + (m - 8)] <=> i \in q[8 + (m - 8)]
      BY <1>12, <2>4
    <3> QED BY <2>4, <3>1
  <2>5. CASE m - 12 \in 1..4 /\ 12 + (m - 12) = m
    <3>1. i \in r[12 + (m - 12)] <=> i \in q[12 + (m - 12)]
      BY <1>12, <2>5
    <3> QED BY <2>5, <3>1
  <2> QED BY <2>1, <2>2, <2>3, <2>4, <2>5
<1> HIDE DEF r
<1>14. r = q
  <2>1. r \in [1..16 -> Byte] /\ q \in [1..16 -> Byte]
    BY <1>8, <1>11 DEF Xored, Sixteen
  <2> QED BY <1>1, <1>13, <2>1, SameBytes
<1> QED BY <1>7, <1>14 DEF r, y, x, z, q

(* The code and the definition substitute a word alike. *)
LEMMA SubWordIs ==
  ASSUME NEW w \in FourBytes
  PROVE  /\ sub_word(w) = SubWord(w) /\ sub_word(w) = [k \in 1..4 |-> SubByte(w[k])]
         /\ sub_word(w) \in FourBytes
<1> DEFINE s == [k \in 1..4 |-> saes_sbox(w[k])]
           t == [k \in 1..4 |-> SubBytes[Number(w[k]) + 1]]
           u == [k \in 1..4 |-> SubByte(w[k])]
<1>1. ASSUME NEW k \in 1..4
      PROVE  saes_sbox(w[k]) = SubByte(w[k]) /\ SubBytes[Number(w[k]) + 1] = SubByte(w[k]) /\ SubByte(w[k]) \in Byte
  <2> DEFINE b == w[k]
  <2>1. b \in Byte
    BY DEF FourBytes
  <2> HIDE DEF b
  <2>2. saes_sbox(b) = SubByte(b) /\ SubBytes[Number(b) + 1] = SubByte(b) /\ SubByte(b) \in Byte
    BY <2>1, SubBytesIs
  <2> QED BY <2>2 DEF b
<1>2. s = u /\ t = u /\ u \in FourBytes
  BY <1>1 DEF FourBytes
<1>3. s \o <<>> = s /\ t \o <<>> = t
  <2>1. IsSequence(s, 4) /\ IsSequence(t, 4) /\ 4 \in Nat
    BY DEF IsSequence
  <2> HIDE DEF s, t
  <2> QED BY <2>1, Whole
<1> QED BY <1>2, <1>3 DEF sub_word, SubWord

(* The word that one of the constants enters. *)
LEMMA ConstantWordIs ==
  ASSUME NEW w \in FourBytes, NEW c \in Byte
  PROVE  /\ XorWords(<<_rotr8(sub_word(w)), <<c, {}, {}, {}>>>>) = XorWords(<<SubWord(RotWord(w)), <<c, {}, {}, {}>>>>)
         /\ XorWords(<<_rotr8(sub_word(w)), <<c, {}, {}, {}>>>>) \in FourBytes
<1> DEFINE r == RotWord(w)
           a == _rotr8(sub_word(w))
           d == <<c, {}, {}, {}>>
<1>1. r \in FourBytes /\ r[1] = w[2] /\ r[2] = w[3] /\ r[3] = w[4] /\ r[4] = w[1]
  <2>1. w[1] \in Byte /\ w[2] \in Byte /\ w[3] \in Byte /\ w[4] \in Byte
    BY DEF FourBytes
  <2> QED BY <2>1 DEF RotWord, FourBytes
<1>2. sub_word(w) = [k \in 1..4 |-> SubByte(w[k])]
  BY SubWordIs
<1> HIDE DEF r
<1>3. SubWord(r) = [k \in 1..4 |-> SubByte(r[k])] /\ SubWord(r) \in FourBytes
  BY <1>1, SubWordIs
<1>4. a = SubWord(r)
  <2>1. a = <<SubByte(w[2]), SubByte(w[3]), SubByte(w[4]), SubByte(w[1])>>
    BY <1>2 DEF _rotr8
  <2>2. \A k \in 1..4 : a[k] = SubWord(r)[k]
    BY <1>1, <1>3, <2>1
  <2>3. DOMAIN a = 1..4 /\ a = [k \in 1..4 |-> a[k]]
    BY <2>1
  <2> HIDE DEF a
  <2> QED BY <1>3, <2>2, <2>3
<1>5. d \in FourBytes
  <2>1. {} \in Byte
    BY DEF Byte
  <2> QED BY <2>1 DEF FourBytes
<1> HIDE DEF a, d
<1>6. a \in FourBytes
  BY <1>3, <1>4
<1>7. XorWords(<<a, d>>) \in FourBytes
  <2>1. 4 \in Nat /\ a \in [1..4 -> Byte] /\ d \in [1..4 -> Byte]
    BY <1>5, <1>6 DEF FourBytes
  <2>2. Xored(XorWords(<<a, d>>), a, d, 4)
    BY <2>1, XorOfTwo
  <2> QED BY <2>2 DEF Xored, FourBytes
<1> QED BY <1>4, <1>7 DEF a, d, r

(* Words three and two of what the instruction for a key gives. *)
Assists(y, d, r) ==
  /\ Dword(y, 3) = XorWords(<<SubWord(RotWord(d)), <<r, {}, {}, {}>>>>)
  /\ Dword(y, 2) = SubWord(d)
  /\ XorWords(<<SubWord(RotWord(d)), <<r, {}, {}, {}>>>>) \in FourBytes
  /\ SubWord(d) \in FourBytes

(* What the assist of the key schedule computes with columns of the table  *)
(* is the substituted and the rotated word.                                *)
LEMMA AssistIs ==
  ASSUME NEW a \in FourBytes, NEW b \in FourBytes, NEW c \in FourBytes, NEW d \in FourBytes, NEW r \in Byte
  PROVE  Assists(soft_aeskeygenassist(Block(a, b, c, d), r), d, r)
<1> DEFINE x == Block(a, b, c, d)
           X1 == sub_word(b)
           X3 == sub_word(d)
           C1 == XorWords(<<_rotr8(X1), <<r, {}, {}, {}>>>>)
           C3 == XorWords(<<_rotr8(X3), <<r, {}, {}, {}>>>>)
<1>1. Dword(x, 1) = b /\ Dword(x, 3) = d
  BY DwordIs
<1> HIDE DEF x
<1>2. soft_aeskeygenassist(x, r) = X1 \o C1 \o X3 \o C3
  BY <1>1 DEF soft_aeskeygenassist
<1>3. X1 \in FourBytes /\ X3 \in FourBytes /\ X3 = SubWord(d)
  BY SubWordIs
<1>4. C1 \in FourBytes /\ C3 \in FourBytes /\ C3 = XorWords(<<SubWord(RotWord(d)), <<r, {}, {}, {}>>>>)
  BY ConstantWordIs
<1> HIDE DEF X1, X3, C1, C3
<1>5. X1 \o C1 \o X3 \o C3 = Block(X1, C1, X3, C3)
  <2>1. Behind(X1, C1, X3, C3) = Block(X1, C1, X3, C3)
    BY <1>3, <1>4, BlockIs
  <2> QED BY <2>1, Zenon DEF Behind
<1>6. Dword(Block(X1, C1, X3, C3), 2) = X3 /\ Dword(Block(X1, C1, X3, C3), 3) = C3
  BY <1>3, <1>4, DwordIs
<1> QED BY <1>2, <1>3, <1>4, <1>5, <1>6 DEF Assists, x

Schedules == [1..8 -> FourBytes]
Pair(w) == <<KeyOf(w, 1), KeyOf(w, 5)>>

(* The next pair of keys is the next eight words of the schedule. *)
LEMMA KeysAre ==
  ASSUME NEW w \in Schedules, NEW i \in 0..7
  PROVE  /\ soft_aes_genkey_sub(Pair(w), {i}) = Pair(NextWords(w, i))
         /\ NextWords(w, i) \in Schedules
<1> DEFINE r == {i}
           lo == [k \in 1..4 |-> w[k]]
           hi == [k \in 1..4 |-> w[k + 4]]
           e1 == XorWords(<<SubWord(RotWord(w[8])), <<r, {}, {}, {}>>>>)
           v1 == XorWords(<<w[1], e1>>)
           v2 == XorWords(<<w[2], v1>>)
           v3 == XorWords(<<w[3], v2>>)
           v4 == XorWords(<<w[4], v3>>)
           e2 == SubWord(v4)
           v5 == XorWords(<<w[5], e2>>)
           v6 == XorWords(<<w[6], v5>>)
           v7 == XorWords(<<w[7], v6>>)
           v8 == XorWords(<<w[8], v7>>)
           n == <<v1, v2, v3, v4, v5, v6, v7, v8>>
           f == <<v1, v2, v3, v4>>
           g == <<v5, v6, v7, v8>>
           k1 == KeyOf(w, 1)
           k2 == KeyOf(w, 5)
           z1 == Dword(soft_aeskeygenassist(k2, r), 3)
           x1 == XorWords(<<sl_xor_words(k1), z1 \o z1 \o z1 \o z1>>)
           z2 == Dword(soft_aeskeygenassist(x1, {}), 2)
           x2 == XorWords(<<sl_xor_words(k2), z2 \o z2 \o z2 \o z2>>)
<1>1. r \in Byte /\ {} \in Byte
  BY DEF Byte
<1>2. \A k \in 1..8 : w[k] \in FourBytes
  BY DEF Schedules
<1>3. lo \in [1..4 -> FourBytes] /\ hi \in [1..4 -> FourBytes]
      /\ lo[1] = w[1] /\ lo[2] = w[2] /\ lo[3] = w[3] /\ lo[4] = w[4]
      /\ hi[1] = w[5] /\ hi[2] = w[6] /\ hi[3] = w[7] /\ hi[4] = w[8]
  BY <1>2
<1>4. NextWords(w, i) = n
  BY Zenon DEF NextWords
<1>5. soft_aes_genkey_sub(Pair(w), {i}) = <<x1, x2>>
  <2>1. Pair(w)[1] = k1 /\ Pair(w)[2] = k2
    BY DEF Pair
  <2> HIDE DEF k1, k2
  <2> QED BY <2>1, Zenon DEF soft_aes_genkey_sub
<1>6. k1 = Words4(lo) /\ k2 = Words4(hi)
  <2>1. k1 = w[1] \o w[2] \o w[3] \o w[4] /\ k2 = w[5] \o w[6] \o w[7] \o w[8]
    BY DEF KeyOf
  <2> DEFINE a1 == w[1] a2 == w[2] a3 == w[3] a4 == w[4] a5 == w[5] a6 == w[6] a7 == w[7] a8 == w[8]
  <2>2. /\ a1 \in FourBytes /\ a2 \in FourBytes /\ a3 \in FourBytes /\ a4 \in FourBytes 
        /\ a5 \in FourBytes /\ a6 \in FourBytes /\ a7 \in FourBytes /\ a8 \in FourBytes
    BY <1>2
  <2> HIDE DEF a1, a2, a3, a4, a5, a6, a7, a8, lo, hi, k1, k2
  <2>3. Behind(a1, a2, a3, a4) = Block(a1, a2, a3, a4) /\ Behind(a5, a6, a7, a8) = Block(a5, a6, a7, a8)
    BY <2>2, BlockIs
  <2>4. k1 = Behind(a1, a2, a3, a4) /\ k2 = Behind(a5, a6, a7, a8)
    BY <2>1, Zenon DEF Behind, a1, a2, a3, a4, a5, a6, a7, a8
  <2>5. Words4(lo) = Block(a1, a2, a3, a4) /\ Words4(hi) = Block(a5, a6, a7, a8)
    BY <1>3 DEF Words4, a1, a2, a3, a4, a5, a6, a7, a8
  <2> QED BY <2>3, <2>4, <2>5
<1> HIDE DEF k1, k2
<1>7. z1 = e1 /\ e1 \in FourBytes
  <2> DEFINE a5 == w[5] a6 == w[6] a7 == w[7] a8 == w[8]
  <2>1. a5 \in FourBytes /\ a6 \in FourBytes /\ a7 \in FourBytes /\ a8 \in FourBytes
    BY <1>2
  <2>2. k2 = Block(a5, a6, a7, a8)
    <3> HIDE DEF hi
    <3> QED BY <1>3, <1>6 DEF Words4
  <2> HIDE DEF a5, a6, a7, a8, r
  <2>3. Assists(soft_aeskeygenassist(Block(a5, a6, a7, a8), r), a8, r)
    BY <1>1, <2>1, AssistIs
  <2> QED BY <2>2, <2>3 DEF Assists, a8
<1> HIDE DEF lo, hi, z1, e1
<1>8. z1 \o z1 \o z1 \o z1 = Block(e1, e1, e1, e1)
  <2>1. Behind(e1, e1, e1, e1) = Block(e1, e1, e1, e1)
    BY <1>7, BlockIs
  <2> QED BY <1>7, <2>1, Zenon DEF Behind
<1>9. Chained(f, lo, e1)
  <2>1. f[1] = v1 /\ f[1 + 1] = v2 /\ f[2 + 1] = v3 /\ f[3 + 1] = v4 /\ f[2] = v2 /\ f[3] = v3
        /\ lo[1 + 1] = w[2] /\ lo[2 + 1] = w[3] /\ lo[3 + 1] = w[4]
    BY <1>3
  <2> HIDE DEF f
  <2>2. \A k \in 1..3 : k = 1 \/ k = 2 \/ k = 3
    OBVIOUS
  <2>3. /\ f[1] = XorWords(<<lo[1], e1>>) /\ f[1 + 1] = XorWords(<<lo[1 + 1], f[1]>>)
        /\ f[2 + 1] = XorWords(<<lo[2 + 1], f[2]>>) /\ f[3 + 1] = XorWords(<<lo[3 + 1], f[3]>>)
    BY <1>3, <2>1, Zenon
  <2> HIDE DEF v1, v2, v3, v4
  <2> QED BY <2>2, <2>3, Zenon DEF Chained
<1> HIDE DEF v1, v2, v3, v4, f
<1>10. x1 = Words4(f) /\ \A k \in 1..4 : f[k] \in FourBytes
  <2>1. /\ XorWords(<<sl_xor_words(Words4(lo)), Block(e1, e1, e1, e1)>>) = Words4(f)
        /\ \A k \in 1..4 : f[k] \in FourBytes
    BY <1>3, <1>7, <1>9, SpreadIs
  <2> QED BY <1>6, <1>8, <2>1
<1>11. v1 \in FourBytes /\ v2 \in FourBytes /\ v3 \in FourBytes /\ v4 \in FourBytes /\ x1 = Block(v1, v2, v3, v4)
  <2>1. f[1] = v1 /\ f[2] = v2 /\ f[3] = v3 /\ f[4] = v4
    BY DEF f
  <2> HIDE DEF x1
  <2> QED BY <1>10, <2>1 DEF Words4
<1> HIDE DEF x1
<1>12. z2 = e2 /\ e2 \in FourBytes
  <2> DEFINE o == {}
  <2>1. o \in Byte
    BY <1>1
  <2> HIDE DEF o
  <2>2. Assists(soft_aeskeygenassist(Block(v1, v2, v3, v4), o), v4, o)
    BY ONLY <1>11, <2>1, AssistIs
  <2> QED BY <1>11, <2>2 DEF Assists, o
<1> HIDE DEF z2, e2
<1>13. z2 \o z2 \o z2 \o z2 = Block(e2, e2, e2, e2)
  <2>1. Behind(e2, e2, e2, e2) = Block(e2, e2, e2, e2)
    BY <1>12, BlockIs
  <2> QED BY <1>12, <2>1, Zenon DEF Behind
<1>14. Chained(g, hi, e2)
  <2>1. g[1] = v5 /\ g[1 + 1] = v6 /\ g[2 + 1] = v7 /\ g[3 + 1] = v8 /\ g[2] = v6 /\ g[3] = v7
        /\ hi[1 + 1] = w[6] /\ hi[2 + 1] = w[7] /\ hi[3 + 1] = w[8]
    BY <1>3
  <2> HIDE DEF g
  <2>2. \A k \in 1..3 : k = 1 \/ k = 2 \/ k = 3
    OBVIOUS
  <2>3. /\ g[1] = XorWords(<<hi[1], e2>>) /\ g[1 + 1] = XorWords(<<hi[1 + 1], g[1]>>)
        /\ g[2 + 1] = XorWords(<<hi[2 + 1], g[2]>>) /\ g[3 + 1] = XorWords(<<hi[3 + 1], g[3]>>)
    BY <1>3, <2>1, Zenon
  <2> HIDE DEF v5, v6, v7, v8
  <2> QED BY <2>2, <2>3, Zenon DEF Chained
<1> HIDE DEF v5, v6, v7, v8, g
<1>15. x2 = Words4(g) /\ \A k \in 1..4 : g[k] \in FourBytes
  <2>1. /\ XorWords(<<sl_xor_words(Words4(hi)), Block(e2, e2, e2, e2)>>) = Words4(g)
        /\ \A k \in 1..4 : g[k] \in FourBytes
    BY <1>3, <1>12, <1>14, SpreadIs
  <2> QED BY <1>6, <1>13, <2>1
<1> HIDE DEF x2
<1>16. v5 \in FourBytes /\ v6 \in FourBytes /\ v7 \in FourBytes /\ v8 \in FourBytes /\ x2 = Block(v5, v6, v7, v8)
  <2>1. g[1] = v5 /\ g[2] = v6 /\ g[3] = v7 /\ g[4] = v8
    BY DEF g
  <2> QED BY <1>15, <2>1 DEF Words4
<1>17. n \in Schedules
  BY <1>11, <1>16 DEF Schedules
<1>18. Pair(n) = <<x1, x2>>
  <2>1. KeyOf(n, 1) = v1 \o v2 \o v3 \o v4 /\ KeyOf(n, 5) = v5 \o v6 \o v7 \o v8
    BY DEF KeyOf
  <2> HIDE DEF n
  <2>2. Behind(v1, v2, v3, v4) = Block(v1, v2, v3, v4) /\ Behind(v5, v6, v7, v8) = Block(v5, v6, v7, v8)
    BY <1>11, <1>16, BlockIs
  <2>3. KeyOf(n, 1) = Block(v1, v2, v3, v4) /\ KeyOf(n, 5) = Block(v5, v6, v7, v8)
    BY <2>1, <2>2, Zenon DEF Behind
  <2> QED BY <1>11, <1>16, <2>3 DEF Pair
<1> HIDE DEF n
<1> QED BY <1>4, <1>5, <1>17, <1>18

(* Byte r of what a byte in row q, which is substituted by p, adds to its  *)
(* column.                                                                 *)
Mixed(p, q, r) ==
  LET k == (q - r) % 4
  IN  IF k = 0 THEN saes_f2(p) ELSE IF k = 1 THEN saes_f3(p) ELSE p

(* A byte that is multiplied in MixColumns is a byte.                      *)
LEMMA MixedIsByte ==
  ASSUME NEW p \in Byte, NEW q, NEW r
  PROVE  Mixed(p, q, r) \in Byte
<1>1. saes_f2(p) \in Byte /\ saes_f3(p) = Times(p, {0, 1})
  BY FieldTables DEF Byte
<1>2. Times(p, {0, 1}) \in Byte
  BY DEF Times, Byte
<1> QED BY <1>1, <1>2 DEF Mixed

(* The tables hold the columns. *)
LEMMA TableIs ==
  ASSUME NEW b \in Byte, NEW i \in 1..4
  PROVE  saes_table[i][Number(b) + 1] = [k \in 1..4 |-> Mixed(SubByte(b), i - 1, k - 1)]
<1> DEFINE row(m) == [n \in 1..256 |-> saes_u(m - 1, saes_sbox(Bits(n - 1)))]
           t == [m \in 1..4 |-> row(m) \o <<>>]
           n0 == Number(b) + 1
           p == SubByte(b)
           u == <<saes_f2(p), p, p, saes_f3(p)>>
           j == i - 1
           x == SubSeq(u, 5 - j, 4)
           y == SubSeq(u, 1, 4 - j)
           w == x \o y
<1>1. n0 \in 1..256 /\ Bits(n0 - 1) = b /\ saes_sbox(b) = p
  BY SubBytesIs
<1>2. IsSequence(t, 4) /\ IsSequence(row(i), 256) /\ 4 \in Nat /\ 256 \in Nat
  BY DEF IsSequence
<1>3. row(i)[n0] = saes_u(j, p)
  <2> HIDE DEF n0, p
  <2> QED BY <1>1
<1>4. t[i] = row(i) \o <<>>
  OBVIOUS
<1>5. saes_table = t \o <<>>
  BY Zenon DEF saes_table, t, row
<1>6. saes_table[i][n0] = saes_u(j, p)
  <2> HIDE DEF t, row, n0, j, p
  <2>1. t \o <<>> = t
    BY <1>2, Whole
  <2> DEFINE z == row(i)
  <2> HIDE DEF z
  <2>2. z \o <<>> = z
    BY <1>2, Whole DEF z
  <2> QED BY <1>3, <1>4, <1>5, <2>1, <2>2 DEF z
<1>7. IsSequence(u, 4)
  BY DEF IsSequence
<1>8. x = [k \in 1..j |-> u[4 - j + k]] /\ y = [k \in 1..4 - j |-> u[k]]
  <2> DEFINE f == 5 - j
             l == 4 - j
  <2>1. f \in 1..(4 + 1) /\ 4 \in 0..4 /\ f <= 4 + 1 /\ 1 \in 1..(4 + 1) /\ l \in 0..4 /\ 1 <= l + 1
        /\ 4 - f + 1 = j /\ l - 1 + 1 = 4 - j /\ \A k \in 1..4 : f + k - 1 = 4 - j + k /\ 1 + k - 1 = k
        /\ 1..j \subseteq 1..4 /\ 1..(4 - j) \subseteq 1..4
    OBVIOUS
  <2> HIDE DEF f, l, j, u
  <2>2. SubSeq(u, f, 4) = [k \in 1..(4 - f + 1) |-> u[f + k - 1]] /\ SubSeq(u, 1, l) = [k \in 1..(l - 1 + 1) |-> u[1 + k - 1]]
    BY ONLY <1>2, <1>7, <2>1, PartIs
  <2>3. SubSeq(u, f, 4) = [k \in 1..j |-> u[4 - j + k]] /\ SubSeq(u, 1, l) = [k \in 1..4 - j |-> u[k]]
    BY <2>1, <2>2, Zenon
  <2> QED BY <2>3 DEF f, l
<1>9. j \in Nat /\ 4 - j \in Nat /\ j + (4 - j) = 4
  OBVIOUS
<1> HIDE DEF x, y, u
<1>10. IsSequence(x, j) /\ IsSequence(y, 4 - j)
  <2> HIDE DEF j
  <2> QED BY <1>8 DEF IsSequence
<1>11. IsSequence(w, 4) /\ \A k \in 1..4 : w[k] = IF k <= j THEN x[k] ELSE y[k - j]
  <2> DEFINE l == 4 - j
  <2> HIDE DEF j, l
  <2>1. IsSequence(y, l) /\ l \in Nat /\ j + l = 4
    BY <1>9, <1>10 DEF l
  <2>2. Joined(x \o y, x, j, y, l)
    BY <1>9, <1>10, <2>1, ConcatIs
  <2> QED BY <2>1, <2>2 DEF Joined
<1> HIDE DEF w
<1>12. u[1] = saes_f2(p) /\ u[2] = p /\ u[3] = p /\ u[4] = saes_f3(p)
  BY DEF u
<1>13. ASSUME NEW k \in 1..4 PROVE w[k] = Mixed(p, j, k - 1)
  <2> DEFINE d == IF k <= j THEN 4 - j + k ELSE k - j
             m == (j - (k - 1)) % 4
  <2>1. w[k] = u[d]
    <3>1. k <= j => k \in 1..j
      OBVIOUS
    <3>2. ~(k <= j) => k - j \in 1..(4 - j)
      OBVIOUS
    <3> HIDE DEF j
    <3> QED BY <1>8, <1>11, <3>1, <3>2
  <2>2. (d = 1 /\ m = 0) \/ (d = 2 /\ m = 3) \/ (d = 3 /\ m = 2) \/ (d = 4 /\ m = 1)
    OBVIOUS
  <2>3. Mixed(p, j, k - 1) = IF m = 0 THEN saes_f2(p) ELSE IF m = 1 THEN saes_f3(p) ELSE p
    BY Zenon DEF Mixed, m
  <2> HIDE DEF d, m, j, p
  <2> QED BY <1>12, <2>1, <2>2, <2>3
<1>14. w = [k \in 1..4 |-> Mixed(p, j, k - 1)]
  <2> HIDE DEF j, p
  <2> QED BY <1>11, <1>13 DEF IsSequence
<1>15. saes_u(j, p) = w
  BY Zenon DEF saes_u, w, x, y, u
<1> QED BY <1>6, <1>14, <1>15, Zenon DEF n0, j, p

(* The byte in row q that goes into column c of a state. *)
ByteOf(x, q, c) == SubByte(x[q + 4 * ((c + q) % 4) + 1])

(* A byte that goes into a column has been looked up in SubBytes, and the  *)
(* table has its multiples.                                                *)
LEMMA ByteOfIs ==
  ASSUME NEW x \in Sixteen, NEW q \in 0..3, NEW c \in 0..3
  PROVE  /\ ByteOf(x, q, c) \in Byte
         /\ SubBytes[Number(x[q + 4 * ((c + q) % 4) + 1]) + 1] = ByteOf(x, q, c)
         /\ saes_table[q + 1][Number(x[4 * ((c + q) % 4) + (q + 1)]) + 1] =
              [k \in 1..4 |-> Mixed(ByteOf(x, q, c), q, k - 1)]
<1> DEFINE n == q + 4 * ((c + q) % 4) + 1
           b == x[n]
           i == q + 1
<1>1. n \in 1..16 /\ 4 * ((c + q) % 4) + (q + 1) = n /\ i \in 1..4 /\ i - 1 = q
  OBVIOUS
<1>2. b \in Byte
  <2> HIDE DEF n
  <2> QED BY <1>1 DEF Sixteen
<1>3. ByteOf(x, q, c) = SubByte(b)
  BY Zenon DEF ByteOf
<1> HIDE DEF b, i
<1>4. SubBytes[Number(b) + 1] = SubByte(b) /\ SubByte(b) \in Byte
  BY <1>2, SubBytesIs
<1>5. saes_table[i][Number(b) + 1] = [k \in 1..4 |-> Mixed(SubByte(b), i - 1, k - 1)]
  BY <1>1, <1>2, TableIs
<1> HIDE DEF n
<1>6. saes_table[i][Number(x[n]) + 1] = [k \in 1..4 |-> Mixed(SubByte(b), q, k - 1)]
  BY <1>1, <1>5, Zenon DEF b
<1>7. saes_table[q + 1][Number(x[4 * ((c + q) % 4) + (q + 1)]) + 1] = [k \in 1..4 |-> Mixed(SubByte(b), q, k - 1)]
  BY <1>1, <1>6, Zenon DEF i
<1> QED BY <1>3, <1>4, <1>7, Zenon DEF b, n

(* A round with the tables is a round of AES. *)
LEMMA AesRoundIs ==
  ASSUME NEW x \in Sixteen, NEW key \in Sixteen
  PROVE  soft_aesenc(x, key) = AesRound(x, key) /\ AesRound(x, key) \in Sixteen
<1> DEFINE U(j) == [i \in 1..4 |-> saes_table[i][Number(x[4 * ((j + (i - 1)) % 4) + i]) + 1]]
           Out(j) == XorWords(U(j))
           P(i, j) == ByteOf(x, i - 1, j)
           M(i, j, k) == Mixed(P(i, j), i - 1, k - 1)
           s(r, c) == SubBytes[Number(x[r + 4 * ((c + r) % 4) + 1]) + 1]
           At(r, c, k) == LET b == s((r + k) % 4, c)
                          IN  CASE k = 0 -> Times(b, {1}) [] k = 1 -> Times(b, {0, 1}) [] OTHER -> b
           z(n) == [k \in 1..5 |-> IF k < 5 THEN At((n - 1) % 4, (n - 1) \div 4, k - 1) ELSE key[n]]
           f == [n \in 1..16 |-> XorAll(z(n))]
           o == Block(Out(0), Out(1), Out(2), Out(3))
           y == XorWords(<<o, key>>)
<1>1. ASSUME NEW j \in 0..3, NEW i \in 1..4
      PROVE  /\ U(j)[i] = [k \in 1..4 |-> M(i, j, k)] /\ U(j)[i] \in FourBytes
             /\ P(i, j) \in Byte
  <2> DEFINE q == i - 1
  <2>1. q \in 0..3 /\ q + 1 = i
    OBVIOUS
  <2>2. U(j)[i] = saes_table[i][Number(x[4 * ((j + q) % 4) + i]) + 1]
    OBVIOUS
  <2> HIDE DEF q, U
  <2>3. /\ saes_table[q + 1][Number(x[4 * ((j + q) % 4) + (q + 1)]) + 1] =
              [k \in 1..4 |-> Mixed(ByteOf(x, q, j), q, k - 1)]
        /\ ByteOf(x, q, j) \in Byte
    BY <2>1, ByteOfIs
  <2>4. U(j)[i] = [k \in 1..4 |-> Mixed(ByteOf(x, q, j), q, k - 1)]
    BY <2>1, <2>2, <2>3, Zenon
  <2>5. \A k \in 1..4 : Mixed(ByteOf(x, q, j), q, k - 1) \in Byte
    BY <2>3, MixedIsByte
  <2>6. U(j)[i] \in FourBytes
    BY <2>4, <2>5 DEF FourBytes
  <2> QED BY <2>3, <2>4, <2>6, Zenon DEF q
<1>2. ASSUME NEW j \in 0..3
      PROVE  /\ Out(j) \in FourBytes
             /\ \A k \in 1..4 : \A i : i \in Out(j)[k] <=>
                  ~(((i \in M(1, j, k) <=> i \in M(2, j, k)) <=> i \in M(3, j, k)) <=> i \in M(4, j, k))
  <2> DEFINE u == U(j)
  <2>1. IsSequence(u, 4) /\ 4 \in Nat \ {0} /\ 4 \in Nat
    BY DEF IsSequence
  <2>2. \A i \in 1..4 : u[i] \in [1..4 -> Byte]
    <3> HIDE DEF U
    <3> QED BY <1>1 DEF FourBytes
  <2>3. \A i \in 1..4, k \in 1..4 : u[i][k] = M(i, j, k)
    <3> HIDE DEF U, M
    <3> QED BY <1>1
  <2> HIDE DEF u
  <2>4. XorWords(u) = [k \in 1..4 |-> XorAll([i \in 1..4 |-> u[i][k]])] /\ XorWords(u) \in [1..4 -> Byte]
    BY <2>1, <2>2, XorWordsIs
  <2> HIDE DEF M
  <2>5. ASSUME NEW k \in 1..4, NEW i
        PROVE  i \in XorWords(u)[k] <=>
                  ~(((i \in M(1, j, k) <=> i \in M(2, j, k)) <=> i \in M(3, j, k)) <=> i \in M(4, j, k))
    <3> DEFINE t == [m \in 1..4 |-> u[m][k]]
    <3>1. IsSequence(t, 4) /\ t[1] = M(1, j, k) /\ t[2] = M(2, j, k) /\ t[3] = M(3, j, k) /\ t[4] = M(4, j, k) /\ 4 \in 2..5
      BY <2>3 DEF IsSequence
    <3>2. XorWords(u)[k] = XorAll(t)
      BY <2>4
    <3> HIDE DEF t
    <3>3. i \in XorAll(t) <=> ~(((i \in t[1] <=> i \in t[2]) <=> i \in t[3]) <=> i \in t[4])
      BY <3>1, XorAllFive
    <3> QED BY <3>1, <3>2, <3>3
  <2> QED BY <2>4, <2>5 DEF FourBytes, u
<1> HIDE DEF U
<1>3. soft_aesenc(x, key) = y /\ o \in Sixteen
  <2> DEFINE o0 == Out(0) o1 == Out(1) o2 == Out(2) o3 == Out(3)
  <2>1. soft_aesenc(x, key) = XorWords(<<Behind(o0, o1, o2, o3), key>>)
    BY Zenon DEF soft_aesenc, Behind, U
  <2>2. o0 \in FourBytes /\ o1 \in FourBytes /\ o2 \in FourBytes /\ o3 \in FourBytes
    <3> HIDE DEF Out, M
    <3> QED BY <1>2
  <2> HIDE DEF o0, o1, o2, o3
  <2>3. Behind(o0, o1, o2, o3) = Block(o0, o1, o2, o3) /\ Block(o0, o1, o2, o3) \in Sixteen
    BY <2>2, BlockIs
  <2> QED BY <2>1, <2>3, Zenon DEF o0, o1, o2, o3
<1> HIDE DEF Out
<1>4. \A j \in 0..3, k \in 1..4 : o[4 * j + k] = Out(j)[k]
  <2> TAKE j \in 0..3, k \in 1..4
  <2>1. j = 0 \/ j = 1 \/ j = 2 \/ j = 3
    OBVIOUS
  <2> QED BY <2>1 DEF Block
<1> HIDE DEF o
<1>5. Xored(y, o, key, 16)
  <2>1. 16 \in Nat /\ o \in [1..16 -> Byte] /\ key \in [1..16 -> Byte]
    BY <1>3 DEF Sixteen
  <2> QED BY <2>1, XorOfTwo
<1>6. AesRound(x, key) = f
  <2>1. IsSequence(f, 16) /\ 16 \in Nat
    BY DEF IsSequence
  <2>2. AesRound(x, key) = f \o <<>>
    BY Zenon DEF AesRound
  <2> HIDE DEF f
  <2> QED BY <2>1, <2>2, Whole
<1>7. ASSUME NEW r \in 0..3, NEW c \in 0..3, NEW k \in 1..4
      PROVE  At(r, c, k - 1) = M(((r + (k - 1)) % 4) + 1, c, r + 1) /\ At(r, c, k - 1) \in Byte
  <2> DEFINE q == (r + (k - 1)) % 4
             b == s(q, c)
             m == k - 1
  <2>1. q \in 0..3 /\ (q + 1) - 1 = q /\ (r + 1) - 1 = r /\ m = (q - r) % 4 /\ m \in 0..3
    OBVIOUS
  <2>2. b = ByteOf(x, q, c) /\ b \in Byte
    <3>1. b = SubBytes[Number(x[q + 4 * ((c + q) % 4) + 1]) + 1]
      BY Zenon
    <3> HIDE DEF q, b
    <3>2. /\ SubBytes[Number(x[q + 4 * ((c + q) % 4) + 1]) + 1] = ByteOf(x, q, c)
          /\ ByteOf(x, q, c) \in Byte
      BY <2>1, ByteOfIs
    <3> QED BY <3>1, <3>2
  <2>3. At(r, c, m) = CASE m = 0 -> Times(b, {1}) [] m = 1 -> Times(b, {0, 1}) [] OTHER -> b
    OBVIOUS
  <2> HIDE DEF b, q, m, At
  <2>4. Times(b, {1}) = saes_f2(b) /\ Times(b, {0, 1}) = saes_f3(b)
    BY <2>2, FieldTables DEF Byte
  <2>5. At(r, c, m) = Mixed(b, q, r)
    BY <2>1, <2>3, <2>4 DEF Mixed
  <2>6. Mixed(b, q, r) \in Byte
    BY <2>2, MixedIsByte
  <2>7. M(q + 1, c, r + 1) = Mixed(b, q, r)
    BY <2>1, <2>2
  <2> HIDE DEF M
  <2> QED BY <2>5, <2>6, <2>7 DEF q, m
<1> HIDE DEF At, M
<1>8. ASSUME NEW j \in 0..3, NEW k \in 1..4, NEW i
      PROVE  /\ i \in f[4 * j + k] <=> ~(i \in Out(j)[k] <=> i \in key[4 * j + k])
             /\ f[4 * j + k] \in Byte
  <2> DEFINE n == 4 * j + k
             t == z(n)
             r == k - 1
  <2>1. n \in 1..16 /\ (n - 1) % 4 = r /\ (n - 1) \div 4 = j /\ r \in 0..3
    OBVIOUS
  <2>2. /\ t[1] = At(r, j, 1 - 1) /\ t[2] = At(r, j, 2 - 1) /\ t[3] = At(r, j, 3 - 1) /\ t[4] = At(r, j, 4 - 1)
        /\ t[5] = key[n] /\ IsSequence(t, 5)
    <3> HIDE DEF n, r
    <3>1. t = [m \in 1..5 |-> IF m < 5 THEN At(r, j, m - 1) ELSE key[n]]
      BY <2>1
    <3> HIDE DEF t
    <3> QED BY <3>1 DEF IsSequence
  <2>3. f[n] = XorAll(t)
    <3> HIDE DEF n, z
    <3> QED BY <2>1
  <2> HIDE DEF t
  <2>4. i \in XorAll(t) <=> ((((i \in t[1] <=> i \in t[2]) <=> i \in t[3]) <=> i \in t[4]) <=> i \in t[5])
    <3>1. 5 \in 2..5
      OBVIOUS
    <3> QED BY <2>2, <3>1, XorAllFive
  <2>5. /\ t[1] = M(((r + (1 - 1)) % 4) + 1, j, r + 1) /\ t[1] \in Byte
        /\ t[2] = M(((r + (2 - 1)) % 4) + 1, j, r + 1) /\ t[2] \in Byte
        /\ t[3] = M(((r + (3 - 1)) % 4) + 1, j, r + 1) /\ t[3] \in Byte
        /\ t[4] = M(((r + (4 - 1)) % 4) + 1, j, r + 1) /\ t[4] \in Byte
        /\ t[5] \in Byte
    <3>1. 1 \in 1..4 /\ 2 \in 1..4 /\ 3 \in 1..4 /\ 4 \in 1..4 /\ key[n] \in Byte
      BY <2>1 DEF Sixteen
    <3> HIDE DEF n, r
    <3>2. \A m \in 1..4 : At(r, j, m - 1) = M(((r + (m - 1)) % 4) + 1, j, r + 1) /\ At(r, j, m - 1) \in Byte
      BY <1>7, <2>1
    <3> QED BY <2>2, <3>1, <3>2
  <2>6. r + 1 = k
    OBVIOUS
  <2>7. f[n] \in Byte
    <3>1. 5 \in Nat /\ \A m \in 1..5 : t[m] \in Byte
      BY <2>5
    <3> HIDE DEF f, n
    <3> QED BY <2>2, <2>3, <3>1, XorBytes
  <2>8. /\ r = 0 => t[1] = M(1, j, k) /\ t[2] = M(2, j, k) /\ t[3] = M(3, j, k) /\ t[4] = M(4, j, k)
        /\ r = 1 => t[1] = M(2, j, k) /\ t[2] = M(3, j, k) /\ t[3] = M(4, j, k) /\ t[4] = M(1, j, k)
        /\ r = 2 => t[1] = M(3, j, k) /\ t[2] = M(4, j, k) /\ t[3] = M(1, j, k) /\ t[4] = M(2, j, k)
        /\ r = 3 => t[1] = M(4, j, k) /\ t[2] = M(1, j, k) /\ t[3] = M(2, j, k) /\ t[4] = M(3, j, k)
    <3> HIDE DEF r
    <3> QED BY <2>5, <2>6
  <2>9. i \in Out(j)[k] <=> ~(((i \in M(1, j, k) <=> i \in M(2, j, k)) <=> i \in M(3, j, k)) <=> i \in M(4, j, k))
    BY <1>2
  <2>10. r = 0 \/ r = 1 \/ r = 2 \/ r = 3
    OBVIOUS
  <2>11. ~(i \in Out(j)[k]) <=> (((i \in t[1] <=> i \in t[2]) <=> i \in t[3]) <=> i \in t[4])
    <3> HIDE DEF r
    <3>1. CASE r = 0
      BY <2>8, <2>9, <3>1
    <3>2. CASE r = 1
      BY <2>8, <2>9, <3>2
    <3>3. CASE r = 2
      BY <2>8, <2>9, <3>3
    <3>4. CASE r = 3
      BY <2>8, <2>9, <3>4
    <3> QED BY <2>10, <3>1, <3>2, <3>3, <3>4
  <2>12. i \in f[n] <=> ~(i \in Out(j)[k] <=> i \in key[n])
    <3> HIDE DEF f, n, r
    <3> QED BY <2>2, <2>3, <2>4, <2>11
  <2> QED BY <2>7, <2>12 DEF n
<1>9. \A n \in 1..16 : \E j \in 0..3, k \in 1..4 : n = 4 * j + k
  <2> TAKE n \in 1..16
  <2>1. (n - 1) \div 4 \in 0..3 /\ ((n - 1) % 4) + 1 \in 1..4 /\ n = 4 * ((n - 1) \div 4) + (((n - 1) % 4) + 1)
    OBVIOUS
  <2> QED BY <2>1
<1>10. f \in [1..16 -> Byte]
  <2>1. \A n \in 1..16 : f[n] \in Byte
    <3> HIDE DEF f
    <3> QED BY <1>8, <1>9
  <2>2. f = [n \in 1..16 |-> f[n]]
    OBVIOUS
  <2> HIDE DEF f
  <2> QED BY <2>1, <2>2
<1> HIDE DEF f
<1>11. ASSUME NEW n \in 1..16, NEW i \in 0..7 PROVE i \in y[n] <=> i \in f[n]
  <2>1. PICK j \in 0..3, k \in 1..4 : n = 4 * j + k
    BY <1>9
  <2>2. i \in f[n] <=> ~(i \in Out(j)[k] <=> i \in key[n])
    BY <1>8, <2>1
  <2>3. i \in y[n] <=> ~(i \in o[n] <=> i \in key[n])
    BY <1>5 DEF Xored
  <2>4. o[n] = Out(j)[k]
    BY <1>4, <2>1
  <2> QED BY <2>2, <2>3, <2>4
<1> HIDE DEF y
<1>12. y = f
  <2>1. 16 \in Nat /\ y \in [1..16 -> Byte]
    BY <1>5 DEF Xored
  <2> QED BY <1>10, <1>11, <2>1, SameBytes
<1> QED BY <1>3, <1>6, <1>10, <1>12 DEF Sixteen

(* Of a call of AES the keys of the code are words of the schedule. *)
AesInv ==
  call.function = "aes" =>
    /\ round \in Nat
    /\ ideal \in [x : Sixteen, w : Schedules]
    /\ code = [x |-> ideal.x, keys |-> Pair(ideal.w)]

(* Before the first round a call of AES has the block and the first keys   *)
(* of the definition.                                                      *)
LEMMA AesInitially ==
  CallInit => AesInv
<1> SUFFICES ASSUME CallInit, call.function = "aes" PROVE AesInv
  BY DEF AesInv
<1> DEFINE B(from) == [k \in 1..16 |-> Datum(call, 8, from + k)]
           a == B(16)
           b == B(32)
           u == a \o b
           w == [k \in 1..8 |-> SubSeq(u, 4 * k - 3, 4 * k)]
<1>1. \A from : B(from) \in Sixteen
  <2>1. \A k : Datum(call, 8, k) \in Byte
    <3>1. 8 - 1 = 7
      OBVIOUS
    <3> QED BY <3>1, DatumIsWord DEF Byte
  <2> QED BY <2>1 DEF Sixteen
<1>2. \A from : AesBytes(call, from) = B(from)
  <2> TAKE from
  <2> DEFINE s == B(from)
  <2>1. IsSequence(s, 16) /\ 16 \in Nat
    BY DEF IsSequence
  <2>2. AesBytes(call, from) = s \o <<>>
    BY DEF AesBytes
  <2> HIDE DEF s
  <2>3. AesBytes(call, from) = s
    BY <2>1, <2>2, Whole
  <2> QED BY <2>3 DEF s
<1>3. /\ round = 0 /\ code = [x |-> AesBytes(call, 0), keys |-> <<AesBytes(call, 16), AesBytes(call, 32)>>]
      /\ ideal = [x |-> AesBytes(call, 0),
                  w |-> [k \in 1..8 |-> SubSeq(AesBytes(call, 16) \o AesBytes(call, 32), 4 * k - 3, 4 * k)] \o <<>>]
  <2>1. round = 0 /\ code = Begun(call) /\ ideal = BegunIdeal(call)
    BY DEF CallInit
  <2> QED BY <2>1 DEF Begun, BegunIdeal
<1> HIDE DEF B
<1>4. code = [x |-> B(0), keys |-> <<a, b>>] /\ ideal = [x |-> B(0), w |-> w \o <<>>]
  <2>1. AesBytes(call, 0) = B(0) /\ AesBytes(call, 16) = a /\ AesBytes(call, 32) = b
    BY <1>2
  <2> HIDE DEF a, b
  <2> QED BY <1>3, <2>1, Zenon
<1>5. w \o <<>> = w
  <2>1. IsSequence(w, 8) /\ 8 \in Nat
    BY DEF IsSequence
  <2> HIDE DEF w
  <2> QED BY <2>1, Whole
<1>6. a \in Sixteen /\ b \in Sixteen
  BY <1>1
<1> HIDE DEF a, b
<1>7. IsSequence(u, 32) /\ \A k \in 1..32 : u[k] = IF k <= 16 THEN a[k] ELSE b[k - 16]
  <2>1. IsSequence(a, 16) /\ IsSequence(b, 16) /\ 16 \in Nat /\ 16 + 16 = 32
    BY <1>6 DEF Sixteen, IsSequence
  <2>2. Joined(a \o b, a, 16, b, 16)
    BY <2>1, ConcatIs
  <2> QED BY <2>1, <2>2 DEF Joined
<1> HIDE DEF u
<1>8. \A k \in 1..32 : u[k] \in Byte
  <2> TAKE k \in 1..32
  <2>1. CASE k <= 16
    BY <1>6, <1>7, <2>1 DEF Sixteen
  <2>2. CASE ~(k <= 16)
    <3>1. k - 16 \in 1..16
      BY <2>2
    <3> QED BY <1>6, <1>7, <2>2, <3>1 DEF Sixteen
  <2> QED BY <2>1, <2>2
<1>9. ASSUME NEW k \in 1..8
      PROVE  w[k] = [m \in 1..4 |-> u[4 * (k - 1) + m]] /\ w[k] \in FourBytes
  <2> DEFINE f == 4 * k - 3
             l == 4 * k
  <2>1. f \in 1..(32 + 1) /\ l \in 0..32 /\ f <= l + 1 /\ l - f + 1 = 4 /\ 32 \in Nat
        /\ \A m \in 1..4 : f + m - 1 = 4 * (k - 1) + m /\ 4 * (k - 1) + m \in 1..32
    OBVIOUS
  <2>2. w[k] = SubSeq(u, f, l)
    OBVIOUS
  <2> HIDE DEF f, l, w
  <2>3. SubSeq(u, f, l) = [m \in 1..(l - f + 1) |-> u[f + m - 1]]
    <3>1. IsSequence(u, 32) /\ 32 \in Nat /\ f \in 1..(32 + 1) /\ l \in 0..32 /\ f <= l + 1
      BY <1>7, <2>1
    <3> QED BY ONLY <3>1, PartIs
  <2>4. w[k] = [m \in 1..4 |-> u[4 * (k - 1) + m]]
    BY <2>1, <2>2, <2>3
  <2>5. \A m \in 1..4 : u[4 * (k - 1) + m] \in Byte
    BY <1>8, <2>1
  <2> QED BY <2>4, <2>5 DEF FourBytes
<1>10. w \in Schedules
  <2>1. w = [k \in 1..8 |-> w[k]]
    OBVIOUS
  <2> HIDE DEF w
  <2> QED BY <1>9, <2>1 DEF Schedules
<1> HIDE DEF w
<1>11. Pair(w) = <<a, b>>
  <2> DEFINE w1 == w[1] w2 == w[2] w3 == w[3] w4 == w[4] w5 == w[5] w6 == w[6] w7 == w[7] w8 == w[8]
  <2>1. /\ w1 \in FourBytes /\ w2 \in FourBytes /\ w3 \in FourBytes /\ w4 \in FourBytes
        /\ w5 \in FourBytes /\ w6 \in FourBytes /\ w7 \in FourBytes /\ w8 \in FourBytes
    BY <1>9
  <2>2. /\ w1 = [m \in 1..4 |-> u[m]] /\ w2 = [m \in 1..4 |-> u[4 + m]]
        /\ w3 = [m \in 1..4 |-> u[8 + m]] /\ w4 = [m \in 1..4 |-> u[12 + m]]
        /\ w5 = [m \in 1..4 |-> u[16 + m]] /\ w6 = [m \in 1..4 |-> u[20 + m]]
        /\ w7 = [m \in 1..4 |-> u[24 + m]] /\ w8 = [m \in 1..4 |-> u[28 + m]]
    BY <1>9
  <2>3. KeyOf(w, 1) = Behind(w1, w2, w3, w4) /\ KeyOf(w, 5) = Behind(w5, w6, w7, w8)
    BY DEF KeyOf, Behind
  <2> HIDE DEF w1, w2, w3, w4, w5, w6, w7, w8
  <2>4. /\ Behind(w1, w2, w3, w4) = Block(w1, w2, w3, w4) /\ Block(w1, w2, w3, w4) \in Sixteen
        /\ Behind(w5, w6, w7, w8) = Block(w5, w6, w7, w8) /\ Block(w5, w6, w7, w8) \in Sixteen
    BY <2>1, BlockIs
  <2>5. \A k \in 1..16 : Block(w1, w2, w3, w4)[k] = a[k] /\ Block(w5, w6, w7, w8)[k] = b[k]
    <3> TAKE k \in 1..16
    <3>1. Block(w1, w2, w3, w4)[k] = u[k] /\ Block(w5, w6, w7, w8)[k] = u[16 + k]
      <4>1. \/ k <= 4 /\ k \in 1..4
            \/ ~(k <= 4) /\ k <= 8 /\ k - 4 \in 1..4 /\ 4 + (k - 4) = k /\ 20 + (k - 4) = 16 + k
            \/ ~(k <= 4) /\ ~(k <= 8) /\ k <= 12 /\ k - 8 \in 1..4 /\ 8 + (k - 8) = k /\ 24 + (k - 8) = 16 + k
            \/ ~(k <= 4) /\ ~(k <= 8) /\ ~(k <= 12) /\ k - 12 \in 1..4 /\ 12 + (k - 12) = k /\ 28 + (k - 12) = 16 + k
        OBVIOUS
      <4>2. CASE k <= 4 /\ k \in 1..4
        BY <2>2, <4>2 DEF Block
      <4>3. CASE ~(k <= 4) /\ k <= 8 /\ k - 4 \in 1..4 /\ 4 + (k - 4) = k /\ 20 + (k - 4) = 16 + k
        BY <2>2, <4>3 DEF Block
      <4>4. CASE ~(k <= 4) /\ ~(k <= 8) /\ k <= 12 /\ k - 8 \in 1..4 /\ 8 + (k - 8) = k /\ 24 + (k - 8) = 16 + k
        BY <2>2, <4>4 DEF Block
      <4>5. CASE ~(k <= 4) /\ ~(k <= 8) /\ ~(k <= 12) /\ k - 12 \in 1..4 /\ 12 + (k - 12) = k /\ 28 + (k - 12) = 16 + k
        BY <2>2, <4>5 DEF Block
      <4> QED BY <4>1, <4>2, <4>3, <4>4, <4>5
    <3>2. k \in 1..32 /\ k <= 16 /\ 16 + k \in 1..32 /\ ~(16 + k <= 16) /\ (16 + k) - 16 = k
      OBVIOUS
    <3>3. u[k] = a[k] /\ u[16 + k] = b[k]
      BY <1>7, <3>2
    <3> QED BY <3>1, <3>3
  <2>6. Block(w1, w2, w3, w4) = a /\ Block(w5, w6, w7, w8) = b
    BY <1>6, <2>4, <2>5 DEF Sixteen
  <2> QED BY <2>3, <2>4, <2>6 DEF Pair
<1>12. ideal = [x |-> B(0), w |-> w] /\ B(0) \in Sixteen
  BY <1>1, <1>4, <1>5
<1>13. ideal \in [x : Sixteen, w : Schedules] /\ ideal.x = B(0) /\ ideal.w = w
  BY <1>10, <1>12
<1> QED BY <1>3, <1>4, <1>11, <1>13 DEF AesInv

(* A round of AES and a step of its key schedule keep them the same.       *)
LEMMA AesNext ==
  ASSUME AesInv, [CallNext]_callVars
  PROVE  AesInv'
<1>1. CASE UNCHANGED callVars
  BY <1>1 DEF callVars, AesInv
<1>2. CASE CallNext /\ call.function # "aes"
  BY <1>2 DEF CallNext, AesInv
<1>3. CASE CallNext /\ call.function = "aes"
  <2> DEFINE x == ideal.x
             w == ideal.w
             k1 == KeyOf(w, 1)
             k2 == KeyOf(w, 5)
             x1 == AesRound(x, k1)
             x2 == AesRound(x1, k2)
             v == IF round < 4 THEN NextWords(w, round) ELSE w
  <2>1. /\ call' = call /\ round' = round + 1 /\ round \in Nat /\ ideal \in [x : Sixteen, w : Schedules]
        /\ code = [x |-> x, keys |-> Pair(w)]
    BY <1>3 DEF CallNext, AesInv
  <2>2. AesRounds
    BY <1>3 DEF CallNext, SkeinRounds, SkeinEnd, KeccakRounds, BlakeRounds, BlakeEnd, GroestlRounds, GroestlEnd, JhRounds, JhEnd
  <2>3. code' = SoftAesStep(code, round) /\ ideal' = AesStep(ideal, round) /\ round \in 0..4
    BY <2>1, <2>2 DEF AesRounds
  <2>4. x \in Sixteen /\ w \in Schedules /\ code.x = x /\ code.keys = Pair(w)
    BY <2>1
  <2> HIDE DEF x, w
  <2>5. k1 \in Sixteen /\ k2 \in Sixteen
    <3> DEFINE w1 == w[1] w2 == w[2] w3 == w[3] w4 == w[4] w5 == w[5] w6 == w[6] w7 == w[7] w8 == w[8]
    <3>1. /\ w1 \in FourBytes /\ w2 \in FourBytes /\ w3 \in FourBytes /\ w4 \in FourBytes
          /\ w5 \in FourBytes /\ w6 \in FourBytes /\ w7 \in FourBytes /\ w8 \in FourBytes
      BY <2>4 DEF Schedules
    <3>2. k1 = Behind(w1, w2, w3, w4) /\ k2 = Behind(w5, w6, w7, w8)
      BY DEF KeyOf, Behind
    <3> HIDE DEF w1, w2, w3, w4, w5, w6, w7, w8, k1, k2
    <3>3. /\ Behind(w1, w2, w3, w4) = Block(w1, w2, w3, w4) /\ Block(w1, w2, w3, w4) \in Sixteen
          /\ Behind(w5, w6, w7, w8) = Block(w5, w6, w7, w8) /\ Block(w5, w6, w7, w8) \in Sixteen
      BY <3>1, BlockIs
    <3> QED BY <3>2, <3>3
  <2>6. Pair(w)[1] = k1 /\ Pair(w)[2] = k2
    BY DEF Pair
  <2> HIDE DEF k1, k2
  <2>7. soft_aesenc(x, k1) = x1 /\ x1 \in Sixteen
    BY <2>4, <2>5, AesRoundIs
  <2> HIDE DEF x1
  <2>8. soft_aesenc(x1, k2) = x2 /\ x2 \in Sixteen
    BY <2>5, <2>7, AesRoundIs
  <2> HIDE DEF x2
  <2>9. /\ v \in Schedules
        /\ Pair(v) = IF round < 4 THEN soft_aes_genkey_sub(Pair(w), {round}) ELSE Pair(w)
    <3>1. round \in 0..7
      BY <2>3
    <3>2. soft_aes_genkey_sub(Pair(w), {round}) = Pair(NextWords(w, round)) /\ NextWords(w, round) \in Schedules
      BY <2>4, <3>1, KeysAre
    <3>3. CASE round < 4
      BY <3>2, <3>3
    <3>4. CASE ~(round < 4)
      BY <2>4, <3>4
    <3> QED BY <3>3, <3>4
  <2>10. code' = [x |-> x2, keys |-> Pair(v)]
    <3>1. SoftAesStep(code, round) =
            [x |-> soft_aesenc(soft_aesenc(x, k1), k2),
             keys |-> IF round < 4 THEN soft_aes_genkey_sub(Pair(w), {round}) ELSE Pair(w)]
      BY <2>4, <2>6, Zenon DEF SoftAesStep
    <3> HIDE DEF v
    <3> QED BY <2>3, <2>7, <2>8, <2>9, <3>1
  <2>11. ideal' = [x |-> x2, w |-> v]
    BY <2>3, Zenon DEF AesStep, x, w, k1, k2, x1, x2, v
  <2> HIDE DEF v
  <2>12. ideal' \in [x : Sixteen, w : Schedules] /\ (ideal').x = x2 /\ (ideal').w = v
    BY <2>8, <2>9, <2>11
  <2> QED BY <2>1, <2>10, <2>12 DEF AesInv
<1> QED BY <1>1, <1>2, <1>3

(* The tables and the key expansion that stand in for the AES              *)
(* instructions compute AES, whatever the block and the keys; it is the    *)
(* variant with SOFT_AES, which drill does not instantiate                 *)
(* (soft_aes.hpp:88-125, cryptonight_aesni.h:78-126).                      *)
THEOREM AesHolds ==
  CallSpec => []AesAsDefined
<1>1. AesInv => AesAsDefined
  BY DEF AesInv, AesAsDefined, Of, Pair
<1> QED BY <1>1, AesInitially, AesNext, PTL DEF CallSpec

-----------------------------------------------------------------------------
(* JH: elements of four bits. *)

(* An element is the number of its bits. *)
LEMMA NibbleIs ==
  ASSUME NEW a
  PROVE  /\ Nibble(a) \in 0..15
         /\ \A i \in 0..3 : i \in Bits(Nibble(a)) <=> i \in a
<1> DEFINE n == Nibble(a)
<1>1. n = (IF 3 \in a THEN 8 ELSE 0) + (IF 2 \in a THEN 4 ELSE 0) + (IF 1 \in a THEN 2 ELSE 0) + (IF 0 \in a THEN 1 ELSE 0)
  BY DEF Nibble
<1> HIDE DEF n
<1>2. n \in 0..15
  BY <1>1
<1>3. /\ n % 2 = 1 <=> 0 \in a
      /\ (n \div 2) % 2 = 1 <=> 1 \in a
      /\ (n \div 4) % 2 = 1 <=> 2 \in a
      /\ (n \div 8) % 2 = 1 <=> 3 \in a
  BY <1>1
<1>4. n \div 1 = n
  BY <1>2
<1>5. 2^0 = 1 /\ 2^1 = 2 /\ 2^2 = 4 /\ 2^3 = 8
  OBVIOUS
<1>6. \A i \in 0..3 : i \in Bits(n) <=> i \in a
  <2>1. \A i \in 0..3 : i \in Bits(n) <=> (n \div 2^i) % 2 = 1
    BY DEF Bits
  <2>2. \A i \in 0..3 : i = 0 \/ i = 1 \/ i = 2 \/ i = 3
    OBVIOUS
  <2> QED BY <1>3, <1>4, <1>5, <2>1, <2>2
<1> QED BY <1>2, <1>6 DEF n

(* Sets with the same bits are the same element. *)
LEMMA SameNibble ==
  ASSUME NEW a, NEW b, \A i \in 0..3 : i \in a <=> i \in b
  PROVE  Nibble(a) = Nibble(b)
BY DEF Nibble

(* Elements are added bit by bit. *)
LEMMA AddedIs ==
  ASSUME NEW a, NEW b
  PROVE  Added(Nibble(a), Nibble(b)) = Nibble(XorBits(a, b))
<1> DEFINE x == Bits(Nibble(a))
           y == Bits(Nibble(b))
<1>1. \A i \in 0..3 : (i \in x <=> i \in a) /\ (i \in y <=> i \in b)
  BY NibbleIs
<1> HIDE DEF x, y
<1>2. \A i \in 0..3 : i \in XorBits(x, y) <=> i \in XorBits(a, b)
  BY <1>1 DEF XorBits
<1>3. Nibble(XorBits(x, y)) = Nibble(XorBits(a, b))
  BY <1>2, SameNibble
<1> QED BY <1>3 DEF Added, x, y

(* Twice an element in GF(16): its bits move up, and the highest comes in *)
(* again below.                                                           *)
LEMMA TwiceIs ==
  ASSUME NEW a, NEW t,
         3 \in t <=> 2 \in a, 2 \in t <=> 1 \in a, 1 \in t <=> ~(0 \in a <=> 3 \in a), 0 \in t <=> 3 \in a
  PROVE  Twice(Nibble(a)) = Nibble(t)
<1> DEFINE n == Nibble(a)
<1>1. n = (IF 3 \in a THEN 8 ELSE 0) + (IF 2 \in a THEN 4 ELSE 0) + (IF 1 \in a THEN 2 ELSE 0) + (IF 0 \in a THEN 1 ELSE 0)
  BY DEF Nibble
<1>2. Nibble(t) = (IF 3 \in t THEN 8 ELSE 0) + (IF 2 \in t THEN 4 ELSE 0) + (IF 1 \in t THEN 2 ELSE 0) + (IF 0 \in t THEN 1 ELSE 0)
  BY DEF Nibble
<1> HIDE DEF n
<1>3. CASE n < 8
  <2>1. 3 \notin a
    BY <1>1, <1>3
  <2>2. Twice(n) = 2 * n
    BY <1>3 DEF Twice
  <2> QED BY <1>1, <1>2, <2>1, <2>2 DEF n
<1>4. CASE ~(n < 8)
  <2>1. 3 \in a
    BY <1>1, <1>4
  <2> DEFINE up == {i \in 1..3 : i - 1 \in a}
             low == {0, 1}
  <2>2. /\ 3 \in up <=> 2 \in a
        /\ 2 \in up <=> 1 \in a
        /\ 1 \in up <=> 0 \in a
        /\ 0 \notin up
    <3>1. 3 - 1 = 2 /\ 2 - 1 = 1 /\ 1 - 1 = 0
      OBVIOUS
    <3> QED BY <3>1
  <2>3. 3 \notin low /\ 2 \notin low /\ 1 \in low /\ 0 \in low
    OBVIOUS
  <2> HIDE DEF up, low
  <2>4. Nibble(up) = 2 * n - 16
    BY <1>1, <2>1, <2>2 DEF Nibble
  <2>5. Nibble(low) = 3
    BY <2>3 DEF Nibble
  <2>6. Twice(n) = Added(Nibble(up), Nibble(low))
    BY <1>4, <2>4, <2>5 DEF Twice
  <2>7. Twice(n) = Nibble(XorBits(up, low))
    BY <2>6, AddedIs
  <2>8. \A i \in 0..3 : i \in XorBits(up, low) <=> i \in t
    <3>1. \A i \in 0..3 : i = 0 \/ i = 1 \/ i = 2 \/ i = 3
      OBVIOUS
    <3>2. \A i : i \in XorBits(up, low) <=> ~(i \in up <=> i \in low)
      BY DEF XorBits
    <3> QED BY <2>1, <2>2, <2>3, <3>1, <3>2
  <2>9. Nibble(XorBits(up, low)) = Nibble(t)
    BY <2>8, SameNibble
  <2> QED BY <2>7, <2>9 DEF n
<1> QED BY <1>3, <1>4

(* The rows of bits are the bits of the element in a column.               *)
InColumn(e, i, r0, r1, r2, r3) ==
  /\ 3 \in e <=> i \in r0
  /\ 2 \in e <=> i \in r1
  /\ 1 \in e <=> i \in r2
  /\ 0 \in e <=> i \in r3

(* What SS computes with whole rows is the substitution of the element in  *)
(* every column (c_jh.c:102-121).                                          *)
LEMMA SubstitutionIs ==
  ASSUME NEW m0, NEW m1, NEW m2, NEW m3, NEW cc, NEW i \in Columns,
         NEW a, InColumn(a, i, m0, m1, m2, m3),
         NEW o, LET s == SS(m0, m1, m2, m3, cc) IN InColumn(o, i, s[1], s[2], s[3], s[4])
  PROVE  Nibble(o) = (IF i \in cc THEN S1 ELSE S0)[Nibble(a) + 1]
<1> DEFINE n3   == Columns \ m3
           a0   == XorBits(m0, cc \ m2)
           temp == XorBits(cc, a0 \intersect m1)
           b0   == XorBits(a0, m2 \intersect n3)
           a3   == XorBits(n3, m2 \ m1)
           a1   == XorBits(m1, b0 \intersect m2)
           a2   == XorBits(m2, b0 \ a3)
           c0   == XorBits(b0, a1 \union a3)
           s2   == XorBits(a1, temp \intersect c0)
           s3   == XorBits(a2, temp)
           s4   == XorBits(a3, a1 \intersect a2)
<1>1. SS(m0, m1, m2, m3, cc) = <<c0, s2, s3, s4>>
  BY DEF SS
<1>2. /\ 3 \in o <=> i \in c0
      /\ 2 \in o <=> i \in s2
      /\ 1 \in o <=> i \in s3
      /\ 0 \in o <=> i \in s4
  <2> DEFINE s == SS(m0, m1, m2, m3, cc)
  <2>1. InColumn(o, i, s[1], s[2], s[3], s[4])
    OBVIOUS
  <2>2. s[1] = c0 /\ s[2] = s2 /\ s[3] = s3 /\ s[4] = s4
    <3> HIDE DEF c0, s2, s3, s4
    <3> QED BY <1>1
  <2> HIDE DEF s, c0, s2, s3, s4
  <2> QED BY <2>1, <2>2 DEF InColumn
<1>3. /\ i \in n3 <=> ~(0 \in a)
      /\ i \in a0 <=> ~(3 \in a <=> (i \in cc /\ ~(1 \in a)))
      /\ i \in temp <=> ~(i \in cc <=> (i \in a0 /\ 2 \in a))
      /\ i \in b0 <=> ~(i \in a0 <=> (1 \in a /\ i \in n3))
      /\ i \in a3 <=> ~(i \in n3 <=> (1 \in a /\ ~(2 \in a)))
      /\ i \in a1 <=> ~(2 \in a <=> (i \in b0 /\ 1 \in a))
      /\ i \in a2 <=> ~(1 \in a <=> (i \in b0 /\ ~(i \in a3)))
      /\ i \in c0 <=> ~(i \in b0 <=> (i \in a1 \/ i \in a3))
      /\ i \in s2 <=> ~(i \in a1 <=> (i \in temp /\ i \in c0))
      /\ i \in s3 <=> ~(i \in a2 <=> i \in temp)
      /\ i \in s4 <=> ~(i \in a3 <=> (i \in a1 /\ i \in a2))
  <2>1. \A u, v : i \in XorBits(u, v) <=> ~(i \in u <=> i \in v)
    BY DEF XorBits
  <2>2. \A u, v : /\ i \in u \ v <=> (i \in u /\ ~(i \in v))
                  /\ i \in u \intersect v <=> (i \in u /\ i \in v)
                  /\ i \in u \union v <=> (i \in u \/ i \in v)
    OBVIOUS
  <2>3. /\ 3 \in a <=> i \in m0
        /\ 2 \in a <=> i \in m1
        /\ 1 \in a <=> i \in m2
        /\ 0 \in a <=> i \in m3
    BY DEF InColumn
  <2>4. i \in n3 <=> ~(0 \in a)
    BY <2>3
  <2>5. i \in a0 <=> ~(3 \in a <=> (i \in cc /\ ~(1 \in a)))
    BY <2>1, <2>2, <2>3
  <2>6. i \in temp <=> ~(i \in cc <=> (i \in a0 /\ 2 \in a))
    <3> HIDE DEF a0
    <3> QED BY <2>1, <2>2, <2>3
  <2>7. i \in b0 <=> ~(i \in a0 <=> (1 \in a /\ i \in n3))
    <3> HIDE DEF a0, n3
    <3> QED BY <2>1, <2>2, <2>3
  <2>8. i \in a3 <=> ~(i \in n3 <=> (1 \in a /\ ~(2 \in a)))
    <3> HIDE DEF n3
    <3> QED BY <2>1, <2>2, <2>3
  <2>9. i \in a1 <=> ~(2 \in a <=> (i \in b0 /\ 1 \in a))
    <3> HIDE DEF b0
    <3> QED BY <2>1, <2>2, <2>3
  <2>10. i \in a2 <=> ~(1 \in a <=> (i \in b0 /\ ~(i \in a3)))
    <3> HIDE DEF b0, a3
    <3> QED BY <2>1, <2>2, <2>3
  <2>11. i \in c0 <=> ~(i \in b0 <=> (i \in a1 \/ i \in a3))
    <3> HIDE DEF b0, a1, a3
    <3> QED BY <2>1, <2>2
  <2>12. i \in s2 <=> ~(i \in a1 <=> (i \in temp /\ i \in c0))
    <3> HIDE DEF a1, temp, c0
    <3> QED BY <2>1, <2>2
  <2>13. i \in s3 <=> ~(i \in a2 <=> i \in temp)
    <3> HIDE DEF a2, temp
    <3> QED BY <2>1
  <2>14. i \in s4 <=> ~(i \in a3 <=> (i \in a1 /\ i \in a2))
    <3> HIDE DEF a1, a2, a3
    <3> QED BY <2>1, <2>2
  <2> QED BY <2>4, <2>5, <2>6, <2>7, <2>8, <2>9, <2>10, <2>11, <2>12, <2>13, <2>14
<1> HIDE DEF n3, a0, temp, b0, a3, a1, a2, c0, s2, s3, s4
<1>4. /\ Nibble(a) = (IF 3 \in a THEN 8 ELSE 0) + (IF 2 \in a THEN 4 ELSE 0)
                       + (IF 1 \in a THEN 2 ELSE 0) + (IF 0 \in a THEN 1 ELSE 0)
      /\ Nibble(o) = (IF 3 \in o THEN 8 ELSE 0) + (IF 2 \in o THEN 4 ELSE 0)
                       + (IF 1 \in o THEN 2 ELSE 0) + (IF 0 \in o THEN 1 ELSE 0)
  BY DEF Nibble
<1> DEFINE n == Nibble(a)
           k == n + 1
           v == Nibble(o)
<1>5. k \in 1..16
  BY NibbleIs
<1>6. CASE ~(i \in cc)
  <2>1. /\ S0[1] = 9 /\ S0[2] = 0 /\ S0[3] = 4 /\ S0[4] = 11 /\ S0[5] = 13 /\ S0[6] = 12 /\ S0[7] = 3 /\ S0[8] = 15
        /\ S0[9] = 1 /\ S0[10] = 10 /\ S0[11] = 2 /\ S0[12] = 6 /\ S0[13] = 7 /\ S0[14] = 5 /\ S0[15] = 8 /\ S0[16] = 14
    BY DEF S0
  <2>2. /\ i \in c0 <=> 3 \in o
        /\ i \in s2 <=> 2 \in o
        /\ i \in s3 <=> 1 \in o
        /\ i \in s4 <=> 0 \in o
    BY <1>2
  <2> HIDE DEF k, v
  <2>3. v = S0[k]
    BY <1>3, <1>4, <1>5, <1>6, <2>1, <2>2, SMTT(60) DEF k, v
  <2> QED BY <1>6, <2>3 DEF k, v
<1>7. CASE i \in cc
  <2>1. /\ S1[1] = 3 /\ S1[2] = 12 /\ S1[3] = 6 /\ S1[4] = 13 /\ S1[5] = 5 /\ S1[6] = 7 /\ S1[7] = 1 /\ S1[8] = 9
        /\ S1[9] = 15 /\ S1[10] = 2 /\ S1[11] = 0 /\ S1[12] = 4 /\ S1[13] = 11 /\ S1[14] = 10 /\ S1[15] = 14 /\ S1[16] = 8
    BY DEF S1
  <2> HIDE DEF k, v
  <2>3. v = S1[k]
    BY <1>2, <1>3, <1>4, <1>5, <1>7, <2>1, SMTT(60) DEF k, v
  <2> QED BY <1>7, <2>3 DEF k, v
<1> QED BY <1>6, <1>7

(* A bit of an exclusive or of three words.                                *)
LEMMA XorOfThree ==
  ASSUME NEW a, NEW b, NEW c, NEW i
  PROVE  i \in XorAll(<<a, b, c>>) <=> ((i \in a <=> i \in b) <=> i \in c)
<1> DEFINE s == <<a, b, c>>
<1>1. IsSequence(s, 3) /\ s[1] = a /\ s[2] = b /\ s[3] = c /\ 3 \in 2..5
  BY DEF IsSequence
<1> HIDE DEF s
<1>2. i \in XorAll(s) <=> ((i \in s[1] <=> i \in s[2]) <=> i \in s[3])
  BY <1>1, XorAllFive
<1> QED BY <1>1, <1>2 DEF s

(* The elements in a column of four rows, and those of the eight of L.     *)
InFour(u, i, e) == InColumn(u, i, e[1], e[2], e[3], e[4])
InEight(f, g, i, s) == InColumn(f, i, s[1], s[3], s[5], s[7]) /\ InColumn(g, i, s[2], s[4], s[6], s[8])

(* What L computes with whole rows is the linear map of the pair of        *)
(* elements in every column (c_jh.c:87-98).                                *)
LEMMA LinearIs ==
  ASSUME NEW e, NEW o, NEW i,
         NEW u, InFour(u, i, e), NEW w, InFour(w, i, o),
         NEW f, NEW g, InEight(f, g, i, L(e, o))
  PROVE  /\ Nibble(g) = Added(Nibble(w), Twice(Nibble(u)))
         /\ Nibble(f) = Added(Nibble(u), Twice(Nibble(g)))
<1> DEFINE m4 == XorBits(o[1], e[2])
           m5 == XorBits(o[2], e[3])
           m6 == XorAll(<<o[3], e[1], e[4]>>)
           m7 == XorBits(o[4], e[1])
           r1 == XorBits(e[1], m5)
           r3 == XorBits(e[2], m6)
           r5 == XorAll(<<e[3], m4, m7>>)
           r7 == XorBits(e[4], m4)
<1>1. L(e, o) = <<r1, m4, r3, m5, r5, m6, r7, m7>>
  BY DEF L
<1>2. /\ i \in m4 <=> ~(3 \in w <=> 2 \in u)
      /\ i \in m5 <=> ~(2 \in w <=> 1 \in u)
      /\ i \in m6 <=> ((1 \in w <=> 3 \in u) <=> 0 \in u)
      /\ i \in m7 <=> ~(0 \in w <=> 3 \in u)
      /\ i \in r1 <=> ~(3 \in u <=> i \in m5)
      /\ i \in r3 <=> ~(2 \in u <=> i \in m6)
      /\ i \in r5 <=> ((1 \in u <=> i \in m4) <=> i \in m7)
      /\ i \in r7 <=> ~(0 \in u <=> i \in m4)
  <2>1. \A x, y : i \in XorBits(x, y) <=> ~(i \in x <=> i \in y)
    BY DEF XorBits
  <2>2. \A x, y, z : i \in XorAll(<<x, y, z>>) <=> ((i \in x <=> i \in y) <=> i \in z)
    BY XorOfThree
  <2>3. /\ 3 \in u <=> i \in e[1]
        /\ 2 \in u <=> i \in e[2]
        /\ 1 \in u <=> i \in e[3]
        /\ 0 \in u <=> i \in e[4]
        /\ 3 \in w <=> i \in o[1]
        /\ 2 \in w <=> i \in o[2]
        /\ 1 \in w <=> i \in o[3]
        /\ 0 \in w <=> i \in o[4]
    BY DEF InColumn, InFour
  <2>4. (i \in m4 <=> ~(3 \in w <=> 2 \in u)) /\ (i \in m5 <=> ~(2 \in w <=> 1 \in u))
    BY <2>1, <2>3
  <2>5. i \in m6 <=> ((1 \in w <=> 3 \in u) <=> 0 \in u)
    BY <2>2, <2>3
  <2>6. i \in m7 <=> ~(0 \in w <=> 3 \in u)
    BY <2>1, <2>3
  <2> HIDE DEF m4, m5, m6, m7
  <2>7. i \in r1 <=> ~(3 \in u <=> i \in m5)
    BY <2>1, <2>3
  <2>8. i \in r3 <=> ~(2 \in u <=> i \in m6)
    BY <2>1, <2>3
  <2>9. i \in r5 <=> ((1 \in u <=> i \in m4) <=> i \in m7)
    BY <2>2, <2>3
  <2>10. i \in r7 <=> ~(0 \in u <=> i \in m4)
    BY <2>1, <2>3
  <2> HIDE DEF r1, r3, r5, r7
  <2> QED BY <2>4, <2>5, <2>6, <2>7, <2>8, <2>9, <2>10
<1> HIDE DEF m4, m5, m6, m7, r1, r3, r5, r7
<1>3. /\ InColumn(f, i, r1, r3, r5, r7)
      /\ InColumn(g, i, m4, m5, m6, m7)
  <2> DEFINE s == L(e, o)
  <2>1. InColumn(f, i, s[1], s[3], s[5], s[7]) /\ InColumn(g, i, s[2], s[4], s[6], s[8])
    BY DEF InEight
  <2>2. /\ s[1] = r1 /\ s[3] = r3 /\ s[5] = r5 /\ s[7] = r7
        /\ s[2] = m4 /\ s[4] = m5 /\ s[6] = m6 /\ s[8] = m7
    BY <1>1
  <2> HIDE DEF s
  <2> QED BY <2>1, <2>2
<1>4. /\ 3 \in g <=> ~(3 \in w <=> 2 \in u)
      /\ 2 \in g <=> ~(2 \in w <=> 1 \in u)
      /\ 1 \in g <=> ((1 \in w <=> 3 \in u) <=> 0 \in u)
      /\ 0 \in g <=> ~(0 \in w <=> 3 \in u)
      /\ 3 \in f <=> ~(3 \in u <=> 2 \in g)
      /\ 2 \in f <=> ~(2 \in u <=> 1 \in g)
      /\ 1 \in f <=> ((1 \in u <=> 3 \in g) <=> 0 \in g)
      /\ 0 \in f <=> ~(0 \in u <=> 3 \in g)
  BY <1>2, <1>3, Zenon DEF InColumn
<1> DEFINE Doubled(a) == {j \in 0..3 : \/ j = 3 /\ 2 \in a
                                       \/ j = 2 /\ 1 \in a
                                       \/ j = 1 /\ ~(0 \in a <=> 3 \in a)
                                       \/ j = 0 /\ 3 \in a}
<1>5. ASSUME NEW a
      PROVE  /\ 3 \in Doubled(a) <=> 2 \in a
             /\ 2 \in Doubled(a) <=> 1 \in a
             /\ 1 \in Doubled(a) <=> ~(0 \in a <=> 3 \in a)
             /\ 0 \in Doubled(a) <=> 3 \in a
  OBVIOUS
<1> HIDE DEF Doubled
<1>6. ASSUME NEW a PROVE Twice(Nibble(a)) = Nibble(Doubled(a))
  <2> DEFINE t == Doubled(a)
  <2>1. /\ 3 \in t <=> 2 \in a
        /\ 2 \in t <=> 1 \in a
        /\ 1 \in t <=> ~(0 \in a <=> 3 \in a)
        /\ 0 \in t <=> 3 \in a
    BY <1>5
  <2> HIDE DEF t
  <2>2. Twice(Nibble(a)) = Nibble(t)
    BY <2>1, TwiceIs
  <2> QED BY <2>2 DEF t
<1>7. ASSUME NEW x, NEW y, NEW z, \A j \in 0..3 : j \in z <=> ~(j \in x <=> j \in Doubled(y))
      PROVE  Nibble(z) = Added(Nibble(x), Twice(Nibble(y)))
  <2> DEFINE t == Doubled(y)
  <2>1. Twice(Nibble(y)) = Nibble(t)
    BY <1>6
  <2>2. \A j : j \in XorBits(x, t) <=> ~(j \in x <=> j \in t)
    BY DEF XorBits
  <2>3. \A j \in 0..3 : j \in XorBits(x, t) <=> j \in z
    BY <1>7, <2>2
  <2> HIDE DEF t
  <2>4. Added(Nibble(x), Nibble(t)) = Nibble(XorBits(x, t))
    BY AddedIs
  <2>5. Nibble(XorBits(x, t)) = Nibble(z)
    BY <2>3, SameNibble
  <2> QED BY <2>1, <2>4, <2>5
<1>8. \A j \in 0..3 : j = 0 \/ j = 1 \/ j = 2 \/ j = 3
  OBVIOUS
<1>9. \A j \in 0..3 : j \in g <=> ~(j \in w <=> j \in Doubled(u))
  BY <1>4, <1>5, <1>8
<1>10. \A j \in 0..3 : j \in f <=> ~(j \in u <=> j \in Doubled(g))
  BY <1>4, <1>5, <1>8
<1> QED BY <1>7, <1>9, <1>10

-----------------------------------------------------------------------------
(* Where the elements are.                                                 *)
Partner(n, c) == IF (c \div n) % 2 = 0 THEN c + n ELSE c - n
PlaceBy(n, k) == ((k % (128 \div n)) * n) + (k \div (128 \div n))

(* A pair of elements, by its number in the next round: in the first half  *)
(* the firsts and in the second half the seconds of the pairs, whose odd   *)
(* bits have been exchanged.                                               *)
Moves(n, next, m) ==
  /\ m <= 63 => PlaceBy(next, m) = PlaceBy(n, 2 * m) /\ Partner(n, PlaceBy(next, m)) = PlaceBy(n, 2 * m + 1)
  /\ m >= 64 => /\ PlaceBy(next, m) = PlaceBy(n, 2 * m - 127)
                /\ Partner(n, PlaceBy(next, m)) = PlaceBy(n, 2 * m - 128)

(* The steps of the swaps, and where they take the columns.                *)
LEMMA StepsOfE8 ==
  ASSUME NEW r \in 0..42
  PROVE  LET n == 2^(r % 7) IN
         /\ n \in {1, 2, 4, 8, 16, 32, 64}
         /\ 2^((r + 1) % 7) = IF n = 64 THEN 1 ELSE 2 * n
<1>1. 2^0 = 1 /\ 2^1 = 2 /\ 2^2 = 4 /\ 2^3 = 8 /\ 2^4 = 16 /\ 2^5 = 32 /\ 2^6 = 64
  OBVIOUS
<1> DEFINE k == r % 7
           j == (r + 1) % 7
<1>2. k \in 0..6 /\ j = IF k = 6 THEN 0 ELSE k + 1
  OBVIOUS
<1> HIDE DEF k, j
<1>3. k = 0 \/ k = 1 \/ k = 2 \/ k = 3 \/ k = 4 \/ k = 5 \/ k = 6
  BY <1>2
<1>4. 2^k \in {1, 2, 4, 8, 16, 32, 64} /\ 2^j = IF 2^k = 64 THEN 1 ELSE 2 * 2^k
  <2>1. CASE k = 0
    <3>1. j = 1
      BY <1>2, <2>1
    <3> QED BY <1>1, <2>1, <3>1
  <2>2. CASE k = 1
    <3>1. j = 2
      BY <1>2, <2>2
    <3> QED BY <1>1, <2>2, <3>1
  <2>3. CASE k = 2
    <3>1. j = 3
      BY <1>2, <2>3
    <3> QED BY <1>1, <2>3, <3>1
  <2>4. CASE k = 3
    <3>1. j = 4
      BY <1>2, <2>4
    <3> QED BY <1>1, <2>4, <3>1
  <2>5. CASE k = 4
    <3>1. j = 5
      BY <1>2, <2>5
    <3> QED BY <1>1, <2>5, <3>1
  <2>6. CASE k = 5
    <3>1. j = 6
      BY <1>2, <2>6
    <3> QED BY <1>1, <2>6, <3>1
  <2>7. CASE k = 6
    <3>1. j = 0
      BY <1>2, <2>7
    <3> QED BY <1>1, <2>7, <3>1
  <2> QED BY <1>3, <2>1, <2>2, <2>3, <2>4, <2>5, <2>6, <2>7
<1> QED BY <1>4 DEF k, j

(* The places of a round and those of the next.                            *)
LEMMA PlacesMove ==
  ASSUME NEW n \in {1, 2, 4, 8, 16, 32, 64}, NEW m \in 0..127
  PROVE  /\ PlaceBy(n, m) \in 0..127
         /\ Moves(n, IF n = 64 THEN 1 ELSE 2 * n, m)
<1>1. CASE n = 1
  <2>1. 128 \div 1 = 128 /\ 128 \div 2 = 64
    OBVIOUS
  <2>2. \A k : PlaceBy(1, k) = ((k % 128) * 1) + (k \div 128) /\ PlaceBy(2, k) = ((k % 64) * 2) + (k \div 64)
    BY <2>1 DEF PlaceBy
  <2>3. PlaceBy(1, m) \in 0..127
    BY <2>2
  <2> DEFINE a == m \div 64
             b == m % 64
  <2>7. m = 64 * a + b /\ a \in 0..1 /\ b \in 0..63
    OBVIOUS
  <2>9. PlaceBy(2, m) = (b * 2) + a
    BY <2>2
  <2> HIDE DEF a, b
  <2>8. PlaceBy(2, m) = 2 * b + a
    BY <2>7, <2>9
  <2>4. ASSUME m <= 63
        PROVE  PlaceBy(2, m) = PlaceBy(1, 2 * m) /\ Partner(1, PlaceBy(2, m)) = PlaceBy(1, 2 * m + 1)
    <3>1. a \in 0..0 /\ 2 * m = 128 * a + 2 * b /\ 2 * m + 1 = 128 * a + (2 * b + 1)
      BY <2>7, <2>4
    <3>2. (128 * a + 2 * b) % 128 = 2 * b /\ (128 * a + 2 * b) \div 128 = a
      BY <2>7
    <3>3. (128 * a + (2 * b + 1)) % 128 = 2 * b + 1 /\ (128 * a + (2 * b + 1)) \div 128 = a
      BY <2>7
    <3>4. PlaceBy(1, 2 * m) = 1 * (2 * b) + a /\ PlaceBy(1, 2 * m + 1) = 1 * (2 * b + 1) + a
      BY <2>2, <2>7, <3>1, <3>2, <3>3
    <3>5. ((2 * b + a) \div 1) % 2 = 0
      <4>1. (2 * b + a) \div 1 = 2 * b
        BY <2>7, <3>1
      <4> QED BY <2>7, <4>1
    <3> QED BY <2>7, <2>8, <3>4, <3>5 DEF Partner
  <2>5. ASSUME m >= 64
        PROVE  /\ PlaceBy(2, m) = PlaceBy(1, 2 * m - 127)
               /\ Partner(1, PlaceBy(2, m)) = PlaceBy(1, 2 * m - 128)
    <3> DEFINE d == a - 1
    <3>1. d \in 0..0 /\ a = d + 1 /\ 2 * m - 128 = 128 * d + 2 * b /\ 2 * m - 127 = 128 * d + (2 * b + 1)
      BY <2>7, <2>5
    <3> HIDE DEF d
    <3>2. (128 * d + 2 * b) % 128 = 2 * b /\ (128 * d + 2 * b) \div 128 = d
      BY <2>7, <3>1
    <3>3. (128 * d + (2 * b + 1)) % 128 = 2 * b + 1 /\ (128 * d + (2 * b + 1)) \div 128 = d
      BY <2>7, <3>1
    <3>4. PlaceBy(1, 2 * m - 128) = 1 * (2 * b) + d /\ PlaceBy(1, 2 * m - 127) = 1 * (2 * b + 1) + d
      <4>1. PlaceBy(1, 128 * d + 2 * b) = (2 * b) * 1 + d
        BY <2>2, <3>2
      <4>2. PlaceBy(1, 128 * d + (2 * b + 1)) = (2 * b + 1) * 1 + d
        BY <2>2, <3>3
      <4> QED BY <2>7, <3>1, <4>1, <4>2
    <3>5. ((2 * b + a) \div 1) % 2 = 1
      <4>1. (2 * b + a) \div 1 = 2 * b + 1
        BY <2>7, <3>1
      <4> QED BY <2>7, <4>1
    <3> QED BY <2>7, <2>8, <3>1, <3>4, <3>5 DEF Partner
  <2>6. (IF n = 64 THEN 1 ELSE 2 * n) = 2
    BY <1>1
  <2> QED BY <1>1, <2>3, <2>4, <2>5, <2>6 DEF Moves
<1>2. CASE n = 2
  <2>1. 128 \div 2 = 64 /\ 128 \div 4 = 32
    OBVIOUS
  <2>2. \A k : PlaceBy(2, k) = ((k % 64) * 2) + (k \div 64) /\ PlaceBy(4, k) = ((k % 32) * 4) + (k \div 32)
    BY <2>1 DEF PlaceBy
  <2>3. PlaceBy(2, m) \in 0..127
    BY <2>2
  <2> DEFINE a == m \div 32
             b == m % 32
  <2>7. m = 32 * a + b /\ a \in 0..3 /\ b \in 0..31
    OBVIOUS
  <2>9. PlaceBy(4, m) = (b * 4) + a
    BY <2>2
  <2> HIDE DEF a, b
  <2>8. PlaceBy(4, m) = 4 * b + a
    BY <2>7, <2>9
  <2>4. ASSUME m <= 63
        PROVE  PlaceBy(4, m) = PlaceBy(2, 2 * m) /\ Partner(2, PlaceBy(4, m)) = PlaceBy(2, 2 * m + 1)
    <3>1. a \in 0..1 /\ 2 * m = 64 * a + 2 * b /\ 2 * m + 1 = 64 * a + (2 * b + 1)
      BY <2>7, <2>4
    <3>2. (64 * a + 2 * b) % 64 = 2 * b /\ (64 * a + 2 * b) \div 64 = a
      BY <2>7
    <3>3. (64 * a + (2 * b + 1)) % 64 = 2 * b + 1 /\ (64 * a + (2 * b + 1)) \div 64 = a
      BY <2>7
    <3>4. PlaceBy(2, 2 * m) = 2 * (2 * b) + a /\ PlaceBy(2, 2 * m + 1) = 2 * (2 * b + 1) + a
      BY <2>2, <2>7, <3>1, <3>2, <3>3
    <3>5. ((4 * b + a) \div 2) % 2 = 0
      <4>1. (4 * b + a) \div 2 = 2 * b
        BY <2>7, <3>1
      <4> QED BY <2>7, <4>1
    <3> QED BY <2>7, <2>8, <3>4, <3>5 DEF Partner
  <2>5. ASSUME m >= 64
        PROVE  /\ PlaceBy(4, m) = PlaceBy(2, 2 * m - 127)
               /\ Partner(2, PlaceBy(4, m)) = PlaceBy(2, 2 * m - 128)
    <3> DEFINE d == a - 2
    <3>1. d \in 0..1 /\ a = d + 2 /\ 2 * m - 128 = 64 * d + 2 * b /\ 2 * m - 127 = 64 * d + (2 * b + 1)
      BY <2>7, <2>5
    <3> HIDE DEF d
    <3>2. (64 * d + 2 * b) % 64 = 2 * b /\ (64 * d + 2 * b) \div 64 = d
      BY <2>7, <3>1
    <3>3. (64 * d + (2 * b + 1)) % 64 = 2 * b + 1 /\ (64 * d + (2 * b + 1)) \div 64 = d
      BY <2>7, <3>1
    <3>4. PlaceBy(2, 2 * m - 128) = 2 * (2 * b) + d /\ PlaceBy(2, 2 * m - 127) = 2 * (2 * b + 1) + d
      <4>1. PlaceBy(2, 64 * d + 2 * b) = (2 * b) * 2 + d
        BY <2>2, <3>2
      <4>2. PlaceBy(2, 64 * d + (2 * b + 1)) = (2 * b + 1) * 2 + d
        BY <2>2, <3>3
      <4> QED BY <2>7, <3>1, <4>1, <4>2
    <3>5. ((4 * b + a) \div 2) % 2 = 1
      <4>1. (4 * b + a) \div 2 = 2 * b + 1
        BY <2>7, <3>1
      <4> QED BY <2>7, <4>1
    <3> QED BY <2>7, <2>8, <3>1, <3>4, <3>5 DEF Partner
  <2>6. (IF n = 64 THEN 1 ELSE 2 * n) = 4
    BY <1>2
  <2> QED BY <1>2, <2>3, <2>4, <2>5, <2>6 DEF Moves
<1>3. CASE n = 4
  <2>1. 128 \div 4 = 32 /\ 128 \div 8 = 16
    OBVIOUS
  <2>2. \A k : PlaceBy(4, k) = ((k % 32) * 4) + (k \div 32) /\ PlaceBy(8, k) = ((k % 16) * 8) + (k \div 16)
    BY <2>1 DEF PlaceBy
  <2>3. PlaceBy(4, m) \in 0..127
    BY <2>2
  <2> DEFINE a == m \div 16
             b == m % 16
  <2>7. m = 16 * a + b /\ a \in 0..7 /\ b \in 0..15
    OBVIOUS
  <2>9. PlaceBy(8, m) = (b * 8) + a
    BY <2>2
  <2> HIDE DEF a, b
  <2>8. PlaceBy(8, m) = 8 * b + a
    BY <2>7, <2>9
  <2>4. ASSUME m <= 63
        PROVE  PlaceBy(8, m) = PlaceBy(4, 2 * m) /\ Partner(4, PlaceBy(8, m)) = PlaceBy(4, 2 * m + 1)
    <3>1. a \in 0..3 /\ 2 * m = 32 * a + 2 * b /\ 2 * m + 1 = 32 * a + (2 * b + 1)
      BY <2>7, <2>4
    <3>2. (32 * a + 2 * b) % 32 = 2 * b /\ (32 * a + 2 * b) \div 32 = a
      BY <2>7
    <3>3. (32 * a + (2 * b + 1)) % 32 = 2 * b + 1 /\ (32 * a + (2 * b + 1)) \div 32 = a
      BY <2>7
    <3>4. PlaceBy(4, 2 * m) = 4 * (2 * b) + a /\ PlaceBy(4, 2 * m + 1) = 4 * (2 * b + 1) + a
      BY <2>2, <2>7, <3>1, <3>2, <3>3
    <3>5. ((8 * b + a) \div 4) % 2 = 0
      <4>1. (8 * b + a) \div 4 = 2 * b
        BY <2>7, <3>1
      <4> QED BY <2>7, <4>1
    <3> QED BY <2>7, <2>8, <3>4, <3>5 DEF Partner
  <2>5. ASSUME m >= 64
        PROVE  /\ PlaceBy(8, m) = PlaceBy(4, 2 * m - 127)
               /\ Partner(4, PlaceBy(8, m)) = PlaceBy(4, 2 * m - 128)
    <3> DEFINE d == a - 4
    <3>1. d \in 0..3 /\ a = d + 4 /\ 2 * m - 128 = 32 * d + 2 * b /\ 2 * m - 127 = 32 * d + (2 * b + 1)
      BY <2>7, <2>5
    <3> HIDE DEF d
    <3>2. (32 * d + 2 * b) % 32 = 2 * b /\ (32 * d + 2 * b) \div 32 = d
      BY <2>7, <3>1
    <3>3. (32 * d + (2 * b + 1)) % 32 = 2 * b + 1 /\ (32 * d + (2 * b + 1)) \div 32 = d
      BY <2>7, <3>1
    <3>4. PlaceBy(4, 2 * m - 128) = 4 * (2 * b) + d /\ PlaceBy(4, 2 * m - 127) = 4 * (2 * b + 1) + d
      <4>1. PlaceBy(4, 32 * d + 2 * b) = (2 * b) * 4 + d
        BY <2>2, <3>2
      <4>2. PlaceBy(4, 32 * d + (2 * b + 1)) = (2 * b + 1) * 4 + d
        BY <2>2, <3>3
      <4> QED BY <2>7, <3>1, <4>1, <4>2
    <3>5. ((8 * b + a) \div 4) % 2 = 1
      <4>1. (8 * b + a) \div 4 = 2 * b + 1
        BY <2>7, <3>1
      <4> QED BY <2>7, <4>1
    <3> QED BY <2>7, <2>8, <3>1, <3>4, <3>5 DEF Partner
  <2>6. (IF n = 64 THEN 1 ELSE 2 * n) = 8
    BY <1>3
  <2> QED BY <1>3, <2>3, <2>4, <2>5, <2>6 DEF Moves
<1>4. CASE n = 8
  <2>1. 128 \div 8 = 16 /\ 128 \div 16 = 8
    OBVIOUS
  <2>2. \A k : PlaceBy(8, k) = ((k % 16) * 8) + (k \div 16) /\ PlaceBy(16, k) = ((k % 8) * 16) + (k \div 8)
    BY <2>1 DEF PlaceBy
  <2>3. PlaceBy(8, m) \in 0..127
    BY <2>2
  <2> DEFINE a == m \div 8
             b == m % 8
  <2>7. m = 8 * a + b /\ a \in 0..15 /\ b \in 0..7
    OBVIOUS
  <2>9. PlaceBy(16, m) = (b * 16) + a
    BY <2>2
  <2> HIDE DEF a, b
  <2>8. PlaceBy(16, m) = 16 * b + a
    BY <2>7, <2>9
  <2>4. ASSUME m <= 63
        PROVE  PlaceBy(16, m) = PlaceBy(8, 2 * m) /\ Partner(8, PlaceBy(16, m)) = PlaceBy(8, 2 * m + 1)
    <3>1. a \in 0..7 /\ 2 * m = 16 * a + 2 * b /\ 2 * m + 1 = 16 * a + (2 * b + 1)
      BY <2>7, <2>4
    <3>2. (16 * a + 2 * b) % 16 = 2 * b /\ (16 * a + 2 * b) \div 16 = a
      BY <2>7
    <3>3. (16 * a + (2 * b + 1)) % 16 = 2 * b + 1 /\ (16 * a + (2 * b + 1)) \div 16 = a
      BY <2>7
    <3>4. PlaceBy(8, 2 * m) = 8 * (2 * b) + a /\ PlaceBy(8, 2 * m + 1) = 8 * (2 * b + 1) + a
      BY <2>2, <2>7, <3>1, <3>2, <3>3
    <3>5. ((16 * b + a) \div 8) % 2 = 0
      <4>1. (16 * b + a) \div 8 = 2 * b
        BY <2>7, <3>1
      <4> QED BY <2>7, <4>1
    <3> QED BY <2>7, <2>8, <3>4, <3>5 DEF Partner
  <2>5. ASSUME m >= 64
        PROVE  /\ PlaceBy(16, m) = PlaceBy(8, 2 * m - 127)
               /\ Partner(8, PlaceBy(16, m)) = PlaceBy(8, 2 * m - 128)
    <3> DEFINE d == a - 8
    <3>1. d \in 0..7 /\ a = d + 8 /\ 2 * m - 128 = 16 * d + 2 * b /\ 2 * m - 127 = 16 * d + (2 * b + 1)
      BY <2>7, <2>5
    <3> HIDE DEF d
    <3>2. (16 * d + 2 * b) % 16 = 2 * b /\ (16 * d + 2 * b) \div 16 = d
      BY <2>7, <3>1
    <3>3. (16 * d + (2 * b + 1)) % 16 = 2 * b + 1 /\ (16 * d + (2 * b + 1)) \div 16 = d
      BY <2>7, <3>1
    <3>4. PlaceBy(8, 2 * m - 128) = 8 * (2 * b) + d /\ PlaceBy(8, 2 * m - 127) = 8 * (2 * b + 1) + d
      <4>1. PlaceBy(8, 16 * d + 2 * b) = (2 * b) * 8 + d
        BY <2>2, <3>2
      <4>2. PlaceBy(8, 16 * d + (2 * b + 1)) = (2 * b + 1) * 8 + d
        BY <2>2, <3>3
      <4> QED BY <2>7, <3>1, <4>1, <4>2
    <3>5. ((16 * b + a) \div 8) % 2 = 1
      <4>1. (16 * b + a) \div 8 = 2 * b + 1
        BY <2>7, <3>1
      <4> QED BY <2>7, <4>1
    <3> QED BY <2>7, <2>8, <3>1, <3>4, <3>5 DEF Partner
  <2>6. (IF n = 64 THEN 1 ELSE 2 * n) = 16
    BY <1>4
  <2> QED BY <1>4, <2>3, <2>4, <2>5, <2>6 DEF Moves
<1>5. CASE n = 16
  <2>1. 128 \div 16 = 8 /\ 128 \div 32 = 4
    OBVIOUS
  <2>2. \A k : PlaceBy(16, k) = ((k % 8) * 16) + (k \div 8) /\ PlaceBy(32, k) = ((k % 4) * 32) + (k \div 4)
    BY <2>1 DEF PlaceBy
  <2>3. PlaceBy(16, m) \in 0..127
    BY <2>2
  <2> DEFINE a == m \div 4
             b == m % 4
  <2>7. m = 4 * a + b /\ a \in 0..31 /\ b \in 0..3
    OBVIOUS
  <2>9. PlaceBy(32, m) = (b * 32) + a
    BY <2>2
  <2> HIDE DEF a, b
  <2>8. PlaceBy(32, m) = 32 * b + a
    BY <2>7, <2>9
  <2>4. ASSUME m <= 63
        PROVE  PlaceBy(32, m) = PlaceBy(16, 2 * m) /\ Partner(16, PlaceBy(32, m)) = PlaceBy(16, 2 * m + 1)
    <3>1. a \in 0..15 /\ 2 * m = 8 * a + 2 * b /\ 2 * m + 1 = 8 * a + (2 * b + 1)
      BY <2>7, <2>4
    <3>2. (8 * a + 2 * b) % 8 = 2 * b /\ (8 * a + 2 * b) \div 8 = a
      BY <2>7
    <3>3. (8 * a + (2 * b + 1)) % 8 = 2 * b + 1 /\ (8 * a + (2 * b + 1)) \div 8 = a
      BY <2>7
    <3>4. PlaceBy(16, 2 * m) = 16 * (2 * b) + a /\ PlaceBy(16, 2 * m + 1) = 16 * (2 * b + 1) + a
      BY <2>2, <2>7, <3>1, <3>2, <3>3
    <3>5. ((32 * b + a) \div 16) % 2 = 0
      <4>1. (32 * b + a) \div 16 = 2 * b
        BY <2>7, <3>1
      <4> QED BY <2>7, <4>1
    <3> QED BY <2>7, <2>8, <3>4, <3>5 DEF Partner
  <2>5. ASSUME m >= 64
        PROVE  /\ PlaceBy(32, m) = PlaceBy(16, 2 * m - 127)
               /\ Partner(16, PlaceBy(32, m)) = PlaceBy(16, 2 * m - 128)
    <3> DEFINE d == a - 16
    <3>1. d \in 0..15 /\ a = d + 16 /\ 2 * m - 128 = 8 * d + 2 * b /\ 2 * m - 127 = 8 * d + (2 * b + 1)
      BY <2>7, <2>5
    <3> HIDE DEF d
    <3>2. (8 * d + 2 * b) % 8 = 2 * b /\ (8 * d + 2 * b) \div 8 = d
      BY <2>7, <3>1
    <3>3. (8 * d + (2 * b + 1)) % 8 = 2 * b + 1 /\ (8 * d + (2 * b + 1)) \div 8 = d
      BY <2>7, <3>1
    <3>4. PlaceBy(16, 2 * m - 128) = 16 * (2 * b) + d /\ PlaceBy(16, 2 * m - 127) = 16 * (2 * b + 1) + d
      <4>1. PlaceBy(16, 8 * d + 2 * b) = (2 * b) * 16 + d
        BY <2>2, <3>2
      <4>2. PlaceBy(16, 8 * d + (2 * b + 1)) = (2 * b + 1) * 16 + d
        BY <2>2, <3>3
      <4> QED BY <2>7, <3>1, <4>1, <4>2
    <3>5. ((32 * b + a) \div 16) % 2 = 1
      <4>1. (32 * b + a) \div 16 = 2 * b + 1
        BY <2>7, <3>1
      <4> QED BY <2>7, <4>1
    <3> QED BY <2>7, <2>8, <3>1, <3>4, <3>5 DEF Partner
  <2>6. (IF n = 64 THEN 1 ELSE 2 * n) = 32
    BY <1>5
  <2> QED BY <1>5, <2>3, <2>4, <2>5, <2>6 DEF Moves
<1>6. CASE n = 32
  <2>1. 128 \div 32 = 4 /\ 128 \div 64 = 2
    OBVIOUS
  <2>2. \A k : PlaceBy(32, k) = ((k % 4) * 32) + (k \div 4) /\ PlaceBy(64, k) = ((k % 2) * 64) + (k \div 2)
    BY <2>1 DEF PlaceBy
  <2>3. PlaceBy(32, m) \in 0..127
    BY <2>2
  <2> DEFINE a == m \div 2
             b == m % 2
  <2>7. m = 2 * a + b /\ a \in 0..63 /\ b \in 0..1
    OBVIOUS
  <2>9. PlaceBy(64, m) = (b * 64) + a
    BY <2>2
  <2> HIDE DEF a, b
  <2>8. PlaceBy(64, m) = 64 * b + a
    BY <2>7, <2>9
  <2>4. ASSUME m <= 63
        PROVE  PlaceBy(64, m) = PlaceBy(32, 2 * m) /\ Partner(32, PlaceBy(64, m)) = PlaceBy(32, 2 * m + 1)
    <3>1. a \in 0..31 /\ 2 * m = 4 * a + 2 * b /\ 2 * m + 1 = 4 * a + (2 * b + 1)
      BY <2>7, <2>4
    <3>2. (4 * a + 2 * b) % 4 = 2 * b /\ (4 * a + 2 * b) \div 4 = a
      BY <2>7
    <3>3. (4 * a + (2 * b + 1)) % 4 = 2 * b + 1 /\ (4 * a + (2 * b + 1)) \div 4 = a
      BY <2>7
    <3>4. PlaceBy(32, 2 * m) = 32 * (2 * b) + a /\ PlaceBy(32, 2 * m + 1) = 32 * (2 * b + 1) + a
      BY <2>2, <2>7, <3>1, <3>2, <3>3
    <3>5. ((64 * b + a) \div 32) % 2 = 0
      <4>1. (64 * b + a) \div 32 = 2 * b
        BY <2>7, <3>1
      <4> QED BY <2>7, <4>1
    <3> QED BY <2>7, <2>8, <3>4, <3>5 DEF Partner
  <2>5. ASSUME m >= 64
        PROVE  /\ PlaceBy(64, m) = PlaceBy(32, 2 * m - 127)
               /\ Partner(32, PlaceBy(64, m)) = PlaceBy(32, 2 * m - 128)
    <3> DEFINE d == a - 32
    <3>1. d \in 0..31 /\ a = d + 32 /\ 2 * m - 128 = 4 * d + 2 * b /\ 2 * m - 127 = 4 * d + (2 * b + 1)
      BY <2>7, <2>5
    <3> HIDE DEF d
    <3>2. (4 * d + 2 * b) % 4 = 2 * b /\ (4 * d + 2 * b) \div 4 = d
      BY <2>7, <3>1
    <3>3. (4 * d + (2 * b + 1)) % 4 = 2 * b + 1 /\ (4 * d + (2 * b + 1)) \div 4 = d
      BY <2>7, <3>1
    <3>4. PlaceBy(32, 2 * m - 128) = 32 * (2 * b) + d /\ PlaceBy(32, 2 * m - 127) = 32 * (2 * b + 1) + d
      <4>1. PlaceBy(32, 4 * d + 2 * b) = (2 * b) * 32 + d
        BY <2>2, <3>2
      <4>2. PlaceBy(32, 4 * d + (2 * b + 1)) = (2 * b + 1) * 32 + d
        BY <2>2, <3>3
      <4> QED BY <2>7, <3>1, <4>1, <4>2
    <3>5. ((64 * b + a) \div 32) % 2 = 1
      <4>1. (64 * b + a) \div 32 = 2 * b + 1
        BY <2>7, <3>1
      <4> QED BY <2>7, <4>1
    <3> QED BY <2>7, <2>8, <3>1, <3>4, <3>5 DEF Partner
  <2>6. (IF n = 64 THEN 1 ELSE 2 * n) = 64
    BY <1>6
  <2> QED BY <1>6, <2>3, <2>4, <2>5, <2>6 DEF Moves
<1>7. CASE n = 64
  <2>1. 128 \div 64 = 2 /\ 128 \div 1 = 128
    OBVIOUS
  <2>2. \A k : PlaceBy(64, k) = ((k % 2) * 64) + (k \div 2) /\ PlaceBy(1, k) = ((k % 128) * 1) + (k \div 128)
    BY <2>1 DEF PlaceBy
  <2>3. PlaceBy(64, m) \in 0..127
    BY <2>2
  <2>7. m % 128 = m /\ m \div 128 = 0
    OBVIOUS
  <2>8. PlaceBy(1, m) = m
    BY <2>2, <2>7
  <2>4. ASSUME m <= 63
        PROVE  PlaceBy(1, m) = PlaceBy(64, 2 * m) /\ Partner(64, PlaceBy(1, m)) = PlaceBy(64, 2 * m + 1)
    <3>1. (2 * m) % 2 = 0 /\ (2 * m) \div 2 = m /\ (2 * m + 1) % 2 = 1 /\ (2 * m + 1) \div 2 = m
      OBVIOUS
    <3>2. m \div 64 = 0 /\ 0 % 2 = 0
      BY <2>4
    <3>3. PlaceBy(64, 2 * m) = m /\ PlaceBy(64, 2 * m + 1) = 64 + m
      BY <2>2, <3>1
    <3> QED BY <2>8, <3>2, <3>3 DEF Partner
  <2>5. ASSUME m >= 64
        PROVE  /\ PlaceBy(1, m) = PlaceBy(64, 2 * m - 127)
               /\ Partner(64, PlaceBy(1, m)) = PlaceBy(64, 2 * m - 128)
    <3>1. /\ (2 * m - 128) % 2 = 0 /\ (2 * m - 128) \div 2 = m - 64
          /\ (2 * m - 127) % 2 = 1 /\ (2 * m - 127) \div 2 = m - 64
      OBVIOUS
    <3>2. m \div 64 = 1 /\ 1 % 2 = 1
      BY <2>5
    <3>3. PlaceBy(64, 2 * m - 128) = m - 64 /\ PlaceBy(64, 2 * m - 127) = 64 + (m - 64)
      BY <2>2, <3>1
    <3> QED BY <2>8, <3>2, <3>3 DEF Partner
  <2>6. (IF n = 64 THEN 1 ELSE 2 * n) = 1
    BY <1>7
  <2> QED BY <1>7, <2>3, <2>4, <2>5, <2>6 DEF Moves
<1> QED BY <1>1, <1>2, <1>3, <1>4, <1>5, <1>6, <1>7

(* A column of a row whose columns have changed places.                    *)
LEMMA SwapIs ==
  ASSUME NEW n \in {1, 2, 4, 8, 16, 32, 64}, NEW row \in SUBSET Columns, NEW c \in Columns
  PROVE  /\ Partner(n, c) \in Columns
         /\ c \in SwapColumns(n, row) <=> Partner(n, c) \in row
         /\ SwapColumns(n, row) \subseteq Columns
<1>1. ASSUME NEW d \in Columns PROVE Partner(n, d) \in Columns /\ Partner(n, Partner(n, d)) = d
  <2>1. CASE n = 1
    BY <2>1, SMTT(60) DEF Partner, Columns
  <2>2. CASE n = 2
    BY <2>2, SMTT(60) DEF Partner, Columns
  <2>3. CASE n = 4
    BY <2>3, SMTT(60) DEF Partner, Columns
  <2>4. CASE n = 8
    BY <2>4, SMTT(60) DEF Partner, Columns
  <2>5. CASE n = 16
    BY <2>5, SMTT(60) DEF Partner, Columns
  <2>6. CASE n = 32
    BY <2>6, SMTT(60) DEF Partner, Columns
  <2>7. CASE n = 64
    BY <2>7, SMTT(60) DEF Partner, Columns
  <2> QED BY <2>1, <2>2, <2>3, <2>4, <2>5, <2>6, <2>7
<1>2. SwapColumns(n, row) = {Partner(n, d) : d \in row}
  BY DEF SwapColumns, Partner
<1>3. \A d \in row : d \in Columns
  OBVIOUS
<1>4. c \in SwapColumns(n, row) => Partner(n, c) \in row
  BY <1>1, <1>2, <1>3
<1>5. Partner(n, c) \in row => c \in SwapColumns(n, row)
  BY <1>1, <1>2, <1>3
<1> QED BY <1>1, <1>2, <1>3, <1>4, <1>5

-----------------------------------------------------------------------------
(* A round of E8, a column at a time.                                      *)
State == [JhRows -> SUBSET Columns]

(* The rows of a round before they are swapped; cc are its constants.      *)
EvenSS(x, cc) == SS(x[0], x[2], x[4], x[6], cc \intersect Columns)
OddSS(x, cc) == SS(x[1], x[3], x[5], x[7], {c - 128 : c \in cc \ Columns})
RowsOf(x, cc) == L(EvenSS(x, cc), OddSS(x, cc))

(* The element in a column of the rows that are numbered from 1.           *)
Even(rows, c) == Nibble({b \in 0..3 : c \in rows[2 * (3 - b) + 1]})
OddOne(rows, c) == Nibble({b \in 0..3 : c \in rows[2 * (3 - b) + 2]})

Substituted(q, chosen) == (IF chosen THEN S1 ELSE S0)[q + 1]

(* Rows stay rows: no column comes in from outside.                        *)
LEMMA RowsAreColumns ==
  ASSUME NEW x \in State, NEW cc \in SUBSET (0..255)
  PROVE  \A k \in 1..8 : RowsOf(x, cc)[k] \in SUBSET Columns
<1> DEFINE Four(s) == \A k \in 1..4 : s[k] \in SUBSET Columns
<1>1. \A u, v : u \in SUBSET Columns /\ v \in SUBSET Columns => XorBits(u, v) \in SUBSET Columns
  BY DEF XorBits
<1>2. ASSUME NEW m0 \in SUBSET Columns, NEW m1 \in SUBSET Columns, NEW m2 \in SUBSET Columns,
             NEW m3 \in SUBSET Columns, NEW d \in SUBSET Columns
      PROVE  Four(SS(m0, m1, m2, m3, d))
  <2> DEFINE n3   == Columns \ m3
             a0   == XorBits(m0, d \ m2)
             temp == XorBits(d, a0 \intersect m1)
             b0   == XorBits(a0, m2 \intersect n3)
             a3   == XorBits(n3, m2 \ m1)
             a1   == XorBits(m1, b0 \intersect m2)
             a2   == XorBits(m2, b0 \ a3)
             c0   == XorBits(b0, a1 \union a3)
             s2   == XorBits(a1, temp \intersect c0)
             s3   == XorBits(a2, temp)
             s4   == XorBits(a3, a1 \intersect a2)
  <2>1. SS(m0, m1, m2, m3, d) = <<c0, s2, s3, s4>>
    BY DEF SS
  <2>2. n3 \in SUBSET Columns /\ a0 \in SUBSET Columns
    BY <1>1
  <2> HIDE DEF n3, a0
  <2>3. temp \in SUBSET Columns /\ b0 \in SUBSET Columns /\ a3 \in SUBSET Columns
    BY <1>1, <2>2
  <2> HIDE DEF temp, b0, a3
  <2>4. a1 \in SUBSET Columns /\ a2 \in SUBSET Columns
    BY <1>1, <2>3
  <2> HIDE DEF a1, a2
  <2>5. c0 \in SUBSET Columns /\ s3 \in SUBSET Columns /\ s4 \in SUBSET Columns
    BY <1>1, <2>3, <2>4
  <2> HIDE DEF c0, s3, s4
  <2>6. s2 \in SUBSET Columns
    BY <1>1, <2>4, <2>5
  <2> HIDE DEF s2
  <2>7. \A k \in 1..4 : k = 1 \/ k = 2 \/ k = 3 \/ k = 4
    OBVIOUS
  <2> QED BY <2>1, <2>5, <2>6, <2>7
<1>3. ASSUME NEW e, NEW o, Four(e), Four(o) PROVE \A k \in 1..8 : L(e, o)[k] \in SUBSET Columns
  <2> DEFINE m4 == XorBits(o[1], e[2])
             m5 == XorBits(o[2], e[3])
             m6 == XorAll(<<o[3], e[1], e[4]>>)
             m7 == XorBits(o[4], e[1])
             r1 == XorBits(e[1], m5)
             r3 == XorBits(e[2], m6)
             r5 == XorAll(<<e[3], m4, m7>>)
             r7 == XorBits(e[4], m4)
  <2>1. L(e, o) = <<r1, m4, r3, m5, r5, m6, r7, m7>>
    BY DEF L
  <2>2. \A u, v, w : u \in SUBSET Columns /\ v \in SUBSET Columns /\ w \in SUBSET Columns
                       => XorAll(<<u, v, w>>) \in SUBSET Columns
    BY XorOfThree
  <2>3. /\ e[1] \in SUBSET Columns /\ e[2] \in SUBSET Columns /\ e[3] \in SUBSET Columns /\ e[4] \in SUBSET Columns
        /\ o[1] \in SUBSET Columns /\ o[2] \in SUBSET Columns /\ o[3] \in SUBSET Columns /\ o[4] \in SUBSET Columns
    BY <1>3
  <2>4. m4 \in SUBSET Columns /\ m5 \in SUBSET Columns /\ m6 \in SUBSET Columns /\ m7 \in SUBSET Columns
    BY <1>1, <2>2, <2>3
  <2> HIDE DEF m4, m5, m6, m7
  <2>5. r1 \in SUBSET Columns /\ r3 \in SUBSET Columns /\ r5 \in SUBSET Columns /\ r7 \in SUBSET Columns
    BY <1>1, <2>2, <2>3, <2>4
  <2> HIDE DEF r1, r3, r5, r7
  <2>6. \A k \in 1..8 : k = 1 \/ k = 2 \/ k = 3 \/ k = 4 \/ k = 5 \/ k = 6 \/ k = 7 \/ k = 8
    OBVIOUS
  <2> QED BY <2>1, <2>4, <2>5, <2>6
<1>4. /\ cc \intersect Columns \in SUBSET Columns
      /\ {c - 128 : c \in cc \ Columns} \in SUBSET Columns
  BY DEF Columns
<1>5. \A j \in JhRows : x[j] \in SUBSET Columns
  BY DEF State
<1> HIDE DEF Four
<1>6. Four(EvenSS(x, cc))
  BY <1>2, <1>4, <1>5 DEF EvenSS, JhRows
<1>7. Four(OddSS(x, cc))
  BY <1>2, <1>4, <1>5 DEF OddSS, JhRows
<1> QED BY <1>3, <1>6, <1>7 DEF RowsOf

(* The pair of elements in a column after the substitution and the linear  *)
(* map (c_jh.c:123-160).                                                   *)
LEMMA PairIs ==
  ASSUME NEW x \in State, NEW cc \in SUBSET (0..255), NEW c \in Columns
  PROVE  LET v0   == Substituted(ElementAt(x, c, 0), c \in cc)
             v1   == Substituted(ElementAt(x, c, 1), c + 128 \in cc)
             rows == RowsOf(x, cc)
         IN  /\ OddOne(rows, c) = Added(v1, Twice(v0))
             /\ Even(rows, c) = Added(v0, Twice(OddOne(rows, c)))
<1> DEFINE A(odd) == {b \in 0..3 : c \in x[2 * (3 - b) + odd]}
           a0 == A(0)
           a1 == A(1)
           e == EvenSS(x, cc)
           o == OddSS(x, cc)
           c0 == cc \intersect Columns
           c1 == {d - 128 : d \in cc \ Columns}
           u == {b \in 0..3 : c \in e[4 - b]}
           w == {b \in 0..3 : c \in o[4 - b]}
           s == L(e, o)
           f == {b \in 0..3 : c \in s[2 * (3 - b) + 1]}
           g == {b \in 0..3 : c \in s[2 * (3 - b) + 2]}
<1>1. InColumn(a0, c, x[0], x[2], x[4], x[6]) /\ InColumn(a1, c, x[1], x[3], x[5], x[7])
  <2>1. /\ 2 * (3 - 3) + 0 = 0 /\ 2 * (3 - 2) + 0 = 2 /\ 2 * (3 - 1) + 0 = 4 /\ 2 * (3 - 0) + 0 = 6
        /\ 2 * (3 - 3) + 1 = 1 /\ 2 * (3 - 2) + 1 = 3 /\ 2 * (3 - 1) + 1 = 5 /\ 2 * (3 - 0) + 1 = 7
    OBVIOUS
  <2> QED BY <2>1, SMTT(20) DEF InColumn
<1>2. InColumn(u, c, e[1], e[2], e[3], e[4]) /\ InColumn(w, c, o[1], o[2], o[3], o[4])
  <2> HIDE DEF e, o
  <2>1. 4 - 3 = 1 /\ 4 - 2 = 2 /\ 4 - 1 = 3 /\ 4 - 0 = 4
    OBVIOUS
  <2> QED BY <2>1 DEF InColumn
<1>3. InColumn(f, c, s[1], s[3], s[5], s[7]) /\ InColumn(g, c, s[2], s[4], s[6], s[8])
  <2> HIDE DEF s
  <2>1. /\ 2 * (3 - 3) + 1 = 1 /\ 2 * (3 - 2) + 1 = 3 /\ 2 * (3 - 1) + 1 = 5 /\ 2 * (3 - 0) + 1 = 7
        /\ 2 * (3 - 3) + 2 = 2 /\ 2 * (3 - 2) + 2 = 4 /\ 2 * (3 - 1) + 2 = 6 /\ 2 * (3 - 0) + 2 = 8
    OBVIOUS
  <2> QED BY <2>1, SMTT(20) DEF InColumn
<1>4. (c \in c0 <=> c \in cc) /\ (c \in c1 <=> c + 128 \in cc)
  BY DEF Columns
<1>5. /\ e = SS(x[0], x[2], x[4], x[6], c0)
      /\ o = SS(x[1], x[3], x[5], x[7], c1)
  BY DEF EvenSS, OddSS
<1>6. /\ ElementAt(x, c, 0) = Nibble(a0) /\ ElementAt(x, c, 1) = Nibble(a1)
      /\ RowsOf(x, cc) = s /\ Even(s, c) = Nibble(f) /\ OddOne(s, c) = Nibble(g)
  BY DEF ElementAt, RowsOf, Even, OddOne
<1> HIDE DEF a0, a1, e, o, c0, c1, u, w, s, f, g
<1>7. Nibble(u) = (IF c \in c0 THEN S1 ELSE S0)[Nibble(a0) + 1]
  <2> DEFINE m0 == x[0]
             m1 == x[2]
             m2 == x[4]
             m3 == x[6]
  <2>1. InColumn(a0, c, m0, m1, m2, m3) /\ e = SS(m0, m1, m2, m3, c0)
    BY <1>1, <1>5
  <2> HIDE DEF m0, m1, m2, m3
  <2>2. LET t == SS(m0, m1, m2, m3, c0) IN InColumn(u, c, t[1], t[2], t[3], t[4])
    BY <1>2, <2>1
  <2> QED BY <2>1, <2>2, SubstitutionIs
<1>8. Nibble(w) = (IF c \in c1 THEN S1 ELSE S0)[Nibble(a1) + 1]
  <2> DEFINE m0 == x[1]
             m1 == x[3]
             m2 == x[5]
             m3 == x[7]
  <2>1. InColumn(a1, c, m0, m1, m2, m3) /\ o = SS(m0, m1, m2, m3, c1)
    BY <1>1, <1>5
  <2> HIDE DEF m0, m1, m2, m3
  <2>2. LET t == SS(m0, m1, m2, m3, c1) IN InColumn(w, c, t[1], t[2], t[3], t[4])
    BY <1>2, <2>1
  <2> QED BY <2>1, <2>2, SubstitutionIs
<1>9. /\ Nibble(g) = Added(Nibble(w), Twice(Nibble(u)))
      /\ Nibble(f) = Added(Nibble(u), Twice(Nibble(g)))
  <2>1. InFour(u, c, e) /\ InFour(w, c, o) /\ InEight(f, g, c, L(e, o))
    BY <1>2, <1>3 DEF s, InFour, InEight
  <2> QED BY <2>1, LinearIs
<1> QED BY <1>4, <1>6, <1>7, <1>8, <1>9, Zenon DEF Substituted

-----------------------------------------------------------------------------
(* A round of JH, a pair at a time.                                        *)
SecondOf(q, C, i) == Added(Substituted(q[2 * i], 2 * i \in C), Twice(Substituted(q[2 * i - 1], 2 * i - 1 \in C)))
FirstOf(q, C, i) == Added(Substituted(q[2 * i - 1], 2 * i - 1 \in C), Twice(SecondOf(q, C, i)))

(* The first half of the elements of the next round, and the other half.   *)
Halves(z, q, C) ==
  /\ IsSequence(z, 256)
  /\ \A k \in 1..128 : z[k] = IF k % 2 = 1 THEN FirstOf(q, C, k) ELSE SecondOf(q, C, k)
  /\ \A k \in 1..128 : z[128 + k] = IF k % 2 = 1 THEN FirstOf(q, C, k + 1) ELSE SecondOf(q, C, k - 1)

(* The elements that a round of JH has, by their numbers.                  *)
LEMMA JhRoundIs ==
  ASSUME NEW q, IsSequence(q, 256), NEW C
  PROVE  Halves(JhRound(q, C), q, C)
<1> DEFINE half == Len(q) \div 2
           v(i) == (IF i \in C THEN S1 ELSE S0)[q[i] + 1]
           Second(i) == Added(v(2 * i), Twice(v(2 * i - 1)))
           First(i)  == Added(v(2 * i - 1), Twice(Second(i)))
           front == [k \in 1..half |-> IF k % 2 = 1 THEN First(k) ELSE Second(k)]
           back == [k \in 1..half |-> IF k % 2 = 1 THEN First(k + 1) ELSE Second(k - 1)]
           z == front \o back
<1>1. JhRound(q, C) = z
  BY DEF JhRound
<1>2. half = 128
  <2>1. Len(q) = 256
    BY ONLY 256 \in Nat, IsSequence(q, 256), LengthIs
  <2> QED BY <2>1
<1>3. \A i : v(i) = Substituted(q[i], i \in C)
  BY DEF Substituted
<1> HIDE DEF v, half
<1>4. \A i : Second(i) = SecondOf(q, C, i)
  BY <1>3 DEF SecondOf
<1> HIDE DEF Second
<1>5. \A i : First(i) = FirstOf(q, C, i)
  BY <1>3, <1>4 DEF FirstOf
<1> HIDE DEF First
<1>6. /\ IsSequence(front, 128) /\ IsSequence(back, 128) /\ 128 \in Nat
      /\ \A k \in 1..128 : front[k] = IF k % 2 = 1 THEN FirstOf(q, C, k) ELSE SecondOf(q, C, k)
      /\ \A k \in 1..128 : back[k] = IF k % 2 = 1 THEN FirstOf(q, C, k + 1) ELSE SecondOf(q, C, k - 1)
  BY <1>2, <1>4, <1>5 DEF IsSequence
<1> HIDE DEF front, back
<1>7. IsSequence(z, 256) /\ \A i \in 1..256 : z[i] = IF i <= 128 THEN front[i] ELSE back[i - 128]
  <2>1. Joined(front \o back, front, 128, back, 128)
    BY <1>6, ConcatIs
  <2>2. 128 + 128 = 256
    OBVIOUS
  <2> QED BY <2>1, <2>2 DEF Joined
<1> HIDE DEF z
<1>8. \A k \in 1..128 : z[k] = front[k] /\ z[128 + k] = back[k]
  <2>1. \A k \in 1..128 : 128 + k \in 1..256 /\ ~(128 + k <= 128) /\ (128 + k) - 128 = k /\ k \in 1..256 /\ k <= 128
    OBVIOUS
  <2> QED BY <1>7, <2>1
<1> QED BY <1>1, <1>6, <1>7, <1>8 DEF Halves

ConstantsOf(r) == AsColumns(E8_bitslice_roundconstant[r + 1])

(* The rows after a round of E8: the odd ones have been swapped            *)
(* (c_jh.c:123-200).                                                       *)
LEMMA E8RoundIs ==
  ASSUME NEW x \in State, NEW r \in 0..41
  PROVE  LET y == E8Round(x, r)
             n == 2^(r % 7)
             rows == RowsOf(x, ConstantsOf(r))
         IN  /\ y \in State
             /\ n \in {1, 2, 4, 8, 16, 32, 64}
             /\ \A c \in Columns : /\ Partner(n, c) \in Columns
                                   /\ ElementAt(y, c, 0) = Even(rows, c)
                                   /\ ElementAt(y, c, 1) = OddOne(rows, Partner(n, c))
<1> DEFINE cc == ConstantsOf(r)
           n == 2^(r % 7)
           y == E8Round(x, r)
           rows == RowsOf(x, cc)
<1>1. cc \in SUBSET (0..255)
  BY RoundConstantsOfE8 DEF ConstantsOf
<1>2. n \in {1, 2, 4, 8, 16, 32, 64}
  <2>1. r \in 0..42
    OBVIOUS
  <2> QED BY <2>1, StepsOfE8
<1>3. y = [j \in JhRows |-> IF j % 2 = 0 THEN rows[j + 1] ELSE SwapColumns(n, rows[j + 1])]
  BY DEF E8Round, RowsOf, EvenSS, OddSS, ConstantsOf
<1> HIDE DEF n, y, cc
<1>4. \A k \in 1..8 : rows[k] \in SUBSET Columns
  BY <1>1, RowsAreColumns
<1> HIDE DEF rows
<1>5. \A row \in SUBSET Columns : \A c \in Columns :
        /\ Partner(n, c) \in Columns
        /\ c \in SwapColumns(n, row) <=> Partner(n, c) \in row
        /\ SwapColumns(n, row) \subseteq Columns
  BY <1>2, SwapIs
<1>6. \A j \in JhRows : j + 1 \in 1..8
  BY DEF JhRows
<1>7. y \in State
  <2>1. 0 \in Columns
    BY DEF Columns
  <2>2. \A row \in SUBSET Columns : SwapColumns(n, row) \in SUBSET Columns
    BY <1>5, <2>1
  <2>3. \A j \in JhRows : (IF j % 2 = 0 THEN rows[j + 1] ELSE SwapColumns(n, rows[j + 1])) \in SUBSET Columns
    BY <1>4, <1>6, <2>2
  <2> QED BY <1>3, <2>3 DEF State
<1>8. ASSUME NEW c \in Columns
      PROVE  /\ Partner(n, c) \in Columns
             /\ ElementAt(y, c, 0) = Even(rows, c)
             /\ ElementAt(y, c, 1) = OddOne(rows, Partner(n, c))
  <2>1. {} \in SUBSET Columns
    OBVIOUS
  <2>2. Partner(n, c) \in Columns
    BY <1>5, <2>1
  <2> DEFINE d == Partner(n, c)
  <2>3. ASSUME NEW b \in 0..3
        PROVE  /\ c \in y[2 * (3 - b) + 0] <=> c \in rows[2 * (3 - b) + 1]
               /\ c \in y[2 * (3 - b) + 1] <=> d \in rows[2 * (3 - b) + 2]
    <3> DEFINE j == 2 * (3 - b)
    <3>1. /\ j \in JhRows /\ j % 2 = 0 /\ j + 1 \in JhRows /\ (j + 1) % 2 = 1
          /\ j + 0 = j /\ (j + 1) + 1 = j + 2 /\ j + 2 \in 1..8
      BY DEF JhRows
    <3> HIDE DEF j, d
    <3>2. y[j] = rows[j + 1] /\ y[j + 1] = SwapColumns(n, rows[(j + 1) + 1])
      BY <1>3, <3>1
    <3>3. rows[j + 2] \in SUBSET Columns
      BY <1>4, <3>1
    <3>4. c \in SwapColumns(n, rows[j + 2]) <=> d \in rows[j + 2]
      BY <1>5, <3>3 DEF d
    <3>5. (c \in y[j + 0] <=> c \in rows[j + 1]) /\ (c \in y[j + 1] <=> d \in rows[j + 2])
      BY <3>1, <3>2, <3>4
    <3> QED BY <3>5 DEF j
  <2> HIDE DEF d
  <2>4. {b \in 0..3 : c \in y[2 * (3 - b) + 0]} = {b \in 0..3 : c \in rows[2 * (3 - b) + 1]}
    BY <2>3
  <2>5. {b \in 0..3 : c \in y[2 * (3 - b) + 1]} = {b \in 0..3 : d \in rows[2 * (3 - b) + 2]}
    BY <2>3
  <2>6. ElementAt(y, c, 0) = Even(rows, c)
    BY <2>4, Zenon DEF ElementAt, Even
  <2>7. ElementAt(y, c, 1) = OddOne(rows, d)
    BY <2>5, Zenon DEF ElementAt, OddOne
  <2> QED BY <2>2, <2>6, <2>7 DEF d
<1> QED BY <1>2, <1>7, <1>8 DEF n, y, rows, cc

ChosenAsIn(C, r) == \A e \in 1..256 : e \in C <=> ChoosesAt(r, e)

(* An element of the state, by the pair it is one of.                      *)
LEMMA ElementsAre ==
  ASSUME NEW x, NEW r
  PROVE  /\ IsSequence(Elements(x, r), 256)
         /\ \A m \in 0..127 : /\ Elements(x, r)[2 * m + 1] = ElementAt(x, ColumnOfPair(r, m), 0)
                              /\ Elements(x, r)[2 * m + 2] = ElementAt(x, ColumnOfPair(r, m), 1)
<1>1. \A m \in 0..127 : /\ 2 * m + 1 \in 1..256 /\ ((2 * m + 1) - 1) \div 2 = m /\ ((2 * m + 1) - 1) % 2 = 0
                        /\ 2 * m + 2 \in 1..256 /\ ((2 * m + 2) - 1) \div 2 = m /\ ((2 * m + 2) - 1) % 2 = 1
  OBVIOUS
<1>2. Elements(x, r) = [e \in 1..256 |-> ElementAt(x, ColumnOfPair(r, (e - 1) \div 2), (e - 1) % 2)]
  BY DEF Elements
<1> QED BY <1>1, <1>2 DEF IsSequence

(* The sequences of 256 have the same pairs. *)
SamePairs(s, t) ==
  /\ IsSequence(s, 256) /\ IsSequence(t, 256)
  /\ \A m \in 0..127 : s[2 * m + 1] = t[2 * m + 1] /\ s[2 * m + 2] = t[2 * m + 2]

(* A sequence of 256 is known when its pairs are.                          *)
LEMMA PairsAre ==
  ASSUME NEW s, NEW t, SamePairs(s, t)
  PROVE  s = t
<1>1. ASSUME NEW e \in 1..256 PROVE s[e] = t[e]
  <2> DEFINE m == (e - 1) \div 2
  <2>1. m \in 0..127 /\ (e = 2 * m + 1 \/ e = 2 * m + 2)
    OBVIOUS
  <2> HIDE DEF m
  <2> QED BY <2>1 DEF SamePairs
<1> QED BY <1>1 DEF SamePairs, IsSequence

(* E8 with the elements in their columns makes the round of JH, in which   *)
(* they move (c_jh.c:123-200).                                             *)
LEMMA RoundsAgree ==
  ASSUME NEW x \in State, NEW r \in 0..41, NEW C, ChosenAsIn(C, r)
  PROVE  /\ E8Round(x, r) \in State
         /\ Elements(E8Round(x, r), r + 1) = JhRound(Elements(x, r), C)
<1> DEFINE q == Elements(x, r)
           y == E8Round(x, r)
           n == 2^(r % 7)
           next == 2^((r + 1) % 7)
           cc == ConstantsOf(r)
           rows == RowsOf(x, cc)
           z == JhRound(q, C)
           P(k) == PlaceBy(n, k)
<1>1. n \in {1, 2, 4, 8, 16, 32, 64} /\ next = IF n = 64 THEN 1 ELSE 2 * n
  <2>1. r \in 0..42
    OBVIOUS
  <2> QED BY <2>1, StepsOfE8
<1>2. \A k : ColumnOfPair(r, k) = PlaceBy(n, k) /\ ColumnOfPair(r + 1, k) = PlaceBy(next, k)
  BY DEF ColumnOfPair, PlaceBy
<1>3. y \in State /\ \A c \in Columns : /\ ElementAt(y, c, 0) = Even(rows, c)
                                        /\ ElementAt(y, c, 1) = OddOne(rows, Partner(n, c))
  BY E8RoundIs
<1>4. cc \in SUBSET (0..255)
  BY RoundConstantsOfE8 DEF ConstantsOf
<1>5. ASSUME NEW m \in 0..127
      PROVE  /\ q[2 * m + 1] = ElementAt(x, P(m), 0) /\ (2 * m + 1 \in C <=> P(m) \in cc)
             /\ q[2 * m + 2] = ElementAt(x, P(m), 1) /\ (2 * m + 2 \in C <=> P(m) + 128 \in cc)
  <2>1. /\ 2 * m + 1 \in 1..256 /\ ((2 * m + 1) - 1) \div 2 = m /\ ((2 * m + 1) - 1) % 2 = 0
        /\ 2 * m + 2 \in 1..256 /\ ((2 * m + 2) - 1) \div 2 = m /\ ((2 * m + 2) - 1) % 2 = 1
    OBVIOUS
  <2>2. q[2 * m + 1] = ElementAt(x, ColumnOfPair(r, m), 0) /\ q[2 * m + 2] = ElementAt(x, ColumnOfPair(r, m), 1)
    BY ElementsAre
  <2>3. (2 * m + 1 \in C <=> ChoosesAt(r, 2 * m + 1)) /\ (2 * m + 2 \in C <=> ChoosesAt(r, 2 * m + 2))
    BY <2>1 DEF ChosenAsIn
  <2> HIDE DEF n, q
  <2>4. PlaceBy(n, m) \in 0..127
    BY ONLY <1>1, m \in 0..127, PlacesMove, ZenonT(40)
  <2>5. P(m) + 128 * 0 = P(m) /\ P(m) + 128 * 1 = P(m) + 128
    BY <2>4
  <2>6. (ChoosesAt(r, 2 * m + 1) <=> P(m) \in cc) /\ (ChoosesAt(r, 2 * m + 2) <=> P(m) + 128 \in cc)
    BY <1>2, <2>1, <2>5 DEF ChoosesAt, ConstantsOf
  <2> QED BY <1>2, <2>2, <2>3, <2>6
<1>6. \A m \in 0..127 : PlaceBy(n, m) \in Columns /\ PlaceBy(next, m) \in Columns /\ Moves(n, next, m)
  <2> DEFINE Steps == {1, 2, 4, 8, 16, 32, 64}
  <2>1. n \in Steps /\ next \in Steps
    BY <1>1
  <2>2. \A k \in Steps : \A m \in 0..127 : PlaceBy(k, m) \in Columns
    BY ONLY PlacesMove, ZenonT(40) DEF Columns
  <2> HIDE DEF n, next
  <2>3. \A m \in 0..127 : Moves(n, next, m)
    BY ONLY <1>1, PlacesMove
  <2> HIDE DEF Steps
  <2> QED BY <2>1, <2>2, <2>3
<1>7. Halves(z, q, C)
  <2>1. IsSequence(q, 256)
    BY ElementsAre
  <2> HIDE DEF q
  <2> QED BY <2>1, JhRoundIs
<1> HIDE DEF n, next, q, y, z, P
<1>8. ASSUME NEW i \in 1..128
      PROVE  FirstOf(q, C, i) = Even(rows, P(i - 1)) /\ SecondOf(q, C, i) = OddOne(rows, P(i - 1))
  <2> DEFINE m == i - 1
             c == P(m)
  <2>1. m \in 0..127 /\ 2 * i = 2 * m + 2 /\ 2 * i - 1 = 2 * m + 1
    OBVIOUS
  <2> HIDE DEF m
  <2>2. /\ q[2 * i - 1] = ElementAt(x, c, 0) /\ (2 * i - 1 \in C <=> c \in cc)
        /\ q[2 * i] = ElementAt(x, c, 1) /\ (2 * i \in C <=> c + 128 \in cc)
    BY <1>5, <2>1
  <2>3. c \in Columns
    BY <1>6, <2>1 DEF P
  <2> HIDE DEF c, cc
  <2>4. /\ Substituted(q[2 * i - 1], 2 * i - 1 \in C) = Substituted(ElementAt(x, c, 0), c \in cc)
        /\ Substituted(q[2 * i], 2 * i \in C) = Substituted(ElementAt(x, c, 1), c + 128 \in cc)
    BY <2>2 DEF Substituted
  <2> DEFINE v0 == Substituted(ElementAt(x, c, 0), c \in cc)
             v1 == Substituted(ElementAt(x, c, 1), c + 128 \in cc)
  <2>5. OddOne(rows, c) = Added(v1, Twice(v0)) /\ Even(rows, c) = Added(v0, Twice(OddOne(rows, c)))
    BY <1>4, <2>3, PairIs
  <2> HIDE DEF v0, v1, rows
  <2>6. SecondOf(q, C, i) = Added(v1, Twice(v0))
    BY <2>4 DEF SecondOf, v0, v1
  <2>7. FirstOf(q, C, i) = Added(v0, Twice(SecondOf(q, C, i)))
    BY <2>4 DEF FirstOf, v0
  <2> QED BY <2>5, <2>6, <2>7 DEF c, m
<1> HIDE DEF rows
<1>9. ASSUME NEW m \in 0..127
      PROVE  z[2 * m + 1] = Even(rows, PlaceBy(next, m)) /\ z[2 * m + 2] = OddOne(rows, Partner(n, PlaceBy(next, m)))
  <2>1. Moves(n, next, m)
    BY <1>6
  <2>2. CASE m <= 63
    <3> DEFINE k == 2 * m + 1
               j == 2 * m + 2
    <3>1. /\ k \in 1..128 /\ k % 2 = 1 /\ k - 1 = 2 * m
          /\ j \in 1..128 /\ ~(j % 2 = 1) /\ j - 1 = 2 * m + 1
      BY <2>2
    <3> HIDE DEF k, j
    <3>2. z[k] = FirstOf(q, C, k) /\ z[j] = SecondOf(q, C, j)
      BY <1>7, <3>1 DEF Halves
    <3>3. z[k] = Even(rows, P(2 * m)) /\ z[j] = OddOne(rows, P(2 * m + 1))
      BY <1>8, <3>1, <3>2
    <3> QED BY <2>1, <2>2, <3>3 DEF Moves, k, j, P
  <2>3. CASE ~(m <= 63)
    <3> DEFINE k == 2 * m - 127
               j == 2 * m - 126
               i == k + 1
               h == j - 1
    <3>1. /\ k \in 1..128 /\ k % 2 = 1 /\ i \in 1..128 /\ i - 1 = 2 * m - 127
          /\ j \in 1..128 /\ ~(j % 2 = 1) /\ h \in 1..128 /\ h - 1 = 2 * m - 128
          /\ 128 + k = 2 * m + 1 /\ 128 + j = 2 * m + 2
      BY <2>3
    <3>2. k + 1 = i /\ j - 1 = h
      OBVIOUS
    <3> HIDE DEF k, j, i, h
    <3>3. z[128 + k] = FirstOf(q, C, i) /\ z[128 + j] = SecondOf(q, C, h)
      BY <1>7, <3>1, <3>2 DEF Halves
    <3>4. z[128 + k] = Even(rows, P(2 * m - 127)) /\ z[128 + j] = OddOne(rows, P(2 * m - 128))
      BY <1>8, <3>1, <3>3
    <3>5. z[2 * m + 1] = Even(rows, P(2 * m - 127)) /\ z[2 * m + 2] = OddOne(rows, P(2 * m - 128))
      BY <3>1, <3>4
    <3>6. m >= 64
      BY <2>3
    <3> QED BY <2>1, <3>5, <3>6 DEF Moves, P
  <2> QED BY <2>2, <2>3
<1> DEFINE t == Elements(y, r + 1)
<1>10. IsSequence(t, 256) /\ \A m \in 0..127 : /\ t[2 * m + 1] = ElementAt(y, ColumnOfPair(r + 1, m), 0)
                                               /\ t[2 * m + 2] = ElementAt(y, ColumnOfPair(r + 1, m), 1)
  <2> DEFINE s == r + 1
  <2> HIDE DEF s
  <2>1. IsSequence(Elements(y, s), 256) /\ \A m \in 0..127 : /\ Elements(y, s)[2 * m + 1] = ElementAt(y, ColumnOfPair(s, m), 0)
                                                             /\ Elements(y, s)[2 * m + 2] = ElementAt(y, ColumnOfPair(s, m), 1)
    BY ElementsAre
  <2> QED BY <2>1 DEF s
<1> HIDE DEF t
<1>11. \A m \in 0..127 : t[2 * m + 1] = z[2 * m + 1] /\ t[2 * m + 2] = z[2 * m + 2]
  BY <1>2, <1>3, <1>6, <1>9, <1>10
<1>12. IsSequence(z, 256)
  BY <1>7 DEF Halves
<1>13. t = z
  <2>1. SamePairs(t, z)
    BY ONLY <1>10, <1>11, <1>12 DEF SamePairs
  <2> QED BY ONLY <2>1, PairsAre
<1> QED BY <1>3, <1>13 DEF t, y, z, q

-----------------------------------------------------------------------------
(* The constants of a round of JH choose as the table of E8 does.          *)
LEMMA ChosenIs ==
  ASSUME NEW r
  PROVE  ChosenAsIn(Chosen(ConstantAt(r)), r)
<1> DEFINE S(k) == {b \in 0..3 : ChoosesAt(r, 4 * k - b)}
           c == ConstantAt(r)
<1>1. DOMAIN c = 1..64 /\ \A k \in 1..64 : c[k] = Nibble(S(k))
  BY DEF ConstantAt
<1> HIDE DEF c
<1>2. \A n \in 0..15 : Bits(n) \subseteq 0..3
  <2> SUFFICES ASSUME NEW n \in 0..15, NEW i \in Bits(n) PROVE i \in 0..3
    OBVIOUS
  <2>1. i \in 0..7
    <3>1. n \in 0..255
      OBVIOUS
    <3> QED BY <3>1, FieldTables
  <2>2. (n \div 2^i) % 2 = 1
    BY DEF Bits
  <2>3. 2^4 = 16 /\ 2^5 = 32 /\ 2^6 = 64 /\ 2^7 = 128
    OBVIOUS
  <2>4. n \div 16 = 0 /\ n \div 32 = 0 /\ n \div 64 = 0 /\ n \div 128 = 0
    OBVIOUS
  <2>5. i # 4 /\ i # 5 /\ i # 6 /\ i # 7
    <3>1. 0 % 2 # 1
      OBVIOUS
    <3>2. ASSUME n \div 2^i = 0 PROVE FALSE
      BY <2>2, <3>1, <3>2
    <3> QED BY <2>3, <2>4, <3>2
  <2> QED BY <2>1, <2>5
<1>3. ASSUME NEW k \in 1..64, NEW b PROVE b \in Bits(c[k]) <=> b \in 0..3 /\ ChoosesAt(r, 4 * k - b)
  <2> DEFINE n == Nibble(S(k))
  <2>1. n \in 0..15 /\ \A i \in 0..3 : i \in Bits(n) <=> i \in S(k)
    BY NibbleIs
  <2> HIDE DEF n
  <2>2. Bits(n) \subseteq 0..3
    BY <1>2, <2>1
  <2> QED BY <1>1, <2>1, <2>2 DEF n
<1>4. \A e : e \in Chosen(c) <=> \E k \in 1..64 : \E b \in Bits(c[k]) : e = 4 * k - b
  BY <1>1 DEF Chosen
<1>5. \A e : e \in Chosen(c) <=> \E k \in 1..64 : \E b \in 0..3 : e = 4 * k - b /\ ChoosesAt(r, 4 * k - b)
  BY <1>3, <1>4
<1>6. ASSUME NEW e \in 1..256 PROVE e \in Chosen(c) <=> ChoosesAt(r, e)
  <2> DEFINE k == (e + 3) \div 4
             b == 4 * k - e
  <2>1. k \in 1..64 /\ b \in 0..3 /\ 4 * k - b = e
    OBVIOUS
  <2> HIDE DEF k, b
  <2> QED BY <1>5, <2>1
<1> QED BY <1>6 DEF ChosenAsIn, c

(* The rows of z are added to those of x.                                  *)
RowsAdded(y, x, z) == \A j \in JhRows : y[j] = XorBits(x[j], z[j])

(* Before the first round and after the last, when the elements are in     *)
(* their own columns, rows are added element by element.                   *)
LEMMA ElementsAdd ==
  ASSUME NEW x, NEW y, NEW z, RowsAdded(y, x, z), NEW r \in {0, 42}
  PROVE  Elements(y, r) = [e \in 1..256 |-> Added(Elements(x, r)[e], Elements(z, 0)[e])]
<1>1. \A k : ColumnOfPair(r, k) = ColumnOfPair(0, k)
  <2>1. r % 7 = 0 % 7
    OBVIOUS
  <2> QED BY <2>1 DEF ColumnOfPair
<1>2. ASSUME NEW c, NEW odd \in 0..1 PROVE ElementAt(y, c, odd) = Added(ElementAt(x, c, odd), ElementAt(z, c, odd))
  <2> DEFINE A(w) == {b \in 0..3 : c \in w[2 * (3 - b) + odd]}
  <2>1. \A b \in 0..3 : 2 * (3 - b) + odd \in JhRows
    BY DEF JhRows
  <2>2. \A b \in 0..3 : c \in y[2 * (3 - b) + odd] <=> ~(c \in x[2 * (3 - b) + odd] <=> c \in z[2 * (3 - b) + odd])
    BY <2>1 DEF RowsAdded, XorBits
  <2>3. \A b \in 0..3 : /\ b \in A(y) <=> c \in y[2 * (3 - b) + odd]
                        /\ b \in A(x) <=> c \in x[2 * (3 - b) + odd]
                        /\ b \in A(z) <=> c \in z[2 * (3 - b) + odd]
    OBVIOUS
  <2>4. \A b \in 0..3 : b \in XorBits(A(x), A(z)) <=> ~(b \in A(x) <=> b \in A(z))
    BY DEF XorBits
  <2>5. ElementAt(y, c, odd) = Nibble(A(y)) /\ ElementAt(x, c, odd) = Nibble(A(x)) /\ ElementAt(z, c, odd) = Nibble(A(z))
    BY DEF ElementAt
  <2> HIDE DEF A
  <2>6. Added(Nibble(A(x)), Nibble(A(z))) = Nibble(XorBits(A(x), A(z)))
    BY AddedIs
  <2>7. \A b \in 0..3 : b \in XorBits(A(x), A(z)) <=> b \in A(y)
    BY <2>2, <2>3, <2>4
  <2>8. Nibble(XorBits(A(x), A(z))) = Nibble(A(y))
    BY <2>7, SameNibble
  <2> QED BY <2>5, <2>6, <2>8
<1>3. \A e \in 1..256 : (e - 1) % 2 \in 0..1
  OBVIOUS
<1> QED BY <1>1, <1>2, <1>3 DEF Elements

(* The four rows of a block, from row first on.                            *)
EightRows(block, first) == [j \in JhRows |-> IF j \in first..first + 3 THEN block[j - first] ELSE {}]

(* So a block that enters or leaves in four rows is added to the elements. *)
LEMMA WithBlockIs ==
  ASSUME NEW x, NEW y, NEW block, NEW first, RowsAdded(y, x, EightRows(block, first)), NEW r \in {0, 42}
  PROVE  Elements(y, r) = WithBlock(Elements(x, r), block, first)
<1> DEFINE z == EightRows(block, first)
           t == [e \in 1..256 |-> Added(Elements(x, r)[e], Elements(z, 0)[e])]
<1>1. Elements(y, r) = t
  BY ElementsAdd
<1>2. WithBlock(Elements(x, r), block, first) = t \o <<>>
  BY DEF WithBlock, EightRows
<1>3. IsSequence(t, 256) /\ 256 \in Nat
  BY DEF IsSequence
<1> HIDE DEF t
<1>4. t \o <<>> = t
  BY <1>3, Whole
<1> QED BY <1>1, <1>2, <1>4

(* Of a call of JH the elements of the code are those of the definition,   *)
(* and the constants are those of the table.                               *)
JhInv ==
  call.function = "jh" =>
    /\ call \in Calls /\ round \in 0..43
    /\ round <= 42 => code \in State
    /\ ideal = [q |-> Elements(code, IF round < 42 THEN round ELSE 42), c |-> ideal.c]
    /\ round < 42 => ideal.c = ConstantAt(round)

(* What a call of JH is given are rows.                                    *)
LEMMA JhGiven ==
  ASSUME NEW c
  PROVE  JhState(c) \in State /\ JhBlock(c) \in [0..3 -> SUBSET Columns]
<1>1. \A k : Datum(c, 128, k) \in SUBSET Columns
  BY DEF Datum, Columns
<1>2. 8 - 1 = 7 /\ 4 - 1 = 3 /\ 7 \in Columns
  BY DEF Columns
<1>3. CASE IsConfig(c)
  BY <1>2, <1>3 DEF JhState, JhBlock, State
<1>4. CASE ~IsConfig(c)
  BY <1>1, <1>2, <1>4 DEF JhState, JhBlock, State, Data, JhRows
<1> QED BY <1>3, <1>4

(* Before the first round a call of JH has the elements of the definition. *)
LEMMA JhInitially ==
  CallInit => JhInv
<1> SUFFICES ASSUME CallInit, call.function = "jh" PROVE JhInv
  BY DEF JhInv
<1> DEFINE x == JhState(call)
           block == JhBlock(call)
<1>1. call \in Calls /\ round = 0
  BY DEF CallInit
<1>2. code = F8Enter(x, block) /\ ideal = [q |-> WithBlock(Elements(x, 0), block, 0), c |-> FirstConstant]
  BY DEF CallInit, Begun, BegunIdeal
<1>3. x \in State /\ block \in [0..3 -> SUBSET Columns]
  BY JhGiven
<1> HIDE DEF x, block
<1>4. RowsAdded(code, x, EightRows(block, 0))
  <2>1. \A j \in JhRows : code[j] = IF j < 4 THEN XorBits(x[j], block[j]) ELSE x[j]
    BY <1>2 DEF F8Enter
  <2>2. \A j \in JhRows : (j < 4 <=> j \in 0..0 + 3) /\ j - 0 = j
    BY DEF JhRows
  <2>3. \A a : XorBits(a, {}) = a
    BY DEF XorBits
  <2> QED BY <2>1, <2>2, <2>3 DEF RowsAdded, EightRows
<1>5. code \in State
  <2>1. \A j \in JhRows : j < 4 => j \in 0..3
    BY DEF JhRows
  <2>2. \A j \in JhRows : (IF j < 4 THEN XorBits(x[j], block[j]) ELSE x[j]) \in SUBSET Columns
    BY <1>3, <2>1 DEF State, XorBits
  <2> QED BY <1>2, <2>2 DEF F8Enter, State
<1>6. Elements(code, 0) = WithBlock(Elements(x, 0), block, 0)
  <2>1. 0 \in {0, 42}
    OBVIOUS
  <2> QED BY <1>4, <2>1, WithBlockIs
<1>7. FirstConstant = ConstantAt(0)
  BY RoundConstantsOfE8
<1> QED BY <1>1, <1>2, <1>5, <1>6, <1>7 DEF JhInv

(* A round of E8, or the block that leaves, keeps them the same.           *)
LEMMA JhNext ==
  ASSUME JhInv, [CallNext]_callVars
  PROVE  JhInv'
<1>1. CASE UNCHANGED callVars
  BY <1>1 DEF callVars, JhInv
<1>2. CASE CallNext /\ call.function # "jh"
  BY <1>2 DEF CallNext, JhInv
<1>3. CASE CallNext /\ call.function = "jh"
  <2>1. /\ call' = call /\ call' \in Calls /\ round' = round + 1 /\ round \in 0..43
        /\ (round <= 42 => code \in State)
        /\ ideal = [q |-> Elements(code, IF round < 42 THEN round ELSE 42), c |-> ideal.c]
        /\ (round < 42 => ideal.c = ConstantAt(round))
    BY <1>3 DEF CallNext, JhInv
  <2>2. JhRounds \/ JhEnd
    BY <1>3 DEF CallNext, SkeinRounds, SkeinEnd, AesRounds, BlakeRounds, BlakeEnd, KeccakRounds, GroestlRounds, GroestlEnd
  <2>3. CASE JhRounds
    <3> DEFINE C == Chosen(ideal.c)
    <3>1. /\ round \in 0..41 /\ code' = E8Round(code, round)
          /\ ideal' = [q |-> JhRound(ideal.q, C), c |-> NextConstant(ideal.c)]
      BY <2>1, <2>3 DEF JhRounds
    <3>2. code \in State /\ ideal.q = Elements(code, round) /\ ideal.c = ConstantAt(round)
      BY <2>1, <3>1
    <3>3. ChosenAsIn(C, round)
      BY <3>2, ChosenIs
    <3> HIDE DEF C
    <3>4. /\ E8Round(code, round) \in State
          /\ Elements(E8Round(code, round), round + 1) = JhRound(Elements(code, round), C)
      BY <3>1, <3>2, <3>3, RoundsAgree
    <3>5. code' \in State /\ ideal'.q = Elements(code', round') /\ ideal' = [q |-> ideal'.q, c |-> ideal'.c]
          /\ ideal'.c = NextConstant(ConstantAt(round))
      BY <2>1, <3>1, <3>2, <3>4
    <3>6. round' \in 0..43 /\ (IF round' < 42 THEN round' ELSE 42) = round'
      BY <2>1, <3>1
    <3>7. round' < 42 => ideal'.c = ConstantAt(round')
      <4>1. round' < 42 => round \in 0..40
        BY <2>1, <3>1
      <4> QED BY <2>1, <3>5, <4>1, RoundConstantsOfE8
    <3> QED BY <1>3, <2>1, <3>5, <3>6, <3>7 DEF JhInv
  <2>4. CASE JhEnd
    <3> DEFINE block == JhBlock(call)
    <3>1. /\ round = 42 /\ code' = F8Leave(code, block)
          /\ ideal' = [ideal EXCEPT !.q = WithBlock(@, block, 4)]
      BY <2>4 DEF JhEnd
    <3> HIDE DEF block
    <3>2. code \in State /\ ideal = [q |-> Elements(code, 42), c |-> ideal.c]
      BY <2>1, <3>1
    <3>3. RowsAdded(code', code, EightRows(block, 4))
      <4>1. \A j \in JhRows : code'[j] = IF j < 4 THEN code[j] ELSE XorBits(code[j], block[j - 4])
        BY <3>1 DEF F8Leave
      <4>2. \A j \in JhRows : ~(j < 4) <=> j \in 4..4 + 3
        BY DEF JhRows
      <4>3. \A a : XorBits(a, {}) = a
        BY DEF XorBits
      <4> QED BY <4>1, <4>2, <4>3 DEF RowsAdded, EightRows
    <3>4. Elements(code', 42) = WithBlock(Elements(code, 42), block, 4)
      <4> DEFINE y == code'
                 first == 4
                 r == 42
      <4>1. RowsAdded(y, code, EightRows(block, first)) /\ r \in {0, 42}
        BY <3>3
      <4> HIDE DEF y, first, r
      <4>2. Elements(y, r) = WithBlock(Elements(code, r), block, first)
        BY <4>1, WithBlockIs
      <4> QED BY <4>2 DEF y, first, r
    <3>5. ideal' = [q |-> Elements(code', 42), c |-> ideal'.c]
      <4>1. ideal' = [q |-> WithBlock(Elements(code, 42), block, 4), c |-> ideal.c]
        BY <3>1, <3>2
      <4> QED BY <3>4, <4>1
    <3>6. round' = 43 /\ ~(round' < 42) /\ ~(round' <= 42)
      BY <2>1, <3>1
    <3> QED BY <1>3, <2>1, <3>5, <3>6 DEF JhInv
  <2> QED BY <2>2, <2>3, <2>4
<1> QED BY <1>1, <1>2, <1>3

(* E8 of JH is as it is defined, whatever its rows (c_jh.c:102-226).       *)
THEOREM JhHolds ==
  CallSpec => []JhAsDefined
<1>1. JhInv => JhAsDefined
  BY DEF JhInv, JhAsDefined, Of
<1> QED BY <1>1, JhInitially, JhNext, PTL DEF CallSpec
=============================================================================

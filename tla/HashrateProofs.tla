--------------------------- MODULE HashrateProofs ---------------------------
(***************************************************************************)
(* Proofs about Hashrate, for every set of workers, every limit and every  *)
(* capacity of the ring.                                                   *)
(***************************************************************************)
EXTENDS Hashrate, TLAPS

(***************************************************************************)
(* The inductive invariant: with one worker, where it is tells exactly     *)
(* which slots hold a time and how many there may be.                      *)
(***************************************************************************)
Adding == {"array", "index", "store", "tail", "bump"}   \* before the tail is moved

SoloState(w) ==
    /\ capacity = MinCapacity
    /\ pc[w] # "died"
    /\ Size <= Limit + 1
    /\ pc[w] \in {"pop", "head"} => Size > Limit
    /\ pc[w] \in Adding => Size <= Limit
    /\ pc[w] = "head" => elements = Occupied \ {head} /\ index[w] = head
    /\ pc[w] \in {"tail", "bump"} => elements = Occupied \cup {tail}
    /\ pc[w] \notin {"head", "tail", "bump"} => elements = Occupied
    /\ pc[w] \in {"index", "store"} => ref[w] = capacity
    /\ pc[w] \in {"store", "bump"} => index[w] = tail
    /\ pc[w] = "compare" => index[w] # head

Solo == \A w \in Started : Started = {w} => SoloState(w)

IInv == TypeOK /\ Solo

-----------------------------------------------------------------------------
(* Arithmetic of the ring. *)

(* A number less than one length away from the ring is reduced by one      *)
(* addition or subtraction.                                                *)
LEMMA ReduceBelow ==
    ASSUME NEW c \in Nat \ {0}, NEW x \in Int, -c <= x, x < c
    PROVE  x % c = IF 0 <= x THEN x ELSE x + c
<1>1. CASE 0 <= x
    BY <1>1
<1>2. CASE ~(0 <= x)
    BY <1>2
<1> QED
    BY <1>1, <1>2

(* A number below twice the divisor. *)
LEMMA ReduceAbove ==
    ASSUME NEW c \in Nat \ {0}, NEW x \in Int, 0 <= x, x < 2 * c
    PROVE  x % c = IF x < c THEN x ELSE x - c
<1>1. CASE x < c
    BY <1>1
<1>2. CASE ~(x < c)
    BY <1>2
<1> QED
    BY <1>1, <1>2

(* The slot after another. *)
LEMMA SlotAfter ==
    ASSUME NEW c \in Nat \ {0}, NEW h \in 0 .. (c - 1), NEW i \in 0 .. c
    PROVE  (h + i) % c = IF h + i < c THEN h + i ELSE h + i - c
<1> DEFINE x == h + i
<1>1. x \in Int /\ 0 <= x /\ x < 2 * c
    OBVIOUS
<1> HIDE DEF x
<1>2. x % c = IF x < c THEN x ELSE x - c
    BY <1>1, ReduceAbove
<1> QED
    BY <1>2 DEF x

(* The distance between two slots. *)
LEMMA Distance ==
    ASSUME NEW c \in Nat \ {0}, NEW h \in 0 .. (c - 1), NEW t \in 0 .. (c - 1)
    PROVE  (t - h) % c = IF h <= t THEN t - h ELSE t - h + c
<1> DEFINE x == t - h
<1>1. x \in Int /\ -c <= x /\ x < c /\ (h <= t <=> 0 <= x)
    OBVIOUS
<1> HIDE DEF x
<1>2. x % c = IF 0 <= x THEN x ELSE x + c
    BY <1>1, ReduceBelow
<1> QED
    BY <1>1, <1>2 DEF x

\* The slots from h up to t in a ring of c.
Between(h, t, c) == {(h + i) % c : i \in 0 .. (((t - h) % c) - 1)}

(* The slots of the ring, now and after a step. *)
LEMMA OccupiedBetween ==
    /\ Occupied = Between(head, tail, capacity)
    /\ Occupied' = Between(head', tail', capacity')
BY DEF Occupied, Size, Between

(* These slots are one interval or two. *)
LEMMA BetweenIs ==
    ASSUME NEW c \in Nat \ {0}, NEW h \in 0 .. (c - 1), NEW t \in 0 .. (c - 1)
    PROVE  Between(h, t, c) = IF h <= t
                              THEN h .. (t - 1)
                              ELSE (h .. (c - 1)) \cup (0 .. (t - 1))
<1> DEFINE n == (t - h) % c
           Slot(i) == (h + i) % c
           There == IF h <= t THEN h .. (t - 1) ELSE (h .. (c - 1)) \cup (0 .. (t - 1))
<1>1. n = IF h <= t THEN t - h ELSE t - h + c
    BY Distance
<1>2. \A i \in 0 .. (n - 1) : Slot(i) = IF h + i < c THEN h + i ELSE h + i - c
    <2>1. \A i \in 0 .. (n - 1) : i \in 0 .. c
        BY <1>1
    <2> QED
        BY <2>1, SlotAfter
<1>3. Between(h, t, c) = {Slot(i) : i \in 0 .. (n - 1)}
    BY DEF Between
<1> HIDE DEF n, Slot
<1>4. ASSUME NEW s \in There PROVE \E i \in 0 .. (n - 1) : s = Slot(i)
    <2> DEFINE i == IF s >= h THEN s - h ELSE s - h + c
    <2>1. i \in 0 .. (n - 1) /\ (IF h + i < c THEN h + i ELSE h + i - c) = s
        BY <1>1, <1>4
    <2> QED
        BY <1>2, <2>1
<1>5. ASSUME NEW i \in 0 .. (n - 1) PROVE Slot(i) \in There
    BY <1>1, <1>2
<1> QED
    BY <1>3, <1>4, <1>5

(* The first slot goes. *)
LEMMA PopFirst ==
    ASSUME NEW c \in Nat \ {0}, NEW h \in 0 .. (c - 1), NEW t \in 0 .. (c - 1),
           (t - h) % c > 0
    PROVE  LET g == (h + 1) % c IN
           /\ g \in 0 .. (c - 1)
           /\ (t - g) % c = ((t - h) % c) - 1
           /\ h \in Between(h, t, c)
           /\ Between(g, t, c) = Between(h, t, c) \ {h}
<1> DEFINE g == (h + 1) % c
<1>1. g = IF h + 1 < c THEN h + 1 ELSE h + 1 - c
    BY SlotAfter, 1 \in 0 .. c
<1>2. g \in 0 .. (c - 1)
    BY <1>1
<1>3. (t - h) % c = IF h <= t THEN t - h ELSE t - h + c
    BY Distance
<1> HIDE DEF g
<1>4. (t - g) % c = IF g <= t THEN t - g ELSE t - g + c
    BY <1>2, Distance
<1>5. (t - g) % c = ((t - h) % c) - 1
    BY <1>1, <1>3, <1>4
<1>6. h # t
    BY <1>3
<1>7. h \in Between(h, t, c) /\ Between(g, t, c) = Between(h, t, c) \ {h}
    <2>1. Between(h, t, c) = IF h <= t
                             THEN h .. (t - 1)
                             ELSE (h .. (c - 1)) \cup (0 .. (t - 1))
        BY BetweenIs
    <2>2. Between(g, t, c) = IF g <= t
                             THEN g .. (t - 1)
                             ELSE (g .. (c - 1)) \cup (0 .. (t - 1))
        BY <1>2, BetweenIs
    <2> QED
        BY <1>1, <1>2, <1>6, <2>1, <2>2
<1> QED
    BY <1>2, <1>5, <1>7 DEF g

(* One more slot at the end. *)
LEMMA AddLast ==
    ASSUME NEW c \in Nat \ {0}, NEW h \in 0 .. (c - 1), NEW t \in 0 .. (c - 1),
           ((t - h) % c) + 1 < c
    PROVE  LET u == (t + 1) % c IN
           /\ u \in 0 .. (c - 1)
           /\ u # h
           /\ (u - h) % c = ((t - h) % c) + 1
           /\ t \notin Between(h, t, c)
           /\ Between(h, u, c) = Between(h, t, c) \cup {t}
<1> DEFINE u == (t + 1) % c
<1>1. u = IF t + 1 < c THEN t + 1 ELSE t + 1 - c
    BY SlotAfter, 1 \in 0 .. c
<1>2. u \in 0 .. (c - 1)
    BY <1>1
<1>3. (t - h) % c = IF h <= t THEN t - h ELSE t - h + c
    BY Distance
<1> HIDE DEF u
<1>4. (u - h) % c = IF h <= u THEN u - h ELSE u - h + c
    BY <1>2, Distance
<1>5. u # h /\ (u - h) % c = ((t - h) % c) + 1
    BY <1>1, <1>3, <1>4
<1>6. t \notin Between(h, t, c)
    BY BetweenIs
<1>7. Between(h, u, c) = Between(h, t, c) \cup {t}
    <2>1. Between(h, t, c) = IF h <= t
                             THEN h .. (t - 1)
                             ELSE (h .. (c - 1)) \cup (0 .. (t - 1))
        BY BetweenIs
    <2>2. Between(h, u, c) = IF h <= u
                             THEN h .. (u - 1)
                             ELSE (h .. (c - 1)) \cup (0 .. (u - 1))
        BY <1>2, BetweenIs
    <2> QED
        BY <1>1, <1>2, <1>5, <2>1, <2>2
<1> QED
    BY <1>2, <1>5, <1>6, <1>7 DEF u

(* Nothing is between a slot and itself. *)
LEMMA EmptyRing ==
    ASSUME NEW c \in Nat \ {0}, NEW h \in 0 .. (c - 1), NEW t \in 0 .. (c - 1)
    PROVE  /\ (t - h) % c \in 0 .. (c - 1)
           /\ h \in Between(h, t, c) <=> (t - h) % c # 0
<1>1. (t - h) % c = IF h <= t THEN t - h ELSE t - h + c
    BY Distance
<1> QED
    BY <1>1, BetweenIs

-----------------------------------------------------------------------------
(* Type correctness. *)

Places == {"hash", "test", "pop", "head", "array", "index",
           "store", "tail", "bump", "compare", "died"}

(* The workers of this run of the program stay the same. *)
LEMMA StartedStays == [Next]_vars => Started' = Started
BY DEF Next, Main, Run, Ask, LoadHead, Element, Return, Acquire, Crowded, Release,
       Take, MoveHead, PopThrows, LoadArray, LoadIndex, Store, StoreThrows,
       LoadTail, MoveTail, Fits, Grow, Replace, Goto, Started, vars

(* A worker goes from one place to another. *)
LEMMA GotoType ==
    ASSUME TypeOK, NEW w \in Started, NEW from, NEW to \in Places, Goto(w, from, to)
    PROVE  /\ pc[w] = from
           /\ pc' = [pc EXCEPT ![w] = to]
           /\ pc'[w] = to
           /\ Started' = Started
           /\ pc' \in [Started -> Places]
BY DEF Goto, TypeOK, Places, Started

(* The constants and the variables of the deque are numbers. *)
LEMMA RingType ==
    ASSUME TypeOK
    PROVE  /\ capacity \in Nat \ {0}
           /\ head \in 0 .. (capacity - 1)
           /\ tail \in 0 .. (capacity - 1)
           /\ elements \subseteq 0 .. (capacity - 1)
           /\ MinCapacity \in Nat /\ MaxCapacity \in Nat
           /\ capacity <= MaxCapacity
           /\ Size \in 0 .. (capacity - 1)
<1>1. /\ capacity \in Nat \ {0}
      /\ head \in 0 .. (capacity - 1)
      /\ tail \in 0 .. (capacity - 1)
      /\ elements \subseteq 0 .. (capacity - 1)
      /\ MinCapacity \in Nat /\ MaxCapacity \in Nat
      /\ capacity <= MaxCapacity
    BY SizesAssumption DEF TypeOK
<1>2. Size \in 0 .. (capacity - 1)
    BY <1>1, EmptyRing DEF Size
<1> QED
    BY <1>1, <1>2

(* Every variable has its type at first. *)
LEMMA TypeInit == Init => TypeOK
<1> SUFFICES ASSUME Init PROVE TypeOK
    OBVIOUS
<1> USE SizesAssumption
<1>1. PICK S \in (SUBSET Workers) \ {{}} : pc = [w \in S |-> "hash"]
    BY DEF Init
<1>2. Started \subseteq Workers /\ pc \in [Started -> Places]
    BY <1>1 DEF Started, Places
<1>3. /\ capacity \in MinCapacity .. MaxCapacity
      /\ head \in 0 .. (capacity - 1)
      /\ tail \in 0 .. (capacity - 1)
      /\ elements \subseteq 0 .. (capacity - 1)
    BY DEF Init
<1>4. ref \in [Workers -> {0} \cup MinCapacity .. MaxCapacity]
    BY DEF Init
<1>5. index \in [Threads -> 0 .. (MaxCapacity - 1)]
    BY DEF Init
<1>6. lock \in Workers \cup {NoOne} /\ main = "idle"
    BY DEF Init
<1> QED
    BY <1>2, <1>3, <1>4, <1>5, <1>6 DEF TypeOK, Places

(* What a step leaves in the deque and in the locals has its type. *)
LEMMA TypeStep == TypeOK /\ [Next]_vars => TypeOK'
<1> SUFFICES ASSUME TypeOK, [Next]_vars PROVE TypeOK'
    OBVIOUS
<1> DEFINE DequeOK == /\ capacity \in MinCapacity .. MaxCapacity
                      /\ head \in 0 .. (capacity - 1)
                      /\ tail \in 0 .. (capacity - 1)
                      /\ elements \subseteq 0 .. (capacity - 1)
           LocalsOK == /\ ref \in [Workers -> {0} \cup MinCapacity .. MaxCapacity]
                       /\ index \in [Threads -> 0 .. (MaxCapacity - 1)]
           PcOK == Started \subseteq Workers /\ pc \in [Started -> Places]
           LockOK == lock \in Workers \cup {NoOne}
           MainOK == main \in {"idle", "head", "element", "disconnected"}
<1>1. DequeOK /\ LocalsOK /\ PcOK /\ LockOK /\ MainOK
    BY DEF TypeOK, Places
<1>2. SUFFICES DequeOK' /\ LocalsOK' /\ PcOK' /\ LockOK' /\ MainOK'
    BY DEF TypeOK, Places
<1> HIDE DEF DequeOK, LocalsOK, PcOK, LockOK, MainOK
<1>3. ASSUME UNCHANGED deque PROVE DequeOK'
    BY <1>1, <1>3 DEF deque, DequeOK
<1>4. ASSUME UNCHANGED locals PROVE LocalsOK'
    BY <1>1, <1>4 DEF locals, LocalsOK
<1>5. ASSUME UNCHANGED pc PROVE PcOK'
    BY <1>1, <1>5 DEF PcOK, Started
<1>6. ASSUME UNCHANGED lock PROVE LockOK'
    BY <1>1, <1>6 DEF LockOK
<1>7. ASSUME UNCHANGED main PROVE MainOK'
    BY <1>1, <1>7 DEF MainOK
<1>8. ASSUME NEW w \in Started, NEW from, NEW to \in Places, Goto(w, from, to)
      PROVE  PcOK' /\ w \in Workers
    BY <1>1, <1>8, GotoType DEF PcOK
<1>9. ASSUME NEW t \in Threads, ForgetIndex(t) PROVE index' \in [Threads -> 0 .. (MaxCapacity - 1)]
    BY <1>1, <1>9, SizesAssumption DEF LocalsOK, ForgetIndex
<1>10. ASSUME NEW w \in Workers, ForgetRef(w)
       PROVE  ref' \in [Workers -> {0} \cup MinCapacity .. MaxCapacity]
    BY <1>1, <1>10 DEF LocalsOK, ForgetRef
<1>11. Workers \subseteq Threads /\ NoOne \in Threads
    BY DEF Threads
<1>12. Places = {"hash", "test", "pop", "head", "array", "index",
                 "store", "tail", "bump", "compare", "died"}
    BY DEF Places
<1>13. ASSUME Main PROVE DequeOK' /\ LocalsOK' /\ PcOK' /\ LockOK' /\ MainOK'
    <2>1. UNCHANGED <<deque, lock, pc, ref>> /\ MainOK'
        BY <1>13 DEF Main, Ask, LoadHead, Element, Return, MainOK, locals
    <2>2. head \in 0 .. (MaxCapacity - 1)
        BY RingType
    <2>3. index' \in [Threads -> 0 .. (MaxCapacity - 1)]
        <3>1. CASE LoadHead
            BY <1>1, <1>11, <2>2, <3>1 DEF LoadHead, LocalsOK
        <3>2. CASE Element
            BY <1>9, <1>11, <3>2 DEF Element
        <3>3. CASE Ask \/ Return
            BY <1>1, <3>3 DEF Ask, Return, locals, LocalsOK
        <3> QED
            BY <1>13, <3>1, <3>2, <3>3 DEF Main
    <2>4. LocalsOK'
        BY <1>1, <2>1, <2>3 DEF LocalsOK
    <2> QED
        BY <1>3, <1>5, <1>6, <2>1, <2>4
<1>14. ASSUME NEW w \in Started, Acquire(w) \/ Crowded(w) \/ Release(w) \/ PopThrows(w) \/ Replace(w)
       PROVE  DequeOK' /\ LocalsOK' /\ PcOK' /\ LockOK' /\ MainOK'
    <2>1. UNCHANGED <<deque, locals, main>> /\ lock' \in {lock, w, NoOne}
        BY <1>14 DEF Acquire, Crowded, Release, PopThrows, Replace
    <2>2. \E from, to \in Places : Goto(w, from, to)
        BY <1>12, <1>14 DEF Acquire, Crowded, Release, PopThrows, Replace
    <2>3. PcOK' /\ w \in Workers
        BY <1>8, <2>2
    <2>4. LockOK'
        BY <1>1, <2>1, <2>3 DEF LockOK
    <2> QED
        BY <1>3, <1>4, <1>7, <2>1, <2>3, <2>4
<1>15. ASSUME NEW w \in Started, Take(w)
       PROVE  DequeOK' /\ LocalsOK' /\ PcOK' /\ LockOK' /\ MainOK'
    <2>1. /\ Goto(w, "pop", "head") /\ UNCHANGED <<head, tail, capacity, lock, ref, main>>
          /\ elements' = elements \ {head}
          /\ index' = [index EXCEPT ![w] = head]
        BY <1>15 DEF Take
    <2>2. DequeOK'
        BY <1>1, <2>1 DEF DequeOK
    <2>3. head \in 0 .. (MaxCapacity - 1)
        BY RingType
    <2>4. LocalsOK'
        BY <1>1, <2>1, <2>3 DEF LocalsOK
    <2> QED
        BY <1>6, <1>7, <1>8, <1>12, <2>1, <2>2, <2>4
<1>16. ASSUME NEW w \in Started, MoveHead(w)
       PROVE  DequeOK' /\ LocalsOK' /\ PcOK' /\ LockOK' /\ MainOK'
    <2>1. /\ Goto(w, "head", "test") /\ ForgetIndex(w)
          /\ head' = (index[w] + 1) % capacity
          /\ UNCHANGED <<tail, elements, capacity, lock, ref, main>>
        BY <1>16 DEF MoveHead
    <2>2. PcOK' /\ w \in Workers
        BY <1>8, <1>12, <2>1
    <2>3. LocalsOK'
        BY <1>1, <1>9, <1>11, <2>1, <2>2 DEF LocalsOK
    <2>4. index[w] \in Int
        BY <1>1, <1>11, <2>2 DEF LocalsOK
    <2>5. (index[w] + 1) % capacity \in 0 .. (capacity - 1)
        BY <2>4, RingType
    <2>6. DequeOK'
        BY <1>1, <2>1, <2>5 DEF DequeOK
    <2> QED
        BY <1>6, <1>7, <2>1, <2>2, <2>3, <2>6
<1>17. ASSUME NEW w \in Started, LoadArray(w)
       PROVE  DequeOK' /\ LocalsOK' /\ PcOK' /\ LockOK' /\ MainOK'
    <2>1. /\ Goto(w, "array", "index") /\ UNCHANGED <<deque, lock, index, main>>
          /\ ref' = [ref EXCEPT ![w] = capacity]
        BY <1>17 DEF LoadArray
    <2>2. LocalsOK'
        BY <1>1, <2>1 DEF LocalsOK, DequeOK
    <2> QED
        BY <1>3, <1>6, <1>7, <1>8, <1>12, <2>1, <2>2
<1>18. ASSUME NEW w \in Started, LoadIndex(w) \/ LoadTail(w)
       PROVE  DequeOK' /\ LocalsOK' /\ PcOK' /\ LockOK' /\ MainOK'
    <2>1. /\ Goto(w, "index", "store") \/ Goto(w, "tail", "bump")
          /\ UNCHANGED <<deque, lock, ref, main>>
          /\ index' = [index EXCEPT ![w] = tail]
        BY <1>18 DEF LoadIndex, LoadTail
    <2>2. tail \in 0 .. (MaxCapacity - 1)
        BY RingType
    <2>3. LocalsOK'
        BY <1>1, <2>1, <2>2 DEF LocalsOK
    <2> QED
        BY <1>3, <1>6, <1>7, <1>8, <1>12, <2>1, <2>3
<1>19. ASSUME NEW w \in Started, Store(w)
       PROVE  DequeOK' /\ LocalsOK' /\ PcOK' /\ LockOK' /\ MainOK'
    <2>1. /\ Goto(w, "store", "tail") /\ UNCHANGED <<head, tail, capacity, lock, main>>
          /\ ForgetRef(w) /\ ForgetIndex(w)
          /\ index[w] < ref[w]
          /\ elements' = IF ref[w] = capacity THEN elements \cup {index[w]} ELSE elements
        BY <1>19 DEF Store
    <2>2. PcOK' /\ w \in Workers
        BY <1>8, <1>12, <2>1
    <2>3. LocalsOK'
        BY <1>9, <1>10, <1>11, <2>1, <2>2 DEF LocalsOK
    <2>4. index[w] \in 0 .. (MaxCapacity - 1)
        BY <1>1, <1>11, <2>2 DEF LocalsOK
    <2>5. elements' \subseteq 0 .. (capacity - 1)
        BY <2>1, <2>4, RingType
    <2>6. DequeOK'
        BY <1>1, <2>1, <2>5 DEF DequeOK
    <2> QED
        BY <1>6, <1>7, <2>1, <2>2, <2>3, <2>6
<1>20. ASSUME NEW w \in Started, StoreThrows(w)
       PROVE  DequeOK' /\ LocalsOK' /\ PcOK' /\ LockOK' /\ MainOK'
    <2>1. /\ Goto(w, "store", "died") /\ UNCHANGED <<deque, lock, main>>
          /\ ForgetRef(w) /\ ForgetIndex(w)
        BY <1>20 DEF StoreThrows
    <2>2. PcOK' /\ w \in Workers
        BY <1>8, <1>12, <2>1
    <2>3. LocalsOK'
        BY <1>9, <1>10, <1>11, <2>1, <2>2 DEF LocalsOK
    <2> QED
        BY <1>3, <1>6, <1>7, <2>1, <2>2, <2>3
<1>21. ASSUME NEW w \in Started, MoveTail(w)
       PROVE  DequeOK' /\ LocalsOK' /\ PcOK' /\ LockOK' /\ MainOK'
    <2> DEFINE next == (index[w] + 1) % capacity
    <2>1. /\ Goto(w, "bump", "compare") /\ UNCHANGED <<head, elements, capacity, lock, ref, main>>
          /\ tail' = next /\ index' = [index EXCEPT ![w] = next]
        BY <1>21 DEF MoveTail
    <2>2. PcOK' /\ w \in Workers
        BY <1>8, <1>12, <2>1
    <2>3. index[w] \in Int
        BY <1>1, <1>11, <2>2 DEF LocalsOK
    <2>4. next \in 0 .. (capacity - 1)
        BY <2>3, RingType
    <2> HIDE DEF next
    <2>5. next \in 0 .. (MaxCapacity - 1)
        BY <2>4, RingType
    <2>6. DequeOK'
        BY <1>1, <2>1, <2>4 DEF DequeOK
    <2>7. LocalsOK'
        BY <1>1, <2>1, <2>5 DEF LocalsOK
    <2> QED
        BY <1>6, <1>7, <2>1, <2>2, <2>6, <2>7
<1>22. ASSUME NEW w \in Started, Fits(w) \/ Grow(w)
       PROVE  DequeOK' /\ LocalsOK' /\ PcOK' /\ LockOK' /\ MainOK'
    <2>1. /\ Goto(w, "compare", "hash") /\ ForgetIndex(w) /\ UNCHANGED <<lock, ref, main>>
        BY <1>22 DEF Fits, Grow
    <2>2. PcOK' /\ w \in Workers
        BY <1>8, <1>12, <2>1
    <2>3. LocalsOK'
        BY <1>1, <1>9, <1>11, <2>1, <2>2 DEF LocalsOK
    <2>4. CASE Fits(w)
        BY <1>3, <1>6, <1>7, <2>1, <2>2, <2>3, <2>4 DEF Fits
    <2>5. CASE Grow(w)
        <3>1. DequeOK'
            BY <1>1, <2>5, RingType DEF Grow, DequeOK
        <3> QED
            BY <1>6, <1>7, <2>1, <2>2, <2>3, <3>1
    <2> QED
        BY <1>22, <2>4, <2>5
<1>23. ASSUME UNCHANGED vars PROVE DequeOK' /\ LocalsOK' /\ PcOK' /\ LockOK' /\ MainOK'
    BY <1>3, <1>4, <1>5, <1>6, <1>7, <1>23 DEF vars
<1> QED
    BY <1>13, <1>14, <1>15, <1>16, <1>17, <1>18, <1>19, <1>20, <1>21, <1>22, <1>23
    DEF Next, Run

(* The deque stays a ring and every local of a thread stays an index of an *)
(* array that was once in use, whatever the interleaving.                  *)
THEOREM TypeCorrect == Spec => []TypeOK
BY TypeInit, TypeStep, PTL DEF Spec

-----------------------------------------------------------------------------
(* Damage that lasts. *)

(* Who is quiet takes a time only from a full slot, so that nobody passes  *)
(* the hole, and nobody leaves the prune loop for add while it seems       *)
(* crowded.                                                                *)
LEMMA StuckStep == TypeOK /\ Stuck /\ [Next]_vars => Stuck'
<1> SUFFICES ASSUME TypeOK, Stuck, [Next]_vars PROVE Stuck'
    OBVIOUS
<1> DEFINE Still == {"hash", "test", "pop", "died"}
<1>1. Size > Limit /\ head \notin elements /\ \A w \in Started : pc[w] \in Still
    BY DEF Stuck, Quiet
<1>2. ASSUME UNCHANGED deque, UNCHANGED pc PROVE Stuck'
    BY <1>1, <1>2 DEF deque, Stuck, Quiet, Size, Started
<1>3. ASSUME NEW w \in Started, NEW from, NEW to \in Still,
             Goto(w, from, to), UNCHANGED deque
      PROVE  Stuck'
    <2>1. Started' = Started /\ \A v \in Started : pc'[v] \in {pc[v], to}
        BY <1>3 DEF Goto, Started
    <2> QED
        BY <1>1, <1>3, <2>1 DEF deque, Stuck, Quiet, Size
<1>4. CASE Main
    BY <1>2, <1>4 DEF Main, Ask, LoadHead, Element, Return
<1>5. ASSUME NEW w \in Started,
             Acquire(w) \/ Crowded(w) \/ PopThrows(w) \/ Replace(w)
      PROVE  Stuck'
    BY <1>3, <1>5 DEF Acquire, Crowded, PopThrows, Replace
<1>6. ASSUME NEW w \in Started, Release(w) PROVE FALSE
    <2>1. Size \in Int /\ Limit \in Int
        BY RingType, SizesAssumption
    <2> QED
        BY <1>1, <1>6, <2>1 DEF Release
<1>7. ASSUME NEW w \in Started,
             \/ Take(w) \/ MoveHead(w) \/ LoadArray(w) \/ LoadIndex(w)
             \/ Store(w) \/ StoreThrows(w) \/ LoadTail(w) \/ MoveTail(w)
             \/ Fits(w) \/ Grow(w)
      PROVE  FALSE
    BY <1>1, <1>7 DEF Take, MoveHead, LoadArray, LoadIndex, Store, StoreThrows,
                      LoadTail, MoveTail, Fits, Grow, Goto
<1>8. CASE UNCHANGED vars
    BY <1>2, <1>8 DEF vars
<1> QED
    BY <1>4, <1>5, <1>6, <1>7, <1>8 DEF Next, Run

(* Once an add has set tail back behind head, no job and no reconnection   *)
(* repairs the statistics, however many workers there are.                 *)
THEOREM StuckForeverHolds == Spec => StuckForever
<1>1. TypeOK /\ [Next]_vars => [Stuck => Stuck']_vars
    BY StuckStep
<1> QED
    BY <1>1, TypeCorrect, PTL DEF Spec, StuckForever

-----------------------------------------------------------------------------
(* One worker. *)

(* Head, tail and length say which slots are occupied. *)
LEMMA SameOccupied ==
    ASSUME UNCHANGED <<head, tail, capacity>>
    PROVE  Size' = Size /\ Occupied' = Occupied
BY DEF Size, Occupied

(* A full ring at rest is consistent: the strengthened invariant holds at  *)
(* first.                                                                  *)
LEMMA SoloInit == Init => Solo
<1> SUFFICES ASSUME Init, NEW w \in Started, Started = {w} PROVE SoloState(w)
    BY DEF Solo
<1>1. TypeOK
    BY TypeInit
<1>2. head = 0 /\ tail = Limit /\ capacity = MinCapacity /\ elements = 0 .. (Limit - 1)
    BY DEF Init
<1>3. Size = Limit
    BY <1>1, <1>2, RingType, Distance, SizesAssumption DEF Size
<1>4. Occupied = 0 .. (Limit - 1)
    BY <1>1, <1>2, RingType, BetweenIs, OccupiedBetween, SizesAssumption
<1>5. pc[w] = "hash"
    BY DEF Init, Started
<1> QED
    BY <1>2, <1>3, <1>4, <1>5, SizesAssumption DEF SoloState, Adding

(* A step of the only worker. *)
LEMMA SoloRun ==
    ASSUME TypeOK, TypeOK', NEW w \in Started, SoloState(w), Run(w)
    PROVE  SoloState(w)'
<1> USE DEF SoloState, Adding
<1>1. /\ capacity \in Nat \ {0}
      /\ head \in 0 .. (capacity - 1)
      /\ tail \in 0 .. (capacity - 1)
      /\ Size \in 0 .. (capacity - 1)
      /\ Limit \in Nat /\ capacity > Limit + 1
      /\ w \in Workers /\ w \in Threads
    BY RingType, SizesAssumption DEF TypeOK, Threads
<1>2. /\ Occupied = Between(head, tail, capacity)
      /\ Size = (tail - head) % capacity
    BY OccupiedBetween DEF Size
<1>3. ASSUME NEW from, NEW to \in Places, Goto(w, from, to)
      PROVE  pc[w] = from /\ pc'[w] = to
    BY <1>3, GotoType
<1>4. ASSUME UNCHANGED deque
      PROVE  /\ Size' = Size /\ Occupied' = Occupied
             /\ elements' = elements /\ capacity' = capacity /\ tail' = tail
    BY <1>4, SameOccupied DEF deque
<1> USE DEF Places
<1>5. CASE Acquire(w)
    BY <1>3, <1>4, <1>5 DEF Acquire
<1>6. CASE Crowded(w)
    BY <1>3, <1>4, <1>6 DEF Crowded
<1>7. CASE Release(w)
    BY <1>3, <1>4, <1>7 DEF Release
<1>8. CASE Take(w)
    <2>1. pc[w] = "pop" /\ pc'[w] = "head"
        BY <1>3, <1>8 DEF Take
    <2>2. UNCHANGED <<head, tail, capacity, ref>> /\ elements' = elements \ {head} /\ index'[w] = head
        BY <1>1, <1>8 DEF Take, TypeOK
    <2> QED
        BY <2>1, <2>2, SameOccupied
<1>9. CASE MoveHead(w)
    <2>1. pc[w] = "head" /\ pc'[w] = "test" /\ index[w] = head
        BY <1>3, <1>9 DEF MoveHead
    <2>2. /\ head' = (head + 1) % capacity
          /\ UNCHANGED <<tail, elements, capacity>>
        BY <1>9, <2>1 DEF MoveHead
    <2>3. Size > 0
        BY <1>1, <2>1
    <2>4. /\ (tail - head') % capacity = Size - 1
          /\ Between(head', tail, capacity) = Occupied \ {head}
        BY <1>1, <1>2, <2>2, <2>3, PopFirst
    <2>5. Size' = Size - 1 /\ Occupied' = Occupied \ {head}
        BY <1>2, <2>2, <2>4, OccupiedBetween DEF Size
    <2> QED
        BY <1>1, <2>1, <2>2, <2>5
<1>10. CASE PopThrows(w)
    <2>1. pc[w] = "pop" /\ head \notin elements
        BY <1>3, <1>10 DEF PopThrows
    <2>2. head \in Occupied
        BY <1>1, <1>2, <2>1, EmptyRing
    <2> QED
        BY <2>1, <2>2
<1>11. CASE LoadArray(w)
    <2>1. pc[w] = "array" /\ pc'[w] = "index"
        BY <1>3, <1>11 DEF LoadArray
    <2>2. UNCHANGED deque /\ ref'[w] = capacity
        BY <1>1, <1>11 DEF LoadArray, TypeOK
    <2> QED
        BY <1>4, <2>1, <2>2
<1>12. CASE LoadIndex(w)
    <2>1. pc[w] = "index" /\ pc'[w] = "store"
        BY <1>3, <1>12 DEF LoadIndex
    <2>2. UNCHANGED <<deque, ref>> /\ index'[w] = tail
        BY <1>1, <1>12 DEF LoadIndex, TypeOK
    <2> QED
        BY <1>4, <2>1, <2>2
<1>13. CASE Store(w)
    <2>1. pc[w] = "store" /\ pc'[w] = "tail"
        BY <1>3, <1>13 DEF Store
    <2>2. UNCHANGED <<head, tail, capacity>> /\ elements' = elements \cup {tail}
        BY <1>13, <2>1 DEF Store
    <2> QED
        BY <2>1, <2>2, SameOccupied
<1>14. CASE StoreThrows(w)
    <2>1. pc[w] = "store" /\ index[w] >= ref[w]
        BY <1>3, <1>14 DEF StoreThrows
    <2> QED
        BY <1>1, <2>1
<1>15. CASE LoadTail(w)
    <2>1. pc[w] = "tail" /\ pc'[w] = "bump"
        BY <1>3, <1>15 DEF LoadTail
    <2>2. UNCHANGED <<deque, ref>> /\ index'[w] = tail
        BY <1>1, <1>15 DEF LoadTail, TypeOK
    <2> QED
        BY <1>4, <2>1, <2>2
<1>16. CASE MoveTail(w)
    <2> DEFINE next == (tail + 1) % capacity
    <2>1. pc[w] = "bump" /\ pc'[w] = "compare" /\ index[w] = tail
        BY <1>3, <1>16 DEF MoveTail
    <2>2. Size + 1 < capacity
        BY <1>1, <2>1
    <2>3. /\ next # head
          /\ (next - head) % capacity = Size + 1
          /\ Between(head, next, capacity) = Occupied \cup {tail}
        BY <1>1, <1>2, <2>1, <2>2, AddLast
    <2>4. /\ tail' = next /\ UNCHANGED <<head, elements, capacity>>
          /\ index'[w] = next
        BY <1>1, <1>16, <2>1 DEF MoveTail, TypeOK
    <2> HIDE DEF next
    <2>5. Size' = Size + 1 /\ Occupied' = Occupied \cup {tail}
        BY <1>2, <2>3, <2>4, OccupiedBetween DEF Size
    <2> QED
        BY <1>1, <2>1, <2>3, <2>4, <2>5
<1>17. CASE Fits(w)
    <2>1. pc[w] = "compare" /\ pc'[w] = "hash" /\ UNCHANGED deque
        BY <1>3, <1>17 DEF Fits
    <2> QED
        BY <1>4, <2>1
<1>18. CASE Grow(w)
    <2>1. pc[w] = "compare" /\ index[w] = head
        BY <1>3, <1>18 DEF Grow
    <2> QED
        BY <2>1
<1> QED
    BY <1>5, <1>6, <1>7, <1>8, <1>9, <1>10, <1>11, <1>12, <1>13, <1>14, <1>15,
       <1>16, <1>17, <1>18 DEF Run

(* Each step of the only worker, and of the report, keeps the strengthened *)
(* invariant.                                                              *)
LEMMA SoloStep == IInv /\ [Next]_vars => IInv'
<1> SUFFICES ASSUME IInv, [Next]_vars PROVE IInv'
    OBVIOUS
<1>1. TypeOK /\ TypeOK' /\ Started' = Started
    BY TypeStep, StartedStays DEF IInv
<1>2. SUFFICES ASSUME NEW w \in Started, Started = {w} PROVE SoloState(w)'
    BY <1>1 DEF IInv, Solo
<1>3. SoloState(w)
    BY <1>2 DEF IInv, Solo
<1>4. CASE Main \/ UNCHANGED vars
    <2>1. UNCHANGED <<deque, pc, ref>> /\ index'[w] = index[w]
        <3>1. w # NoOne
            BY <1>1, NoOneAssumption DEF TypeOK
        <3> QED
            BY <1>1, <1>4, <3>1
            DEF Main, Ask, LoadHead, Element, Return, ForgetIndex, locals, vars,
                TypeOK, Threads
    <2> QED
        BY <1>3, <2>1, SameOccupied DEF SoloState, deque
<1>5. CASE Run(w)
    BY <1>1, <1>3, <1>5, SoloRun
<1>6. CASE Replace(w)
    BY <1>3, <1>6 DEF Replace, Goto, SoloState
<1> QED
    BY <1>2, <1>4, <1>5, <1>6 DEF Next

(* One worker alone keeps the ring exact: the slots between head and tail  *)
(* hold a time each, but for the one a pop or an add is half way through,  *)
(* there is never more than one above the limit, and it does not die.      *)
THEOREM SoloConsistentHolds == Spec => []SoloConsistent
<1>1. Init => IInv
    BY TypeInit, SoloInit DEF IInv
<1>2. IInv => SoloConsistent
    <2> SUFFICES ASSUME IInv, NEW w \in Started, Started = {w}
                 PROVE  /\ pc[w] # "died"
                        /\ Size <= Limit + 1
                        /\ Occupied \ {head} \subseteq elements
                        /\ elements \subseteq Occupied \cup {tail}
                        /\ head \notin elements => Size = 0 \/ pc[w] = "head"
        BY DEF SoloConsistent
    <2>1. SoloState(w) /\ TypeOK
        BY DEF IInv, Solo
    <2>2. head \in Occupied \/ Size = 0
        BY <2>1, RingType, EmptyRing, OccupiedBetween DEF Size
    <2> QED
        BY <2>1, <2>2 DEF SoloState
<1> QED
    BY <1>1, <1>2, SoloStep, PTL DEF Spec
=============================================================================

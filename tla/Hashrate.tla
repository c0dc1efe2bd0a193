------------------------------ MODULE Hashrate ------------------------------
(***************************************************************************)
(* The statistics all workers and the main thread share: an ArrayDeque of  *)
(* the times of the last hashes.  A worker prunes it under its lock but    *)
(* adds to it without (Worker.java:44-50), and the main thread reads it    *)
(* without (Miner.java:207-219).  The steps of the deque are those of      *)
(* java.util.ArrayDeque, a ring of slots in which null marks a free one;   *)
(* a slot is all that matters of a time, so the ring is the set of the     *)
(* slots that hold one.                                                    *)
(***************************************************************************)
EXTENDS Integers, FiniteSets

CONSTANTS
    Workers,       \* threads that may hash
    Limit,         \* 99 in the code
    Report,        \* 10 in the code: fewer times are not reported
    MinCapacity,   \* slots of the ring when the behaviour begins
    MaxCapacity    \* bound: the ring does not grow beyond

ASSUME SizesAssumption ==
    /\ IsFiniteSet(Workers)
    /\ Limit \in Nat
    /\ Report \in Nat
    /\ MinCapacity \in Nat /\ MinCapacity > Limit + 1
    /\ MaxCapacity \in Nat /\ MaxCapacity >= MinCapacity

NoOne == "no one"
ASSUME NoOneAssumption == NoOne \notin Workers

VARIABLES
    head, tail,   \* of the deque
    elements,     \* slots that hold a time
    capacity,     \* length of the array
    lock,         \* owner of the monitor of the deque
    pc,           \* where each worker is that -thread asks for
    ref,          \* length of the array a worker is about to store into
    index,        \* slot a worker, or main, is about to access
    main          \* where the main thread is

deque == <<head, tail, elements, capacity>>
locals == <<ref, index>>
vars == <<deque, lock, pc, locals, main>>

Threads == Workers \cup {NoOne}   \* NoOne: the slot of the main thread

Size == (tail - head) % capacity

\* The workers of the jobs of this run of the program.
Started == DOMAIN pc

\* A behaviour begins when the statistics have filled up.
Init ==
    /\ head = 0
    /\ tail = Limit
    /\ elements = 0 .. (Limit - 1)
    /\ capacity = MinCapacity
    /\ lock = NoOne
    /\ \E S \in (SUBSET Workers) \ {{}} : pc = [w \in S |-> "hash"]
    /\ ref = [w \in Workers |-> 0]
    /\ index = [t \in Threads |-> 0]
    /\ main = "idle"

\* Locals are 0 while they are out of scope.
ForgetRef(w) == ref' = [ref EXCEPT ![w] = 0]
ForgetIndex(t) == index' = [index EXCEPT ![t] = 0]

Goto(w, from, to) == pc[w] = from /\ pc' = [pc EXCEPT ![w] = to]

-----------------------------------------------------------------------------
(* The prune loop, inside synchronized (this.miner.hashrate). *)

Acquire(w) ==
    /\ Goto(w, "hash", "test")
    /\ lock = NoOne
    /\ lock' = w
    /\ UNCHANGED <<deque, locals, main>>

Crowded(w) ==
    /\ Size > Limit
    /\ Goto(w, "test", "pop")
    /\ UNCHANGED <<deque, lock, locals, main>>

\* Mutant: one time too many is kept.
Release_OffByOne(w) ==
    /\ Size <= Limit + 1
    /\ Goto(w, "test", "array")
    /\ lock' = NoOne
    /\ UNCHANGED <<deque, locals, main>>

Release(w) ==
    /\ Size <= Limit
    /\ Goto(w, "test", "array")
    /\ lock' = NoOne
    /\ UNCHANGED <<deque, locals, main>>

\* Mutant: an empty slot is popped like a full one.
Take_Blind(w) ==
    /\ Goto(w, "pop", "head")
    /\ elements' = elements \ {head}
    /\ index' = [index EXCEPT ![w] = head]
    /\ UNCHANGED <<head, tail, capacity, lock, ref, main>>

\* pop: elements[h] is read and set to null ...
Take(w) ==
    /\ head \in elements
    /\ Goto(w, "pop", "head")
    /\ elements' = elements \ {head}
    /\ index' = [index EXCEPT ![w] = head]
    /\ UNCHANGED <<head, tail, capacity, lock, ref, main>>

\* Mutant: head is not reduced by the length of the array.
MoveHead_Unmasked(w) ==
    /\ Goto(w, "head", "test")
    /\ head' = index[w] + 1
    /\ ForgetIndex(w)
    /\ UNCHANGED <<tail, elements, capacity, lock, ref, main>>

\* ... and head moves on from the h that was read, in the array there is now.
MoveHead(w) ==
    /\ Goto(w, "head", "test")
    /\ head' = (index[w] + 1) % capacity
    /\ ForgetIndex(w)
    /\ UNCHANGED <<tail, elements, capacity, lock, ref, main>>

\* Mutant: the exception leaves the monitor locked.
PopThrows_Locked(w) ==
    /\ head \notin elements
    /\ Goto(w, "pop", "died")
    /\ UNCHANGED <<deque, lock, locals, main>>

\* pop finds null: NoSuchElementException leaves the monitor and the thread.
PopThrows(w) ==
    /\ head \notin elements
    /\ Goto(w, "pop", "died")
    /\ lock' = NoOne
    /\ UNCHANGED <<deque, locals, main>>

-----------------------------------------------------------------------------
(* add, outside the monitor: elements[tail] = e; then                      *)
(* if ((tail = (tail + 1) & mask) == head) doubleCapacity()                *)

LoadArray(w) ==
    /\ Goto(w, "array", "index")
    /\ ref' = [ref EXCEPT ![w] = capacity]
    /\ UNCHANGED <<deque, lock, index, main>>

LoadIndex(w) ==
    /\ Goto(w, "index", "store")
    /\ index' = [index EXCEPT ![w] = tail]
    /\ UNCHANGED <<deque, lock, ref, main>>

\* A store into an array that was replaced meanwhile is lost.
Store(w) ==
    /\ index[w] < ref[w]
    /\ Goto(w, "store", "tail")
    /\ elements' = IF ref[w] = capacity THEN elements \cup {index[w]} ELSE elements
    /\ ForgetRef(w) /\ ForgetIndex(w)
    /\ UNCHANGED <<head, tail, capacity, lock, main>>

\* ArrayIndexOutOfBoundsException
StoreThrows(w) ==
    /\ index[w] >= ref[w]
    /\ Goto(w, "store", "died")
    /\ ForgetRef(w) /\ ForgetIndex(w)
    /\ UNCHANGED <<deque, lock, main>>

LoadTail(w) ==
    /\ Goto(w, "tail", "bump")
    /\ index' = [index EXCEPT ![w] = tail]
    /\ UNCHANGED <<deque, lock, ref, main>>

MoveTail(w) ==
    LET next == (index[w] + 1) % capacity IN
    /\ Goto(w, "bump", "compare")
    /\ tail' = next
    /\ index' = [index EXCEPT ![w] = next]
    /\ UNCHANGED <<head, elements, capacity, lock, ref, main>>

\* The new tail is compared with head, which may have moved meanwhile.
Fits(w) ==
    /\ index[w] # head
    /\ Goto(w, "compare", "hash")
    /\ ForgetIndex(w)
    /\ UNCHANGED <<deque, lock, ref, main>>

\* The ring is full (or seems to be): doubleCapacity copies it from head on,
\* wherever tail is by now.
Grow(w) ==
    /\ index[w] = head
    /\ 2 * capacity <= MaxCapacity
    /\ Goto(w, "compare", "hash")
    /\ elements' = {i \in 0 .. (capacity - 1) : (head + i) % capacity \in elements}
    /\ capacity' = 2 * capacity
    /\ head' = 0
    /\ tail' = capacity
    /\ ForgetIndex(w)
    /\ UNCHANGED <<lock, ref, main>>

\* The next job gets new workers, whatever became of the old ones.
Replace(w) ==
    /\ Goto(w, "died", "hash")
    /\ UNCHANGED <<deque, lock, locals, main>>

Run(w) ==
    \/ Acquire(w) \/ Crowded(w) \/ Release(w)
    \/ Take(w) \/ MoveHead(w) \/ PopThrows(w)
    \/ LoadArray(w) \/ LoadIndex(w) \/ Store(w) \/ StoreThrows(w)
    \/ LoadTail(w) \/ MoveTail(w)
    \/ Fits(w) \/ Grow(w)

-----------------------------------------------------------------------------
(* getHashrate, on the main thread. *)

Ask ==
    /\ main = "idle"
    /\ main' = IF Size < Report THEN "idle" ELSE "head"
    /\ UNCHANGED <<deque, lock, pc, locals>>

LoadHead ==
    /\ main = "head"
    /\ index' = [index EXCEPT ![NoOne] = head]
    /\ main' = "element"
    /\ UNCHANGED <<deque, lock, pc, ref>>

\* element() throws on null, and start() takes that for a lost connection.
Element ==
    /\ main = "element"
    /\ main' = IF index[NoOne] \in elements THEN "idle" ELSE "disconnected"
    /\ ForgetIndex(NoOne)
    /\ UNCHANGED <<deque, lock, pc, ref>>

Return ==
    /\ main = "disconnected"
    /\ main' = "idle"
    /\ UNCHANGED <<deque, lock, pc, locals>>

Main == Ask \/ LoadHead \/ Element \/ Return

Next == Main \/ \E w \in Started : Run(w) \/ Replace(w)

\* The JVM schedules every thread that stays runnable; monitors are not fair.
Spec == Init /\ [][Next]_vars /\ \A w \in Workers : WF_vars(w \in Started /\ Run(w))

-----------------------------------------------------------------------------
TypeOK ==
    /\ capacity \in MinCapacity .. MaxCapacity
    /\ head \in 0 .. (capacity - 1)
    /\ tail \in 0 .. (capacity - 1)
    /\ elements \subseteq 0 .. (capacity - 1)
    /\ lock \in Workers \cup {NoOne}
    /\ Started \subseteq Workers
    /\ pc \in [Started -> {"hash", "test", "pop", "head", "array", "index",
                           "store", "tail", "bump", "compare", "died"}]
    /\ ref \in [Workers -> {0} \cup MinCapacity .. MaxCapacity]
    /\ index \in [Threads -> 0 .. (MaxCapacity - 1)]
    /\ main \in {"idle", "head", "element", "disconnected"}

(* Slots from head up to tail, the ones that should hold a time. *)
Occupied == {(head + i) % capacity : i \in 0 .. (Size - 1)}

(* While one worker hashes, the ring holds exactly the slots between head  *)
(* and tail, but for the slot that a pop or an add is half way through,    *)
(* and never more than one time above the limit (Worker.java:44-50).       *)
SoloConsistent ==
    \A w \in Started : Started = {w} =>
        /\ pc[w] # "died"
        /\ Size <= Limit + 1
        /\ Occupied \ {head} \subseteq elements
        /\ elements \subseteq Occupied \cup {tail}
        /\ head \notin elements => Size = 0 \/ pc[w] = "head"

(* No time is being added. *)
Quiet == \A w \in Started :
    pc[w] \in {"hash", "test", "pop", "died"}

(* The ring seems crowded although its first slot is empty. *)
Stuck == Quiet /\ Size > Limit /\ head \notin elements

(* Damage that lasts: once an add has set tail back behind head, every     *)
(* worker ends at its next prune, before it adds a time that could fill    *)
(* the hole; no job and no new connection repairs the statistics, which    *)
(* live as long as the Miner (Worker.java:44-50, Miner.java:39, 193-205).  *)
StuckForever == [][Stuck => Stuck']_vars

(* The prune loop ends and leaves the monitor, by an exception if not      *)
(* otherwise, although the other workers go on adding to the statistics    *)
(* it empties (Worker.java:44-49).                                         *)
PruneEnds == lock # NoOne ~> lock = NoOne

(* README.md:18 calls -thread the "Thread count": as long as nothing       *)
(* interrupts them, that many threads hash.                                *)
ThreadCount == \A w \in Started : pc[w] # "died"
=============================================================================

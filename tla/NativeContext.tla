--------------------------- MODULE NativeContext ---------------------------
(***************************************************************************)
(* The memory of the native hash: slowHash (hasher.cpp) obtains Size       *)
(* contexts for every hash it computes, hashes with the first of them and  *)
(* frees them all.  alloc_ctx tries three ways to get the scratchpad of a  *)
(* context, two of them from the huge pages of the machine, which the      *)
(* threads share with one another and with other processes.                *)
(*                                                                         *)
(* The Linux build is modelled.  A scratchpad is one huge page of 2 MiB or *)
(* ordinary memory, which is assumed never to run out; what the hash does  *)
(* with a scratchpad is the matter of other modules.  A dereference of a   *)
(* null context kills the process with all its threads.                    *)
(***************************************************************************)
EXTENDS Naturals, Sequences, FiniteSets

CONSTANTS Threads,    \* the workers, each of which calls slowHash again and again
          Size,       \* SIZE, the contexts of one hash
          HugePages,  \* the huge pages of the machine
          LockLimit   \* the huge pages the process may mlock

ASSUME ConstantsAssumption ==
    /\ IsFiniteSet(Threads)
    /\ Size \in Nat \ {0}
    /\ HugePages \in Nat
    /\ LockLimit \in Nat

VARIABLES
    pc,        \* where each thread is in slowHash, or "idle" outside of it
    ctx,       \* the array ctx of slowHash, as far as it is filled and not yet freed
    free,      \* huge pages nobody uses
    foreign,   \* huge pages other processes use
    leaked,    \* huge pages mapped by the process that no pointer leads to
    locked,    \* mlocked huge pages of the process
    crashed    \* the process has died

vars == <<pc, ctx, free, foreign, leaked, locked, crashed>>

Null == [kind |-> "null", munlock |-> FALSE]

\* ctx_info[0] is the kind of memory and ctx_info[1] whether to munlock it.
Contexts == {Null} \cup [kind : {"huge", "slow"}, munlock : BOOLEAN]

TypeOK ==
    /\ pc \in [Threads -> {"idle", "first", "second", "third", "hashing", "freeing"}]
    /\ ctx \in [Threads -> Seq(Contexts)]
    /\ \A t \in Threads : Len(ctx[t]) <= Size
    /\ free \in 0..HugePages
    /\ foreign \in 0..HugePages
    /\ leaked \in 0..HugePages
    /\ locked \in 0..LockLimit
    /\ crashed \in BOOLEAN

Init ==
    /\ pc = [t \in Threads |-> "idle"]
    /\ ctx = [t \in Threads |-> <<>>]
    /\ free \in 0..HugePages
    /\ foreign = HugePages - free
    /\ leaked = 0
    /\ locked = 0
    /\ crashed = FALSE

-----------------------------------------------------------------------------
(* The operating system.                                                   *)

TakeForeign ==
    /\ free > 0
    /\ free' = free - 1
    /\ foreign' = foreign + 1
    /\ UNCHANGED <<pc, ctx, leaked, locked, crashed>>

GiveForeign ==
    /\ foreign > 0
    /\ free' = free + 1
    /\ foreign' = foreign - 1
    /\ UNCHANGED <<pc, ctx, leaked, locked, crashed>>

-----------------------------------------------------------------------------
(* slowHash.                                                               *)

Call(t) ==
    /\ pc[t] = "idle"
    /\ pc' = [pc EXCEPT ![t] = "first"]
    /\ UNCHANGED <<ctx, free, foreign, leaked, locked, crashed>>

\* alloc_ctx returns c into the next element of the array.
Fill(t, c) ==
    /\ ctx' = [ctx EXCEPT ![t] = Append(@, c)]
    /\ pc' = [pc EXCEPT ![t] = IF Len(ctx'[t]) = Size THEN "hashing" ELSE "first"]

GoTo(t, place) ==
    /\ pc' = [pc EXCEPT ![t] = place]
    /\ UNCHANGED ctx

\* cryptonight_alloc_ctx(1, 1).  When it succeeds alloc_ctx forgets the
\* context and returns a null pointer.
FirstAttempt(t) ==
    /\ pc[t] = "first"
    /\ IF free > 0
         THEN /\ free' = free - 1
              /\ leaked' = leaked + 1
              /\ locked' = IF locked < LockLimit THEN locked + 1 ELSE locked
              /\ Fill(t, Null)
         ELSE GoTo(t, "second") /\ UNCHANGED <<free, leaked, locked>>
    /\ UNCHANGED <<foreign, crashed>>

\* Mutant: what the second attempt returns is returned, null or not.
SecondAttempt_Last(t) ==
    /\ pc[t] = "second"
    /\ IF free > 0
         THEN /\ free' = free - 1
              /\ Fill(t, [kind |-> "huge", munlock |-> TRUE])
         ELSE Fill(t, Null) /\ UNCHANGED free
    /\ UNCHANGED <<foreign, leaked, locked, crashed>>

\* cryptonight_alloc_ctx(1, 0), which sets ctx_info[1] without an mlock.
SecondAttempt(t) ==
    /\ pc[t] = "second"
    /\ IF free > 0
         THEN /\ free' = free - 1
              /\ Fill(t, [kind |-> "huge", munlock |-> TRUE])
         ELSE GoTo(t, "third") /\ UNCHANGED free
    /\ UNCHANGED <<foreign, leaked, locked, crashed>>

\* Mutant: the last attempt gives up like the others.
ThirdAttempt_GivesUp(t) ==
    /\ pc[t] = "third"
    /\ Fill(t, Null)
    /\ UNCHANGED <<free, foreign, leaked, locked, crashed>>

\* cryptonight_alloc_ctx(0, 0): ordinary memory.
ThirdAttempt(t) ==
    /\ pc[t] = "third"
    /\ Fill(t, [kind |-> "slow", munlock |-> FALSE])
    /\ UNCHANGED <<free, foreign, leaked, locked, crashed>>

\* The hash uses the first context only.
Hash(t) ==
    /\ pc[t] = "hashing"
    /\ IF ctx[t][1] = Null
         THEN crashed' = TRUE /\ UNCHANGED pc
         ELSE pc' = [pc EXCEPT ![t] = "freeing"] /\ UNCHANGED crashed
    /\ UNCHANGED <<ctx, free, foreign, leaked, locked>>

\* Mutant: a null context is skipped.
Free_SkipsNull(t) ==
    /\ pc[t] = "freeing"
    /\ free' = IF Head(ctx[t]).kind = "huge" THEN free + 1 ELSE free
    /\ ctx' = [ctx EXCEPT ![t] = Tail(@)]
    /\ pc' = [pc EXCEPT ![t] = IF ctx'[t] = <<>> THEN "idle" ELSE "freeing"]
    /\ UNCHANGED <<foreign, leaked, locked, crashed>>

\* Mutant: the page is not unmapped.
Free_Forgets(t) ==
    /\ pc[t] = "freeing"
    /\ IF Head(ctx[t]) = Null
         THEN crashed' = TRUE /\ UNCHANGED <<pc, ctx>>
         ELSE /\ ctx' = [ctx EXCEPT ![t] = Tail(@)]
              /\ pc' = [pc EXCEPT ![t] = IF ctx'[t] = <<>> THEN "idle" ELSE "freeing"]
              /\ UNCHANGED crashed
    /\ UNCHANGED <<free, foreign, leaked, locked>>

\* Mutant: every scratchpad is taken for a huge page.
Free_UnmapsAll(t) ==
    /\ pc[t] = "freeing"
    /\ IF Head(ctx[t]) = Null
         THEN crashed' = TRUE /\ UNCHANGED <<pc, ctx, free>>
         ELSE /\ free' = free + 1
              /\ ctx' = [ctx EXCEPT ![t] = Tail(@)]
              /\ pc' = [pc EXCEPT ![t] = IF ctx'[t] = <<>> THEN "idle" ELSE "freeing"]
              /\ UNCHANGED crashed
    /\ UNCHANGED <<foreign, leaked, locked>>

\* cryptonight_free_ctx of the next element of the array, which reads ctx_info
\* through the pointer.  Its munlock does nothing: a page that has a pointer
\* to it comes from SecondAttempt and was never mlocked.
Free(t) ==
    /\ pc[t] = "freeing"
    /\ IF Head(ctx[t]) = Null
         THEN crashed' = TRUE /\ UNCHANGED <<pc, ctx, free>>
         ELSE /\ free' = IF Head(ctx[t]).kind = "huge" THEN free + 1 ELSE free
              /\ ctx' = [ctx EXCEPT ![t] = Tail(@)]
              /\ pc' = [pc EXCEPT ![t] = IF ctx'[t] = <<>> THEN "idle" ELSE "freeing"]
              /\ UNCHANGED crashed
    /\ UNCHANGED <<foreign, leaked, locked>>

Step(t) ==
    /\ ~crashed
    /\ \/ Call(t)
       \/ FirstAttempt(t) \/ SecondAttempt(t) \/ ThirdAttempt(t)
       \/ Hash(t)
       \/ Free(t)

Next ==
    \/ \E t \in Threads : Step(t)
    \/ TakeForeign
    \/ GiveForeign

\* Every thread is scheduled.  Nothing is asked of other processes.
Spec == Init /\ [][Next]_vars /\ \A t \in Threads : WF_vars(Step(t))

-----------------------------------------------------------------------------
(* Properties.                                                             *)

\* The huge pages the contexts of the threads point to, each by its place.
HugeContexts == {p \in Threads \X (1 .. Size) :
                   p[2] \in DOMAIN ctx[p[1]] /\ ctx[p[1]][p[2]].kind = "huge"}

\* Every huge page is free, in use by someone, or leaked by the first attempt,
\* and is so once: no interleaving of mapping, freeing and other processes
\* frees one that is in use, or drops one in any other way
\* (cryptonight_common.cpp:248-257, 284).
PagesAccounted == free + foreign + leaked + Cardinality(HugeContexts) = HugePages

\* The process dies of nothing but a first attempt that succeeded: whatever is
\* mapped and freed by others between the three attempts, they end in a context
\* that can be hashed with and freed (hasher.cpp:18-29, 52-55).
OnlyLeaksKill == crashed => leaked > 0

\* A leaked page is the end of the process: the null context is dereferenced
\* by the hash or, when it is not the first of its array, by
\* cryptonight_free_ctx (hasher.cpp:52-55).
LeakIsFatal == (leaked > 0) ~> crashed

\* While no huge page is free every thread hashes again and again and the
\* process lives on: each of its contexts falls through to ordinary memory
\* (hasher.cpp:21-25, 45-58).
HashesGoOn ==
    [](free = 0) => []~crashed /\ \A t \in Threads : []<>(pc[t] = "hashing")

\* The process does not die of a huge page it got.  The code takes the failure
\* of mmap for the case to warn about (cryptonight_common.cpp:255).
FastMemoryServes == ~crashed

=============================================================================

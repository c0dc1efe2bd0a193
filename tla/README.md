# drill in TLA+

drill is a Monero miner: a Java program that talks to a pool over a socket,
starts threads that hash, and calls a native library for each hash.  This
directory holds TLA+ models of it, the TLC instances that check them and the
TLAPS proofs about them.  Paths are relative to the repository root; `Worker.java`
is `src/main/java/tk/netindev/drill/miner/Worker.java`, and so on; `.c`, `.cpp`
and `.h` files are in `src/main/jni`.

## The system

| Part | State | Operations | Works with |
| --- | --- | --- | --- |
| Command line (`Drill.java`, `Misc.isInteger`) | none | `main`, `parseArgs` | creates the `Miner` and calls `start` |
| Pool session (`Miner.java`) | `socket`, `printWriter`, `scanner` | `connect`, `start`, `reconnect`, `send` | the pool (lines of JSON), workers |
| Pool messages (`Miner.parseJob`, `Job.java`) | the `Job` being built, two flags | `parseJob` | called by `start` for each line |
| Job replacement (`Miner.work`, end of `start`) | `set` of workers | interrupt all, clear, start new ones | interrupts and starts workers |
| Workers (`Worker.java`) | `nonce`, `hash`, the blob of the `Job` | `run` | share the blob of their job, `Miner.send`, the statistics |
| Statistics (`Hashrate.java`, `Worker.java:44-50`, `Miner.getHashrate`) | an `ArrayDeque` | prune, add, report | all workers, the main thread |
| Library loading (`Hasher.java`, `Misc.loadLibrary`) | none | static initialiser | |
| Hexadecimal coding (`Hex.java`) | none | `hexlify`, `unhexlify` | `parseJob`, `send` |
| Native entry (`hasher.cpp`, `cryptonight_common.cpp`) | contexts, buffers | `slowHash`, `alloc_ctx`, `cryptonight_alloc_ctx`, `cryptonight_free_ctx` | called by workers |
| Cryptonight (`cryptonight_aesni.h`, `algos.hpp`) | scratchpad and state of a context, registers | `Cryptonight_hash`: explode, the rounds, implode | Keccak, AES, the four final hashes |
| Hash functions (`c_keccak.c`, `c_blake256.c`, `c_groestl.c`, `c_jh.c`, `c_skein.c`) | chaining value, buffered block | init, update, final, the function on a block | Cryptonight |
| AES (`soft_aes.hpp`, key expansion in `cryptonight_aesni.h`) | none | a round, a pair of keys | Cryptonight; not run by the program, which is built with the AES instructions instead |

What is hard on the Java side is concurrency that the code leaves to chance.  The
workers of a job share one blob and write their nonces into it without a lock.
The main thread interrupts workers and forgets them without waiting for their
end, so stale workers go on beside new ones, into the next job and possibly into
the next session.  The statistics are pruned under a lock and extended without
it.  `connect` can fail after it has replaced some of the fields, and
`reconnect` and `start` each open a connection.

On the native side all threads take their scratchpads from the few huge pages of the
machine, for every hash anew, and the allocation confuses success with failure.  The
hash itself is sequential and hard in another way: registers and blocks are
overwritten in place in an order that matters, numbers wrap, bits are dropped on
purpose, a square root comes from floating point, and lengths, counters and paddings
of the hash functions have corners that only rare lengths reach.  Their block
functions are written for speed: words stay where they are and are named in another
order, lanes are overwritten by what they feed, sums and substitutions are read from
tables.  One wrong index gives a hash that looks like any other, and pools refuse
every share.  PROJECT.json lists these hazards at their lines with the properties
that cover them.

What makes the parts correct, in a sentence each:

- workers: a share carries the nonce that was hashed; an interrupted worker ends
  and sends at most one more share; only the latest job is mined;
- session: a share goes to the connection its job came from, a login opens every
  connection, and after any loss the miner reads again;
- statistics: the ring stays a ring, and the prune loop leaves the monitor;
- inputs: a line, a target, a nonce or an option means what it says;
- native memory: every page is free, in use or held by a context, and a hash gets a
  scratchpad;
- hash: it is the published function of its input, whatever the memory held.

## The modules

**Worker** models `Worker.run` and the part of `Miner` that replaces workers.
Each access of a worker to a cell of the nonce field is a step of its own
(`WriteCell`, `CopyCell`), because that is where two threads collide; `Judge`
looks the hashed field up in `Winning`, a constant set of pairs of job and field
which stands for the hash function and the target together.  The main thread
receives a job or loses the connection, interrupts the workers one by one in
any order, clears its set, starts the new workers one by one.  `Die` is the
exception that leaves the prune loop or `add` when the statistics are damaged.
The four bytes of the nonce are two cells here.

**Shares** is the abstract specification: what a pool may expect of a miner.
`Worker!KeepsPromise` says that the miner implements it.

**Hashrate** models the deque at the grain of the field accesses of
`java.util.ArrayDeque` (JDK 8): `add` reads `tail` twice and writes it once,
`pop` reads `head`, clears that slot, and moves `head` on from what it
read in the array there is by then, `add` stores the new `tail` before it compares it
with `head`; the comparison that finds the ring full and the `doubleCapacity` it calls
are one step.  A
behaviour begins when the statistics have filled up, with one worker or more.

**Miner** models the session.  `connect` is four steps and the login, one per
field it replaces, and can fail at each; its caller is remembered because after
`reconnect` called it `start` calls it again.  The workers of a job are one
unit that is running, interrupted or gone; `set` holds the jobs whose workers the field
`set` holds, and only these are interrupted.  `NothingNull`, a part of the type
invariant, says where the fields may be used.  Lines are those of PoolProtocol.

**PoolProtocol** is `parseJob` as a fold over the members of a line, with the
order of fields and the exceptions, and what `start` makes of the outcome.
**ShareCodec** is the hexadecimal coding and the signed arithmetic around it:
targets, difficulties and nonces.  **CommandLine** models `Drill.main` and
`parseArgs`.  **MCInputs** feeds the first two with every input of a bounded size,
**MCCommandLine** the third with all its arguments on a machine with one processor.

**NativeContext** models `slowHash`, `alloc_ctx`, `cryptonight_alloc_ctx` and
`cryptonight_free_ctx`, one step per attempt, with the huge pages as what threads
and other processes share.

**Blake256**, **Groestl**, **Jh**, **Keccak** and **Skein** are the init, update
and final functions of the five hashes, over **Octets**: a byte is where it came
from, so that a block of stale, lost or doubled bytes is visible, and a
compression is a frame that is appended to what was absorbed.  **HashFunctions**
dispatches over them as `extra_hashes` does; **HashStream** is what they promise.

What a frame stands for there is modelled at its real width in **KeccakF**,
**Blake256Compress**, **Groestl512**, **JhE8**, **SkeinBlock** and **SoftAes**,
over **Words** (a word is the set of its bits) and **ByteField** (the S-box and
the field of AES).  Each has two halves: the code, round by round, with its
tables, its order of words and its updates in place; and the definition of the
standard, with the permutations, matrices and fields that the code avoids.
**Compressions** is a call of one of them: the action of a function does one
round of the code (`code`) and one of the definition (`ideal`), and the
properties compare the two after every round (`CallSpec`).  The words of the inputs
are a parameter, `Given`.  **MCHashes** gives three of them and puts a message that
is absorbed and a call on a block into one instance.

**IntMath** is the division and the square root of the hash, with the number of bits
a double loses as a parameter.  **SlowHash** is the published algorithm as functions
of the state that Keccak leaves, **Cryptonight** the code of `Cryptonight_hash<N>`:
one action per macro (`CN_INIT`, `CN_STEP1` to `CN_STEP4`, `CN_FINALIZE`) or pass of
a loop, on registers and a scratchpad that are overwritten; what their memory holds
at first is a parameter.  The rounding mode is a variable of the thread: it is the
default or what an earlier hash left, until `CN_INIT` sets it, and the root is taken
in the mode there is.  That `CN_INIT` sets it for each lane and nothing sets it back
is in the code; the JVM it leaves it to is not modelled.  The exclusive or is
defined from the last bit to the first, under the assumption that words and half
words have a whole number of bits.  `_mm_aesenc`, SubWord, RotWord and `keccakf` are
parameters; that the code of the last three, and of an AES round without the
instruction, is what the standards say is the business of SoftAes and KeccakF.

The theorems are in **WorkerProofs**, **HashrateProofs**, **MinerProofs**,
**InputsProofs** (hexadecimal coding, lines and shares), **NativeProofs** (the
contexts, the block functions of the hashes and AES), **StreamProofs** (the framing
of the hash functions) and **CryptonightProofs**; **FoldProofs** has what several of
them need of inductions, folds and sequences.  The modules `MC...` and the `.cfg`
files are instances for TLC.  Definitions marked `Mutant` are plausible mistakes;
with one of them in place of the definition that follows it, TLC finds a property
violated, which shows that the property says something about the code.

## What the runs check

| Run | Instance | Result |
| --- | --- | --- |
| `worker_solo` | 1 thread a job, 3 jobs, fields of two cells with two values | shares are valid (`SoloShareValid`), only workers of the latest job go on (`OnlyLatestJob`), Shares is implemented (`KeepsPromise`) |
| `worker_pair` | 2 threads, 1 job | at most one share after an interrupt (`AtMostOneLateShare`), no worker is lost (`NoOrphan`), interrupted workers end (`InterruptedEnds`) |
| `worker_torn` | 2 threads, 1 job | violated: a share carries a nonce that was not hashed (`ShareValid`) |
| `hashrate` | 1 or 2 workers and the report, limit 2, a ring of 4 that may double | alone, a worker keeps the ring consistent (`SoloConsistent`); with two, damage is for ever (`StuckForever`), but the prune loop ends (`PruneEnds`) |
| `hashrate_count` | the same | violated: a worker ends although nothing interrupted it (`ThreadCount`) |
| `session` | 4 connections, 3 jobs | `SharesComeHome`, `OneLogin`, `ReadsOwnConnection`, `NobodyMinesOffline`, `OneJobMined`, no field is null where it is used (`TypeOK`); the session comes back (`ComesBack`) |
| `inputs` | lines of up to two members with up to two fields, all targets, hashes and nonces of 4 bytes of 2 bits | `parseJob` agrees with a definition that does not go through the line (`OutcomeMatchesReference`); a share is sent exactly when the pool wants it, targets from half of the range on aside (`SharesAreWanted`); nonces arrive (`NonceArrives`) |
| `cli_help` | | violated: `-help` alone does not print the help (`HelpPrintsHelp`) |
| `native` | 2 threads, 3 contexts a hash, 3 huge pages of which 0 to 3 are free at first, 1 may be locked | each page is free, in use, held or leaked, and none of it twice (`PagesAccounted`); the process only dies of a page that was leaked (`OnlyLeaksKill`), and of every one (`LeakIsFatal`); without free pages it hashes on (`HashesGoOn`) |
| `native_fast` | 2 threads, 5 contexts, 1 page | violated: one free huge page and the process dies (`FastMemoryServes`) |
| `hashes` | messages of up to 200 bytes in any pieces, real block sizes; calls of each function on a block, of all rounds and the real width, with zeros, with bits without a pattern, and with the configuration of JH and Skein | each function absorbs the framed message of its definition (`FramesAsDefined`) and streams (`KeepsStreaming`); the rounds are those of the standards (`AesAsDefined`, `BlakeAsDefined`, `GroestlAsDefined`, `JhAsDefined`, `KeccakAsDefined`, `SkeinAsDefined`); the tables of initial values are what the functions make of their configuration (`PrecomputedIVs`) |
| `cryptonight` | 2 lanes, 9 Keccak states each, words of 6 bits, 4 lines, 3 rounds, 2 contents of the memory | the code computes the definition (`MixesAsDefined`, `HashesAsDefined`); `RootIsExact` in a thread that rounded either way before, `DivisionFits` |

Bounds.  Two cells with two values give four nonces, so the nonce wraps, a carry
changes both cells and a torn field exists.  Three jobs with one thread let two
stale workers run beside the current one; two threads of one job are what it takes
to tear a nonce.  A ring of four wraps and fills within a few additions. Four
connections are one for each of the three fields, when they differ after failed
attempts, and a new one; three jobs have two stale sets of workers at once.  Names
of connections and jobs are used again, so behaviours are endless and no counter
stops them.  Bytes of two bits make every sign bit and every shift meet every
other.  In `native` three contexts have a first, a middle and a last one, and as
many pages as contexts let all of them succeed.  200 bytes is the length drill
hashes; shorter messages reach all corners of the padding, and the counter words are
small (`BlakeWord`, `GroestlWord`) so that they carry.  The proofs have no such
bounds: StreamProofs covers messages of every length, InputsProofs lines of any
number of members.  `BlakeFits` leaves out the pieces that blake256_update takes in
the wrong order, none of which the program feeds.  A block function has no state but
its input, and every bit of a state depends on every bit of the input after a few
rounds, so an input without a pattern meets all of a round; zeros are the input in
which only the constants act.  Constants that the two halves share (`sigma`, the
words of `cst`, the rotations of Skein) are not checked by their comparison; those
that have a definition are: the S-box, the constants of Keccak and of the 42 rounds
of JH, the initial values.  The table of Groestl is modelled by what its columns
hold, the multiples of a byte of the S-box, and not number by number.  Three rounds
let what a round leaves in `bx1`, the division and the root reach the next two; four
lines make the two addresses of a round fall together or apart, and 6 bits are the
shortest word in which the double loses bits. `RootIsExact` sees the words the
rounds happen to meet; its theorem sees all.

Fairness.  Worker, Hashrate and NativeContext assume weak fairness of each thread:
the system schedules a thread that stays runnable.  The monitor is not assumed to
be fair.  In Miner each step of `connect` that can succeed again and again
succeeds in the end, for each of its two callers separately.  This is needed: with
fairness that does not tell the callers apart TLC finds a pool that accepts the
connection of `reconnect` and refuses the one that `start` opens beside it, for
ever.

`SleepCoversHash` in Miner is a timing assumption, that a hash takes less than the
30 s of a sleep; without it a late share can go to a new connection.

## What the models found

- With two threads a job, nonces are torn and shares invalid (`worker_torn`).
- `add` outside the lock costs workers their lives (`hashrate_count`).
- `-help` alone is refused for the missing options (`cli_help`).
- A huge page that could be mapped is lost and kills the process (`native_fast`);
  drill works only where none is free.
- The root of the hash is one too large for the largest words (some 5.5e9 of
  2^64), because the product that decides about the correction wraps.  The
  published hash is defined by this procedure, so nothing is wrong with the
  shares; `SqrtExactBelow` says exactly how far the root can be trusted.

## What is proved

WorkerProofs proves, for every number of threads and jobs, every width of the
nonce field, every set `Winning` and without fairness: type correctness;
`NoOrphan`; `OnlyLatestJob`; `AtMostOneLateShare`; `SoloShareValid`; and, for one
thread, the refinement of Shares.  The assumptions are those of
`ConstantsAssumption`.

The invariants are not inductive alone.  `Fresh` says that workers that were not
created are untouched and that the next one `StartWorker` creates is such a one,
which ties the cardinality of the set to the indices.  `Tracked` adds to
`NoOrphan` that the set holds workers of the latest job only.  `Lateness` adds
that a pending interrupt stays pending and that a worker with a late share is
past the point where it could send another.  `Solo` follows the nonce from the
variable through the blob into the copy; that no other worker writes to the blob
is `SoloWorkers`, the only place where one thread a job is used.

HashrateProofs proves, for any number of workers, any limit and any capacities
above it: type correctness; `StuckForever`, that a damaged ring stays
damaged whoever steps next; and, for one worker, `SoloConsistent`.  The last one
needs `SoloState`: the program counter of the worker tells which slots hold a time
and how many, also between the two halves of a `pop` and of an `add`, and the
lemmas about distances around the ring say that neither half makes `head` and
`tail` meet too early.

MinerProofs proves, for every set of connections, jobs and lines: type correctness,
`OneLogin`, `ReadsOwnConnection`, `NobodyMinesOffline`, `OneJobMined`, and, when
`SleepCoversHash`, `SharesComeHome`.  The invariant has three layers. `FieldsInv` is
about the three fields of the session: while `connect` runs, the new socket has seen
no login and one field after the other refers to it (`HalfOpen`); afterwards all
three are one connection that was logged in once (`InSession`). `WorkersInv` adds
the workers: those that are not interrupted are in `set`, and a job that was read
and is not yet started has none, and comes from the connection that is read
(`JobPending`).  Only `WorkersHome`, that no worker is left while `connect` runs,
needs the assumption about time.

NativeProofs first proves type correctness, `OnlyLeaksKill` and `PagesAccounted` for
every finite set of threads and every number of contexts and pages.  `OnlyLeaksKill`
needs `LeakInv`: wherever a context is null a page has been leaked, since only a
first attempt that gets its page gives null.  `PagesAccounted` needs how many
contexts a thread has filled when (`Filling`), because pages are counted as the
cardinality of what the threads hold; it counts leaked pages as such, and does not
say that there are none.

InputsProofs proves, for every even base and every even number of digits: that
`unhexlify` undoes `hexlify` for bytes and nonces (`HexRoundTrip`,
`NonceRoundTrip`), that the signed comparison of Java decides as an unsigned one
does for targets below half of the range (`WinsAsUnsigned`), and the invariants
`SharesAreWanted` and `NonceArrives`.  Further that `parseJob` agrees with its
definition for every line, with any number of members, of fields in them and of
fields of a job, whatever their values (`ParseMatchesReference`), hence
`OutcomeMatchesReference`.  The definition lists the fields that the code reads and
says when one of them makes it throw and what the last of a kind leaves; the code is
three folds, one inside the other.  `Follows` says of two readings what a stretch of
that list makes of the first, `FollowsOn` puts two stretches together, and each fold
is such a stretch.

StreamProofs proves `FramesAsDefined` and the refinement of HashStream
(`KeepsStreaming`) for messages of every length, every way of cutting them (which
`BlakeFits` accepts, for BLAKE) and every size of the counter words (for BLAKE a
multiple of 512).  The invariant gives the context of each function after `n` bytes
in closed form (`BlakeAt`, `GroestlAt`, `JhAt`, `SkeinAt`), without the pieces: how
many bytes wait, which they are, what was absorbed, where the counter stands.  Each
update takes one such context to another; that the finals then absorb the frames of
the definition unfolds the definition block by block.

FoldProofs states induction for the set of the numbers for which something holds,
not for an operator, because no installed prover can instantiate the induction
theorems of the library; from this come the existence of functions defined
recursively on numbers (`FoldExists`, `StepsExist`) and the steps of a fold.

CryptonightProofs proves `MixesAsDefined`, `HashesAsDefined`, `RootIsExact` and, for
words of more than four bits, `DivisionFits`: for every precision, number of lanes,
of rounds and of blocks, every cipher, permutation and contents of the memory.  The
assumptions are that words have a whole number of bits, that double and result lose
a whole number of them (`PrecisionAssumption`, `EvenAssumption`, `BitsAssumption`),
that the scratchpad is a number of passes of eight blocks, and the types of the
parameters.  The inductive invariant `IInv` (`InvHolds`) says that the thread rounds
down whenever a lane is in a round, and gives the stage of each lane: `AtStep1` to
`AtStep4` say what registers and scratchpad hold before a macro, in terms of the
parts of a round of the definition, and the lanes before the current one are a macro
further than those after it.  `Exploding` and `Imploding` say the same of the loops:
the eight blocks in registers are the latest of a chain that the definition lists
one by one, each from the one eight before it.  That the memory may hold anything
follows because a block is part of the invariant only when it was stored.  The facts
below the steps:

- `XorAssociative`: the exclusive or is associative, by induction on the bits; so
  three shifts of a row and one addition chain its words (`GenkeySchedules`).
- `NearPad`: the four blocks of a line are four; so what a shuffle stores does not
  meet what it has loaded, nor the block the round is about (`Step3Goes`).
- `SqrtExactBelow`: the root of a double that was rounded down is never too small,
  it is exact for every word `n` with `n + 2 * Half <= Modulus`, and above that at
  most one too large.  The argument: the root of the double, cut off, is the root of
  what the double kept of the word, and so the root of the word or one less; which
  of the two, the product of `s` and `r - s + 1` decides, as long as it does not
  wrap.  That a root exists, which `CHOOSE` needs, comes from the least number whose
  square is too large.
- `DivisionPacks`: the first bit of the divisor is set, so the quotient has at most
  one bit more than half a word, and that bit is all the packing loses.

The second part of NativeProofs is about Compressions.  It proves `SkeinAsDefined`,
`BlakeAsDefined`, `KeccakAsDefined`, `GroestlAsDefined`, `AesAsDefined` and
`JhAsDefined` as invariants of `CallSpec` for every `Given`: the run compares code and
definition on three inputs, the theorems for every state, block and key, at the real
width, after every round.  The inductive invariants (`SkeinInv` to `JhInv`) say that
the code has what the definition has, that these are words of the right shape, and
for AES that the round keys are two blocks of the schedule, for JH that the elements
are those of the columns of the moment and the constant that of the table.  What
they rest on:

- Skein: `RoundIs`, a round on words that are named in another order is a round on
  words that were permuted that often; it is lost if an order names a word twice
  (`OrderFacts`).  `InjectIs`: the key and tweak words that come round modulo 9, 17
  and 3 are the subkeys.
- BLAKE: `PlusAssociates`, addition modulo a power of two associates although both
  sides are defined by their carries, because the carries of one bracketing are the
  carries of the other (`CarriesAgree`); `GIs` needs it for the one sum that the
  code brackets in another way.  `HalfRoundIs`: four applications of `G` one after
  the other read no word that one before them wrote.
- Keccak: `RhoPiIs`, each lane is read before it is written, along a path through
  all lanes but one; that the path is pi and that the offsets are those of rho is
  `PathIsPi` and `OffsetIs`.  `ChiRowIs`: two saved lanes are enough.
- Groestl: `RotatedIs` and `SwappedIs`, a table entry that is rotated row by row
  while the halves of a column change places is the column of a circulant matrix;
  `FromIsShift`, the columns that the code names are those that ShiftBytes brings.
- AES: `TableIs` and `ByteOfIs`, the four tables are one column of MixColumns of a
  byte, and the four words of a round gather the bytes that ShiftRows brings.
  `SlXorIs`: three shifts of a word are the running sums of the key schedule.
- JH: `PlacesMove`, the permutation of the definition moves the elements as the
  change of columns from one round to the next does, for each of the seven swaps;
  `PairIs`, S-box and L on bits of eight rows are those on an element of four bits;
  hence `RoundsAgree`.

Tables are not taken apart number by number in a proof.  What the tables that are
computed from a field or a shift register hold is stated where they are, as an
assumption on no constant of the model, which TLC evaluates for all bytes or rounds:
`FieldTables` (the S-box and its doubles), `ColumnOfMultiples` (the table of Groestl),
`RoundConstants` (Keccak), `RoundConstantsOfE8` (JH).  The theorems about AES,
Groestl, Keccak and JH hold as far as these do, and they are evaluated completely.
`GivenAssumption` says that inputs are words.  For the tables of indices, of rotations
and for the two S-boxes of JH the facts are proved.

Only model-checked are: liveness (`InterruptedEnds`, `PruneEnds`, `ComesBack`,
`LeakIsFatal`, `HashesGoOn`), which the prover does not do; and `PrecomputedIVs`, the
initial values of JH and Skein, which come from two calls with fixed inputs, so
that there is nothing to quantify and TLC has computed all there is.

## What is not modelled, and the plan

Not modelled: library loading; the output of a hash as a whole (the framing, the
block functions and Cryptonight are each compared with their definition, with one
another only through frames and parameters); what the program never calls of the
hash functions: HMAC, BLAKE-224, Skein-256, the other sizes of JH (Skein-1024 and
the software AES are modelled although drill does not run them either), messages
that are not whole bytes; the byte order of a machine other than the one drill runs
on; huge pages on Windows; what the templates of `cryptonight_aesni.h` and
`algos.hpp` compute for algorithms that are not compiled in; the copies between Java
arrays and native buffers, which leak the same amount in every call.  Two hazards
are described by the model and covered by no property: on one processor and without
`-thread` no worker is started (`Threads`), and nonces of two workers overlap after
100000 hashes of one job.

The modules were written in the order Worker and Shares, Hashrate, PoolProtocol,
Miner, CommandLine, NativeContext, the hash functions, IntMath and Cryptonight,
ShareCodec, the block functions: the program's concurrency first.  Next is
a composition of Worker and Hashrate, in which the exception of `pop` and the
interrupt meet.

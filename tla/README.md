# A verification of GGGGC

GGGGC is a precise, generational, moving garbage collector for C with threads.
This directory holds TLA+ modules that model it, TLC configurations that check
the models on small instances, and proofs, checked by TLAPS, of what the core
of it guarantees for any number of threads. All paths below are relative to
`src/`; every definition that models code has its lines in `PROJECT.json` under
`map`.

1. [The system](#the-system)
2. [The plan](#the-plan)
3. [World: stopping the world](#world-stopping-the-world)
4. [Gembc: the generational collector](#gembc-the-generational-collector)
5. [PortableMS: mark and sweep](#portablems-mark-and-sweep)
6. [GenBarrier: the barrier for systems without one](#genbarrier-the-barrier-for-systems-without-one)
7. [Compact: the full collection on words](#compact-the-full-collection-on-words)
8. [Finalizers](#finalizers)
9. [Lists and Maps: the collections](#lists-and-maps-the-collections)
10. [The runs](#the-runs)
11. [The proofs](#the-proofs)
12. [Where code and documentation disagree](#where-code-and-documentation-disagree)
13. [What is not modelled](#what-is-not-modelled)

## The system

A program declares types (`GGC_TYPE`), pushes its local pointers onto a pointer
stack (`GGC_PUSH`), allocates (`GGC_NEW`), reads and writes pointers through
macros that carry the write barrier (`GGC_RP`, `GGC_WP`), and says every so
often that it may be interrupted (`GGC_YIELD`). There are two collectors to
choose from when it is built: `gembc`, which moves objects between generations,
and `portablems`, which marks and sweeps in place.

| Component | State | Operations | Interacts with |
|---|---|---|---|
| Stopping the world, threads (`threads.c`, `threads/*.c`, the ends of both collectors) | `ggggc_worldBarrierLock`, `ggggc_stopTheWorld`, `ggggc_worldBarrier`, `ggggc_threadCount`, root lists, lists of blocked threads | collect, yield, create a thread, exit, enter and leave a blocking call | every allocation may collect, so every component runs inside of it |
| gembc (`collector/gembc.c`, `ggggc/gc-gembc.h`) | pool lists per generation, remembered cards, survivors, forwarding words, mark bits | allocate, write, copy the survivors of generations 0..g, restart one generation higher, mark and compact | roots, pools, descriptors, finalizers |
| portablems (`collector/portablems.c`) | pools per thread, a free list per thread, mark bits | allocate from the free list, mark, sweep one's own heap | the same; four barriers instead of three |
| Pools (`allocator.c`) | free pool list behind `freePoolsLock`, pool lists | get a new pool, expand a list, give a generation back | both collectors, exiting threads, operating system allocators |
| Descriptors (`allocator.c`) | tables of descriptors, descriptor slots with a lock each | find or make a descriptor, globalize a slot | allocate objects themselves, so they may collect while they hold a lock |
| Finalizers (`allocator.c`, both collectors) | a list per pool, a queue of ready ones | attach, find dead objects, call | the collection keeps objects that are about to be finalized |
| Generic barriers (`gen-barriers.c`) | a mutex, a count, two semaphores | make, destroy, wait | replace pthread barriers where the system has none |
| Roots (`roots.c`, `ggggc/push.h`, `ggggc/gc.h`) | pointer stack, globals, JIT stack | push, pop, globalize | read by every collection |
| Collections (`collections/list.c`, `map.c`) | lists and hash maps in the collected heap | push, insert, remove, map, get, put | programs of the collector like any other |

What is hard about it:

- **Interleaving.** Every running thread has to be seen to stop, hand over its
  roots and stay stopped, while others are being created, are exiting, or sit in
  blocking calls and come back at the worst moment. The flag is read outside of
  the lock, and twice; the barrier is destroyed and made anew whenever the count
  changes.
- **Long sequences.** A minor collection is right only if each earlier write,
  promotion, failed promotion and compaction left the remembered cards right, and
  left no garbage where a card is scanned.
- **Partial failure.** The next generation fills up half way through a copy, with
  some objects forwarded and some not, and the collection starts again above it,
  up to a full collection on a half-forwarded heap.
- **Staleness.** Dead objects are scanned, their descriptors may be dead as well;
  list nodes live in other threads' stack frames; unlocked copies of pointers go
  stale when a collection moves what they refer to.
- **Boundaries.** Full pools, the last card, odd sizes moved two words at a time.

`PROJECT.json` lists these one by one under `hazards`, each at its line with the
properties that are to catch it. What makes each component correct:

- *World*: when a collection runs, nobody else touches objects, and the
  collection has the roots of exactly the threads that hold references; count and
  barrier keep in step with the threads; nobody waits forever.
- *gembc*: collections are invisible to the program, which sees an object graph;
  remembered cards are complete; a collection ends.
- *portablems*: marked objects survive, the free list and the objects partition
  each pool, marks do not outlive a collection.
- *Pools*: no pool has two owners, and no pool is given back while something in
  it can be reached.
- *Descriptors*: no slot or caller is left with the old place of a descriptor;
  locks are not held where another thread needs the owner to stop.
- *Finalizers*: each is called at most once, only for unreachable objects, and
  what it is about to see is alive.
- *Generic barriers*: they implement the barrier World assumes.
- *Collections*: they behave as sequences and as functions.

## The plan

In order of importance; all of it is done:

1. `SafeRegion`, `World`, `MCWorld`: the abstract promise of stopping the world and
   the protocol that keeps it. `WorldProofs`: its safety, for every set of threads.
2. `ObjectGraph`, `Gembc`, `MCGembc`: the abstract promise of a collected heap, and
   the generational collector on whole objects. `GembcProofs`: its invariants, for heaps
   of any size, and that it implements `ObjectGraph`.
3. `PortableMS`, `MCPortableMS`: the mark and sweep collector, word by word, with several
   threads' heaps; it implements `ObjectGraph` without moving anything. `PortableMSProofs`:
   all of that, for heaps of any size and any number of threads.
4. `CountedBarrier`, `GenBarrier`, `MCGenBarrier`: what a barrier promises, and the one
   that `gen-barriers.c` builds of semaphores. `GenBarrierProofs`: that it is one, for
   every set of threads.
5. `Compact`, `MCCompact`: the full collection of gembc word by word. `BreakTable`: the search
   of break tables, which `GembcProofs` shows to be right for tables of any size.
6. `SequenceList`, `Lists`, `MCLists`, `FunctionMap`, `Maps`: the collections, each
   against the sequence or the function it stands for. `ListsProofs` and `MapsProofs`:
   that this is so for any number of them. `MCParts`: a barrier, lists or maps, which
   share nothing, in one run.
7. `Finalizers`, `MCFinalizers`: the lists of both collectors. `FinalizersProofs`: that no
   entry is lost, for any number of threads and entries.
8. `FrontLists`: what a loop makes that puts things at the front of a list, for `Finalizers`
   and `Maps`. `DataLemmas`: what the proofs share about numbers, finite sets, closures,
   graphs and sequences.

## World: stopping the world

`World.tla` has one action per step between two points at which another thread
can be seen. `pc[t]` is where thread `t` is, `op[t]` what it is doing there,
`round[t]` the barrier it last arrived for:

| In the code | In the module |
|---|---|
| trylock loops in `ggggc_collect0`, `ggc_thread_create`, the thread wrapper, `ggc_pre_blocking`, `ggc_post_blocking` | `Begin*`, `TryLock`, and `SeeStop`/`EnterYield` from inside of the loop (all but `post_blocking`, which spins) |
| `GGC_YIELD` reads the flag, `ggggc_yield` reads it again | `SeeStop`, `EnterYield` |
| building the root lists, raising the flag, 1st barrier, lowering it, 2nd barrier, collecting, 3rd (4th) barrier, unlocking | `InitRoots`, `RaiseStop`, `LowerStop`, `Collect`, (`SweepOwnHeap`,) `Restart`, with `Arrive` and `Pass` between them |
| a yielding thread: 1st barrier, push its roots, 2nd, 3rd (4th) | `PushRoots`, `AllowCollection`, (`SweepOwnHeap`,) `ReturnFromYield` |
| counting a thread in or out and making the barrier anew | `CountChild`, `CountOutBlocking`, `CountInBlocking`, `CountOutExit`, then `Unlock` |
| `pthread_create` returning, or failing | `Spawn`, `SpawnFail` |
| `ggggc_freeGeneration` of an exiting thread | `FreeGeneration` |

`Barriers` chooses the collector (3 rounds in gembc, 4 in portablems), and
`TimeoutIsLock` is TRUE for the trylock of `threads/windows.c`. The barrier is the
pthread barrier: it opens when as many threads as it was made for have arrived, each
leaves in its own time, destroying it waits until all have left (as POSIX lets a
program rely on), and one for no threads cannot be made.

`threadCount` and `barrier.ct` are -1 until the first operation that needs them; the
code counts the main thread in lazily in three places (`gembc.c:439`,
`threads.c:72`, `posix.c:60`), and forgetting it in one of them is one of the mutants.

`SafeRegion.tla` is what all of this is for, without lock, flag or barrier: threads
hold references (`live`) or may even use them (`active`); a collection begins only
when no thread is active and with the roots of exactly the live ones. `World`
implements it with `live`, `active`, `collector` and `scanned` defined from `pc`, `op`,
`round` and `rootList` (at the end of `World.tla`).

## Gembc: the generational collector

`Gembc.tla` is `collector/gembc.c` with the world stopped around a collection (that is
`World`'s business). Objects fill one slot each of a pool; sizes, word layout and tags
are abstracted, and a descriptor is one more member of an object. What is kept is
everything that decides which pointers are seen:

| In the code | In the module |
|---|---|
| `GGC_NEW`: the nursery pool in use, then the ones after it, then a collection | `New`, `CollectForRoom` |
| `GGC_WP` and the remembered set | `Write` |
| `ggggc_collect`: generation after generation | `CollectAll` (with `nextAll`, since other threads run in between) |
| roots and remembered cards put on the stack of addresses to search | `Start`, with `CardScan` going from object to object up to a clear word |
| one address taken off the stack | `SkipNull`, `KeepOld`, `Promote`, `PromoteFails`; in a full collection `Mark` |
| emptying the collected generations, clearing remembered cards, expanding lists | `EndCopy`, `Expand` |
| compaction of each pool, fixing pointers, finding remembered cards again | `EndMark` (`Compacted`, `NewLoc`, `Slid`, `Younger`) |

Details that matter and that a simplified collector would miss: a slot given up keeps
garbage (`Junk`), and allocation in older generations has to clear the next word for
the card scan to stop (`ClearNext`); a failed promotion leaves forwarding words behind
and the search starts again from the roots on top of them (`Follow` walks chains);
cards stay remembered above `gen + 1` only; `survivors` of a pool that was never
counted is not initialised (`Unset`), so that `Expand` may decide anything about it; the
program may call `ggggc_collect` (`CallsCollect`), and other threads' collections come
between its generations.

`ObjectGraph.tla` is the abstract heap: variables, objects, members; objects that no
variable leads to are gone, new ones get an address nobody has, and any step may move
objects as long as every reference moves along, one to one. `Gembc` implements it in
every state, those in the middle of a collection included, where a reference is what
following the forwarding words leads to.

## PortableMS: mark and sweep

`PortableMS.tla` is `collector/portablems.c` on words, because its difficulties are there:
what lies in a word while a sweep is half done, and who still reads it. `mem` holds the
words of all pools; a pool is a tiling by objects, whose size is in their descriptor, and
free blocks, which begin with a zero and their size. Each thread has pools (`gen0`) and a
free list of its own, but pointers lead anywhere. Descriptors are objects like any other.

| In the code | In the module |
|---|---|
| `ggggc_mallocRaw`: first block that fits, taken whole or split | `New` (`Fit`, `Allocate`) |
| no room: collect, try again, then one more pool | `NoRoom`, `Collect`, `Retry`; in between, `pc` is `"full"`, then `"retry"`, and the descriptor is a root (`req`) |
| `mark`: a stack, the low bit of the descriptor pointer | `Mark`, `MarkAgain`; `marked` is the set of objects with the bit |
| `sweep`, by each thread of its own heap | `SweepMarked`, `SweepFree`, in any interleaving |
| the barrier after the sweep, and `clearFreeList` after it | `Restart`, then `ClearFreeList` of each thread while others already run |

A freed block keeps its size in its first word until `clearFreeList`, since the second may
still be the size in a dead descriptor that another thread has yet to read, to find its way
through its own heap. `Sized` is that, and its mutant puts the size in both. A thread in a
blocking call takes no steps; all that matters is whether it is in one when a
collection takes place, so `Collect` chooses who is (`gc` is `"away"`). `MayBlock` allows that.

Abstracted: the links of the free list (a sequence of its nodes), what else lies in a free
block once it is on the list (`memset` clears it before anyone reads it), the order of the
roots. `Wanted` is what `clearFreeList` computes, words and bytes mixed as they are there.
The system may refuse a pool. A program that then has no room aborts; its thread stops.

`ImplementsObjectGraph` says more than it does of `Gembc`: every step is a step of the
program (`SpecInPlace`), none moves anything.

## GenBarrier: the barrier for systems without one

`World` takes a barrier for granted. Where the system has none (Windows, Mac OS X),
`gen-barriers.c` makes one of a mutex, a count `cur`, the number `ct` it is made for, and
two semaphores: the last thread to arrive posts `waiters` once for each of the others,
then waits on `leader` until each of them has posted that, and only then resets the
count and lets the mutex go. `GenBarrier.tla` is `ggc_barrier_wait_raw` step by step:

| In the code | In the module |
|---|---|
| locking the mutex; `cur == ct - 1` or not | `Lead`, `Follow` (counts, unlocks) |
| a follower: evaluating `barrier->waiters`, waiting, posting `leader` | `StartWait`, `Wake`, `Return` |
| the leader's two loops | `Signal`, `Signalled`; `StartGather`, `LoadLeader`, `Gather`, `Gathered` |
| `ggc_barrier_destroy` and `ggc_barrier_init` when the thread count changes | `Remake` |

Making a barrier anew makes new semaphores. `waiters[k]` and `leader[k]` are those of the
`k`-th barrier, and `on[t]` the one whose semaphore `t` has got hold of; a thread between
`Follow` and `StartWait` gets whichever is there when it comes to it. The mutex and the count
lie in the barrier itself and are overwritten.

What drives it is `World`: the counted threads wait `Rounds` times in a collection (`Enter`),
and between collections the barrier may be made for other threads. When, is the
question. `World` relies on a destroy that waits for stragglers; `gen-barriers.c`'s does not, and
`threads.c` holds no more than the world barrier lock, which the collector gives back as soon
as it is out of its last wait itself (`CollectionOver`). So `Remake` may find threads inside, the
leader among them. The history variable `early` remembers that it did: with it, the properties
say which of the barrier's promises hold until then and which are [broken
then](#where-code-and-documentation-disagree).

`CountedBarrier.tla` is the promise: the last to arrive lets all go, each leaves in its own
time, until the barrier is made anew while somebody is inside (`Break`), after which it
promises nothing. The refinement mapping takes a thread to be inside from the moment it gets
the mutex, and to have arrived if it waits and nobody leads.

## Compact: the full collection on words

`Gembc` says what a full collection makes of objects; `Compact.tla` says how, on words. Objects
that stay are slid together in each pool; where they went is written into the gaps between
them as *break tables*, sorted, and looked up by binary search for every pointer. A
descriptor is an object like any other, may lie in either pool, and has to tell the size
of objects while it is marked, or has moved, or is dead.

| In the code | In the module |
|---|---|
| `GGC_NEW` in the nursery, the descriptors' sizes rounded up to three words | `New` (`Sized`, `Contents`) |
| roots and the objects of remembered cards, from `firstObject` on | `StartCollection` (`Met`, `Scan`, `Visited`) |
| copying to generation 1, or starting over with a full collection when it is full | `Copy` (`Ended`, `CardsPast`), `FinishCopying`, `MarkInstead` |
| marking | `MarkInstead` (`Live`, `Closed`) |
| `ggggc_countUsed`: alternating used and unused stretches of each pool | `Count` (`UsedEnd`, `UnusedEnd`, `Counted`) |
| `ggggc_compact`: the break table moved along and sorted, words moved two by two | `CompactPools` (`Rolled`, `Compacted`, `Sorted`) |
| `findBreakTableEntry`, `FOLLOW_COMPACTED_*` | `FindEntry` (in `BreakTable`), `NewAddress` |
| `ggggc_postCompact`: pointers, first objects, remembered cards | `Finish` (`Slid`, `FirstObjects`, `Younger`) |

Four properties say what must come out: every word of every object the program can reach
is where its new address says (`ObjectsIntact`); a pool can be walked by sizes, dead
objects included, whenever the code does so (`HeapParses`); cards start where an object
starts and are remembered when they must be (`CardsRight`); nothing dead is left
(`NoGarbageLeft`). `MCCompact` also checks the binary search by itself, on every table of up
to twelve entries (`SearchFindsEntry`).

What makes them true, and is nowhere written down in the code:

- A gap holds a table entry of two words, and one word more when the two-word steps run
  over: with `GGGGC_MINIMUM_OBJECT_SIZE` at three there is always that much.
- When a pool is full to its end, the last first-object card that is set is that of the next
  pool's header, number 0, in the same pool's table. Card 0 is then wrong, but no object
  begins in it as long as the header is no shorter than a card (`CompactAssumption`).
- The assertions of the debugging build at `gembc.c:1174` and `1181` are stricter than that: a
  table that fits exactly trips them.
- A card scan reads the word behind the last object (`gembc.c:545`), in a full pool the word
  behind the pool.

Abstracted: one pool for each of two generations, side by side; the pointer to the descriptor
is an object's only one (a further pointer member would be followed by the same code);
marking is one step (the world is stopped).

## Finalizers

`Finalizers.tla` has one pool, hence one list of entries, for each thread. A collection is one
step, while other threads are anywhere that they may yield, in finalizers of their own
included.

| In the code | In the module |
|---|---|
| `ggggc_finalize` | `Finalize` |
| each list split in survivors and ready entries, both reversed by that, then marked | `Collect` (`Survives`, `Split`, `Ready`, `Surviving`, `Chained`) |
| the loop of `ggggc_runFinalizers`, one call to the next | `CallNext`; `frames[t]` are the loops thread `t` is in, innermost last |
| what a program, or a finalizer, may do | `Drop`, `Keep` (bring back an object), `Write`, `Finalize`, `Collect` |

`EntriesKept` is that an entry not called yet is on just one list, and that it, its object,
and what that leads to are not swept. `OnlyTheDead` compares what a collection makes ready
with what could be reached. `ReadyGetsCalled` is liveness. `Collector` chooses how
survival is decided: portablems looks at marks; gembc looks for a forwarding word, and that
is not the same thing in a [full collection](#where-code-and-documentation-disagree). For
gembc the module has that full collection, after some objects have been copied (`MovedSets`). Nor
does gembc always look at the lists: it does when the search runs dry, but a popped NULL
goes on past that test (`gembc.c:900`), and if it was the last, the lists stay as they are with
nothing on them marked (`Looks`). `EntriesKept` is therefore a property of portablems alone.

## Lists and Maps: the collections

`Lists.tla` is `list.c` on nodes with `head`, `tail` and `length`; `Maps.tla` is `map.c` on a table
of chains that is doubled when it is full. `SequenceList` and `FunctionMap` are the abstract
specifications: sequences and partial functions. `Lists` implements the one under
`ListToArray`, `Maps` the other under `MapGet` of every key. Operations are one step each: a
thread owns its collections, and a garbage collection in the middle of one is invisible
(`ObjectGraph`).

Memory is small (`Nodes`, `MaxSize`), and nodes and entries are used again when nothing
leads to them. `Hash` and the comparison of keys are the program's; in the run, hashes agree
in the small table and one pair of them still does in the doubled one.

`list.h` allows two calls that leave a list whose tail is not its last node:

- `GGC_ListPushList` of an empty list to one that is not makes the tail NULL (`list.c:73-97`);
  in the two others it is a write through NULL, which is no step of `Lists`.
- `GGC_ListInsertAfter` and `GGC_ListInsertAfterList` do not move the tail when they insert
  behind it (`list.c:198-245`), so that the next push writes over the link.

Both are steps of the module. The history variable `spoiled` remembers that there was one:
`ChainsRight` and `ImplementsSequences` say that everything is right before, and `PushAppends`,
which `list.h:46` says of every push, is [broken after](#where-code-and-documentation-disagree).
That `spoiled` is not set by calls that do no harm is `OnlyWrongTailsSpoil`, a theorem.

Besides, `GGC_ListShift` returns the node and not the element, against `list.c:175` ("pop an
element"); what it takes out is right.

## The runs

`tlc -config <cfg> <module>` in this directory. Every run ends within two minutes or so.

| Run | Instance | What it shows |
|---|---|---|
| `world_gembc` | 3 threads, 3 barriers, `pthread_create` may fail | The safety invariants and `ImplementsSafeRegion` for gembc's protocol. A failed creation stalls collections (deadlock is therefore not checked) but lets none run beside the program. |
| `world_portablems` | 3 threads, 4 barriers, creation succeeds, fairness | `ImplementsSafeRegion` for portablems' protocol, an exact thread count, a current barrier, and threads in step in all four rounds (`PhaseAgreement`); every collection that has begun ends, every yield returns, no deadlock. |
| `gembc_two` | 2 generations, a pool of two objects each, both in one card, 2 variables | Remembered cards complete, every card scan ends, the program sees an object graph; several objects share a card and a compaction. |
| `gembc_three` | 3 generations of one object, explicit collections, fairness | Types, `HeapClosed`, nothing overlooked by a collection, and the object graph, through both failed promotions up to a full collection; a collection ends, however often it starts again. |
| `portablems` | 2 threads, 2 pools of 12 words, objects of 3 and 4 words and descriptors | Types, one owner for each pool, and every pool can be walked at every moment (`HeapParses`); free lists are exact; what a sweep leaves is what can be reached, without marks; the program sees an object graph in place. |
| `portablems_blocked` | the same, one variable | A counterexample, see [below](#where-code-and-documentation-disagree). |
| `barrier_early` | 3 threads, 3 rounds, one remaking, fairness | A counterexample, see [below](#where-code-and-documentation-disagree). |
| `compact` | 2 pools of 24 words, 17 of them for objects, in cards of 4; 2 descriptors of 4 words, objects of 3 | `ObjectsIntact`, `HeapParses`, `CardsRight`, `NoGarbageLeft`, over any number of collections that copy, or give up copying and compact. |
| `parts` | 3 threads at a barrier, 2 rounds, 2 remakings, fairness; or lists of 4 nodes in all; or maps of 3 keys, tables of 4 and 8 buckets | Until the barrier is made anew with somebody inside: nobody leaves early, every wait returns, it is a `CountedBarrier`. Until a call leaves a wrong tail: head, tail and length agree (`ChainsRight`) and lists are sequences. Always: entries are where they are looked for (`TableExact`) and maps are functions. |
| `lists_tail` | the same lists | A counterexample, see [below](#where-code-and-documentation-disagree). |
| `finalizers` | portablems, 2 threads, 2 objects, 2 calls of `GGC_FINALIZE`, fairness | No entry is lost or swept early, only dead objects are finalized, and all that is ready gets called, although finalizers drop, keep, attach and collect. |
| `finalizers_full` | the same, gembc | A counterexample, see [below](#where-code-and-documentation-disagree). |

Why the bounds are enough to be interesting. Three threads are the fewest with a
collector, a thread that yields to it and a third one that meanwhile blocks, comes
back, exits or creates; the theorems take away the bound for safety. Threads do not
come back once dead (their number bounds creation). In `Gembc`, every pool is full
after one or two allocations, so that failed promotions, restarts, full collections and
refused expansions happen in most behaviours; two variables and objects with one pointer
give garbage, sharing, cycles and pointers in either direction between generations
(set `Members` to two and `CallsCollect` to FALSE in `MCGembc_three.cfg` for more of them: the
invariants hold there as well, in 2.3 million states). The bounds are all constants: `Threads`, `Generations`, `PoolSize`,
`CardSize`, `MaxPools`, `Vars`, `Members`. `CallsCollect` is FALSE where explicit
collections would only multiply the states. Both runs have one pool per generation, since lists that
may grow multiply the states too much for the refinement to be checked; with two pools of one object
(`PoolSize = CardSize = 1`, `MaxPools = 2` in `MCGembc_two.cfg`) the invariants alone can
be, and hold, and the theorems are for any `MaxPools`. In `parts`, a
behaviour is about one of three things, as `uses` says from the start on. Of the barrier, two
rounds and two remakings let a fast thread meet a slow one a round, and a barrier, later (no
thread is ever more than a round ahead, which is proved); `MaxMade` bounds the remakings, after which
the program stops, so deadlock is not checked there (`WaitsReturnIfIntact` says that nobody is
stuck). A behaviour ends when the barrier has been made anew too early or a tail is wrong, since
nothing is promised from then on but types, and these are a theorem. In `PortableMS`, a pool of 12 words holds the
first two descriptors and a block of 4 words (an object of 3 would leave too little), or up
to three objects: splits, exact fits, remainders too small, coalescing and growth all
happen. `Globals` are two variables that both threads use; the program has at most
`MaxTypes` = 1 descriptor of its own in memory, made in either heap and used in both;
`CallsCollect` is FALSE. Deadlock is not checked there, as a program out of memory aborts.
In `compact`, 17 words are four objects and a descriptor to spare, or five objects of three
words and two words: break tables get up to two entries, in both pools; pools are exactly full
after compaction, and tables end with their pool; two cards are remembered, dead objects in
them included; a collection gives up copying at its first object and after others. All objects
of three words are alike, hence the symmetry. In `parts`, memory runs out and tables
reach `MaxSize` too; four nodes let each list have two while they are
joined, three keys make a table grow and share buckets before and after. In `finalizers`,
`Entries` bounds the calls of `GGC_FINALIZE`, after which a program may stop; one entry may wait
behind another that collects, or become ready during its call. (One thread with three
entries has the properties too, and so do 100,000 states of two threads with three.)
Nothing else is deadlock-free by omission: `Gembc` can always clear a variable, and a heap
too full to go on collects forever, as `ggggc_mallocRaw` does.

Fairness. In `world_portablems`, each thread goes on with what it has begun, once it can: weak
fairness of the collector's steps, of the yielder's, of counting, and of the
barrier. That a running program yields when the flag is up is the contract of
`GGC_YIELD`. No fairness is assumed of the lock (a trylock loop may starve), of blocking
calls (they may never return) or of the program's choices. In `gembc_three`, weak
fairness of the collector's steps: the world is stopped, nothing preempts it for good.
In `finalizers`, weak fairness of `CallNext`: a finalizer returns, and the loop that called it
goes on.

Every property has a mutant of the code in `PROJECT.json`, an operator next to the
definition it changes ("Mutant of ..."), under which TLC finds the property violated:
a yield that returns one barrier early, a thread counted twice, a write without its
barrier, a scan without its end, a word not slid along, an entry not rehashed, and so on.

## The proofs

### World

`tlapm WorldProofs.tla`. From the assumptions on constants in `World.tla` (a finite set of
threads, `Main` among them, three or four barriers) and `TimeoutIsLock = FALSE`, that
is, with a trylock that fails when the lock is taken:

| Theorem | Says |
|---|---|
| `TypeCorrect` | `Spec => []TypeOk` |
| `StopIsStillRaised` | `Spec => []SeenStopStaysRaised` |
| `CountIsExact` | `Spec => []ThreadCountExact`, with `SpawnMayFail = FALSE` |
| `CollectionIsAlone` | `Spec => []WorldStopped` |
| `CollectionHasAllRoots` | `Spec => []RootsComplete` |
| `YieldersKeepStep` | `Spec => []PhaseAgreement` |
| `LockAndBarrier` | `MutualExclusion` and `BarrierCurrent` |
| `BarrierIsNotLost` | `Spec => BarrierNotLost` |
| `WorldImplementsSafeRegion` | `Spec => Region!Spec`, the refinement |

But for `CountIsExact`, which is false otherwise, they hold whether or not
`pthread_create` may fail, and for three barriers and for four. The properties are not inductive: that nobody runs beside a
collection depends on how many threads the barrier counts, which ones have arrived,
which round each is in, and who holds the lock. The inductive invariant `IInv` is the
conjunction of

- `Types`, without the bound on the count;
- `LockInv`, who owns the lock, and that the owner is at the place the lock says;
- `PlaceInv`, which operations and rounds go with which `pc`;
- `ChildInv`, that a child being created has one parent;
- `AloneInv`, that the barrier rounds belong to one collector and the flag to its first round;
- `CountInv`, that the count is the cardinality of the counted threads, up to the one
  change a lock owner has made and not finished;
- `ArrivedInv`, that whoever arrived waits, and not all of the counted ones do;
- `RoundsInv`, that counted threads in a collection are at most one round apart, and how;
- `BlockedInv` and `RootsInv`, the owners of the nodes on the lists.

The proof has one lemma per conjunct (`LockStep`, `PlaceStep`, ...), one step per action.
The heart of it is the last arrival at a barrier: `CountInv` and `ArrivedInv` make every
counted thread be waiting (`AllArrived`), hence all of them in the same round
(`ArriveTogether`). For the refinement, `StepMoves` says how each step changes the four
abstract variables, `MovesRefine` and `ArriveRefines` that each such change is a step of
`SafeRegion` or none.

### GenBarrier

`tlapm GenBarrierProofs.tla`. For every finite, non-empty set of threads, any number of
rounds and remakings, with threads inside or not:

| Theorem | Says |
|---|---|
| `TypeCorrect` | `Spec => []TypeOk`, its bounds on `cur` and the semaphores included, also after an early remaking |
| `BarrierHolds` | `Spec => []NobodyLeavesEarly`: until there is one, nobody leaves early |
| `GenBarrierIsBarrier` | `Spec => ImplementsCountedBarrier`, the refinement, which is to `Break` at an early remaking |

Nothing in `NobodyLeavesEarly` speaks of semaphores, so nothing of it is inductive. `Spec => [](early \/ IInv)`: the
invariant `IInv` adds who owns the lock (`LockInv`), for whom the barrier is made
(`MembersInv`), that semaphores to come are untouched (`FreshInv`), and the sums that make
the semaphores right (`CountsInv`): while nobody leads, `cur` is the number of those who
wait and both semaphores are zero; while the leader signals, posts and signals still to
come are as many as those who wait; while it gathers, what it has gathered, what is
posted, who is awake and who still waits add up to `cur`. `RoundsInv` is then that all
members are within one round of each other. `Effects` says once what each step does to
these numbers, and the lemma of each conjunct needs only that. The last arrival is the
step that matters (`OthersWait`), and the leader's leaving (`OthersGone`).

### Gembc

`tlapm GembcProofs.tla`. For any finite sets of variables and
members, any number of generations from two on, pools and cards of any size, any bound on
pools, and whatever pools the system refuses (`SizesAssumption`; `Null` is no location):

| Theorem | Says |
|---|---|
| `TypeCorrect` | `Spec => []TypeOk` |
| `HeapStaysClosed` | `Spec => []HeapClosed` |
| `RememberedSetsComplete` | `Spec => []RememberedComplete` |
| `ScansMeetObjects` | `Spec => []ScanMeetsObjects` |
| `NothingStaysUnseen` | `Spec => []NothingUnseen` |
| `GraphImplemented` | `Spec => ImplementsObjectGraph`, the refinement |

That the cards are right when a collection starts depends on all the collections before it,
the ones that gave up half way and began anew one generation higher among them. The
inductive invariant says for each phase what is where:

- `SlotsInv` and `ClearInv`: below a pool's free pointer are objects; in generations that are
  scanned, the word after the last one is clear, which is where a scan ends;
- `PointersInv`: pointers lead to objects, to abandoned copies as well, and those of dead
  objects too, for a card is scanned without asking who is alive;
- `ForwardInv`: an object that moved is forwarded to an older generation, and nothing is
  forwarded when the program runs. Chains of forwarding end because generations do;
- `StackInv`, `CopyInv`, `MarkInv`: while copying, a pointer into the generations collected is
  still on the stack, and while marking, one to an object without a mark is;
- `RememberInv`: a pointer to a younger generation has its card remembered, but for objects
  of the generation that is being filled, whose members `CopyInv` still has on the stack or
  knows to lead to no collected object.

The step that matters is the failed promotion, `PromoteFailsStep`: the half-forwarded heap is
collected again from the roots and the cards of what is older, and nothing but `RememberInv`
at `gen + 1` says that those suffice.

For the refinement, `AddressOf` follows forwarding and `Led` are the objects led to; both are
recursive functions. `Led` is shown to be the least set closed under what variables and members
lead to (`LedIsRight`), so that a step that changes no such lead changes nothing, and a step
of the collector is `Move` when every object led to gets a place of its own and every pointer leads to
the new place of what it led to (`MoveFacts`): one object in a promotion, the marked ones in
a full collection (`EndMarkGraph`, where the new place is the number of marked slots before),
none otherwise. The program's own steps are those of the same name.

The module ends with a theorem on a loop of the full collection that no invariant shows to end:

| Theorem | Says |
|---|---|
| `SearchIsRight` | `FindEntry(original, n, a) = LastNotAbove(original, n, a)`, for every sorted table |

The step of `findBreakTableEntry` is halved from half of a half on and may overshoot in either
direction, so that no interval shrinks as in a textbook's binary search. While the step is more
than one it gets smaller, whatever the loop does; then it is one, and the loop walks to the
entry from wherever it is (`SearchByOne`, `SearchFinds`).

### PortableMS

`tlapm PortableMSProofs.tla`. For any sets of threads and variables, any number of pools, pools of any
size that takes the first objects, types of any sizes that fit, any choices of the system about
new pools (`PoolAssumption`), and under `MayBlock = FALSE`:

| Theorem | Says |
|---|---|
| `TypeCorrect` | `Spec => []TypeOk`, that no pool has two owners included |
| `HeapsParse` | `Spec => []HeapParses` |
| `FreeListsExact` | `Spec => []FreeListExact` |
| `SweepFreesTheDead` | `Spec => []SweptHeapIsLive` |
| `MarksAreComplete` | `Spec => []ReachableMarked` |
| `GraphImplemented` | `Spec => ImplementsObjectGraph`, the refinement |

The hypothesis is the code's own limit: if threads may block while others collect, `ReachableMarked`
[fails](#where-code-and-documentation-disagree), and with it the rest. `MarksAreComplete` says that a
blocked thread is the only way to that.

Where blocks begin is nowhere stored: it can only be found by walking, with sizes that lie in
descriptors, which may be dead, on a free list or in a heap that another thread sweeps at
the moment. The inductive invariant `IInv` therefore says (`Good`) that there are words `B`,
where blocks begin, objects `X` among them and live ones `L` among these, such that

- in each pool that has an owner, blocks follow each other from its first word to its end
  (`Tiles`), with the sizes that are to be read of them in this phase of their owner (`Size`); and the
  word that has the size of an object, be it or its descriptor dead or alive, is none where a
  block begins, so that no sweep writes to it (`HeapRight`);
- a thread's free list has the free blocks of its heap, or during its sweep those of what it has
  swept, each once and no two side by side (`ListRight`);
- objects refer to objects, live ones to live ones (`Shut`), what variables and requests have is
  alive (`Prog`), and `L` is what has its mark or has been swept already (`LiveOf`);
- while marking, what is marked or on the stack is led to by the roots and has all that marked
  objects refer to (`Marking`); in a sweep, `L` is just what roots lead to (`Sweeping`, `Generated`);
- each sweep is at the beginning of a block of its pool, and if a free block ends there, it is the
  one that the sweep remembers (`Spots`).

The first half of the module does not speak of the variables of `PortableMS` at all: it shows of any
words what taking a block, splitting it, adding pools, giving sizes, freeing a block and
merging it with the one before make of such a heap, and then of the heaps of all threads when one
of them does so (`Heaps`, `IsHeap`). Each action's lemma puts two or three of these together. The steps that
matter are those of `SweepFree`: a dead descriptor's first word is overwritten while others
still need its second to get past their own dead objects, and a merged block ends where nobody
begins any more. `HeapParses` and `FreeListExact` speak of a walk, `Steps`, a recursive
function; the last part shows that it meets exactly `B` (`Walk`, `WalksAlong`).

For the refinement, `LedRight` says that what variables lead to (`Led`) is the least set closed under
the pointers of its objects. A step of the collector changes no variable and no word of a
live object, hence nothing of it; a step of the program is that of the graph with the same
name (`Becomes`), where a new object is a place the program did not have.

### Lists

`tlapm ListsProofs.tla`. For any set of lists, finite set of nodes and set of elements, and
all calls that `list.h` allows, up to the first that [leaves a wrong
tail](#lists-and-maps-the-collections):

| Theorem | Says |
|---|---|
| `ListsStayChains` | `ListSpec => []ChainsRight` |
| `OnlyWrongTailsSpoil` | `ListSpec => [][~spoiled /\ spoiled' => WrongTail']_listVars`: nothing but a tail that is NULL or not last ends that |
| `ListsAreSequences` | `ListSpec => ImplementsSequences`, the refinement |

Neither head, tail, length nor links say what a list is: the inductive invariant is that, unless
`spoiled`, there are sequences of nodes (`Chained(ch)`), one for each list, no node twice, such that the fields
are right for them. Each step is proved by giving the new sequences, which are the old ones
with nodes taken off or spliced in (`SplicedFacts`). `NthOfChain` and `ContentsOfChain` relate the walk
along `next`, a recursive function, to such a sequence.

### Maps

`tlapm MapsProofs.tla`. For any sets of maps, keys and values and any hash
(`MapsAssumption` says only that hashes are numbers and `Absent` is no value):

| Theorem | Says |
|---|---|
| `TablesStayExact` | `MapSpec => []TableExact` |
| `MapsAreFunctions` | `MapSpec => ImplementsFunctions`, the refinement |

The inductive invariant is about each table (`Fits`: chains without repetition, one entry
for a key, in the bucket of its hash, as many as `used` says and at most one more than half
the buckets) and about the entries of all tables together (`EntriesRight`). A table that is
rehashed has the same entries (`RoomyFacts`), since a walk meets each once and each goes to one
bucket. For the refinement, `Finds` says what a search of one bucket finds in terms of the set of
entries alone, and `Updated`, `Inserted` and `Cloned` what a step does to that set and the values.

### Finalizers

`tlapm FinalizersProofs.tla`. For any finite sets of threads, objects and entries
(`FinalizersAssumption`):

| Theorem | Says |
|---|---|
| `NoEntryLost` | `Spec => []EntriesKept` for portablems; gembc loses the lists it [does not look at](#finalizers) |
| `OnlyDeadGetReady` | `Spec => OnlyTheDead` for portablems; for gembc it [fails](#where-code-and-documentation-disagree) |

An entry that waits is on the list of a pool or on one that some call of `ggggc_runFinalizers` has
yet to work off, and such calls nest as deep as finalizers allocate. The inductive
invariant says that there are sequences `ch[t][i]`, of the pool's list of thread `t` (`i = 0`) and of
what its `i`-th call has left, all without repetition and apart from each other, that have
exactly the entries attached and not called yet, and are chained by `next` (`ListsRight`); that
entries called, or taken off, lead back to no pool's list (`AsideRight`), so that no list is
called twice; that two calls are never at the same entry (`FramesRight`); and that all these
entries and their objects, and what those lead to, are in the heap (`HeapRight`). The step that
matters is `Collect`: each pool's list is split in two and both parts are chained anew through
the same `next` (`SplitFacts`, `ChainedFacts`), while other threads hold references into lists
that are left alone. What a collection sweeps is what it has not reached from variables, calls
and the lists, survivors and ready ones (`MarkedFacts`).

### DataLemmas

What no one component owns: rounding division; minima and listings of finite sets
(`LeastNatural`, `ListingElements`); that the slots given to the marked objects of a pool grow and
are all different (`RankGrows`, `RankOnto`); the least set closed under a relation, as a recursive
function that adds neighbours as many times as there are elements (`ClosureFacts`,
`ReachedFacts`); the new places of the objects of `ObjectGraph` (`CounterpartsFacts`,
`RenamingFacts`); the elements of sequences that are put together, flattened, or made of the
chosen elements of another (`ConcatElements`, `FlattenFacts`, `InFrontFacts`).

Induction: the library's theorems take an operator as a parameter, which cannot be
instantiated here, but an induction on a *set* of numbers can be stated without
one. `NatSetInduction` (from `WFMin` of the library) is that a set of naturals with 0 and
successors has all of them, and it is enough for the recursive functions of these modules:
such a function is a `CHOOSE` whose defining equation is first shown to have a
solution (`FoldExists`, `ClosureExists`).

### What is only model-checked

- Liveness (`CollectionCompletes`, `YieldReturns`, `WaitsReturnIfIntact`, `CollectionEnds`,
  `ReadyGetsCalled`): out of the prover's reach, as is anything about fairness.
- `Compact` walks its pools by `RECURSIVE` operators, which the prover's back end
  refuses, and is for TLC only (`ObjectsIntact`, `HeapParses`, `CardsRight`, `NoGarbageLeft`); but
  for its search of break tables (`SearchIsRight`).
- `MarksAreComplete` and the other theorems about `PortableMS` end where threads block during a
  collection; there the run `portablems_blocked` has the counterexample.

## Where code and documentation disagree

- `portablems_blocked`. The collector marks objects of blocked threads, whose roots it scans
  (`portablems.c:170`), but marks are only removed by the sweep of their owner, and a
  blocked thread neither sweeps nor catches up on it when it comes back (`threads.c:88`).
  The next collection takes such an object for done and does not mark what it refers
  to, against `portablems.c:350` ("mark this object and all objects it refers to"):
  `ReachableMarked` fails, and what can be reached is freed. The `portablems` run
  shows that all is well as long as nobody blocks during a collection.
- `finalizers_full`. In gembc, an object without a forwarding word is dead to
  `FINALIZER_POOL` ("object died, add this to ready finalizers", `gembc.c:275`), but a full
  collection marks survivors where they are (`gembc.c:932-940`): `OnlyTheDead` fails, finalizers
  of objects in use are called. By reading: the same test finds an old object dead in a minor
  collection that meets a young entry for it; and the list of survivors is stored over the list
  of the pool its first entry was promoted to (`gembc.c:669`, and `gembc.c:597-601` when a
  promotion fails), which loses the entries of that pool.

- `barrier_early`. `ggc_barrier_destroy` of `gen-barriers.c` does not wait for threads that have not
  left the last round, and the world barrier lock does not keep others from making the
  barrier anew as soon as the collector has left (`threads.c:51`, `75`, `101`). A follower that is
  awake posts the new semaphore, one that has counted itself but not reached its semaphore gets
  hold of the new one. The leader, which `gen-barriers.c:45` lets "wait for them to wake up",
  waits for a post that goes elsewhere: `WaitsReturn` fails.
- `lists_tail`. After an insertion behind the last node (`list.c:210`, `236`), or an empty list
  passed by `GGC_ListPushList` (`list.c:83-87`), the next push does not do what `list.h:46` says,
  "push an element to the end of a generic list": in the run it writes over the link to the
  node inserted before. `PushAppends` fails.

The following are left to the constants of the modules; no run here sets them:

- `SpawnMayFail = TRUE` with `ThreadCountExact`. `ggc_thread_create` counts the new thread before
  `pthread_create` and does not undo that when it fails (`threads/posix.c:60-67`; `windows.c` and
  `macosx.c` are the same). `ggggc-internals.h:66` calls the count the "number of threads in the
  system". The next collection waits at the barrier for a thread that does not exist.
- `JITRootsComplete` in any instance of `World`. A thread that blocks puts its pools and its
  pointer stack aside but never its JIT pointer stack: nothing ever assigns
  `ggggc_blockedThreadJITPointerStacks`, which `ggggc-internals.h:90-95` declares for it.
- `TimeoutIsLock = TRUE` with `MutualExclusion`. `ggc_mutex_trylock` in `threads/windows.c:67` compares
  with `WAIT_FAILED`, but a taken mutex gives `WAIT_TIMEOUT`, so every trylock succeeds;
  `ggggc-internals.h:58-59` wants the lock held for the entire duration of a collection.
- `Collector = "gembc"` with `EntriesKept`, see [Finalizers](#finalizers) (`gembc.c:900`).

## What is not modelled

Parts of what is modelled, as each section says: objects of several pointers in `Compact`,
several nurseries and JIT stacks in `Gembc`, minor collections in `Finalizers` (entries move with
the objects there, and their lists are kept per pool of a generation; what can be read off
the code is [above](#where-code-and-documentation-disagree)).

Descriptors' tables and slots (`allocator.c:212-447`): caches, of whose results the other
modules make use. Their hazards (a lock held across an allocation, a local that is returned
after a collection, a root that goes with its thread) are read off the code and listed, not
checked. The free pool list (`allocator.c:37-131`, `172-190`): a list behind a lock. Pointer
stacks and globals: links set before and reset after.

Of the generic barrier, that `threads-windows.h` makes its mutex only when it is first locked
(`threads/windows.c:60`), which two threads may do at once, and that its semaphores there
cannot be made at all: `ggggc/threads-windows.h:25` passes the initial value, 0, for the
maximum as well, which `CreateSemaphore` refuses.

Nothing of these, and why: the operating system allocators (wrappers of one call each; `Gembc`
takes from them that a request is granted or refused), the build without threads (every
operation of `World` is a no-op there), tagged words (skipped like NULL wherever
pointers are visited), debugging and statistics code, generated code (`push.h`), and
the benchmarks under `tests/`, which are programs of the collector.

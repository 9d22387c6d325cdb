# hardened_malloc in TLA+

This directory holds TLA+ modules that model the allocator in `src/`, the TLC
configurations that check them on small instances, and proofs, checked by
TLAPS, that the most important properties hold for every size of the system.

- `tlc -workers 2 -config X.cfg M` runs a configuration (see the table of runs).
- `tlapm M.tla` checks the proofs of a proof module.
- `PROJECT.json` lists components, runs, the source lines every definition
  models, the hazards the properties are aimed at, mutants and theorems.

## 1. The system

hardened_malloc is a general purpose allocator. Allocations of up to
`max_slab_size_class` bytes come from *slabs*; larger ones are mapped directly.
All metadata is kept away from the memory that it describes.

| Component | State | Operations | Module |
|---|---|---|---|
| Slab size class (one per arena and size) | `struct size_class`, `slab_metadata`: bitmaps, list links, canary, quarantine arrays, counters | `allocate_small`, `deallocate_small`, `alloc_metadata`, `enqueue_free_slab`, per-class part of `h_malloc_trim` | `SlabClass` (abstract: `SlotPool`) |
| Region table | two arrays of `region_metadata`, `total`, `free` | `regions_insert`, `regions_grow`, `regions_find`, `regions_delete` | `RegionTable` (abstract: `RegionMap`) |
| Large allocations, region quarantine | mappings, quarantine arrays | `allocate_large`, `deallocate_large`, large `h_realloc`, `regions_quarantine_deallocate_pages` | `LargeAlloc` |
| Size classes | constants | `get_size_info`, `get_size_info_align`, `get_large_size_class` | `SizeClasses` |
| Slots of a slab, memory tagging | bitmap words, packed tags, the tags of memory, canaries | `get_free_slot`, `tag_and_clear_slab_slot`, `check_canary`, `h_malloc_disable_memory_tagging` | `SlabSlots` |
| Initialisation, locking, fork | `ro`, `init_lock`, all locks, `thread_arena` | `init`, `full_lock`, `full_unlock`, `post_fork_child`, `malloc_disable`, `h_malloc_disable_memory_tagging` | `InitFork` |
| Random numbers | cache, index, reseed counter, block counter | `refill`, `get_random_bytes`, `get_random_u16_uniform` and siblings | `RandomState` |
| Page allocation | address space | `allocate_pages`, `allocate_pages_aligned`, `deallocate_pages` | `LargeAlloc` |
| Interface, C++ operators | none of its own | `h_malloc` ... `h_malloc_object_size_fast`, `new.cc` | `HeapApi` |

How they interact. The interface rounds the request up to a class, adds the
canary and calls `allocate_small` or `allocate_large`. A size class takes its
own lock for the whole operation and talks to nothing but the system call
wrappers and its random state. The large allocator takes `ra->lock` around the
region table and the region quarantine only, and makes its system calls with
the lock dropped. Fork and `malloc_disable` take the region lock and then all
class locks. Initialisation builds everything once behind a double-checked
flag and then write-protects `ro`.

What is hard in it:

- *Sequences.* The links of a slab are shared by three lists, and a slab
  wanders between them through frees, evictions from the quarantine of slots in
  *other* slabs, failed system calls and trims. Tests exercise a few calls.
- *Failure half way.* `mprotect`, `mmap(MAP_FIXED)` and `madvise` may each fail,
  and the code continues: a canary is already replaced, a slab is over the
  limit, a purge did not happen.
- *Boundaries.* Wrapping ring and table indices, capped doubling, skipped guard
  slabs, unsigned counters.
- *Interleavings* of the large allocator, which makes its system calls with the
  lock dropped, and of initialisation, fork and the switch of memory tagging,
  which meet other threads in any state.
- *Recomputation.* The class of an object is not stored; sized frees, realloc
  and the size queries compute it again from sizes that a canary, an alignment
  or an earlier realloc has changed.

What makes each component correct:

- size class: an address is never handed out twice or before it left the
  quarantine; frees of anything but an owned pointer are caught, and correct
  programs never abort; fresh memory is zero; owned memory is left alone; no
  slab is lost; guard slabs stay unmapped; the counters are right;
- region table: it is a map, whatever collides; no operation loops forever;
- large allocations: two live allocations never overlap, a freed range stays
  inaccessible until it leaves the quarantine, realloc keeps the contents;
- initialisation and fork: exactly one initialisation, nobody sees a partial
  one, no deadlock, a child finds every lock free;
- random state: no byte of keystream is used twice, ranges are unbiased;
- slots and tags: the search finds every free slot and only those, tags catch
  overflows and uses after free, and switching them off harms no one;
- interface: what is returned fits the request, contents survive a realloc, a
  correct sized free is accepted;
- pages: guards on both sides, nothing unmapped that is not ours.

## 2. Plan

Every component with logic of its own is modelled: `SlabClass` and `SlotPool`,
`RegionTable` and `RegionMap`, `LargeAlloc`, `InitFork`, `RandomState`, `SlabSlots`,
and `SizeClasses` with `HeapApi`. Every invariant, action property and refinement
that a passing run checks is proved as well, in eight proof modules (section 11); the
two liveness properties are checked by TLC only. What could be added:

1. A module that composes `HeapApi` with the two allocators. Today the places that
   an allocation may have are a set that is computed from the sizes.
2. Handlers of `operator new` that throw something else than `bad_alloc`.

## 3. SlabClass

One size class of one arena. The state is the state of `struct size_class` and
of the metadata of its slabs, under the code's names; a bitmap is the set of
indices of its set bits; a pointer is a pair of slab and slot. Four variables
describe memory: `accessible` (slabs mapped read-write), `dirty` (slots with a
nonzero byte), `tail` (the canary word of each slot) and `abort` (whether
`fatal_error` was reached). Four are history and appear in no guard of the
allocator: `live`, `place`, `misused`, `age`.

Every operation holds `c->lock` from first read to last write, so each path
through an operation is one action:

| Code | Actions |
|---|---|
| `allocate_small` | `AllocateFromPartial`, `AllocateFromEmpty`, `AllocateFromFree`, `AllocateFromNew`, `FreeSlabProtectFails`, `NewSlabProtectFails`, `AllocateAborts` |
| `deallocate_small` | `DeallocateHeld` (the quarantine had room), `DeallocateRelease` (a slot is released), `DeallocateFreesSlab`, `DeallocateCachesSlab` (its slab became empty), `DeallocateAborts` |
| `h_malloc_usable_size` | `UsableSizeAborts` |
| `h_malloc_trim` | `TrimStart`, `TrimSlab` (one per slab), `TrimEnd`; the lock is held between them |
| the program | `Write`, `StrayWrite` (use after free), `Overflow` (canary smashed) |

System call results and random draws are nondeterministic choices. Not
modelled: memory tagging (the build without `HAS_ARM_MTE`), labels, `errno`,
`nmalloc` and `ndalloc` (statistics that only count calls and may wrap)
and arithmetic on addresses (`libdivide`); pointers that are not the start of
a slot are inputs of the checks (`aligned` in `CheckFree`).

The specification has no fairness: no property of it is a liveness property,
and a program need not call malloc again. The configurations say
`CHECK_DEADLOCK FALSE` because `fatal_error` ends the process.

Properties: `TypeOK`, `SlotAccounting`, `FreeChecksExact`, `ListsExact`,
`PagesMatchUse`, `GuardsStay`, `StatsExact`, `AbortsJustified`, and the action
properties `FreshMemoryZero`, `QuarantineDelay`, `DataKept`; each is stated in
words above its definition. `ImplementsPool` says that a size class, with all
of its lists, is the pool of `SlotPool`: malloc gives out a slot nobody owns and
that is not withheld, free accepts owned slots only and lets at most one
withheld slot go.

## 4. RegionTable

The table of large allocations. Its operations run under `ra->lock`, but each
iteration of a loop is a step here, so that the loops' termination is checked
and not assumed. `call`, `pc`, `i`, `j`, `index` are the operation that holds the
lock and its local variables. Both arrays are modelled, with how far each is
accessible, so that leftovers in the array to grow into would be seen.

`hash_page` is *any* function, chosen in the initial state and kept: the table
must be right for all of them, and the real one is one of them. The mask
`& (total - 1)` is `% total`, which is the same for powers of two. An entry's
`size` stands for the size and the guard size stored with an address. `Start`
stands for the callers: `allocate_large` inserts an address that mmap returned,
so one that is not in the table; free, realloc, `malloc_usable_size` and
`malloc_object_size` look up any address.

`RegionMap` is the abstract specification: a set of pairs, with calls that take
effect once between their start and return. The refinement mapping takes
`Contents`, the pairs in the array in use, for the map; the variables `call`
and `out` are the same in both. A deletion takes effect when it clears the
entry, and the shifts that follow leave the contents as they are; a growth
changes nothing until it switches arrays.

Fairness: weak fairness of `Step`. The thread that holds the lock is inside a
loop that neither waits nor makes a blocking call, so the scheduler lets it
finish; starting an operation is not fair.

With a table of 4 entries the load factor test `free * 4 < total` would admit an
insertion into the last empty entry, and a search for an absent address would
not end; the module assumes a power of two beyond 4, up to 2^30. The code starts
with 128 and its limit is far below that.

## 5. LargeAlloc

Large allocations by several threads over an address space of a dozen pages.
`mem` says what is at each page: nothing, a `PROT_NONE` page, a zero page or a
page with program data. The region table is the map that `RegionMap` specifies,
whose operations are atomic because they hold `ra->lock`; an insertion may fail.
Quarantine cells hold ranges of pages, `{}` being NULL.

A thread's `loc` is where it is in a call and its local variables. A section
under the lock is one action, and so is a system call; between them every other
thread may run. A munmap that cleans up a range only this thread knows is
merged with the failing call before it, and the two munmaps of old guards after
an mremap, each of which may fail, are one step: nobody else can use the guards
before they are free. `mmap` returns any free range and may
fail; the other calls fail when the instance says so (`Failing`).

| Code | Actions |
|---|---|
| `allocate_large`, `allocate_aligned` | `Malloc`, `MapPages`, `ProtectPages`, `TrimLead`, `TrimTrail`, `Insert` and their failures; `allocate_pages` is the case of alignment 1, where both trims are empty |
| `deallocate_large`, `regions_quarantine_deallocate_pages` | `Free`, then `UnmapRelease` or `Purge`, `Enqueue`, `Evict` |
| `h_realloc`, in place | `ReallocShrink`, `Shrink`, the release of the tail, `Resize` |
| `h_realloc`, mremap | `ReallocGrow`, an allocation, `Delete`, `Remap` or `RemapFails`, `UnmapGuards` |
| `h_realloc`, copy | `ReallocGrow` or `ReallocToSlab`, an allocation, `Copy`, `Delete`, the release of the old range |

The program is correct: it passes only what it owns, and no pointer to two
calls at a time. Left out: sizes that overflow, in-place growth (compiled out),
a realloc to the same size (which changes nothing), requests rounded to size
classes (`Sizes` are the classes), and slab allocations that a realloc moves to.
Where pages cannot be unmapped or replaced they are wiped (`Wiped`). The tail of an
in-place shrink contains the old guard, which stays inaccessible; should the
purge fail as well, the `memset` of it (`src/h_malloc.c:1024`, `src/pages.c:88`) would
fault and end the process, which is not a step of the model.

The central invariant is `RangesApart`: `Claims` names everyone who will use or
unmap pages (owners, calls in progress at each point, quarantine cells), and no
page has two. `MappedExactly` adds that nothing else is mapped, save what a
failed munmap left behind (`leaked`). With `OwnedIntact`, `TableExact`,
`QuarantineSealed`, `ContentsKept` and `DataKept` this is what a caller can see.
There is no fairness: all of them are safety properties.

**Finding.** `large_trim_race` is a run that TLC refutes. When the trail of an
aligned mapping cannot be unmapped (ENOMEM: the mapping had merged with a
neighbour and the process is at its limit of mappings), the code unmaps the whole
original range again (`src/pages.c:77`), including the lead that it gave back
before. Another thread's mmap may have got that lead, and loses its guard or
its memory. The README of the allocator guarantees guard regions on both sides
of large allocations. `large_aligned` shows that with a single thread all of
these failure paths are right, and `large_threads` that aligned allocations by
two threads are right as long as the trims can be unmapped.

## 6. InitFork

Threads, locks and the page of read-only data. What a call does under a lock is
in the other modules, where an operation is atomic *because* of its lock; here a
call is the sequence of the locks that it takes, one after the other (a free of a
region takes `ra->lock` a second time for the quarantine, a realloc up to five
times), and the
question is whether the locks, `init` and fork fit together. Locks are numbered
in the order of `full_lock`: 0 is `ra->lock`, then each class of each arena;
`init_lock` stands beside them.

| Code | Actions |
|---|---|
| `init` and the call after it | `CallInit` (picks the arena, looks at `is_init`), `Enter` |
| frees, size queries, statistics, trim | `WithoutInit`; then, as in every call, `Take` and `Leave` for each lock |
| `init_slow_path` | `LockInit`, `InitCheck`, `InitBody` (one step per lock and its data), `Publish`, `Seal`, `UnlockInit`, `Register` |
| `full_lock`, `full_unlock` | `FullLock`, `FullUnlock` (one step per lock), `Enable` |
| `fork` | `Fork`, `ForkParent`, `ForkChild`, `PostForkChild` |
| `h_malloc_disable_memory_tagging` | `MemtagBegin`, `MemtagLock`, `MemtagTest`, `MemtagUnprotect`, `MemtagWrite`, `MemtagProtect`, `MemtagUnlock` |

After a fork the model follows either the parent or the child; in the child
only the calling thread is alive and the memory is a copy, locks included. A
thread that called `malloc_disable` makes no call before `malloc_enable`, since
any would wait for itself. A failing system call ends initialisation and the
process, and is left out.

`proc.early` and `proc.raced` are history. They name the two windows that the
code leaves open, and the properties say that nothing goes wrong outside them:

- `pthread_atfork` is called after the allocator is usable (it may allocate
  itself). A process forked before has no handlers, and its child may inherit
  locks that nobody will release. `LocksAccounted` allows locks without an owner in
  such a child only, and there too a lock whose owner is alive is one that this
  thread holds where it is; `CallsReturn` holds in it unless a lock was orphaned.
- `h_malloc_disable_memory_tagging` looks at `is_init` without `init_lock`. If it
  runs after `slab_region_end` is published (line 1330) and before `ro` is
  protected (line 1332), its own unprotect and write may have the `mprotect` of
  `init_slow_path` in between, and the write faults. `ReadOnlyAfterInit` shows that
  this is the only way to such a fault. The comment in the code says that bionic
  makes the call very early, when there is one thread.

Fairness: weak fairness of each thread's `Step`, so a thread inside a call is
scheduled in the end; starting a call is not fair. Weak fairness is enough for
the mutexes because the number of calls is bounded (`MaxOps`): a waiting thread
is never overtaken for ever. `CHECK_DEADLOCK FALSE` because the calls come to an
end; `CallsReturn` is what excludes a real deadlock.

## 7. RandomState

The states of `random.c`: the one that `init_slow_path` uses and throws away,
and those that it seeds. The keystream is symbolic: byte n under a key is the
pair of both. A key from `getrandom` is a new number, a key drawn from another
state is that state's key extended by the position of the bytes it was made
of. Two draws have equal bytes exactly if keystream was used twice, which
`FreshBytes` excludes across refills that split a draw, reseeding, seeding from
one another, and fork (the parent's keys are in `foreign`). It looks at the draws
that end on another byte than the draw before; draws of several sizes make a
repeated byte show in one of them. The cache has 8
bytes instead of 256, a block 2 instead of 64, and reseeding comes after two
caches instead of 1024; a seed of 3 bytes (40 in the code) is less than half a
cache, so it takes the path through the cache and straddles its end.

`UniformExact` checks Lemire's range reduction at a word of four bits for every
bound and every value, including the bound of 0 that `get_guard_size` passes for
a single page, for which the loop is left without the division. There is no
carry in the block counter: a key serves 256 KiB, so the first word of the
counter never overflows. Both properties are proved for every size (section 11).

## 8. SlabSlots

One slab down to its bits. Words have 2 bits instead of 64, so that slabs of 3
to 8 slots have one partial word, several, or exactly filled ones (for which the
mask in `get_free_slot` applies to a word that the search never reaches).
`SearchExact` compares the search from every start, the search without
randomisation, and both builds of `has_free_slots` and `is_free_slab` with the
set of free slots: this is the set that `SlabClass` uses.

Tags: `memory` has the tag of each slot, `pointer` the tag of the last pointer
to it. Five tags instead of sixteen leave one choice when the three excluded
ones differ. `OverflowCaught` and `DanglingCaught` are what the exclusion mask
is for: an overflow into a neighbour is caught, and so is a use after free until
the second reuse. Both are about one slab: the last slot of a slab and the first
of the next one may share a tag, unless a guard slab is between them.

All four properties are proved as well, for words and slabs of every size and any
number of tags (section 11).

`DisableTagging` comes at any time; from then on canaries are checked that were
never written. `NoFalseAbort` says that a correct program survives it.

## 9. SizeClasses and HeapApi

`SizeClasses` has the two tables and the arithmetic that computes a class, on
real sizes, with a `size_t` of 28 bits so that the largest requests overflow.
`HeapApi` takes one object through every sequence of interface calls in every
build: with and without extended and large size classes, canaries and zeroing.
The object is where its size puts it, a slot of some class or a region of some
size; any allocation may fail. `operator new` is an allocation that, when it
fails, waits in `handle_out_of_memory` for a handler.

The sizes lie around every border: classes, the canary, the largest slab class
of both builds, `MREMAP_MOVE_THRESHOLD` and the overflow of each rounding.
`RequestFits`, `ContentsKept` and `SizedFreeAccepted` follow the object;
`SizeClassExact` compares the arithmetic with the tables and depends on the
build only. `malloc_object_size` finds the slot from the pointer: for a pointer just
behind an object that fills its slot (which takes a build without canaries) that is
the slot of a neighbour, or of a slab yet to be used, and the call aborts unless the
neighbour is in use. `ObjectSizes` therefore takes the slots in use as a parameter, and
`RequestFits` promises an answer only for pointers into the object's own slot. All four are proved for every width and every size (section 11).

What the models show of the documents:

- `src/README.md:471` says of `malloc_object_size` that pointers within the first
  page of a large allocation give accurate values. `regions_find` compares the
  whole address, so every pointer but the first gives `SIZE_MAX` (`ObjectSizes`),
  which is still an upper bound.
- `src/README.md:642` describes the arena of a thread as random; `NextCounter` is
  a round robin.
- A request of 0 bytes with an alignment beyond a page fails with `ENOMEM`
  without `CONFIG_LARGE_SIZE_CLASSES`: `get_large_size_class(0)` is 0, which means
  overflow.
- With `CONFIG_LARGE_SIZE_CLASSES` a region of 4097 to 16384 bytes, which only an
  alignment beyond a page asks for, has a class size such as 5120 that is not a
  multiple of the page size; the mapping is rounded up, the recorded size is not.

## 10. Runs

| Run | Instance | What it shows |
|---|---|---|
| `slab_lists` | 5 slabs of 2 slots, guard every 2, no slot quarantine, free slabs quarantine of 2, room for one cached slab | lists, pages, guards and statistics agree through growth, failures and trims |
| `slab_extended` | 5 slabs of 1 slot, both quarantine stages (1 + 2) | single-slot slabs, eviction order, the trim's purge in place |
| `slab_quarantine` | 4 slabs of 2 slots, stages 1 + 1, two canary values, one misusing pointer | checks exact, aborts only on misuse, zeroed memory, refinement of the pool |
| `region_shift` | 8 entries, 4 addresses, 2 sizes, hashes 0, 1, 7 | deletion around the wrap of the index, termination |
| `region_grow` | 8 growing to 16 entries, 8 addresses, hashes 0 and 8 | growth and its failure, spare array, exact counts, refinement |
| `large_threads` | 2 threads, 11 pages, sizes 1, 3, 4 around the thresholds, alignments 1 and 2, stages 1 + 1, failing mprotect, MAP_FIXED, mremap and insertions | no page has two users, guards, table, sealed quarantine, data and contents kept |
| `large_aligned` | 1 thread, 12 pages, alignments 1 and 4, everything fails | trims, moves and cleanups leak nothing |
| `large_trim_race` | 2 threads, 9 pages, alignment 4, failing trims | refuted, see the finding above |
| `init_fork` | 2 threads, 2 arenas of 2 classes, 4 calls | one initialisation, `ro` protected, no lock left behind, every call returns |
| `random_state` | initialisation state and 2 more, 4 calls of getrandom | no keystream byte twice, exact range reduction |
| `slab_slots` | 3 to 8 slots, words of 2 bits; up to 3 tagged slots, 5 tags | search, tags, canaries |
| `heap_api` | 1 object, 23 sizes, 7 alignments, all 16 builds | sizes, contents, sized frees, size classes |

No run has class 0 (`ZeroClass = TRUE`): that its slots never become accessible is
part of `PagesMatchUse`, whose theorem covers both values of `ZeroClass`.

Why the bounds are enough to be interesting. Five slabs give a list with a
head, a middle and a tail while another slab moves and guards are skipped;
`InitMetadata = 2` makes the metadata grow, cap and meet a guard at its end.
`MaxEmptyTotal` of one slab makes both branches of the empty limit happen. In
`region_shift`, homes 0, 1 and 7 make runs that cross the bottom of the table in
both directions. In `region_grow` all eight addresses collide before the growth
and split into two runs after it; the growth is triggered by the last one.

In `large_threads` a move of three pages leaves a hole between two guards in which
another thread's allocation fits before the guards are unmapped. In `init_fork`
two threads and four calls are enough for any two of an initialisation, a fork,
a `malloc_disable` and a switch of tagging to meet with an allocation before or
after; two classes and two arenas give `full_lock` five locks to interleave with.
In `random_state` four keys allow for a reseed and a fork in either order. Threads are
interchangeable, so the two-thread runs use symmetry.

Bounds named in the modules: `MaxDirty` (slots holding data at one time),
`MaxMisuse` (pointers the program misuses), `LowestFirst` (mmap returns the
lowest address not in the table: addresses are interchangeable since every
hash is considered), `Used` (the addresses that are looked up or freed),
`Failing` (the calls that may fail), `MaxOwned` (allocations owned or asked for),
`MaxOps` (calls made), `MaxKeys` (calls of getrandom) and `TaggedMax` (slots of a
tagged slab).

Each property of each run has a mutant, an operator beside the definition that it
mutates (`Faulty...`, or a name that says what is missing): a plausible bug with
which TLC finds the property violated.

## 11. Proofs

What is proved holds for every value of the constants that the assumption of the
module admits. No property is inductive on its own; each module has an inductive
invariant, which TLC checked on the instances of section 10 before the proof.
The proof that it is kept has a lemma for each action.

### Size class

For every number of slabs, slots, quarantine cells and guard interval, under
`SlabClassAssumption`: the constants have their types, the write after free check
implies zeroing (a `static_assert` of the code) and the first page of metadata
holds at least two slabs (it holds dozens). The invariant is built in layers, the
first two in `SlabClassProofs`, the others in `SlabMemoryProofs`, which extends it:

1. `Inv1`: types, the bitmaps against ownership (`SlotInv`) and
   the quarantine cells, whose contents are distinct, quarantined, and all
   there is (`CellInv`). Yields `SlotAccounting` and the refinement of
   `SlotPool`: a slot from the bitmap search is not owned *because* owned and
   quarantined slots are exactly the used ones.
   A second invariant on top, `AgeInv`, says that the slot in a cell of the queue
   is at least as old, in frees, as the number of pushes since that cell was
   written, and one more when it came through the random stage. It yields
   `QuarantineDelay`: the cell overwritten next is the oldest one.
2. `Inv2`: where each list's neighbours are (`PlaceInv`,
   `PartialInv`, `EmptyInv`, `FreeInv`, `FreeQuarInv`) and how `metadata_count`
   relates to the slabs used (`GuardInv`). That a list's head is a slab of the
   right kind, and its links lead to slabs of that kind, is local and
   inductive; it yields `PagesMatchUse` and `GuardsStay`.
3. `Inv3`: canaries of owned slots (`CanaryInv`) and which
   slots may be dirty (`DirtyInv`). Yields `FreeChecksExact`, `AbortsJustified`,
   `FreshMemoryZero`, `DataKept`.
4. `Inv4`: the counters as cardinalities (`Sums`). Yields
   `StatsExact` and, since unsigned counters then never go below zero, `TypeOK`.
5. `Inv5`: each list is one chain (`ChainInv`). That links stay among the slabs of
   their kind does not exclude a cycle beside the list, whose slabs would be lost;
   `Chained` does, without induction along the list: every slab but the head has
   a predecessor, and some numbering of the slabs grows along the links. Going
   back from a slab, the numbers fall, so the head is reached (`ChainVisits`, by
   the least element of a set of numbers). Each change of a list is one of five
   (push, pop, append, unlink, another list's), with a new numbering for each.
   Yields `ListsExact`.

### Large allocations

`LargeAllocProofs`, for every address space, set of threads, sizes, alignments,
guards, quarantine lengths and set of failing calls. One hypothesis is stated in
every theorem: `NoTrimRace`, that trims can be unmapped or that there is one thread.
Without it the claim is false, which is what the run `large_trim_race` shows.

`Space` says of each page who may use it: an allocation, one call (`Mine`, what a
call holds as a function of its local variables), a cell of the quarantine, or
nobody; and what is at the page in each case. `RangesApart` alone is not
inductive since whether `Insert` hands out a range of its own depends on what the
same thread trimmed before. Since a call's pages are a function of its local
variables, every step is described by the allocations it takes from and gives to
the program and the pages it maps (`Turn`), and one lemma about such turns
serves all actions, with the interference of other threads in it once.
`RangesApart`, `MappedExactly`, `OwnedIntact`, `QuarantineSealed`, `DataKept` and
`ContentsKept` follow. `Table` adds the entries of calls in progress to the region
table, and yields `TableExact` and `TypeOK`.

### Region table

`RegionTableProofs`, for every initial and maximal size, set of addresses and hash
function. `RegionTableAssumption` asks for an initial size of a power of two beyond 4.
The invariant `TableInv` follows the loops: what the probe of an insertion, a
search or a rehash has passed (`Reaches`, `Seeks`), which entries the new array of a
growth has already (`Copied`), and, in a deletion, that only the hole breaks probes
and none to an entry that has been scanned (`Shifting`). The key lemma,
`StaysExact`, is that the cyclic comparison in `regions_delete` is true exactly when
no probe for the entry passes the hole. `FreeCountExact`, `ArraysReady`,
`ProbesUnbroken` and `TypeOK` follow, and the refinement `ImplementsMap`: every
iteration leaves the pairs in the table as they are but the ones that insert, clear
or resize an entry; a search that ends at an empty entry has proved the address
absent because no probe is broken; a growth switches to an array with the same
pairs.

### Initialisation, locks and fork

`InitForkProofs`, for every number of threads, arenas, classes and calls. `ForkInv`
says of each place in the code what has to be true for a thread to be there
(`Placed`: which locks are left on its list, how far the initialisation is, what
call it is in), that one thread initialises, and that a thread owns what its place
says it holds (`Owned`, the converse of `LocksAccounted`, without which an unlock
could free another thread's lock). It yields `InitOnce`, `LocksAccounted` and
`ReadOnlyAfterInit`. Fork is where it earns its keep: the child keeps one thread and
all locks, and the invariant holds of it because that thread holds them all, or
because the locks it does not hold belong to nobody in it and `early` is set.

### Slots and tags

`SlabSlotsProofs`, for every width of a word, every number of slots that four
words hold, and every number of tags beyond 4. `SearchFinds` is the heart of
`SearchExact`: the rounds of the search are numbered, a free slot behind the random
one comes up in a round before the wrap and another one after it, and the first
round that leaves a bit is the least of them. `TagsPacked` is that a packed array
returns what was set and keeps the half it shares a byte with. The invariant
`SlabInv` then has the array agree with the last pointers, and neighbours differ,
for slots in use or not; it yields `OverflowCaught`, `DanglingCaught` and
`NoFalseAbort`, the latter from canaries being the slab's or never written.

### Random numbers

`RandomStateProofs`, for every number of states and of keys and all sizes of cache,
block, seed and values. `RandomAssumption` keeps the proportions of the code: a cache
is filled by whole blocks, reseeding comes after whole caches, values are no larger
than a cache, and a seed (40 bytes) is at most half of one (256), which is why seeding
never takes the path of `get_random_bytes` around the cache.

`RandomInv` says that a seeded state has served what its counter says under its key,
that the rest of the cache is the last of it (`Good`), that the last byte each state
returned is behind the ones that it will return (`SpentBehind`), and that no two
states, nor a child and its parent, have the same key (`KeysApart`). A draw is
described once (`Drawn`), whichever way it goes around a refill. `FreshBytes` follows.

`RangesUniform` is Lemire's argument for every number of values of a word: the
products that are kept for one result are an interval of numbers with as many
multiples of the bound as for any other, because the threshold is the remainder of
the number of values. It yields `UniformExact`.

### Size classes and interface

`HeapApiProofs`, for every width of a `size_t` from 20 to 64 bits, and so for the real
one, and all sets of sizes, counts and alignments (up to 2^16, as far as `BadAlignment`
enumerates the powers of two). `PowerAssumption` states that powers of two double,
which the provers do not know; TLC evaluates it like every assumption.

The first half is arithmetic. `Between` names what `get_size_info` computes: a size
lies between q - 1 and q quarters of 2^k, q from 5 to 8. `Rounding` says what
this makes of every size up to `SIZE_MAX` (it fits, is rounded to itself, wastes less
than a fifth, or has wrapped to 0); `ClassInTable` that the same k and q are the index of
the entry in the table; `AlignedClass` and `SlotAlignment` that the classes of
`get_size_info_align` are multiples of the alignment and that slots of such a class
are aligned.

`HeapInv` then says that the object's class or region size is the one that its
request, with its canary, and its alignment give. This is not obvious after a realloc
in place, after a shrink of a region, or for a size that the canary moves beyond the
largest slab class, and it is what a sized free relies on. It also says that a call
of `operator new` that waits for memory holds no object. `RequestFits` and
`SizedFreeAccepted` follow from it. `ContentsKept` is proved with the
steps: `MovesFit` covers the four ways realloc has, and `CopyFits` is the arithmetic of
`copy_size` (with the canary taken off, it is at least the smaller request and at most
both usable sizes). `SizeClassExact` follows for every build, with the slots of each
slab compared class by class, and `EveryRequestRounded` states its first and last part
for every request, where the run evaluates the ones around each class.

### Only model-checked

Liveness (`OperationsReturn`, `CallsReturn`) is out of the prover's reach.

## 12. Not modelled

The ChaCha block function (arithmetic checked by test vectors; its keying and
block counter are in `RandomState`), the instruction sequence that tags a range
of memory, `libdivide` (vendored), memory labels, `errno`, the formatting of
`malloc_info`, handlers of `operator new` that throw anything but `bad_alloc`, and
metadata sealing with protection keys (per-thread register state that nothing
else depends on). The system call wrappers are pure I/O; what they can return is
a nondeterministic choice where they are called. `h_mallopt`, `h_malloc_iterate`,
`h_malloc_get_state` and `h_malloc_set_state` change no state of the allocator.

The modules are checked each for itself. What one assumes of another is small
and is what the other's properties say: `SlabClass` draws from the set that
`SearchExact` is about, `LargeAlloc` uses the map that `RegionTable` is shown to
implement, `HeapApi` any allocator that returns slots of the right class or
fails, and all of them sections under locks that `InitFork` hands out.

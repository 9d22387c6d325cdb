----------------------------- MODULE SlabClass -----------------------------
(***************************************************************************)
(* One slab size class of one arena (struct size_class and the metadata of *)
(* its slabs): allocate_small, deallocate_small, enqueue_free_slab,        *)
(* alloc_metadata, the malloc_usable_size check and the per-class part of  *)
(* h_malloc_trim.                                                          *)
(*                                                                         *)
(* Every operation runs with c->lock held from its first read of the class *)
(* to its last write, so an operation is one action.  The exception is the *)
(* trim, whose loop is unbounded: it takes one step per slab, and the      *)
(* other operations wait (Available) while it holds the lock.              *)
(*                                                                         *)
(* The lists are the intrusive lists of the code: next and prev live in    *)
(* the metadata of a slab and are shared by the partial, empty and free    *)
(* lists, so a slab linked into two lists would corrupt both.              *)
(***************************************************************************)
EXTENDS Integers, FiniteSets

CONSTANTS
  Slots,          \* slots of a slab (c->slots)
  SlotSize,       \* bytes of a slot (c->size)
  SlabSize,       \* bytes of a slab (c->slab_size)
  MetadataMax,    \* slabs in the class region (get_metadata_max)
  InitMetadata,   \* PAGE_SIZE / sizeof(struct slab_metadata)
  GuardInterval,  \* GUARD_SLABS_INTERVAL
  MaxEmptyTotal,  \* max_empty_slabs_total
  RandomLen,      \* cells of quarantine_random used by this class
  QueueLen,       \* cells of quarantine_queue used by this class
  FreeQuarLen,    \* FREE_SLABS_QUARANTINE_RANDOM_LENGTH
  ZeroClass,      \* this is size class 0, whose slots are never accessible
  ExtendedClass,  \* size >= min_extended_size_class
  SlotRandomize,  \* SLOT_RANDOMIZE
  ZeroOnFree,     \* ZERO_ON_FREE
  WriteAfterFreeCheck, \* WRITE_AFTER_FREE_CHECK
  CanaryValues,   \* the values get_random_u64 & canary_mask can take
  MaxDirty,       \* bound: slots that hold program data at one time
  MaxMisuse,      \* bound: pointers through which the program misbehaves
  NULL            \* the null pointer

Slabs == 0 .. MetadataMax - 1
SlotIdx == 0 .. Slots - 1
Ptr == Slabs \X SlotIdx

\* The contents of the canary word of a slot the program has overrun.
Smashed == -1

ASSUME SlabClassAssumption ==
  /\ Slots \in Nat \ {0} /\ SlotSize \in Nat /\ SlabSize \in Nat \ {0}
  /\ MetadataMax \in Nat \ {0}
  /\ InitMetadata \in Nat /\ InitMetadata >= 2
  /\ GuardInterval \in Nat \ {0}
  /\ MaxEmptyTotal \in Nat
  /\ RandomLen \in Nat /\ QueueLen \in Nat /\ FreeQuarLen \in Nat
  /\ {ZeroClass, ExtendedClass, SlotRandomize,
      ZeroOnFree, WriteAfterFreeCheck} \subseteq BOOLEAN
  /\ WriteAfterFreeCheck => ZeroOnFree
  /\ CanaryValues \subseteq Nat /\ CanaryValues # {}
  /\ MaxDirty \in Nat /\ MaxMisuse \in Nat
  /\ NULL \notin Slabs /\ NULL \notin Ptr

VARIABLES
  metadata_allocated, metadata_count, metadata_count_unguarded,
  bitmap,               \* used slots of each slab
  count,                \* the u16 beside the bitmap
  quarantine_bitmap,    \* freed slots still withheld from reuse
  next, prev,           \* list links in the metadata
  canary_value,
  partial_slabs, empty_slabs, empty_slabs_total,
  free_slabs_head, free_slabs_tail, free_slabs_quarantine,
  quarantine_random, quarantine_queue, quarantine_queue_index,
  allocated, slab_allocated,   \* CONFIG_STATS
  iterator,             \* h_malloc_trim's iterator while it holds the lock
  trimming,             \* whether h_malloc_trim holds the lock
  accessible,           \* slabs whose pages are mapped read-write
  dirty,                \* slots with a nonzero byte before the canary word
  tail,                 \* the canary word of every slot
  abort,                \* fatal_error: why, and what the pointer was
  live,                 \* history: pointers the program owns
  place,                \* history: the list a slab belongs to
  misused,              \* history: slots written outside of ownership
  age                   \* history: frees since a quarantined slot was freed

countVars == <<metadata_allocated, metadata_count, metadata_count_unguarded>>
slotVars == <<bitmap, count, quarantine_bitmap>>
quarantineVars == <<quarantine_random, quarantine_queue, quarantine_queue_index>>
freeListVars == <<free_slabs_head, free_slabs_tail, free_slabs_quarantine>>
emptyListVars == <<empty_slabs, empty_slabs_total>>
listVars == <<next, prev, partial_slabs, emptyListVars, freeListVars, place>>
trimVars == <<iterator, trimming>>
memoryVars == <<accessible, dirty, tail>>
statVars == <<allocated, slab_allocated>>
vars == <<countVars, slotVars, listVars, canary_value, quarantineVars, trimVars,
          statVars, memoryVars, abort, live, misused, age>>

NoAbort == [why |-> "none", owned |-> FALSE, misused |-> FALSE]
Running == abort = NoAbort

\* c->lock is free and the process has not been aborted.
Available == Running /\ ~trimming

SlotsOf(m) == {m} \X SlotIdx
Quarantined == {p \in Ptr : p[2] \in quarantine_bitmap[p[1]]}

Init ==
  /\ metadata_allocated = 0 /\ metadata_count = 0 /\ metadata_count_unguarded = 0
  /\ bitmap = [m \in Slabs |-> {}]
  /\ count = [m \in Slabs |-> 0]
  /\ quarantine_bitmap = [m \in Slabs |-> {}]
  /\ next = [m \in Slabs |-> NULL] /\ prev = [m \in Slabs |-> NULL]
  /\ canary_value = [m \in Slabs |-> 0]
  /\ partial_slabs = NULL /\ empty_slabs = NULL /\ empty_slabs_total = 0
  /\ free_slabs_head = NULL /\ free_slabs_tail = NULL
  /\ free_slabs_quarantine = [i \in 0 .. FreeQuarLen - 1 |-> NULL]
  /\ quarantine_random = [i \in 0 .. RandomLen - 1 |-> NULL]
  /\ quarantine_queue = [i \in 0 .. QueueLen - 1 |-> NULL]
  /\ quarantine_queue_index = 0
  /\ allocated = 0 /\ slab_allocated = 0
  /\ iterator = NULL /\ trimming = FALSE
  /\ accessible = {} /\ dirty = {} /\ tail = [p \in Ptr |-> 0]
  /\ abort = NoAbort
  /\ live = {} /\ misused = {}
  /\ place = [m \in Slabs |-> "unused"]
  /\ age = [p \in Ptr |-> 0]

\* fatal_error about pointer p; what p was is recorded for AbortsJustified.
Fatal(why, p) ==
  /\ abort' = [why |-> why, owned |-> p \in live, misused |-> p \in misused]
  /\ UNCHANGED <<countVars, slotVars, listVars, canary_value, quarantineVars,
                 trimVars, statVars, memoryVars, live, misused, age>>

-----------------------------------------------------------------------------
(* allocate_small *)

has_free_slots(m) == count[m] < Slots

\* A faulty search that looks at owned slots only and returns quarantined ones.
FaultyFreeSlot(m) == SlotIdx \ (bitmap[m] \ quarantine_bitmap[m])

\* The slots get_free_slot may return.  The random start index may be any
\* index, so with SLOT_RANDOMIZE every free slot is possible.
get_free_slot(m) ==
  LET free == SlotIdx \ bitmap[m]
  IN  {s \in free : SlotRandomize \/ \A t \in free : s <= t}

\* nmalloc and ndalloc, which only count up and may wrap, are left out.
stats_small_allocate == allocated' = allocated + SlotSize
stats_small_deallocate == allocated' = allocated - SlotSize
stats_slab_allocate == slab_allocated' = slab_allocated + SlabSize

\* A faulty trim or purge that leaves the slab statistics alone.
FaultySlabDeallocate == UNCHANGED slab_allocated
stats_slab_deallocate == slab_allocated' = slab_allocated - SlabSize

\* set_used_slot, set_canary and stats_small_allocate for a slot of slab m
\* whose canary is cv.
TakeSlot(m, s, cv) ==
  /\ bitmap' = [bitmap EXCEPT ![m] = @ \cup {s}]
  /\ count' = [count EXCEPT ![m] = @ + 1]
  /\ tail' = IF ZeroClass THEN tail ELSE [tail EXCEPT ![<<m, s>>] = cv]
  /\ stats_small_allocate
  /\ live' = live \cup {<<m, s>>}

FaultyWriteCheck(p) == TRUE
write_after_free_check(p) == ~ZeroClass /\ WriteAfterFreeCheck => p \notin dirty

\* A faulty start that lists a one-slot slab although it is full.
FaultyStartSlab(m) ==
  /\ partial_slabs' = m
  /\ place' = [place EXCEPT ![m] = "inuse"]

\* The slab becomes the partial list; it was linked nowhere else.
StartSlab(m) ==
  /\ partial_slabs' = IF Slots > 1 THEN m ELSE NULL
  /\ place' = [place EXCEPT ![m] = "inuse"]

\* memory_protect_rw of the slab; zero size requests skip it.
Unprotect(m) == accessible' = IF ZeroClass THEN accessible ELSE accessible \cup {m}

\* A cached empty slab is reused.
TakeEmptySlab(m, s) ==
  /\ empty_slabs' = next[m]
  /\ empty_slabs_total' = empty_slabs_total - SlabSize
  /\ next' = [next EXCEPT ![m] = NULL]
  /\ prev' = [prev EXCEPT ![m] = NULL]
  /\ StartSlab(m)
  /\ TakeSlot(m, s, canary_value[m])
  /\ UNCHANGED <<countVars, quarantine_bitmap, freeListVars, canary_value,
                 quarantineVars, trimVars, slab_allocated, accessible, dirty,
                 abort, misused, age>>

AllocateFromEmpty ==
  /\ Available /\ partial_slabs = NULL /\ empty_slabs # NULL
  /\ \E s \in get_free_slot(empty_slabs) :
       /\ write_after_free_check(<<empty_slabs, s>>)
       /\ TakeEmptySlab(empty_slabs, s)

\* The oldest free slab is given a new canary cv and unprotected.
TakeFreeSlab(m, s, cv) ==
  /\ free_slabs_head' = next[m]
  /\ free_slabs_tail' = IF next[m] = NULL THEN NULL ELSE free_slabs_tail
  /\ next' = [next EXCEPT ![m] = NULL]
  /\ prev' = [prev EXCEPT ![m] = NULL]
  /\ canary_value' = [canary_value EXCEPT ![m] = cv]
  /\ Unprotect(m)
  /\ StartSlab(m)
  /\ TakeSlot(m, s, cv)
  /\ stats_slab_allocate
  /\ UNCHANGED <<countVars, quarantine_bitmap, emptyListVars, free_slabs_quarantine,
                 quarantineVars, trimVars, dirty, abort, misused, age>>

NeedsFreeSlab ==
  Available /\ partial_slabs = NULL /\ empty_slabs = NULL /\ free_slabs_head # NULL

AllocateFromFree ==
  /\ NeedsFreeSlab
  /\ \E cv \in CanaryValues, s \in get_free_slot(free_slabs_head) :
       TakeFreeSlab(free_slabs_head, s, cv)

\* The kernel refuses to unprotect it: malloc returns NULL, and the canary of
\* the slab has changed.
FreeSlabProtectFails ==
  /\ NeedsFreeSlab /\ ~ZeroClass
  /\ \E cv \in CanaryValues :
       canary_value' = [canary_value EXCEPT ![free_slabs_head] = cv]
  /\ UNCHANGED <<countVars, slotVars, listVars, quarantineVars, trimVars,
                 statVars, memoryVars, abort, live, misused, age>>

\* A faulty growth that ignores the size of the class region.
FaultyGrownMetadata ==
  IF metadata_count < metadata_allocated THEN metadata_allocated
  ELSE IF 2 * metadata_allocated > InitMetadata THEN 2 * metadata_allocated
  ELSE InitMetadata

\* The metadata_allocated that alloc_metadata needs, or gets by growing.
GrownMetadata ==
  LET doubled == 2 * metadata_allocated
      wanted == IF doubled > InitMetadata THEN doubled ELSE InitMetadata
  IN  IF metadata_count < metadata_allocated THEN metadata_allocated
      ELSE IF wanted > MetadataMax THEN MetadataMax ELSE wanted

\* Whether the slab after the next one is skipped, to stay a guard.
FaultyGuardDue == metadata_count_unguarded + 1 > GuardInterval
GuardDue == metadata_count_unguarded + 1 >= GuardInterval

\* alloc_metadata: the next slab of the region is put into use, and one slab
\* in every GuardInterval is skipped and stays a guard.
TakeNewSlab(m, s, cv) ==
  /\ metadata_count' = metadata_count + (IF GuardDue THEN 2 ELSE 1)
  /\ metadata_count_unguarded' = IF GuardDue THEN 0 ELSE metadata_count_unguarded + 1
  /\ Unprotect(m)
  /\ canary_value' = [canary_value EXCEPT ![m] = cv]
  /\ StartSlab(m)
  /\ TakeSlot(m, s, cv)
  /\ stats_slab_allocate
  /\ UNCHANGED <<quarantine_bitmap, next, prev, emptyListVars, freeListVars,
                 quarantineVars, trimVars, dirty, abort, misused, age>>

NeedsNewSlab ==
  /\ Available /\ partial_slabs = NULL /\ empty_slabs = NULL /\ free_slabs_head = NULL
  /\ metadata_count < metadata_allocated \/ metadata_count < MetadataMax

AllocateFromNew ==
  /\ NeedsNewSlab
  /\ metadata_allocated' = GrownMetadata
  /\ \E cv \in CanaryValues, s \in get_free_slot(metadata_count) :
       TakeNewSlab(metadata_count, s, cv)

\* The kernel refuses to unprotect the slab, after the metadata has grown.
NewSlabProtectFails ==
  /\ NeedsNewSlab /\ ~ZeroClass
  /\ metadata_allocated' = GrownMetadata
  /\ UNCHANGED <<metadata_count, metadata_count_unguarded, slotVars, listVars,
                 canary_value, quarantineVars, trimVars, statVars, memoryVars,
                 abort, live, misused, age>>

\* The head of the partial list serves the request and leaves the list when
\* it becomes full.
TakePartialSlot(m, s) ==
  LET full == count[m] + 1 >= Slots IN
  /\ TakeSlot(m, s, canary_value[m])
  /\ partial_slabs' = IF full THEN next[m] ELSE m
  /\ prev' = IF full /\ next[m] # NULL THEN [prev EXCEPT ![next[m]] = NULL] ELSE prev
  /\ UNCHANGED <<countVars, quarantine_bitmap, next, emptyListVars, freeListVars,
                 place, canary_value, quarantineVars, trimVars, slab_allocated,
                 accessible, dirty, abort, misused, age>>

AllocateFromPartial ==
  /\ Available /\ partial_slabs # NULL
  /\ \E s \in get_free_slot(partial_slabs) :
       /\ write_after_free_check(<<partial_slabs, s>>)
       /\ TakePartialSlot(partial_slabs, s)

\* The slot found in a partial or cached slab is not zero.
AllocateAborts ==
  LET m == IF partial_slabs # NULL THEN partial_slabs ELSE empty_slabs IN
  /\ Available /\ m # NULL
  /\ \E s \in get_free_slot(m) :
       /\ ~write_after_free_check(<<m, s>>)
       /\ Fatal("write after free", <<m, s>>)

-----------------------------------------------------------------------------
(* deallocate_small *)

\* The checks of deallocate_small on a pointer to slot s of slab m, in order.
\* Callers may pass slab and slot indices that are out of range.
CheckFree(m, s, aligned, sizeMatches) ==
  CASE ~sizeMatches -> "sized deallocation mismatch"
    [] sizeMatches /\ m >= metadata_allocated -> "invalid free"
    [] sizeMatches /\ m < metadata_allocated /\ ~aligned -> "unaligned free"
    [] OTHER ->
         IF s \notin bitmap[m] THEN "double free"
         ELSE IF ~ZeroClass /\ tail[<<m, s>>] # canary_value[m] THEN "canary corrupted"
         ELSE IF s \in quarantine_bitmap[m] THEN "double free (quarantine)"
         ELSE "ok"

DeallocateAborts(m, s, aligned, sizeMatches) ==
  /\ Available
  /\ CheckFree(m, s, aligned, sizeMatches) # "ok"
  /\ Fatal(CheckFree(m, s, aligned, sizeMatches),
           IF sizeMatches /\ aligned THEN <<m, s>> ELSE NULL)

\* memory_corruption_check_small, the check behind malloc_usable_size, does
\* not look at the size but makes the other checks in the same order.
UsableSizeAborts(m, s, aligned) ==
  /\ Available
  /\ CheckFree(m, s, aligned, TRUE) # "ok"
  /\ Fatal("invalid malloc_usable_size", IF aligned THEN <<m, s>> ELSE NULL)

\* The two quarantine stages.  RandomOut is what the random array gives up
\* for p; QueueOut is what the ring buffer gives up for q.  A stage of length
\* zero is not compiled in and passes its input on.
RandomCells == IF RandomLen = 0 THEN {0} ELSE 0 .. RandomLen - 1
RandomOut(p, i) == IF RandomLen = 0 THEN p ELSE quarantine_random[i]
FaultyQueueOut(q) == q
QueueOut(q) == IF QueueLen = 0 THEN q ELSE quarantine_queue[quarantine_queue_index]

\* A faulty stage that forgets the slot it was given.
FaultyPutRandom(p, i) == UNCHANGED quarantine_random
PutRandom(p, i) ==
  quarantine_random' = IF RandomLen = 0 THEN quarantine_random
                       ELSE [quarantine_random EXCEPT ![i] = p]

PutQueue(q) ==
  IF QueueLen = 0 THEN UNCHANGED <<quarantine_queue, quarantine_queue_index>>
  ELSE /\ quarantine_queue' = [quarantine_queue EXCEPT ![quarantine_queue_index] = q]
       /\ quarantine_queue_index' =
            IF quarantine_queue_index + 1 < QueueLen THEN quarantine_queue_index + 1 ELSE 0

SlabQuarantine == RandomLen > 0 \/ QueueLen > 0

\* What every accepted free does before the quarantine stages.
AcceptFree(p) ==
  /\ Available
  /\ p \in Ptr
  /\ CheckFree(p[1], p[2], TRUE, TRUE) = "ok"
  /\ stats_small_deallocate
  /\ live' = live \ {p}

\* memset(p, 0, size - canary_size)
FaultyZeroedOnFree(p) == dirty
ZeroedOnFree(p) == IF ~ZeroClass /\ ZeroOnFree THEN dirty \ {p} ELSE dirty

\* Bookkeeping for the reuse distance: every accepted free ages the
\* quarantined slots, up to the bound that QuarantineDelay asks about.
ReuseDistance == QueueLen + (IF RandomLen > 0 THEN 1 ELSE 0)
AgeOthers(p, released) ==
  age' = [q \in Ptr |-> IF q \in Quarantined /\ q # released /\ age[q] + 1 < ReuseDistance
                        THEN age[q] + 1
                        ELSE IF q = released THEN 0 ELSE age[q]]

FaultySetQuarantined(p) == quarantine_bitmap
SetQuarantined(p) ==
  IF SlabQuarantine THEN [quarantine_bitmap EXCEPT ![p[1]] = @ \cup {p[2]}]
  ELSE quarantine_bitmap

\* The freed slot fits into an unused cell of a quarantine stage: no slot
\* becomes reusable.
DeallocateHeld(p) ==
  /\ AcceptFree(p)
  /\ quarantine_bitmap' = SetQuarantined(p)
  /\ dirty' = ZeroedOnFree(p)
  /\ \E i \in RandomCells :
       /\ PutRandom(p, i)
       /\ \/ /\ RandomOut(p, i) = NULL
             /\ UNCHANGED <<quarantine_queue, quarantine_queue_index>>
          \/ /\ RandomOut(p, i) # NULL /\ QueueOut(RandomOut(p, i)) = NULL
             /\ PutQueue(RandomOut(p, i))
  /\ AgeOthers(p, NULL)
  /\ UNCHANGED <<countVars, bitmap, count, listVars, canary_value, trimVars,
                 slab_allocated, accessible, tail, abort, misused>>

\* The freed slot p displaces r, whose slot becomes reusable.
Displace(p, r) ==
  /\ AcceptFree(p)
  /\ \E i \in RandomCells :
       /\ PutRandom(p, i)
       /\ RandomOut(p, i) # NULL /\ QueueOut(RandomOut(p, i)) = r
       /\ PutQueue(RandomOut(p, i))
  /\ r # NULL
  /\ quarantine_bitmap' = IF SlabQuarantine
                          THEN [SetQuarantined(p) EXCEPT ![r[1]] = @ \ {r[2]}]
                          ELSE quarantine_bitmap
  /\ bitmap' = [bitmap EXCEPT ![r[1]] = @ \ {r[2]}]
  /\ count' = [count EXCEPT ![r[1]] = @ - 1]
  /\ AgeOthers(p, r)
  /\ UNCHANGED <<countVars, canary_value, trimVars, abort, misused>>

\* The partial list after a full slab m is pushed on it (lines 904-912); a
\* slab that is not full is already in the list.
PushedNext(m) == IF has_free_slots(m) THEN next ELSE [next EXCEPT ![m] = partial_slabs]
PushedPrev(m) ==
  IF has_free_slots(m) THEN prev
  ELSE [x \in Slabs |-> CASE x = m -> NULL
                          [] x # m /\ x = partial_slabs -> m
                          [] OTHER -> prev[x]]
PushedHead(m) == IF has_free_slots(m) THEN partial_slabs ELSE m

\* A slot is released and its slab keeps other used slots.
DeallocateRelease(p, r) ==
  /\ Displace(p, r)
  /\ count[r[1]] > 1
  /\ next' = PushedNext(r[1]) /\ prev' = PushedPrev(r[1])
  /\ partial_slabs' = PushedHead(r[1])
  /\ dirty' = ZeroedOnFree(p)
  /\ UNCHANGED <<emptyListVars, freeListVars, place, slab_allocated, accessible, tail>>

\* The links after slab m has been pushed if full and then unlinked (lines
\* 917-926), and the head of the partial list.
UnlinkedNext(m) ==
  LET nx == PushedNext(m)
      pv == PushedPrev(m)
  IN  IF pv[m] # NULL THEN [nx EXCEPT ![pv[m]] = nx[m]] ELSE nx
UnlinkedPrev(m) ==
  LET nx == PushedNext(m)
      pv == PushedPrev(m)
  IN  [x \in Slabs |-> CASE x = m -> NULL
                         [] x # m /\ x = nx[m] -> pv[m]
                         [] OTHER -> pv[x]]
FaultyUnlinkedHead(m) == PushedHead(m)
UnlinkedHead(m) == IF PushedPrev(m)[m] # NULL THEN PushedHead(m) ELSE PushedNext(m)[m]

\* enqueue_free_slab with nx as the links: the slab goes into the free slabs
\* quarantine, and what it displaces joins the tail of the FIFO.
EnqueueFreeSlab(m, nx) ==
  LET cleared == [nx EXCEPT ![m] = NULL]
  IN
  \E i \in (IF FreeQuarLen = 0 THEN {0} ELSE 0 .. FreeQuarLen - 1) :
    LET substitute == IF FreeQuarLen = 0 THEN m ELSE free_slabs_quarantine[i]
    IN
    /\ free_slabs_quarantine' =
         IF FreeQuarLen = 0 THEN free_slabs_quarantine
         ELSE [free_slabs_quarantine EXCEPT ![i] = m]
    /\ IF substitute = NULL
       THEN /\ next' = cleared
            /\ place' = [place EXCEPT ![m] = "quarantine"]
            /\ UNCHANGED <<free_slabs_head, free_slabs_tail>>
       ELSE /\ next' = IF free_slabs_tail = NULL THEN cleared
                       ELSE [cleared EXCEPT ![free_slabs_tail] = substitute]
            /\ free_slabs_head' = IF free_slabs_tail = NULL THEN substitute
                                  ELSE free_slabs_head
            /\ free_slabs_tail' = substitute
            /\ place' = [[place EXCEPT ![m] = "quarantine"] EXCEPT ![substitute] = "free"]

\* A faulty purge that leaves the pages mapped read-write.
FaultyMapFixed(m, keepDirty) ==
  /\ accessible' = accessible
  /\ dirty' = keepDirty \ SlotsOf(m)
  /\ tail' = [p \in Ptr |-> IF p[1] = m THEN 0 ELSE tail[p]]

\* memory_map_fixed: fresh PROT_NONE pages over the slab.
MapFixed(m, keepDirty) ==
  /\ accessible' = accessible \ {m}
  /\ dirty' = keepDirty \ SlotsOf(m)
  /\ tail' = [p \in Ptr |-> IF p[1] = m THEN 0 ELSE tail[p]]

\* memory_purge: the pages read as zero afterwards, unless madvise fails,
\* which the callers ignore.
Purge(m, keepDirty) ==
  /\ accessible' = accessible
  /\ \/ /\ dirty' = keepDirty \ SlotsOf(m)
        /\ tail' = [p \in Ptr |-> IF p[1] = m THEN 0 ELSE tail[p]]
     \/ /\ dirty' = keepDirty /\ tail' = tail

OverEmptyLimit == empty_slabs_total + SlabSize > MaxEmptyTotal

\* The last used slot of a slab is released: the slab leaves the partial list.
EmptySlab(p, r) ==
  /\ Displace(p, r)
  /\ count[r[1]] = 1
  /\ prev' = UnlinkedPrev(r[1])
  /\ partial_slabs' = UnlinkedHead(r[1])

\* The cache of empty slabs is at its limit, so the slab goes back to the
\* kernel.
DeallocateFreesSlab(p, r) ==
  /\ EmptySlab(p, r)
  /\ OverEmptyLimit
  /\ MapFixed(r[1], ZeroedOnFree(p))
  /\ stats_slab_deallocate
  /\ EnqueueFreeSlab(r[1], UnlinkedNext(r[1]))
  /\ UNCHANGED emptyListVars

\* The slab is cached: the cache has room, or memory_map_fixed failed and the
\* slab is purged and cached beyond the limit.
DeallocateCachesSlab(p, r) ==
  /\ EmptySlab(p, r)
  /\ IF OverEmptyLimit THEN Purge(r[1], ZeroedOnFree(p))
     ELSE dirty' = ZeroedOnFree(p) /\ UNCHANGED <<accessible, tail>>
  /\ next' = [UnlinkedNext(r[1]) EXCEPT ![r[1]] = empty_slabs]
  /\ empty_slabs' = r[1]
  /\ empty_slabs_total' = empty_slabs_total + SlabSize
  /\ place' = [place EXCEPT ![r[1]] = "empty"]
  /\ UNCHANGED <<freeListVars, slab_allocated>>

-----------------------------------------------------------------------------
(* h_malloc_trim, for this class *)

TrimStart ==
  /\ Available /\ ~ZeroClass
  /\ trimming' = TRUE
  /\ iterator' = empty_slabs
  /\ UNCHANGED <<countVars, slotVars, listVars, canary_value, quarantineVars,
                 statVars, memoryVars, abort, live, misused, age>>

\* One turn of the loop; c->empty_slabs is stale until TrimEnd.
TrimSlab ==
  /\ Running /\ trimming /\ iterator # NULL
  /\ MapFixed(iterator, dirty)
  /\ stats_slab_deallocate
  /\ iterator' = next[iterator]
  /\ empty_slabs_total' = empty_slabs_total - SlabSize
  /\ EnqueueFreeSlab(iterator, next)
  /\ UNCHANGED <<countVars, slotVars, prev, partial_slabs, empty_slabs, canary_value,
                 quarantineVars, trimming, allocated, abort, live, misused, age>>

\* A faulty trim that purges whatever the bitmap marks as used.
FaultyTrimmedSlots == {p \in Ptr : p[2] \in bitmap[p[1]]}

\* The slots whose pages the trim purges: extended classes only.
TrimmedSlots ==
  IF SlabQuarantine /\ ExtendedClass
  THEN {p \in Ptr : \/ \E i \in 0 .. RandomLen - 1 : quarantine_random[i] = p
                    \/ \E i \in 0 .. QueueLen - 1 : quarantine_queue[i] = p}
  ELSE {}

\* The loop ends with an exhausted list, or early because memory_map_fixed
\* failed; then any of the purges of quarantined slots may fail unnoticed.
TrimEnd ==
  /\ Running /\ trimming
  /\ empty_slabs' = iterator
  /\ trimming' = FALSE
  /\ iterator' = NULL
  /\ \E purged \in SUBSET TrimmedSlots :
       /\ dirty' = dirty \ purged
       /\ tail' = [p \in Ptr |-> IF p \in purged THEN 0 ELSE tail[p]]
  /\ UNCHANGED <<countVars, slotVars, next, prev, partial_slabs, empty_slabs_total,
                 freeListVars, place, canary_value, quarantineVars, statVars,
                 accessible, abort, live, misused, age>>

-----------------------------------------------------------------------------
(* The program *)

\* The program writes to memory it owns.
Write(p) ==
  /\ Running /\ p \in live /\ p[1] \in accessible
  /\ Cardinality(dirty \cup {p}) <= MaxDirty
  /\ dirty' = dirty \cup {p}
  /\ UNCHANGED <<countVars, slotVars, listVars, canary_value, quarantineVars,
                 trimVars, statVars, accessible, tail, abort, live, misused, age>>

\* The program writes to a slot it does not own.  Only pages that are mapped
\* read-write can be written.
StrayWrite(p) ==
  /\ Running /\ p \in Ptr \ live /\ p[1] \in accessible
  /\ Cardinality(misused \cup {p}) <= MaxMisuse
  /\ dirty' = dirty \cup {p}
  /\ misused' = misused \cup {p}
  /\ UNCHANGED <<countVars, slotVars, listVars, canary_value, quarantineVars,
                 trimVars, statVars, accessible, tail, abort, live, age>>

\* The program writes past the end of its slot, into the canary word.
Overflow(p) ==
  /\ Running /\ p \in live /\ p[1] \in accessible
  /\ Cardinality(misused \cup {p}) <= MaxMisuse
  /\ tail' = [tail EXCEPT ![p] = Smashed]
  /\ misused' = misused \cup {p}
  /\ UNCHANGED <<countVars, slotVars, listVars, canary_value, quarantineVars,
                 trimVars, statVars, accessible, dirty, abort, live, age>>

-----------------------------------------------------------------------------
\* Pointers a caller can pass: real slots, a slab past the end of the class
\* region and the slack after the last slot of a slab.
InputSlabs == 0 .. MetadataMax
InputSlots == 0 .. Slots

Next ==
  \/ AllocateFromPartial \/ AllocateFromEmpty \/ AllocateFromFree \/ AllocateFromNew
  \/ FreeSlabProtectFails \/ NewSlabProtectFails \/ AllocateAborts
  \/ \E m \in InputSlabs, s \in InputSlots, aligned, sizeMatches \in BOOLEAN :
       DeallocateAborts(m, s, aligned, sizeMatches)
  \/ \E m \in InputSlabs, s \in InputSlots, aligned \in BOOLEAN :
       UsableSizeAborts(m, s, aligned)
  \/ \E p \in Ptr : DeallocateHeld(p)
  \/ \E p, r \in Ptr : \/ DeallocateRelease(p, r) \/ DeallocateFreesSlab(p, r)
                       \/ DeallocateCachesSlab(p, r)
  \/ TrimStart \/ TrimSlab \/ TrimEnd
  \/ \E p \in Ptr : Write(p) \/ StrayWrite(p) \/ Overflow(p)

Spec == Init /\ [][Next]_vars
-----------------------------------------------------------------------------
(* Properties *)

TypedCounts ==
  /\ metadata_allocated \in 0 .. MetadataMax
  /\ metadata_count \in 0 .. MetadataMax + 1
  /\ metadata_count_unguarded \in 0 .. GuardInterval - 1

TypedSlots ==
  /\ bitmap \in [Slabs -> SUBSET SlotIdx]
  /\ count \in [Slabs -> 0 .. Slots]
  /\ quarantine_bitmap \in [Slabs -> SUBSET SlotIdx]
  /\ live \in SUBSET Ptr
  /\ allocated \in Int

TypedLists ==
  /\ next \in [Slabs -> Slabs \cup {NULL}]
  /\ prev \in [Slabs -> Slabs \cup {NULL}]
  /\ partial_slabs \in Slabs \cup {NULL}
  /\ empty_slabs \in Slabs \cup {NULL}
  /\ free_slabs_head \in Slabs \cup {NULL}
  /\ free_slabs_tail \in Slabs \cup {NULL}
  /\ free_slabs_quarantine \in [0 .. FreeQuarLen - 1 -> Slabs \cup {NULL}]
  /\ place \in [Slabs -> {"unused", "inuse", "empty", "free", "quarantine"}]
  /\ iterator \in Slabs \cup {NULL} /\ trimming \in BOOLEAN
  /\ empty_slabs_total \in Int /\ slab_allocated \in Int

TypedCells ==
  /\ quarantine_random \in [0 .. RandomLen - 1 -> Ptr \cup {NULL}]
  /\ quarantine_queue \in [0 .. QueueLen - 1 -> Ptr \cup {NULL}]
  /\ quarantine_queue_index \in (IF QueueLen = 0 THEN {0} ELSE 0 .. QueueLen - 1)
  /\ age \in [Ptr -> Nat]

TypedMemory ==
  /\ canary_value \in [Slabs -> CanaryValues \cup {0}]
  /\ accessible \in SUBSET Slabs /\ dirty \in SUBSET Ptr
  /\ tail \in [Ptr -> CanaryValues \cup {0, Smashed}]
  /\ misused \in SUBSET Ptr

Typed == TypedCounts /\ TypedSlots /\ TypedLists /\ TypedCells /\ TypedMemory

\* Every variable has its type; the byte counts, which are size_t in the
\* code, never drop below zero, and the slot count of a slab (a u16) stays
\* between zero and the slots it has.
TypeOK == Typed /\ {empty_slabs_total, allocated, slab_allocated} \subseteq Nat

\* The cells of both quarantine stages.
RandomHolds(p) == {i \in 0 .. RandomLen - 1 : quarantine_random[i] = p}
QueueHolds(p) == {i \in 0 .. QueueLen - 1 : quarantine_queue[i] = p}

\* deallocate_small and memory_corruption_check_small tell the pointers the
\* program owns from all others, whatever sequence of frees, quarantine
\* evictions, slab recycling and trims came before.
FreeChecksExact ==
  Available =>
    \A m \in InputSlabs, s \in InputSlots :
      LET ok == CheckFree(m, s, TRUE, TRUE) = "ok"
      IN  /\ ok => <<m, s>> \in live
          /\ <<m, s>> \in live \ misused => ok

\* A slot is marked used exactly while the program owns it or the quarantine
\* holds it, count agrees with the bitmap, and a quarantined slot sits in
\* exactly one cell of the two quarantine stages.
SlotAccounting ==
  /\ \A m \in Slabs : count[m] = Cardinality(bitmap[m])
  /\ live \cap Quarantined = {}
  /\ \A p \in Ptr : p[2] \in bitmap[p[1]] <=> p \in live \cup Quarantined
  /\ \A p \in Ptr : Cardinality(RandomHolds(p)) + Cardinality(QueueHolds(p))
                      = IF p \in Quarantined THEN 1 ELSE 0

\* The chain of next pointers from h, as long as the slabs allow.
Chain(h) ==
  LET f[k \in 0 .. MetadataMax] ==
        IF k = 0 THEN h ELSE IF f[k-1] = NULL THEN NULL ELSE next[f[k-1]]
  IN  f
Acyclic(h) == Chain(h)[MetadataMax] = NULL
Members(h) == {Chain(h)[k] : k \in 0 .. MetadataMax} \ {NULL}
InPlace(where) == {m \in Slabs : place[m] = where}

\* The head of the list of cached empty slabs; the trim keeps it in iterator.
EmptyHead == IF trimming THEN iterator ELSE empty_slabs

\* No slab is lost or linked twice: the partial list holds exactly the slabs
\* with used and unused slots and is doubly linked; the empty list, the FIFO
\* of free slabs and the free slabs quarantine hold exactly the unused slabs
\* that were once in use, each in one of them.
ListsExact ==
  /\ \A h \in {partial_slabs, EmptyHead, free_slabs_head} : Acyclic(h)
  /\ Members(partial_slabs) = {m \in Slabs : 0 < count[m] /\ count[m] < Slots}
  /\ \A m \in Members(partial_slabs) :
       prev[m] = IF m = partial_slabs THEN NULL
                 ELSE CHOOSE x \in Members(partial_slabs) : next[x] = m
  /\ Members(EmptyHead) = InPlace("empty")
  /\ Members(free_slabs_head) = InPlace("free")
  /\ free_slabs_tail = IF free_slabs_head = NULL THEN NULL
                       ELSE CHOOSE m \in Members(free_slabs_head) : next[m] = NULL
  /\ \A i, j \in 0 .. FreeQuarLen - 1 :
       i # j /\ free_slabs_quarantine[i] # NULL
         => free_slabs_quarantine[i] # free_slabs_quarantine[j]
  /\ {free_slabs_quarantine[i] : i \in 0 .. FreeQuarLen - 1} \ {NULL}
       = InPlace("quarantine")
  /\ \A m \in Slabs : place[m] = "inuse" <=> count[m] > 0
  /\ empty_slabs_total = SlabSize * Cardinality(InPlace("empty"))

\* The pages of a slab are accessible exactly while the slab holds used slots
\* or is cached empty; slots of size class 0 are never accessible.
PagesMatchUse ==
  accessible = IF ZeroClass THEN {} ELSE InPlace("inuse") \cup InPlace("empty")

\* Guard slabs: among any GuardInterval + 1 consecutive slabs one was never
\* used, and every slab ever used lies within the metadata that is mapped.
GuardsStay ==
  /\ \A m \in Slabs : place[m] # "unused" => m < metadata_allocated
  /\ \A m \in Slabs : m + GuardInterval < MetadataMax =>
       \E g \in m .. m + GuardInterval : place[g] = "unused" /\ g \notin accessible

\* The statistics count what the program owns and the slabs that are mapped.
StatsExact ==
  /\ Available => allocated = SlotSize * Cardinality(live)
  /\ slab_allocated = SlabSize * Cardinality(InPlace("inuse") \cup InPlace("empty"))

\* fatal_error is reached only through misuse: the pointer passed in is not
\* owned, or its slot was written outside of ownership.
AbortsJustified ==
  ~Running => /\ abort.owned => abort.misused
              /\ abort.why = "write after free" => abort.misused

\* malloc hands out zeroed memory (which h_calloc relies on) when freed
\* memory is zeroed, even after stray writes if those are checked for.
FreshMemoryZero ==
  [][\A p \in live' \ live :
       ZeroOnFree /\ (WriteAfterFreeCheck \/ p \notin misused) => p \notin dirty']_vars

\* A freed slot becomes reusable only after it has passed through the ring
\* buffer: the free that evicts it is at least the ReuseDistance-th later one.
QuarantineDelay ==
  [][\A p \in Quarantined : p \notin Quarantined' => age[p] + 1 >= ReuseDistance]_vars

\* The allocator leaves memory alone while the program owns it: no free of
\* another slot, purge or trim zeroes or unmaps it.
DataKept ==
  [][\A p \in live \cap live' : p \in dirty =>
       p \in dirty' /\ p[1] \in accessible']_vars

\* The size class is a pool of slots: what the program sees of it is a run
\* of SlotPool.
Pool == INSTANCE SlotPool WITH
          Slot <- Ptr, owned <- live, withheld <- Quarantined, alive <- Running
ImplementsPool == Pool!PoolSpec
=============================================================================

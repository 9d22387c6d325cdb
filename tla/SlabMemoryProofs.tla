-------------------------- MODULE SlabMemoryProofs --------------------------
(***************************************************************************)
(* Proofs about SlabClass, on top of its slots and links: canaries, freed  *)
(* memory and the checks of deallocate_small (the third layer of the       *)
(* inductive invariant), the byte counts and the type invariant that needs *)
(* them because they are unsigned (the fourth), and the lists as a whole   *)
(* (the fifth).                                                            *)
(***************************************************************************)
EXTENDS SlabClassProofs, WellFoundedInduction

\* The canary of every slot in use is intact unless the program overran it.
CanaryInv ==
  ~ZeroClass => \A p \in live \ misused : tail[p] = canary_value[p[1]]

\* Only mapped memory holds data, and only owned or misused memory does when
\* freed memory is zeroed.
DirtyInv ==
  /\ \A p \in dirty : p[1] \in accessible
  /\ ZeroOnFree => dirty \subseteq live \cup misused

Inv3 == Inv2 /\ CanaryInv /\ DirtyInv /\ AbortsJustified

-----------------------------------------------------------------------------
(* Facts about one state *)

\* Owned slots are in slabs in use, whose metadata exists.
LEMMA LiveInUse ==
  ASSUME Inv2, NEW p \in live
  PROVE  /\ p \in Ptr /\ p[1] \in Slabs /\ p[2] \in bitmap[p[1]]
         /\ p[2] \notin quarantine_bitmap[p[1]]
         /\ count[p[1]] > 0 /\ place[p[1]] = "inuse" /\ p[1] < metadata_allocated
<1> USE DEF Inv2, Inv1, Typed, TypedSlots
<1>0. live \in SUBSET Ptr
  OBVIOUS
<1>1. p \in Ptr /\ p[1] \in Slabs /\ p[2] \in SlotIdx /\ p = <<p[1], p[2]>>
  BY <1>0, PtrPair
<1>2. p[2] \in bitmap[p[1]] /\ p[2] \notin quarantine_bitmap[p[1]]
  BY <1>1, InQuarantined DEF SlotInv
<1>3. bitmap[p[1]] # {}
  BY <1>2
<1>4. place[p[1]] = "inuse"
  BY <1>1, <1>3, UnusedIsEmpty
<1> QED BY <1>1, <1>2, <1>4 DEF ListInv, PlaceInv

\* Memory of size class 0 is never written.
LEMMA ZeroClassClean ==
  ASSUME Inv2, DirtyInv, ZeroClass PROVE dirty = {}
BY DEF Inv2, DirtyInv, PagesMatchUse

\* The checks of deallocate_small accept owned pointers, unless the program
\* has damaged the canary, and nothing else.
LEMMA ChecksExact ==
  ASSUME Inv2, CanaryInv PROVE FreeChecksExact
<1> SUFFICES ASSUME NEW m \in InputSlabs, NEW s \in InputSlots
             PROVE  /\ CheckFree(m, s, TRUE, TRUE) = "ok" => <<m, s>> \in live
                    /\ <<m, s>> \in live \ misused => CheckFree(m, s, TRUE, TRUE) = "ok"
  BY DEF FreeChecksExact
<1> USE SlabClassAssumption
<1>1. ASSUME CheckFree(m, s, TRUE, TRUE) = "ok" PROVE <<m, s>> \in live
  <2>1. m < metadata_allocated /\ s \in bitmap[m] /\ metadata_allocated \in 0 .. MetadataMax
    <3>1. metadata_allocated \in 0 .. MetadataMax /\ m \in 0 .. MetadataMax
      BY DEF Inv2, Inv1, Typed, TypedCounts, InputSlabs
    <3>2. CASE m >= metadata_allocated
      BY <1>1, <3>2 DEF CheckFree
    <3>3. CASE ~(m >= metadata_allocated)
      <4>1. m < metadata_allocated
        BY <3>1, <3>3
      <4> QED BY <1>1, <3>1, <3>3, <4>1 DEF CheckFree
    <3> QED BY <3>2, <3>3
  <2>2. m \in Slabs
    BY <2>1 DEF InputSlabs, Slabs
  <2>3. s \in SlotIdx
    BY <2>1, <2>2 DEF Inv2, Inv1, Typed, TypedSlots
  <2>4. PICK p \in Ptr : p = <<m, s>>
    BY <2>2, <2>3, PtrPair
  <2>5. p[1] = m /\ p[2] = s
    BY <2>4
  <2> QED BY <1>1, <2>4, <2>5, CheckedIsLive DEF Inv2
<1>2. ASSUME <<m, s>> \in live \ misused PROVE CheckFree(m, s, TRUE, TRUE) = "ok"
  <2>1. PICK p \in live : p = <<m, s>> /\ p \notin misused
    BY <1>2
  <2>2. p[1] = m /\ p[2] = s
    BY <2>1
  <2>3. m < metadata_allocated /\ s \in bitmap[m] /\ s \notin quarantine_bitmap[m]
        /\ m \in Slabs
    BY <2>2, LiveInUse
  <2>4. ~ZeroClass => tail[<<m, s>>] = canary_value[m]
    BY <2>1, <2>2 DEF CanaryInv
  <2>5. ~(m >= metadata_allocated)
    BY <2>3 DEF InputSlabs, Inv2, Inv1, Typed, TypedCounts
  <2> QED BY <2>3, <2>4, <2>5 DEF CheckFree
<1> QED BY <1>1, <1>2

-----------------------------------------------------------------------------
(* Layer 3: the actions *)

\* The parts of layer 3 that are not layer 2.
Memory3 == CanaryInv /\ DirtyInv /\ AbortsJustified

\* A slot is handed out; the canary of its slab is new only if the slab held
\* no owned slot.
LEMMA Take3 ==
  ASSUME Inv3, NEW m \in Slabs, NEW s \in get_free_slot(m), NEW cv, TakeSlot(m, s, cv),
         UNCHANGED <<dirty, abort, misused>>, accessible \subseteq accessible',
         canary_value'[m] = cv, canary_value'[m] = canary_value[m] \/ place[m] # "inuse",
         \A x \in Slabs : x # m => canary_value'[x] = canary_value[x]
  PROVE  Memory3'
<1> USE DEF Inv3
<1>1. live' = live \cup {<<m, s>>} /\ <<m, s>> \in Ptr
  BY PtrPair DEF TakeSlot, get_free_slot
<1>2. ~ZeroClass => tail'[<<m, s>>] = cv /\ \A p \in Ptr : p # <<m, s>> => tail'[p] = tail[p]
  BY <1>1 DEF TakeSlot, Inv2, Inv1, Typed, TypedMemory
<1>3. CanaryInv'
  <2>1. SUFFICES ASSUME ~ZeroClass, NEW p \in live', p \notin misused'
                 PROVE  tail'[p] = canary_value'[p[1]]
    BY DEF CanaryInv
  <2>2. CASE p = <<m, s>>
    <3>1. p[1] = m
      BY <2>2
    <3> QED BY <1>2, <2>1, <2>2, <3>1
  <2>3. CASE p # <<m, s>>
    <3>1. p \in live /\ p \notin misused
      BY <1>1, <2>1, <2>3
    <3>2. tail[p] = canary_value[p[1]] /\ p[1] \in Slabs /\ place[p[1]] = "inuse" /\ p \in Ptr
      BY <2>1, <3>1, LiveInUse DEF CanaryInv
    <3> QED BY <1>2, <2>1, <2>3, <3>2
  <2> QED BY <2>2, <2>3
<1>4. DirtyInv'
  BY <1>1 DEF DirtyInv
<1>5. AbortsJustified'
  BY DEF AbortsJustified, Running
<1> QED BY <1>3, <1>4, <1>5 DEF Memory3

\* Memory is given up: owned memory keeps its canary, and freed memory is
\* clean if it has to be.
LEMMA GiveUp3 ==
  ASSUME Inv3, UNCHANGED <<canary_value, abort, misused>>, live' \subseteq live,
         \A q \in live' : tail'[q] = tail[q],
         dirty' \subseteq dirty, \A q \in dirty' : q[1] \in accessible',
         ZeroOnFree => \A q \in live \ live' : q \notin dirty'
  PROVE  Memory3'
<1> USE DEF Inv3
<1>1. CanaryInv'
  BY DEF CanaryInv
<1>2. DirtyInv'
  BY DEF DirtyInv
<1>3. AbortsJustified'
  BY DEF AbortsJustified, Running
<1> QED BY <1>1, <1>2, <1>3 DEF Memory3

\* Nothing but bookkeeping changes.
LEMMA Memory3Unchanged ==
  ASSUME Inv3, UNCHANGED <<canary_value, abort, misused, live, tail, dirty, accessible>>
  PROVE  Memory3'
BY GiveUp3 DEF Inv3, DirtyInv

\* The initial states.
LEMMA Init3 == Init => Memory3
BY DEF Init, Memory3, CanaryInv, DirtyInv, AbortsJustified, Running, NoAbort

\* malloc.
LEMMA Allocate3 ==
  ASSUME Inv3, \/ AllocateFromPartial \/ AllocateFromEmpty
               \/ AllocateFromFree \/ AllocateFromNew
  PROVE  Memory3'
<1> USE DEF Inv3, Inv2, Inv1, Typed, ListInv
<1>0. canary_value \in [Slabs -> CanaryValues \cup {0}]
  BY DEF TypedMemory
<1>1. CASE AllocateFromPartial
  <2>1. PICK m \in Slabs : m = partial_slabs
    BY <1>1 DEF AllocateFromPartial, TypedLists
  <2>2. PICK s \in get_free_slot(m) : TakePartialSlot(m, s)
    BY <1>1, <2>1 DEF AllocateFromPartial
  <2> QED BY <2>2, Take3 DEF TakePartialSlot
<1>2. CASE AllocateFromEmpty
  <2>1. PICK m \in Slabs : m = empty_slabs
    BY <1>2 DEF AllocateFromEmpty, TypedLists
  <2>2. PICK s \in get_free_slot(m) : TakeEmptySlab(m, s)
    BY <1>2, <2>1 DEF AllocateFromEmpty
  <2> QED BY <2>2, Take3 DEF TakeEmptySlab
<1>3. CASE AllocateFromFree
  <2>1. PICK m \in Slabs : m = free_slabs_head /\ place[m] # "inuse"
    BY <1>3 DEF AllocateFromFree, NeedsFreeSlab, TypedLists, FreeInv, Linked
  <2>2. PICK cv \in CanaryValues, s \in get_free_slot(m) : TakeFreeSlab(m, s, cv)
    BY <1>3, <2>1 DEF AllocateFromFree
  <2>3. canary_value'[m] = cv /\ \A x \in Slabs : x # m => canary_value'[x] = canary_value[x]
    BY <1>0, <2>2 DEF TakeFreeSlab
  <2> QED BY <2>1, <2>2, <2>3, Take3 DEF TakeFreeSlab, Unprotect
<1>4. CASE AllocateFromNew
  <2>1. metadata_count \in Slabs
    BY <1>4, NewSlabCounts DEF AllocateFromNew, NeedsNewSlab
  <2>2. PICK m \in Slabs : m = metadata_count /\ place[m] # "inuse"
    BY <2>1 DEF PlaceInv, Slabs
  <2>3. PICK cv \in CanaryValues, s \in get_free_slot(m) : TakeNewSlab(m, s, cv)
    BY <1>4, <2>2 DEF AllocateFromNew
  <2>4. canary_value'[m] = cv /\ \A x \in Slabs : x # m => canary_value'[x] = canary_value[x]
    BY <1>0, <2>3 DEF TakeNewSlab
  <2> QED BY <2>2, <2>3, <2>4, Take3 DEF TakeNewSlab, Unprotect
<1> QED BY <1>1, <1>2, <1>3, <1>4

\* The canary of a slab without owned slots changes when it cannot be mapped.
LEMMA ProtectFails3 ==
  ASSUME Inv3, FreeSlabProtectFails \/ NewSlabProtectFails PROVE Memory3'
<1> USE DEF Inv3, Inv2, Inv1, Typed, ListInv
<1>1. CASE NewSlabProtectFails
  BY <1>1, Memory3Unchanged DEF NewSlabProtectFails, memoryVars
<1>2. CASE FreeSlabProtectFails
  <2>1. PICK m \in Slabs : m = free_slabs_head /\ place[m] # "inuse"
    BY <1>2 DEF FreeSlabProtectFails, NeedsFreeSlab, TypedLists, FreeInv, Linked
  <2>2. \A x \in Slabs : x # m => canary_value'[x] = canary_value[x]
    BY <1>2, <2>1 DEF FreeSlabProtectFails, TypedMemory
  <2>3. UNCHANGED <<abort, misused, live, tail, dirty, accessible>>
    BY <1>2 DEF FreeSlabProtectFails, memoryVars
  <2>4. \A p \in live : p[1] \in Slabs /\ p[1] # m
    BY <2>1, LiveInUse
  <2>5. CanaryInv'
    BY <2>2, <2>3, <2>4 DEF CanaryInv
  <2>6. DirtyInv' /\ AbortsJustified'
    BY <2>3 DEF DirtyInv, AbortsJustified, Running
  <2> QED BY <2>5, <2>6 DEF Memory3
<1> QED BY <1>1, <1>2

\* A pointer that fails the checks is not owned, or its slot was overrun.
LEMMA CheckAborts3 ==
  ASSUME Inv3, Available, NEW m \in InputSlabs, NEW s \in InputSlots,
         CheckFree(m, s, TRUE, TRUE) # "ok", <<m, s>> \in live
  PROVE  <<m, s>> \in misused
BY ChecksExact DEF Inv3, FreeChecksExact

\* fatal_error.
LEMMA Aborts3 ==
  ASSUME Inv3,
         \/ AllocateAborts
         \/ \E m \in InputSlabs, s \in InputSlots, aligned, sizeMatches \in BOOLEAN :
              DeallocateAborts(m, s, aligned, sizeMatches)
         \/ \E m \in InputSlabs, s \in InputSlots, aligned \in BOOLEAN :
              UsableSizeAborts(m, s, aligned)
  PROVE  Memory3'
<1> USE SlabClassAssumption DEF Inv3
<1>1. ASSUME NEW why, NEW p, Fatal(why, p), p \in live => p \in misused,
             why = "write after free" => p \in misused
      PROVE  Memory3'
  <2>1. /\ abort' = [why |-> why, owned |-> p \in live, misused |-> p \in misused]
        /\ UNCHANGED <<canary_value, live, misused, tail, dirty, accessible>>
    BY <1>1 DEF Fatal, memoryVars
  <2>2. CanaryInv' /\ DirtyInv'
    BY <2>1 DEF CanaryInv, DirtyInv
  <2>3. AbortsJustified'
    BY <1>1, <2>1 DEF AbortsJustified
  <2> QED BY <2>2, <2>3 DEF Memory3
<1>2. NULL \notin live
  BY DEF Inv2, Inv1, Typed, TypedSlots
<1>3. CASE AllocateAborts
  <2> DEFINE h == IF partial_slabs # NULL THEN partial_slabs ELSE empty_slabs
  <2>1. PICK m \in Slabs : m = h
    BY <1>3 DEF AllocateAborts, Inv2, Inv1, Typed, TypedLists
  <2>2. PICK s \in get_free_slot(m) :
          ~write_after_free_check(<<m, s>>) /\ Fatal("write after free", <<m, s>>)
    BY <1>3, <2>1 DEF AllocateAborts
  <2>3. <<m, s>> \notin live
    BY <2>1, <2>2 DEF get_free_slot, Inv2, Inv1, SlotInv
  <2>4. <<m, s>> \in misused
    BY <2>2, <2>3 DEF write_after_free_check, DirtyInv
  <2> QED BY <1>1, <2>2, <2>4
<1>4. CASE \E m \in InputSlabs, s \in InputSlots, aligned, sizeMatches \in BOOLEAN :
             DeallocateAborts(m, s, aligned, sizeMatches)
  <2>1. PICK m \in InputSlabs, s \in InputSlots, aligned \in BOOLEAN, sizeMatches \in BOOLEAN :
          DeallocateAborts(m, s, aligned, sizeMatches)
    BY <1>4
  <2> DEFINE why == CheckFree(m, s, aligned, sizeMatches)
             p == IF sizeMatches /\ aligned THEN <<m, s>> ELSE NULL
  <2>2. Available /\ why # "ok" /\ Fatal(why, p)
    BY <2>1 DEF DeallocateAborts
  <2>3. p \in live => p \in misused
    <3>1. CASE sizeMatches /\ aligned
      <4>1. sizeMatches = TRUE /\ aligned = TRUE
        BY <3>1
      <4> QED BY <2>2, <4>1, CheckAborts3
    <3>2. CASE ~(sizeMatches /\ aligned)
      BY <1>2, <3>2
    <3> QED BY <3>1, <3>2
  <2>4. why # "write after free"
    BY DEF CheckFree
  <2> HIDE DEF why, p
  <2> QED BY <1>1, <2>2, <2>3, <2>4
<1>5. CASE \E m \in InputSlabs, s \in InputSlots, aligned \in BOOLEAN :
             UsableSizeAborts(m, s, aligned)
  <2>1. PICK m \in InputSlabs, s \in InputSlots, aligned \in BOOLEAN :
          UsableSizeAborts(m, s, aligned)
    BY <1>5
  <2> DEFINE p == IF aligned THEN <<m, s>> ELSE NULL
  <2>2. /\ Available /\ CheckFree(m, s, aligned, TRUE) # "ok"
        /\ Fatal("invalid malloc_usable_size", p)
    BY <2>1 DEF UsableSizeAborts
  <2>3. p \in live => p \in misused
    <3>1. CASE aligned = TRUE
      BY <2>2, <3>1, CheckAborts3
    <3>2. CASE aligned = FALSE
      BY <1>2, <3>2
    <3> QED BY <3>1, <3>2
  <2> HIDE DEF p
  <2> QED BY <1>1, <2>2, <2>3
<1> QED BY <1>3, <1>4, <1>5

\* The memory of a freed slot is clean afterwards.
LEMMA ZeroedFacts ==
  ASSUME Inv3, NEW p
  PROVE  ZeroedOnFree(p) \subseteq dirty /\ (ZeroOnFree => p \notin ZeroedOnFree(p))
BY ZeroClassClean DEF Inv3, ZeroedOnFree

\* Clearing a slab changes no memory of another slab.
LEMMA ClearedSlab ==
  ASSUME Typed, NEW m \in Slabs, NEW d \in SUBSET Ptr, MapFixed(m, d) \/ Purge(m, d)
  PROVE  /\ dirty' \subseteq d
         /\ \A q \in Ptr : q[1] # m => tail'[q] = tail[q] /\ (q \in d => q \in dirty')
         /\ MapFixed(m, d) => \A q \in dirty' : q[1] # m
<1>1. \A q \in SlotsOf(m) : q[1] = m
  BY DEF SlotsOf
<1>2. \A q \in Ptr : q[1] = m => q \in SlotsOf(m)
  BY PtrPair DEF SlotsOf
<1> QED BY <1>1, <1>2 DEF MapFixed, Purge, Typed, TypedMemory

\* No slot of a slab that lost its last used slot is owned.
LEMMA EmptiedNotLive ==
  ASSUME Inv2, Inv2', NEW m \in Slabs, count'[m] = 0
  PROVE  \A q \in live' : q \in Ptr /\ q[1] # m
<1>1. SUFFICES ASSUME NEW q \in live', q[1] = m PROVE FALSE
  BY DEF Inv2, Inv1, Typed, TypedSlots
<1>2. q \in Ptr /\ q[2] \in SlotIdx /\ q = <<m, q[2]>>
  BY <1>1, PtrPair DEF Inv2, Inv1, Typed, TypedSlots
<1>3. q[2] \in bitmap'[m]
  BY <1>1, <1>2 DEF Inv2, Inv1, SlotInv
<1>4. bitmap'[m] \in SUBSET SlotIdx /\ Cardinality(bitmap'[m]) = 0
  BY DEF Inv2, Inv1, Typed, TypedSlots, SlotInv
<1>5. bitmap'[m] = {}
  BY <1>4, SlotIdxCard, FS_Subset, FS_EmptySet
<1> QED BY <1>3, <1>5

\* free.
LEMMA Deallocate3 ==
  ASSUME Inv3, Inv2', NEW p \in Ptr, NEW r \in Ptr,
         \/ DeallocateHeld(p) \/ DeallocateRelease(p, r)
         \/ DeallocateFreesSlab(p, r) \/ DeallocateCachesSlab(p, r)
  PROVE  Memory3'
<1> USE DEF Inv3
<1>1. /\ UNCHANGED <<canary_value, abort, misused>> /\ live' = live \ {p}
  BY DEF DeallocateHeld, DeallocateRelease, DeallocateFreesSlab, DeallocateCachesSlab,
         EmptySlab, Displace, AcceptFree
<1>2. ZeroedOnFree(p) \subseteq dirty /\ (ZeroOnFree => p \notin ZeroedOnFree(p))
      /\ ZeroedOnFree(p) \in SUBSET Ptr
  BY ZeroedFacts DEF Inv2, Inv1, Typed, TypedMemory
<1>3. CASE DeallocateHeld(p) \/ DeallocateRelease(p, r)
  <2>1. dirty' = ZeroedOnFree(p) /\ UNCHANGED <<accessible, tail>>
    BY <1>3 DEF DeallocateHeld, DeallocateRelease
  <2> QED BY <1>1, <1>2, <2>1, GiveUp3 DEF DirtyInv
<1>4. CASE DeallocateFreesSlab(p, r)
  <2>1. PICK m \in Slabs : m = r[1] /\ count'[m] = 0
    BY <1>4, EmptySlabFacts DEF DeallocateFreesSlab
  <2>2. MapFixed(m, ZeroedOnFree(p))
    BY <1>4, <2>1 DEF DeallocateFreesSlab
  <2>3. /\ dirty' \subseteq ZeroedOnFree(p) /\ \A q \in dirty' : q[1] # m
        /\ \A q \in Ptr : q[1] # m => tail'[q] = tail[q]
    BY <1>2, <2>2, ClearedSlab DEF Inv2, Inv1
  <2>4. \A q \in dirty' : q[1] \in accessible'
    BY <1>2, <2>2, <2>3 DEF MapFixed, DirtyInv
  <2>5. \A q \in live' : tail'[q] = tail[q]
    BY <2>1, <2>3, EmptiedNotLive
  <2> QED BY <1>1, <1>2, <2>3, <2>4, <2>5, GiveUp3
<1>5. CASE DeallocateCachesSlab(p, r)
  <2>1. PICK m \in Slabs : m = r[1] /\ count'[m] = 0
    BY <1>5, EmptySlabFacts DEF DeallocateCachesSlab
  <2>2. \/ Purge(m, ZeroedOnFree(p))
        \/ dirty' = ZeroedOnFree(p) /\ UNCHANGED <<accessible, tail>>
    BY <1>5, <2>1 DEF DeallocateCachesSlab
  <2>3. accessible' = accessible
    BY <2>2 DEF Purge
  <2>4. /\ dirty' \subseteq ZeroedOnFree(p)
        /\ \A q \in Ptr : q[1] # m => tail'[q] = tail[q]
    BY <1>2, <2>2, ClearedSlab DEF Inv2, Inv1
  <2>5. \A q \in live' : tail'[q] = tail[q]
    BY <2>1, <2>4, EmptiedNotLive
  <2> QED BY <1>1, <1>2, <2>3, <2>4, <2>5, GiveUp3 DEF DirtyInv
<1> QED BY <1>3, <1>4, <1>5

\* The trim purges no owned slot.
LEMMA TrimmedNotLive ==
  ASSUME Inv2, NEW p \in TrimmedSlots PROVE p \notin live
<1>1. p \in Ptr /\ p # NULL
  BY SlabClassAssumption DEF TrimmedSlots
<1>2. p \in Quarantined
  BY <1>1 DEF TrimmedSlots, Inv2, Inv1, CellInv
<1> QED BY <1>1, <1>2, LiveInUse DEF Quarantined

\* h_malloc_trim.
LEMMA Trim3 ==
  ASSUME Inv3, Inv2', TrimStart \/ TrimSlab \/ TrimEnd PROVE Memory3'
<1> USE DEF Inv3
<1>1. CASE TrimStart
  BY <1>1, Memory3Unchanged DEF TrimStart, memoryVars
<1>2. CASE TrimSlab
  <2>1. PICK m \in Slabs : m = iterator
    BY <1>2 DEF TrimSlab, Inv2, Inv1, Typed, TypedLists
  <2>2. EmptyHead = m /\ m # NULL
    BY <1>2, <2>1 DEF TrimSlab, EmptyHead
  <2>3. place[m] = "empty"
    BY <2>2 DEF Inv2, ListInv, EmptyInv, Linked
  <2>4. count'[m] = 0
    BY <1>2, <2>3, UnusedIsEmpty DEF TrimSlab, slotVars
  <2>5. MapFixed(m, dirty) /\ UNCHANGED <<canary_value, abort, misused, live>>
        /\ dirty \in SUBSET Ptr
    BY <1>2, <2>1 DEF TrimSlab, Inv2, Inv1, Typed, TypedMemory
  <2>6. /\ dirty' \subseteq dirty /\ \A q \in dirty' : q[1] # m
        /\ \A q \in Ptr : q[1] # m => tail'[q] = tail[q]
    BY <2>5, ClearedSlab DEF Inv2, Inv1
  <2>7. \A q \in dirty' : q[1] \in accessible'
    BY <2>5, <2>6 DEF MapFixed, DirtyInv
  <2>8. \A q \in live' : tail'[q] = tail[q]
    BY <2>4, <2>6, EmptiedNotLive
  <2> QED BY <2>5, <2>6, <2>7, <2>8, GiveUp3
<1>3. CASE TrimEnd
  <2>1. UNCHANGED <<canary_value, abort, misused, live, accessible>>
    BY <1>3 DEF TrimEnd
  <2>2. PICK purged \in SUBSET TrimmedSlots :
          /\ dirty' = dirty \ purged
          /\ tail' = [p \in Ptr |-> IF p \in purged THEN 0 ELSE tail[p]]
    BY <1>3 DEF TrimEnd
  <2>3. \A q \in live : q \in Ptr /\ q \notin purged
    BY TrimmedNotLive, LiveInUse
  <2>4. \A q \in live' : tail'[q] = tail[q]
    BY <2>1, <2>2, <2>3
  <2> QED BY <2>1, <2>2, <2>4, GiveUp3 DEF DirtyInv
<1> QED BY <1>1, <1>2, <1>3

\* The program's own writes.
LEMMA Program3 ==
  ASSUME Inv3, NEW p \in Ptr, Write(p) \/ StrayWrite(p) \/ Overflow(p) PROVE Memory3'
<1> USE DEF Inv3
<1>1. UNCHANGED <<canary_value, abort, live, accessible>> /\ p[1] \in accessible
  BY DEF Write, StrayWrite, Overflow
<1>2. AbortsJustified'
  BY <1>1 DEF AbortsJustified, Running
<1>3. CanaryInv'
  <2>1. misused \subseteq misused'
    BY DEF Write, StrayWrite, Overflow
  <2>2. \A q \in live : q \notin misused' => tail'[q] = tail[q]
    BY DEF Write, StrayWrite, Overflow, Inv2, Inv1, Typed, TypedSlots, TypedMemory
  <2> QED BY <1>1, <2>1, <2>2 DEF CanaryInv
<1>4. DirtyInv'
  BY <1>1 DEF DirtyInv, Write, StrayWrite, Overflow
<1> QED BY <1>2, <1>3, <1>4 DEF Memory3

\* Every step preserves the third layer.
LEMMA Next3 == Inv3 /\ [Next]_vars => Inv3'
<1> SUFFICES ASSUME Inv3, [Next]_vars PROVE Inv3'
  OBVIOUS
<1>1. Inv2'
  BY Next2 DEF Inv3
<1> SUFFICES Memory3'
  BY <1>1 DEF Inv3, Memory3
<1>2. CASE UNCHANGED vars
  BY <1>2, Memory3Unchanged DEF vars, memoryVars
<1>3. CASE \/ AllocateFromPartial \/ AllocateFromEmpty \/ AllocateFromFree
           \/ AllocateFromNew
  BY <1>3, Allocate3
<1>4. CASE FreeSlabProtectFails \/ NewSlabProtectFails
  BY <1>4, ProtectFails3
<1>5. CASE \/ AllocateAborts
           \/ \E m \in InputSlabs, s \in InputSlots, aligned, sizeMatches \in BOOLEAN :
                DeallocateAborts(m, s, aligned, sizeMatches)
           \/ \E m \in InputSlabs, s \in InputSlots, aligned \in BOOLEAN :
                UsableSizeAborts(m, s, aligned)
  BY <1>5, Aborts3
<1>6. CASE \E p \in Ptr : DeallocateHeld(p)
  BY <1>1, <1>6, Deallocate3
<1>7. CASE \E p, r \in Ptr : \/ DeallocateRelease(p, r) \/ DeallocateFreesSlab(p, r)
                             \/ DeallocateCachesSlab(p, r)
  BY <1>1, <1>7, Deallocate3
<1>8. CASE TrimStart \/ TrimSlab \/ TrimEnd
  BY <1>1, <1>8, Trim3
<1>9. CASE \E p \in Ptr : Write(p) \/ StrayWrite(p) \/ Overflow(p)
  BY <1>9, Program3
<1> QED BY <1>2, <1>3, <1>4, <1>5, <1>6, <1>7, <1>8, <1>9 DEF Next

\* Canaries are intact, freed memory is clean and only misuse aborts, in
\* every reachable state.
THEOREM Layer3 == Spec => []Inv3
<1>1. Init => Inv3
  BY Init1, Init2, Init3 DEF Inv3, Inv2, Memory3
<1>2. Inv3 /\ [Next]_vars => Inv3'
  BY Next3
<1> QED BY <1>1, <1>2, PTL DEF Spec

\* deallocate_small accepts exactly the owned pointers: no double free, free
\* of a stale, foreign or quarantined pointer passes, and no valid free of a
\* slot that was not overrun is refused.
THEOREM FreeChecksExactHolds == Spec => []FreeChecksExact
<1>1. Inv3 => FreeChecksExact
  BY ChecksExact DEF Inv3
<1> QED BY <1>1, Layer3, PTL

\* The allocator aborts only programs that misuse memory.
THEOREM AbortsJustifiedHolds == Spec => []AbortsJustified
<1>1. Inv3 => AbortsJustified
  BY DEF Inv3
<1> QED BY <1>1, Layer3, PTL

-----------------------------------------------------------------------------
(* Action properties *)

\* A slot handed out while the check for writes after free runs is clean; so
\* is every slot that the program did not misuse.
LEMMA TakenClean ==
  ASSUME Inv3, NEW m \in Slabs, NEW s \in get_free_slot(m), NEW cv, TakeSlot(m, s, cv),
         write_after_free_check(<<m, s>>) \/ m \notin accessible, UNCHANGED dirty,
         NEW p \in live' \ live, ZeroOnFree, WriteAfterFreeCheck \/ p \notin misused
  PROVE  p \notin dirty'
<1>1. p = <<m, s>> /\ p[1] = m
  BY DEF TakeSlot
<1>2. CASE m \notin accessible
  BY <1>1, <1>2 DEF Inv3, DirtyInv
<1>3. CASE ZeroClass
  BY <1>3, ZeroClassClean DEF Inv3
<1>4. CASE ~ZeroClass /\ write_after_free_check(<<m, s>>)
  BY <1>1, <1>4 DEF Inv3, DirtyInv, write_after_free_check
<1> QED BY <1>2, <1>3, <1>4

\* malloc hands out zeroed memory if freed memory is zeroed, through every
\* path of allocate_small.
THEOREM FreshMemoryZeroHolds == Spec => FreshMemoryZero
<1> DEFINE Fresh == \A p \in live' \ live :
                      ZeroOnFree /\ (WriteAfterFreeCheck \/ p \notin misused) => p \notin dirty'
<1>1. Inv3 /\ [Next]_vars => [Fresh]_vars
  <2> SUFFICES ASSUME Inv3, Next, NEW p \in live' \ live, ZeroOnFree,
                      WriteAfterFreeCheck \/ p \notin misused
               PROVE  p \notin dirty'
    BY DEF vars
  <2> USE DEF Inv3, Inv2, Inv1, Typed, ListInv
  <2>1. CASE AllocateFromPartial
    <3>1. PICK m \in Slabs : m = partial_slabs
      BY <2>1 DEF AllocateFromPartial, TypedLists
    <3>2. PICK s \in get_free_slot(m) :
            write_after_free_check(<<m, s>>) /\ TakePartialSlot(m, s)
      BY <2>1, <3>1 DEF AllocateFromPartial
    <3> QED BY <3>2, TakenClean DEF TakePartialSlot
  <2>2. CASE AllocateFromEmpty
    <3>1. PICK m \in Slabs : m = empty_slabs
      BY <2>2 DEF AllocateFromEmpty, TypedLists
    <3>2. PICK s \in get_free_slot(m) :
            write_after_free_check(<<m, s>>) /\ TakeEmptySlab(m, s)
      BY <2>2, <3>1 DEF AllocateFromEmpty
    <3> QED BY <3>2, TakenClean DEF TakeEmptySlab
  <2>3. CASE AllocateFromFree
    <3>1. PICK m \in Slabs : m = free_slabs_head /\ m \notin accessible
      BY <2>3 DEF AllocateFromFree, NeedsFreeSlab, TypedLists, FreeInv, Linked,
                  PagesMatchUse, InPlace
    <3>2. PICK cv \in CanaryValues, s \in get_free_slot(m) : TakeFreeSlab(m, s, cv)
      BY <2>3, <3>1 DEF AllocateFromFree
    <3> QED BY <3>1, <3>2, TakenClean DEF TakeFreeSlab
  <2>4. CASE AllocateFromNew
    <3>1. metadata_count \in Slabs
      BY <2>4, NewSlabCounts DEF AllocateFromNew, NeedsNewSlab
    <3>2. PICK m \in Slabs : m = metadata_count /\ m \notin accessible
      BY <3>1 DEF PlaceInv, Slabs, PagesMatchUse, InPlace
    <3>3. PICK cv \in CanaryValues, s \in get_free_slot(m) : TakeNewSlab(m, s, cv)
      BY <2>4, <3>2 DEF AllocateFromNew
    <3> QED BY <3>2, <3>3, TakenClean DEF TakeNewSlab
  <2>5. ASSUME live' \subseteq live PROVE FALSE
    BY <2>5
  <2>6. CASE \/ FreeSlabProtectFails \/ NewSlabProtectFails \/ AllocateAborts
             \/ \E m \in InputSlabs, s \in InputSlots, aligned, sizeMatches \in BOOLEAN :
                  DeallocateAborts(m, s, aligned, sizeMatches)
             \/ \E m \in InputSlabs, s \in InputSlots, aligned \in BOOLEAN :
                  UsableSizeAborts(m, s, aligned)
             \/ TrimStart \/ TrimSlab \/ TrimEnd
             \/ \E q \in Ptr : Write(q) \/ StrayWrite(q) \/ Overflow(q)
    BY <2>5, <2>6 DEF FreeSlabProtectFails, NewSlabProtectFails, AllocateAborts,
         DeallocateAborts, UsableSizeAborts, Fatal, TrimStart, TrimSlab, TrimEnd,
         Write, StrayWrite, Overflow
  <2>7. CASE \E q \in Ptr : DeallocateHeld(q)
    BY <2>5, <2>7 DEF DeallocateHeld, AcceptFree
  <2>8. CASE \E q, r \in Ptr : \/ DeallocateRelease(q, r) \/ DeallocateFreesSlab(q, r)
                               \/ DeallocateCachesSlab(q, r)
    <3>1. PICK q \in Ptr, r \in Ptr : Displace(q, r)
      BY <2>8 DEF DeallocateRelease, DeallocateFreesSlab, DeallocateCachesSlab, EmptySlab
    <3> QED BY <2>5, <3>1 DEF Displace, AcceptFree
  <2> QED BY <2>1, <2>2, <2>3, <2>4, <2>6, <2>7, <2>8 DEF Next
<1> QED BY <1>1, Layer3, PTL DEF Spec, FreshMemoryZero

Mapped == \A p \in live : ~ZeroClass => p[1] \in accessible

\* Owned memory is mapped, in a class whose slots can be accessed at all.
LEMMA OwnedMapped == Inv2 => Mapped
<1> SUFFICES ASSUME Inv2, NEW p \in live, ~ZeroClass PROVE p[1] \in accessible
  BY DEF Mapped
<1>1. p[1] \in Slabs /\ place[p[1]] = "inuse"
  BY LiveInUse
<1> QED BY <1>1 DEF Inv2, PagesMatchUse, InPlace

\* Nothing but the program changes memory that the program owns: frees of
\* other slots, quarantine evictions, purges and trims leave it alone.
THEOREM DataKeptHolds == Spec => DataKept
<1> DEFINE Kept == \A p \in live \cap live' : p \in dirty =>
                     p \in dirty' /\ p[1] \in accessible'
<1>1. Inv3 /\ Inv2' /\ Mapped' /\ [Next]_vars => [Kept]_vars
  <2> SUFFICES ASSUME Inv3, Inv2', Mapped', Next, NEW p \in live \cap live', p \in dirty
               PROVE  p \in dirty' /\ p[1] \in accessible'
    BY DEF vars
  <2>1. p[1] \in accessible'
    BY ZeroClassClean DEF Inv3, Mapped
  <2>2. p \in Ptr /\ dirty \in SUBSET Ptr
    BY LiveInUse DEF Inv3, Inv2, Inv1, Typed, TypedMemory
  <2> SUFFICES p \in dirty'
    BY <2>1
  <2>3. CASE \/ AllocateFromPartial \/ AllocateFromEmpty
             \/ AllocateFromFree \/ AllocateFromNew
    BY <2>3 DEF AllocateFromPartial, AllocateFromEmpty, AllocateFromFree, AllocateFromNew,
                TakePartialSlot, TakeEmptySlab, TakeFreeSlab, TakeNewSlab
  <2>4. CASE \/ FreeSlabProtectFails \/ NewSlabProtectFails \/ AllocateAborts
             \/ \E m \in InputSlabs, s \in InputSlots, aligned, sizeMatches \in BOOLEAN :
                  DeallocateAborts(m, s, aligned, sizeMatches)
             \/ \E m \in InputSlabs, s \in InputSlots, aligned \in BOOLEAN :
                  UsableSizeAborts(m, s, aligned)
             \/ TrimStart
             \/ \E q \in Ptr : Write(q) \/ StrayWrite(q) \/ Overflow(q)
    BY <2>4 DEF FreeSlabProtectFails, NewSlabProtectFails, AllocateAborts, memoryVars,
         DeallocateAborts, UsableSizeAborts, Fatal, TrimStart, Write, StrayWrite, Overflow
  <2>5. CASE TrimSlab
    <3>1. PICK m \in Slabs : m = iterator
      BY <2>5 DEF TrimSlab, Inv3, Inv2, Inv1, Typed, TypedLists
    <3>2. place[m] = "empty"
      BY <2>5, <3>1 DEF TrimSlab, EmptyHead, Inv3, Inv2, ListInv, EmptyInv, Linked
    <3>3. p[1] # m
      BY <3>2, LiveInUse DEF Inv3
    <3> QED BY <2>2, <2>5, <3>1, <3>3, ClearedSlab DEF TrimSlab, Inv3, Inv2, Inv1
  <2>6. CASE TrimEnd
    BY <2>6, TrimmedNotLive DEF TrimEnd, Inv3
  <2>7. ASSUME NEW q \in Ptr, AcceptFree(q) PROVE p \in ZeroedOnFree(q)
    BY <2>7 DEF AcceptFree, ZeroedOnFree
  <2>8. CASE \E q \in Ptr : DeallocateHeld(q)
    BY <2>7, <2>8 DEF DeallocateHeld
  <2>9. CASE \E q, r \in Ptr : DeallocateRelease(q, r)
    BY <2>7, <2>9 DEF DeallocateRelease, Displace
  <2>10. ASSUME NEW q \in Ptr, NEW r \in Ptr,
                DeallocateFreesSlab(q, r) \/ DeallocateCachesSlab(q, r)
         PROVE  p \in dirty'
    <3>1. EmptySlab(q, r) /\ AcceptFree(q)
      BY <2>10 DEF DeallocateFreesSlab, DeallocateCachesSlab, EmptySlab, Displace
    <3>2. PICK m \in Slabs : m = r[1] /\ count'[m] = 0
      BY <3>1, EmptySlabFacts DEF Inv3
    <3>3. p[1] # m
      BY <3>2, EmptiedNotLive DEF Inv3
    <3>4. p \in ZeroedOnFree(q) /\ ZeroedOnFree(q) \in SUBSET Ptr
      BY <2>2, <2>7, <3>1 DEF ZeroedOnFree
    <3>5. CASE dirty' = ZeroedOnFree(q)
      BY <3>4, <3>5
    <3>6. CASE MapFixed(m, ZeroedOnFree(q)) \/ Purge(m, ZeroedOnFree(q))
      BY <2>2, <3>3, <3>4, <3>6, ClearedSlab DEF Inv3, Inv2, Inv1
    <3> QED BY <2>10, <3>2, <3>5, <3>6 DEF DeallocateFreesSlab, DeallocateCachesSlab
  <2> QED BY <2>3, <2>4, <2>5, <2>6, <2>8, <2>9, <2>10 DEF Next
<1>2. Inv3 => Inv2
  BY DEF Inv3
<1> QED BY <1>1, <1>2, OwnedMapped, Layer3, PTL DEF Spec, DataKept

-----------------------------------------------------------------------------
(* The fourth layer: the byte counts *)

MappedSlabs == InPlace("inuse") \cup InPlace("empty")

EmptyCount == empty_slabs_total = SlabSize * Cardinality(InPlace("empty"))
SlotCount == allocated = SlotSize * Cardinality(live)
SlabCount == slab_allocated = SlabSize * Cardinality(MappedSlabs)

Sums == EmptyCount /\ SlotCount /\ SlabCount

Inv4 == Inv2 /\ Sums

-----------------------------------------------------------------------------
(* Arithmetic *)

\* A product changes by one factor.
LEMMA ProductStep ==
  ASSUME NEW a \in Nat, NEW n \in Nat
  PROVE  /\ a * (n + 1) = a * n + a /\ a * (n - 1) = a * n - a
         /\ a * n \in Nat
OBVIOUS

\* The byte count of a set that gains an element.
LEMMA CountGains ==
  ASSUME NEW a \in Nat, NEW S, IsFiniteSet(S), NEW x, x \notin S
  PROVE  a * Cardinality(S \cup {x}) = a * Cardinality(S) + a
<1>1. Cardinality(S) \in Nat /\ Cardinality(S \cup {x}) = Cardinality(S) + 1
  BY FS_CardinalityType, FS_AddElement
<1> QED BY <1>1, ProductStep

\* The byte count of a set that loses an element.
LEMMA CountLoses ==
  ASSUME NEW a \in Nat, NEW S, IsFiniteSet(S), NEW x \in S
  PROVE  a * Cardinality(S \ {x}) = a * Cardinality(S) - a
<1>1. Cardinality(S) \in Nat /\ Cardinality(S \ {x}) = Cardinality(S) - 1
  BY FS_CardinalityType, FS_RemoveElement
<1> QED BY <1>1, ProductStep

\* Sets of slabs and of slots are finite.
LEMMA FiniteSlabs == \A S \in SUBSET Slabs : IsFiniteSet(S)
<1>1. IsFiniteSet(0 .. MetadataMax - 1)
  BY FS_Interval, SlabClassAssumption
<1> QED BY <1>1, FS_Subset DEF Slabs

\* The same for slots.
LEMMA FiniteSlots == \A S \in SUBSET Ptr : IsFiniteSet(S)
<1>1. IsFiniteSet(Slabs) /\ IsFiniteSet(SlotIdx)
  BY FiniteSlabs, SlotIdxCard
<1>2. IsFiniteSet(Slabs \X SlotIdx)
  BY <1>1, FS_Product
<1> QED BY <1>2, FS_Subset DEF Ptr

-----------------------------------------------------------------------------
(* Layer 4: the actions *)

\* malloc adds one slot to what the program owns.
LEMMA TakeCounts ==
  ASSUME Inv4, NEW m \in Slabs, NEW s \in get_free_slot(m), NEW cv, TakeSlot(m, s, cv)
  PROVE  SlotCount'
<1>1. <<m, s>> \notin live /\ live \in SUBSET Ptr
  BY DEF get_free_slot, Inv4, Inv2, Inv1, SlotInv, Typed, TypedSlots
<1>2. SlotSize * Cardinality(live \cup {<<m, s>>}) = SlotSize * Cardinality(live) + SlotSize
  BY <1>1, CountGains, FiniteSlots, SlabClassAssumption
<1> QED BY <1>2 DEF TakeSlot, stats_small_allocate, Inv4, Sums, SlotCount

\* free removes one.
LEMMA FreeCounts ==
  ASSUME Inv4, NEW p \in Ptr, AcceptFree(p) PROVE SlotCount'
<1>1. p \in live /\ live \in SUBSET Ptr
  BY CheckedIsLive DEF AcceptFree, Inv4, Inv2, Inv1, Typed, TypedSlots
<1>2. SlotSize * Cardinality(live \ {p}) = SlotSize * Cardinality(live) - SlotSize
  BY <1>1, CountLoses, FiniteSlots, SlabClassAssumption
<1> QED BY <1>2 DEF AcceptFree, stats_small_deallocate, Inv4, Sums, SlotCount

\* The sets of slabs that the counts are about.
LEMMA SlabSets ==
  /\ InPlace("empty") \in SUBSET Slabs /\ IsFiniteSet(InPlace("empty"))
  /\ MappedSlabs \in SUBSET Slabs /\ IsFiniteSet(MappedSlabs)
<1>1. InPlace("empty") \in SUBSET Slabs /\ MappedSlabs \in SUBSET Slabs
  BY DEF MappedSlabs, InPlace
<1> QED BY <1>1, FiniteSlabs

\* Slabs keep their places.
LEMMA PlacesUnchanged ==
  ASSUME Inv4, UNCHANGED <<place, empty_slabs_total, slab_allocated>>
  PROVE  EmptyCount' /\ SlabCount'
BY DEF Inv4, Sums, EmptyCount, SlabCount, MappedSlabs, InPlace

\* A slab is mapped.
LEMMA MapCounts ==
  ASSUME Inv4, NEW m \in Slabs, place[m] \notin {"inuse", "empty"},
         place' = [place EXCEPT ![m] = "inuse"],
         stats_slab_allocate, UNCHANGED empty_slabs_total
  PROVE  EmptyCount' /\ SlabCount'
<1> USE DEF Inv4, Inv2, Inv1, Typed, TypedLists, Sums
<1>1. InPlace("empty")' = InPlace("empty") /\ MappedSlabs' = MappedSlabs \cup {m}
      /\ m \notin MappedSlabs
  BY DEF InPlace, MappedSlabs
<1>2. SlabSize * Cardinality(MappedSlabs \cup {m}) = SlabSize * Cardinality(MappedSlabs) + SlabSize
  BY <1>1, SlabSets, CountGains, SlabClassAssumption
<1> QED BY <1>1, <1>2 DEF EmptyCount, SlabCount, stats_slab_allocate

\* A cached slab is reused.
LEMMA ReuseCounts ==
  ASSUME Inv4, NEW m \in Slabs, place[m] = "empty", place' = [place EXCEPT ![m] = "inuse"],
         empty_slabs_total' = empty_slabs_total - SlabSize, UNCHANGED slab_allocated
  PROVE  EmptyCount' /\ SlabCount'
<1> USE DEF Inv4, Inv2, Inv1, Typed, TypedLists, Sums
<1>1. InPlace("empty")' = InPlace("empty") \ {m} /\ MappedSlabs' = MappedSlabs
      /\ m \in InPlace("empty")
  BY DEF InPlace, MappedSlabs
<1>2. SlabSize * Cardinality(InPlace("empty") \ {m})
        = SlabSize * Cardinality(InPlace("empty")) - SlabSize
  BY <1>1, SlabSets, CountLoses, SlabClassAssumption
<1> QED BY <1>1, <1>2 DEF EmptyCount, SlabCount

\* A slab in use is cached.
LEMMA CacheCounts ==
  ASSUME Inv4, NEW m \in Slabs, place[m] = "inuse", place' = [place EXCEPT ![m] = "empty"],
         empty_slabs_total' = empty_slabs_total + SlabSize, UNCHANGED slab_allocated
  PROVE  EmptyCount' /\ SlabCount'
<1> USE DEF Inv4, Inv2, Inv1, Typed, TypedLists, Sums
<1>1. InPlace("empty")' = InPlace("empty") \cup {m} /\ MappedSlabs' = MappedSlabs
      /\ m \notin InPlace("empty")
  BY DEF InPlace, MappedSlabs
<1>2. SlabSize * Cardinality(InPlace("empty") \cup {m})
        = SlabSize * Cardinality(InPlace("empty")) + SlabSize
  BY <1>1, SlabSets, CountGains, SlabClassAssumption
<1> QED BY <1>1, <1>2 DEF EmptyCount, SlabCount

\* A slab is unmapped and enqueued as free.
LEMMA UnmapCounts ==
  ASSUME Inv4, NEW m \in Slabs, place[m] \in {"inuse", "empty"}, place'[m] \in Retired,
         \A x \in Slabs : place[x] \in Retired => place'[x] \in Retired,
         \A x \in Slabs : x # m /\ place[x] \notin Retired => place'[x] = place[x],
         stats_slab_deallocate,
         empty_slabs_total' = IF place[m] = "empty" THEN empty_slabs_total - SlabSize
                              ELSE empty_slabs_total
  PROVE  EmptyCount' /\ SlabCount'
<1> USE DEF Inv4, Sums
<1>1. MappedSlabs' = MappedSlabs \ {m} /\ m \in MappedSlabs
  BY DEF InPlace, MappedSlabs, Retired
<1>2. SlabSize * Cardinality(MappedSlabs \ {m}) = SlabSize * Cardinality(MappedSlabs) - SlabSize
  BY <1>1, SlabSets, CountLoses, SlabClassAssumption
<1>3. SlabCount'
  BY <1>1, <1>2 DEF SlabCount, stats_slab_deallocate
<1>4. InPlace("empty")' = InPlace("empty") \ {m}
  BY DEF InPlace, Retired
<1>5. CASE place[m] = "empty"
  <2>1. m \in InPlace("empty")
    BY <1>5 DEF InPlace
  <2>2. SlabSize * Cardinality(InPlace("empty") \ {m})
          = SlabSize * Cardinality(InPlace("empty")) - SlabSize
    BY <2>1, SlabSets, CountLoses, SlabClassAssumption
  <2> QED BY <1>3, <1>4, <1>5, <2>2 DEF EmptyCount
<1>6. CASE place[m] # "empty"
  <2>1. InPlace("empty") \ {m} = InPlace("empty")
    BY <1>6 DEF InPlace
  <2> QED BY <1>3, <1>4, <1>6, <2>1 DEF EmptyCount
<1> QED BY <1>5, <1>6

\* The initial states.
LEMMA Init4 == Init => Sums
<1> SUFFICES ASSUME Init PROVE Sums
  OBVIOUS
<1>1. InPlace("empty") = {} /\ MappedSlabs = {} /\ live = {}
  BY DEF Init, InPlace, MappedSlabs
<1>2. Cardinality({}) = 0
  BY FS_EmptySet
<1>3. SlabSize * 0 = 0 /\ SlotSize * 0 = 0
  BY SlabClassAssumption
<1> QED BY <1>1, <1>2, <1>3 DEF Init, Sums, EmptyCount, SlotCount, SlabCount

\* malloc.
LEMMA Allocate4 ==
  ASSUME Inv4, \/ AllocateFromPartial \/ AllocateFromEmpty
               \/ AllocateFromFree \/ AllocateFromNew
  PROVE  Sums'
<1> USE DEF Inv4, Inv2, Inv1, Typed, ListInv
<1>1. CASE AllocateFromPartial
  <2>1. PICK m \in Slabs : m = partial_slabs
    BY <1>1 DEF AllocateFromPartial, TypedLists
  <2>2. PICK s \in get_free_slot(m) : TakePartialSlot(m, s)
    BY <1>1, <2>1 DEF AllocateFromPartial
  <2>3. SlotCount'
    BY <2>2, TakeCounts DEF TakePartialSlot
  <2>4. EmptyCount' /\ SlabCount'
    BY <2>2, PlacesUnchanged DEF TakePartialSlot, emptyListVars
  <2> QED BY <2>3, <2>4 DEF Sums
<1>2. CASE AllocateFromEmpty
  <2>1. PICK m \in Slabs : m = empty_slabs /\ place[m] = "empty"
    BY <1>2 DEF AllocateFromEmpty, TypedLists, EmptyInv, EmptyHead, Linked, Available
  <2>2. PICK s \in get_free_slot(m) : TakeEmptySlab(m, s)
    BY <1>2, <2>1 DEF AllocateFromEmpty
  <2>3. SlotCount'
    BY <2>2, TakeCounts DEF TakeEmptySlab
  <2>4. EmptyCount' /\ SlabCount'
    BY <2>1, <2>2, ReuseCounts DEF TakeEmptySlab, StartSlab
  <2> QED BY <2>3, <2>4 DEF Sums
<1>3. CASE AllocateFromFree
  <2>1. PICK m \in Slabs : m = free_slabs_head /\ place[m] = "free"
    BY <1>3 DEF AllocateFromFree, NeedsFreeSlab, TypedLists, FreeInv, Linked
  <2>2. PICK cv \in CanaryValues, s \in get_free_slot(m) : TakeFreeSlab(m, s, cv)
    BY <1>3, <2>1 DEF AllocateFromFree
  <2>3. SlotCount'
    BY <2>2, TakeCounts DEF TakeFreeSlab
  <2>4. EmptyCount' /\ SlabCount'
    BY <2>1, <2>2, MapCounts DEF TakeFreeSlab, StartSlab, emptyListVars
  <2> QED BY <2>3, <2>4 DEF Sums
<1>4. CASE AllocateFromNew
  <2>1. metadata_count \in Slabs
    BY <1>4, NewSlabCounts DEF AllocateFromNew, NeedsNewSlab
  <2>2. PICK m \in Slabs : m = metadata_count /\ place[m] = "unused"
    BY <2>1 DEF PlaceInv, Slabs
  <2>3. PICK cv \in CanaryValues, s \in get_free_slot(m) : TakeNewSlab(m, s, cv)
    BY <1>4, <2>2 DEF AllocateFromNew
  <2>4. SlotCount'
    BY <2>3, TakeCounts DEF TakeNewSlab
  <2>5. EmptyCount' /\ SlabCount'
    BY <2>2, <2>3, MapCounts DEF TakeNewSlab, StartSlab, emptyListVars
  <2> QED BY <2>4, <2>5 DEF Sums
<1> QED BY <1>1, <1>2, <1>3, <1>4

\* free.
LEMMA Deallocate4 ==
  ASSUME Inv4, NEW p \in Ptr, NEW r \in Ptr,
         \/ DeallocateHeld(p) \/ DeallocateRelease(p, r)
         \/ DeallocateFreesSlab(p, r) \/ DeallocateCachesSlab(p, r)
  PROVE  Sums'
<1> USE DEF Inv4
<1>1. SlotCount'
  BY FreeCounts DEF DeallocateHeld, DeallocateRelease, DeallocateFreesSlab,
         DeallocateCachesSlab, EmptySlab, Displace
<1>2. CASE DeallocateHeld(p) \/ DeallocateRelease(p, r)
  BY <1>1, <1>2, PlacesUnchanged
     DEF DeallocateHeld, DeallocateRelease, listVars, emptyListVars, Sums
<1>3. CASE DeallocateFreesSlab(p, r)
  <2>1. PICK m \in Slabs : m = r[1]
    BY <1>3, EmptySlabFacts DEF DeallocateFreesSlab
  <2>2. /\ place[m] = "inuse"
        /\ \A x \in Slabs : x # m /\ place[x] # "inuse" => UnlinkedNext(m)[x] = next[x]
        /\ UnlinkedNext(m) \in [Slabs -> Slabs \cup {NULL}]
    BY <1>3, <2>1, EmptySlabFacts DEF DeallocateFreesSlab
  <2>3. EnqueueFreeSlab(m, UnlinkedNext(m)) /\ stats_slab_deallocate
        /\ empty_slabs_total' = empty_slabs_total
    BY <1>3, <2>1 DEF DeallocateFreesSlab, emptyListVars
  <2>4. /\ place'[m] \in Retired
        /\ \A x \in Slabs : place[x] \in Retired => place'[x] \in Retired
        /\ \A x \in Slabs : x # m /\ place[x] \notin Retired => place'[x] = place[x]
    BY <2>2, <2>3, EnqueueKeeps DEF Inv2, Inv1, Typed, ListInv, Retired
  <2> QED BY <1>1, <2>2, <2>3, <2>4, UnmapCounts DEF Sums
<1>4. CASE DeallocateCachesSlab(p, r)
  <2>1. PICK m \in Slabs : m = r[1] /\ place[m] = "inuse"
    BY <1>4, EmptySlabFacts DEF DeallocateCachesSlab
  <2> QED BY <1>1, <1>4, <2>1, CacheCounts DEF DeallocateCachesSlab, Sums
<1> QED BY <1>2, <1>3, <1>4

\* h_malloc_trim.
LEMMA Trim4 == ASSUME Inv4, TrimStart \/ TrimSlab \/ TrimEnd PROVE Sums'
<1> USE DEF Inv4
<1>1. SlotCount'
  BY DEF TrimStart, TrimSlab, TrimEnd, Sums, SlotCount, statVars
<1>2. CASE TrimStart \/ TrimEnd
  BY <1>1, <1>2, PlacesUnchanged DEF TrimStart, TrimEnd, listVars, emptyListVars, statVars, Sums
<1>3. CASE TrimSlab
  <2>1. PICK m \in Slabs : m = iterator
    BY <1>3 DEF TrimSlab, Inv2, Inv1, Typed, TypedLists
  <2>2. EmptyHead = m /\ m # NULL
    BY <1>3, <2>1 DEF TrimSlab, EmptyHead
  <2>3. place[m] = "empty"
    BY <2>2 DEF Inv2, ListInv, EmptyInv, Linked
  <2>4. EnqueueFreeSlab(m, next) /\ stats_slab_deallocate
        /\ empty_slabs_total' = empty_slabs_total - SlabSize
    BY <1>3, <2>1 DEF TrimSlab
  <2>5. /\ place'[m] \in Retired
        /\ \A x \in Slabs : place[x] \in Retired => place'[x] \in Retired
        /\ \A x \in Slabs : x # m /\ place[x] \notin Retired => place'[x] = place[x]
    BY <2>3, <2>4, EnqueueEmptyKeeps DEF Inv2, Inv1, Typed, ListInv
  <2> QED BY <1>1, <2>3, <2>4, <2>5, UnmapCounts DEF Sums
<1> QED BY <1>2, <1>3

\* Every step preserves the fourth layer.
LEMMA Next4 == Inv4 /\ [Next]_vars => Inv4'
<1> SUFFICES ASSUME Inv4, [Next]_vars PROVE Inv4'
  OBVIOUS
<1>1. Inv2'
  BY Next2 DEF Inv4
<1> SUFFICES Sums'
  BY <1>1 DEF Inv4
<1>2. ASSUME UNCHANGED <<live, place, empty_slabs_total, allocated, slab_allocated>>
      PROVE  Sums'
  BY <1>2, PlacesUnchanged DEF Inv4, Sums, SlotCount
<1>3. CASE UNCHANGED vars
  BY <1>2, <1>3 DEF vars, listVars, emptyListVars, statVars
<1>4. CASE \/ AllocateFromPartial \/ AllocateFromEmpty \/ AllocateFromFree
           \/ AllocateFromNew
  BY <1>4, Allocate4
<1>5. CASE FreeSlabProtectFails \/ NewSlabProtectFails
  BY <1>2, <1>5 DEF FreeSlabProtectFails, NewSlabProtectFails, listVars, emptyListVars, statVars
<1>6. CASE \/ AllocateAborts
           \/ \E m \in InputSlabs, s \in InputSlots, aligned, sizeMatches \in BOOLEAN :
                DeallocateAborts(m, s, aligned, sizeMatches)
           \/ \E m \in InputSlabs, s \in InputSlots, aligned \in BOOLEAN :
                UsableSizeAborts(m, s, aligned)
  BY ZenonT(30), <1>2, <1>6 DEF AllocateAborts, DeallocateAborts, UsableSizeAborts, Fatal,
                    listVars, emptyListVars, statVars
<1>7. CASE \E p \in Ptr : DeallocateHeld(p)
  BY <1>7, Deallocate4
<1>8. CASE \E p, r \in Ptr : \/ DeallocateRelease(p, r) \/ DeallocateFreesSlab(p, r)
                             \/ DeallocateCachesSlab(p, r)
  BY <1>8, Deallocate4
<1>9. CASE TrimStart \/ TrimSlab \/ TrimEnd
  BY <1>9, Trim4
<1>10. CASE \E p \in Ptr : Write(p) \/ StrayWrite(p) \/ Overflow(p)
  BY <1>2, <1>10 DEF Write, StrayWrite, Overflow, listVars, emptyListVars, statVars
<1> QED BY <1>3, <1>4, <1>5, <1>6, <1>7, <1>8, <1>9, <1>10 DEF Next

\* The byte counts are exact in every reachable state.
THEOREM Layer4 == Spec => []Inv4
<1>1. Init => Inv4
  BY Init1, Init2, Init4 DEF Inv4, Inv2
<1>2. Inv4 /\ [Next]_vars => Inv4'
  BY Next4
<1> QED BY <1>1, <1>2, PTL DEF Spec

\* The statistics of mallinfo count exactly what the program owns and the
\* slabs that are mapped.
THEOREM StatsExactHolds == Spec => []StatsExact
<1>1. Inv4 => StatsExact
  BY DEF Inv4, Sums, SlotCount, SlabCount, MappedSlabs, StatsExact
<1> QED BY <1>1, Layer4, PTL

\* Types, including that the unsigned byte counts never go below zero.
THEOREM TypeOKHolds == Spec => []TypeOK
<1>1. Inv4 => TypeOK
  <2> SUFFICES ASSUME Inv4 PROVE TypeOK
    OBVIOUS
  <2>1. /\ Cardinality(InPlace("empty")) \in Nat /\ Cardinality(MappedSlabs) \in Nat
        /\ Cardinality(live) \in Nat
    BY SlabSets, FiniteSlots, FS_CardinalityType DEF Inv4, Inv2, Inv1, Typed, TypedSlots
  <2>2. empty_slabs_total \in Nat /\ allocated \in Nat /\ slab_allocated \in Nat
    BY <2>1, ProductStep, SlabClassAssumption
       DEF Inv4, Sums, EmptyCount, SlotCount, SlabCount
  <2> QED BY <2>2 DEF TypeOK, Inv4, Inv2, Inv1
<1> QED BY <1>1, Layer4, PTL

-----------------------------------------------------------------------------
(* The fifth layer: the lists *)

\* The slabs of S form one list from head along the links nx: the links stay
\* in S and lead away from head, and every slab but head has one to it.
Chained(S, head, nx) ==
  /\ head \in S \cup {NULL}
  /\ \A m \in S : nx[m] \in S \cup {NULL}
  /\ \A m \in S : m = head \/ \E x \in S : nx[x] = m
  /\ \E rank \in [Slabs -> Nat] :
       \A m \in S : nx[m] # NULL => rank[m] < rank[nx[m]]

PartialSlabs == {m \in Slabs : Partial(m)}

ChainInv ==
  /\ Chained(PartialSlabs, partial_slabs, next)
  /\ Chained(InPlace("empty"), EmptyHead, next)
  /\ Chained(InPlace("free"), free_slabs_head, next)

-----------------------------------------------------------------------------
(* The five ways a list changes *)

\* Links of other slabs do not matter to a list.
LEMMA ChainFrame ==
  ASSUME NEW S \in SUBSET Slabs, NEW head, NEW nx, NEW nx2,
         Chained(S, head, nx), \A x \in S : nx2[x] = nx[x]
  PROVE  Chained(S, head, nx2)
BY DEF Chained

\* The head leaves the list.
LEMMA ChainPop ==
  ASSUME NEW S \in SUBSET Slabs, NEW head \in S, NEW nx, NEW nx2,
         Chained(S, head, nx), \A x \in S \ {head} : nx2[x] = nx[x] /\ nx[x] # head
  PROVE  Chained(S \ {head}, nx[head], nx2)
<1>1. PICK rank \in [Slabs -> Nat] : \A m \in S : nx[m] # NULL => rank[m] < rank[nx[m]]
  BY DEF Chained
<1>2. nx[head] # head
  BY <1>1, SlabClassAssumption DEF Slabs
<1>3. \A m \in S \ {head} : nx2[m] # NULL => rank[m] < rank[nx2[m]]
  BY <1>1
<1> QED BY <1>2, <1>3 DEF Chained

\* A slab is pushed in front of the head.
LEMMA ChainPush ==
  ASSUME NEW S \in SUBSET Slabs, NEW head, NEW nx, NEW nx2, NEW m \in Slabs \ S,
         Chained(S, head, nx), nx2[m] = head, \A x \in S : nx2[x] = nx[x]
  PROVE  Chained(S \cup {m}, m, nx2)
<1>1. PICK rank \in [Slabs -> Nat] : \A x \in S : nx[x] # NULL => rank[x] < rank[nx[x]]
  BY DEF Chained
<1> DEFINE r == [x \in Slabs |-> IF x = m THEN 0 ELSE rank[x] + 1]
<1>2. r \in [Slabs -> Nat]
  OBVIOUS
<1>3. \A x \in S : nx2[x] # NULL => r[x] < r[nx2[x]]
  BY <1>1 DEF Chained
<1>4. nx2[m] # NULL => r[m] < r[nx2[m]]
  BY DEF Chained
<1>5. \A x \in S \cup {m} : nx2[x] # NULL => r[x] < r[nx2[x]]
  BY <1>3, <1>4
<1> HIDE DEF r
<1> QED BY <1>2, <1>5 DEF Chained

\* A slab is appended after the last one.
LEMMA ChainAppend ==
  ASSUME NEW S \in SUBSET Slabs, NEW head, NEW nx, NEW nx2, NEW m \in Slabs \ S,
         NEW last \in S, Chained(S, head, nx), nx[last] = NULL,
         nx2[last] = m, nx2[m] = NULL, \A x \in S \ {last} : nx2[x] = nx[x]
  PROVE  Chained(S \cup {m}, head, nx2)
<1>1. PICK rank \in [Slabs -> Nat] : \A x \in S : nx[x] # NULL => rank[x] < rank[nx[x]]
  BY DEF Chained
<1> DEFINE r == [rank EXCEPT ![m] = rank[last] + 1]
<1>2. r \in [Slabs -> Nat]
  OBVIOUS
<1>3. \A x \in S \cup {m} : nx2[x] # NULL => r[x] < r[nx2[x]]
  BY <1>1 DEF Chained
<1> HIDE DEF r
<1>4. \A x \in S : x = head \/ \E y \in S \cup {m} : nx2[y] = x
  <2> TAKE x \in S
  <2>1. SUFFICES ASSUME x # head PROVE \E y \in S : nx2[y] = x
    OBVIOUS
  <2>2. PICK y \in S : nx[y] = x
    BY <2>1 DEF Chained
  <2>3. y # last
    BY <2>2, SlabClassAssumption
  <2> QED BY <2>2, <2>3
<1> QED BY <1>2, <1>3, <1>4 DEF Chained

\* A slab behind another one is unlinked.
LEMMA ChainUnlink ==
  ASSUME NEW S \in SUBSET Slabs, NEW head, NEW nx, NEW nx2, NEW m \in S, NEW before \in S,
         m # head, Chained(S, head, nx), nx[before] = m, nx2[before] = nx[m],
         \A x \in S \ {m, before} : nx2[x] = nx[x] /\ nx[x] # m
  PROVE  Chained(S \ {m}, head, nx2)
<1>1. PICK rank \in [Slabs -> Nat] : \A x \in S : nx[x] # NULL => rank[x] < rank[nx[x]]
  BY DEF Chained
<1>2. before # m /\ nx[m] # m /\ m # NULL
  BY <1>1, SlabClassAssumption
<1>3. nx[m] # NULL => nx[m] \in S /\ rank[before] < rank[nx[m]]
  BY <1>1, <1>2 DEF Chained
<1>4. \A x \in S \ {m} : nx2[x] # NULL => rank[x] < rank[nx2[x]]
  BY <1>1, <1>3
<1>5. \A x \in S \ {m} : nx2[x] \in (S \ {m}) \cup {NULL}
  BY <1>2 DEF Chained
<1>6. \A x \in S \ {m} : x = head \/ \E y \in S \ {m} : nx2[y] = x
  <2> TAKE x \in S \ {m}
  <2>1. SUFFICES ASSUME x # head PROVE \E y \in S \ {m} : nx2[y] = x
    OBVIOUS
  <2>2. PICK y \in S : nx[y] = x
    BY <2>1 DEF Chained
  <2>3. CASE y = m
    BY <1>2, <2>2, <2>3
  <2>4. CASE y # m
    BY <2>2, <2>4
  <2> QED BY <2>3, <2>4
<1> QED BY <1>4, <1>5, <1>6 DEF Chained

-----------------------------------------------------------------------------
(* The chain of next pointers visits the list *)

\* A nonempty set of natural numbers has a least element.
LEMMA LeastNat ==
  ASSUME NEW T \in SUBSET Nat, T # {} PROVE \E x \in T : \A y \in T : x <= y
<1>1. IsWellFoundedOn(OpToRel(<, Nat), Nat)
  BY NatLessThanWellFounded
<1>2. PICK x \in T : \A y \in T : ~(<<y, x>> \in OpToRel(<, Nat))
  BY <1>1, WFMin
<1>3. \A y \in T : ~(y < x)
  BY <1>2 DEF OpToRel
<1> QED BY <1>3

\* Some function visits n steps from h.
Walk(X, h, step, n) ==
  \E g \in [0 .. n -> X] : g[0] = h /\ \A k \in 1 .. n : g[k] = step[g[k-1]]

\* From any slab, the links can be followed for any number of steps.
LEMMA ChainExists ==
  ASSUME NEW X, NEW h \in X, NEW step \in [X -> X], NEW N \in Nat
  PROVE  Walk(X, h, step, N)
<1> DEFINE Follows(n) == Walk(X, h, step, n)
           T == {n \in Nat : ~Follows(n)}
<1>1. SUFFICES ASSUME ~Follows(N) PROVE FALSE
  OBVIOUS
<1>2. PICK n \in T : \A y \in T : n <= y
  <2>1. N \in T
    BY <1>1
  <2> HIDE DEF T
  <2>2. T \in SUBSET Nat
    BY DEF T
  <2> QED BY <2>1, <2>2, LeastNat
<1>3. Follows(0)
  <2> DEFINE g == [k \in 0 .. 0 |-> h]
  <2>1. g \in [0 .. 0 -> X] /\ g[0] = h /\ \A k \in 1 .. 0 : g[k] = step[g[k-1]]
    OBVIOUS
  <2> HIDE DEF g
  <2> QED BY <2>1 DEF Walk
<1>4. n \in Nat /\ n # 0 /\ n - 1 \in Nat /\ ~Follows(n)
  <2> HIDE DEF Follows
  <2> QED BY <1>2, <1>3
<1>5. Follows(n - 1)
  <2> HIDE DEF Follows
  <2>1. n - 1 \notin T
    BY <1>2, <1>4
  <2> QED BY <1>4, <2>1
<1>6. PICK g \in [0 .. n - 1 -> X] : g[0] = h /\ \A k \in 1 .. n - 1 : g[k] = step[g[k-1]]
  BY <1>5 DEF Walk
<1> DEFINE e == [k \in 0 .. n |-> IF k = n THEN step[g[n-1]] ELSE g[k]]
<1>7. e \in [0 .. n -> X] /\ e[0] = h
  BY <1>4, <1>6
<1>8. \A k \in 1 .. n : e[k] = step[e[k-1]]
  BY <1>4, <1>6
<1>9. Follows(n)
  <2> HIDE DEF e
  <2> QED BY <1>7, <1>8 DEF Walk
<1> QED BY <1>4, <1>9

\* The chain from h stays in S and satisfies the equation that defines it.
ChainEquation(S, h) ==
  /\ Chain(h) \in [0 .. MetadataMax -> S \cup {NULL}]
  /\ Chain(h)[0] = h
  /\ \A k \in 1 .. MetadataMax :
       Chain(h)[k] = IF Chain(h)[k-1] = NULL THEN NULL ELSE next[Chain(h)[k-1]]

\* The definition of the chain is a proper recursion.
LEMMA ChainSteps ==
  ASSUME NEW S \in SUBSET Slabs, NEW h, Chained(S, h, next)
  PROVE  ChainEquation(S, h)
<1> DEFINE X == S \cup {NULL}
           step == [x \in X |-> IF x = NULL THEN NULL ELSE next[x]]
<1>1. h \in X /\ step \in [X -> X]
  BY DEF Chained
<1>2. PICK g \in [0 .. MetadataMax -> X] :
        g[0] = h /\ \A k \in 1 .. MetadataMax : g[k] = step[g[k-1]]
  <2>1. MetadataMax \in Nat
    BY SlabClassAssumption
  <2>2. Walk(X, h, step, MetadataMax)
    <3> HIDE DEF X, step
    <3> QED BY <1>1, <2>1, ChainExists
  <2> QED BY <2>2 DEF Walk
<1>3. \A k \in 1 .. MetadataMax : g[k] = IF g[k-1] = NULL THEN NULL ELSE next[g[k-1]]
  <2> TAKE k \in 1 .. MetadataMax
  <2>1. g[k-1] \in X
    BY SlabClassAssumption
  <2> QED BY <1>2, <2>1
<1>4. g = [k \in 0 .. MetadataMax |->
             IF k = 0 THEN h ELSE IF g[k-1] = NULL THEN NULL ELSE next[g[k-1]]]
  BY <1>2, <1>3, SlabClassAssumption
<1> HIDE DEF X, step
<1>5. Chain(h) = [k \in 0 .. MetadataMax |->
                    IF k = 0 THEN h
                    ELSE IF Chain(h)[k-1] = NULL THEN NULL ELSE next[Chain(h)[k-1]]]
  BY <1>4 DEF Chain
<1>6. /\ Chain(h)[0] = h
      /\ \A k \in 1 .. MetadataMax :
           Chain(h)[k] = IF Chain(h)[k-1] = NULL THEN NULL ELSE next[Chain(h)[k-1]]
  BY <1>5, SlabClassAssumption
<1> DEFINE Bad == {k \in 0 .. MetadataMax : Chain(h)[k] \notin S \cup {NULL}}
<1>7. Bad = {}
  <2> SUFFICES ASSUME Bad # {} PROVE FALSE
    OBVIOUS
  <2>1. PICK k \in Bad : \A y \in Bad : k <= y
    <3>1. Bad \in SUBSET Nat
      BY SlabClassAssumption
    <3> HIDE DEF Bad
    <3> QED BY <3>1, LeastNat
  <2>2. k \in 1 .. MetadataMax /\ k - 1 \notin Bad /\ k - 1 \in 0 .. MetadataMax
    BY <2>1, <1>1, <1>6, SlabClassAssumption DEF X
  <2>3. Chain(h)[k-1] \in S \cup {NULL}
    BY <2>2
  <2> QED BY <1>6, <2>1, <2>2, <2>3 DEF Chained
<1> HIDE DEF Bad
<1>8. \A k \in 0 .. MetadataMax : Chain(h)[k] \in S \cup {NULL}
  BY <1>7 DEF Bad
<1>9. Chain(h) \in [0 .. MetadataMax -> S \cup {NULL}]
  BY <1>5, <1>8
<1> QED BY <1>6, <1>9 DEF ChainEquation

\* The chain ends, and visits exactly the slabs of the list.
LEMMA ChainVisits ==
  ASSUME NEW S \in SUBSET Slabs, NEW h, Chained(S, h, next)
  PROVE  Acyclic(h) /\ Members(h) = S
<1> DEFINE f == Chain(h)
           M == MetadataMax
<1>1. /\ f \in [0 .. M -> S \cup {NULL}] /\ f[0] = h
      /\ \A k \in 1 .. M : f[k] = IF f[k-1] = NULL THEN NULL ELSE next[f[k-1]]
  <2>1. ChainEquation(S, h)
    BY ChainSteps
  <2> QED BY <2>1 DEF ChainEquation
<1>2. PICK rank \in [Slabs -> Nat] : \A m \in S : next[m] # NULL => rank[m] < rank[next[m]]
  BY DEF Chained
<1>3. /\ M \in Nat \ {0} /\ NULL \notin S
  BY SlabClassAssumption
<1> HIDE DEF f, M
<1>4. f[M] = NULL
  <2> SUFFICES ASSUME f[M] # NULL PROVE FALSE
    OBVIOUS
  <2> DEFINE Full == {k \in 0 .. M : f[M - k] = NULL}
  <2>1. Full = {}
    <3> SUFFICES ASSUME Full # {} PROVE FALSE
      OBVIOUS
    <3>1. PICK k \in Full : \A y \in Full : k <= y
      <4>1. Full \in SUBSET Nat
        BY <1>3
      <4> HIDE DEF Full
      <4> QED BY <4>1, LeastNat
    <3>2. k # 0 /\ k - 1 \in 0 .. M /\ k - 1 \notin Full
      BY <1>3, <3>1
    <3>3. f[M - (k - 1)] # NULL /\ M - (k - 1) \in 1 .. M /\ (M - (k - 1)) - 1 = M - k
      BY <1>3, <3>1, <3>2
    <3> QED BY <1>1, <3>1, <3>3
  <2>2. \A k \in 0 .. M : f[k] \in S
    <3> TAKE k \in 0 .. M
    <3>1. M - k \in 0 .. M /\ M - (M - k) = k
      BY <1>3
    <3>2. M - k \notin Full
      BY <2>1
    <3> QED BY <1>1, <3>1, <3>2
  <2> HIDE DEF Full
  <2>3. \A k \in 1 .. M : rank[f[k-1]] < rank[f[k]]
    <3> TAKE k \in 1 .. M
    <3>1. k - 1 \in 0 .. M /\ k \in 0 .. M
      BY <1>3
    <3> QED BY <1>1, <1>2, <1>3, <2>2, <3>1
  <2> DEFINE Low == {j \in 0 .. M : \E i \in 0 .. j - 1 : ~(rank[f[i]] < rank[f[j]])}
  <2>4. Low = {}
    <3> SUFFICES ASSUME Low # {} PROVE FALSE
      OBVIOUS
    <3>1. PICK j \in Low : \A y \in Low : j <= y
      <4>1. Low \in SUBSET Nat
        BY <1>3
      <4> HIDE DEF Low
      <4> QED BY <4>1, LeastNat
    <3>2. PICK i \in 0 .. j - 1 : ~(rank[f[i]] < rank[f[j]])
      BY <3>1
    <3>3. j \in 1 .. M /\ j - 1 \in 0 .. M /\ j - 1 \notin Low /\ i \in 0 .. M /\ j \in 0 .. M
      BY <1>3, <3>1, <3>2
    <3>4. rank[f[j-1]] < rank[f[j]]
      BY <2>3, <3>3
    <3>5. i # j - 1
      BY <3>2, <3>4
    <3>6. rank[f[i]] < rank[f[j-1]]
      BY <3>2, <3>3, <3>5
    <3>7. rank[f[i]] \in Nat /\ rank[f[j-1]] \in Nat /\ rank[f[j]] \in Nat
      BY <2>2, <3>3
    <3> QED BY <3>2, <3>4, <3>6, <3>7
  <2>5. \A i, j \in 0 .. M : f[i] = f[j] => i = j
    <3> SUFFICES ASSUME NEW i \in 0 .. M, NEW j \in 0 .. M, i < j, f[i] = f[j] PROVE FALSE
      BY <1>3
    <3>1. rank[f[i]] < rank[f[j]]
      BY <1>3, <2>4
    <3>2. rank[f[j]] \in Nat
      BY <2>2
    <3> QED BY <3>1, <3>2
  <2> HIDE DEF Low
  <2>6. IsFiniteSet(Slabs) /\ Cardinality(Slabs) = M
    BY FS_Interval, <1>3 DEF Slabs, M
  <2>7. IsFiniteSet(0 .. M) /\ Cardinality(0 .. M) = M + 1
    BY FS_Interval, <1>3
  <2>8. f \in [0 .. M -> Slabs]
    BY <1>1, <2>2
  <2>9. f \in Injection(0 .. M, Slabs)
    BY <2>5, <2>8 DEF Injection, IsInjective
  <2>10. Cardinality(0 .. M) <= Cardinality(Slabs)
    BY <2>6, <2>9, FS_Injection DEF ExistsInjection
  <2> QED BY <1>3, <2>6, <2>7, <2>10
<1>5. \A k \in 0 .. M : f[k] # NULL => f[k] \in S
  BY <1>1
<1>6. ASSUME NEW m \in S PROVE \E k \in 0 .. M : f[k] = m
  <2> DEFINE Missed == {n \in Nat : \E x \in S : rank[x] = n /\ \A k \in 0 .. M : f[k] # x}
  <2> SUFFICES ASSUME Missed # {} PROVE FALSE
    <3>1. rank[m] \in Nat
      OBVIOUS
    <3> QED BY <1>6, <3>1
  <2>1. PICK n \in Missed : \A y \in Missed : n <= y
    BY LeastNat
  <2>2. PICK x \in S : rank[x] = n /\ \A k \in 0 .. M : f[k] # x
    BY <2>1
  <2>3. x # h
    BY <1>1, <1>3, <2>2
  <2>4. PICK y \in S : next[y] = x
    BY <2>2, <2>3 DEF Chained
  <2>5. rank[y] < rank[x] /\ rank[y] \in Nat /\ rank[x] \in Nat
    BY <1>2, <1>3, <2>2, <2>4
  <2>6. rank[y] \notin Missed
    BY <2>1, <2>2, <2>5
  <2>7. PICK k \in 0 .. M : f[k] = y
    BY <2>5, <2>6
  <2>8. k # M
    BY <1>3, <1>4, <2>7
  <2>9. k + 1 \in 1 .. M /\ (k + 1) - 1 = k
    BY <1>3, <2>8
  <2>10. f[k + 1] = IF f[k] = NULL THEN NULL ELSE next[f[k]]
    BY <1>1, <2>9
  <2>11. f[k + 1] = x /\ k + 1 \in 0 .. M
    BY <1>3, <2>4, <2>7, <2>9, <2>10
  <2> QED BY <2>2, <2>11
<1>7. Members(h) = S
  <2>1. Members(h) = {f[k] : k \in 0 .. M} \ {NULL}
    BY DEF Members, f, M
  <2> QED BY <1>3, <1>5, <1>6, <2>1
<1> QED BY <1>4, <1>7 DEF Acyclic, f, M

-----------------------------------------------------------------------------
(* The actions *)

\* Without a head there is no list.
LEMMA ChainEmpty ==
  ASSUME NEW S \in SUBSET Slabs, NEW nx, Chained(S, NULL, nx) PROVE S = {}
<1> SUFFICES ASSUME S # {} PROVE FALSE
  OBVIOUS
<1>1. PICK rank \in [Slabs -> Nat] : \A m \in S : nx[m] # NULL => rank[m] < rank[nx[m]]
  BY DEF Chained
<1> DEFINE T == {rank[x] : x \in S}
<1>2. PICK n \in T : \A y \in T : n <= y
  <2>1. T \in SUBSET Nat /\ T # {}
    OBVIOUS
  <2> HIDE DEF T
  <2> QED BY <2>1, LeastNat
<1>3. PICK m \in S : rank[m] = n
  BY <1>2
<1>4. PICK x \in S : nx[x] = m
  BY SlabClassAssumption DEF Chained
<1>5. rank[x] < rank[m] /\ rank[x] \in T
  BY <1>1, <1>4, SlabClassAssumption
<1>6. n <= rank[x] /\ rank[x] \in Nat /\ rank[m] \in Nat
  BY <1>2, <1>5
<1> QED BY <1>3, <1>5, <1>6

\* The empty list, and the list of one slab.
LEMMA ChainNew ==
  ASSUME NEW nx
  PROVE  /\ Chained({}, NULL, nx)
         /\ \A m \in Slabs : nx[m] = NULL => Chained({m}, m, nx)
<1>1. [x \in Slabs |-> 0] \in [Slabs -> Nat]
  OBVIOUS
<1>2. Chained({}, NULL, nx)
  BY <1>1 DEF Chained
<1>3. ASSUME NEW m \in Slabs, nx[m] = NULL PROVE Chained({m}, m, nx)
  BY <1>1, <1>3 DEF Chained
<1> QED BY <1>2, <1>3

Inv5 == Inv2 /\ ChainInv

\* The sets of slabs that are listed.
LEMMA ListSets ==
  /\ PartialSlabs \in SUBSET Slabs /\ InPlace("empty") \in SUBSET Slabs
  /\ InPlace("free") \in SUBSET Slabs
BY DEF PartialSlabs, InPlace

\* A slab without used slots becomes the first partial slab.
LEMMA StartChain ==
  ASSUME Inv5, NEW m \in Slabs, count[m] = 0, partial_slabs = NULL,
         count' = [count EXCEPT ![m] = @ + 1], StartSlab(m), next'[m] = NULL
  PROVE  Chained(PartialSlabs', partial_slabs', next')
<1>1. PartialSlabs = {}
  BY ListSets, ChainEmpty DEF Inv5, ChainInv
<1>2. count'[m] = 1 /\ \A x \in Slabs : x # m => count'[x] = count[x]
  BY DEF Inv5, Inv2, Inv1, Typed, TypedSlots
<1>3. PartialSlabs' = IF Slots > 1 THEN {m} ELSE {}
  BY <1>1, <1>2 DEF PartialSlabs, Partial
<1>4. partial_slabs' = IF Slots > 1 THEN m ELSE NULL
  BY DEF StartSlab
<1> QED BY <1>3, <1>4, ChainNew

\* A step that touches no cached empty slab leaves their list alone.
LEMMA EmptyChainFrame ==
  ASSUME Inv5, EmptyHead' = EmptyHead,
         \A x \in Slabs : place[x] = "empty" => place'[x] = "empty" /\ next'[x] = next[x],
         \A x \in Slabs : place'[x] = "empty" => place[x] = "empty"
  PROVE  Chained(InPlace("empty")', EmptyHead', next')
<1>1. InPlace("empty")' = InPlace("empty") /\ \A x \in InPlace("empty") : next'[x] = next[x]
  BY DEF InPlace
<1> QED BY <1>1, ListSets, ChainFrame DEF Inv5, ChainInv

\* The same for the free slabs.
LEMMA FreeChainFrame ==
  ASSUME Inv5, free_slabs_head' = free_slabs_head,
         \A x \in Slabs : place[x] = "free" => place'[x] = "free" /\ next'[x] = next[x],
         \A x \in Slabs : place'[x] = "free" => place[x] = "free"
  PROVE  Chained(InPlace("free")', free_slabs_head', next')
<1>1. InPlace("free")' = InPlace("free") /\ \A x \in InPlace("free") : next'[x] = next[x]
  BY DEF InPlace
<1> QED BY <1>1, ListSets, ChainFrame DEF Inv5, ChainInv

\* The same for the partial slabs.
LEMMA PartialChainFrame ==
  ASSUME Inv5, partial_slabs' = partial_slabs,
         \A x \in Slabs : Partial(x)' <=> Partial(x),
         \A x \in Slabs : Partial(x) => next'[x] = next[x]
  PROVE  Chained(PartialSlabs', partial_slabs', next')
<1>1. PartialSlabs' = PartialSlabs /\ \A x \in PartialSlabs : next'[x] = next[x]
  BY DEF PartialSlabs
<1> QED BY <1>1, ListSets, ChainFrame DEF Inv5, ChainInv

\* The head of the cached empty slabs leaves the list.
LEMMA EmptyChainPop ==
  ASSUME Inv5, NEW m \in Slabs, m = EmptyHead, EmptyHead' = next[m],
         \A x \in Slabs : place'[x] = "empty" <=> place[x] = "empty" /\ x # m,
         \A x \in Slabs : place[x] = "empty" /\ x # m => next'[x] = next[x]
  PROVE  Chained(InPlace("empty")', EmptyHead', next')
<1>1. m \in InPlace("empty") /\ InPlace("empty")' = InPlace("empty") \ {m}
  BY SlabClassAssumption DEF InPlace, Inv5, Inv2, ListInv, EmptyInv, Linked
<1>2. \A x \in InPlace("empty") \ {m} : next'[x] = next[x] /\ next[x] # m
  BY SlabClassAssumption DEF InPlace, Inv5, Inv2, ListInv, EmptyInv, Linked
<1>3. Chained(InPlace("empty"), m, next)
  BY DEF Inv5, ChainInv
<1>4. Chained(InPlace("empty") \ {m}, next[m], next')
  BY <1>1, <1>2, <1>3, ListSets, ChainPop
<1> QED BY <1>1, <1>4

\* malloc takes a cached empty slab.
LEMMA AllocateFromEmpty5 ==
  ASSUME Inv5, AllocateFromEmpty PROVE ChainInv'
<1> USE DEF Inv2, Inv1, Typed, ListInv
<1>0. Inv2
  BY DEF Inv5
<1> DEFINE m == empty_slabs
<1>1. m \in Slabs /\ partial_slabs = NULL /\ ~trimming
  BY <1>0 DEF AllocateFromEmpty, TypedLists, Available
<1>2. EmptyHead = m /\ place[m] = "empty"
  BY <1>0, <1>1 DEF EmptyHead, EmptyInv, Linked, AllocateFromEmpty
<1>3. count[m] = 0
  BY <1>0, <1>1, <1>2, UnusedIsEmpty
<1>4. PICK s \in get_free_slot(m) : TakeEmptySlab(m, s)
  BY DEF AllocateFromEmpty
<1>5. /\ next' = [next EXCEPT ![m] = NULL]
      /\ count' = [count EXCEPT ![m] = @ + 1] /\ place' = [place EXCEPT ![m] = "inuse"]
      /\ empty_slabs' = next[m] /\ trimming' = trimming /\ StartSlab(m)
      /\ free_slabs_head' = free_slabs_head
  BY <1>4 DEF TakeEmptySlab, TakeSlot, StartSlab, trimVars, freeListVars
<1>6. /\ next'[m] = NULL /\ place'[m] = "inuse"
      /\ \A x \in Slabs : x # m => next'[x] = next[x] /\ place'[x] = place[x]
  BY <1>0, <1>1, <1>5 DEF TypedLists
<1>7. Chained(PartialSlabs', partial_slabs', next')
  BY <1>1, <1>3, <1>5, <1>6, StartChain
<1>8. Chained(InPlace("empty")', EmptyHead', next')
  <2>1. EmptyHead' = next[m]
    BY <1>1, <1>5 DEF EmptyHead
  <2>2. /\ \A x \in Slabs : place'[x] = "empty" <=> place[x] = "empty" /\ x # m
        /\ \A x \in Slabs : place[x] = "empty" /\ x # m => next'[x] = next[x]
    BY <1>6
  <2> QED BY <1>1, <1>2, <2>1, <2>2, EmptyChainPop
<1>9. Chained(InPlace("free")', free_slabs_head', next')
  BY <1>2, <1>5, <1>6, FreeChainFrame
<1> QED BY <1>7, <1>8, <1>9 DEF ChainInv

\* malloc takes the oldest free slab.
LEMMA AllocateFromFree5 ==
  ASSUME Inv5, AllocateFromFree PROVE ChainInv'
<1> USE DEF Inv2, Inv1, Typed, ListInv
<1>0. Inv2
  BY DEF Inv5
<1> DEFINE m == free_slabs_head
<1>1. m \in Slabs /\ m # NULL /\ partial_slabs = NULL /\ ~trimming
  BY <1>0, SlabClassAssumption DEF AllocateFromFree, NeedsFreeSlab, TypedLists, Available
<1>2. place[m] = "free"
  BY <1>0, <1>1 DEF FreeInv, Linked
<1>3. count[m] = 0
  BY <1>0, <1>1, <1>2, UnusedIsEmpty
<1>4. PICK cv \in CanaryValues, s \in get_free_slot(m) : TakeFreeSlab(m, s, cv)
  BY DEF AllocateFromFree
<1>5. /\ next' = [next EXCEPT ![m] = NULL]
      /\ count' = [count EXCEPT ![m] = @ + 1] /\ place' = [place EXCEPT ![m] = "inuse"]
      /\ free_slabs_head' = next[m] /\ StartSlab(m)
      /\ UNCHANGED <<empty_slabs, trimming, iterator>>
  BY <1>4 DEF TakeFreeSlab, TakeSlot, StartSlab, trimVars, emptyListVars
<1>6. /\ next'[m] = NULL /\ place'[m] = "inuse"
      /\ \A x \in Slabs : x # m => next'[x] = next[x] /\ place'[x] = place[x]
  BY <1>0, <1>1, <1>5 DEF TypedLists
<1>7. Chained(PartialSlabs', partial_slabs', next')
  BY <1>1, <1>3, <1>5, <1>6, StartChain
<1>8. Chained(InPlace("empty")', EmptyHead', next')
  <2>1. EmptyHead' = EmptyHead
    BY <1>5 DEF EmptyHead
  <2> QED BY <1>2, <1>6, <2>1, EmptyChainFrame
<1>9. Chained(InPlace("free")', free_slabs_head', next')
  <2>1. m \in InPlace("free") /\ InPlace("free")' = InPlace("free") \ {m}
    BY <1>1, <1>2, <1>6 DEF InPlace
  <2>2. \A x \in InPlace("free") \ {m} : next'[x] = next[x] /\ next[x] # m
    BY <1>0, <1>1, <1>6 DEF InPlace, FreeInv, Linked
  <2>3. Chained(InPlace("free"), m, next)
    BY DEF Inv5, ChainInv
  <2>4. Chained(InPlace("free") \ {m}, next[m], next')
    BY <2>1, <2>2, <2>3, ListSets, ChainPop
  <2> QED BY <1>5, <2>1, <2>4
<1> QED BY <1>7, <1>8, <1>9 DEF ChainInv

\* malloc puts a new slab into use.
LEMMA AllocateFromNew5 ==
  ASSUME Inv5, AllocateFromNew PROVE ChainInv'
<1> USE DEF Inv2, Inv1, Typed, ListInv
<1>0. Inv2
  BY DEF Inv5
<1> DEFINE m == metadata_count
<1>1. m \in Slabs /\ partial_slabs = NULL
  BY <1>0, NewSlabCounts DEF AllocateFromNew, NeedsNewSlab
<1>2. place[m] = "unused" /\ next[m] = NULL
  BY <1>0, <1>1 DEF PlaceInv, Slabs
<1>3. count[m] = 0
  BY <1>0, <1>1, <1>2, UnusedIsEmpty
<1>4. PICK cv \in CanaryValues, s \in get_free_slot(m) : TakeNewSlab(m, s, cv)
  BY DEF AllocateFromNew
<1>5. /\ next' = next
      /\ count' = [count EXCEPT ![m] = @ + 1] /\ place' = [place EXCEPT ![m] = "inuse"]
      /\ StartSlab(m) /\ UNCHANGED <<empty_slabs, trimming, iterator, free_slabs_head>>
  BY <1>4 DEF TakeNewSlab, TakeSlot, StartSlab, trimVars, emptyListVars, freeListVars
<1>6. /\ place'[m] = "inuse" /\ next'[m] = NULL
      /\ \A x \in Slabs : x # m => next'[x] = next[x] /\ place'[x] = place[x]
  BY <1>0, <1>1, <1>2, <1>5 DEF TypedLists
<1>7. Chained(PartialSlabs', partial_slabs', next')
  BY <1>1, <1>3, <1>5, <1>6, StartChain
<1>8. Chained(InPlace("empty")', EmptyHead', next')
  <2>1. EmptyHead' = EmptyHead
    BY <1>5 DEF EmptyHead
  <2> QED BY <1>2, <1>6, <2>1, EmptyChainFrame
<1>9. Chained(InPlace("free")', free_slabs_head', next')
  BY <1>2, <1>5, <1>6, FreeChainFrame
<1> QED BY <1>7, <1>8, <1>9 DEF ChainInv

\* malloc takes a slot of the first partial slab.
LEMMA AllocateFromPartial5 ==
  ASSUME Inv5, AllocateFromPartial PROVE ChainInv'
<1> USE SlabClassAssumption DEF Inv2, Inv1, Typed, ListInv
<1>0. Inv2
  BY DEF Inv5
<1>1. PICK m \in Slabs : m = partial_slabs
  BY <1>0 DEF AllocateFromPartial, TypedLists
<1>2. Partial(m) /\ prev[m] = NULL
  BY <1>0, <1>1 DEF PartialInv
<1>3. PICK s \in get_free_slot(m) : TakePartialSlot(m, s)
  BY <1>1 DEF AllocateFromPartial
<1>4. /\ count' = [count EXCEPT ![m] = @ + 1] /\ next' = next /\ place' = place
      /\ partial_slabs' = IF count[m] + 1 >= Slots THEN next[m] ELSE m
      /\ UNCHANGED <<empty_slabs, free_slabs_head, trimming, iterator>>
  BY <1>3 DEF TakePartialSlot, TakeSlot, trimVars, emptyListVars, freeListVars
<1>5. \A x \in Slabs : x # m => count'[x] = count[x]
  BY <1>0, <1>4 DEF TypedSlots
<1>6. count'[m] = count[m] + 1 /\ count[m] \in 1 .. Slots - 1
  BY <1>0, <1>1, <1>2, <1>4 DEF TypedSlots, Partial
<1>7. Chained(PartialSlabs', partial_slabs', next')
  <2>1. CASE count[m] + 1 < Slots
    <3>1. \A x \in Slabs : Partial(x)' <=> Partial(x)
      BY <1>2, <1>5, <1>6, <2>1 DEF Partial
    <3>2. partial_slabs' = partial_slabs
      BY <1>1, <1>4, <1>6, <2>1
    <3> QED BY <1>4, <3>1, <3>2, PartialChainFrame
  <2>2. CASE ~(count[m] + 1 < Slots)
    <3>1. m \in PartialSlabs /\ PartialSlabs' = PartialSlabs \ {m}
      BY <1>2, <1>5, <1>6, <2>2 DEF PartialSlabs, Partial
    <3>2. \A x \in PartialSlabs \ {m} : next'[x] = next[x] /\ next[x] # m
      BY <1>0, <1>2, <1>4 DEF PartialSlabs, PartialInv
    <3>3. Chained(PartialSlabs, m, next)
      BY <1>1 DEF Inv5, ChainInv
    <3>4. Chained(PartialSlabs \ {m}, next[m], next')
      BY <3>1, <3>2, <3>3, ListSets, ChainPop
    <3> QED BY <1>4, <1>6, <2>2, <3>1, <3>4
  <2> QED BY <2>1, <2>2
<1>8. EmptyHead' = EmptyHead /\ InPlace("empty")' = InPlace("empty")
      /\ InPlace("free")' = InPlace("free")
  BY <1>4 DEF EmptyHead, InPlace
<1> QED BY <1>4, <1>7, <1>8 DEF ChainInv, Inv5

\* A free makes a slot reusable while others of its slab stay in use.
LEMMA DeallocateRelease5 ==
  ASSUME Inv5, NEW p \in Ptr, NEW r \in Ptr, DeallocateRelease(p, r)
  PROVE  ChainInv'
<1> USE SlabClassAssumption DEF Inv2, Inv1, Typed, ListInv
<1>0. Inv2
  BY DEF Inv5
<1>1. PICK m \in Slabs : m = r[1]
  BY <1>0, DisplaceFacts DEF DeallocateRelease
<1>2. /\ place[m] = "inuse" /\ ~trimming /\ count' = [count EXCEPT ![m] = @ - 1]
      /\ count[m] \in 2 .. Slots
      /\ UNCHANGED <<trimming, iterator>>
  BY <1>0, <1>1, DisplaceFacts DEF DeallocateRelease
<1>3. /\ next' = PushedNext(m) /\ partial_slabs' = PushedHead(m)
      /\ UNCHANGED <<empty_slabs, free_slabs_head, place>>
  BY <1>1 DEF DeallocateRelease, emptyListVars, freeListVars
<1>4. count'[m] = count[m] - 1 /\ \A x \in Slabs : x # m => count'[x] = count[x]
  BY <1>0, <1>2 DEF TypedSlots
<1>5. \A x \in Slabs : x # m => next'[x] = next[x]
  BY <1>0, <1>3 DEF PushedNext, TypedLists
<1>6. Chained(PartialSlabs', partial_slabs', next')
  <2>1. CASE has_free_slots(m)
    <3>1. \A x \in Slabs : Partial(x)' <=> Partial(x)
      BY <1>2, <1>4, <2>1 DEF Partial, has_free_slots
    <3>2. next' = next /\ partial_slabs' = partial_slabs
      BY <1>3, <2>1 DEF PushedNext, PushedHead
    <3> QED BY <3>1, <3>2, PartialChainFrame
  <2>2. CASE ~has_free_slots(m)
    <3>1. m \in Slabs \ PartialSlabs /\ PartialSlabs' = PartialSlabs \cup {m}
      BY <1>2, <1>4, <2>2 DEF Partial, PartialSlabs, has_free_slots
    <3>2. next'[m] = partial_slabs /\ partial_slabs' = m
      BY <1>0, <1>3, <2>2 DEF PushedNext, PushedHead, TypedLists
    <3>3. \A x \in PartialSlabs : next'[x] = next[x]
      BY <1>5, <3>1, ListSets
    <3>4. Chained(PartialSlabs, partial_slabs, next)
      BY DEF Inv5, ChainInv
    <3>5. Chained(PartialSlabs \cup {m}, m, next')
      BY <3>1, <3>2, <3>3, <3>4, ListSets, ChainPush
    <3> QED BY <3>1, <3>2, <3>5
  <2> QED BY <2>1, <2>2
<1>7. Chained(InPlace("empty")', EmptyHead', next')
  <2>1. EmptyHead' = EmptyHead
    BY <1>2, <1>3 DEF EmptyHead
  <2> QED BY <1>2, <1>3, <1>5, <2>1, EmptyChainFrame
<1>8. Chained(InPlace("free")', free_slabs_head', next')
  BY <1>2, <1>3, <1>5, FreeChainFrame
<1> QED BY <1>6, <1>7, <1>8 DEF ChainInv

\* A slab that lost its last used slot leaves the partial list, wherever in
\* the list it was.
LEMMA UnlinkChain ==
  ASSUME Inv5, NEW p \in Ptr, NEW r \in Ptr, EmptySlab(p, r),
         \A x \in Slabs : x # r[1] /\ place[x] = "inuse" => next'[x] = UnlinkedNext(r[1])[x]
  PROVE  Chained(PartialSlabs', partial_slabs', next')
<1> USE SlabClassAssumption DEF Inv2, Inv1, Typed, ListInv
<1>0. Inv2
  BY DEF Inv5
<1>1. PICK m \in Slabs : m = r[1]
  BY <1>0, EmptySlabFacts
<1>2. /\ count[m] = 1 /\ count'[m] = 0 /\ \A x \in Slabs : x # m => count'[x] = count[x]
      /\ partial_slabs' = UnlinkedHead(m)
  BY <1>0, <1>1, EmptySlabFacts DEF EmptySlab
<1>3. PartialSlabs' = PartialSlabs \ {m}
  BY <1>2 DEF PartialSlabs, Partial
<1>4. \A x \in PartialSlabs \ {m} : next'[x] = UnlinkedNext(m)[x]
  BY <1>0, <1>1 DEF PartialSlabs, Partial, PlaceInv
<1>5. Chained(PartialSlabs, partial_slabs, next)
  BY DEF Inv5, ChainInv
<1>6. CASE has_free_slots(m)
  <2>1. m \in PartialSlabs
    BY <1>2, <1>6 DEF PartialSlabs, Partial, has_free_slots
  <2>2. PushedNext(m) = next /\ PushedPrev(m) = prev /\ PushedHead(m) = partial_slabs
    BY <1>6 DEF PushedNext, PushedPrev, PushedHead
  <2>3. CASE prev[m] = NULL
    <3>1. m = partial_slabs /\ partial_slabs' = next[m] /\ UnlinkedNext(m) = next
      BY <1>0, <1>2, <2>1, <2>2, <2>3 DEF PartialSlabs, PartialInv, UnlinkedHead, UnlinkedNext
    <3>2. \A x \in PartialSlabs \ {m} : next'[x] = next[x] /\ next[x] # m
      BY <1>0, <1>4, <2>3, <3>1 DEF PartialSlabs, PartialInv
    <3>3. Chained(PartialSlabs \ {m}, next[m], next')
      BY <1>5, <2>1, <3>1, <3>2, ListSets, ChainPop
    <3> QED BY <1>3, <3>1, <3>3
  <2>4. CASE prev[m] # NULL
    <3>1. PICK before \in PartialSlabs : before = prev[m] /\ next[before] = m
      BY <1>0, <2>1, <2>4 DEF PartialSlabs, PartialInv, TypedLists
    <3>2. m # partial_slabs /\ before # m
      <4>1. PICK rank \in [Slabs -> Nat] :
              \A x \in PartialSlabs : next[x] # NULL => rank[x] < rank[next[x]]
        BY <1>5 DEF Chained
      <4>2. before # m
        BY <3>1, <4>1, ListSets
      <4> QED BY <1>0, <2>4, <4>2 DEF PartialInv
    <3>3. partial_slabs' = partial_slabs /\ UnlinkedNext(m) = [next EXCEPT ![before] = next[m]]
      BY <1>2, <2>2, <2>4, <3>1 DEF UnlinkedHead, UnlinkedNext
    <3>4. before \in Slabs /\ next'[before] = next[m]
      BY <1>0, <1>4, <3>1, <3>2, <3>3, ListSets DEF TypedLists
    <3>5. \A x \in PartialSlabs \ {m, before} : next'[x] = next[x] /\ next[x] # m
      <4> TAKE x \in PartialSlabs \ {m, before}
      <4>1. x \in Slabs /\ Partial(x) /\ next'[x] = next[x]
        BY <1>0, <1>4, <3>3 DEF PartialSlabs, TypedLists
      <4>2. next[x] # m
        BY <1>0, <3>1, <4>1 DEF PartialInv
      <4> QED BY <4>1, <4>2
    <3>6. Chained(PartialSlabs \ {m}, partial_slabs, next')
      BY <1>5, <2>1, <3>1, <3>2, <3>4, <3>5, ListSets, ChainUnlink
    <3> QED BY <1>3, <3>3, <3>6
  <2> QED BY <2>3, <2>4
<1>7. CASE ~has_free_slots(m)
  <2>1. PartialSlabs = {}
    BY <1>0, <1>2, <1>7 DEF PartialSlabs, Partial, has_free_slots, TypedSlots
  <2>2. partial_slabs = NULL
    BY <1>5, <2>1 DEF Chained
  <2>3. partial_slabs' = NULL
    BY <1>0, <1>2, <1>7, <2>2 DEF UnlinkedHead, PushedNext, PushedPrev, PushedHead, TypedLists
  <2>4. PartialSlabs' = {}
    BY <1>3, <2>1
  <2> QED BY <2>3, <2>4, ChainNew
<1> QED BY <1>6, <1>7

\* A slab joins the free lists: what it displaces from the quarantine goes to
\* the end of the queue.
LEMMA EnqueueChain ==
  ASSUME Inv5, NEW m \in Slabs, NEW nx \in [Slabs -> Slabs \cup {NULL}],
         place[m] \notin Retired, \A x \in Slabs : place[x] \in Retired => nx[x] = next[x],
         EnqueueFreeSlab(m, nx)
  PROVE  Chained(InPlace("free")', free_slabs_head', next')
<1> USE SlabClassAssumption
<1>0. TypedLists /\ FreeInv /\ FreeQuarInv
  BY DEF Inv5, Inv2, Inv1, Typed, ListInv
<1> USE DEF TypedLists, Retired
<1> DEFINE S == InPlace("free")
<1>1. PICK i \in (IF FreeQuarLen = 0 THEN {0} ELSE 0 .. FreeQuarLen - 1) :
        LET cleared == [nx EXCEPT ![m] = NULL]
            substitute == IF FreeQuarLen = 0 THEN m ELSE free_slabs_quarantine[i]
        IN
        IF substitute = NULL
        THEN /\ next' = cleared
             /\ place' = [place EXCEPT ![m] = "quarantine"]
             /\ UNCHANGED <<free_slabs_head, free_slabs_tail>>
        ELSE /\ next' = IF free_slabs_tail = NULL THEN cleared
                        ELSE [cleared EXCEPT ![free_slabs_tail] = substitute]
             /\ free_slabs_head' = IF free_slabs_tail = NULL THEN substitute
                                   ELSE free_slabs_head
             /\ free_slabs_tail' = substitute
             /\ place' = [[place EXCEPT ![m] = "quarantine"]
                            EXCEPT ![substitute] = "free"]
  BY DEF EnqueueFreeSlab
<1> DEFINE substitute == IF FreeQuarLen = 0 THEN m ELSE free_slabs_quarantine[i]
<1>2. CASE substitute = NULL
  <2>1. /\ next' = [nx EXCEPT ![m] = NULL] /\ free_slabs_head' = free_slabs_head
        /\ place' = [place EXCEPT ![m] = "quarantine"]
    BY <1>1, <1>2
  <2> QED BY <1>0, <2>1, FreeChainFrame
<1>3. CASE substitute # NULL
  <2>1. /\ substitute \in Slabs
        /\ substitute = m \/ place[substitute] = "quarantine"
        /\ substitute # m => next[substitute] = NULL
    BY <1>0, <1>3 DEF FreeQuarInv
  <2>2. /\ next' = IF free_slabs_tail = NULL THEN [nx EXCEPT ![m] = NULL]
                   ELSE [[nx EXCEPT ![m] = NULL] EXCEPT ![free_slabs_tail] = substitute]
        /\ free_slabs_head' = IF free_slabs_tail = NULL THEN substitute ELSE free_slabs_head
        /\ place' = [[place EXCEPT ![m] = "quarantine"] EXCEPT ![substitute] = "free"]
    BY <1>1, <1>3
  <2> HIDE DEF substitute
  <2>3. substitute \in Slabs \ S /\ S' = S \cup {substitute} /\ S \in SUBSET Slabs
    BY <1>0, <2>1, <2>2 DEF InPlace
  <2>4. \A x \in S : x # free_slabs_tail => next'[x] = next[x]
    BY <1>0, <2>2 DEF InPlace
  <2>5. Chained(S, free_slabs_head, next)
    BY DEF Inv5, ChainInv
  <2>6. CASE free_slabs_tail = NULL
    <3>1. free_slabs_head = NULL /\ free_slabs_head' = substitute
      BY <1>0, <2>2, <2>6 DEF FreeInv
    <3>2. S = {}
      BY <2>3, <2>5, <3>1, ChainEmpty
    <3>3. next'[substitute] = NULL
      BY <1>0, <2>1, <2>2, <2>6
    <3>4. S' = {substitute}
      BY <2>3, <3>2
    <3> QED BY <2>1, <3>1, <3>3, <3>4, ChainNew
  <2>7. CASE free_slabs_tail # NULL
    <3>1. /\ free_slabs_tail \in S /\ next[free_slabs_tail] = NULL
          /\ free_slabs_tail # m /\ free_slabs_tail # substitute
          /\ free_slabs_head' = free_slabs_head
      BY <1>0, <2>1, <2>2, <2>7 DEF FreeInv, InPlace
    <3>2. next'[free_slabs_tail] = substitute /\ next'[substitute] = NULL
      BY <1>0, <2>1, <2>2, <2>7, <3>1
    <3>3. \A x \in S \ {free_slabs_tail} : next'[x] = next[x]
      BY <2>4
    <3>4. Chained(S \cup {substitute}, free_slabs_head, next')
      <4> HIDE DEF S
      <4> QED BY <2>3, <2>5, <3>1, <3>2, <3>3, ChainAppend
    <3> QED BY <2>3, <3>1, <3>4
  <2> QED BY <2>6, <2>7
<1> QED BY <1>2, <1>3

\* The last used slot of a slab is released: the slab moves to the free lists
\* or to the cached empty slabs.
LEMMA DeallocateEmpties5 ==
  ASSUME Inv5, NEW p \in Ptr, NEW r \in Ptr,
         DeallocateFreesSlab(p, r) \/ DeallocateCachesSlab(p, r)
  PROVE  ChainInv'
<1> USE SlabClassAssumption DEF Inv2, Inv1, Typed, ListInv
<1>0. Inv2 /\ EmptySlab(p, r)
  BY DEF Inv5, DeallocateFreesSlab, DeallocateCachesSlab
<1>1. PICK m \in Slabs : m = r[1]
  BY <1>0, EmptySlabFacts
<1>2. /\ place[m] = "inuse" /\ ~trimming /\ UNCHANGED <<trimming, iterator>>
      /\ \A x \in Slabs : x # m /\ place[x] # "inuse" => UnlinkedNext(m)[x] = next[x]
      /\ UnlinkedNext(m) \in [Slabs -> Slabs \cup {NULL}]
  BY <1>0, <1>1, EmptySlabFacts
<1>3. CASE DeallocateFreesSlab(p, r)
  <2>1. EnqueueFreeSlab(m, UnlinkedNext(m)) /\ empty_slabs' = empty_slabs
    BY <1>1, <1>3 DEF DeallocateFreesSlab, emptyListVars
  <2>2. /\ place[m] \notin Retired
        /\ \A x \in Slabs : place[x] \in Retired => UnlinkedNext(m)[x] = next[x]
    BY <1>2 DEF Retired
  <2>3. /\ place'[m] \in Retired
        /\ \A x \in Slabs : place[x] \in Retired => place'[x] \in Retired
        /\ \A x \in Slabs : x # m /\ place[x] \notin Retired
                              => place'[x] = place[x] /\ next'[x] = UnlinkedNext(m)[x]
    BY <1>0, <1>2, <2>1, <2>2, EnqueueKeeps
  <2>4. Chained(PartialSlabs', partial_slabs', next')
    BY <1>0, <1>1, <2>3, UnlinkChain DEF Retired
  <2>5. Chained(InPlace("empty")', EmptyHead', next')
    <3>1. EmptyHead' = EmptyHead
      BY <1>2, <2>1 DEF EmptyHead
    <3>2. /\ \A x \in Slabs : place[x] = "empty" => place'[x] = "empty" /\ next'[x] = next[x]
          /\ \A x \in Slabs : place'[x] = "empty" => place[x] = "empty"
      BY <1>2, <2>3 DEF Retired
    <3> QED BY <3>1, <3>2, EmptyChainFrame
  <2>6. Chained(InPlace("free")', free_slabs_head', next')
    BY <1>2, <2>1, <2>2, EnqueueChain
  <2> QED BY <2>4, <2>5, <2>6 DEF ChainInv
<1>4. CASE DeallocateCachesSlab(p, r)
  <2>1. /\ next' = [UnlinkedNext(m) EXCEPT ![m] = empty_slabs]
        /\ empty_slabs' = m /\ place' = [place EXCEPT ![m] = "empty"]
        /\ free_slabs_head' = free_slabs_head
    BY <1>1, <1>4 DEF DeallocateCachesSlab, freeListVars
  <2>2. /\ place'[m] = "empty" /\ next'[m] = empty_slabs
        /\ \A x \in Slabs : x # m => place'[x] = place[x] /\ next'[x] = UnlinkedNext(m)[x]
    BY <1>0, <1>2, <2>1 DEF TypedLists
  <2>3. Chained(PartialSlabs', partial_slabs', next')
    BY <1>0, <1>1, <2>2, UnlinkChain
  <2>4. Chained(InPlace("empty")', EmptyHead', next')
    <3>1. EmptyHead = empty_slabs /\ EmptyHead' = m
      BY <1>2, <2>1 DEF EmptyHead
    <3>2. m \in Slabs \ InPlace("empty") /\ InPlace("empty")' = InPlace("empty") \cup {m}
      BY <1>2, <2>2 DEF InPlace
    <3>3. \A x \in InPlace("empty") : next'[x] = next[x]
      BY <1>2, <2>2 DEF InPlace
    <3>4. Chained(InPlace("empty"), empty_slabs, next)
      BY <3>1 DEF Inv5, ChainInv
    <3>5. Chained(InPlace("empty") \cup {m}, m, next')
      BY <2>2, <3>2, <3>3, <3>4, ListSets, ChainPush
    <3> QED BY <3>1, <3>2, <3>5
  <2>5. Chained(InPlace("free")', free_slabs_head', next')
    BY <1>2, <2>1, <2>2, FreeChainFrame
  <2> QED BY <2>3, <2>4, <2>5 DEF ChainInv
<1> QED BY <1>3, <1>4

\* h_malloc_trim empties the cache from its head.
LEMMA Trim5 ==
  ASSUME Inv5, TrimStart \/ TrimSlab \/ TrimEnd PROVE ChainInv'
<1> USE SlabClassAssumption DEF Inv2, Inv1, Typed, ListInv
<1>0. Inv2
  BY DEF Inv5
<1>1. CASE TrimStart \/ TrimEnd
  <2>1. UNCHANGED <<count, next, partial_slabs, free_slabs_head, place>>
        /\ EmptyHead' = EmptyHead
    BY <1>1 DEF TrimStart, TrimEnd, slotVars, listVars, emptyListVars, freeListVars,
                EmptyHead, Available
  <2> QED BY <2>1 DEF Inv5, ChainInv, PartialSlabs, Partial, InPlace
<1>2. CASE TrimSlab
  <2>1. PICK m \in Slabs : m = iterator
    BY <1>0, <1>2 DEF TrimSlab, TypedLists
  <2>2. /\ trimming /\ m # NULL /\ iterator' = next[m] /\ trimming' = trimming
        /\ EnqueueFreeSlab(m, next) /\ UNCHANGED <<count, partial_slabs>>
    BY <1>2, <2>1 DEF TrimSlab, slotVars
  <2>3. EmptyHead = m /\ EmptyHead' = next[m] /\ place[m] = "empty"
    BY <1>0, <2>1, <2>2 DEF EmptyHead, EmptyInv, Linked
  <2>4. /\ place'[m] \in Retired
        /\ \A x \in Slabs : place[x] \in Retired => place'[x] \in Retired
        /\ \A x \in Slabs : x # m /\ place[x] \notin Retired
                              => place'[x] = place[x] /\ next'[x] = next[x]
    BY <1>0, <2>2, <2>3, EnqueueEmptyKeeps
  <2>5. Chained(PartialSlabs', partial_slabs', next')
    <3>1. \A x \in Slabs : Partial(x) => next'[x] = next[x]
      BY <1>0, <2>3, <2>4 DEF Partial, PlaceInv, Retired
    <3>2. \A x \in Slabs : Partial(x)' <=> Partial(x)
      BY <2>2 DEF Partial
    <3> QED BY <2>2, <3>1, <3>2, PartialChainFrame
  <2>6. Chained(InPlace("empty")', EmptyHead', next')
    <3>1. /\ \A x \in Slabs : place'[x] = "empty" <=> place[x] = "empty" /\ x # m
          /\ \A x \in Slabs : place[x] = "empty" /\ x # m => next'[x] = next[x]
      BY <2>3, <2>4 DEF Retired
    <3> QED BY <2>3, <3>1, EmptyChainPop
  <2>7. Chained(InPlace("free")', free_slabs_head', next')
    <3>1. place[m] \notin Retired /\ next \in [Slabs -> Slabs \cup {NULL}]
      BY <1>0, <2>3 DEF Retired, TypedLists
    <3>2. \A x \in Slabs : place[x] \in Retired => next[x] = next[x]
      OBVIOUS
    <3> QED BY <2>2, <3>1, <3>2, EnqueueChain
  <2> QED BY <2>5, <2>6, <2>7 DEF ChainInv
<1> QED BY <1>1, <1>2

\* Every step preserves the chains.
LEMMA Next5 == Inv5 /\ [Next]_vars => Inv5'
<1> SUFFICES ASSUME Inv5, [Next]_vars PROVE Inv5'
  OBVIOUS
<1> SUFFICES ChainInv'
  BY Next2 DEF Inv5
<1>1. ASSUME UNCHANGED <<count, listVars, trimVars>> PROVE ChainInv'
  BY <1>1 DEF Inv5, ChainInv, PartialSlabs, Partial, InPlace, EmptyHead, listVars, trimVars,
              emptyListVars, freeListVars
<1>2. CASE UNCHANGED vars
  BY <1>1, <1>2 DEF vars, slotVars
<1>3. CASE \/ AllocateFromPartial \/ AllocateFromEmpty \/ AllocateFromFree
           \/ AllocateFromNew
  BY <1>3, AllocateFromPartial5, AllocateFromEmpty5, AllocateFromFree5, AllocateFromNew5
<1>4. CASE FreeSlabProtectFails \/ NewSlabProtectFails
  BY <1>1, <1>4 DEF FreeSlabProtectFails, NewSlabProtectFails, slotVars
<1>5. ASSUME NEW why, NEW p, Fatal(why, p) PROVE ChainInv'
  BY <1>1, <1>5 DEF Fatal, slotVars
<1>6. CASE AllocateAborts
  BY <1>5, <1>6 DEF AllocateAborts
<1>7. CASE \E m \in InputSlabs, s \in InputSlots, aligned, sizeMatches \in BOOLEAN :
             DeallocateAborts(m, s, aligned, sizeMatches)
  BY <1>5, <1>7 DEF DeallocateAborts
<1>8. CASE \E m \in InputSlabs, s \in InputSlots, aligned \in BOOLEAN :
             UsableSizeAborts(m, s, aligned)
  BY <1>5, <1>8 DEF UsableSizeAborts
<1>9. CASE \E p \in Ptr : DeallocateHeld(p)
  BY <1>1, <1>9 DEF DeallocateHeld
<1>10. CASE \E p, r \in Ptr : \/ DeallocateRelease(p, r) \/ DeallocateFreesSlab(p, r)
                             \/ DeallocateCachesSlab(p, r)
  BY <1>10, DeallocateRelease5, DeallocateEmpties5
<1>11. CASE TrimStart \/ TrimSlab \/ TrimEnd
  BY <1>11, Trim5
<1>12. CASE \E p \in Ptr : Write(p) \/ StrayWrite(p) \/ Overflow(p)
  BY <1>1, <1>12 DEF Write, StrayWrite, Overflow, slotVars
<1> QED BY <1>2, <1>3, <1>4, <1>6, <1>7, <1>8, <1>9, <1>10, <1>11, <1>12 DEF Next

\* The partial, empty and free slabs form one list each, without cycles and
\* without slabs that were cut off.
THEOREM ChainsHold == Spec => []Inv5
<1>1. Init => Inv5
  <2> SUFFICES ASSUME Init PROVE ChainInv
    BY Init1, Init2 DEF Inv5, Inv2
  <2>1. /\ PartialSlabs = {} /\ InPlace("empty") = {} /\ InPlace("free") = {}
        /\ partial_slabs = NULL /\ EmptyHead = NULL /\ free_slabs_head = NULL
    BY DEF Init, PartialSlabs, Partial, InPlace, EmptyHead
  <2> QED BY <2>1, ChainNew DEF ChainInv
<1>2. Inv5 /\ [Next]_vars => Inv5'
  BY Next5
<1> QED BY <1>1, <1>2, PTL DEF Spec

\* The links back are the inverse of the links forth, the tail of the free
\* slabs is the last one, and the cells of the quarantine are distinct.
LEMMA ListsFromChains ==
  ASSUME Inv5, Inv4 PROVE ListsExact
<1> USE SlabClassAssumption
<1>0. PlaceInv /\ PartialInv /\ FreeInv /\ FreeQuarInv /\ TypedLists /\ EmptyCount
  BY DEF Inv5, Inv4, Inv2, Inv1, Typed, ListInv, Sums
<1>1. /\ Chained(PartialSlabs, partial_slabs, next)
      /\ Chained(InPlace("empty"), EmptyHead, next)
      /\ Chained(InPlace("free"), free_slabs_head, next)
  BY DEF Inv5, ChainInv
<1>2. Acyclic(partial_slabs) /\ Members(partial_slabs) = PartialSlabs
  BY <1>1, ListSets, ChainVisits
<1>3. Acyclic(EmptyHead) /\ Members(EmptyHead) = InPlace("empty")
  BY <1>1, ListSets, ChainVisits
<1>4. Acyclic(free_slabs_head) /\ Members(free_slabs_head) = InPlace("free")
  BY <1>1, ListSets, ChainVisits
<1>5. PartialSlabs = {m \in Slabs : 0 < count[m] /\ count[m] < Slots}
  BY DEF PartialSlabs, Partial
<1>6. ASSUME NEW m \in PartialSlabs
      PROVE  prev[m] = IF m = partial_slabs THEN NULL
                       ELSE CHOOSE x \in PartialSlabs : next[x] = m
  <2>1. m = partial_slabs => prev[m] = NULL
    BY <1>0 DEF PartialInv, PartialSlabs
  <2>2. ASSUME m # partial_slabs PROVE prev[m] = CHOOSE x \in PartialSlabs : next[x] = m
    <3>1. prev[m] \in PartialSlabs /\ next[prev[m]] = m
      BY <1>0, <2>2 DEF PartialInv, PartialSlabs, TypedLists
    <3>2. \A x \in PartialSlabs : next[x] = m => x = prev[m]
      BY <1>0 DEF PartialInv, PartialSlabs, TypedLists
    <3> QED BY <3>1, <3>2
  <2> QED BY <2>1, <2>2
<1>7. free_slabs_tail = IF free_slabs_head = NULL THEN NULL
                        ELSE CHOOSE m \in InPlace("free") : next[m] = NULL
  <2>1. free_slabs_head = NULL => free_slabs_tail = NULL
    BY <1>0 DEF FreeInv
  <2>2. ASSUME free_slabs_head # NULL
        PROVE  free_slabs_tail = CHOOSE m \in InPlace("free") : next[m] = NULL
    <3>1. free_slabs_tail \in InPlace("free") /\ next[free_slabs_tail] = NULL
      BY <1>0, <2>2 DEF FreeInv, InPlace, TypedLists
    <3>2. \A m \in InPlace("free") : next[m] = NULL => m = free_slabs_tail
      BY <1>0 DEF FreeInv, InPlace
    <3> QED BY <3>1, <3>2
  <2> QED BY <2>1, <2>2
<1>8. \A i, j \in 0 .. FreeQuarLen - 1 :
        i # j /\ free_slabs_quarantine[i] # NULL
          => free_slabs_quarantine[i] # free_slabs_quarantine[j]
  BY <1>0 DEF FreeQuarInv
<1>9. {free_slabs_quarantine[i] : i \in 0 .. FreeQuarLen - 1} \ {NULL} = InPlace("quarantine")
  BY <1>0, SMTT(30) DEF FreeQuarInv, InPlace, TypedLists
<1>10. \A m \in Slabs : place[m] = "inuse" <=> count[m] > 0
  BY <1>0 DEF PlaceInv
<1>11. empty_slabs_total = SlabSize * Cardinality(InPlace("empty"))
  BY <1>0 DEF EmptyCount
<1> QED BY <1>2, <1>3, <1>4, <1>5, <1>6, <1>7, <1>8, <1>9, <1>10, <1>11 DEF ListsExact

\* No slab is ever lost or linked twice: the partial, empty and free lists and
\* the free slabs quarantine hold exactly the slabs they should, through every
\* sequence of allocations, frees, failures and trims.
THEOREM ListsExactHolds == Spec => []ListsExact
<1>1. Inv5 /\ Inv4 => ListsExact
  BY ListsFromChains
<1> QED BY <1>1, ChainsHold, Layer4, PTL
=============================================================================

------------------------------ MODULE HeapApi ------------------------------
(***************************************************************************)
(* The allocation interface as the program sees it: malloc, calloc, the    *)
(* memalign family, realloc, free and the sized frees, the size queries,   *)
(* and the C++ operators with their out of memory loop.  One object goes   *)
(* through every sequence of calls; where it lies, in a slot of which      *)
(* class or in a region of which size, follows from the sizes alone.       *)
(*                                                                         *)
(* Slabs, regions and their memory are in SlabClass and LargeAlloc; here   *)
(* any allocation may fail.  The program passes correct sizes to the sized *)
(* frees, fills what it asked for and writes nowhere else.                 *)
(***************************************************************************)
EXTENDS SizeClasses

CONSTANTS
  Sizes,        \* the sizes that the program asks for
  Counts,       \* nmemb of calloc and reallocarray
  Alignments    \* the alignments that the program asks for

ASSUME SizesAssumption == Sizes \subseteq 0 .. SIZE_MAX
ASSUME CountsAssumption == Counts \subseteq 0 .. SIZE_MAX
ASSUME AlignmentsAssumption == Alignments \subseteq 0 .. 2^16

VARIABLES
  config,    \* the build: extended and large size classes, canary_size, ZERO_ON_FREE
  obj,       \* the object
  outcome,   \* how the last call ended
  copied,    \* the bytes of contents that the last realloc carried over
  pending,   \* the operator new that is in handle_out_of_memory
  fatal      \* fatal_error was called

vars == <<config, obj, outcome, copied, pending, fatal>>

MREMAP_MOVE_THRESHOLD == 2^25

NoObject == [kind |-> "none"]
NoCall == [size |-> 0, alignment |-> 0, nothrow |-> FALSE]

Init ==
  /\ config \in [extended : BOOLEAN, large : BOOLEAN, canary : {0, 8}, zero : BOOLEAN]
  /\ obj = NoObject
  /\ outcome = "none"
  /\ copied = 0
  /\ pending = NoCall
  /\ fatal = FALSE

MaxSlab == max_slab_size_class(config.extended)
LargeSize(size) == get_large_size_class(config.large, size)
AlignedSize(size, alignment) == get_size_info_align(config.extended, size, alignment).size

UnadjustedSize(size) == size
adjust_size_for_canary(size) ==
  IF size > 0 /\ size <= MaxSlab THEN size + config.canary ELSE size

-----------------------------------------------------------------------------
(* Where an allocation lies: its class or region size, its alignment, and  *)
(* how many of its bytes are zero.                                         *)

\* A slab starts at a page and its slots follow each other; class 0 has slots
\* of 16 bytes.
InSlab(size) ==
  [kind |-> "slab", size |-> size,
   align |-> Max({2^k : k \in {j \in 0 .. 12 : (IF size = 0 THEN 16 ELSE size) % 2^j = 0}}),
   zero |-> IF config.zero THEN size ELSE 0]

InRegion(size, alignment) ==
  [kind |-> "large", size |-> size, align |-> alignment, zero |-> size]

\* The possible results of allocate, apart from NULL.
allocate(size) ==
  IF size <= MaxSlab THEN {InSlab(get_size_info(size).size)}
  ELSE {InRegion(s, PAGE_SIZE) : s \in {LargeSize(size)} \ {0}}

BadAlignment(alignment, least) == alignment \notin {2^k : k \in 0 .. 16} \/ alignment < least

allocate_aligned(alignment, size) ==
  IF alignment <= PAGE_SIZE
    THEN allocate(IF size <= MaxSlab /\ alignment > min_align
                    THEN AlignedSize(size, alignment) ELSE size)
    ELSE {InRegion(s, alignment) : s \in {LargeSize(size)} \ {0}}

\* What h_malloc_usable_size, h_malloc_object_size and h_malloc_object_size_fast
\* return.
usable_size(o) ==
  IF o.kind = "slab" /\ o.size > 0 THEN o.size - config.canary ELSE o.size

\* c->size
SlotSize(o) == IF o.size = 0 THEN 16 ELSE o.size

\* For a pointer offset bytes behind the start of the object; {} is a fatal
\* error.  In a slab the slot is found from the pointer, and must be one of used:
\* the slots, counted from that of the object, that are in use and not in
\* quarantine.  Behind a full slot it is that of a neighbour, or of a slab yet to
\* be used.
ObjectSizes(o, offset, used) ==
  IF o.kind = "large" THEN {IF offset = 0 THEN o.size ELSE SIZE_MAX}
  ELSE LET slot == offset \div SlotSize(o)
           start == slot * SlotSize(o)
       IN  IF slot \in used /\ offset - start <= usable_size(o)
             THEN {usable_size(o) - (offset - start)} ELSE {}

object_size_fast(o) == IF o.kind = "large" THEN SIZE_MAX ELSE usable_size(o)

-----------------------------------------------------------------------------
(* Allocation                                                              *)

\* The object that the program has, with the size and the alignment that it
\* asked for and the way it may free it.
Owned(o, size, alignment, origin) ==
  [kind |-> o.kind, size |-> o.size, align |-> o.align, zero |-> o.zero,
   req |-> size, reqAlign |-> alignment, origin |-> origin]

Idle == obj = NoObject /\ pending = NoCall /\ ~fatal

\* NULL is always possible: memory may be short.
Allocated(results, size, alignment, origin) ==
  /\ \/ \E o \in results : obj' = Owned(o, size, alignment, origin) /\ outcome' = "returned"
     \/ UNCHANGED obj /\ outcome' = "null"
  /\ copied' = 0
  /\ UNCHANGED <<config, pending, fatal>>

Malloc(size) ==
  /\ Idle
  /\ Allocated(allocate(adjust_size_for_canary(size)), size, 1, "plain")

\* The memory is zeroed unless it is known to be zero already.
Cleared(o, total) ==
  IF ~config.zero /\ total > 0 /\ total <= MaxSlab
    THEN [o EXCEPT !.zero = total - config.canary] ELSE o

Calloc(nmemb, size) ==
  LET total == adjust_size_for_canary(nmemb * size)
  IN  /\ Idle
      /\ Allocated(IF nmemb * size > SIZE_MAX THEN {}
                     ELSE {Cleared(o, total) : o \in allocate(total)},
                   nmemb * size, 1, "calloc")

\* posix_memalign wants at least the size of a pointer, the others do not.
Memalign(alignment, size, least) ==
  /\ Idle
  /\ IF BadAlignment(alignment, least)
       THEN outcome' = "invalid" /\ copied' = 0 /\ UNCHANGED <<config, obj, pending, fatal>>
       ELSE Allocated(allocate_aligned(alignment, adjust_size_for_canary(size)),
                      size, alignment, "aligned")

Valloc(size) ==
  /\ Idle
  /\ Allocated(allocate_aligned(PAGE_SIZE, adjust_size_for_canary(size)), size, PAGE_SIZE, "page")

Pvalloc(size) ==
  LET pages == page_align(size)
  IN  /\ Idle
      /\ Allocated(IF size > 0 /\ pages = 0 THEN {}
                     ELSE allocate_aligned(PAGE_SIZE, adjust_size_for_canary(pages)),
                   size, PAGE_SIZE, "page")

-----------------------------------------------------------------------------
(* h_realloc of the object; size is the adjusted or large class size.      *)

InPlace(size) ==
  IF obj.kind = "slab" THEN size <= MaxSlab /\ get_size_info(size).size = obj.size
  ELSE obj.size = size

\* The copy leaves out the canary of a slot.
FullCopySize(size) == Min({size, obj.size})
copy_size(size) ==
  LET least == Min({size, obj.size})
  IN  IF least > 0 /\ least <= MaxSlab THEN least - config.canary ELSE least

\* The new places of the contents and the bytes that they carry over: the same,
\* the front of a region, the region moved to another one, or a copy.
Moves(size) ==
  IF InPlace(size) THEN {[to |-> obj, bytes |-> obj.size]}
  ELSE IF obj.kind = "large" /\ size > MaxSlab
    THEN IF size < obj.size
           THEN {[to |-> InRegion(size, obj.align), bytes |-> size]}
         ELSE IF obj.size >= MREMAP_MOVE_THRESHOLD
           THEN {[to |-> o, bytes |-> obj.size] : o \in allocate(size)}
         ELSE {[to |-> o, bytes |-> copy_size(size)] : o \in allocate(size)}
  ELSE {[to |-> o, bytes |-> copy_size(size)] : o \in allocate(size)}

RoundedSize(size) ==
  LET adjusted == adjust_size_for_canary(size)
  IN  IF adjusted > MaxSlab THEN LargeSize(adjusted) ELSE adjusted

\* The class of a large request is out of the address space.
Overflows(size) == adjust_size_for_canary(size) > MaxSlab /\ RoundedSize(size) = 0

ReallocTo(size) ==
  /\ obj # NoObject /\ pending = NoCall /\ ~fatal
  /\ \/ /\ ~Overflows(size)
        /\ \E m \in Moves(RoundedSize(size)) :
             /\ obj' = [Owned(m.to, size, 1, "plain") EXCEPT !.zero = 0]
             /\ copied' = m.bytes
        /\ outcome' = "returned"
     \/ /\ Overflows(size) \/ ~InPlace(RoundedSize(size))
        /\ outcome' = "null" /\ copied' = 0
        /\ UNCHANGED obj
  /\ UNCHANGED <<config, pending, fatal>>

Realloc(size) == ReallocTo(size)

\* h_reallocarray fails when the product overflows.
ReallocArray(nmemb, size) ==
  \/ nmemb * size <= SIZE_MAX /\ ReallocTo(nmemb * size)
  \/ /\ obj # NoObject /\ pending = NoCall /\ ~fatal
     /\ nmemb * size > SIZE_MAX
     /\ outcome' = "null"
     /\ copied' = 0
     /\ UNCHANGED <<config, obj, pending, fatal>>

-----------------------------------------------------------------------------
(* Freeing                                                                 *)

Release(accepted) ==
  /\ obj # NoObject /\ pending = NoCall /\ ~fatal
  /\ fatal' = ~accepted
  /\ obj' = NoObject
  /\ outcome' = "freed"
  /\ copied' = 0
  /\ UNCHANGED <<config, pending>>

\* h_free, by any way of allocation
Free == Release(TRUE)

\* deallocate_large compares the region with the class of the size.
LargeSizeMatches(expected) == obj.size = LargeSize(expected)

FreeSized ==
  LET expected == adjust_size_for_canary(obj.req)
  IN  /\ obj # NoObject /\ obj.origin \in {"plain", "calloc"}
      /\ Release(IF obj.kind = "slab"
                   THEN expected <= MaxSlab /\ obj.size = get_size_info(expected).size
                   ELSE LargeSizeMatches(expected))

\* Without the alignment the class of the size would be too small.
PlainExpected(alignment, expected) == get_size_info(expected).size
AlignedExpected(alignment, expected) ==
  IF alignment > min_align THEN AlignedSize(expected, alignment)
  ELSE get_size_info(expected).size

FreeAlignedSized ==
  LET expected == adjust_size_for_canary(obj.req)
  IN  /\ obj # NoObject /\ obj.origin = "aligned"
      /\ Release(IF obj.kind = "slab"
                   THEN /\ ~BadAlignment(obj.reqAlign, 0) /\ obj.reqAlign <= PAGE_SIZE
                        /\ expected <= MaxSlab
                        /\ obj.size = AlignedExpected(obj.reqAlign, expected)
                   ELSE LargeSizeMatches(expected))

-----------------------------------------------------------------------------
(* operator new: alignment 0 stands for the forms without one.  The        *)
(* operators delete are h_free, h_free_sized and h_free_aligned_sized.     *)

NewResults(call) ==
  IF call.alignment = 0 THEN allocate(adjust_size_for_canary(call.size))
  ELSE allocate_aligned(call.alignment, adjust_size_for_canary(call.size))

NewReturns(call) ==
  \E o \in NewResults(call) :
    obj' = Owned(o, call.size, Max({1, call.alignment}),
                 IF call.alignment = 0 THEN "plain" ELSE "aligned")

\* new_impl
New(call) ==
  /\ Idle
  /\ call.alignment # 0 => ~BadAlignment(call.alignment, 1)
  /\ \/ NewReturns(call) /\ outcome' = "returned" /\ UNCHANGED pending
     \/ pending' = call /\ outcome' = "none" /\ UNCHANGED obj
  /\ copied' = 0
  /\ UNCHANGED <<config, fatal>>

\* handle_out_of_memory, one round: without a handler, or when it throws
\* bad_alloc, the call ends; after a handler returned the allocation is tried
\* again.
GivingUp(call) == IF call.nothrow THEN "null" ELSE "thrown"

OutOfMemory ==
  /\ pending # NoCall
  /\ \/ outcome' = GivingUp(pending) /\ pending' = NoCall /\ UNCHANGED obj
     \/ NewReturns(pending) /\ outcome' = "returned" /\ pending' = NoCall
     \/ UNCHANGED <<obj, outcome, pending>>
  /\ UNCHANGED <<config, copied, fatal>>

Next ==
  \/ \E n \in Sizes :
       \/ Malloc(n) \/ Valloc(n) \/ Pvalloc(n) \/ Realloc(n)
       \/ \E m \in Counts : Calloc(m, n) \/ ReallocArray(m, n)
       \/ \E a \in Alignments : \E least \in {1, 8} : Memalign(a, n, least)
       \/ \E a \in Alignments \cup {0} : \E nothrow \in BOOLEAN :
            New([size |-> n, alignment |-> a, nothrow |-> nothrow])
  \/ Free \/ FreeSized \/ FreeAlignedSized \/ OutOfMemory

Spec == Init /\ [][Next]_vars

-----------------------------------------------------------------------------
(* Properties                                                              *)

\* What the program gets is what it asked for: the usable size covers the
\* request and fits the slot in front of its canary, the address is aligned,
\* memory from calloc is zero, and malloc_object_size and malloc_object_size_fast
\* are upper bounds on what is left of the object.  malloc_object_size does not
\* abort for a pointer into the object, nor for one just behind it that is still
\* in its slot; one just behind an object that fills its slot is looked up in the
\* slot of a neighbour, and an answer, if there is one, is an upper bound too.
RequestFits ==
  obj # NoObject =>
    /\ usable_size(obj) >= obj.req
    /\ obj.align % obj.reqAlign = 0 /\ obj.align >= min_align
    /\ obj.origin = "calloc" => obj.zero >= obj.req
    /\ obj.kind = "slab" => obj.size \in Range(size_classes(config.extended))
    /\ \A offset \in {0, 1, obj.req - 1, obj.req} \cap 0 .. obj.req : \A used \in {{0}, {0, 1}} :
         /\ offset < SlotSize(obj) => ObjectSizes(obj, offset, used) # {}
         /\ \A n \in ObjectSizes(obj, offset, used) :
              n >= obj.req - offset /\ object_size_fast(obj) >= n

\* realloc keeps the contents up to the smaller of the two requests, and copies
\* neither from nor to a canary.
ContentsKept ==
  [][copied' # 0 \/ (outcome' = "returned" /\ obj # NoObject) =>
       /\ copied' >= Min({obj.req, obj'.req})
       /\ obj'.size # obj.size => copied' <= Min({usable_size(obj), usable_size(obj')})]_vars

\* A sized free with the size, and the alignment, that the program asked for is
\* never taken for a mismatch: not after a realloc in place or across the border
\* between slabs and regions, and not when the canary moves it across.
SizedFreeAccepted == ~fatal

\* The requests at and next to the sizes of the classes.
NearClasses ==
  {s + d : s \in Range(size_classes(config.extended)) \ {0}, d \in {-1, 0, 1}}

\* For every request of a slab the computed class is the smallest one in the
\* table that fits, wastes less than a fifth of the slot beyond 64 bytes, and
\* no further slot would fit in a slab of it; a class of a large request fits
\* it too, wastes no more, and 0 is only returned when the class overflows.  It
\* depends on the build only, and is evaluated in the initial states.
SizeClassExact ==
  LET table == size_classes(config.extended)
      class(n) == get_size_info(n).class
  IN  outcome = "none" /\ pending = NoCall =>
      /\ \A n \in {s \in NearClasses : s <= MaxSlab} \cup {0} :
           /\ table[class(n) + 1] = get_size_info(n).size
           /\ n <= table[class(n) + 1] /\ (class(n) > 0 => n > table[class(n)])
           /\ n > 64 => 5 * (get_size_info(n).size - n) < get_size_info(n).size
      /\ \A c \in 1 .. Len(table) :
           LET size == Max({16, table[c]})
           IN  get_slab_size(size_class_slots[c], size) - size_class_slots[c] * size
                 \in 0 .. size - 1
      /\ \A n \in NearClasses \cup Sizes :
           IF LargeSize(n) = 0
             THEN \/ n = 0 /\ ~config.large
                  \/ n > Word - (IF config.large THEN Word \div 8 ELSE PAGE_SIZE)
             ELSE /\ LargeSize(n) >= n
                  /\ n > MaxSlab => /\ LargeSize(n) % PAGE_SIZE = 0
                                    /\ 5 * (LargeSize(n) - n) < LargeSize(n)
=============================================================================

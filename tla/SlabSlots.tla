----------------------------- MODULE SlabSlots -----------------------------
(***************************************************************************)
(* One slab of a size class, down to its bits: the bitmap words and the    *)
(* search for a free slot from a random place, the packed array of memory  *)
(* tags, the tags of the memory itself, canaries, and what happens to them *)
(* when memory tagging is switched off while slots are in use.             *)
(*                                                                         *)
(* Lists of slabs, quarantines and guard slabs are in SlabClass.  The      *)
(* program fills every slot that it gets, and never writes outside it.     *)
(* Words have Width bits and tags Tags values; the code has 64 and 16.     *)
(***************************************************************************)
EXTENDS Integers, FiniteSets, FiniteSetsExt

CONSTANTS
  Width,        \* U64_WIDTH
  SlotCounts,   \* the numbers of slots of a slab
  TaggedMax,    \* bound: slabs with more slots are not tagged
  Tags,         \* 2^TAG_WIDTH
  Canaries      \* values of get_random_u64 under canary_mask, 0 among them

ASSUME SlabSlotsAssumption ==
  /\ Width \in Nat \ {0} /\ SlotCounts \subseteq 1 .. 4 * Width
  /\ Tags \in Nat /\ Tags > 4
  /\ Canaries \subseteq Nat /\ Canaries \ {0} # {}

VARIABLES
  slots,     \* c->slots
  mte,       \* is_memtag_enabled()
  bitmap,    \* metadata->bitmap, each word as the set of its bits that are 1
  count,     \* metadata->count
  tags,      \* metadata->arm_mte_tags: two tags in each byte
  canary,    \* metadata->canary_value
  memory,    \* the memory of each slot: tag, data (0 or not) and canary
  pointer,   \* history: the tag of the last pointer to each slot
  released,  \* the slab is not mapped, or was never used
  fatal      \* fatal_error was called

vars == <<slots, mte, bitmap, count, tags, canary, memory, pointer, released, fatal>>

Slot == 0 .. slots - 1
Words == 0 .. 3
AllOnes == 0 .. Width - 1
Bytes == 0 .. 2 * Width       \* (MAX_SLAB_SLOT_COUNT + 2) / 2 bytes
RESERVED_TAG == 0

Zeroed == [tag |-> RESERVED_TAG, data |-> 0, canary |-> 0]

Init ==
  /\ slots \in SlotCounts
  /\ mte \in {on \in BOOLEAN : on => slots <= TaggedMax}
  /\ bitmap = [i \in Words |-> {}]
  /\ count = 0
  /\ tags = [i \in Bytes |-> 0]
  /\ canary = 0
  /\ memory = [s \in Slot |-> Zeroed]
  /\ pointer = [s \in Slot |-> RESERVED_TAG]
  /\ released = TRUE
  /\ fatal = FALSE

-----------------------------------------------------------------------------
(* The bitmap                                                              *)

set_used_slot(s) == [bitmap EXCEPT ![s \div Width] = @ \cup {s % Width}]
clear_used_slot(s) == [bitmap EXCEPT ![s \div Width] = @ \ {s % Width}]
is_used_slot(s) == s % Width \in bitmap[s \div Width]

\* The bits of a word behind its first n.
get_mask(n) == n .. Width - 1

LastWord == (slots - 1) \div Width

\* The slots that a word has no bit for, in the search from a random slot.
LateOutside(i) == IF i = slots \div Width + 1 THEN get_mask(slots - i * Width) ELSE {}
Outside(i) == IF i = slots \div Width THEN get_mask(slots - i * Width) ELSE {}

\* The search from r on: the words from the one of r, wrapping after the last
\* one; the bits of the first in front of r are tried when it comes up again.
get_free_slot(r) ==
  LET first == r \div Width
      word(k) == (first + k) % (LastWord + 1)
      masked(k) == bitmap[word(k)] \cup Outside(word(k))
                     \cup (IF k = 0 THEN 0 .. (r % Width) - 1 ELSE {})
      k == Min({j \in 0 .. LastWord + 1 : masked(j) # AllOnes})
  IN  Min(AllOnes \ masked(k)) + word(k) * Width

\* The search without SLOT_RANDOMIZE
get_first_free_slot ==
  LET masked(i) == bitmap[i] \cup (IF i = LastWord THEN get_mask(slots - i * Width) ELSE {})
      i == Min({j \in 0 .. LastWord : masked(j) # AllOnes})
  IN  Min(AllOnes \ masked(i)) + i * Width

has_free_slots == count < slots
is_free_slab == count = 0

\* The same without SLAB_METADATA_COUNT
has_free_slots_bitmap ==
  \/ \E i \in 0 .. LastWord - 1 : bitmap[i] # AllOnes
  \/ bitmap[LastWord] \cup get_mask(slots - LastWord * Width) # AllOnes
is_free_slab_bitmap == \A i \in Words : bitmap[i] = {}

-----------------------------------------------------------------------------
(* Tags and canaries                                                       *)

u4_arr_get(arr, i) == (IF i % 2 = 0 THEN arr[i \div 2] ELSE arr[i \div 2] \div Tags) % Tags

u4_arr_set(arr, i, val) ==
  [arr EXCEPT ![i \div 2] =
     IF i % 2 = 0 THEN @ - (@ % Tags) + val ELSE (@ % Tags) + val * Tags]

\* The exclusion mask of tag_and_clear_slab_slot: the reserved tag, and the last
\* ones of the left neighbour, of the slot itself and of the right neighbour.
WithoutRight(s) == {RESERVED_TAG, u4_arr_get(tags, s), u4_arr_get(tags, s + 1)}
WithoutOwn(s) == {RESERVED_TAG, u4_arr_get(tags, s), u4_arr_get(tags, s + 2)}
Excluded(s) == {RESERVED_TAG} \cup {u4_arr_get(tags, s + d) : d \in 0 .. 2}

\* set_slab_canary_value: 0 is kept for slots that were tagged.
canary_value(random) == IF random = 0 THEN Max(Canaries) ELSE random

\* check_canary fails
StrictBadCanary(s) == ~mte /\ memory[s].canary # canary
BadCanary(s) == ~mte /\ memory[s].canary \notin {0, canary}

\* write_after_free_check fails; a slab fresh from the system is not checked
WrittenAfterFree(s) == ~mte /\ ~released /\ memory[s].data # 0

-----------------------------------------------------------------------------
(* allocate_small, deallocate_small and the switch                         *)

\* The slot found is given out: tagged and cleared, or with a canary.
Allocate ==
  /\ ~fatal /\ has_free_slots
  /\ canary' \in IF released THEN {canary_value(r) : r \in Canaries} ELSE {canary}
  /\ \E r \in Slot :
       LET s == get_free_slot(r)
       IN  /\ bitmap' = set_used_slot(s)
           /\ fatal' = WrittenAfterFree(s)
           /\ IF mte
                THEN \E tag \in (0 .. Tags - 1) \ Excluded(s) :
                       /\ memory' = [memory EXCEPT ![s] = [tag |-> tag, data |-> 1, canary |-> 0]]
                       /\ tags' = u4_arr_set(tags, s + 1, tag)
                       /\ pointer' = [pointer EXCEPT ![s] = tag]
                ELSE /\ memory' = [memory EXCEPT ![s] = [@ EXCEPT !.data = 1, !.canary = canary']]
                     /\ pointer' = [pointer EXCEPT ![s] = RESERVED_TAG]
                     /\ UNCHANGED tags
  /\ count' = count + 1
  /\ released' = FALSE
  /\ UNCHANGED <<slots, mte>>

\* The memory of a slot after a free: cleared with its tag, or zeroed up to the
\* canary; the tag in the metadata stays.
Freed(s) == IF mte THEN Zeroed ELSE [memory[s] EXCEPT !.data = 0]

Deallocate(s) ==
  /\ ~fatal /\ is_used_slot(s)
  /\ fatal' = BadCanary(s)
  /\ memory' = [memory EXCEPT ![s] = Freed(s)]
  /\ bitmap' = clear_used_slot(s)
  /\ count' = count - 1
  /\ UNCHANGED <<slots, mte, tags, canary, pointer, released>>

\* An empty slab goes back to the system, by deallocate_small or by trim;
\* mapped again it is zero and has the default tag.
Release ==
  /\ ~fatal /\ is_free_slab /\ ~released
  /\ released' = TRUE
  /\ memory' = [s \in Slot |-> Zeroed]
  /\ UNCHANGED <<slots, mte, bitmap, count, tags, canary, pointer, fatal>>

\* h_malloc_disable_memory_tagging, with every lock held
DisableTagging ==
  /\ ~fatal /\ mte
  /\ mte' = FALSE
  /\ UNCHANGED <<slots, bitmap, count, tags, canary, memory, pointer, released, fatal>>

Next == Allocate \/ (\E s \in Slot : Deallocate(s)) \/ Release \/ DisableTagging

Spec == Init /\ [][Next]_vars

-----------------------------------------------------------------------------
(* Properties                                                              *)

FreeSlots == {s \in Slot : ~is_used_slot(s)}

\* get_free_slot finds the first free slot at or behind the random one, around
\* the end of the slab, whatever the last word has beyond it, so that every free
\* slot can come up; the count, the bitmap and the words agree on whether there
\* is a free slot and whether all are.
SearchExact ==
  /\ FreeSlots # {} =>
       /\ \A r \in Slot :
            LET behind == {s \in FreeSlots : s >= r}
            IN  get_free_slot(r) = IF behind # {} THEN Min(behind) ELSE Min(FreeSlots)
       /\ get_first_free_slot = Min(FreeSlots)
  /\ has_free_slots = (FreeSlots # {}) /\ has_free_slots_bitmap = has_free_slots
  /\ is_free_slab = (FreeSlots = Slot) /\ is_free_slab_bitmap = is_free_slab

\* A linear overflow is detected: the last pointer to a slot, still owned or
\* not, has a tag that the memory of the slots beside it does not have, and an
\* untagged pointer reaches no allocation.
OverflowCaught ==
  mte => \A s \in Slot :
           /\ is_used_slot(s) => memory[s].tag = pointer[s] /\ pointer[s] # RESERVED_TAG
           /\ pointer[s] # RESERVED_TAG =>
                \A n \in {s - 1, s + 1} \cap Slot : memory[n].tag # pointer[s]

\* A use after free is detected until the slot is allocated for the second time
\* after it: the memory of a free slot has the reserved tag, also when the slab
\* went back to the system in between, and the next owner's tag is another one
\* than the last owner's.
DanglingCaught ==
  [][mte' => \A s \in Slot :
       IF is_used_slot(s)' THEN ~is_used_slot(s) => memory'[s].tag # pointer[s]
       ELSE memory'[s].tag = RESERVED_TAG]_vars

\* A program that stays within its allocations is never killed: not by a canary
\* that tagging kept from being written, and not by the write after free check,
\* before and after tagging is switched off.
NoFalseAbort == ~fatal
=============================================================================

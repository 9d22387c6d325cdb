----------------------------- MODULE LargeAlloc -----------------------------
(***************************************************************************)
(* Large allocations by several threads: allocate_large, allocate_aligned, *)
(* deallocate_large, the region quarantine and h_realloc of a large        *)
(* allocation, over a small address space of pages.                        *)
(*                                                                         *)
(* ra->lock is held only around the region table and the quarantine, so    *)
(* each such section is one action, and so is each system call on a range  *)
(* that another thread could meanwhile get from mmap.  The table is the    *)
(* map that RegionMap specifies; an insertion may fail.                    *)
(*                                                                         *)
(* The program is correct: it frees and reallocates what it owns, and does *)
(* not touch a pointer while a call on it is in progress.                  *)
(***************************************************************************)
EXTENDS Integers, FiniteSets

CONSTANTS
  Thread,
  Pages,         \* number of pages of the address space
  Sizes,         \* large size classes, in pages
  Aligns,        \* alignments, in pages; 1 stands for allocate_large
  Guards,        \* values of get_guard_size
  SkipSize,      \* REGION_QUARANTINE_SKIP_THRESHOLD
  MoveSize,      \* MREMAP_MOVE_THRESHOLD
  RandomLen,     \* REGION_QUARANTINE_RANDOM_LENGTH
  QueueLen,      \* REGION_QUARANTINE_QUEUE_LENGTH
  ToSlab,        \* whether h_realloc may shrink to a slab allocation
  Failing,       \* bound: what may fail with ENOMEM
  MaxOwned       \* bound: allocations the program owns or asks for

Page == 0 .. Pages - 1

ASSUME LargeAllocAssumption ==
  /\ Pages \in Nat /\ Sizes \subseteq Nat \ {0}
  /\ Aligns \subseteq Nat \ {0} /\ Guards \subseteq Nat \ {0}
  /\ SkipSize \in Nat /\ MoveSize \in Nat /\ MoveSize >= SkipSize
  /\ RandomLen \in Nat /\ QueueLen \in Nat /\ ToSlab \in BOOLEAN
  /\ Failing \subseteq {"protect", "trim", "unmap", "fixed", "insert", "remap"}
  /\ MaxOwned \in Nat

VARIABLES
  mem,        \* what is at each page: "free", "none" (PROT_NONE), "zero", "data"
  regions,    \* the region table: records of address, size and guard size
  allocated,  \* ra->allocated, in pages
  quarantine_random, quarantine_queue,  \* ranges of pages; {} is a NULL cell
  quarantine_queue_index,
  owned,      \* the allocations the program owns
  leaked,     \* history: pages left behind by a munmap that failed
  loc         \* the local variables of each thread

quarantineVars == <<quarantine_random, quarantine_queue, quarantine_queue_index>>
vars == <<mem, regions, allocated, quarantineVars, owned, leaked, loc>>

Nothing == [p |-> 0, size |-> 0, guard |-> 0]
Region == [p : Page, size : 1 .. Pages, guard : Guards]

Body(r) == r.p .. r.p + r.size - 1
LeftGuard(r) == r.p - r.guard .. r.p - 1
RightGuard(r) == r.p + r.size .. r.p + r.size + r.guard - 1
Whole(r) == r.p - r.guard .. r.p + r.size + r.guard - 1

\* The thread is in no call; a call keeps its kind in op, what it allocates in
\* new (inside the mapping real), its argument in old, and the range being
\* given back in release.  kept is history: the pages that realloc must keep.
Idle == [pc |-> "idle", op |-> "none", new |-> Nothing, align |-> 1,
         real |-> {}, old |-> Nothing, release |-> Nothing, victim |-> {},
         kept |-> {}]

Init ==
  /\ mem = [a \in Page |-> "free"]
  /\ regions = {} /\ allocated = 0
  /\ quarantine_random = [i \in 0 .. RandomLen - 1 |-> {}]
  /\ quarantine_queue = [i \in 0 .. QueueLen - 1 |-> {}]
  /\ quarantine_queue_index = 0
  /\ owned = {} /\ leaked = {}
  /\ loc = [t \in Thread |-> Idle]

At(t, pc) == loc[t].pc = pc
Goto(t, pc) == loc' = [loc EXCEPT ![t].pc = pc]
Filled(S, value) == [a \in Page |-> IF a \in S THEN value ELSE mem[a]]

\* A call that fails returns NULL: what was passed to realloc is still owned.
ReturnNull(t) ==
  /\ owned' = owned \cup ({loc[t].old} \ {Nothing})
  /\ loc' = [loc EXCEPT ![t] = Idle]

Asked == Cardinality(owned) + Cardinality({t \in Thread : ~At(t, "idle")})

-----------------------------------------------------------------------------
(* allocate_large, allocate_aligned, allocate_pages, allocate_pages_aligned *)

\* The guard size is drawn under the lock, which is dropped before mmap.
Malloc(t, s, a, g) ==
  /\ At(t, "idle") /\ Asked < MaxOwned
  /\ loc' = [loc EXCEPT ![t] = [Idle EXCEPT !.pc = "map", !.op = "malloc", !.align = a,
                                            !.new = [p |-> 0, size |-> s, guard |-> g]]]
  /\ UNCHANGED <<mem, regions, allocated, quarantineVars, owned, leaked>>

Aligned(a, n) == n * ((a + n - 1) \div n)

\* mmap returns any range that is free.
MapPages(t) ==
  /\ At(t, "map")
  /\ \E base \in Page :
       LET new == loc[t].new
           len == new.size + loc[t].align - 1 + 2 * new.guard
           real == base .. base + len - 1
       IN  /\ real \subseteq Page /\ \A a \in real : mem[a] = "free"
           /\ mem' = Filled(real, "none")
           /\ loc' = [loc EXCEPT ![t] = [@ EXCEPT !.pc = "protect", !.real = real,
                         !.new = [new EXCEPT !.p = Aligned(base + new.guard, loc[t].align)]]]
  /\ UNCHANGED <<regions, allocated, quarantineVars, owned, leaked>>

\* No room, or ENOMEM.
MapFails(t) ==
  /\ At(t, "map")
  /\ ReturnNull(t)
  /\ UNCHANGED <<mem, regions, allocated, quarantineVars, leaked>>

\* memory_unmap, whose failure is ignored.
Unmap(S) ==
  \/ mem' = Filled(S, "free") /\ UNCHANGED leaked
  \/ "unmap" \in Failing /\ UNCHANGED mem /\ leaked' = leaked \cup S

ProtectPages(t) ==
  /\ At(t, "protect")
  /\ mem' = Filled(Body(loc[t].new), "zero")
  /\ Goto(t, "lead")
  /\ UNCHANGED <<regions, allocated, quarantineVars, owned, leaked>>

ProtectFails(t) ==
  /\ At(t, "protect") /\ "protect" \in Failing
  /\ Unmap(loc[t].real)
  /\ ReturnNull(t)
  /\ UNCHANGED <<regions, allocated, quarantineVars>>

Lead(t) == {a \in loc[t].real : a < loc[t].new.p - loc[t].new.guard}

Trail(t) == {a \in loc[t].real : a >= loc[t].new.p + loc[t].new.size + loc[t].new.guard}

TrimLead(t) ==
  /\ At(t, "lead")
  /\ mem' = Filled(Lead(t), "free")
  /\ Goto(t, "trail")
  /\ UNCHANGED <<regions, allocated, quarantineVars, owned, leaked>>

TrimTrail(t) ==
  /\ At(t, "trail")
  /\ mem' = Filled(Trail(t), "free")
  /\ Goto(t, "insert")
  /\ UNCHANGED <<regions, allocated, quarantineVars, owned, leaked>>

\* A trim cannot be unmapped, so the mapping is, as far as it was made: what was
\* trimmed before is unmapped again.
LeadFails(t) ==
  /\ At(t, "lead") /\ Lead(t) # {} /\ "trim" \in Failing
  /\ Unmap(loc[t].real)
  /\ ReturnNull(t)
  /\ UNCHANGED <<regions, allocated, quarantineVars>>

TrailFails(t) ==
  /\ At(t, "trail") /\ Trail(t) # {} /\ "trim" \in Failing
  /\ \/ mem' = Filled(loc[t].real, "free") /\ UNCHANGED leaked
     \/ /\ "unmap" \in Failing
        /\ UNCHANGED mem /\ leaked' = leaked \cup (loc[t].real \ Lead(t))
  /\ ReturnNull(t)
  /\ UNCHANGED <<regions, allocated, quarantineVars>>

\* regions_insert under the lock, and what the caller does next.
Insert(t) ==
  /\ At(t, "insert")
  /\ regions' = regions \cup {loc[t].new} /\ allocated' = allocated + loc[t].new.size
  /\ CASE loc[t].op = "malloc" -> owned' = owned \cup {loc[t].new}
                                  /\ loc' = [loc EXCEPT ![t] = Idle]
       [] loc[t].op = "move" -> UNCHANGED owned /\ Goto(t, "delete")
       [] loc[t].op = "copy" -> UNCHANGED owned /\ Goto(t, "copy")
  /\ UNCHANGED <<mem, quarantineVars, leaked>>

InsertFails(t) ==
  /\ At(t, "insert") /\ "insert" \in Failing
  /\ Goto(t, "drop")
  /\ UNCHANGED <<mem, regions, allocated, quarantineVars, owned, leaked>>

\* memory_purge, and memset if that fails: pages that are accessible become zero.
\* The old guard in the tail of a shrink is not, and stays so; a memset of it ends
\* the process and is no step.
Wiped(S) == [a \in Page |-> IF a \in S /\ mem[a] # "none" THEN "zero" ELSE mem[a]]

\* deallocate_pages: munmap, and when that fails the pages are wiped and stay.
DeallocatePages(r) ==
  \/ mem' = Filled(Whole(r), "free") /\ UNCHANGED leaked
  \/ /\ "unmap" \in Failing
     /\ mem' = Wiped(Body(r)) /\ leaked' = leaked \cup Whole(r)

Drop(t) ==
  /\ At(t, "drop")
  /\ DeallocatePages(loc[t].new)
  /\ ReturnNull(t)
  /\ UNCHANGED <<regions, allocated, quarantineVars>>

-----------------------------------------------------------------------------
(* deallocate_large and the region quarantine *)

Quarantine == RandomLen > 0 \/ QueueLen > 0
ReleaseAt(r) == IF ~Quarantine \/ r.size >= SkipSize THEN "unmap" ELSE "purge"

\* A faulty deletion that leaves the entry in the table.
FaultyWithout(p) == regions

\* The table after regions_delete.
Without(p) == {e \in regions : e.p # p}

\* The entry is found and deleted under the lock.
Free(t, r) ==
  /\ At(t, "idle") /\ r \in owned
  /\ owned' = owned \ {r}
  /\ regions' = Without(r.p) /\ allocated' = allocated - r.size
  /\ loc' = [loc EXCEPT ![t] = [Idle EXCEPT !.pc = ReleaseAt(r), !.op = "free",
                                            !.release = r]]
  /\ UNCHANGED <<mem, quarantineVars, leaked>>

\* The last step of a call, with memory mem' as its system call left it.
Finish(t) ==
  LET l == loc[t] IN
  /\ IF l.op = "shrink"
       THEN /\ UNCHANGED owned
            /\ loc' = [loc EXCEPT ![t] = [l EXCEPT !.pc = "resize", !.release = Nothing,
                                                   !.victim = {}]]
       ELSE /\ owned' = owned \cup ({l.new} \ {Nothing})
            /\ loc' = [loc EXCEPT ![t] = Idle]

UnmapRelease(t) ==
  /\ At(t, "unmap")
  /\ DeallocatePages(loc[t].release)
  /\ Finish(t)
  /\ UNCHANGED <<regions, allocated, quarantineVars>>

\* A faulty purge that is skipped when the mapping cannot be replaced.
FaultyPurged(r) == {Filled(Body(r), "none"), mem}

\* memory_map_fixed, and if that fails the pages are wiped.
Purged(r) ==
  {Filled(Body(r), "none")} \cup (IF "fixed" \in Failing THEN {Wiped(Body(r))} ELSE {})

Purge(t) ==
  /\ At(t, "purge")
  /\ mem' \in Purged(loc[t].release)
  /\ Goto(t, "enqueue")
  /\ UNCHANGED <<regions, allocated, quarantineVars, owned, leaked>>

\* A faulty quarantine entry that is a guard too long.
FaultyHeld(r) == r.p - r.guard .. r.p + r.size + 2 * r.guard - 1

\* The pages of a quarantine_info.
Held(r) == Whole(r)

\* Into the random array, what was there into the ring, and what was there out.
Enqueue(t) ==
  /\ At(t, "enqueue")
  /\ \E i \in (IF RandomLen = 0 THEN {0} ELSE 0 .. RandomLen - 1) :
       LET target == Held(loc[t].release)
           swapped == IF RandomLen = 0 THEN target ELSE quarantine_random[i]
           queued == QueueLen > 0 /\ swapped # {}
           out == IF queued THEN quarantine_queue[quarantine_queue_index] ELSE swapped
       IN  /\ quarantine_random' =
                IF RandomLen = 0 THEN quarantine_random ELSE [quarantine_random EXCEPT ![i] = target]
           /\ quarantine_queue' =
                IF queued THEN [quarantine_queue EXCEPT ![quarantine_queue_index] = swapped]
                ELSE quarantine_queue
           /\ quarantine_queue_index' =
                IF queued THEN (quarantine_queue_index + 1) % QueueLen ELSE quarantine_queue_index
           /\ IF out = {} THEN Finish(t)
              ELSE UNCHANGED owned /\ loc' = [loc EXCEPT ![t] = [@ EXCEPT !.pc = "evict", !.victim = out]]
  /\ UNCHANGED <<mem, regions, allocated, leaked>>

\* The evicted range is unmapped with the lock dropped.
Evict(t) ==
  /\ At(t, "evict")
  /\ Unmap(loc[t].victim)
  /\ Finish(t)
  /\ UNCHANGED <<regions, allocated, quarantineVars>>

-----------------------------------------------------------------------------
(* h_realloc of a large allocation *)

\* The pages of an allocation that hold program data, counted from its start.
DataPages(memory, r) == {k \in 0 .. r.size - 1 : memory[r.p + k] = "data"}

\* The entry is read under the lock.  A request for the size it has returns at
\* once and is left out.
ReallocTo(t, r, pc, op, new) ==
  /\ At(t, "idle") /\ r \in owned /\ Asked <= MaxOwned
  /\ owned' = owned \ {r}
  /\ loc' = [loc EXCEPT ![t] = [Idle EXCEPT !.pc = pc, !.op = op, !.old = r, !.new = new,
                                            !.kept = DataPages(mem, r)]]
  /\ UNCHANGED <<mem, regions, allocated, quarantineVars, leaked>>

ReallocShrink(t, r, s) ==
  s < r.size /\ ReallocTo(t, r, "shrink", "shrink", [r EXCEPT !.size = s])

\* allocate_large is entered next.
ReallocGrow(t, r, s, g) ==
  /\ s > r.size
  /\ ReallocTo(t, r, "map", IF r.size >= MoveSize THEN "move" ELSE "copy",
               [p |-> 0, size |-> s, guard |-> g])

\* The new allocation comes from a slab, which this module does not follow.
ReallocToSlab(t, r) == ToSlab /\ ReallocTo(t, r, "copy", "copy", Nothing)

\* A faulty shrink that gives back the pages after the new end, guard included.
FaultyCutOff(old, new) == [p |-> new.p + new.size, size |-> old.size - new.size, guard |-> 0]

\* What an in-place shrink gives back lies behind the new guard.
CutOff(old, new) ==
  [p |-> new.p + new.size + old.guard, size |-> old.size - new.size, guard |-> 0]

\* The guard is moved in place, and the tail goes the way of a freed range.
Shrink(t) ==
  LET new == loc[t].new
      tail == CutOff(loc[t].old, new)
  IN
  /\ At(t, "shrink")
  /\ mem' = Filled(RightGuard(new), "none")
  /\ loc' = [loc EXCEPT ![t] = [@ EXCEPT !.pc = ReleaseAt(tail), !.release = tail]]
  /\ UNCHANGED <<regions, allocated, quarantineVars, owned, leaked>>

ShrinkFails(t) ==
  /\ At(t, "shrink") /\ "fixed" \in Failing
  /\ ReturnNull(t)
  /\ UNCHANGED <<mem, regions, allocated, quarantineVars, leaked>>

\* Faulty statistics that take all of the old size off.
FaultyGivenBack(old, new) == old.size

GivenBack(old, new) == old.size - new.size

\* The entry is found again, after the lock was dropped, and gets its new size.
Resize(t) ==
  LET l == loc[t] IN
  /\ At(t, "resize")
  /\ \E e \in regions :
       e.p = l.old.p /\ regions' = (regions \ {e}) \cup {[e EXCEPT !.size = l.new.size]}
  /\ allocated' = allocated - GivenBack(l.old, l.new)
  /\ owned' = owned \cup {l.new}
  /\ loc' = [loc EXCEPT ![t] = Idle]
  /\ UNCHANGED <<mem, quarantineVars, leaked>>

\* A faulty copy that leaves out the last page.
FaultyCopySize(old, new) == (IF old.size < new.size THEN old.size ELSE new.size) - 1

\* copy_size
CopySize(old, new) == IF old.size < new.size THEN old.size ELSE new.size

\* The contents of the old allocation at the start of the new one.
Copied(old, new) ==
  LET n == CopySize(old, new)
  IN  [a \in Page |-> IF a \in new.p .. new.p + n - 1 THEN mem[old.p + (a - new.p)] ELSE mem[a]]

Copy(t) ==
  /\ At(t, "copy")
  /\ mem' = Copied(loc[t].old, loc[t].new)
  /\ Goto(t, "delete")
  /\ UNCHANGED <<regions, allocated, quarantineVars, owned, leaked>>

\* The old entry is deleted under the lock: by deallocate_large after a copy,
\* by h_realloc itself before a move.
Delete(t) ==
  LET old == loc[t].old IN
  /\ At(t, "delete")
  /\ regions' = Without(old.p) /\ allocated' = allocated - old.size
  /\ loc' = [loc EXCEPT ![t] =
                [@ EXCEPT !.pc = IF loc[t].op = "move" THEN "remap" ELSE ReleaseAt(old),
                          !.release = old]]
  /\ UNCHANGED <<mem, quarantineVars, owned, leaked>>

\* mremap replaces the new mapping by the old pages and unmaps the old range.
Remap(t) ==
  LET old == loc[t].old
      moved == Copied(old, loc[t].new)
  IN
  /\ At(t, "remap")
  /\ mem' = [a \in Page |-> IF a \in Body(old) THEN "free" ELSE moved[a]]
  /\ Goto(t, "guards")
  /\ UNCHANGED <<regions, allocated, quarantineVars, owned, leaked>>

\* The contents are copied and the old pages deallocated instead.
RemapFails(t) ==
  /\ At(t, "remap") /\ "remap" \in Failing
  /\ mem' = Copied(loc[t].old, loc[t].new)
  /\ Goto(t, "unmap")
  /\ UNCHANGED <<regions, allocated, quarantineVars, owned, leaked>>

\* A faulty cleanup after mremap that forgets the guard on the right.
LostOldGuards(old) == LeftGuard(old)

\* What mremap leaves of the old mapping.
OldGuards(old) == LeftGuard(old) \cup RightGuard(old)

\* Two calls of memory_unmap, either of which may fail.  No other thread can tell
\* whether they are one step: the guards are nobody else's until they are free.
UnmapGuards(t) ==
  LET old == loc[t].old
      failures == {{}} \cup (IF "unmap" \in Failing
                               THEN {LeftGuard(old), RightGuard(old), OldGuards(old)} ELSE {})
  IN
  /\ At(t, "guards")
  /\ \E kept \in failures :
       mem' = Filled(OldGuards(old) \ kept, "free") /\ leaked' = leaked \cup kept
  /\ Finish(t)
  /\ UNCHANGED <<regions, allocated, quarantineVars>>

-----------------------------------------------------------------------------
\* The program fills an allocation that it owns.
Write(r) ==
  /\ r \in owned
  /\ mem' = Filled(Body(r), "data")
  /\ UNCHANGED <<regions, allocated, quarantineVars, owned, loc, leaked>>

AllocateStep(t) ==
  MapPages(t) \/ MapFails(t) \/ ProtectPages(t) \/ ProtectFails(t) \/ TrimLead(t)
    \/ TrimTrail(t) \/ LeadFails(t) \/ TrailFails(t) \/ Insert(t) \/ InsertFails(t) \/ Drop(t)
ReleaseStep(t) == UnmapRelease(t) \/ Purge(t) \/ Enqueue(t) \/ Evict(t)
ReallocStep(t) ==
  Shrink(t) \/ ShrinkFails(t) \/ Resize(t) \/ Copy(t) \/ Delete(t) \/ Remap(t)
    \/ RemapFails(t) \/ UnmapGuards(t)

Call(t) ==
  \/ \E s \in Sizes, a \in Aligns, g \in Guards : Malloc(t, s, a, g)
  \/ \E r \in owned :
       \/ Free(t, r)
       \/ ReallocToSlab(t, r)
       \/ \E s \in Sizes :
            ReallocShrink(t, r, s) \/ \E g \in Guards : ReallocGrow(t, r, s, g)

Next ==
  \/ \E t \in Thread : Call(t) \/ AllocateStep(t) \/ ReleaseStep(t) \/ ReallocStep(t)
  \/ \E r \in owned : Write(r)

Spec == Init /\ [][Next]_vars
-----------------------------------------------------------------------------
(* Properties *)

\* Every variable has its type; ra->allocated, a size_t, stays above zero.
TypeOK ==
  /\ mem \in [Page -> {"free", "none", "zero", "data"}]
  /\ regions \subseteq Region /\ owned \subseteq Region /\ allocated \in Nat
  /\ \A i \in 0 .. RandomLen - 1 : quarantine_random[i] \subseteq Page
  /\ \A i \in 0 .. QueueLen - 1 : quarantine_queue[i] \subseteq Page
  /\ quarantine_queue_index \in (IF QueueLen = 0 THEN {0} ELSE 0 .. QueueLen - 1)
  /\ \A t \in Thread : loc[t].real \cup loc[t].victim \subseteq Page

\* The phases of a call.
Mapping == {"protect", "lead", "trail", "insert", "drop"}
Releasing == {"unmap", "purge", "enqueue", "evict"}

\* The pages of the allocation that thread t is making or keeping.
NewPages(t) ==
  LET l == loc[t] IN
  CASE l.pc \in {"protect", "lead"} -> l.real
    [] l.pc = "trail" -> l.real \ Lead(t)
    [] l.pc \in {"insert", "drop"} -> Whole(l.new)
    [] l.new # Nothing /\ l.pc \in Releasing \cup {"copy", "delete", "remap", "guards", "resize"}
         -> Whole(l.new)
    [] OTHER -> {}

\* The pages that thread t has not given back yet.
OldPages(t) ==
  LET l == loc[t] IN
  CASE l.old # Nothing /\ l.pc \in Mapping \cup {"map", "shrink", "copy", "delete", "remap"}
         -> Whole(l.old)
    [] l.pc \in {"unmap", "purge", "enqueue"} -> Whole(l.release)
    [] l.pc = "evict" -> l.victim
    [] l.pc = "guards" -> LeftGuard(l.old) \cup RightGuard(l.old)
    [] OTHER -> {}

\* Everybody with a claim to pages, and those pages.
Claims ==
  {<<"owned", r, Whole(r)>> : r \in owned}
    \cup {<<"new", t, NewPages(t)>> : t \in Thread}
    \cup {<<"old", t, OldPages(t)>> : t \in Thread}
    \cup {<<"random", i, quarantine_random[i]>> : i \in 0 .. RandomLen - 1}
    \cup {<<"queue", i, quarantine_queue[i]>> : i \in 0 .. QueueLen - 1}

Claimed == UNION {c[3] : c \in Claims}

\* No page has two users: allocations, quarantined ranges and what the threads
\* are about to map, move or unmap are apart, so no munmap hits a stranger.
RangesApart ==
  \A c, d \in Claims : c[1] # d[1] \/ c[2] # d[2] => c[3] \cap d[3] = {}

\* What is claimed is mapped, and only what munmap refused to unmap is mapped
\* without a claim: no path through free, realloc or a failure forgets a range
\* or a guard.
MappedExactly ==
  {a \in Page : mem[a] # "free"} = Claimed \cup leaked /\ Claimed \cap leaked = {}

\* An allocation is accessible, and has its guards on both sides, for as long as
\* the program owns it: the README guarantees guard regions to the left and right.
OwnedIntact ==
  \A r \in owned :
    /\ \A a \in Body(r) : mem[a] \in {"zero", "data"}
    /\ \A a \in LeftGuard(r) \cup RightGuard(r) : mem[a] = "none"

\* The entries that calls in progress have in the table.
InFlight ==
  {loc[t].old : t \in {u \in Thread : \/ loc[u].op = "shrink"
                                      \/ loc[u].op \in {"copy", "move"}
                                         /\ loc[u].pc \in Mapping \cup {"map", "copy", "delete"}}}
    \cup
  {loc[t].new : t \in {u \in Thread : /\ loc[u].op \in {"copy", "move"} /\ loc[u].new # Nothing
                                      /\ loc[u].pc \in Releasing
                                           \cup {"copy", "delete", "remap", "guards"}}}

SumSizes(R) == Cardinality({e \in R \X (1 .. Pages) : e[2] <= e[1].size})

\* The table holds exactly the allocations the program owns and those inside a
\* realloc, with their present sizes, and ra->allocated is their sum: free and
\* malloc_usable_size never fail on a correct pointer, nor accept a stale one.
TableExact == regions = owned \cup InFlight /\ allocated = SumSizes(regions)

\* A freed range is neither accessible nor given to anybody before it leaves the
\* quarantine; if it could not be protected it is at least zero.
QuarantineSealed ==
  \A c \in Claims : c[1] \in {"random", "queue"} =>
    \A a \in c[3] : mem[a] = "none" \/ ("fixed" \in Failing /\ mem[a] = "zero")

\* malloc returns zeroed pages, and realloc returns the contents of the old
\* allocation as far as the new one goes, and zeroes behind them.
ContentsKept ==
  [][\A t \in Thread : At(t, "idle")' /\ ~At(t, "idle") =>
       \A r \in owned' \ owned : DataPages(mem', r) = loc[t].kept \cap (0 .. r.size - 1)]_vars

\* No call on another allocation changes what the program has written.
DataKept ==
  [][\A r \in owned \cap owned' : DataPages(mem, r) \subseteq DataPages(mem', r)]_vars
=============================================================================

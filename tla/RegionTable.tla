---------------------------- MODULE RegionTable ----------------------------
(***************************************************************************)
(* The hash table of large allocations (struct region_allocator):          *)
(* regions_insert, regions_grow, regions_find and regions_delete.  It is   *)
(* open addressing with linear probing downwards, deletion by shifting     *)
(* entries back into the hole, and growth by rehashing into the other of   *)
(* two arrays.                                                             *)
(*                                                                         *)
(* Every operation runs under ra->lock, but each of its loops takes one    *)
(* step per probe here, so that whether a loop ends is a property of the   *)
(* model and not an assumption.  A call is one of the four ways h_malloc.c *)
(* uses the table under one acquisition of the lock: insert, find, find    *)
(* and delete, find and store a new size.                                  *)
(***************************************************************************)
EXTENDS Integers, FiniteSets

CONSTANTS
  Addr,          \* page addresses mmap may return for a large allocation
  Size,          \* what is stored with an address: its size and guard size
  InitialTotal,  \* INITIAL_REGION_TABLE_SIZE
  MaxTotal,      \* MAX_REGION_TABLE_SIZE
  HashValues,    \* values of hash_page, as far as the masks keep them
  LowestFirst,   \* bound: mmap returns the lowest address not in the table
  Used,          \* bound: the addresses looked up, resized or freed
  NULL

PowersOfTwo == {2 ^ k : k \in 0 .. 30}

\* INITIAL_REGION_TABLE_SIZE is 128.  With a table of 4 or fewer entries the
\* load factor test would let the last empty entry be filled.
ASSUME RegionTableAssumption ==
  /\ InitialTotal \in Nat /\ InitialTotal > 4 /\ InitialTotal \in PowersOfTwo
  /\ MaxTotal \in Nat /\ InitialTotal <= MaxTotal
  /\ HashValues \subseteq 0 .. MaxTotal - 1 /\ HashValues # {}
  /\ NULL \notin Addr \cup Size /\ NULL \notin {"full", "inserted", "missing", "deleted", "resized"}
  /\ LowestFirst \in BOOLEAN /\ Used \subseteq Addr

VARIABLES
  tables,   \* regions_a and regions_b
  current,  \* which of the two ra->regions points to
  total, free,
  mapped,   \* entries of each array that are readable and writable
  hash,     \* hash_page: any function, the same throughout
  call,     \* the operation that holds ra->lock, and its arguments
  pc,       \* where it is
  i, j,     \* its indices into ra->regions
  index,    \* regions_grow's index into the new array
  out       \* what it returns, NULL until that is decided

tableVars == <<tables, current, total, free, mapped>>
vars == <<tableVars, hash, call, pc, i, j, index, out>>

Empty == [p |-> NULL, size |-> NULL]
Entry == [p : Addr, size : Size] \cup {Empty}
Index == 0 .. MaxTotal - 1
regions == tables[current]
Other == 1 - current

Calls ==
  [op : {"insert", "resize"}, p : Addr, size : Size]
    \cup [op : {"find", "delete"}, p : Addr]
NoCall == [op |-> "none"]

\* The addresses and sizes the table holds.
Contents == {<<regions[k].p, regions[k].size>> : k \in {l \in 0 .. total - 1 : regions[l] # Empty}}

\* hash_page(p) & mask, for a table of n entries.
Home(p, n) == hash[p] % n

\* A faulty probe that stops at the bottom of the array.
FaultyDown(k, n) == IF k = 0 THEN 0 ELSE k - 1

\* (index - 1) & mask, for a table of n entries.
Down(k, n) == IF k = 0 THEN n - 1 ELSE k - 1

Init ==
  /\ tables = [t \in {0, 1} |-> [k \in Index |-> Empty]]
  /\ current = 0 /\ total = InitialTotal /\ free = InitialTotal
  /\ mapped = [t \in {0, 1} |-> IF t = 0 THEN InitialTotal ELSE 0]
  /\ hash \in [Addr -> HashValues]
  /\ call = NoCall /\ pc = "idle" /\ i = 0 /\ j = 0 /\ index = 0
  /\ out = NULL

\* mmap never returns the address of a live allocation.
MmapResults ==
  LET absent == {p \in Addr : \A e \in Contents : e[1] # p}
  IN  {p \in absent : LowestFirst => \A q \in absent : p <= q}

Start(c) ==
  /\ pc = "idle"
  /\ c.op = "insert" => c.p \in MmapResults
  /\ c.op # "insert" => c.p \in Used
  /\ call' = c /\ pc' = "start"
  /\ UNCHANGED <<tableVars, hash, i, j, index, out>>

-----------------------------------------------------------------------------
(* regions_insert and regions_grow *)

Overloaded == free * 4 < total

StartInsert ==
  /\ pc = "start" /\ call.op = "insert" /\ ~Overloaded
  /\ pc' = "insert" /\ i' = Home(call.p, total)
  /\ UNCHANGED <<tableVars, hash, call, j, index, out>>

\* The table is at its largest, or memory_protect_rw_metadata fails.
GrowFails ==
  /\ pc = "start" /\ call.op = "insert" /\ Overloaded
  /\ pc' = "return" /\ out' = "full"
  /\ UNCHANGED <<tableVars, hash, call, i, j, index>>

StartGrow ==
  /\ pc = "start" /\ call.op = "insert" /\ Overloaded /\ 2 * total <= MaxTotal
  /\ mapped' = [mapped EXCEPT ![Other] = 2 * total]
  /\ pc' = "grow" /\ i' = 0
  /\ UNCHANGED <<tables, current, total, free, hash, call, j, index, out>>

GrowNext ==
  /\ pc = "grow" /\ i < total
  /\ IF regions[i] = Empty
       THEN i' = i + 1 /\ UNCHANGED <<pc, index>>
       ELSE pc' = "rehash" /\ index' = Home(regions[i].p, 2 * total) /\ UNCHANGED i
  /\ UNCHANGED <<tableVars, hash, call, j, out>>

RehashProbe ==
  /\ pc = "rehash" /\ tables[Other][index] # Empty
  /\ index' = Down(index, 2 * total)
  /\ UNCHANGED <<tableVars, hash, call, pc, i, j, out>>

\* A faulty growth that stores at the home entry without probing.
FaultyRehashStore ==
  /\ pc = "rehash"
  /\ tables' = [tables EXCEPT ![Other][index] = regions[i]]
  /\ pc' = "grow" /\ i' = i + 1 /\ index' = 0
  /\ UNCHANGED <<current, total, free, mapped, hash, call, j, out>>

RehashStore ==
  /\ pc = "rehash" /\ tables[Other][index] = Empty
  /\ tables' = [tables EXCEPT ![Other][index] = regions[i]]
  /\ pc' = "grow" /\ i' = i + 1 /\ index' = 0
  /\ UNCHANGED <<current, total, free, mapped, hash, call, j, out>>

\* A faulty growth that leaves the old array as it was.
FaultyCleared(table) == table

\* memory_map_fixed, or memory_purge, or memset: each leaves zeroes.
Cleared(table) == [k \in Index |-> IF k < total THEN Empty ELSE table[k]]

\* A faulty growth that counts every entry of the new array as free.
FaultyGrownFree == 2 * total

GrownFree == free + total

GrowDone ==
  /\ pc = "grow" /\ i = total
  /\ tables' = [tables EXCEPT ![current] = Cleared(regions)]
  /\ \E fixed \in BOOLEAN :
       mapped' = [mapped EXCEPT ![current] = IF fixed THEN 0 ELSE @]
  /\ free' = GrownFree /\ total' = 2 * total /\ current' = Other
  /\ pc' = "insert" /\ i' = Home(call.p, 2 * total)
  /\ UNCHANGED <<hash, call, j, index, out>>

InsertProbe ==
  /\ pc = "insert" /\ regions[i] # Empty
  /\ i' = Down(i, total)
  /\ UNCHANGED <<tableVars, hash, call, pc, j, index, out>>

InsertStore ==
  /\ pc = "insert" /\ regions[i] = Empty
  /\ tables' = [tables EXCEPT ![current][i] = [p |-> call.p, size |-> call.size]]
  /\ free' = free - 1
  /\ pc' = "return" /\ out' = "inserted"
  /\ UNCHANGED <<current, total, mapped, hash, call, i, j, index>>

-----------------------------------------------------------------------------
(* regions_find, and what its callers do with the entry it returns *)

StartFind ==
  /\ pc = "start" /\ call.op # "insert"
  /\ pc' = "find" /\ i' = Home(call.p, total)
  /\ UNCHANGED <<tableVars, hash, call, j, index, out>>

FindProbe ==
  /\ pc = "find" /\ regions[i] # Empty /\ regions[i].p # call.p
  /\ i' = Down(i, total)
  /\ UNCHANGED <<tableVars, hash, call, pc, j, index, out>>

FindMiss ==
  /\ pc = "find" /\ regions[i] = Empty
  /\ pc' = "return" /\ out' = "missing"
  /\ UNCHANGED <<tableVars, hash, call, i, j, index>>

Hit == pc = "find" /\ regions[i].p = call.p

FindHit ==
  /\ Hit /\ call.op = "find"
  /\ pc' = "return" /\ out' = regions[i].size
  /\ UNCHANGED <<tableVars, hash, call, i, j, index>>

\* h_realloc: region->size = size.
Resize ==
  /\ Hit /\ call.op = "resize"
  /\ tables' = [tables EXCEPT ![current][i].size = call.size]
  /\ pc' = "return" /\ out' = "resized"
  /\ UNCHANGED <<current, total, free, mapped, hash, call, i, j, index>>

-----------------------------------------------------------------------------
(* regions_delete *)

\* The entry is cleared and becomes the hole j; the scan starts below it.
Delete ==
  /\ Hit /\ call.op = "delete"
  /\ tables' = [tables EXCEPT ![current][i] = Empty]
  /\ free' = free + 1
  /\ pc' = "shift" /\ j' = i /\ i' = Down(i, total) /\ out' = "deleted"
  /\ UNCHANGED <<current, total, mapped, hash, call, index>>

\* A faulty test that forgets the two cases in which the scan has wrapped.
FaultyStays(k, r, hole) == k <= r /\ r < hole

\* The entry at k, whose home is r, must not move into the hole: r lies
\* between k and the hole, so a probe for it never reaches the hole.
Stays(k, r, hole) ==
  \/ k <= r /\ r < hole
  \/ r < hole /\ hole < k
  \/ hole < k /\ k <= r

ShiftSkip ==
  /\ pc = "shift" /\ regions[i] # Empty /\ Stays(i, Home(regions[i].p, total), j)
  /\ i' = Down(i, total)
  /\ UNCHANGED <<tableVars, hash, call, pc, j, index, out>>

ShiftMove ==
  /\ pc = "shift" /\ regions[i] # Empty /\ ~Stays(i, Home(regions[i].p, total), j)
  /\ tables' = [tables EXCEPT ![current][j] = regions[i], ![current][i] = Empty]
  /\ j' = i /\ i' = Down(i, total)
  /\ UNCHANGED <<current, total, free, mapped, hash, call, pc, index, out>>

ShiftDone ==
  /\ pc = "shift" /\ regions[i] = Empty
  /\ pc' = "return"
  /\ UNCHANGED <<tableVars, hash, call, i, j, index, out>>

\* The operation returns; its local variables are gone.
Return ==
  /\ pc = "return"
  /\ pc' = "idle" /\ call' = NoCall /\ out' = NULL
  /\ i' = 0 /\ j' = 0 /\ index' = 0
  /\ UNCHANGED <<tableVars, hash>>

-----------------------------------------------------------------------------
InsertStep ==
  StartInsert \/ GrowFails \/ StartGrow \/ GrowNext \/ RehashProbe
    \/ RehashStore \/ GrowDone \/ InsertProbe \/ InsertStore
FindStep == StartFind \/ FindProbe \/ FindMiss \/ FindHit \/ Resize
DeleteStep == Delete \/ ShiftSkip \/ ShiftMove \/ ShiftDone

Step == InsertStep \/ FindStep \/ DeleteStep \/ Return
Next == (\E c \in Calls : Start(c)) \/ Step

\* The thread that holds ra->lock keeps running: no loop of an operation waits.
Spec == Init /\ [][Next]_vars /\ WF_vars(Step)

-----------------------------------------------------------------------------
(* Properties *)

\* Every variable has its type, and the indices stay inside the arrays.
TypeOK ==
  /\ tables \in [{0, 1} -> [Index -> Entry]] /\ current \in {0, 1}
  /\ total \in InitialTotal .. MaxTotal /\ free \in 0 .. total
  /\ mapped \in [{0, 1} -> 0 .. MaxTotal]
  /\ hash \in [Addr -> HashValues]
  /\ call \in Calls \cup {NoCall}
  /\ pc \in {"idle", "start", "insert", "grow", "rehash", "find", "shift", "return"}
  /\ i \in 0 .. total /\ j \in 0 .. total - 1 /\ index \in Index
  /\ out \in Size \cup {NULL, "full", "inserted", "missing", "deleted", "resized"}

\* The entries a probe for p visits before it reaches entry k.
ProbePath(p, k, n) ==
  LET h == Home(p, n)
  IN  IF k <= h THEN {l \in 0 .. n - 1 : k < l /\ l <= h}
                ELSE {l \in 0 .. n - 1 : l <= h \/ k < l}

\* No address is stored twice: not by a shift, nor by a rehash into the new array.
StoredOnce ==
  \A t \in {0, 1} : \A k, l \in Index :
    tables[t][k] # Empty /\ tables[t][k].p = tables[t][l].p => k = l

\* Between operations no probe for a stored address meets an empty entry before
\* the address: regions_delete has moved back what its hole cut off.  And at any
\* time there is one entry to find.
ProbesUnbroken ==
  /\ pc \in {"idle", "start", "return"} =>
       \A k \in 0 .. total - 1 :
         regions[k] # Empty =>
           \A l \in ProbePath(regions[k].p, k, total) : regions[l] # Empty
  /\ StoredOnce

\* ra->free counts the empty entries of the table, and at least one is left, so
\* that a probe for an absent address stops.
FreeCountExact ==
  /\ free = Cardinality({k \in 0 .. total - 1 : regions[k] = Empty})
  /\ free > 0

\* The array in use is accessible up to total; the other one holds only zeroes
\* whenever a growth may start, and only accessible entries are ever nonzero.
ArraysReady ==
  /\ mapped[current] >= total
  /\ \A k \in Index : k >= total => regions[k] = Empty
  /\ pc \notin {"grow", "rehash"} => \A k \in Index : tables[Other][k] = Empty
  /\ \A k \in Index : tables[Other][k] # Empty => k < mapped[Other]

RM == INSTANCE RegionMap WITH
        map <- Contents, Inserted <- "inserted", Full <- "full",
        Missing <- "missing", Deleted <- "deleted", Resized <- "resized"

\* The table is a map: what a call returns and what it leaves in the table is
\* what the map promises, whatever collisions, shifts and growths happen inside.
ImplementsMap == RM!MapSpec

\* Every operation returns: no probe, shift or rehash runs forever.
OperationsReturn == pc # "idle" ~> pc = "idle"
=============================================================================

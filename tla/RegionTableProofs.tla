------------------------- MODULE RegionTableProofs -------------------------
(***************************************************************************)
(* Proofs about RegionTable for every table size, every set of addresses   *)
(* and every hash function: between operations no probe is broken, the     *)
(* free count is exact, growth loses nothing, and the table implements the *)
(* map of RegionMap.                                                       *)
(***************************************************************************)
EXTENDS RegionTable, FiniteSetTheorems, TLAPS

(* An array T of which the first n entries are in use, with the hash values H *)

Slot(H, p, n) == H[p] % n

\* A probe that starts at h and runs down passes l before it reaches k.
Passes(h, k, l) == IF k <= h THEN k < l /\ l <= h ELSE l <= h \/ k < l

\* Every entry that a probe for p passes before k is occupied.
Reaches(H, T, n, p, k) == \A l \in 0 .. n - 1 : Passes(Slot(H, p, n), k, l) => T[l] # Empty

\* And none of them holds p.
Seeks(H, T, n, p, k) ==
  \A l \in 0 .. n - 1 : Passes(Slot(H, p, n), k, l) => T[l] # Empty /\ T[l].p # p

Unbroken(H, T, n) == \A k \in 0 .. n - 1 : T[k] # Empty => Reaches(H, T, n, T[k].p, k)
Once(T) == \A k, l \in Index : T[k] # Empty /\ T[k].p = T[l].p => k = l
Confined(T, n) == \A k \in Index : k >= n => T[k] = Empty
Blank(T) == \A k \in Index : T[k] = Empty
Absent(T, p) == \A k \in Index : T[k].p # p
Stored(T, n) == {k \in 0 .. n - 1 : T[k] # Empty}

\* The entries strictly between the hole and the scan k, downwards from the hole.
Scanned(hole, k, l) == IF k < hole THEN k < l /\ l < hole ELSE l < hole \/ k < l

\* While entries are shifted back only the hole breaks a probe, and it breaks none
\* for an entry that has been scanned.
OnlyHole(H, T, n, hole) ==
  \A k, l \in 0 .. n - 1 :
    T[k] # Empty /\ Passes(Slot(H, T[k].p, n), k, l) => l = hole \/ T[l] # Empty
ScannedStay(H, T, n, hole, k) ==
  \A l \in 0 .. n - 1 :
    Scanned(hole, k, l) => T[l] # Empty /\ ~Passes(Slot(H, T[l].p, n), l, hole)
Shifting(H, T, n, hole, k) ==
  /\ T[hole] = Empty /\ k # hole
  /\ \E e \in 0 .. n - 1 : e # hole /\ T[e] = Empty
  /\ OnlyHole(H, T, n, hole) /\ ScannedStay(H, T, n, hole, k)

\* The array U of w entries holds the entries of T below k, and no others.
Holds(T, n, U, w, k) ==
  /\ \A m \in Stored(U, w) : \E l \in Stored(T, n) : l < k /\ T[l] = U[m]
  /\ \A l \in Stored(T, n) : l < k => \E m \in Stored(U, w) : T[l] = U[m]
  /\ Cardinality(Stored(U, w)) = Cardinality({l \in Stored(T, n) : l < k})
Copied(H, T, U, n, k) == Once(U) /\ Unbroken(H, U, 2 * n) /\ Holds(T, n, U, 2 * n, k)

(* The inductive invariant *)

Growing == pc \in {"grow", "rehash"}
Inserting == pc \in {"start", "insert", "grow", "rehash"} /\ call.op = "insert"

Indices ==
  /\ i \in 0 .. total /\ (pc # "grow" => i < total) /\ j \in 0 .. total - 1 /\ index \in Index
  /\ Growing => 2 * total <= MaxTotal
  /\ pc = "rehash" => index < 2 * total /\ tables[current][i] # Empty

Phases ==
  /\ pc \in {"idle", "start", "insert", "grow", "rehash", "find", "shift", "return"}
  /\ pc = "idle" => call = NoCall
  /\ pc # "idle" => call \in Calls
  /\ pc \in {"insert", "grow", "rehash"} => call.op = "insert"
  /\ pc = "find" => call.op # "insert"
  /\ pc = "shift" => call.op = "delete"
  /\ out \in Size \cup {NULL, "full", "inserted", "missing", "deleted", "resized"}
  /\ out = NULL <=> pc \notin {"shift", "return"}

Typed ==
  /\ tables \in [{0, 1} -> [Index -> Entry]] /\ current \in {0, 1}
  /\ total \in InitialTotal .. MaxTotal
  /\ mapped \in [{0, 1} -> 0 .. MaxTotal]
  /\ hash \in [Addr -> HashValues]

\* Nothing is stored beyond the end of an array, and the other array is empty
\* unless the table grows.
Arrays ==
  /\ mapped[current] >= total /\ Confined(tables[current], total)
  /\ ~Growing => Blank(tables[1 - current])
  /\ Growing => Confined(tables[1 - current], 2 * total) /\ mapped[1 - current] = 2 * total

\* Where the probe of the operation is.
Probing ==
  /\ Inserting => Absent(tables[current], call.p)
  /\ pc = "insert" => Reaches(hash, tables[current], total, call.p, i)
  /\ pc = "find" => Seeks(hash, tables[current], total, call.p, i)
  /\ pc = "rehash" => Reaches(hash, tables[1 - current], 2 * total, tables[current][i].p, index)

Probes ==
  /\ Once(tables[current])
  /\ pc # "shift" => Unbroken(hash, tables[current], total)
  /\ pc = "shift" => Shifting(hash, tables[current], total, j, i)
  /\ Growing => Copied(hash, tables[current], tables[1 - current], total, i)

Counted ==
  /\ free \in Nat /\ free + Cardinality(Stored(tables[current], total)) = total
  /\ free > 0
  /\ pc = "insert" => free > 1

TableInv == Typed /\ Indices /\ Phases /\ Arrays /\ Probing /\ Probes /\ Counted

-----------------------------------------------------------------------------
(* Probe sequences *)

\* A probe passes every entry but one, in a linear order that ends at its start.
LEMMA PassesOrder ==
  ASSUME NEW n \in Nat, NEW h \in 0 .. n - 1, NEW k \in 0 .. n - 1, NEW l \in 0 .. n - 1,
         NEW m \in 0 .. n - 1
  PROVE  /\ ~Passes(h, k, k) /\ ~Passes(h, h, l)
         /\ k # l => Passes(h, k, l) \/ Passes(h, l, k)
         /\ Passes(h, k, l) /\ Passes(h, l, m) => Passes(h, k, m)
BY DEF Passes

\* One step down adds the entry it leaves.
LEMMA PassesDown ==
  ASSUME NEW n \in Nat, NEW h \in 0 .. n - 1, NEW k \in 0 .. n - 1, NEW l \in 0 .. n - 1
  PROVE  /\ Down(k, n) \in 0 .. n - 1
         /\ Passes(h, Down(k, n), l) => Passes(h, k, l) \/ l = k
BY DEF Passes, Down

\* The test of regions_delete: the entry at k with home h stays when no probe for it
\* passes the hole.
LEMMA StaysExact ==
  ASSUME NEW n \in Nat, NEW h \in 0 .. n - 1, NEW k \in 0 .. n - 1, NEW hole \in 0 .. n - 1,
         k # hole
  PROVE  Stays(k, h, hole) <=> ~Passes(h, k, hole)
BY DEF Stays, Passes

\* A probe that passes the hole on its way to an entry that was not scanned passes
\* the entry at which the scan is.
LEMMA UnscannedPasses ==
  ASSUME NEW n \in Nat, NEW h \in 0 .. n - 1, NEW k \in 0 .. n - 1, NEW hole \in 0 .. n - 1,
         NEW s \in 0 .. n - 1, s # hole, k # s, k # hole, ~Scanned(hole, s, k),
         Passes(h, k, hole)
  PROVE  Passes(h, k, s)
BY DEF Scanned, Passes

\* One step down scans the entry it leaves; the scan is back at the hole only when it
\* has seen all entries.
LEMMA ScannedDown ==
  ASSUME NEW n \in Nat, NEW hole \in 0 .. n - 1, NEW s \in 0 .. n - 1, s # hole,
         NEW l \in 0 .. n - 1
  PROVE  /\ Down(s, n) # hole /\ Scanned(hole, Down(s, n), l) => Scanned(hole, s, l) \/ l = s
         /\ Down(s, n) = hole /\ l # hole => Scanned(hole, s, l) \/ l = s
         /\ n > 1 => ~Scanned(s, Down(s, n), l) /\ Down(s, n) # s
BY DEF Scanned, Down

\* hash_page(p) & mask is an index.
LEMMA SlotRange ==
  ASSUME NEW H \in [Addr -> HashValues], NEW p \in Addr, NEW n \in Nat, n > 0
  PROVE  Slot(H, p, n) \in 0 .. n - 1
<1>1. H[p] \in Nat
  <2>1. H[p] \in HashValues
    OBVIOUS
  <2>2. HashValues \subseteq Nat
    BY RegionTableAssumption
  <2> QED BY <2>1, <2>2
<1> QED BY <1>1 DEF Slot

\* What is stored has an address and a size; NULL is not an address.
LEMMA EntryFields ==
  ASSUME NEW e \in Entry
  PROVE  /\ e # Empty => e.p \in Addr /\ e.size \in Size /\ e = [p |-> e.p, size |-> e.size]
         /\ e = Empty <=> e.p = NULL
BY RegionTableAssumption DEF Entry, Empty

\* A set of indices is finite.
LEMMA IndicesFinite ==
  ASSUME NEW n \in Nat, NEW S, S \subseteq 0 .. n - 1
  PROVE  IsFiniteSet(S) /\ Cardinality(S) \in Nat /\ Cardinality(S) <= n
         /\ (Cardinality(S) = n => S = 0 .. n - 1)
<1>1. 0 \in Int /\ n - 1 \in Int
  OBVIOUS
<1>2. IsFiniteSet(0 .. n - 1)
      /\ Cardinality(0 .. n - 1) = IF 0 > n - 1 THEN 0 ELSE (n - 1) - 0 + 1
  BY <1>1, FS_Interval
<1>3. Cardinality(0 .. n - 1) = n
  BY <1>2
<1>4. IsFiniteSet(S) /\ Cardinality(S) <= Cardinality(0 .. n - 1)
      /\ (Cardinality(S) = Cardinality(0 .. n - 1) => S = 0 .. n - 1)
  BY <1>2, FS_Subset
<1>5. Cardinality(S) \in Nat
  BY <1>4, FS_CardinalityType
<1> QED BY <1>3, <1>4, <1>5

-----------------------------------------------------------------------------
(* What a store does to an array *)

\* Storing into an empty entry that a probe for the address reaches.
LEMMA PutProbes ==
  ASSUME NEW H, NEW T \in [Index -> Entry], NEW n \in Nat, n <= MaxTotal,
         NEW k \in 0 .. n - 1, T[k] = Empty, NEW e \in Entry, e # Empty,
         Unbroken(H, T, n), Reaches(H, T, n, e.p, k)
  PROVE  Unbroken(H, [T EXCEPT ![k] = e], n)
<1> DEFINE U == [T EXCEPT ![k] = e]
<1>1. k \in Index /\ \A l \in 0 .. n - 1 : l \in Index
  BY RegionTableAssumption DEF Index
<1>2. U[k] = e /\ \A l \in Index : l # k => U[l] = T[l]
  BY <1>1
<1>3. \A l \in 0 .. n - 1 : T[l] # Empty => U[l] # Empty
  BY <1>1, <1>2
<1> HIDE DEF U
<1>4. ASSUME NEW m \in 0 .. n - 1, U[m] # Empty PROVE Reaches(H, U, n, U[m].p, m)
  <2>1. CASE m = k
    BY <1>2, <1>3, <2>1 DEF Reaches
  <2>2. CASE m # k
    BY <1>1, <1>2, <1>3, <1>4, <2>2 DEF Reaches, Unbroken
  <2> QED BY <2>1, <2>2
<1>5. Unbroken(H, U, n)
  BY <1>4 DEF Unbroken
<1> QED BY <1>5 DEF U

\* Storing an address that is not there.
LEMMA PutOnce ==
  ASSUME NEW T \in [Index -> Entry], NEW k \in Index, NEW e \in Entry, Once(T), Absent(T, e.p)
  PROVE  Once([T EXCEPT ![k] = e])
BY DEF Once, Absent

\* An array W that differs from T in one entry, which is occupied in W only.
LEMMA PutAdds ==
  ASSUME NEW T \in [Index -> Entry], NEW W \in [Index -> Entry], NEW n \in Nat,
         NEW k \in 0 .. n - 1, T[k] = Empty, W[k] # Empty,
         \A l \in 0 .. n - 1 : l # k => W[l] = T[l]
  PROVE  /\ Stored(W, n) = Stored(T, n) \cup {k} /\ k \notin Stored(T, n)
         /\ Cardinality(Stored(W, n)) = Cardinality(Stored(T, n)) + 1
         /\ Cardinality(Stored(T, n)) \in Nat /\ Cardinality(Stored(W, n)) \in Nat
<1>1. Stored(W, n) = Stored(T, n) \cup {k} /\ k \notin Stored(T, n)
  BY DEF Stored
<1>2. Stored(T, n) \subseteq 0 .. n - 1 /\ Stored(W, n) \subseteq 0 .. n - 1
  BY DEF Stored
<1>3. /\ IsFiniteSet(Stored(T, n)) /\ Cardinality(Stored(T, n)) \in Nat
      /\ Cardinality(Stored(W, n)) \in Nat
  BY <1>2, IndicesFinite
<1>4. Cardinality(Stored(T, n) \cup {k}) = Cardinality(Stored(T, n)) + 1
  BY <1>1, <1>3, FS_AddElement
<1> QED BY <1>1, <1>3, <1>4

\* Storing below the end keeps an array confined.
LEMMA PutConfined ==
  ASSUME NEW T \in [Index -> Entry], NEW n \in Nat, NEW k \in Index, k < n, NEW e,
         Confined(T, n)
  PROVE  Confined([T EXCEPT ![k] = e], n)
BY RegionTableAssumption DEF Confined, Index

-----------------------------------------------------------------------------
(* Steps that store nothing *)

\* The numbers and arrays of a state.
LEMMA TypedFacts ==
  ASSUME Typed
  PROVE  /\ total \in Nat /\ total > 4 /\ total <= MaxTotal /\ MaxTotal \in Nat
         /\ current \in {0, 1} /\ 1 - current \in {0, 1} /\ 1 - current # current
         /\ tables[current] \in [Index -> Entry] /\ tables[1 - current] \in [Index -> Entry]
         /\ \A n \in Nat : n <= MaxTotal => 0 .. n - 1 \subseteq Index
         /\ \A k \in 0 .. total - 1 : k \in Index /\ tables[current][k] \in Entry
         /\ \A p \in Addr, n \in Nat : n > 0 => Slot(hash, p, n) \in 0 .. n - 1
<1>1. /\ total \in Nat /\ total > 4 /\ total <= MaxTotal /\ MaxTotal \in Nat
      /\ current \in {0, 1} /\ 1 - current \in {0, 1} /\ 1 - current # current
  BY RegionTableAssumption DEF Typed
<1>2. tables[current] \in [Index -> Entry] /\ tables[1 - current] \in [Index -> Entry]
  BY <1>1 DEF Typed
<1>3. \A n \in Nat : n <= MaxTotal => 0 .. n - 1 \subseteq Index
  BY <1>1 DEF Index
<1>4. \A k \in 0 .. total - 1 : k \in Index /\ tables[current][k] \in Entry
  BY <1>1, <1>2, <1>3
<1>5. \A p \in Addr, n \in Nat : n > 0 => Slot(hash, p, n) \in 0 .. n - 1
  BY SlotRange DEF Typed
<1> QED BY <1>1, <1>2, <1>3, <1>4, <1>5

\* What a step without a store has to establish.
LEMMA QuietKeeps ==
  ASSUME TableInv, UNCHANGED <<tables, current, total, free, mapped, hash>>,
         Indices', Phases', Probing', Growing' <=> Growing,
         pc' # "shift" => Unbroken(hash, tables[current], total),
         pc' = "shift" => Shifting(hash, tables[current], total, j', i'),
         Growing => Copied(hash, tables[current], tables[1 - current], total, i'),
         pc' = "insert" => free > 1
  PROVE  TableInv'
<1>1. Typed'
  BY DEF TableInv, Typed
<1>2. Arrays'
  BY DEF TableInv, Arrays
<1>3. Probes'
  BY DEF TableInv, Probes
<1>4. Counted'
  BY DEF TableInv, Counted
<1> QED BY <1>1, <1>2, <1>3, <1>4 DEF TableInv

\* A call starts; an address that mmap returns is not in the table.
LEMMA StartInv ==
  ASSUME TableInv, NEW c \in Calls, Start(c) PROVE TableInv'
<1> USE DEF Growing
<1>1. pc = "idle" /\ pc' = "start" /\ call' = c
      /\ UNCHANGED <<tables, current, total, free, mapped, hash, i, j, index, out>>
  BY DEF Start, tableVars
<1>2. Indices' /\ Phases'
  BY <1>1 DEF TableInv, Indices, Phases
<1>3. c.op = "insert" => Absent(tables[current], c.p)
  <2> SUFFICES ASSUME c.op = "insert", NEW k \in Index PROVE tables[current][k].p # c.p
    BY DEF Absent
  <2>1. c.p \in Addr /\ \A e \in Contents : e[1] # c.p
    BY DEF Start, MmapResults, Calls
  <2>2. tables[current][k] \in Entry
    BY TypedFacts DEF TableInv
  <2>3. CASE tables[current][k] = Empty
    BY <2>1, <2>3, RegionTableAssumption DEF Empty
  <2>4. CASE tables[current][k] # Empty
    <3>1. k \in 0 .. total - 1
      BY <2>4, TypedFacts DEF TableInv, Arrays, Confined, Index
    <3>2. <<tables[current][k].p, tables[current][k].size>> \in Contents
      BY <2>4, <3>1 DEF Contents, regions
    <3> QED BY <2>1, <3>2
  <2> QED BY <2>3, <2>4
<1>4. Probing'
  BY <1>1, <1>3 DEF Probing, Inserting
<1> QED BY <1>1, <1>2, <1>4, QuietKeeps DEF TableInv, Probes

\* The probe of an insertion or a search starts at the home of the address.
LEMMA StartProbeInv ==
  ASSUME TableInv, StartInsert \/ StartFind PROVE TableInv'
<1> USE DEF Growing
<1>1. /\ pc = "start" /\ i' = Slot(hash, call.p, total)
      /\ UNCHANGED <<tables, current, total, free, mapped, hash, call, j, index, out>>
      /\ \/ pc' = "insert" /\ call.op = "insert" /\ ~(free * 4 < total)
         \/ pc' = "find" /\ call.op # "insert"
  BY DEF StartInsert, StartFind, tableVars, Home, Slot, Overloaded
<1>2. i' \in 0 .. total - 1
  <2>1. call.p \in Addr
    BY <1>1 DEF TableInv, Phases, Calls
  <2> QED BY <1>1, <2>1, TypedFacts DEF TableInv
<1>3. Indices' /\ Phases'
  <2>1. Indices'
    BY <1>1, <1>2, TypedFacts DEF TableInv, Indices
  <2>2. Phases'
    BY <1>1 DEF TableInv, Phases
  <2> QED BY <2>1, <2>2
<1>4. \A l \in 0 .. total - 1 : ~Passes(Slot(hash, call.p, total), i', l)
  BY <1>1, <1>2, TypedFacts, PassesOrder DEF TableInv
<1>5. Probing'
  BY <1>1, <1>4 DEF TableInv, Probing, Inserting, Reaches, Seeks
<1>6. pc' = "insert" => free > 1
  BY <1>1, TypedFacts DEF TableInv, Counted
<1> QED BY <1>1, <1>3, <1>5, <1>6, QuietKeeps DEF TableInv, Probes

\* An operation ends without a change, and returns.
LEMMA EndInv ==
  ASSUME TableInv, GrowFails \/ FindMiss \/ FindHit \/ Return PROVE TableInv'
<1> USE DEF Growing
<1>1. /\ pc \in {"start", "find", "return"}
      /\ UNCHANGED <<tables, current, total, free, mapped, hash>>
      /\ \/ pc' = "return" /\ UNCHANGED <<call, i, j, index>>
            /\ (out' = "full" \/ out' = "missing" \/ out' = tables[current][i].size)
            /\ (pc = "start" => out' = "full")
            /\ (pc = "find" => out' = "missing" \/ tables[current][i].p = call.p)
         \/ pc' = "idle" /\ call' = NoCall /\ out' = NULL /\ i' = 0 /\ j' = 0 /\ index' = 0
      /\ pc = "return" => pc' = "idle"
  BY DEF GrowFails, FindMiss, FindHit, Hit, Return, tableVars, regions
<1>2. pc' = "return" => out' # NULL /\ out' \in Size \cup {"full", "missing"}
  <2>1. pc = "find" /\ tables[current][i].p = call.p => tables[current][i].size \in Size
    <3> SUFFICES ASSUME pc = "find", tables[current][i].p = call.p
                 PROVE  tables[current][i].size \in Size
      OBVIOUS
    <3>1. call.p \in Addr /\ i \in 0 .. total - 1
      BY <1>1, TypedFacts DEF TableInv, Phases, Calls, Indices
    <3>2. tables[current][i] \in Entry /\ tables[current][i] # Empty
      BY <3>1, TypedFacts, RegionTableAssumption DEF TableInv, Empty
    <3> QED BY <3>2, EntryFields
  <2> QED BY <1>1, <2>1, RegionTableAssumption
<1>3. Indices'
  BY <1>1, TypedFacts DEF TableInv, Indices, Index
<1>4. Phases'
  BY <1>1, <1>2 DEF TableInv, Phases
<1>5. Probing'
  BY <1>1 DEF Probing, Inserting
<1> QED BY <1>1, <1>3, <1>4, <1>5, QuietKeeps DEF TableInv, Probes

\* One step down past an occupied entry.
LEMMA ReachesDown ==
  ASSUME NEW H \in [Addr -> HashValues], NEW T, NEW n \in Nat, n > 0, NEW p \in Addr,
         NEW k \in 0 .. n - 1, T[k] # Empty
  PROVE  /\ Reaches(H, T, n, p, k) => Reaches(H, T, n, p, Down(k, n))
         /\ T[k].p # p /\ Seeks(H, T, n, p, k) => Seeks(H, T, n, p, Down(k, n))
         /\ Down(k, n) \in 0 .. n - 1
<1>1. Slot(H, p, n) \in 0 .. n - 1
  BY SlotRange
<1> QED BY <1>1, PassesDown DEF Reaches, Seeks

\* The probe of an insertion or a search goes on.
LEMMA ProbeInv ==
  ASSUME TableInv, InsertProbe \/ FindProbe PROVE TableInv'
<1> USE DEF Growing
<1>1. /\ pc \in {"insert", "find"} /\ tables[current][i] # Empty /\ i' = Down(i, total)
      /\ UNCHANGED <<tables, current, total, free, mapped, hash, call, pc, j, index, out>>
      /\ pc = "find" => tables[current][i].p # call.p
  BY DEF InsertProbe, FindProbe, tableVars, regions
<1>2. /\ call.p \in Addr /\ i \in 0 .. total - 1 /\ hash \in [Addr -> HashValues]
      /\ total \in Nat /\ total > 0
  BY <1>1, TypedFacts DEF TableInv, Phases, Calls, Indices, Typed
<1>3. /\ i' \in 0 .. total - 1
      /\ pc = "insert" => Reaches(hash, tables[current], total, call.p, i')
      /\ pc = "find" => Seeks(hash, tables[current], total, call.p, i')
  BY <1>1, <1>2, ReachesDown DEF TableInv, Probing
<1>4. Indices'
  BY <1>1, <1>2, <1>3 DEF TableInv, Indices
<1>5. Phases'
  BY <1>1 DEF TableInv, Phases
<1>6. Probing'
  BY <1>1, <1>3 DEF TableInv, Probing, Inserting
<1> QED BY <1>1, <1>4, <1>5, <1>6, QuietKeeps DEF TableInv, Probes, Counted

\* The probe of a growth goes on in the new array.
LEMMA RehashProbeInv ==
  ASSUME TableInv, RehashProbe PROVE TableInv'
<1> USE DEF Growing
<1>1. /\ pc = "rehash" /\ tables[1 - current][index] # Empty /\ index' = Down(index, 2 * total)
      /\ UNCHANGED <<tables, current, total, free, mapped, hash, call, pc, i, j, out>>
  BY DEF RehashProbe, tableVars, Other
<1>2. /\ total \in Nat /\ 2 * total \in Nat /\ 2 * total > 0 /\ 2 * total <= MaxTotal
      /\ index \in 0 .. 2 * total - 1 /\ i \in 0 .. total - 1 /\ hash \in [Addr -> HashValues]
      /\ 0 .. 2 * total - 1 \subseteq Index
  BY <1>1, TypedFacts DEF TableInv, Indices, Typed, Index
<1>3. tables[current][i].p \in Addr
  BY <1>1, <1>2, TypedFacts, EntryFields DEF TableInv, Indices
<1>4. /\ index' \in 0 .. 2 * total - 1
      /\ Reaches(hash, tables[1 - current], 2 * total, tables[current][i].p, index')
  <2> DEFINE n == 2 * total
  <2> DEFINE p == tables[current][i].p
  <2>1. n \in Nat /\ n > 0 /\ p \in Addr /\ index \in 0 .. n - 1
        /\ Reaches(hash, tables[1 - current], n, p, index) /\ index' = Down(index, n)
    BY <1>1, <1>2, <1>3 DEF TableInv, Probing
  <2> HIDE DEF n, p
  <2>2. index' \in 0 .. n - 1 /\ Reaches(hash, tables[1 - current], n, p, index')
    BY <1>1, <1>2, <2>1, ReachesDown
  <2> QED BY <2>2 DEF n, p
<1>5. Indices'
  BY <1>1, <1>2, <1>4 DEF TableInv, Indices
<1>6. Phases'
  BY <1>1 DEF TableInv, Phases
<1>7. Probing'
  BY <1>1, <1>4 DEF TableInv, Probing, Inserting
<1> QED BY <1>1, <1>5, <1>6, <1>7, QuietKeeps DEF TableInv, Probes

\* A growth starts with an empty array of twice the size.
LEMMA StartGrowInv ==
  ASSUME TableInv, StartGrow PROVE TableInv'
<1> USE DEF Growing
<1>1. /\ pc = "start" /\ pc' = "grow" /\ i' = 0 /\ call.op = "insert" /\ 2 * total <= MaxTotal
      /\ mapped' = [mapped EXCEPT ![1 - current] = 2 * total]
      /\ UNCHANGED <<tables, current, total, free, hash, call, j, index, out>>
  BY DEF StartGrow, Other
<1>2. 2 * total \in Nat /\ total \in Nat /\ Blank(tables[1 - current])
      /\ 0 .. 2 * total - 1 \subseteq Index
  BY <1>1, TypedFacts DEF TableInv, Arrays
<1>3. Typed'
  BY <1>1, <1>2, TypedFacts DEF TableInv, Typed
<1>4. Indices'
  BY <1>1, <1>2 DEF TableInv, Indices
<1>5. Phases'
  BY <1>1 DEF TableInv, Phases
<1>6. Arrays'
  BY <1>1, <1>2, TypedFacts DEF TableInv, Arrays, Confined, Blank, Typed
<1>7. Probing'
  BY <1>1 DEF TableInv, Probing, Inserting
<1>8. Copied(hash, tables[current], tables[1 - current], total, 0)
  <2>1. Once(tables[1 - current])
    BY <1>2 DEF Once, Blank
  <2>2. Unbroken(hash, tables[1 - current], 2 * total)
    BY <1>2 DEF Unbroken, Blank
  <2>3. Stored(tables[1 - current], 2 * total) = {}
        /\ {l \in Stored(tables[current], total) : l < 0} = {}
    BY <1>2 DEF Stored, Blank
  <2>4. \A l \in Stored(tables[current], total) : ~(l < 0)
    BY <1>2 DEF Stored
  <2> QED BY <2>1, <2>2, <2>3, <2>4 DEF Copied, Holds
<1>9. Probes' /\ Counted'
  BY <1>1, <1>8 DEF TableInv, Probes, Counted
<1> QED BY <1>3, <1>4, <1>5, <1>6, <1>7, <1>9 DEF TableInv

\* A growth looks at the next entry of the old array.
LEMMA GrowNextInv ==
  ASSUME TableInv, GrowNext PROVE TableInv'
<1> USE DEF Growing
<1> DEFINE T == tables[current]
<1> DEFINE U == tables[1 - current]
<1>1. /\ pc = "grow" /\ i < total
      /\ UNCHANGED <<tables, current, total, free, mapped, hash, call, j, out>>
      /\ T[i] = Empty => i' = i + 1 /\ UNCHANGED <<pc, index>>
      /\ T[i] # Empty => pc' = "rehash" /\ index' = Slot(hash, T[i].p, 2 * total) /\ UNCHANGED i
  BY DEF GrowNext, tableVars, regions, Home, Slot
<1>2. /\ total \in Nat /\ 2 * total \in Nat /\ 2 * total > 0 /\ 2 * total <= MaxTotal
      /\ i \in 0 .. total - 1 /\ 0 .. 2 * total - 1 \subseteq Index
  BY <1>1, TypedFacts DEF TableInv, Indices
<1>3. CASE T[i] = Empty
  <2>1. i' = i + 1 /\ UNCHANGED <<pc, index>>
    BY <1>1, <1>3
  <2>2. \A l \in Stored(T, total) : l < i' <=> l < i
    BY <1>2, <1>3, <2>1 DEF Stored
  <2>3. {l \in Stored(T, total) : l < i'} = {l \in Stored(T, total) : l < i}
    BY <2>2
  <2>4. Copied(hash, T, U, total, i')
    BY <1>1, <2>2, <2>3 DEF TableInv, Probes, Copied, Holds
  <2>5. Indices' /\ Phases' /\ Probing'
    BY <1>1, <1>2, <2>1 DEF TableInv, Indices, Phases, Probing, Inserting
  <2> QED BY <1>1, <2>1, <2>4, <2>5, QuietKeeps DEF TableInv, Probes
<1>4. CASE T[i] # Empty
  <2>1. pc' = "rehash" /\ index' = Slot(hash, T[i].p, 2 * total) /\ UNCHANGED i
    BY <1>1, <1>4
  <2>2. T[i].p \in Addr
    BY <1>2, <1>4, TypedFacts, EntryFields DEF TableInv
  <2>3. index' \in 0 .. 2 * total - 1
    BY <1>2, <2>1, <2>2, TypedFacts DEF TableInv
  <2>4. Reaches(hash, U, 2 * total, T[i].p, index')
    BY <1>2, <2>1, <2>3, PassesOrder DEF Reaches
  <2>5. Indices'
    BY <1>1, <1>2, <1>4, <2>1, <2>3 DEF TableInv, Indices
  <2>6. Phases'
    BY <1>1, <2>1 DEF TableInv, Phases
  <2>7. Probing'
    BY <1>1, <2>1, <2>4 DEF TableInv, Probing, Inserting
  <2> QED BY <1>1, <2>1, <2>5, <2>6, <2>7, QuietKeeps DEF TableInv, Probes
<1> QED BY <1>3, <1>4

-----------------------------------------------------------------------------
(* regions_delete *)

\* The home of a stored address is an index.
LEMMA StoredSlot ==
  ASSUME NEW H \in [Addr -> HashValues], NEW T \in [Index -> Entry], NEW n \in Nat, n <= MaxTotal,
         NEW k \in 0 .. n - 1, T[k] # Empty
  PROVE  Slot(H, T[k].p, n) \in 0 .. n - 1
<1>1. T[k] \in Entry /\ n > 0
  BY RegionTableAssumption DEF Index
<1>2. T[k].p \in Addr
  BY <1>1, EntryFields
<1> QED BY <1>1, <1>2, SlotRange

\* Clearing an entry makes it the hole.
LEMMA DeleteShifts ==
  ASSUME NEW H, NEW T \in [Index -> Entry], NEW n \in Nat, 1 < n, n <= MaxTotal,
         NEW k \in 0 .. n - 1, T[k] # Empty, Unbroken(H, T, n),
         \E e \in 0 .. n - 1 : T[e] = Empty
  PROVE  Shifting(H, [T EXCEPT ![k] = Empty], n, k, Down(k, n))
<1> DEFINE U == [T EXCEPT ![k] = Empty]
<1>1. k \in Index /\ \A l \in 0 .. n - 1 : l \in Index
  BY RegionTableAssumption DEF Index
<1>2. U[k] = Empty /\ \A l \in 0 .. n - 1 : l # k => U[l] = T[l]
  BY <1>1
<1>3. Down(k, n) # k /\ \A l \in 0 .. n - 1 : ~Scanned(k, Down(k, n), l)
  BY DEF Down, Scanned
<1> HIDE DEF U
<1>4. OnlyHole(H, U, n, k)
  BY <1>2 DEF OnlyHole, Unbroken, Reaches
<1>5. Shifting(H, U, n, k, Down(k, n))
  BY <1>2, <1>3, <1>4 DEF Shifting, ScannedStay
<1> QED BY <1>5 DEF U

\* An entry that stays is scanned.
LEMMA SkipShifts ==
  ASSUME NEW H \in [Addr -> HashValues], NEW T \in [Index -> Entry], NEW n \in Nat, n <= MaxTotal,
         NEW hole \in 0 .. n - 1, NEW s \in 0 .. n - 1, Shifting(H, T, n, hole, s),
         T[s] # Empty, Stays(s, Slot(H, T[s].p, n), hole)
  PROVE  Shifting(H, T, n, hole, Down(s, n))
<1>1. s # hole /\ ~Passes(Slot(H, T[s].p, n), s, hole)
  BY StoredSlot, StaysExact DEF Shifting
<1>2. Down(s, n) # hole
  <2>1. PICK e \in 0 .. n - 1 : e # hole /\ T[e] = Empty
    BY DEF Shifting
  <2>2. ~Scanned(hole, s, e) /\ e # s
    BY <2>1 DEF Shifting, ScannedStay
  <2> QED BY <1>1, <2>1, <2>2, ScannedDown
<1>3. ScannedStay(H, T, n, hole, Down(s, n))
  BY <1>1, <1>2, ScannedDown DEF Shifting, ScannedStay
<1> QED BY <1>2, <1>3 DEF Shifting

\* An entry that does not stay moves to the hole and leaves the hole behind: a probe
\* for it passes less, and every other probe that met the hole is whole again.
LEMMA MoveShifts ==
  ASSUME NEW H \in [Addr -> HashValues], NEW T \in [Index -> Entry], NEW n \in Nat, 1 < n,
         n <= MaxTotal, NEW hole \in 0 .. n - 1, NEW s \in 0 .. n - 1,
         Shifting(H, T, n, hole, s), T[s] # Empty, ~Stays(s, Slot(H, T[s].p, n), hole)
  PROVE  Shifting(H, [T EXCEPT ![hole] = T[s], ![s] = Empty], n, s, Down(s, n))
<1> DEFINE U == [T EXCEPT ![hole] = T[s], ![s] = Empty]
<1> DEFINE h == Slot(H, T[s].p, n)
<1>1. s # hole /\ h \in 0 .. n - 1 /\ Passes(h, s, hole)
  BY StoredSlot, StaysExact DEF Shifting
<1>2. \A l \in 0 .. n - 1 : l \in Index
  BY RegionTableAssumption DEF Index
<1>3. U[s] = Empty /\ U[hole] = T[s] /\ \A l \in 0 .. n - 1 : l # s /\ l # hole => U[l] = T[l]
  BY <1>1, <1>2
<1>4. Down(s, n) # s /\ \A l \in 0 .. n - 1 : ~Scanned(s, Down(s, n), l)
  BY DEF Down, Scanned
<1> HIDE DEF U
<1>5. \E e \in 0 .. n - 1 : e # s /\ U[e] = Empty
  BY <1>3 DEF Shifting
<1>6. ASSUME NEW k \in 0 .. n - 1, NEW l \in 0 .. n - 1, U[k] # Empty,
             Passes(Slot(H, U[k].p, n), k, l), l # s
      PROVE  U[l] # Empty
  <2>1. CASE k = hole
    <3>1. Passes(h, hole, l)
      BY <1>3, <1>6, <2>1
    <3>2. Passes(h, s, l) /\ l # hole
      BY <1>1, <3>1, PassesOrder
    <3>3. T[l] # Empty
      BY <3>2 DEF Shifting, OnlyHole
    <3> QED BY <1>3, <1>6, <3>2, <3>3
  <2>2. CASE k # hole
    <3>1. k # s /\ U[k] = T[k]
      BY <1>3, <1>6, <2>2
    <3>2. l = hole \/ T[l] # Empty
      BY <1>6, <3>1 DEF Shifting, OnlyHole
    <3> QED BY <1>3, <1>6, <3>2
  <2> QED BY <2>1, <2>2
<1>7. OnlyHole(H, U, n, s)
  BY <1>6 DEF OnlyHole
<1>8. Shifting(H, U, n, s, Down(s, n))
  BY <1>3, <1>4, <1>5, <1>7 DEF Shifting, ScannedStay
<1> QED BY <1>8 DEF U

\* An empty entry ends the scan: the hole breaks no probe any more.
LEMMA ShiftsEnd ==
  ASSUME NEW H \in [Addr -> HashValues], NEW T \in [Index -> Entry], NEW n \in Nat, n <= MaxTotal,
         NEW hole \in 0 .. n - 1, NEW s \in 0 .. n - 1, Shifting(H, T, n, hole, s), T[s] = Empty
  PROVE  Unbroken(H, T, n)
<1> SUFFICES ASSUME NEW k \in 0 .. n - 1, T[k] # Empty, NEW l \in 0 .. n - 1,
                    Passes(Slot(H, T[k].p, n), k, l)
             PROVE  T[l] # Empty
  BY DEF Unbroken, Reaches
<1>1. l # hole => T[l] # Empty
  BY DEF Shifting, OnlyHole
<1>2. l # hole
  <2> SUFFICES ASSUME l = hole PROVE FALSE
    OBVIOUS
  <2>1. k # hole /\ k # s /\ s # hole
    BY DEF Shifting
  <2>2. ~Scanned(hole, s, k)
    BY DEF Shifting, ScannedStay
  <2>3. Passes(Slot(H, T[k].p, n), k, s)
    BY <2>1, <2>2, StoredSlot, UnscannedPasses
  <2> QED BY <2>1, <2>3 DEF Shifting, OnlyHole
<1> QED BY <1>1, <1>2

\* A step that stores into the array in use.
LEMMA StoreTables ==
  ASSUME Typed, NEW U \in [Index -> Entry], tables' = [tables EXCEPT ![current] = U],
         UNCHANGED <<current, total, mapped, hash>>
  PROVE  Typed' /\ tables'[current] = U /\ tables'[1 - current] = tables[1 - current]
BY TypedFacts DEF Typed

\* The entry is cleared.
LEMMA DeleteInv ==
  ASSUME TableInv, Delete PROVE TableInv'
<1> USE DEF Growing
<1> DEFINE T == tables[current]
<1> DEFINE U == [T EXCEPT ![i] = Empty]
<1>1. /\ pc = "find" /\ T[i].p = call.p /\ call.op = "delete"
      /\ tables' = [tables EXCEPT ![current] = U] /\ free' = free + 1
      /\ pc' = "shift" /\ j' = i /\ i' = Down(i, total) /\ out' = "deleted"
      /\ UNCHANGED <<current, total, mapped, hash, call, index>>
  BY DEF Delete, Hit, regions
<1>2. /\ total \in Nat /\ 1 < total /\ total <= MaxTotal /\ i \in 0 .. total - 1 /\ i \in Index
      /\ T \in [Index -> Entry] /\ call.p \in Addr /\ Empty \in Entry
  BY <1>1, TypedFacts DEF TableInv, Indices, Phases, Calls, Entry
<1>3. T[i] # Empty /\ U \in [Index -> Entry]
  BY <1>1, <1>2, RegionTableAssumption DEF Empty
<1>4. Typed' /\ tables'[current] = U /\ tables'[1 - current] = tables[1 - current]
  BY <1>1, <1>3, StoreTables DEF TableInv
<1>5. \E e \in 0 .. total - 1 : T[e] = Empty
  <2> SUFFICES ASSUME \A e \in 0 .. total - 1 : T[e] # Empty PROVE FALSE
    OBVIOUS
  <2>1. Stored(T, total) = 0 .. total - 1
    BY DEF Stored
  <2>2. 0 \in Int /\ total - 1 \in Int
    BY <1>2
  <2>3. Cardinality(0 .. total - 1) = IF 0 > total - 1 THEN 0 ELSE (total - 1) - 0 + 1
    BY <2>2, FS_Interval
  <2> QED BY <1>2, <2>1, <2>3 DEF TableInv, Counted
<1>6. Shifting(hash, U, total, i, Down(i, total))
  BY <1>1, <1>2, <1>3, <1>5, DeleteShifts DEF TableInv, Probes
<1>7. Once(U) /\ Confined(U, total)
  <2>1. U[i] = Empty /\ \A k \in Index : k # i => U[k] = T[k]
    BY <1>2
  <2>2. Once(T) /\ Confined(T, total)
    BY DEF TableInv, Probes, Arrays
  <2>3. \A k \in Index : U[k] \in Entry
    BY <1>3
  <2>4. Empty.p = NULL /\ \A k \in Index : U[k] # Empty => U[k].p # NULL
    BY <2>3, EntryFields DEF Empty
  <2> HIDE DEF U
  <2> QED BY <1>2, <2>1, <2>2, <2>4 DEF Once, Confined
<1>8. Cardinality(Stored(U, total)) = Cardinality(Stored(T, total)) - 1
      /\ Cardinality(Stored(T, total)) \in Nat
  <2>1. U[i] = Empty /\ \A l \in 0 .. total - 1 : l # i => T[l] = U[l]
    BY <1>2, TypedFacts DEF TableInv
  <2> HIDE DEF U
  <2>2. /\ Cardinality(Stored(T, total)) = Cardinality(Stored(U, total)) + 1
        /\ Cardinality(Stored(U, total)) \in Nat /\ Cardinality(Stored(T, total)) \in Nat
    BY <1>2, <1>3, <2>1, PutAdds
  <2> QED BY <2>2
<1>9. Down(i, total) \in 0 .. total - 1
  BY <1>2 DEF Down
<1> HIDE DEF U
<1>10. Indices'
  BY <1>1, <1>2, <1>9 DEF TableInv, Indices
<1>11. Phases'
  BY <1>1, RegionTableAssumption DEF TableInv, Phases
<1>12. Arrays' /\ Probing' /\ Probes'
  BY <1>1, <1>4, <1>6, <1>7 DEF TableInv, Arrays, Probing, Inserting, Probes
<1>13. Counted'
  BY <1>1, <1>2, <1>4, <1>8 DEF TableInv, Counted
<1> QED BY <1>4, <1>10, <1>11, <1>12, <1>13 DEF TableInv

\* The scan skips an entry that stays, or ends at an empty one.
LEMMA ScanInv ==
  ASSUME TableInv, ShiftSkip \/ ShiftDone PROVE TableInv'
<1> USE DEF Growing
<1> DEFINE T == tables[current]
<1>1. pc = "shift" /\ UNCHANGED <<tables, current, total, free, mapped, hash, call, j, index, out>>
  BY DEF ShiftSkip, ShiftDone, tableVars
<1>2. /\ total \in Nat /\ total <= MaxTotal /\ i \in 0 .. total - 1 /\ j \in 0 .. total - 1
      /\ T \in [Index -> Entry] /\ hash \in [Addr -> HashValues]
      /\ Shifting(hash, T, total, j, i)
  BY <1>1, TypedFacts DEF TableInv, Indices, Typed, Probes
<1>3. CASE ShiftSkip
  <2>1. /\ T[i] # Empty /\ Stays(i, Slot(hash, T[i].p, total), j)
        /\ i' = Down(i, total) /\ pc' = pc
    BY <1>3 DEF ShiftSkip, regions, Home, Slot
  <2>2. Shifting(hash, T, total, j, i') /\ i' \in 0 .. total - 1
    <3>1. Down(i, total) \in 0 .. total - 1
      BY <1>2 DEF Down
    <3> QED BY <1>2, <2>1, <3>1, SkipShifts
  <2>3. Indices'
    BY <1>1, <1>2, <2>1, <2>2 DEF TableInv, Indices
  <2>4. Phases' /\ Probing'
    BY <1>1, <2>1 DEF TableInv, Phases, Probing, Inserting
  <2> QED BY <1>1, <2>1, <2>2, <2>3, <2>4, QuietKeeps
<1>4. CASE ShiftDone
  <2>1. T[i] = Empty /\ pc' = "return" /\ i' = i
    BY <1>4 DEF ShiftDone, regions
  <2>2. Unbroken(hash, T, total)
    BY <1>2, <2>1, ShiftsEnd
  <2>3. Indices'
    BY <1>1, <1>2, <2>1 DEF TableInv, Indices
  <2>4. Phases' /\ Probing'
    BY <1>1, <2>1 DEF TableInv, Phases, Probing, Inserting
  <2> QED BY <1>1, <2>1, <2>2, <2>3, <2>4, QuietKeeps
<1> QED BY <1>3, <1>4

\* An entry moves to the hole.
LEMMA ShiftMoveInv ==
  ASSUME TableInv, ShiftMove PROVE TableInv'
<1> USE DEF Growing
<1> DEFINE T == tables[current]
<1> DEFINE V == [T EXCEPT ![j] = T[i]]
<1> DEFINE U == [T EXCEPT ![j] = T[i], ![i] = Empty]
<1>1. /\ pc = "shift" /\ T[i] # Empty /\ ~Stays(i, Slot(hash, T[i].p, total), j)
      /\ tables' = [tables EXCEPT ![current] = U] /\ j' = i /\ i' = Down(i, total)
      /\ UNCHANGED <<current, total, free, mapped, hash, call, pc, index, out>>
  <2>1. tables \in [{0, 1} -> [Index -> Entry]] /\ current \in {0, 1}
    BY DEF TableInv, Typed
  <2>2. tables' = [tables EXCEPT ![current] = U]
    BY <2>1 DEF ShiftMove, regions
  <2> QED BY <2>2 DEF ShiftMove, regions, Home, Slot
<1>2. /\ total \in Nat /\ 1 < total /\ total <= MaxTotal
      /\ i \in 0 .. total - 1 /\ j \in 0 .. total - 1
      /\ T \in [Index -> Entry] /\ hash \in [Addr -> HashValues]
      /\ Shifting(hash, T, total, j, i) /\ i \in Index /\ j \in Index
  BY <1>1, TypedFacts DEF TableInv, Indices, Typed, Probes
<1>3. T[j] = Empty /\ i # j /\ T[i] \in Entry /\ Empty \in Entry
  BY <1>2 DEF Shifting, Entry
<1>4. U = [V EXCEPT ![i] = Empty] /\ V \in [Index -> Entry] /\ U \in [Index -> Entry] /\ V[i] = T[i]
  BY <1>2, <1>3
<1>5. Typed' /\ tables'[current] = U /\ tables'[1 - current] = tables[1 - current]
  BY <1>1, <1>4, StoreTables DEF TableInv
<1>6. Shifting(hash, U, total, i, Down(i, total))
  BY <1>1, <1>2, MoveShifts
<1>7. Once(U) /\ Confined(U, total)
  <2>1. \A k \in Index : U[k] = IF k = i THEN Empty ELSE IF k = j THEN T[i] ELSE T[k]
    BY <1>2, <1>3
  <2>2. Empty.p = NULL /\ T[i].p # NULL
    BY <1>1, <1>3, EntryFields DEF Empty
  <2>3. Once(T) /\ Confined(T, total)
    BY DEF TableInv, Probes, Arrays
  <2>4. Once(U)
    <3> SUFFICES ASSUME NEW k \in Index, NEW l \in Index, U[k] # Empty, U[k].p = U[l].p
                 PROVE  k = l
      BY DEF Once
    <3> HIDE DEF U
    <3>1. k # i
      BY <2>1
    <3>2. U[k] \in Entry /\ U[k].p # NULL
      <4>1. U[k] \in Entry
        BY <1>4
      <4> QED BY <4>1, EntryFields
    <3>3. l # i
      BY <2>1, <2>2, <3>2
    <3> QED BY <1>1, <1>2, <1>3, <2>1, <2>3, <3>1, <3>3 DEF Once
  <2>5. Confined(U, total)
    <3> HIDE DEF U
    <3> QED BY <1>2, <2>1, <2>3 DEF Confined
  <2> QED BY <2>4, <2>5
<1>8. Cardinality(Stored(U, total)) = Cardinality(Stored(T, total))
      /\ Cardinality(Stored(T, total)) \in Nat
  <2>1. /\ V[j] = T[i] /\ \A l \in 0 .. total - 1 : l # j => V[l] = T[l]
        /\ V[i] = T[i] /\ U[i] = Empty /\ \A l \in 0 .. total - 1 : l # i => V[l] = U[l]
    BY <1>2, <1>3, TypedFacts DEF TableInv
  <2>2. V \in [Index -> Entry] /\ U \in [Index -> Entry]
    BY <1>4
  <2> HIDE DEF V, U
  <2>3. V[j] # Empty /\ V[i] # Empty /\ T \in [Index -> Entry]
    BY <1>1, <1>2, <2>1
  <2>4. /\ Cardinality(Stored(V, total)) = Cardinality(Stored(T, total)) + 1
        /\ Cardinality(Stored(T, total)) \in Nat
    <3> HIDE DEF T
    <3> QED BY <1>2, <1>3, <2>1, <2>2, <2>3, PutAdds
  <2>5. /\ Cardinality(Stored(V, total)) = Cardinality(Stored(U, total)) + 1
        /\ Cardinality(Stored(U, total)) \in Nat
    <3> HIDE DEF T
    <3>1. /\ total \in Nat /\ i \in 0 .. total - 1 /\ U[i] = Empty /\ V[i] # Empty
          /\ \A l \in 0 .. total - 1 : l # i => V[l] = U[l]
      BY <1>2, <2>1, <2>3
    <3> QED BY <2>2, <3>1, PutAdds
  <2> QED BY <2>4, <2>5
<1>9. Down(i, total) \in 0 .. total - 1
  BY <1>2 DEF Down
<1> HIDE DEF U, V
<1>10. Indices'
  BY <1>1, <1>2, <1>9 DEF TableInv, Indices
<1>11. Phases'
  BY <1>1 DEF TableInv, Phases
<1>12. Arrays' /\ Probing' /\ Probes'
  BY <1>1, <1>5, <1>6, <1>7 DEF TableInv, Arrays, Probing, Inserting, Probes
<1>13. Counted'
  BY <1>1, <1>2, <1>5, <1>8 DEF TableInv, Counted
<1> QED BY <1>5, <1>10, <1>11, <1>12, <1>13 DEF TableInv

-----------------------------------------------------------------------------
(* Steps that store an entry *)

\* The new entry is where the probe for its address ended.
LEMMA InsertStoreInv ==
  ASSUME TableInv, InsertStore PROVE TableInv'
<1> USE DEF Growing
<1> DEFINE T == tables[current]
<1> DEFINE e == [p |-> call.p, size |-> call.size]
<1> DEFINE U == [T EXCEPT ![i] = e]
<1>1. /\ pc = "insert" /\ T[i] = Empty /\ tables' = [tables EXCEPT ![current] = U]
      /\ free' = free - 1 /\ pc' = "return" /\ out' = "inserted"
      /\ UNCHANGED <<current, total, mapped, hash, call, i, j, index>>
  BY DEF InsertStore, regions
<1>2. /\ total \in Nat /\ total <= MaxTotal /\ i \in 0 .. total - 1 /\ i \in Index
      /\ T \in [Index -> Entry]
  BY <1>1, TypedFacts DEF TableInv, Indices
<1>3. call \in Calls /\ call.op = "insert"
  BY <1>1 DEF TableInv, Phases
<1>4. call.p \in Addr /\ call.size \in Size
  BY <1>3 DEF Calls
<1>5. e \in Entry /\ e # Empty /\ e.p = call.p
  BY <1>4, RegionTableAssumption DEF Entry, Empty
<1> HIDE DEF e
<1>6. U \in [Index -> Entry]
  BY <1>2, <1>5
<1>7. Typed' /\ tables'[current] = U /\ tables'[1 - current] = tables[1 - current]
  BY <1>1, <1>6, StoreTables DEF TableInv
<1>8. Unbroken(hash, U, total)
  BY <1>1, <1>2, <1>5, PutProbes DEF TableInv, Probes, Probing
<1>9. Once(U)
  BY <1>1, <1>2, <1>3, <1>5, PutOnce DEF TableInv, Probes, Probing, Inserting
<1>10. Confined(U, total)
  <2>1. i < total /\ Confined(T, total)
    BY <1>2 DEF TableInv, Arrays
  <2> QED BY <1>2, <2>1, PutConfined
<1>11. Cardinality(Stored(U, total)) = Cardinality(Stored(T, total)) + 1
       /\ Cardinality(Stored(T, total)) \in Nat
  <2>1. U[i] = e /\ \A l \in 0 .. total - 1 : l # i => U[l] = T[l]
    BY <1>2, TypedFacts DEF TableInv
  <2> HIDE DEF U
  <2> QED BY <1>1, <1>2, <1>5, <1>6, <2>1, PutAdds
<1> HIDE DEF U
<1>12. Indices'
  BY <1>1, <1>2 DEF TableInv, Indices
<1>13. Phases'
  BY <1>1, RegionTableAssumption DEF TableInv, Phases
<1>14. Arrays' /\ Probing' /\ Probes'
  BY <1>1, <1>7, <1>8, <1>9, <1>10 DEF TableInv, Arrays, Probing, Inserting, Probes
<1>15. Counted'
  BY <1>1, <1>2, <1>7, <1>11 DEF TableInv, Counted
<1> QED BY <1>7, <1>12, <1>13, <1>14, <1>15 DEF TableInv

\* h_realloc stores a size, which no probe looks at.
LEMMA ResizeInv ==
  ASSUME TableInv, Resize PROVE TableInv'
<1> USE DEF Growing
<1> DEFINE T == tables[current]
<1> DEFINE e == [T[i] EXCEPT !.size = call.size]
<1> DEFINE U == [T EXCEPT ![i] = e]
<1>1. /\ pc = "find" /\ T[i].p = call.p /\ call.op = "resize"
      /\ tables' = [tables EXCEPT ![current] = U] /\ pc' = "return" /\ out' = "resized"
      /\ UNCHANGED <<current, total, free, mapped, hash, call, i, j, index>>
  BY DEF Resize, Hit, regions
<1>2. /\ total \in Nat /\ total <= MaxTotal /\ i \in 0 .. total - 1 /\ i \in Index
      /\ T \in [Index -> Entry] /\ 0 .. total - 1 \subseteq Index /\ T[i] \in Entry
  BY <1>1, TypedFacts DEF TableInv, Indices
<1>3. call.p \in Addr /\ call.size \in Size
  BY <1>1 DEF TableInv, Phases, Calls
<1>4. T[i] # Empty
  BY <1>1, <1>3, RegionTableAssumption DEF Empty
<1>5. e \in Entry /\ e # Empty /\ e.p = T[i].p
  BY <1>2, <1>3, <1>4, RegionTableAssumption DEF Entry, Empty
<1> HIDE DEF e
<1>6. U \in [Index -> Entry]
  BY <1>2, <1>5
<1>7. Typed' /\ tables'[current] = U /\ tables'[1 - current] = tables[1 - current]
  BY <1>1, <1>6, StoreTables DEF TableInv
<1>8. \A k \in Index : U[k].p = T[k].p /\ (U[k] = Empty <=> T[k] = Empty)
  BY <1>2, <1>4, <1>5
<1> HIDE DEF U
<1>9. Unbroken(hash, U, total)
  BY <1>1, <1>2, <1>8 DEF TableInv, Probes, Unbroken, Reaches
<1>10. Once(U) /\ Confined(U, total)
  BY <1>8 DEF TableInv, Probes, Arrays, Once, Confined
<1>11. Stored(U, total) = Stored(T, total)
  BY <1>2, <1>8 DEF Stored
<1>12. Indices'
  BY <1>1, <1>2 DEF TableInv, Indices
<1>13. Phases'
  BY <1>1, RegionTableAssumption DEF TableInv, Phases
<1>14. Arrays' /\ Probing' /\ Probes'
  BY <1>1, <1>7, <1>9, <1>10 DEF TableInv, Arrays, Probing, Inserting, Probes
<1>15. Counted'
  BY <1>1, <1>7, <1>11 DEF TableInv, Counted
<1> QED BY <1>7, <1>12, <1>13, <1>14, <1>15 DEF TableInv

\* A growth stores the entry k of the old array T into the new one.
LEMMA HoldsNext ==
  ASSUME NEW T \in [Index -> Entry], NEW U \in [Index -> Entry], NEW n \in Nat, n <= MaxTotal,
         NEW w \in Nat, w <= MaxTotal, NEW k \in 0 .. n - 1, NEW m \in 0 .. w - 1,
         T[k] # Empty, U[m] = Empty, Holds(T, n, U, w, k)
  PROVE  Holds(T, n, [U EXCEPT ![m] = T[k]], w, k + 1)
<1> DEFINE W == [U EXCEPT ![m] = T[k]]
<1> DEFINE A == {l \in Stored(T, n) : l < k}
<1> DEFINE B == {l \in Stored(T, n) : l < k + 1}
<1>1. k \in Index /\ m \in Index /\ T[k] \in Entry
  BY RegionTableAssumption DEF Index
<1>2. Stored(W, w) = Stored(U, w) \cup {m} /\ m \notin Stored(U, w)
      /\ Cardinality(Stored(W, w)) = Cardinality(Stored(U, w)) + 1
  <2>1. W[m] = T[k] /\ \A l \in 0 .. w - 1 : l # m => W[l] = U[l]
    BY <1>1, RegionTableAssumption DEF Index
  <2>2. W \in [Index -> Entry]
    BY <1>1
  <2> HIDE DEF W
  <2> QED BY <2>1, <2>2, PutAdds
<1>3. W[m] = T[k] /\ \A l \in Stored(U, w) : W[l] = U[l]
  <2>1. \A l \in Stored(U, w) : l \in Index
    BY <1>1, RegionTableAssumption DEF Stored, Index
  <2> QED BY <1>1, <1>2, <2>1
<1>4. k \in Stored(T, n) /\ B = A \cup {k} /\ k \notin A
  BY DEF Stored
<1>5. Cardinality(B) = Cardinality(A) + 1
  <2>1. A \subseteq 0 .. n - 1
    BY DEF Stored
  <2>2. IsFiniteSet(A)
    BY <2>1, IndicesFinite
  <2> HIDE DEF A, B
  <2> QED BY <1>4, <2>2, FS_AddElement
<1>6. /\ \A x \in Stored(U, w) : \E l \in Stored(T, n) : l < k /\ T[l] = U[x]
      /\ \A l \in Stored(T, n) : l < k => \E x \in Stored(U, w) : T[l] = U[x]
      /\ Cardinality(Stored(U, w)) = Cardinality(A)
  BY DEF Holds
<1>7. \A l \in Stored(T, n) : l \in Nat
  BY DEF Stored
<1> HIDE DEF W
<1>8. ASSUME NEW x \in Stored(W, w) PROVE \E l \in Stored(T, n) : l < k + 1 /\ T[l] = W[x]
  <2>1. CASE x = m
    BY <1>3, <1>4, <2>1
  <2>2. CASE x # m
    <3>1. x \in Stored(U, w) /\ W[x] = U[x]
      BY <1>2, <1>3, <1>8, <2>2
    <3>2. PICK l \in Stored(T, n) : l < k /\ T[l] = U[x]
      BY <1>6, <3>1
    <3>3. l < k + 1
      BY <1>7, <3>2
    <3> QED BY <3>1, <3>2, <3>3
  <2> QED BY <2>1, <2>2
<1>9. ASSUME NEW l \in Stored(T, n), l < k + 1 PROVE \E x \in Stored(W, w) : T[l] = W[x]
  <2>1. CASE l = k
    BY <1>2, <1>3, <2>1
  <2>2. CASE l # k
    <3>1. l < k
      BY <1>7, <1>9, <2>2
    <3> QED BY <1>2, <1>3, <1>6, <3>1
  <2> QED BY <2>1, <2>2
<1>10. Cardinality(Stored(W, w)) = Cardinality(B)
  BY <1>2, <1>5, <1>6
<1> QED BY <1>8, <1>9, <1>10 DEF Holds, W

\* What a growth has copied is not stored again.
LEMMA HoldsAbsent ==
  ASSUME NEW T \in [Index -> Entry], NEW U \in [Index -> Entry], NEW n \in Nat, n <= MaxTotal,
         NEW w \in Nat, NEW k \in 0 .. n - 1, T[k] # Empty, Once(T), Confined(U, w),
         Holds(T, n, U, w, k)
  PROVE  Absent(U, T[k].p)
<1> SUFFICES ASSUME NEW m \in Index, U[m].p = T[k].p PROVE FALSE
  BY DEF Absent
<1>1. k \in Index /\ \A l \in 0 .. n - 1 : l \in Index /\ l \in Nat
  BY RegionTableAssumption DEF Index
<1>2. U[m] # Empty
  <2>1. U[m] \in Entry /\ T[k] \in Entry
    BY <1>1
  <2> QED BY <2>1, EntryFields
<1>3. m \in Stored(U, w)
  BY <1>2, RegionTableAssumption DEF Confined, Stored, Index
<1>4. PICK l \in Stored(T, n) : l < k /\ T[l] = U[m]
  BY <1>3 DEF Holds
<1>5. l \in Index /\ l \in Nat /\ T[l] # Empty
  BY <1>1, <1>4 DEF Stored
<1> QED BY <1>1, <1>4, <1>5 DEF Once

\* The entry of the old array is stored where its probe ended.
LEMMA RehashStoreInv ==
  ASSUME TableInv, RehashStore PROVE TableInv'
<1> USE DEF Growing
<1> DEFINE T == tables[current]
<1> DEFINE U == tables[1 - current]
<1> DEFINE e == T[i]
<1> DEFINE W == [U EXCEPT ![index] = e]
<1> DEFINE w == 2 * total
<1>1. /\ pc = "rehash" /\ U[index] = Empty /\ tables' = [tables EXCEPT ![1 - current] = W]
      /\ pc' = "grow" /\ i' = i + 1 /\ index' = 0
      /\ UNCHANGED <<current, total, free, mapped, hash, call, j, out>>
  BY DEF RehashStore, regions, Other
<1>2. /\ total \in Nat /\ total <= MaxTotal /\ w \in Nat /\ w <= MaxTotal /\ w = 2 * total
      /\ index \in 0 .. w - 1 /\ index \in Index /\ index < w /\ i \in 0 .. total - 1
      /\ T \in [Index -> Entry] /\ U \in [Index -> Entry] /\ T[i] # Empty
      /\ e \in Entry /\ e # Empty /\ e = T[i] /\ 0 \in Index
  BY SMTT(30), <1>1, TypedFacts, RegionTableAssumption DEF TableInv, Indices, Index
<1>3. /\ Once(T) /\ Confined(U, w) /\ Once(U) /\ Unbroken(hash, U, w) /\ Holds(T, total, U, w, i)
      /\ Reaches(hash, U, w, e.p, index)
  BY <1>1 DEF TableInv, Probes, Probing, Arrays, Copied
<1>4. tables'[current] = T /\ tables'[1 - current] = W /\ W \in [Index -> Entry]
  BY <1>1, <1>2, TypedFacts DEF TableInv, Typed
<1>5. Typed'
  BY <1>1, <1>4, TypedFacts DEF TableInv, Typed
<1> HIDE DEF w, e
<1>6. Unbroken(hash, W, w)
  BY <1>1, <1>2, <1>3, PutProbes
<1>7. Absent(U, e.p)
  BY <1>2, <1>3, HoldsAbsent
<1>8. Once(W) /\ Confined(W, w)
  BY <1>2, <1>3, <1>7, PutOnce, PutConfined
<1>9. Holds(T, total, W, w, i + 1)
  <2>1. Holds(T, total, [U EXCEPT ![index] = T[i]], w, i + 1)
    BY <1>1, <1>2, <1>3, HoldsNext
  <2> QED BY <1>2, <2>1
<1> HIDE DEF W
<1>10. Copied(hash, T, W, total, i + 1)
  BY <1>2, <1>6, <1>8, <1>9 DEF Copied
<1>11. Indices'
  BY <1>1, <1>2 DEF TableInv, Indices
<1>12. Phases'
  BY <1>1 DEF TableInv, Phases
<1>13. Arrays'
  BY <1>1, <1>2, <1>4, <1>8 DEF TableInv, Arrays
<1>14. Probing'
  BY <1>1, <1>4 DEF TableInv, Probing, Inserting
<1>15. Probes' /\ Counted'
  BY <1>1, <1>4, <1>10 DEF TableInv, Probes, Counted
<1> QED BY <1>5, <1>11, <1>12, <1>13, <1>14, <1>15 DEF TableInv

\* All entries are copied: the arrays change roles and the old one is cleared.
LEMMA GrowDoneInv ==
  ASSUME TableInv, GrowDone PROVE TableInv'
<1> USE DEF Growing
<1> DEFINE T == tables[current]
<1> DEFINE U == tables[1 - current]
<1> DEFINE w == 2 * total
<1>1. /\ pc = "grow" /\ i = total /\ tables' = [tables EXCEPT ![current] = Cleared(T)]
      /\ free' = free + total /\ total' = w /\ current' = 1 - current
      /\ pc' = "insert" /\ i' = Slot(hash, call.p, w)
      /\ UNCHANGED <<hash, call, j, index, out>>
  BY DEF GrowDone, GrownFree, Other, regions, Home, Slot
<1>2. PICK fixed \in BOOLEAN : mapped' = [mapped EXCEPT ![current] = IF fixed THEN 0 ELSE @]
  BY DEF GrowDone
<1>3. /\ total \in Nat /\ total > 4 /\ w \in Nat /\ w > total /\ w <= MaxTotal /\ w = 2 * total
      /\ T \in [Index -> Entry] /\ U \in [Index -> Entry] /\ Empty \in Entry
      /\ call \in Calls /\ call.op = "insert"
  BY <1>1, TypedFacts DEF TableInv, Indices, Phases, Entry
<1>4. call.p \in Addr
  BY <1>3 DEF Calls
<1>5. /\ Once(U) /\ Unbroken(hash, U, w) /\ Holds(T, total, U, w, total)
      /\ Confined(T, total) /\ Confined(U, w) /\ mapped[1 - current] = w /\ Absent(T, call.p)
  BY <1>1, <1>3 DEF TableInv, Probes, Copied, Arrays, Probing, Inserting
<1>6. Cleared(T) \in [Index -> Entry] /\ Blank(Cleared(T))
  <2> HIDE DEF T
  <2>1. \A k \in Index : k \in Int /\ (k < total \/ T[k] = Empty)
    BY <1>3, <1>5, RegionTableAssumption DEF Confined, Index
  <2>2. Cleared(T) \in [Index -> Entry]
    BY <1>3 DEF Cleared
  <2>3. \A k \in Index : Cleared(T)[k] = Empty
    BY <2>1 DEF Cleared
  <2> QED BY <2>2, <2>3 DEF Blank
<1>7. tables'[current'] = U /\ tables'[1 - current'] = Cleared(T)
      /\ tables' \in [{0, 1} -> [Index -> Entry]] /\ current' \in {0, 1}
  BY <1>1, <1>6, TypedFacts DEF TableInv, Typed
<1>8. mapped' \in [{0, 1} -> 0 .. MaxTotal] /\ mapped'[current'] = w
  BY <1>1, <1>2, <1>5, TypedFacts DEF TableInv, Typed
<1>9. i' \in 0 .. w - 1
  <2> HIDE DEF w
  <2> QED BY <1>1, <1>3, <1>4, TypedFacts DEF TableInv
<1>10. Typed'
  <2>1. total' \in InitialTotal .. MaxTotal
    BY <1>1, <1>3, RegionTableAssumption DEF TableInv, Typed
  <2> QED BY <1>1, <1>7, <1>8, <2>1 DEF TableInv, Typed
<1>11. Indices'
  BY <1>1, <1>3, <1>9 DEF TableInv, Indices
<1>12. Phases'
  BY <1>1 DEF TableInv, Phases
<1>13. Arrays'
  BY <1>1, <1>3, <1>5, <1>6, <1>7, <1>8 DEF Arrays
<1>14. Absent(U, call.p)
  <2> SUFFICES ASSUME NEW m \in Index, U[m].p = call.p PROVE FALSE
    BY DEF Absent
  <2>1. U[m] # Empty
    BY <1>4, RegionTableAssumption DEF Empty
  <2>2. m \in Stored(U, w)
    BY <1>3, <1>5, <2>1 DEF Confined, Stored, Index
  <2>3. PICK l \in Stored(T, total) : T[l] = U[m]
    BY <1>5, <2>2 DEF Holds
  <2>4. l \in Index
    BY <2>3, TypedFacts DEF TableInv, Stored
  <2> QED BY <1>5, <2>3, <2>4 DEF Absent
<1>15. Reaches(hash, U, w, call.p, i')
  BY <1>1, <1>3, <1>9, PassesOrder DEF Reaches
<1>16. Probing'
  BY <1>1, <1>7, <1>14, <1>15 DEF Probing, Inserting
<1>17. Probes'
  BY <1>1, <1>5, <1>7 DEF Probes
<1>18. Counted'
  <2>1. {l \in Stored(T, total) : l < total} = Stored(T, total)
    BY <1>3 DEF Stored
  <2>2. Cardinality(Stored(U, w)) = Cardinality(Stored(T, total))
    BY <1>5, <2>1 DEF Holds
  <2>3. /\ free \in Nat /\ free > 0 /\ free + Cardinality(Stored(T, total)) = total
        /\ Cardinality(Stored(T, total)) \in Nat
    <3>1. Stored(T, total) \subseteq 0 .. total - 1
      BY DEF Stored
    <3> QED BY <1>3, <3>1, IndicesFinite DEF TableInv, Counted
  <2>4. free' \in Nat /\ free' > 1 /\ free' + Cardinality(Stored(U, w)) = w
    BY <1>1, <1>3, <2>2, <2>3
  <2> QED BY <1>1, <1>7, <2>4 DEF Counted
<1> QED BY <1>10, <1>11, <1>12, <1>13, <1>16, <1>17, <1>18 DEF TableInv

\* The invariant holds of the empty table.
LEMMA InitTableInv ==
  ASSUME Init PROVE TableInv
<1> DEFINE N == [k \in Index |-> Empty]
<1>1. /\ tables \in [{0, 1} -> [Index -> Entry]] /\ tables[current] = N /\ tables[1 - current] = N
      /\ pc = "idle" /\ call = NoCall /\ out = NULL /\ i = 0 /\ j = 0 /\ index = 0
      /\ total = InitialTotal /\ free = InitialTotal /\ current \in {0, 1}
      /\ hash \in [Addr -> HashValues]
  BY DEF Init, Entry
<1>2. mapped \in [{0, 1} -> 0 .. MaxTotal] /\ mapped[current] = total
  BY RegionTableAssumption DEF Init
<1>3. total \in Nat /\ total > 4 /\ total <= MaxTotal /\ MaxTotal \in Nat
  BY <1>1, RegionTableAssumption
<1>4. \A k \in Index : N[k] = Empty
  OBVIOUS
<1>5. \A k \in 0 .. total - 1 : k \in Index
  BY <1>3 DEF Index
<1> HIDE DEF N
<1>6. Typed
  BY <1>1, <1>2, <1>3 DEF Typed
<1>7. Indices /\ Phases
  BY <1>1, <1>3 DEF Indices, Phases, Growing, Index
<1>8. Arrays /\ Probing
  BY <1>1, <1>2, <1>3, <1>4 DEF Arrays, Probing, Growing, Inserting, Confined, Blank
<1>9. Probes
  <2>1. Once(N) /\ Unbroken(hash, N, total)
    BY <1>4, <1>5 DEF Once, Unbroken
  <2> QED BY <1>1, <2>1 DEF Probes, Growing
<1>10. Counted
  <2>1. Stored(N, total) = {}
    BY <1>4, <1>5 DEF Stored
  <2>2. Cardinality(Stored(N, total)) = 0
    BY <2>1, FS_EmptySet
  <2> QED BY <1>1, <1>3, <2>2 DEF Counted
<1> QED BY <1>6, <1>7, <1>8, <1>9, <1>10 DEF TableInv

\* Every step of every operation keeps the invariant.
LEMMA TableInvStep ==
  ASSUME TableInv, [Next]_vars PROVE TableInv'
<1>1. CASE UNCHANGED vars
  <2>1. UNCHANGED <<tables, current, total, free, mapped, hash, call, pc, i, j, index, out>>
    BY <1>1 DEF vars, tableVars
  <2>2. Typed' /\ Indices' /\ Phases' /\ Arrays'
    BY <2>1 DEF TableInv, Typed, Indices, Phases, Arrays, Growing
  <2>3. Probing' /\ Probes' /\ Counted'
    BY <2>1 DEF TableInv, Probing, Inserting, Probes, Counted, Growing
  <2> QED BY <2>2, <2>3 DEF TableInv
<1>2. CASE \E c \in Calls : Start(c)
  BY <1>2, StartInv
<1>3. CASE InsertStep
  BY <1>3, StartProbeInv, EndInv, StartGrowInv, GrowNextInv, RehashProbeInv, RehashStoreInv,
     GrowDoneInv, ProbeInv, InsertStoreInv DEF InsertStep
<1>4. CASE FindStep
  BY <1>4, StartProbeInv, EndInv, ProbeInv, ResizeInv DEF FindStep
<1>5. CASE DeleteStep
  BY <1>5, DeleteInv, ScanInv, ShiftMoveInv DEF DeleteStep
<1>6. CASE Return
  BY <1>6, EndInv
<1> QED BY <1>1, <1>2, <1>3, <1>4, <1>5, <1>6 DEF Next, Step

\* The inductive invariant of the table: every operation of h_malloc.c on the region
\* table, each loop taken probe by probe, keeps it.
THEOREM TableInvariant == Spec => []TableInv
<1>1. Init => TableInv
  BY InitTableInv
<1>2. TableInv /\ [Next]_vars => TableInv'
  BY TableInvStep
<1> QED BY <1>1, <1>2, PTL DEF Spec

-----------------------------------------------------------------------------
(* The properties of RegionTable *)

\* The free count of regions_insert, regions_delete and regions_grow is the number of
\* empty entries, and it is never zero, so that a probe for an absent address stops.
THEOREM RegionFreeCount == Spec => []FreeCountExact
<1>1. ASSUME TableInv PROVE FreeCountExact
  <2> DEFINE S == Stored(tables[current], total)
  <2> DEFINE A == 0 .. total - 1
  <2>1. total \in Nat /\ S \subseteq A /\ free \in Nat /\ free > 0 /\ free + Cardinality(S) = total
    BY <1>1, TypedFacts DEF TableInv, Counted, Stored
  <2>2. IsFiniteSet(A) /\ Cardinality(A) = total
    <3>1. 0 \in Int /\ total - 1 \in Int
      BY <2>1
    <3>2. IsFiniteSet(A) /\ Cardinality(A) = IF 0 > total - 1 THEN 0 ELSE (total - 1) - 0 + 1
      BY <3>1, FS_Interval
    <3> QED BY <2>1, <3>2
  <2>3. A \ S = {k \in 0 .. total - 1 : regions[k] = Empty}
    BY DEF Stored, regions
  <2>4. A \cap S = S
    BY <2>1
  <2> HIDE DEF S, A
  <2>5. Cardinality(A \ S) = Cardinality(A) - Cardinality(A \cap S)
    BY <2>2, FS_Difference
  <2>6. Cardinality(S) \in Nat
    BY <2>1, <2>2, FS_Subset, FS_CardinalityType
  <2>7. free = Cardinality(A \ S)
    <3>1. Cardinality(A \ S) = total - Cardinality(S)
      BY <2>2, <2>4, <2>5
    <3>2. free = total - Cardinality(S)
      BY <2>1, <2>6
    <3> QED BY <3>1, <3>2
  <2> QED BY <2>1, <2>3, <2>7 DEF FreeCountExact
<1> QED BY <1>1, TableInvariant, PTL

\* Every variable has its type: no index of a probe, a shift or a rehash leaves its array.
THEOREM RegionTypeOK == Spec => []TypeOK
<1>1. ASSUME TableInv PROVE TypeOK
  <2>1. Stored(tables[current], total) \subseteq 0 .. total - 1 /\ total \in Nat
    BY <1>1, TypedFacts DEF TableInv, Stored
  <2>2. Cardinality(Stored(tables[current], total)) \in Nat
    BY <2>1, IndicesFinite
  <2>3. free \in 0 .. total
    BY <1>1, <2>1, <2>2 DEF TableInv, Counted
  <2>4. call \in Calls \cup {NoCall}
    BY <1>1 DEF TableInv, Phases
  <2> QED BY <1>1, <2>3, <2>4 DEF TableInv, Typed, Indices, Phases, TypeOK
<1> QED BY <1>1, TableInvariant, PTL

\* The array in use is accessible up to its size, nothing is stored beyond it, and the
\* other array is zero whenever regions_grow may start to fill it.
THEOREM RegionArraysReady == Spec => []ArraysReady
<1>1. ASSUME TableInv PROVE ArraysReady
  <2>1. Arrays /\ total \in Nat
    BY <1>1, TypedFacts DEF TableInv
  <2>2. \A k \in Index : k \in Int
    BY RegionTableAssumption DEF Index
  <2>3. \A k \in Index : tables[1 - current][k] # Empty => k < mapped[1 - current]
    <3>1. CASE Growing
      BY <2>1, <2>2, <3>1 DEF Arrays, Confined
    <3>2. CASE ~Growing
      BY <2>1, <3>2 DEF Arrays, Blank
    <3> QED BY <3>1, <3>2
  <2> QED BY <2>1, <2>3 DEF Arrays, Growing, Confined, Blank, ArraysReady, regions, Other
<1> QED BY <1>1, TableInvariant, PTL

\* Between operations no probe of regions_find for a stored address meets an empty entry
\* first, whatever regions_delete has shifted and regions_grow has rehashed; and at any
\* time an address is stored once.
THEOREM RegionProbesUnbroken == Spec => []ProbesUnbroken
<1>1. ASSUME TableInv PROVE ProbesUnbroken
  <2>1. ASSUME pc # "shift", NEW k \in 0 .. total - 1, regions[k] # Empty,
               NEW l \in ProbePath(regions[k].p, k, total)
        PROVE  regions[l] # Empty
    <3>1. l \in 0 .. total - 1 /\ Passes(Slot(hash, regions[k].p, total), k, l)
      BY <2>1 DEF ProbePath, Passes, Slot, Home
    <3>2. Unbroken(hash, regions, total)
      BY <1>1, <2>1 DEF TableInv, Probes, regions
    <3> QED BY <2>1, <3>1, <3>2 DEF Unbroken, Reaches
  <2>2. Once(tables[current])
    BY <1>1 DEF TableInv, Probes
  <2>3. Once(tables[1 - current])
    <3>1. CASE Growing
      BY <1>1, <3>1 DEF TableInv, Probes, Copied
    <3>2. CASE ~Growing
      BY <1>1, <3>2 DEF TableInv, Arrays, Blank, Once
    <3> QED BY <3>1, <3>2
  <2>4. StoredOnce
    <3>1. \A t \in {0, 1} : t = current \/ t = 1 - current
      BY <1>1 DEF TableInv, Typed
    <3> QED BY <2>2, <2>3, <3>1 DEF StoredOnce, Once
  <2> QED BY <2>1, <2>4 DEF ProbesUnbroken
<1> QED BY <1>1, TableInvariant, PTL

-----------------------------------------------------------------------------
(* The table implements the map *)

\* The pairs an array holds.
Pairs(T, n) == {<<T[k].p, T[k].size>> : k \in Stored(T, n)}

\* Storing into an empty entry adds one pair.
LEMMA PutPairs ==
  ASSUME NEW T \in [Index -> Entry], NEW n \in Nat, n <= MaxTotal, NEW k \in 0 .. n - 1,
         T[k] = Empty, NEW e \in Entry, e # Empty
  PROVE  Pairs([T EXCEPT ![k] = e], n) = Pairs(T, n) \cup {<<e.p, e.size>>}
<1> DEFINE U == [T EXCEPT ![k] = e]
<1>1. \A l \in 0 .. n - 1 : l \in Index
  BY RegionTableAssumption DEF Index
<1>2. \A l \in 0 .. n - 1 : l # k => U[l] = T[l]
  BY <1>1
<1>3. U[k] = e
  BY <1>1
<1> HIDE DEF U
<1>4. Stored(U, n) = Stored(T, n) \cup {k}
  BY <1>2, <1>3 DEF Stored
<1>5. \A l \in Stored(T, n) : l # k /\ U[l] = T[l]
  BY <1>2 DEF Stored
<1>6. Pairs(U, n) = Pairs(T, n) \cup {<<e.p, e.size>>}
  BY <1>3, <1>4, <1>5 DEF Pairs
<1> QED BY <1>6 DEF U

\* Clearing an entry removes the one pair with its address.
LEMMA ClearPairs ==
  ASSUME NEW T \in [Index -> Entry], NEW n \in Nat, n <= MaxTotal, NEW k \in 0 .. n - 1,
         T[k] # Empty, Once(T)
  PROVE  /\ Pairs([T EXCEPT ![k] = Empty], n) = Pairs(T, n) \ {x \in Pairs(T, n) : x[1] = T[k].p}
         /\ <<T[k].p, T[k].size>> \in Pairs(T, n)
<1> DEFINE U == [T EXCEPT ![k] = Empty]
<1>1. \A l \in 0 .. n - 1 : l \in Index
  BY RegionTableAssumption DEF Index
<1>2. \A l \in 0 .. n - 1 : l # k => U[l] = T[l]
  BY <1>1
<1>3. U[k] = Empty
  BY <1>1
<1> HIDE DEF U
<1>4. Stored(U, n) = Stored(T, n) \ {k} /\ k \in Stored(T, n)
  BY <1>2, <1>3 DEF Stored
<1>5. \A l \in Stored(U, n) : l # k /\ U[l] = T[l] /\ T[l].p # T[k].p
  BY <1>1, <1>2, <1>4 DEF Stored, Once
<1>6. Pairs(U, n) \subseteq Pairs(T, n) \ {x \in Pairs(T, n) : x[1] = T[k].p}
  BY <1>4, <1>5 DEF Pairs
<1>7. ASSUME NEW x \in Pairs(T, n), x[1] # T[k].p PROVE x \in Pairs(U, n)
  <2>1. PICK l \in Stored(T, n) : x = <<T[l].p, T[l].size>>
    BY <1>7 DEF Pairs
  <2>2. l # k
    BY <1>7, <2>1
  <2> QED BY <1>4, <1>5, <2>1, <2>2 DEF Pairs
<1>8. <<T[k].p, T[k].size>> \in Pairs(T, n)
  BY <1>4 DEF Pairs
<1> QED BY <1>6, <1>7, <1>8 DEF U

\* Two arrays that hold the same entries hold the same pairs.
LEMMA SamePairs ==
  ASSUME NEW T, NEW n, NEW U, NEW w,
         \A m \in Stored(U, w) : \E l \in Stored(T, n) : T[l] = U[m],
         \A l \in Stored(T, n) : \E m \in Stored(U, w) : T[l] = U[m]
  PROVE  Pairs(U, w) = Pairs(T, n)
<1>1. ASSUME NEW x \in Pairs(U, w) PROVE x \in Pairs(T, n)
  <2>1. PICK m \in Stored(U, w) : x = <<U[m].p, U[m].size>>
    BY DEF Pairs
  <2>2. PICK l \in Stored(T, n) : T[l] = U[m]
    OBVIOUS
  <2> QED BY <2>1, <2>2 DEF Pairs
<1>2. ASSUME NEW x \in Pairs(T, n) PROVE x \in Pairs(U, w)
  <2>1. PICK l \in Stored(T, n) : x = <<T[l].p, T[l].size>>
    BY DEF Pairs
  <2>2. PICK m \in Stored(U, w) : T[l] = U[m]
    OBVIOUS
  <2> QED BY <2>1, <2>2 DEF Pairs
<1> QED BY <1>1, <1>2

\* The contents of the table are the pairs of the array in use.
LEMMA ContentsPairs == Contents = Pairs(tables[current], total)
BY DEF Contents, Pairs, Stored, regions

\* A probe that meets an empty entry before the address: the address is not stored.
LEMMA MissAbsent ==
  ASSUME TableInv, FindMiss PROVE \A x \in Contents : x[1] # call.p
<1> DEFINE T == tables[current]
<1>1. /\ pc = "find" /\ T[i] = Empty /\ i \in 0 .. total - 1 /\ total \in Nat /\ call.p \in Addr
      /\ Seeks(hash, T, total, call.p, i) /\ Unbroken(hash, T, total)
      /\ Slot(hash, call.p, total) \in 0 .. total - 1
  <2>1. pc = "find" /\ regions[i] = Empty
    BY DEF FindMiss
  <2>2. /\ total \in Nat /\ total > 0 /\ i \in 0 .. total - 1 /\ call \in Calls
        /\ Seeks(hash, T, total, call.p, i) /\ Unbroken(hash, T, total)
    BY <2>1, TypedFacts DEF TableInv, Indices, Phases, Probing, Probes
  <2>3. call.p \in Addr
    BY <2>2 DEF Calls
  <2> QED BY <2>1, <2>2, <2>3, TypedFacts DEF TableInv, regions
<1> SUFFICES ASSUME NEW k \in Stored(T, total), T[k].p = call.p PROVE FALSE
  BY ContentsPairs DEF Pairs
<1> HIDE DEF T
<1>2. k \in 0 .. total - 1 /\ T[k] # Empty /\ Reaches(hash, T, total, call.p, k)
  BY <1>1 DEF Stored, Unbroken
<1>3. CASE Passes(Slot(hash, call.p, total), k, i)
  BY <1>1, <1>2, <1>3 DEF Reaches
<1>4. CASE Passes(Slot(hash, call.p, total), i, k)
  BY <1>1, <1>2, <1>4 DEF Seeks
<1>5. k # i
  BY <1>1, <1>2
<1> QED BY <1>1, <1>2, <1>3, <1>4, <1>5, PassesOrder

\* A step that leaves the array in use, the call and the result alone is a step in
\* which the map does nothing.
LEMMA QuietStutters ==
  ASSUME tables'[current'] = tables[current], UNCHANGED <<total, call, out>>
  PROVE  UNCHANGED RM!mapVars
<1>1. Contents' = Contents
  BY DEF Contents, regions
<1> QED BY <1>1 DEF RM!mapVars

\* The call in progress, for the guards of the map's operations.
LEMMA PendingCall ==
  ASSUME TableInv, pc # "idle"
  PROVE  /\ call \in Calls /\ call # NoCall /\ call.p \in Addr
         /\ call.op \in {"insert", "resize", "find", "delete"}
         /\ call.op \in {"insert", "resize"} => call.size \in Size
<1>1. call \in Calls
  BY DEF TableInv, Phases
<1>2. call.p \in Addr /\ call.op \in {"insert", "resize", "find", "delete"}
      /\ (call.op \in {"insert", "resize"} => call.size \in Size)
  BY <1>1 DEF Calls
<1>3. call # NoCall
  BY <1>2 DEF NoCall
<1> QED BY <1>1, <1>2, <1>3

\* The start and the return of a call, and the insertion that fails.
LEMMA CallMaps ==
  /\ \A c \in Calls : TableInv /\ Start(c) => RM!Begin(c)
  /\ TableInv /\ Return => RM!Return
  /\ TableInv /\ GrowFails => RM!InsertFails /\ UNCHANGED call
<1>1. ASSUME TableInv, NEW c \in Calls, Start(c) PROVE RM!Begin(c)
  <2>1. /\ pc = "idle" /\ UNCHANGED <<tables, current, total, out>> /\ call' = c
        /\ c.op = "insert" => c.p \in MmapResults
    BY <1>1 DEF Start, tableVars
  <2>2. call = NoCall
    BY <1>1, <2>1 DEF TableInv, Phases
  <2>3. Contents' = Contents
    BY <2>1 DEF Contents, regions
  <2>4. c.op = "insert" => \A e \in Contents : e[1] # c.p
    BY <2>1 DEF MmapResults
  <2> QED BY <2>1, <2>2, <2>3, <2>4 DEF RM!Begin
<1>2. ASSUME TableInv, Return PROVE RM!Return
  <2>1. /\ pc = "return" /\ UNCHANGED <<tables, current, total>> /\ call' = NoCall /\ out' = NULL
    BY <1>2 DEF Return, tableVars
  <2>2. out # NULL
    BY <1>2, <2>1 DEF TableInv, Phases
  <2>3. Contents' = Contents
    BY <2>1 DEF Contents, regions
  <2>4. call # NoCall
    BY <1>2, <2>1, PendingCall
  <2> QED BY <2>1, <2>2, <2>3, <2>4 DEF RM!Return
<1>3. ASSUME TableInv, GrowFails PROVE RM!InsertFails /\ UNCHANGED call
  <2>1. /\ pc = "start" /\ call.op = "insert" /\ UNCHANGED <<tables, current, total, call>>
        /\ out' = "full"
    BY <1>3 DEF GrowFails, tableVars
  <2>2. out = NULL
    BY <1>3, <2>1 DEF TableInv, Phases
  <2>3. Contents' = Contents
    BY <2>1 DEF Contents, regions
  <2>4. call # NoCall
    BY <1>3, <2>1, PendingCall
  <2> QED BY <2>1, <2>2, <2>3, <2>4 DEF RM!InsertFails, RM!Pending
<1> QED BY <1>1, <1>2, <1>3

\* A lookup takes effect when its probe ends: at the address, or at an empty entry.
LEMMA FindMaps ==
  /\ TableInv /\ FindHit => RM!Find /\ UNCHANGED call
  /\ TableInv /\ FindMiss => RM!Miss /\ UNCHANGED call
<1>1. ASSUME TableInv, FindHit PROVE RM!Find /\ UNCHANGED call
  <2>1. /\ pc = "find" /\ tables[current][i].p = call.p /\ call.op = "find"
        /\ UNCHANGED <<tables, current, total, call>> /\ out' = tables[current][i].size
    BY <1>1 DEF FindHit, Hit, tableVars, regions
  <2>2. out = NULL /\ call # NoCall /\ call.p \in Addr
    BY <1>1, <2>1, PendingCall DEF TableInv, Phases
  <2>3. Contents' = Contents
    BY <2>1 DEF Contents, regions
  <2>4. i \in 0 .. total - 1 /\ tables[current][i] \in Entry
    BY <1>1, <2>1, TypedFacts DEF TableInv, Indices
  <2>5. tables[current][i] # Empty
    BY <2>1, <2>2, <2>4, EntryFields, RegionTableAssumption
  <2>6. <<call.p, out'>> \in Contents
    BY <2>1, <2>4, <2>5, ContentsPairs DEF Pairs, Stored
  <2> QED BY <2>1, <2>2, <2>3, <2>6 DEF RM!Find, RM!Pending
<1>2. ASSUME TableInv, FindMiss PROVE RM!Miss /\ UNCHANGED call
  <2>1. /\ pc = "find" /\ UNCHANGED <<tables, current, total, call>> /\ out' = "missing"
    BY <1>2 DEF FindMiss, tableVars
  <2>2. out = NULL /\ call # NoCall /\ call.op # "insert"
    BY <1>2, <2>1, PendingCall DEF TableInv, Phases
  <2>3. Contents' = Contents
    BY <2>1 DEF Contents, regions
  <2>4. RM!At(call.p) = {}
    BY <1>2, MissAbsent DEF RM!At
  <2> QED BY <2>1, <2>2, <2>3, <2>4 DEF RM!Miss
<1> QED BY <1>1, <1>2

\* An insertion takes effect when it stores the entry.
LEMMA InsertMaps ==
  ASSUME TableInv, InsertStore PROVE RM!Insert /\ UNCHANGED call
<1> DEFINE T == tables[current]
<1> DEFINE e == [p |-> call.p, size |-> call.size]
<1> DEFINE U == [T EXCEPT ![i] = e]
<1>1. /\ pc = "insert" /\ T[i] = Empty /\ tables' = [tables EXCEPT ![current] = U]
      /\ out' = "inserted" /\ UNCHANGED <<current, total, call>>
  BY DEF InsertStore, regions
<1>2. /\ call.op = "insert" /\ call # NoCall /\ out = NULL /\ e \in Entry /\ e # Empty
      /\ e.p = call.p /\ e.size = call.size
  <2>1. call.op = "insert" /\ out = NULL
    BY <1>1 DEF TableInv, Phases
  <2>2. call.p \in Addr /\ call.size \in Size /\ call # NoCall
    BY <1>1, <2>1, PendingCall
  <2> QED BY <2>1, <2>2, RegionTableAssumption DEF Entry, Empty
<1>3. /\ total \in Nat /\ total <= MaxTotal /\ i \in 0 .. total - 1 /\ i \in Index
      /\ T \in [Index -> Entry]
  BY <1>1, TypedFacts DEF TableInv, Indices
<1> HIDE DEF e
<1>4. U \in [Index -> Entry]
  BY <1>2, <1>3
<1>5. tables'[current'] = U
  BY <1>1, <1>4, TypedFacts DEF TableInv, Typed
<1>6. Contents' = Pairs(U, total)
  BY <1>1, <1>5 DEF Contents, regions, Pairs, Stored
<1>7. Pairs(U, total) = Pairs(T, total) \cup {<<e.p, e.size>>}
  BY <1>1, <1>2, <1>3, PutPairs
<1>8. Contents' = Contents \cup {<<call.p, call.size>>}
  BY <1>2, <1>6, <1>7, ContentsPairs
<1> QED BY <1>1, <1>2, <1>8 DEF RM!Insert, RM!Pending

\* What a lookup that hits knows, for the deletion and the resizing.
LEMMA HitFacts ==
  ASSUME TableInv, Hit
  PROVE  /\ pc = "find" /\ tables[current][i].p = call.p /\ call # NoCall /\ out = NULL
         /\ total \in Nat /\ total <= MaxTotal /\ i \in 0 .. total - 1 /\ i \in Index
         /\ tables[current] \in [Index -> Entry] /\ tables[current][i] \in Entry
         /\ tables[current][i] # Empty /\ Once(tables[current]) /\ call.p \in Addr
<1>1. pc = "find" /\ tables[current][i].p = call.p
  BY DEF Hit, regions
<1>2. call # NoCall /\ call.p \in Addr /\ out = NULL
  BY <1>1, PendingCall DEF TableInv, Phases
<1>3. /\ total \in Nat /\ total <= MaxTotal /\ i \in 0 .. total - 1 /\ i \in Index
      /\ tables[current] \in [Index -> Entry] /\ tables[current][i] \in Entry
      /\ Once(tables[current])
  BY <1>1, TypedFacts DEF TableInv, Indices, Probes
<1>4. tables[current][i] # Empty
  BY <1>1, <1>2, <1>3, EntryFields, RegionTableAssumption
<1> QED BY <1>1, <1>2, <1>3, <1>4

\* A deletion takes effect when it clears the entry, before it shifts the others.
LEMMA DeleteMaps ==
  ASSUME TableInv, Delete PROVE RM!Delete /\ UNCHANGED call
<1> DEFINE T == tables[current]
<1> DEFINE U == [T EXCEPT ![i] = Empty]
<1>1. /\ Hit /\ call.op = "delete" /\ tables' = [tables EXCEPT ![current] = U]
      /\ out' = "deleted" /\ UNCHANGED <<current, total, call>>
  BY DEF Delete, regions
<1>2. /\ T[i].p = call.p /\ call # NoCall /\ out = NULL /\ total \in Nat /\ total <= MaxTotal
      /\ i \in 0 .. total - 1 /\ T \in [Index -> Entry] /\ T[i] # Empty /\ Once(T)
  BY <1>1, HitFacts
<1>3. U \in [Index -> Entry]
  BY <1>2 DEF Entry
<1>4. tables'[current'] = U
  BY <1>1, <1>3, TypedFacts DEF TableInv, Typed
<1>5. Contents' = Pairs(U, total)
  BY <1>1, <1>4 DEF Contents, regions, Pairs, Stored
<1>6. /\ Pairs(U, total) = Pairs(T, total) \ {x \in Pairs(T, total) : x[1] = T[i].p}
      /\ <<T[i].p, T[i].size>> \in Pairs(T, total)
  BY <1>2, ClearPairs
<1>7. Contents' = Contents \ RM!At(call.p)
  BY <1>2, <1>5, <1>6, ContentsPairs DEF RM!At
<1>8. <<T[i].p, T[i].size>> \in RM!At(call.p)
  BY <1>2, <1>6, ContentsPairs DEF RM!At
<1> QED BY <1>1, <1>2, <1>7, <1>8 DEF RM!Delete, RM!Pending

\* A resizing takes effect when it stores the size.
LEMMA ResizeMaps ==
  ASSUME TableInv, Resize PROVE RM!Resize /\ UNCHANGED call
<1> DEFINE T == tables[current]
<1> DEFINE e == [T[i] EXCEPT !.size = call.size]
<1> DEFINE V == [T EXCEPT ![i] = Empty]
<1> DEFINE U == [T EXCEPT ![i] = e]
<1>1. /\ Hit /\ call.op = "resize" /\ tables' = [tables EXCEPT ![current] = U]
      /\ out' = "resized" /\ UNCHANGED <<current, total, call>>
  BY DEF Resize, regions
<1>2. /\ T[i].p = call.p /\ call # NoCall /\ out = NULL /\ total \in Nat /\ total <= MaxTotal
      /\ i \in 0 .. total - 1 /\ i \in Index /\ T \in [Index -> Entry] /\ T[i] # Empty /\ Once(T)
      /\ T[i] \in Entry /\ pc = "find" /\ call.p \in Addr
  BY <1>1, HitFacts
<1>3. call.size \in Size
  BY <1>1, <1>2, PendingCall
<1>4. e \in Entry /\ e # Empty /\ e.p = call.p /\ e.size = call.size
  BY <1>2, <1>3, RegionTableAssumption DEF Entry, Empty
<1> HIDE DEF e
<1>5. U \in [Index -> Entry] /\ V \in [Index -> Entry] /\ V[i] = Empty /\ U = [V EXCEPT ![i] = e]
  BY <1>2, <1>4 DEF Entry
<1>6. tables'[current'] = U
  BY <1>1, <1>5, TypedFacts DEF TableInv, Typed
<1>7. Contents' = Pairs(U, total)
  BY <1>1, <1>6 DEF Contents, regions, Pairs, Stored
<1>8. /\ Pairs(V, total) = Pairs(T, total) \ {x \in Pairs(T, total) : x[1] = T[i].p}
      /\ <<T[i].p, T[i].size>> \in Pairs(T, total)
  BY <1>2, ClearPairs
<1>9. Pairs(U, total) = Pairs(V, total) \cup {<<e.p, e.size>>}
  <2> HIDE DEF V
  <2>1. Pairs([V EXCEPT ![i] = e], total) = Pairs(V, total) \cup {<<e.p, e.size>>}
    BY <1>2, <1>4, <1>5, PutPairs
  <2> QED BY <1>5, <2>1
<1>10. Contents' = (Contents \ RM!At(call.p)) \cup {<<call.p, call.size>>}
  BY <1>2, <1>4, <1>7, <1>8, <1>9, ContentsPairs DEF RM!At
<1>11. <<T[i].p, T[i].size>> \in RM!At(call.p)
  BY <1>2, <1>8, ContentsPairs DEF RM!At
<1> QED BY <1>1, <1>2, <1>10, <1>11 DEF RM!Resize, RM!Pending

\* Shifting an entry into the hole moves it and loses nothing.
LEMMA ShiftStutters ==
  ASSUME TableInv, ShiftMove PROVE UNCHANGED RM!mapVars
<1> DEFINE T == tables[current]
<1> DEFINE U == [T EXCEPT ![j] = T[i], ![i] = Empty]
<1>1. /\ pc = "shift" /\ T[i] # Empty /\ UNCHANGED <<current, total, call, out>>
      /\ tables' = [tables EXCEPT ![current] = U]
  <2>1. tables \in [{0, 1} -> [Index -> Entry]] /\ current \in {0, 1}
    BY DEF TableInv, Typed
  <2>2. tables' = [tables EXCEPT ![current] = U]
    BY <2>1 DEF ShiftMove, regions
  <2> QED BY <2>2 DEF ShiftMove, regions
<1>2. /\ total \in Nat /\ total <= MaxTotal /\ i \in 0 .. total - 1 /\ j \in 0 .. total - 1
      /\ T \in [Index -> Entry] /\ T[j] = Empty /\ i # j /\ i \in Index /\ j \in Index
      /\ \A k \in 0 .. total - 1 : k \in Index
  BY <1>1, TypedFacts DEF TableInv, Indices, Probes, Shifting
<1>3. U \in [Index -> Entry] /\ U[j] = T[i] /\ U[i] = Empty
      /\ \A k \in Index : k # i /\ k # j => U[k] = T[k]
  BY <1>2 DEF Entry
<1>4. tables'[current'] = U
  BY <1>1, <1>3, TypedFacts DEF TableInv, Typed
<1> HIDE DEF U
<1>5. \A m \in Stored(U, total) : \E l \in Stored(T, total) : T[l] = U[m]
  <2> SUFFICES ASSUME NEW m \in Stored(U, total) PROVE \E l \in Stored(T, total) : T[l] = U[m]
    OBVIOUS
  <2>1. CASE m = j
    BY <1>1, <1>2, <1>3, <2>1 DEF Stored
  <2>2. CASE m # j
    BY <1>2, <1>3, <2>2 DEF Stored
  <2> QED BY <2>1, <2>2
<1>6. \A l \in Stored(T, total) : \E m \in Stored(U, total) : T[l] = U[m]
  <2> SUFFICES ASSUME NEW l \in Stored(T, total) PROVE \E m \in Stored(U, total) : T[l] = U[m]
    OBVIOUS
  <2>1. CASE l = i
    BY <1>1, <1>2, <1>3, <2>1 DEF Stored
  <2>2. CASE l # i
    BY <1>2, <1>3, <2>2 DEF Stored
  <2> QED BY <2>1, <2>2
<1>7. Pairs(U, total) = Pairs(T, total)
  BY <1>5, <1>6, SamePairs
<1>8. Contents' = Pairs(U, total)
  BY <1>1, <1>4 DEF Contents, regions, Pairs, Stored
<1> QED BY <1>1, <1>7, <1>8, ContentsPairs DEF RM!mapVars

\* The end of a growth: the new array holds what the old one held.
LEMMA GrowStutters ==
  ASSUME TableInv, GrowDone PROVE UNCHANGED RM!mapVars
<1> DEFINE T == tables[current]
<1> DEFINE U == tables[1 - current]
<1>1. /\ pc = "grow" /\ i = total /\ tables' = [tables EXCEPT ![current] = Cleared(T)]
      /\ total' = 2 * total /\ current' = 1 - current /\ UNCHANGED <<call, out>>
  BY DEF GrowDone, Other, regions
<1>2. tables'[current'] = U
  BY <1>1, TypedFacts DEF TableInv, Typed
<1>3. Holds(T, total, U, 2 * total, total) /\ total \in Nat
  BY <1>1, TypedFacts DEF TableInv, Probes, Copied, Growing
<1>4. \A l \in Stored(T, total) : l < total
  BY <1>3 DEF Stored
<1>5. Pairs(U, 2 * total) = Pairs(T, total)
  BY <1>3, <1>4, SamePairs DEF Holds
<1>6. Contents' = Pairs(U, 2 * total)
  BY <1>1, <1>2 DEF Contents, regions, Pairs, Stored
<1> QED BY <1>1, <1>5, <1>6, ContentsPairs DEF RM!mapVars

\* Every step of the table is a step of the map, or no step of it.
LEMMA MapStep ==
  ASSUME TableInv, [Next]_vars PROVE [RM!MapNext]_(RM!mapVars)
<1>1. CASE StartInsert \/ StartFind \/ StartGrow \/ GrowNext \/ RehashProbe \/ InsertProbe
             \/ FindProbe \/ ShiftSkip \/ ShiftDone \/ UNCHANGED vars
  <2>1. UNCHANGED <<tables, current, total, call, out>>
    BY <1>1 DEF StartInsert, StartFind, StartGrow, GrowNext, RehashProbe, InsertProbe, FindProbe,
                ShiftSkip, ShiftDone, vars, tableVars
  <2> QED BY <2>1, QuietStutters
<1>2. CASE RehashStore
  <2>1. UNCHANGED <<current, total, call, out>> /\ tables'[current] = tables[current]
    BY <1>2, TypedFacts DEF RehashStore, Other, TableInv, Typed
  <2> QED BY <2>1, QuietStutters
<1>3. CASE ShiftMove \/ GrowDone
  BY <1>3, ShiftStutters, GrowStutters
<1>4. CASE (\E c \in Calls : Start(c)) \/ Return \/ GrowFails
  BY <1>4, CallMaps DEF RM!MapNext
<1>5. CASE FindHit \/ FindMiss
  BY <1>5, FindMaps DEF RM!MapNext
<1>6. CASE InsertStore \/ Delete \/ Resize
  BY <1>6, InsertMaps, DeleteMaps, ResizeMaps DEF RM!MapNext
<1> QED BY <1>1, <1>2, <1>3, <1>4, <1>5, <1>6 DEF Next, Step, InsertStep, FindStep, DeleteStep

\* The region table implements the map of RegionMap: what regions_insert, regions_find
\* and regions_delete return, and what they leave in the table, is what the map
\* promises, for every table size, hash function and sequence of calls.
THEOREM RegionImplementsMap == Spec => ImplementsMap
<1>1. Init => RM!MapInit
  <2> SUFFICES ASSUME Init PROVE RM!MapInit
    OBVIOUS
  <2>1. TableInv /\ total = InitialTotal /\ current = 0 /\ call = NoCall /\ out = NULL
        /\ tables = [t \in {0, 1} |-> [k \in Index |-> Empty]]
    BY InitTableInv DEF Init
  <2>2. \A k \in 0 .. total - 1 : tables[current][k] = Empty
    BY <2>1, TypedFacts DEF TableInv
  <2>3. Contents = {}
    BY <2>2 DEF Contents, regions
  <2> QED BY <2>1, <2>3 DEF RM!MapInit
<1>2. TableInv /\ [Next]_vars => [RM!MapNext]_(RM!mapVars)
  BY MapStep
<1> QED BY <1>1, <1>2, TableInvariant, PTL DEF Spec, ImplementsMap, RM!MapSpec
=============================================================================

-------------------------- MODULE SlabClassProofs ---------------------------
(***************************************************************************)
(* Proofs about SlabClass: types, the slots and the quarantine (the first  *)
(* layer of the inductive invariant), and the links, the pages and the     *)
(* guard slabs (the second).                                               *)
(***************************************************************************)
EXTENDS SlabClass, FiniteSetTheorems, TLAPS

(* The inductive invariant, in layers. *)

\* What the bitmaps say about ownership.
SlotInv ==
  /\ \A m \in Slabs : count[m] = Cardinality(bitmap[m])
  /\ \A m \in Slabs : quarantine_bitmap[m] \subseteq bitmap[m]
  /\ \A m \in Slabs, s \in SlotIdx :
       <<m, s>> \in live <=> s \in bitmap[m] /\ s \notin quarantine_bitmap[m]

\* The two quarantine stages hold the quarantined slots, each in one cell.
CellInv ==
  /\ \A i \in 0 .. RandomLen - 1 :
       quarantine_random[i] # NULL => quarantine_random[i] \in Quarantined
  /\ \A i \in 0 .. QueueLen - 1 :
       quarantine_queue[i] # NULL => quarantine_queue[i] \in Quarantined
  /\ \A i, j \in 0 .. RandomLen - 1 :
       quarantine_random[i] # NULL /\ quarantine_random[i] = quarantine_random[j] => i = j
  /\ \A i, j \in 0 .. QueueLen - 1 :
       quarantine_queue[i] # NULL /\ quarantine_queue[i] = quarantine_queue[j] => i = j
  /\ \A i \in 0 .. RandomLen - 1, j \in 0 .. QueueLen - 1 :
       quarantine_random[i] # NULL => quarantine_random[i] # quarantine_queue[j]
  /\ \A p \in Quarantined :
       \/ \E i \in 0 .. RandomLen - 1 : quarantine_random[i] = p
       \/ \E i \in 0 .. QueueLen - 1 : quarantine_queue[i] = p

Inv1 == Typed /\ SlotInv /\ CellInv

-----------------------------------------------------------------------------
(* Facts about slots and pointers *)

\* A pointer is a slab and a slot of it.
LEMMA PtrPair ==
  /\ \A p \in Ptr : p[1] \in Slabs /\ p[2] \in SlotIdx /\ p = <<p[1], p[2]>>
  /\ \A m \in Slabs, s \in SlotIdx : <<m, s>> \in Ptr
BY DEF Ptr

\* Quarantined, pointer by pointer, is the quarantine bitmap.
LEMMA InQuarantined ==
  \A p \in Ptr : p \in Quarantined <=> p[2] \in quarantine_bitmap[p[1]]
BY DEF Quarantined

\* A slab has Slots slots.
LEMMA SlotIdxCard == IsFiniteSet(SlotIdx) /\ Cardinality(SlotIdx) = Slots
<1>1. 0 \in Int /\ Slots - 1 \in Int /\ Slots \in Nat \ {0}
  BY SlabClassAssumption
<1>2. IsFiniteSet(0 .. Slots - 1)
      /\ Cardinality(0 .. Slots - 1) = IF 0 > Slots - 1 THEN 0 ELSE (Slots - 1) - 0 + 1
  BY <1>1, FS_Interval
<1> QED BY <1>1, <1>2 DEF SlotIdx

\* Marking a free slot used adds one to the number of used slots (set_used_slot).
LEMMA CardTake ==
  ASSUME NEW S \in SUBSET SlotIdx, NEW s \in SlotIdx, s \notin S
  PROVE  /\ Cardinality(S \cup {s}) = Cardinality(S) + 1
         /\ Cardinality(S) \in Nat
         /\ Cardinality(S) + 1 <= Slots
<1>1. IsFiniteSet(S) /\ IsFiniteSet(S \cup {s})
  BY SlotIdxCard, FS_Subset
<1>2. Cardinality(S \cup {s}) = Cardinality(S) + 1
  BY <1>1, FS_AddElement
<1>3. Cardinality(S \cup {s}) <= Cardinality(SlotIdx)
  BY SlotIdxCard, FS_Subset
<1>4. Cardinality(S) \in Nat
  BY <1>1, FS_CardinalityType
<1> QED BY <1>2, <1>3, <1>4, SlotIdxCard

\* Clearing a used slot takes one off the number of used slots (clear_used_slot).
LEMMA CardDrop ==
  ASSUME NEW S \in SUBSET SlotIdx, NEW s \in S
  PROVE  /\ Cardinality(S \ {s}) = Cardinality(S) - 1
         /\ Cardinality(S) \in Nat /\ Cardinality(S) >= 1
         /\ Cardinality(S) <= Slots
<1>1. IsFiniteSet(S) /\ Cardinality(S) <= Slots
  BY SlotIdxCard, FS_Subset
<1>2. Cardinality(S \ {s}) = Cardinality(S) - 1
  BY <1>1, FS_RemoveElement
<1>3. Cardinality(S) \in Nat /\ IsFiniteSet(S \ {s})
  BY <1>1, FS_CardinalityType, FS_Subset
<1>4. Cardinality(S \ {s}) \in Nat
  BY <1>3, FS_CardinalityType
<1> QED BY <1>1, <1>2, <1>3, <1>4

-----------------------------------------------------------------------------
(* Layer 1: types, ownership and quarantine *)

\* The initial class has no used slot.
LEMMA Init1 == Init => Inv1
<1> SUFFICES ASSUME Init PROVE Inv1
  OBVIOUS
<1>1. Cardinality({}) = 0
  BY FS_EmptySet
<1>2. TypedCounts
  BY SlabClassAssumption DEF Init, TypedCounts
<1>3. TypedSlots
  BY SlabClassAssumption DEF Init, TypedSlots
<1>4. TypedLists
  <2>1. trimming \in BOOLEAN
    BY Zenon DEF Init
  <2>2. place \in [Slabs -> {"unused", "inuse", "empty", "free", "quarantine"}]
    BY DEF Init
  <2> QED BY <2>1, <2>2 DEF Init, TypedLists
<1>5. TypedCells
  BY SlabClassAssumption DEF Init, TypedCells
<1>6. TypedMemory
  BY DEF Init, TypedMemory
<1>7. SlotInv
  BY <1>1 DEF Init, SlotInv
<1>8. CellInv
  <2>1. Quarantined = {}
    BY PtrPair DEF Init, Quarantined
  <2> QED BY <2>1 DEF Init, CellInv
<1> QED BY <1>2, <1>3, <1>4, <1>5, <1>6, <1>7, <1>8 DEF Inv1, Typed

\* Taking a free slot keeps the bitmaps in step with ownership.
LEMMA TakeSlotKeeps ==
  ASSUME Inv1, NEW m \in Slabs, NEW s \in get_free_slot(m),
         NEW cv \in CanaryValues \cup {0}, TakeSlot(m, s, cv),
         UNCHANGED <<quarantine_bitmap, quarantineVars>>
  PROVE  /\ SlotInv' /\ CellInv' /\ TypedSlots'
         /\ tail' \in [Ptr -> CanaryValues \cup {0, Smashed}]
<1> USE DEF Inv1, Typed, TypedSlots
<1>1. s \in SlotIdx /\ s \notin bitmap[m] /\ bitmap[m] \in SUBSET SlotIdx
  BY DEF get_free_slot
<1>2. /\ Cardinality(bitmap[m] \cup {s}) = Cardinality(bitmap[m]) + 1
      /\ Cardinality(bitmap[m]) \in Nat
      /\ Cardinality(bitmap[m]) + 1 <= Slots
  BY <1>1, CardTake
<1>3. bitmap' = [bitmap EXCEPT ![m] = @ \cup {s}] /\ count' = [count EXCEPT ![m] = @ + 1]
  BY DEF TakeSlot
<1>4. bitmap' \in [Slabs -> SUBSET SlotIdx]
  BY <1>1, <1>3
<1>5. count[m] = Cardinality(bitmap[m])
  BY DEF SlotInv
<1>6. count' \in [Slabs -> 0 .. Slots]
  BY <1>2, <1>3, <1>5, SlabClassAssumption
<1>7. live' = live \cup {<<m, s>>} /\ live' \in SUBSET Ptr
  BY <1>1, PtrPair DEF TakeSlot
<1>8. tail' \in [Ptr -> CanaryValues \cup {0, Smashed}]
  BY DEF TakeSlot, TypedMemory
<1>9. allocated' \in Int
  BY SlabClassAssumption DEF TakeSlot, stats_small_allocate
<1>10. \A n \in Slabs : count'[n] = Cardinality(bitmap'[n])
  <2> TAKE n \in Slabs
  <2>1. CASE n = m
    BY <2>1, <1>2, <1>3, <1>5
  <2>2. CASE n # m
    BY <2>2, <1>3 DEF SlotInv
  <2> QED BY <2>1, <2>2
<1>11. \A n \in Slabs : quarantine_bitmap'[n] \subseteq bitmap'[n]
  BY <1>3 DEF SlotInv
<1>12. \A n \in Slabs, t \in SlotIdx :
         <<n, t>> \in live' <=> t \in bitmap'[n] /\ t \notin quarantine_bitmap'[n]
  <2> TAKE n \in Slabs, t \in SlotIdx
  <2>1. s \notin quarantine_bitmap[m]
    BY <1>1 DEF SlotInv
  <2>2. CASE n = m
    BY <2>1, <2>2, <1>1, <1>3, <1>7 DEF SlotInv
  <2>3. CASE n # m
    BY <2>3, <1>3, <1>7 DEF SlotInv
  <2> QED BY <2>2, <2>3
<1>13. SlotInv'
  BY <1>10, <1>11, <1>12 DEF SlotInv
<1>14. quarantine_bitmap' = quarantine_bitmap
  OBVIOUS
<1>15. CellInv'
  BY DEF CellInv, Quarantined, quarantineVars
<1> QED BY <1>4, <1>6, <1>7, <1>8, <1>9, <1>13, <1>14, <1>15

\* A step that changes neither the bitmaps, the quarantine nor the ownership
\* keeps both invariants.
LEMMA SlotsUnchanged ==
  ASSUME SlotInv, CellInv, UNCHANGED <<slotVars, quarantineVars, live>>
  PROVE  SlotInv' /\ CellInv'
BY DEF SlotInv, CellInv, Quarantined, slotVars, quarantineVars

\* The slot indices and pointers a caller passes in are those of a slot in
\* use when the checks of deallocate_small succeed.
LEMMA CheckedIsLive ==
  ASSUME Inv1, NEW p \in Ptr, CheckFree(p[1], p[2], TRUE, TRUE) = "ok"
  PROVE  /\ p[2] \in bitmap[p[1]] /\ p[2] \notin quarantine_bitmap[p[1]]
         /\ p \in live
<1>1. p[2] \in bitmap[p[1]] /\ p[2] \notin quarantine_bitmap[p[1]]
  BY DEF CheckFree
<1> QED BY <1>1, PtrPair DEF Inv1, SlotInv

\* An index drawn for the random stage is a cell of it, when it exists.
LEMMA RandomCellsFacts ==
  /\ RandomLen = 0 => RandomCells = {0}
  /\ RandomLen # 0 => RandomCells = 0 .. RandomLen - 1
BY DEF RandomCells

\* The quarantine stages after p went in and r came out (NULL for none), as
\* deallocate_small moves pointers through them.
LEMMA StagesKeepCells ==
  ASSUME Typed, CellInv, NEW p \in Ptr, p \notin Quarantined, NEW r \in Ptr \cup {NULL},
         NEW i \in RandomCells, PutRandom(p, i), SlabQuarantine,
         Quarantined' = (Quarantined \cup {p}) \ {r},
         \/ /\ RandomOut(p, i) = NULL /\ r = NULL
            /\ UNCHANGED <<quarantine_queue, quarantine_queue_index>>
         \/ /\ RandomOut(p, i) # NULL /\ QueueOut(RandomOut(p, i)) = r
            /\ PutQueue(RandomOut(p, i))
  PROVE  /\ CellInv'
         /\ quarantine_random' \in [0 .. RandomLen - 1 -> Ptr \cup {NULL}]
         /\ quarantine_queue' \in [0 .. QueueLen - 1 -> Ptr \cup {NULL}]
         /\ quarantine_queue_index' \in (IF QueueLen = 0 THEN {0} ELSE 0 .. QueueLen - 1)
         /\ r # NULL => r \in Quarantined /\ r # p
<1> DEFINE q == RandomOut(p, i)
           k == quarantine_queue_index
<1>0. NULL \notin Ptr /\ RandomLen \in Nat /\ QueueLen \in Nat
  BY SlabClassAssumption
<1> USE <1>0
<1>1. Quarantined \subseteq Ptr
  BY DEF Quarantined
<1>2. CASE RandomLen # 0 /\ q = NULL
  <2>1. /\ i \in 0 .. RandomLen - 1 /\ quarantine_random[i] = NULL /\ r = NULL
        /\ quarantine_random' = [quarantine_random EXCEPT ![i] = p]
        /\ quarantine_queue' = quarantine_queue
        /\ quarantine_queue_index' = quarantine_queue_index
    BY <1>2, RandomCellsFacts DEF RandomOut, PutRandom
  <2>2. CellInv'
    BY <2>1, <1>1 DEF CellInv, Typed, TypedCells
  <2> QED BY <2>1, <2>2 DEF Typed, TypedCells
<1>3. CASE RandomLen # 0 /\ q # NULL /\ QueueLen = 0
  <2>1. /\ i \in 0 .. RandomLen - 1 /\ quarantine_random[i] = q /\ r = q
        /\ quarantine_random' = [quarantine_random EXCEPT ![i] = p]
        /\ quarantine_queue' = quarantine_queue
        /\ quarantine_queue_index' = quarantine_queue_index
    BY <1>3, RandomCellsFacts DEF RandomOut, PutRandom, PutQueue, QueueOut
  <2>2. q \in Quarantined /\ q # p
    BY <2>1, <1>3 DEF CellInv
  <2>3. CellInv'
    BY <2>1, <2>2, <1>1, <1>3 DEF CellInv, Typed, TypedCells
  <2> QED BY <2>1, <2>2, <2>3 DEF Typed, TypedCells
<1>4. CASE QueueLen # 0 /\ q # NULL
  <2>1. /\ k \in 0 .. QueueLen - 1 /\ quarantine_queue[k] = r
        /\ quarantine_queue' = [quarantine_queue EXCEPT ![k] = q]
        /\ quarantine_queue_index' \in 0 .. QueueLen - 1
    BY <1>4 DEF PutQueue, QueueOut, Typed, TypedCells
  <2>2. r # NULL => r \in Quarantined /\ r # p
    BY <2>1 DEF CellInv
  <2>3. CASE RandomLen = 0
    <3>1. q = p /\ quarantine_random' = quarantine_random
      BY <2>3 DEF RandomOut, PutRandom
    <3>2. CellInv'
      BY <3>1, <2>1, <2>2, <2>3, <1>1 DEF CellInv, Typed, TypedCells
    <3> QED BY <3>1, <3>2, <2>1, <2>2, <1>4 DEF Typed, TypedCells
  <2>4. CASE RandomLen # 0
    <3>1. /\ i \in 0 .. RandomLen - 1 /\ quarantine_random[i] = q
          /\ quarantine_random' = [quarantine_random EXCEPT ![i] = p]
      BY <2>4, RandomCellsFacts DEF RandomOut, PutRandom
    <3>2. q \in Quarantined /\ q # p /\ q # r
      BY <3>1, <2>1, <1>4 DEF CellInv
    <3>3. CellInv'
      <4> USE <3>1, <3>2, <2>1, <2>2, <1>1 DEF CellInv, Typed, TypedCells
      <4>1. (\A j \in 0 .. RandomLen - 1 :
               quarantine_random[j] # NULL => quarantine_random[j] \in Quarantined)'
        OBVIOUS
      <4>2. (\A j \in 0 .. QueueLen - 1 :
               quarantine_queue[j] # NULL => quarantine_queue[j] \in Quarantined)'
        OBVIOUS
      <4>3. (\A j, l \in 0 .. RandomLen - 1 :
               quarantine_random[j] # NULL /\ quarantine_random[j] = quarantine_random[l]
                 => j = l)'
        OBVIOUS
      <4>4. (\A j, l \in 0 .. QueueLen - 1 :
               quarantine_queue[j] # NULL /\ quarantine_queue[j] = quarantine_queue[l]
                 => j = l)'
        OBVIOUS
      <4>5. (\A j \in 0 .. RandomLen - 1, l \in 0 .. QueueLen - 1 :
               quarantine_random[j] # NULL => quarantine_random[j] # quarantine_queue[l])'
        OBVIOUS
      <4>6. (\A x \in Quarantined :
               \/ \E j \in 0 .. RandomLen - 1 : quarantine_random[j] = x
               \/ \E j \in 0 .. QueueLen - 1 : quarantine_queue[j] = x)'
        OBVIOUS
      <4> QED BY <4>1, <4>2, <4>3, <4>4, <4>5, <4>6
    <3> QED BY <3>1, <3>2, <3>3, <2>1, <2>2, <1>1, <1>4 DEF Typed, TypedCells
  <2> QED BY <2>3, <2>4
<1>5. CASE RandomLen = 0 /\ q = NULL
  BY <1>5 DEF RandomOut
<1>6. CASE RandomLen = 0 /\ QueueLen = 0
  BY <1>6 DEF SlabQuarantine
<1> QED BY <1>2, <1>3, <1>4, <1>5, <1>6

\* The reuse-distance bookkeeping keeps its type.
LEMMA AgeTyped ==
  ASSUME Typed, NEW p, NEW r, AgeOthers(p, r) PROVE age' \in [Ptr -> Nat]
<1>1. age \in [Ptr -> Nat]
  BY DEF Typed, TypedCells
<1> QED BY <1>1 DEF AgeOthers

\* A free whose slot fits into an unused quarantine cell.
LEMMA HeldKeeps ==
  ASSUME Inv1, NEW p \in Ptr, DeallocateHeld(p)
  PROVE  /\ SlotInv' /\ CellInv' /\ TypedSlots' /\ TypedCells'
         /\ SlabQuarantine /\ p \notin Quarantined
         /\ Quarantined' = (Quarantined \cup {p}) \ {NULL}
<1> USE DEF Inv1, Typed, TypedSlots
<1>1. /\ p[2] \in bitmap[p[1]] /\ p[2] \notin quarantine_bitmap[p[1]]
      /\ p \in live /\ p \notin Quarantined
      /\ p[1] \in Slabs /\ p[2] \in SlotIdx /\ p = <<p[1], p[2]>> /\ p # NULL
  BY CheckedIsLive, PtrPair, SlabClassAssumption
     DEF DeallocateHeld, AcceptFree, Quarantined
<1>2. PICK i \in RandomCells :
        /\ PutRandom(p, i)
        /\ \/ /\ RandomOut(p, i) = NULL
              /\ UNCHANGED <<quarantine_queue, quarantine_queue_index>>
           \/ /\ RandomOut(p, i) # NULL /\ QueueOut(RandomOut(p, i)) = NULL
              /\ PutQueue(RandomOut(p, i))
  BY DEF DeallocateHeld
<1>3. SlabQuarantine
  BY <1>1, <1>2, SlabClassAssumption DEF RandomOut, QueueOut, SlabQuarantine
<1>4. /\ quarantine_bitmap' = [quarantine_bitmap EXCEPT ![p[1]] = @ \cup {p[2]}]
      /\ bitmap' = bitmap /\ count' = count /\ live' = live \ {p}
      /\ allocated' = allocated - SlotSize
  BY <1>3 DEF DeallocateHeld, AcceptFree, SetQuarantined, stats_small_deallocate
<1>5. Quarantined' = (Quarantined \cup {p}) \ {NULL}
  <2>1. \A x \in Ptr : x[2] \in quarantine_bitmap'[x[1]]
                         <=> x[2] \in quarantine_bitmap[x[1]] \/ x = p
    BY <1>1, <1>4, PtrPair
  <2>2. NULL \notin Ptr
    BY SlabClassAssumption
  <2> QED BY <2>1, <2>2 DEF Quarantined
<1>6. /\ CellInv'
      /\ quarantine_random' \in [0 .. RandomLen - 1 -> Ptr \cup {NULL}]
      /\ quarantine_queue' \in [0 .. QueueLen - 1 -> Ptr \cup {NULL}]
      /\ quarantine_queue_index' \in (IF QueueLen = 0 THEN {0} ELSE 0 .. QueueLen - 1)
  BY <1>1, <1>2, <1>3, <1>5, StagesKeepCells
<1>7. SlotInv'
  <2>1. \A m \in Slabs : count'[m] = Cardinality(bitmap'[m])
    BY <1>4 DEF SlotInv
  <2>2. \A m \in Slabs : quarantine_bitmap'[m] \subseteq bitmap'[m]
    BY <1>1, <1>4 DEF SlotInv
  <2>3. \A m \in Slabs, s \in SlotIdx :
          <<m, s>> \in live' <=> s \in bitmap'[m] /\ s \notin quarantine_bitmap'[m]
    <3> TAKE m \in Slabs, s \in SlotIdx
    <3>1. <<m, s>> = p <=> m = p[1] /\ s = p[2]
      BY <1>1
    <3> QED BY <3>1, <1>1, <1>4 DEF SlotInv
  <2> QED BY <2>1, <2>2, <2>3 DEF SlotInv
<1>8. TypedSlots'
  BY <1>1, <1>4, SlabClassAssumption
<1>9. age' \in [Ptr -> Nat]
  BY AgeTyped DEF DeallocateHeld
<1> QED BY <1>1, <1>3, <1>5, <1>6, <1>7, <1>8, <1>9 DEF TypedCells

\* A free that makes the slot r reusable: r is p itself without quarantine,
\* and otherwise a slot that was quarantined.
LEMMA DisplaceKeeps ==
  ASSUME Inv1, NEW p \in Ptr, NEW r \in Ptr, Displace(p, r)
  PROVE  /\ SlotInv' /\ CellInv' /\ TypedSlots' /\ TypedCells'
         /\ r[1] \in Slabs /\ r[2] \in bitmap[r[1]]
         /\ p \in live /\ live' = live \ {p}
         /\ r = p \/ r \in Quarantined
         /\ Quarantined' = (Quarantined \cup {p}) \ {r}
         /\ count[r[1]] \in 1 .. Slots
<1> USE DEF Inv1, Typed, TypedSlots
<1>1. /\ p[2] \in bitmap[p[1]] /\ p[2] \notin quarantine_bitmap[p[1]]
      /\ p \in live /\ p \notin Quarantined
      /\ p[1] \in Slabs /\ p[2] \in SlotIdx /\ p = <<p[1], p[2]>> /\ p # NULL
  BY CheckedIsLive, PtrPair, SlabClassAssumption DEF Displace, AcceptFree, Quarantined
<1>2. r[1] \in Slabs /\ r[2] \in SlotIdx /\ r = <<r[1], r[2]>> /\ r # NULL
  BY PtrPair, SlabClassAssumption
<1>3. PICK i \in RandomCells :
        /\ PutRandom(p, i)
        /\ RandomOut(p, i) # NULL /\ QueueOut(RandomOut(p, i)) = r
        /\ PutQueue(RandomOut(p, i))
  BY DEF Displace
<1>4. /\ bitmap' = [bitmap EXCEPT ![r[1]] = @ \ {r[2]}]
      /\ count' = [count EXCEPT ![r[1]] = @ - 1]
      /\ live' = live \ {p} /\ allocated' = allocated - SlotSize
  BY DEF Displace, AcceptFree, stats_small_deallocate
<1>5. Quarantined' = (Quarantined \cup {p}) \ {r} /\ (r = p \/ r \in Quarantined)
      /\ CellInv'
      /\ quarantine_random' \in [0 .. RandomLen - 1 -> Ptr \cup {NULL}]
      /\ quarantine_queue' \in [0 .. QueueLen - 1 -> Ptr \cup {NULL}]
      /\ quarantine_queue_index' \in (IF QueueLen = 0 THEN {0} ELSE 0 .. QueueLen - 1)
      /\ quarantine_bitmap' \in [Slabs -> SUBSET SlotIdx]
      /\ \A x \in Ptr : x[2] \in quarantine_bitmap'[x[1]] <=> x \in Quarantined'
  <2>1. CASE SlabQuarantine
    <3>1. quarantine_bitmap' =
            [[quarantine_bitmap EXCEPT ![p[1]] = @ \cup {p[2]}]
               EXCEPT ![r[1]] = @ \ {r[2]}]
      BY <2>1 DEF Displace, SetQuarantined
    <3>2. quarantine_bitmap' \in [Slabs -> SUBSET SlotIdx]
      BY <3>1, <1>1, <1>2
    <3>3. \A x \in Ptr : x[2] \in quarantine_bitmap'[x[1]]
             <=> (x[2] \in quarantine_bitmap[x[1]] \/ x = p) /\ x # r
      BY <3>1, <1>1, <1>2, PtrPair
    <3>4. Quarantined' = (Quarantined \cup {p}) \ {r}
      BY <3>3 DEF Quarantined
    <3>5. r \in Quarantined
      BY <3>4, <2>1, <1>1, <1>2, <1>3, StagesKeepCells
    <3>6. /\ CellInv'
          /\ quarantine_random' \in [0 .. RandomLen - 1 -> Ptr \cup {NULL}]
          /\ quarantine_queue' \in [0 .. QueueLen - 1 -> Ptr \cup {NULL}]
          /\ quarantine_queue_index' \in (IF QueueLen = 0 THEN {0} ELSE 0 .. QueueLen - 1)
      BY <3>4, <2>1, <1>1, <1>2, <1>3, StagesKeepCells
    <3>7. \A x \in Ptr : x[2] \in quarantine_bitmap'[x[1]] <=> x \in Quarantined'
      BY DEF Quarantined
    <3> QED BY <3>2, <3>4, <3>5, <3>6, <3>7
  <2>2. CASE ~SlabQuarantine
    <3>1. RandomLen = 0 /\ QueueLen = 0
      BY <2>2, SlabClassAssumption DEF SlabQuarantine
    <3>2. /\ r = p /\ quarantine_bitmap' = quarantine_bitmap
          /\ quarantine_random' = quarantine_random
          /\ quarantine_queue' = quarantine_queue
          /\ quarantine_queue_index' = quarantine_queue_index
      BY <3>1, <2>2, <1>3 DEF RandomOut, QueueOut, PutRandom, PutQueue, Displace
    <3>3. Quarantined' = Quarantined
      BY <3>2 DEF Quarantined
    <3>4. CellInv'
      BY <3>2, <3>3 DEF CellInv
    <3>5. \A x \in Ptr : x[2] \in quarantine_bitmap'[x[1]] <=> x \in Quarantined'
      BY DEF Quarantined
    <3> QED BY <3>2, <3>3, <3>4, <3>5, <1>1 DEF TypedCells
  <2> QED BY <2>1, <2>2
<1>6. r[2] \in bitmap[r[1]]
  BY <1>1, <1>2, <1>5 DEF SlotInv, Quarantined
<1>7. /\ Cardinality(bitmap[r[1]] \ {r[2]}) = Cardinality(bitmap[r[1]]) - 1
      /\ Cardinality(bitmap[r[1]]) \in Nat /\ Cardinality(bitmap[r[1]]) >= 1
      /\ Cardinality(bitmap[r[1]]) <= Slots
  BY <1>2, <1>6, CardDrop
<1>8. count[r[1]] = Cardinality(bitmap[r[1]]) /\ count[r[1]] \in 1 .. Slots
  BY <1>2, <1>7 DEF SlotInv
<1>9. TypedSlots'
  <2>1. bitmap' \in [Slabs -> SUBSET SlotIdx]
    BY <1>2, <1>4
  <2>2. count' \in [Slabs -> 0 .. Slots]
    BY <1>2, <1>4, <1>8, SlabClassAssumption
  <2>3. live' \in SUBSET Ptr /\ allocated' \in Int
    BY <1>4, SlabClassAssumption
  <2>4. quarantine_bitmap' \in [Slabs -> SUBSET SlotIdx]
    BY <1>5
  <2> QED BY <2>1, <2>2, <2>3, <2>4
<1>10. SlotInv'
  <2>1. \A m \in Slabs : count'[m] = Cardinality(bitmap'[m])
    <3> TAKE m \in Slabs
    <3>1. CASE m = r[1]
      BY <3>1, <1>2, <1>4, <1>7, <1>8
    <3>2. CASE m # r[1]
      BY <3>2, <1>4 DEF SlotInv
    <3> QED BY <3>1, <3>2
  <2>2. \A m \in Slabs, s \in SlotIdx :
          s \in quarantine_bitmap'[m] <=> (s \in quarantine_bitmap[m] \/ <<m, s>> = p) /\ <<m, s>> # r
    <3> TAKE m \in Slabs, s \in SlotIdx
    <3>1. <<m, s>> \in Ptr /\ <<m, s>>[1] = m /\ <<m, s>>[2] = s
      BY PtrPair
    <3> QED BY <3>1, <1>5 DEF Quarantined
  <2>3. \A m \in Slabs, s \in SlotIdx :
          s \in bitmap'[m] <=> s \in bitmap[m] /\ <<m, s>> # r
    BY <1>2, <1>4
  <2>4. \A m \in Slabs : quarantine_bitmap'[m] \subseteq bitmap'[m]
    BY <2>2, <2>3, <1>1, <1>9 DEF SlotInv
  <2>5. \A m \in Slabs, s \in SlotIdx :
          <<m, s>> \in live' <=> s \in bitmap'[m] /\ s \notin quarantine_bitmap'[m]
    <3> TAKE m \in Slabs, s \in SlotIdx
    <3>1. <<m, s>> = p => m = p[1] /\ s = p[2]
      BY <1>1
    <3>2. <<m, s>> = r => m = r[1] /\ s = r[2]
      BY <1>2
    <3>3. r # p => r[2] \in quarantine_bitmap[r[1]]
      BY <1>5 DEF Quarantined
    <3> QED BY <3>1, <3>2, <3>3, <2>2, <2>3, <1>1, <1>4 DEF SlotInv
  <2> QED BY <2>1, <2>4, <2>5 DEF SlotInv
<1>11. age' \in [Ptr -> Nat]
  BY AgeTyped DEF Displace
<1> QED BY <1>1, <1>2, <1>4, <1>5, <1>6, <1>8, <1>9, <1>10, <1>11 DEF TypedCells

\* The pages of a slab that are replaced or purged keep the memory typed.
LEMMA ClearedMemoryTyped ==
  ASSUME Typed, NEW m, NEW d \in SUBSET Ptr, MapFixed(m, d) \/ Purge(m, d)
  PROVE  /\ accessible' \in SUBSET Slabs /\ dirty' \in SUBSET Ptr
         /\ tail' \in [Ptr -> CanaryValues \cup {0, Smashed}]
<1>1. /\ accessible \in SUBSET Slabs
      /\ tail \in [Ptr -> CanaryValues \cup {0, Smashed}]
  BY DEF Typed, TypedMemory
<1>2. CASE MapFixed(m, d)
  BY <1>1, <1>2 DEF MapFixed
<1>3. CASE Purge(m, d)
  BY <1>1, <1>3 DEF Purge
<1> QED BY <1>2, <1>3

\* The lists keep their types when a slab is enqueued as free.
LEMMA EnqueueTyped ==
  ASSUME Typed, NEW m \in Slabs, NEW nx \in [Slabs -> Slabs \cup {NULL}],
         EnqueueFreeSlab(m, nx)
  PROVE  /\ next' \in [Slabs -> Slabs \cup {NULL}]
         /\ free_slabs_head' \in Slabs \cup {NULL}
         /\ free_slabs_tail' \in Slabs \cup {NULL}
         /\ free_slabs_quarantine' \in [0 .. FreeQuarLen - 1 -> Slabs \cup {NULL}]
         /\ place' \in [Slabs -> {"unused", "inuse", "empty", "free", "quarantine"}]
<1> USE DEF Typed, TypedLists
<1>1. PICK i \in (IF FreeQuarLen = 0 THEN {0} ELSE 0 .. FreeQuarLen - 1) :
        LET cleared == [nx EXCEPT ![m] = NULL]
            substitute == IF FreeQuarLen = 0 THEN m ELSE free_slabs_quarantine[i]
        IN
        /\ free_slabs_quarantine' =
             IF FreeQuarLen = 0 THEN free_slabs_quarantine
             ELSE [free_slabs_quarantine EXCEPT ![i] = m]
        /\ IF substitute = NULL
           THEN /\ next' = cleared
                /\ place' = [place EXCEPT ![m] = "quarantine"]
                /\ UNCHANGED <<free_slabs_head, free_slabs_tail>>
           ELSE /\ next' = IF free_slabs_tail = NULL THEN cleared
                           ELSE [cleared EXCEPT ![free_slabs_tail] = substitute]
                /\ free_slabs_head' = IF free_slabs_tail = NULL THEN substitute
                                      ELSE free_slabs_head
                /\ free_slabs_tail' = substitute
                /\ place' = [[place EXCEPT ![m] = "quarantine"]
                               EXCEPT ![substitute] = "free"]
  BY DEF EnqueueFreeSlab
<1> DEFINE substitute == IF FreeQuarLen = 0 THEN m ELSE free_slabs_quarantine[i]
<1>2. substitute \in Slabs \cup {NULL}
  OBVIOUS
<1>3. free_slabs_quarantine' \in [0 .. FreeQuarLen - 1 -> Slabs \cup {NULL}]
  BY <1>1
<1>4. CASE substitute = NULL
  BY <1>1, <1>3, <1>4
<1>5. CASE substitute # NULL
  <2>1. substitute \in Slabs
    BY <1>2, <1>5
  <2>2. next' \in [Slabs -> Slabs \cup {NULL}]
    BY <1>1, <1>5, <2>1
  <2>3. place' \in [Slabs -> {"unused", "inuse", "empty", "free", "quarantine"}]
    BY <1>1, <1>5, <2>1
  <2> QED BY <1>1, <1>3, <1>5, <2>1, <2>2, <2>3
<1> QED BY <1>4, <1>5

\* The links after pushing and unlinking a slab are slabs or NULL.
LEMMA LinksTyped ==
  ASSUME Typed, NEW m \in Slabs
  PROVE  /\ PushedNext(m) \in [Slabs -> Slabs \cup {NULL}]
         /\ PushedPrev(m) \in [Slabs -> Slabs \cup {NULL}]
         /\ PushedHead(m) \in Slabs \cup {NULL}
         /\ UnlinkedNext(m) \in [Slabs -> Slabs \cup {NULL}]
         /\ UnlinkedPrev(m) \in [Slabs -> Slabs \cup {NULL}]
         /\ UnlinkedHead(m) \in Slabs \cup {NULL}
<1> USE DEF Typed, TypedLists
<1>1. PushedNext(m) \in [Slabs -> Slabs \cup {NULL}]
  BY DEF PushedNext
<1>2. PushedPrev(m) \in [Slabs -> Slabs \cup {NULL}]
  BY DEF PushedPrev
<1>3. PushedHead(m) \in Slabs \cup {NULL}
  BY DEF PushedHead
<1>4. UnlinkedNext(m) \in [Slabs -> Slabs \cup {NULL}]
  BY <1>1, <1>2 DEF UnlinkedNext
<1>5. UnlinkedPrev(m) \in [Slabs -> Slabs \cup {NULL}]
  BY <1>1, <1>2 DEF UnlinkedPrev
<1>6. UnlinkedHead(m) \in Slabs \cup {NULL}
  BY <1>1, <1>2, <1>3 DEF UnlinkedHead
<1> QED BY <1>1, <1>2, <1>3, <1>4, <1>5, <1>6

\* alloc_metadata returns a slab of the class region, and the counters stay
\* within their bounds.
LEMMA NewSlabCounts ==
  ASSUME Typed, metadata_count < metadata_allocated \/ metadata_count < MetadataMax
  PROVE  /\ metadata_count \in Slabs
         /\ GrownMetadata \in 0 .. MetadataMax
         /\ metadata_count + 1 \in 0 .. MetadataMax + 1
         /\ metadata_count + 2 \in 0 .. MetadataMax + 1
         /\ ~GuardDue => metadata_count_unguarded + 1 \in 0 .. GuardInterval - 1
BY SlabClassAssumption DEF Typed, TypedCounts, Slabs, GrownMetadata, GuardDue

\* Aborting changes nothing but abort.
LEMMA Fatal1 ==
  ASSUME Inv1, NEW why, NEW p, Fatal(why, p) PROVE Inv1'
BY SlotsUnchanged
   DEF Fatal, Inv1, Typed, countVars, slotVars, listVars, emptyListVars, freeListVars,
       quarantineVars, trimVars, statVars, memoryVars, TypedCounts, TypedSlots, TypedLists,
       TypedCells, TypedMemory

\* Allocation from the empty list keeps the first layer of the invariant.
LEMMA AllocateFromEmpty1 == ASSUME Inv1, AllocateFromEmpty PROVE Inv1'
<1> USE DEF Inv1, Typed
<1>1. empty_slabs \in Slabs
  BY DEF AllocateFromEmpty, TypedLists
<1>2. PICK s \in get_free_slot(empty_slabs) : TakeEmptySlab(empty_slabs, s)
  BY DEF AllocateFromEmpty
<1>3. canary_value[empty_slabs] \in CanaryValues \cup {0}
  BY <1>1 DEF TypedMemory
<1>4. /\ SlotInv' /\ CellInv' /\ TypedSlots'
      /\ tail' \in [Ptr -> CanaryValues \cup {0, Smashed}]
  BY <1>1, <1>2, <1>3, TakeSlotKeeps DEF TakeEmptySlab
<1>5. TypedLists'
  BY <1>1, <1>2, SlabClassAssumption
     DEF TypedLists, TakeEmptySlab, StartSlab, freeListVars, trimVars
<1>6. TypedCounts' /\ TypedCells' /\ TypedMemory'
  BY <1>2, <1>4
     DEF TypedCounts, TypedCells, TypedMemory, TakeEmptySlab, countVars, quarantineVars
<1> QED BY <1>4, <1>5, <1>6

\* Allocation from the free list keeps the first layer of the invariant.
LEMMA AllocateFromFree1 == ASSUME Inv1, AllocateFromFree PROVE Inv1'
<1> USE DEF Inv1, Typed
<1>1. free_slabs_head \in Slabs
  BY DEF AllocateFromFree, NeedsFreeSlab, TypedLists
<1>2. PICK cv \in CanaryValues, s \in get_free_slot(free_slabs_head) :
        TakeFreeSlab(free_slabs_head, s, cv)
  BY DEF AllocateFromFree
<1>3. /\ SlotInv' /\ CellInv' /\ TypedSlots'
      /\ tail' \in [Ptr -> CanaryValues \cup {0, Smashed}]
  BY <1>1, <1>2, TakeSlotKeeps DEF TakeFreeSlab
<1>4. TypedLists'
  BY <1>1, <1>2, SlabClassAssumption
     DEF TypedLists, TakeFreeSlab, StartSlab, stats_slab_allocate, emptyListVars, trimVars
<1>5. TypedCounts' /\ TypedCells'
  BY <1>2 DEF TypedCounts, TypedCells, TakeFreeSlab, countVars, quarantineVars
<1>6. TypedMemory'
  BY <1>1, <1>2, <1>3 DEF TypedMemory, TakeFreeSlab, Unprotect
<1> QED BY <1>3, <1>4, <1>5, <1>6

\* Allocation of a new slab keeps the first layer of the invariant.
LEMMA AllocateFromNew1 == ASSUME Inv1, AllocateFromNew PROVE Inv1'
<1> USE DEF Inv1, Typed
<1>1. /\ metadata_count \in Slabs /\ GrownMetadata \in 0 .. MetadataMax
      /\ metadata_count + 1 \in 0 .. MetadataMax + 1
      /\ metadata_count + 2 \in 0 .. MetadataMax + 1
      /\ ~GuardDue => metadata_count_unguarded + 1 \in 0 .. GuardInterval - 1
  BY NewSlabCounts DEF AllocateFromNew, NeedsNewSlab
<1>2. PICK cv \in CanaryValues, s \in get_free_slot(metadata_count) :
        TakeNewSlab(metadata_count, s, cv)
  BY DEF AllocateFromNew
<1>3. /\ SlotInv' /\ CellInv' /\ TypedSlots'
      /\ tail' \in [Ptr -> CanaryValues \cup {0, Smashed}]
  BY <1>1, <1>2, TakeSlotKeeps DEF TakeNewSlab
<1>4. TypedLists'
  BY SMTT(30), <1>1, <1>2, SlabClassAssumption
     DEF TypedLists, TakeNewSlab, StartSlab, stats_slab_allocate, emptyListVars,
         freeListVars, trimVars
<1>5. TypedCounts'
  BY <1>1, <1>2, SlabClassAssumption DEF TypedCounts, AllocateFromNew, TakeNewSlab
<1>6. TypedCells'
  BY <1>2 DEF TypedCells, TakeNewSlab, quarantineVars
<1>7. TypedMemory'
  BY <1>1, <1>2, <1>3 DEF TypedMemory, TakeNewSlab, Unprotect
<1> QED BY <1>3, <1>4, <1>5, <1>6, <1>7

\* Allocation from the partial list keeps the first layer of the invariant.
LEMMA AllocateFromPartial1 == ASSUME Inv1, AllocateFromPartial PROVE Inv1'
<1> USE DEF Inv1, Typed
<1>1. partial_slabs \in Slabs
  BY DEF AllocateFromPartial, TypedLists
<1>2. PICK s \in get_free_slot(partial_slabs) : TakePartialSlot(partial_slabs, s)
  BY DEF AllocateFromPartial
<1>3. canary_value[partial_slabs] \in CanaryValues \cup {0}
  BY <1>1 DEF TypedMemory
<1>4. /\ SlotInv' /\ CellInv' /\ TypedSlots'
      /\ tail' \in [Ptr -> CanaryValues \cup {0, Smashed}]
  BY <1>1, <1>2, <1>3, TakeSlotKeeps DEF TakePartialSlot
<1>5. TypedLists'
  BY <1>1, <1>2 DEF TypedLists, TakePartialSlot, emptyListVars, freeListVars, trimVars
<1>6. TypedCounts' /\ TypedCells' /\ TypedMemory'
  BY <1>2, <1>4
     DEF TypedCounts, TypedCells, TypedMemory, TakePartialSlot, countVars, quarantineVars
<1> QED BY <1>4, <1>5, <1>6

\* The kernel's refusals keep the first layer of the invariant.
LEMMA ProtectFails1 ==
  ASSUME Inv1, FreeSlabProtectFails \/ NewSlabProtectFails PROVE Inv1'
<1> USE DEF Inv1, Typed
<1>1. SlotInv' /\ CellInv'
  BY SlotsUnchanged DEF FreeSlabProtectFails, NewSlabProtectFails
<1>2. TypedSlots' /\ TypedLists' /\ TypedCells'
  BY DEF FreeSlabProtectFails, NewSlabProtectFails, TypedSlots, TypedLists, TypedCells,
         slotVars, listVars, emptyListVars, freeListVars, quarantineVars, trimVars, statVars
<1>3. TypedCounts' /\ TypedMemory'
  <2>1. CASE FreeSlabProtectFails
    BY <2>1 DEF FreeSlabProtectFails, NeedsFreeSlab, TypedCounts, TypedMemory, TypedLists,
                countVars, memoryVars
  <2>2. CASE NewSlabProtectFails
    <3>1. GrownMetadata \in 0 .. MetadataMax
      BY <2>2, NewSlabCounts DEF NewSlabProtectFails, NeedsNewSlab
    <3> QED BY <2>2, <3>1 DEF NewSlabProtectFails, TypedCounts, TypedMemory, memoryVars
  <2> QED BY <2>1, <2>2
<1> QED BY <1>1, <1>2, <1>3

\* Freeing keeps the first layer of the invariant.
LEMMA Deallocate1 ==
  ASSUME Inv1, NEW p \in Ptr, NEW r \in Ptr,
         \/ DeallocateHeld(p) \/ DeallocateRelease(p, r)
         \/ DeallocateFreesSlab(p, r) \/ DeallocateCachesSlab(p, r)
  PROVE  Inv1'
<1> USE DEF Inv1, Typed
<1>0. ZeroedOnFree(p) \in SUBSET Ptr
  BY DEF ZeroedOnFree, TypedMemory
<1>1. CASE DeallocateHeld(p)
  <2>1. SlotInv' /\ CellInv' /\ TypedSlots' /\ TypedCells'
    BY <1>1, HeldKeeps
  <2>2. TypedCounts' /\ TypedLists' /\ TypedMemory'
    BY <1>0, <1>1 DEF DeallocateHeld, TypedCounts, TypedLists, TypedMemory, countVars,
                      listVars, emptyListVars, freeListVars, trimVars
  <2> QED BY <2>1, <2>2
<1>2. CASE Displace(p, r)
  <2>1. /\ SlotInv' /\ CellInv' /\ TypedSlots' /\ TypedCells' /\ r[1] \in Slabs
    BY <1>2, DisplaceKeeps
  <2>2. TypedCounts' /\ canary_value' = canary_value /\ misused' = misused
        /\ iterator' = iterator /\ trimming' = trimming
    BY <1>2 DEF Displace, TypedCounts, countVars, trimVars
  <2>3. /\ PushedNext(r[1]) \in [Slabs -> Slabs \cup {NULL}]
        /\ PushedPrev(r[1]) \in [Slabs -> Slabs \cup {NULL}]
        /\ PushedHead(r[1]) \in Slabs \cup {NULL}
        /\ UnlinkedNext(r[1]) \in [Slabs -> Slabs \cup {NULL}]
        /\ UnlinkedPrev(r[1]) \in [Slabs -> Slabs \cup {NULL}]
        /\ UnlinkedHead(r[1]) \in Slabs \cup {NULL}
    BY <2>1, LinksTyped
  <2>4. CASE DeallocateRelease(p, r)
    <3>1. TypedLists'
      BY <2>2, <2>3, <2>4 DEF DeallocateRelease, TypedLists, emptyListVars, freeListVars
    <3>2. TypedMemory'
      BY <1>0, <2>2, <2>4 DEF DeallocateRelease, TypedMemory
    <3> QED BY <3>1, <3>2, <2>1, <2>2
  <2>5. CASE DeallocateFreesSlab(p, r)
    <3>1. /\ next' \in [Slabs -> Slabs \cup {NULL}]
          /\ free_slabs_head' \in Slabs \cup {NULL}
          /\ free_slabs_tail' \in Slabs \cup {NULL}
          /\ free_slabs_quarantine' \in [0 .. FreeQuarLen - 1 -> Slabs \cup {NULL}]
          /\ place' \in [Slabs -> {"unused", "inuse", "empty", "free", "quarantine"}]
      BY <2>1, <2>3, <2>5, EnqueueTyped DEF DeallocateFreesSlab
    <3>2. TypedLists'
      BY <3>1, <2>2, <2>3, <2>5, SlabClassAssumption
         DEF DeallocateFreesSlab, EmptySlab, TypedLists, emptyListVars, stats_slab_deallocate
    <3>3. TypedMemory'
      BY <1>0, <2>2, <2>5, ClearedMemoryTyped DEF DeallocateFreesSlab, TypedMemory
    <3> QED BY <3>2, <3>3, <2>1, <2>2
  <2>6. CASE DeallocateCachesSlab(p, r)
    <3>1. TypedLists'
      BY <2>1, <2>2, <2>3, <2>6, SlabClassAssumption
         DEF DeallocateCachesSlab, EmptySlab, TypedLists, freeListVars
    <3>2. TypedMemory'
      BY <1>0, <2>2, <2>6, ClearedMemoryTyped DEF DeallocateCachesSlab, TypedMemory
    <3> QED BY <3>1, <3>2, <2>1, <2>2
  <2> QED BY <1>1, <1>2, <2>4, <2>5, <2>6
<1> QED BY <1>1, <1>2 DEF DeallocateRelease, DeallocateFreesSlab, DeallocateCachesSlab, EmptySlab

\* The trim keeps the first layer of the invariant.
LEMMA Trim1 == ASSUME Inv1, TrimStart \/ TrimSlab \/ TrimEnd PROVE Inv1'
<1> USE DEF Inv1, Typed
<1>1. SlotInv' /\ CellInv'
  BY SlotsUnchanged DEF TrimStart, TrimSlab, TrimEnd
<1>2. TypedCounts' /\ TypedSlots' /\ TypedCells'
  BY DEF TrimStart, TrimSlab, TrimEnd, TypedCounts, TypedSlots, TypedCells, countVars,
         slotVars, quarantineVars, statVars
<1>3. CASE TrimStart
  BY <1>1, <1>2, <1>3 DEF TrimStart, TypedLists, TypedMemory, listVars, emptyListVars,
                          freeListVars, statVars, memoryVars
<1>4. CASE TrimSlab
  <2>1. iterator \in Slabs /\ next \in [Slabs -> Slabs \cup {NULL}]
    BY <1>4 DEF TrimSlab, TypedLists
  <2>2. /\ next' \in [Slabs -> Slabs \cup {NULL}]
        /\ free_slabs_head' \in Slabs \cup {NULL}
        /\ free_slabs_tail' \in Slabs \cup {NULL}
        /\ free_slabs_quarantine' \in [0 .. FreeQuarLen - 1 -> Slabs \cup {NULL}]
        /\ place' \in [Slabs -> {"unused", "inuse", "empty", "free", "quarantine"}]
    BY <2>1, <1>4, EnqueueTyped DEF TrimSlab
  <2>3. TypedLists'
    BY <2>1, <2>2, <1>4, SlabClassAssumption DEF TrimSlab, TypedLists, stats_slab_deallocate
  <2>4. dirty \in SUBSET Ptr
    BY DEF TypedMemory
  <2>5. TypedMemory'
    BY <2>4, <1>4, ClearedMemoryTyped DEF TrimSlab, TypedMemory
  <2> QED BY <2>3, <2>5, <1>1, <1>2
<1>5. CASE TrimEnd
  <2>1. TypedLists'
    BY <1>5 DEF TrimEnd, TypedLists, freeListVars, statVars
  <2>2. TypedMemory'
    BY <1>5 DEF TrimEnd, TypedMemory
  <2> QED BY <2>1, <2>2, <1>1, <1>2
<1> QED BY <1>3, <1>4, <1>5

\* The program's own writes keep the first layer of the invariant.
LEMMA Program1 ==
  ASSUME Inv1, NEW p \in Ptr, Write(p) \/ StrayWrite(p) \/ Overflow(p) PROVE Inv1'
<1> USE DEF Inv1, Typed
<1>1. SlotInv' /\ CellInv'
  BY SlotsUnchanged DEF Write, StrayWrite, Overflow
<1>2. TypedCounts' /\ TypedSlots' /\ TypedLists' /\ TypedCells'
  BY DEF Write, StrayWrite, Overflow, TypedCounts, TypedSlots, TypedLists, TypedCells,
         countVars, slotVars, listVars, emptyListVars, freeListVars, quarantineVars,
         trimVars, statVars
<1>3. TypedMemory'
  BY DEF Write, StrayWrite, Overflow, TypedMemory
<1> QED BY <1>1, <1>2, <1>3

\* Every step keeps the first layer of the invariant.
LEMMA Next1 == Inv1 /\ [Next]_vars => Inv1'
<1> SUFFICES ASSUME Inv1, [Next]_vars PROVE Inv1'
  OBVIOUS
<1>1. CASE UNCHANGED vars
  BY <1>1, SlotsUnchanged
     DEF Inv1, Typed, vars, countVars, slotVars, listVars, emptyListVars, freeListVars,
         quarantineVars, trimVars, statVars, memoryVars, TypedCounts, TypedSlots,
         TypedLists, TypedCells, TypedMemory
<1>2. CASE AllocateFromPartial
  BY <1>2, AllocateFromPartial1
<1>3. CASE AllocateFromEmpty
  BY <1>3, AllocateFromEmpty1
<1>4. CASE AllocateFromFree
  BY <1>4, AllocateFromFree1
<1>5. CASE AllocateFromNew
  BY <1>5, AllocateFromNew1
<1>6. CASE FreeSlabProtectFails \/ NewSlabProtectFails
  BY <1>6, ProtectFails1
<1>7. CASE AllocateAborts
  BY <1>7, Fatal1 DEF AllocateAborts
<1>8. ASSUME NEW m, NEW s, NEW aligned, NEW sizeMatches,
             DeallocateAborts(m, s, aligned, sizeMatches)
      PROVE  Inv1'
  BY <1>8, Fatal1 DEF DeallocateAborts
<1>9. ASSUME NEW m, NEW s, NEW aligned, UsableSizeAborts(m, s, aligned)
      PROVE  Inv1'
  BY <1>9, Fatal1 DEF UsableSizeAborts
<1>10. ASSUME NEW p \in Ptr, DeallocateHeld(p) PROVE Inv1'
  BY <1>10, Deallocate1
<1>11. ASSUME NEW p \in Ptr, NEW r \in Ptr,
              \/ DeallocateRelease(p, r) \/ DeallocateFreesSlab(p, r)
              \/ DeallocateCachesSlab(p, r)
       PROVE  Inv1'
  BY <1>11, Deallocate1
<1>12. CASE TrimStart \/ TrimSlab \/ TrimEnd
  BY <1>12, Trim1
<1>13. ASSUME NEW p \in Ptr, Write(p) \/ StrayWrite(p) \/ Overflow(p) PROVE Inv1'
  BY <1>13, Program1
<1> QED
  BY <1>1, <1>2, <1>3, <1>4, <1>5, <1>6, <1>7, <1>8, <1>9, <1>10, <1>11, <1>12, <1>13
     DEF Next

\* The first layer of the invariant holds throughout.
THEOREM Layer1 == Spec => []Inv1
<1>1. Init => Inv1
  BY Init1
<1>2. Inv1 /\ [Next]_vars => Inv1'
  BY Next1
<1> QED BY <1>1, <1>2, PTL DEF Spec

-----------------------------------------------------------------------------
(* What the first layer gives *)

\* A finite set of cells that holds p in at most one cell.
LEMMA HoldsCard ==
  ASSUME NEW S, \A i, j \in S : i = j
  PROVE  Cardinality(S) = IF S = {} THEN 0 ELSE 1
<1>1. CASE S = {}
  BY <1>1, FS_EmptySet
<1>2. CASE S # {}
  <2>1. PICK i \in S : S = {i}
    BY <1>2
  <2> QED BY <1>2, <2>1, FS_Singleton
<1> QED BY <1>1, <1>2

\* The bitmap, the ownership and the cells of the quarantine agree
\* (allocate_small, deallocate_small).
THEOREM SlotAccountingHolds == Spec => []SlotAccounting
<1>1. Inv1 => SlotAccounting
  <2> SUFFICES ASSUME Inv1 PROVE SlotAccounting
    OBVIOUS
  <2> USE DEF Inv1, Typed, TypedSlots
  <2>0. NULL \notin Ptr
    BY SlabClassAssumption
  <2>1. \A p \in Ptr : p \in live <=> p[2] \in bitmap[p[1]] /\ p[2] \notin quarantine_bitmap[p[1]]
    BY PtrPair DEF SlotInv
  <2>2. live \cap Quarantined = {}
    BY <2>1 DEF Quarantined
  <2>3. \A p \in Ptr : p[2] \in bitmap[p[1]] <=> p \in live \cup Quarantined
    BY <2>1, PtrPair DEF Quarantined, SlotInv
  <2>4. ASSUME NEW p \in Ptr
        PROVE  Cardinality(RandomHolds(p)) + Cardinality(QueueHolds(p))
                 = IF p \in Quarantined THEN 1 ELSE 0
    <3>1. \A i, j \in RandomHolds(p) : i = j
      BY <2>0 DEF RandomHolds, CellInv
    <3>2. \A i, j \in QueueHolds(p) : i = j
      BY <2>0 DEF QueueHolds, CellInv
    <3>3. Cardinality(RandomHolds(p)) = IF RandomHolds(p) = {} THEN 0 ELSE 1
      BY <3>1, HoldsCard
    <3>4. Cardinality(QueueHolds(p)) = IF QueueHolds(p) = {} THEN 0 ELSE 1
      BY <3>2, HoldsCard
    <3>5. ~(RandomHolds(p) # {} /\ QueueHolds(p) # {})
      BY <2>0 DEF RandomHolds, QueueHolds, CellInv
    <3>6. p \in Quarantined <=> RandomHolds(p) # {} \/ QueueHolds(p) # {}
      BY <2>0 DEF RandomHolds, QueueHolds, CellInv
    <3> QED BY <3>3, <3>4, <3>5, <3>6
  <2>5. \A m \in Slabs : count[m] = Cardinality(bitmap[m])
    BY DEF SlotInv
  <2> QED BY <2>2, <2>3, <2>4, <2>5 DEF SlotAccounting
<1> QED BY <1>1, Layer1, PTL

\* A successful malloc hands out a slot that was neither owned nor withheld.
LEMMA TakeSlotIsMalloc ==
  ASSUME Inv1, NEW m \in Slabs, NEW s \in get_free_slot(m), NEW cv, TakeSlot(m, s, cv),
         Running, UNCHANGED <<quarantine_bitmap, abort>>
  PROVE  \E p \in Ptr : Pool!Malloc(p)
<1>1. s \in SlotIdx /\ s \notin bitmap[m] /\ <<m, s>> \in Ptr
  BY PtrPair DEF get_free_slot
<1>2. <<m, s>> \notin live /\ <<m, s>> \notin Quarantined
  BY <1>1 DEF Inv1, SlotInv, Quarantined
<1>3. live' = live \cup {<<m, s>>} /\ Quarantined' = Quarantined /\ Running'
  BY DEF TakeSlot, Quarantined, Running
<1>4. Pool!Malloc(<<m, s>>)
  BY <1>2, <1>3 DEF Pool!Malloc
<1> QED BY <1>1, <1>4

\* A step that leaves ownership, quarantine and abort alone is a stutter of
\* the pool.
LEMMA PoolStutter ==
  ASSUME UNCHANGED <<quarantine_bitmap, live, abort>> PROVE UNCHANGED Pool!poolVars
BY DEF Pool!poolVars, Quarantined, Running

\* Aborting is a step of the pool.
LEMMA FatalIsAbort ==
  ASSUME Running, NEW why, why # "none", NEW p, Fatal(why, p) PROVE Pool!Abort
<1>1. quarantine_bitmap' = quarantine_bitmap /\ live' = live
  BY DEF Fatal, slotVars
<1>2. Quarantined' = Quarantined
  BY <1>1 DEF Quarantined
<1>3. abort'.why = why /\ NoAbort.why = "none"
  BY DEF Fatal, NoAbort
<1>4. ~Running'
  BY <1>3 DEF Running
<1> QED BY <1>1, <1>2, <1>4 DEF Pool!Abort

\* Every free is a free of the pool.
LEMMA DeallocateIsFree ==
  ASSUME Inv1, NEW p \in Ptr, NEW r \in Ptr, DeallocateHeld(p) \/ Displace(p, r)
  PROVE  Pool!Free(p)
<1>1. Running /\ Running'
  BY DEF DeallocateHeld, Displace, AcceptFree, Available, Running
<1>2. CASE DeallocateHeld(p)
  <2>1. p \in live /\ live' = live \ {p} /\ p \in Quarantined'
        /\ \A x \in Ptr : x # p => (x \in Quarantined' <=> x \in Quarantined)
    <3>1. p \in live /\ live' = live \ {p}
      BY <1>2, CheckedIsLive DEF DeallocateHeld, AcceptFree
    <3>2. SlabQuarantine
      <4>1. p # NULL
        BY SlabClassAssumption
      <4> QED BY <4>1, <1>2, SlabClassAssumption
              DEF DeallocateHeld, RandomOut, QueueOut, SlabQuarantine
    <3>3. quarantine_bitmap' = [quarantine_bitmap EXCEPT ![p[1]] = @ \cup {p[2]}]
      BY <1>2, <3>2 DEF DeallocateHeld, SetQuarantined
    <3>4. \A x \in Ptr : x[2] \in quarantine_bitmap'[x[1]]
                           <=> x[2] \in quarantine_bitmap[x[1]] \/ x = p
      BY <3>3, PtrPair DEF Inv1, Typed, TypedSlots
    <3> QED BY <3>1, <3>4 DEF Quarantined
  <2>2. Quarantined' = Quarantined \cup {p}
    BY <2>1 DEF Quarantined
  <2> QED BY <2>1, <2>2, <1>1 DEF Pool!Free
<1>3. CASE Displace(p, r)
  <2>1. /\ p \in live /\ live' = live \ {p}
        /\ r = p \/ r \in Quarantined
        /\ Quarantined' = (Quarantined \cup {p}) \ {r}
    BY <1>3, DisplaceKeeps
  <2> QED BY <2>1, <1>1 DEF Pool!Free
<1> QED BY <1>2, <1>3

\* What a program sees of a size class is a run of the abstract pool: no slot
\* that is owned or withheld is ever handed out, only owned slots can be
\* freed, and a free makes at most one slot reusable.
THEOREM PoolRefinement == Spec => ImplementsPool
<1>1. Init => Pool!PoolInit
  <2> SUFFICES ASSUME Init PROVE Pool!PoolInit
    OBVIOUS
  <2>1. Quarantined = {}
    BY PtrPair DEF Init, Quarantined
  <2> QED BY <2>1 DEF Init, Pool!PoolInit, Running
<1>2. Inv1 /\ [Next]_vars => [Pool!PoolNext]_(Pool!poolVars)
  <2> SUFFICES ASSUME Inv1, [Next]_vars PROVE Pool!PoolNext \/ UNCHANGED Pool!poolVars
    OBVIOUS
  <2> USE DEF Inv1, Typed
  <2>1. CASE UNCHANGED vars
    BY <2>1, PoolStutter DEF vars, slotVars
  <2>2. CASE AllocateFromPartial
    <3>1. partial_slabs \in Slabs /\ Running
      BY <2>2 DEF AllocateFromPartial, TypedLists, Available
    <3> QED BY <2>2, <3>1, TakeSlotIsMalloc DEF AllocateFromPartial, TakePartialSlot, Pool!PoolNext
  <2>3. CASE AllocateFromEmpty
    <3>1. empty_slabs \in Slabs /\ Running
      BY <2>3 DEF AllocateFromEmpty, TypedLists, Available
    <3> QED BY <2>3, <3>1, TakeSlotIsMalloc DEF AllocateFromEmpty, TakeEmptySlab, Pool!PoolNext
  <2>4. CASE AllocateFromFree
    <3>1. free_slabs_head \in Slabs /\ Running
      BY <2>4 DEF AllocateFromFree, NeedsFreeSlab, TypedLists, Available
    <3> QED BY <2>4, <3>1, TakeSlotIsMalloc DEF AllocateFromFree, TakeFreeSlab, Pool!PoolNext
  <2>5. CASE AllocateFromNew
    <3>1. metadata_count \in Slabs /\ Running
      BY <2>5, NewSlabCounts DEF AllocateFromNew, NeedsNewSlab, Available
    <3> QED BY <2>5, <3>1, TakeSlotIsMalloc DEF AllocateFromNew, TakeNewSlab, Pool!PoolNext
  <2>6. CASE FreeSlabProtectFails \/ NewSlabProtectFails
    BY <2>6, PoolStutter DEF FreeSlabProtectFails, NewSlabProtectFails, slotVars
  <2>7. CASE AllocateAborts
    <3>1. Pool!Abort
      BY <2>7, FatalIsAbort DEF AllocateAborts, Available
    <3> QED BY <3>1 DEF Pool!PoolNext
  <2>8. ASSUME NEW m, NEW s, NEW aligned, NEW sizeMatches,
               DeallocateAborts(m, s, aligned, sizeMatches)
        PROVE  Pool!PoolNext
    <3>1. CheckFree(m, s, aligned, sizeMatches) # "none"
      BY DEF CheckFree
    <3>2. Pool!Abort
      BY <2>8, <3>1, FatalIsAbort DEF DeallocateAborts, Available
    <3> QED BY <3>2 DEF Pool!PoolNext
  <2>9. ASSUME NEW m, NEW s, NEW aligned, UsableSizeAborts(m, s, aligned)
        PROVE  Pool!PoolNext
    <3>1. Pool!Abort
      BY <2>9, FatalIsAbort DEF UsableSizeAborts, Available
    <3> QED BY <3>1 DEF Pool!PoolNext
  <2>10. ASSUME NEW p \in Ptr, DeallocateHeld(p) PROVE Pool!PoolNext
    <3>1. Pool!Free(p)
      BY <2>10, DeallocateIsFree
    <3> QED BY <3>1 DEF Pool!PoolNext
  <2>11. ASSUME NEW p \in Ptr, NEW r \in Ptr,
                \/ DeallocateRelease(p, r) \/ DeallocateFreesSlab(p, r)
                \/ DeallocateCachesSlab(p, r)
         PROVE  Pool!PoolNext
    <3>1. Displace(p, r)
      BY <2>11 DEF DeallocateRelease, DeallocateFreesSlab, DeallocateCachesSlab, EmptySlab
    <3>2. Pool!Free(p)
      BY <3>1, DeallocateIsFree
    <3> QED BY <3>2 DEF Pool!PoolNext
  <2>12. CASE TrimStart \/ TrimSlab \/ TrimEnd
    BY <2>12, PoolStutter DEF TrimStart, TrimSlab, TrimEnd, slotVars
  <2>13. ASSUME NEW p \in Ptr, Write(p) \/ StrayWrite(p) \/ Overflow(p)
         PROVE  UNCHANGED Pool!poolVars
    BY <2>13, PoolStutter DEF Write, StrayWrite, Overflow, slotVars
  <2> QED
    BY <2>1, <2>2, <2>3, <2>4, <2>5, <2>6, <2>7, <2>8, <2>9, <2>10, <2>11, <2>12, <2>13
       DEF Next
<1> QED BY <1>1, <1>2, Layer1, PTL DEF Spec, ImplementsPool, Pool!PoolSpec

-----------------------------------------------------------------------------
(* The delay of the quarantine *)

\* How often the ring was written since its cell j was.
Pushes(j) ==
  IF j < quarantine_queue_index THEN quarantine_queue_index - 1 - j
  ELSE quarantine_queue_index - 1 - j + QueueLen

\* A slot that came through the random stage was freed before it was pushed.
Head1 == IF RandomLen > 0 THEN 1 ELSE 0

\* The slot in a cell of the ring is at least as old as the cell is; a slot
\* that is not in quarantine has no age.
AgeInv ==
  /\ \A j \in 0 .. QueueLen - 1 :
       quarantine_queue[j] # NULL => age[quarantine_queue[j]] >= Pushes(j) + Head1
  /\ \A q \in Ptr : q \notin Quarantined => age[q] = 0

\* A free ages what is in quarantine by one, up to the bound of the history.
LEMMA AgeGrows ==
  ASSUME Typed, NEW p, NEW r, AgeOthers(p, r), NEW q \in Ptr
  PROVE  /\ q \in Quarantined /\ q # r => /\ age'[q] >= age[q]
                                          /\ age'[q] = age[q] + 1 \/ age'[q] >= ReuseDistance - 1
         /\ q \notin Quarantined /\ q # r => age'[q] = age[q]
         /\ q = r => age'[q] = 0
<1>1. age \in [Ptr -> Nat] /\ ReuseDistance \in Nat
  BY SlabClassAssumption DEF Typed, TypedCells, ReuseDistance
<1>2. age'[q] = IF q \in Quarantined /\ q # r /\ age[q] + 1 < ReuseDistance
                THEN age[q] + 1
                ELSE IF q = r THEN 0 ELSE age[q]
  BY DEF AgeOthers
<1> QED BY <1>1, <1>2

\* Moving p into the quarantine stages, and r out of them, keeps the ages right.
LEMMA StagesKeepAge ==
  ASSUME Typed, CellInv, AgeInv, NEW p \in Ptr, p \notin Quarantined, NEW r \in Ptr \cup {NULL},
         NEW i \in RandomCells, AgeOthers(p, r), SlabQuarantine,
         Quarantined' = (Quarantined \cup {p}) \ {r},
         \/ /\ RandomOut(p, i) = NULL /\ r = NULL
            /\ UNCHANGED <<quarantine_queue, quarantine_queue_index>>
         \/ /\ RandomOut(p, i) # NULL /\ QueueOut(RandomOut(p, i)) = r
            /\ PutQueue(RandomOut(p, i))
  PROVE  AgeInv' /\ (r # NULL => age[r] + 1 >= ReuseDistance)
<1> DEFINE q == RandomOut(p, i)
<1>0. /\ NULL \notin Ptr /\ RandomLen \in Nat /\ QueueLen \in Nat
      /\ age \in [Ptr -> Nat] /\ quarantine_queue \in [0 .. QueueLen - 1 -> Ptr \cup {NULL}]
      /\ quarantine_random \in [0 .. RandomLen - 1 -> Ptr \cup {NULL}]
      /\ Quarantined \subseteq Ptr
      /\ Head1 \in {0, 1} /\ ReuseDistance = QueueLen + Head1
  BY SlabClassAssumption DEF Typed, TypedCells, Quarantined, Head1, ReuseDistance
<1>1. \A x \in Ptr :
        /\ x \in Quarantined /\ x # r => /\ age'[x] >= age[x]
                                         /\ age'[x] = age[x] + 1 \/ age'[x] >= ReuseDistance - 1
        /\ x \notin Quarantined /\ x # r => age'[x] = age[x]
        /\ x = r => age'[x] = 0
  BY AgeGrows
<1>2. age' \in [Ptr -> Nat]
  BY AgeTyped
<1>3. \A x \in Ptr : x \notin Quarantined' => age'[x] = 0
  BY <1>1 DEF AgeInv
<1>4. /\ \A j \in 0 .. QueueLen - 1 :
           quarantine_queue[j] # NULL =>
             /\ quarantine_queue[j] \in Quarantined
             /\ age[quarantine_queue[j]] >= Pushes(j) + Head1
      /\ \A j, l \in 0 .. QueueLen - 1 :
           quarantine_queue[j] # NULL /\ quarantine_queue[j] = quarantine_queue[l] => j = l
  BY DEF AgeInv, CellInv
<1>5. CASE QueueLen = 0
  <2>1. AgeInv'
    BY <1>3, <1>5 DEF AgeInv
  <2>2. r # NULL => age[r] + 1 >= ReuseDistance
    BY <1>0, <1>5
  <2> QED BY <2>1, <2>2
<1>6. CASE QueueLen # 0 /\ q = NULL
  <2>1. quarantine_queue' = quarantine_queue /\ r = NULL
        /\ quarantine_queue_index' = quarantine_queue_index
    BY <1>6
  <2>2. quarantine_queue_index \in 0 .. QueueLen - 1
    BY <1>6 DEF Typed, TypedCells
  <2>3. ASSUME NEW j \in 0 .. QueueLen - 1, quarantine_queue'[j] # NULL
        PROVE  age'[quarantine_queue'[j]] >= Pushes(j)' + Head1
    <3>1. PICK x \in Ptr : x = quarantine_queue[j] /\ x \in Quarantined /\ x # r
      BY <1>0, <1>4, <2>1, <2>3
    <3>2. Pushes(j)' = Pushes(j) /\ Pushes(j) \in Int
      BY <1>0, <2>1, <2>2 DEF Pushes
    <3>3. age'[x] >= age[x] /\ age[x] >= Pushes(j) + Head1
      BY <1>1, <1>4, <2>1, <2>3, <3>1
    <3> QED BY <1>0, <1>2, <2>1, <3>1, <3>2, <3>3
  <2>4. AgeInv'
    BY <1>3, <2>3 DEF AgeInv, Head1
  <2> QED BY <2>1, <2>4
<1>7. CASE QueueLen # 0 /\ q # NULL
  <2>0. PICK n \in 0 .. QueueLen - 1 : n = quarantine_queue_index
    BY <1>7 DEF Typed, TypedCells
  <2>1. /\ quarantine_queue[n] = r
        /\ quarantine_queue' = [quarantine_queue EXCEPT ![n] = q]
        /\ quarantine_queue_index' = IF n + 1 < QueueLen THEN n + 1 ELSE 0
    BY <1>7, <2>0 DEF PutQueue, QueueOut
  <2>2. r # NULL => age[r] + 1 >= ReuseDistance
    <3>1. Pushes(n) = QueueLen - 1
      BY <1>0, <2>0, <2>1 DEF Pushes
    <3> QED BY <1>0, <1>4, <2>1, <3>1
  <2>3. ASSUME NEW j \in 0 .. QueueLen - 1, j # n, quarantine_queue'[j] # NULL
        PROVE  age'[quarantine_queue'[j]] >= Pushes(j)' + Head1
    <3>1. quarantine_queue'[j] = quarantine_queue[j]
      BY <1>0, <2>1, <2>3
    <3>2. PICK x \in Ptr : x = quarantine_queue[j] /\ x \in Quarantined /\ x # r
      BY <1>0, <1>4, <2>1, <2>3, <3>1
    <3>3. /\ Pushes(j)' = Pushes(j) + 1 /\ Pushes(j) \in Int
          /\ Pushes(j) + 1 <= QueueLen - 1
      BY <1>0, <2>0, <2>1, <2>3 DEF Pushes
    <3>4. age[x] >= Pushes(j) + Head1
      BY <1>4, <2>3, <3>1, <3>2
    <3>5. age'[x] = age[x] + 1 \/ age'[x] >= ReuseDistance - 1
      BY <1>1, <3>2
    <3>6. age'[x] \in Nat /\ age[x] \in Nat
      BY <1>0, <1>2, <3>2
    <3> QED BY <1>0, <3>1, <3>2, <3>3, <3>4, <3>5, <3>6
  <2>4. age'[q] >= Pushes(n)' + Head1 /\ quarantine_queue'[n] = q
    <3>1. quarantine_queue'[n] = q
      BY <1>0, <2>1
    <3>2. Pushes(n)' = 0
      BY <1>0, <2>0, <2>1 DEF Pushes
    <3>3. CASE RandomLen = 0
      <4>1. q = p /\ Head1 = 0
        BY <3>3 DEF RandomOut, Head1
      <4> QED BY <1>2, <3>1, <3>2, <4>1
    <3>4. CASE RandomLen # 0
      <4>1. i \in 0 .. RandomLen - 1 /\ quarantine_random[i] = q
        BY <3>4, RandomCellsFacts DEF RandomOut
      <4>2. q \in Quarantined /\ q # r
        BY <1>7, <2>1, <4>1 DEF CellInv
      <4>3. age'[q] = age[q] + 1 \/ age'[q] >= ReuseDistance - 1
        BY <1>0, <1>1, <4>2
      <4>4. Head1 = 1 /\ ReuseDistance - 1 >= 1
        BY <1>0, <1>7, <3>4 DEF Head1
      <4>5. age[q] \in Nat /\ age'[q] \in Nat
        BY <1>0, <1>2, <4>2
      <4>6. PICK a \in Nat, b \in Nat : a = age[q] /\ b = age'[q]
        BY <4>5
      <4>7. b >= 1
        BY <1>0, <4>3, <4>4, <4>6
      <4> QED BY <3>1, <3>2, <4>4, <4>6, <4>7
    <3> QED BY <3>3, <3>4
  <2>5. AgeInv'
    BY <1>3, <2>3, <2>4 DEF AgeInv, Head1
  <2> QED BY <2>2, <2>5
<1> QED BY <1>5, <1>6, <1>7

\* A free keeps the ages right and releases no slot before its time.
LEMMA FreeKeepsAge ==
  ASSUME Inv1, AgeInv, NEW p \in Ptr, NEW r \in Ptr, DeallocateHeld(p) \/ Displace(p, r)
  PROVE  /\ AgeInv'
         /\ \A x \in Quarantined : x \notin Quarantined' => age[x] + 1 >= ReuseDistance
<1>1. Typed /\ CellInv /\ NULL \notin Ptr /\ Quarantined \subseteq Ptr
  BY SlabClassAssumption DEF Inv1, Quarantined
<1>2. CASE DeallocateHeld(p)
  <2>1. SlabQuarantine /\ p \notin Quarantined /\ Quarantined' = (Quarantined \cup {p}) \ {NULL}
    BY <1>2, HeldKeeps
  <2>2. PICK i \in RandomCells :
          \/ /\ RandomOut(p, i) = NULL
             /\ UNCHANGED <<quarantine_queue, quarantine_queue_index>>
          \/ /\ RandomOut(p, i) # NULL /\ QueueOut(RandomOut(p, i)) = NULL
             /\ PutQueue(RandomOut(p, i))
    BY <1>2 DEF DeallocateHeld
  <2>3. AgeOthers(p, NULL)
    BY <1>2 DEF DeallocateHeld
  <2>4. AgeInv'
    BY <1>1, <2>1, <2>2, <2>3, StagesKeepAge
  <2> QED BY <1>1, <2>1, <2>4
<1>3. CASE Displace(p, r)
  <2>1. Quarantined' = (Quarantined \cup {p}) \ {r} /\ p \in live /\ p \notin Quarantined
    BY <1>3, DisplaceKeeps, CheckedIsLive DEF Displace, AcceptFree, Quarantined
  <2>2. PICK i \in RandomCells :
          /\ RandomOut(p, i) # NULL /\ QueueOut(RandomOut(p, i)) = r
          /\ PutQueue(RandomOut(p, i))
    BY <1>3 DEF Displace
  <2>3. AgeOthers(p, r)
    BY <1>3 DEF Displace
  <2>4. CASE SlabQuarantine
    <3>1. AgeInv' /\ (r # NULL => age[r] + 1 >= ReuseDistance)
      BY <1>1, <2>1, <2>2, <2>3, <2>4, StagesKeepAge
    <3> QED BY <1>1, <2>1, <3>1
  <2>5. CASE ~SlabQuarantine
    <3>1. RandomLen = 0 /\ QueueLen = 0
      BY <2>5, SlabClassAssumption DEF SlabQuarantine
    <3>2. ReuseDistance = 0 /\ age \in [Ptr -> Nat]
      BY <1>1, <3>1 DEF ReuseDistance, Typed, TypedCells
    <3>3. \A x \in Ptr : x \notin Quarantined' => age'[x] = 0
      BY <1>1, <2>1, <2>3, AgeGrows DEF AgeInv
    <3>4. AgeInv'
      BY <3>1, <3>3 DEF AgeInv
    <3>5. \A x \in Quarantined : age[x] + 1 >= ReuseDistance
      BY <1>1, <3>2
    <3> QED BY <3>4, <3>5
  <2> QED BY <2>4, <2>5
<1> QED BY <1>2, <1>3

\* Only a free changes the quarantine or the ages.
LEMMA OnlyFreesAge ==
  ASSUME [Next]_vars
  PROVE  \/ UNCHANGED <<quarantine_bitmap, quarantine_random, quarantine_queue,
                        quarantine_queue_index, age>>
         \/ \E p, r \in Ptr : DeallocateHeld(p) \/ Displace(p, r)
<1>1. CASE UNCHANGED vars
  BY <1>1 DEF vars, slotVars, quarantineVars
<1>2. CASE AllocateFromPartial \/ AllocateFromEmpty \/ AllocateFromFree \/ AllocateFromNew
  BY <1>2 DEF AllocateFromPartial, TakePartialSlot, AllocateFromEmpty, TakeEmptySlab,
              AllocateFromFree, TakeFreeSlab, AllocateFromNew, TakeNewSlab, quarantineVars
<1>3. CASE FreeSlabProtectFails \/ NewSlabProtectFails
  BY <1>3 DEF FreeSlabProtectFails, NewSlabProtectFails, slotVars, quarantineVars
<1>4. ASSUME NEW why, NEW p, Fatal(why, p)
      PROVE  UNCHANGED <<quarantine_bitmap, quarantine_random, quarantine_queue,
                         quarantine_queue_index, age>>
  BY <1>4 DEF Fatal, slotVars, quarantineVars
<1>5. CASE AllocateAborts
  BY <1>4, <1>5 DEF AllocateAborts
<1>6. ASSUME NEW m, NEW s, NEW aligned, NEW sizeMatches,
             \/ DeallocateAborts(m, s, aligned, sizeMatches)
             \/ UsableSizeAborts(m, s, aligned)
      PROVE  UNCHANGED <<quarantine_bitmap, quarantine_random, quarantine_queue,
                         quarantine_queue_index, age>>
  BY <1>4, <1>6 DEF DeallocateAborts, UsableSizeAborts
<1>7. ASSUME NEW p \in Ptr, NEW r \in Ptr,
             \/ DeallocateRelease(p, r) \/ DeallocateFreesSlab(p, r)
             \/ DeallocateCachesSlab(p, r)
      PROVE  Displace(p, r)
  BY <1>7 DEF DeallocateRelease, DeallocateFreesSlab, DeallocateCachesSlab, EmptySlab
<1>8. CASE TrimStart \/ TrimSlab \/ TrimEnd
  BY <1>8 DEF TrimStart, TrimSlab, TrimEnd, slotVars, quarantineVars
<1>9. ASSUME NEW p \in Ptr, Write(p) \/ StrayWrite(p) \/ Overflow(p)
      PROVE  UNCHANGED <<quarantine_bitmap, quarantine_random, quarantine_queue,
                         quarantine_queue_index, age>>
  BY <1>9 DEF Write, StrayWrite, Overflow, slotVars, quarantineVars
<1> QED BY <1>1, <1>2, <1>3, <1>5, <1>6, <1>7, <1>8, <1>9 DEF Next

\* A step keeps the ages right, and what it releases has waited.
LEMMA StepKeepsAge ==
  ASSUME Inv1, AgeInv, [Next]_vars
  PROVE  /\ AgeInv'
         /\ \A x \in Quarantined : x \notin Quarantined' => age[x] + 1 >= ReuseDistance
<1>1. CASE UNCHANGED <<quarantine_bitmap, quarantine_random, quarantine_queue,
                       quarantine_queue_index, age>>
  <2>1. Quarantined' = Quarantined
    BY <1>1 DEF Quarantined
  <2> QED BY <1>1, <2>1 DEF AgeInv, Pushes, Head1
<1> QED BY <1>1, OnlyFreesAge, FreeKeepsAge

\* A freed slot becomes reusable only after as many later frees as the quarantine
\* of deallocate_small is long, whatever the random stage draws.
THEOREM QuarantineDelayHolds == Spec => QuarantineDelay
<1> DEFINE Delayed == \A p \in Quarantined : p \notin Quarantined' => age[p] + 1 >= ReuseDistance
<1>1. Init => AgeInv
  BY PtrPair DEF Init, AgeInv, Quarantined
<1>2. Inv1 /\ AgeInv /\ [Next]_vars => AgeInv'
  BY StepKeepsAge
<1>3. Inv1 /\ AgeInv /\ [Next]_vars => [Delayed]_vars
  BY StepKeepsAge
<1> QED BY <1>1, <1>2, <1>3, Layer1, PTL DEF Spec, QuarantineDelay

-----------------------------------------------------------------------------
(* The second layer: places, links, pages and guard slabs *)

\* Where a slab is agrees with its count; slabs beyond metadata_count are
\* untouched, and their links are still NULL.
PlaceInv ==
  /\ \A m \in Slabs : place[m] = "inuse" <=> count[m] > 0
  /\ \A m \in Slabs : place[m] = "unused" => next[m] = NULL /\ prev[m] = NULL
  /\ \A m \in Slabs : m >= metadata_count => place[m] = "unused"
  /\ metadata_count <= metadata_allocated + 1
  /\ metadata_allocated = 1 => MetadataMax = 1
  /\ \A m \in Slabs : place[m] # "unused" => m < metadata_allocated

\* The slab before the current run of unguarded slabs is a guard, and every
\* window of GuardInterval + 1 slabs holds an unused one.
GuardInv ==
  /\ metadata_count - metadata_count_unguarded - 1 \in Slabs
       => place[metadata_count - metadata_count_unguarded - 1] = "unused"
  /\ \A m \in Slabs : m + GuardInterval < MetadataMax =>
       \E g \in m .. m + GuardInterval : place[g] = "unused"

Partial(m) == 0 < count[m] /\ count[m] < Slots

\* The partial list is doubly linked, and only partial slabs are linked in it.
PartialInv ==
  /\ partial_slabs # NULL => Partial(partial_slabs) /\ prev[partial_slabs] = NULL
  /\ \A m \in Slabs : Partial(m) /\ prev[m] = NULL => partial_slabs = m
  /\ \A m \in Slabs : Partial(m) /\ prev[m] # NULL
                        => Partial(prev[m]) /\ next[prev[m]] = m
  /\ \A m \in Slabs : Partial(m) /\ next[m] # NULL
                        => Partial(next[m]) /\ prev[next[m]] = m

\* The slabs in place w, linked from head: every link stays within w, no slab
\* is linked twice and nothing links to the head.
Linked(w, head) ==
  /\ head # NULL => place[head] = w
  /\ \A m \in Slabs : place[m] = w /\ next[m] # NULL
                        => place[next[m]] = w /\ next[m] # head
  /\ \A m, n \in Slabs : /\ place[m] = w /\ place[n] = w
                          /\ next[m] # NULL /\ next[m] = next[n] => m = n

EmptyInv == Linked("empty", EmptyHead)

\* The free slabs form a queue whose last slab is free_slabs_tail.
FreeInv ==
  /\ Linked("free", free_slabs_head)
  /\ free_slabs_head = NULL <=> free_slabs_tail = NULL
  /\ free_slabs_tail # NULL => place[free_slabs_tail] = "free" /\ next[free_slabs_tail] = NULL
  /\ \A m \in Slabs : place[m] = "free" /\ next[m] = NULL => m = free_slabs_tail

\* The free slabs quarantine holds unlinked slabs, each in one cell.
FreeQuarInv ==
  /\ \A i \in 0 .. FreeQuarLen - 1 : free_slabs_quarantine[i] # NULL =>
       /\ place[free_slabs_quarantine[i]] = "quarantine"
       /\ next[free_slabs_quarantine[i]] = NULL
  /\ \A i, j \in 0 .. FreeQuarLen - 1 :
       free_slabs_quarantine[i] # NULL /\ free_slabs_quarantine[i] = free_slabs_quarantine[j]
         => i = j
  /\ \A m \in Slabs : place[m] = "quarantine" =>
       \E i \in 0 .. FreeQuarLen - 1 : free_slabs_quarantine[i] = m

ListInv == PlaceInv /\ GuardInv /\ PartialInv /\ EmptyInv /\ FreeInv /\ FreeQuarInv

Inv2 == Inv1 /\ ListInv /\ PagesMatchUse

-----------------------------------------------------------------------------
(* Frame lemmas: what a step that does not touch a list leaves alone *)

\* The places of a slab that hold no used slot and no cached memory.
Retired == {"free", "quarantine"}

\* Slabs that are and stay free or quarantined keep the free lists intact.
LEMMA FreeFrame ==
  ASSUME TypedLists, FreeInv, FreeQuarInv, UNCHANGED freeListVars,
         \A x \in Slabs : place[x] \in Retired => place'[x] = place[x] /\ next'[x] = next[x],
         \A x \in Slabs : place'[x] \in Retired => place[x] \in Retired
  PROVE  FreeInv' /\ FreeQuarInv'
<1>1. FreeInv'
  BY DEF FreeInv, Linked, Retired, freeListVars, TypedLists
<1>2. FreeQuarInv'
  BY DEF FreeQuarInv, Retired, freeListVars, TypedLists
<1> QED BY <1>1, <1>2

\* The same for the cached empty slabs.
LEMMA EmptyFrame ==
  ASSUME TypedLists, EmptyInv, EmptyHead' = EmptyHead,
         \A x \in Slabs : place[x] = "empty" => place'[x] = "empty" /\ next'[x] = next[x],
         \A x \in Slabs : place'[x] = "empty" => place[x] = "empty"
  PROVE  EmptyInv'
BY DEF EmptyInv, Linked, TypedLists, EmptyHead

\* The same for the partial list.
LEMMA PartialFrame ==
  ASSUME TypedLists, PartialInv, UNCHANGED partial_slabs,
         \A x \in Slabs : Partial(x)' <=> Partial(x),
         \A x \in Slabs : Partial(x) => next'[x] = next[x] /\ prev'[x] = prev[x]
  PROVE  PartialInv'
BY DEF PartialInv, TypedLists, Partial

\* A slab is enqueued as free: the free lists stay well formed, and no other
\* list is touched.
LEMMA EnqueueKeeps ==
  ASSUME TypedLists, FreeInv, FreeQuarInv, NEW m \in Slabs,
         NEW nx \in [Slabs -> Slabs \cup {NULL}], place[m] \notin Retired,
         \A x \in Slabs : place[x] \in Retired => nx[x] = next[x],
         EnqueueFreeSlab(m, nx)
  PROVE  /\ FreeInv' /\ FreeQuarInv' /\ place'[m] \in Retired
         /\ \A x \in Slabs : place[x] \in Retired => place'[x] \in Retired
         /\ \A x \in Slabs : x # m /\ place[x] \notin Retired
                               => place'[x] = place[x] /\ next'[x] = nx[x]
<1> USE SlabClassAssumption DEF TypedLists, Retired
<1>1. PICK i \in (IF FreeQuarLen = 0 THEN {0} ELSE 0 .. FreeQuarLen - 1) :
        LET cleared == [nx EXCEPT ![m] = NULL]
            substitute == IF FreeQuarLen = 0 THEN m ELSE free_slabs_quarantine[i]
        IN
        /\ free_slabs_quarantine' =
             IF FreeQuarLen = 0 THEN free_slabs_quarantine
             ELSE [free_slabs_quarantine EXCEPT ![i] = m]
        /\ IF substitute = NULL
           THEN /\ next' = cleared
                /\ place' = [place EXCEPT ![m] = "quarantine"]
                /\ UNCHANGED <<free_slabs_head, free_slabs_tail>>
           ELSE /\ next' = IF free_slabs_tail = NULL THEN cleared
                           ELSE [cleared EXCEPT ![free_slabs_tail] = substitute]
                /\ free_slabs_head' = IF free_slabs_tail = NULL THEN substitute
                                      ELSE free_slabs_head
                /\ free_slabs_tail' = substitute
                /\ place' = [[place EXCEPT ![m] = "quarantine"]
                               EXCEPT ![substitute] = "free"]
  BY DEF EnqueueFreeSlab
<1> DEFINE substitute == IF FreeQuarLen = 0 THEN m ELSE free_slabs_quarantine[i]
<1>2. CASE substitute = NULL
  <2>1. FreeQuarLen # 0 /\ i \in 0 .. FreeQuarLen - 1 /\ free_slabs_quarantine[i] = NULL
    BY <1>2
  <2>2. /\ next' = [nx EXCEPT ![m] = NULL]
        /\ place' = [place EXCEPT ![m] = "quarantine"]
        /\ free_slabs_head' = free_slabs_head /\ free_slabs_tail' = free_slabs_tail
        /\ free_slabs_quarantine' = [free_slabs_quarantine EXCEPT ![i] = m]
    BY <1>1, <1>2, <2>1
  <2>3. FreeInv'
    BY <2>2 DEF FreeInv, Linked
  <2>4. FreeQuarInv'
    BY <2>1, <2>2 DEF FreeQuarInv
  <2> QED BY <2>2, <2>3, <2>4
<1>3. CASE substitute # NULL
  <2>1. /\ substitute \in Slabs
        /\ substitute = m \/ place[substitute] = "quarantine"
        /\ substitute # m => next[substitute] = NULL
    BY <1>3 DEF FreeQuarInv
  <2>2. /\ next' = IF free_slabs_tail = NULL THEN [nx EXCEPT ![m] = NULL]
                   ELSE [[nx EXCEPT ![m] = NULL] EXCEPT ![free_slabs_tail] = substitute]
        /\ free_slabs_head' = IF free_slabs_tail = NULL THEN substitute
                              ELSE free_slabs_head
        /\ free_slabs_tail' = substitute
        /\ place' = [[place EXCEPT ![m] = "quarantine"] EXCEPT ![substitute] = "free"]
    BY <1>1, <1>3
  <2>3. free_slabs_tail # NULL => /\ place[free_slabs_tail] = "free"
                                  /\ free_slabs_tail # m /\ free_slabs_tail # substitute
    BY <2>1 DEF FreeInv
  <2>4. free_slabs_head = NULL <=> free_slabs_tail = NULL
    BY DEF FreeInv
  <2>5. Linked("free", free_slabs_head)'
    BY <2>1, <2>2, <2>3, <2>4 DEF FreeInv, Linked
  <2>6. FreeInv'
    BY <2>1, <2>2, <2>3, <2>4, <2>5 DEF FreeInv
  <2>7. FreeQuarInv'
    <3>1. CASE FreeQuarLen = 0
      BY <1>1, <2>2, <3>1 DEF FreeQuarInv
    <3>2. CASE FreeQuarLen # 0
      <4>1. /\ i \in 0 .. FreeQuarLen - 1 /\ substitute = free_slabs_quarantine[i]
            /\ free_slabs_quarantine' = [free_slabs_quarantine EXCEPT ![i] = m]
            /\ substitute # m
        BY <1>1, <1>3, <3>2 DEF FreeQuarInv
      <4> QED BY <2>1, <2>2, <2>3, <4>1 DEF FreeQuarInv
    <3> QED BY <3>1, <3>2
  <2> QED BY <2>1, <2>2, <2>3, <2>6, <2>7
<1> QED BY <1>2, <1>3

\* The same when the links were left alone and the slab was cached empty, as
\* in h_malloc_trim.
LEMMA EnqueueEmptyKeeps ==
  ASSUME TypedLists, FreeInv, FreeQuarInv, NEW m \in Slabs, place[m] = "empty",
         EnqueueFreeSlab(m, next)
  PROVE  /\ FreeInv' /\ FreeQuarInv' /\ place'[m] \in Retired
         /\ \A x \in Slabs : place[x] \in Retired => place'[x] \in Retired
         /\ \A x \in Slabs : x # m /\ place[x] \notin Retired
                               => place'[x] = place[x] /\ next'[x] = next[x]
<1>1. place[m] \notin Retired
  BY DEF Retired
<1>2. next \in [Slabs -> Slabs \cup {NULL}]
  BY DEF TypedLists
<1>3. \A x \in Slabs : place[x] \in Retired => next[x] = next[x]
  OBVIOUS
<1> QED BY <1>1, <1>2, <1>3, EnqueueKeeps

-----------------------------------------------------------------------------
(* Layer 2: the actions *)

\* A slab that holds no used slot has an empty bitmap.
LEMMA UnusedIsEmpty ==
  ASSUME Inv2, NEW m \in Slabs, place[m] # "inuse"
  PROVE  count[m] = 0 /\ bitmap[m] = {}
<1>1. count[m] \in 0 .. Slots /\ ~(count[m] > 0)
  BY DEF Inv2, Inv1, Typed, TypedSlots, ListInv, PlaceInv
<1>2. count[m] = 0
  BY <1>1, SlabClassAssumption
<1>3. Cardinality(bitmap[m]) = 0 /\ IsFiniteSet(bitmap[m])
  BY <1>2, SlotIdxCard, FS_Subset DEF Inv2, Inv1, Typed, TypedSlots, SlotInv
<1> QED BY <1>2, <1>3, FS_EmptySet

\* A slab without used slots becomes the first partial slab.
LEMMA StartKeepsPartial ==
  ASSUME Inv2, NEW m \in Slabs, count[m] = 0, partial_slabs = NULL,
         count' = [count EXCEPT ![m] = @ + 1], StartSlab(m),
         next' = [next EXCEPT ![m] = NULL], prev' = [prev EXCEPT ![m] = NULL]
  PROVE  PartialInv'
<1> USE SlabClassAssumption DEF Inv2, Inv1, Typed, TypedSlots, TypedLists, ListInv
<1>1. /\ count'[m] = 1 /\ ~Partial(m)
      /\ \A x \in Slabs : x # m => count'[x] = count[x]
      /\ next'[m] = NULL /\ prev'[m] = NULL
      /\ \A x \in Slabs : x # m => next'[x] = next[x] /\ prev'[x] = prev[x]
  BY DEF Partial
<1>2. partial_slabs' = IF Slots > 1 THEN m ELSE NULL
  BY DEF StartSlab
<1>3. \A x \in Slabs : x # m => (Partial(x)' <=> Partial(x))
  BY <1>1 DEF Partial
<1>4. Partial(m)' <=> Slots > 1
  BY <1>1 DEF Partial
<1>5. \A x \in Slabs : Partial(x) => prev[x] # NULL /\ prev[x] # m /\ next[x] # m
  BY <1>1 DEF PartialInv
<1> QED BY <1>1, <1>2, <1>3, <1>4, <1>5 DEF PartialInv

\* The next slot of a cached empty slab.
LEMMA AllocateFromEmpty2 ==
  ASSUME Inv2, AllocateFromEmpty PROVE (ListInv /\ PagesMatchUse)'
<1> USE DEF Inv2, Inv1, Typed, ListInv
<1> DEFINE m == empty_slabs
<1>1. m \in Slabs /\ partial_slabs = NULL /\ ~trimming
  BY DEF AllocateFromEmpty, TypedLists, Available
<1>2. EmptyHead = m /\ place[m] = "empty"
  BY <1>1 DEF EmptyHead, EmptyInv, Linked, AllocateFromEmpty
<1>3. count[m] = 0
  BY <1>1, <1>2, UnusedIsEmpty
<1>4. PICK s \in get_free_slot(m) : TakeEmptySlab(m, s)
  BY DEF AllocateFromEmpty
<1>5. /\ next' = [next EXCEPT ![m] = NULL] /\ prev' = [prev EXCEPT ![m] = NULL]
      /\ count' = [count EXCEPT ![m] = @ + 1] /\ place' = [place EXCEPT ![m] = "inuse"]
      /\ empty_slabs' = next[m] /\ trimming' = trimming /\ StartSlab(m)
      /\ UNCHANGED <<countVars, freeListVars, accessible>>
  BY <1>4 DEF TakeEmptySlab, TakeSlot, StartSlab, trimVars
<1>6. PlaceInv'
  BY <1>1, <1>2, <1>3, <1>5 DEF PlaceInv, TypedLists, TypedSlots, countVars
<1>7. GuardInv'
  BY <1>1, <1>2, <1>5 DEF GuardInv, TypedLists, countVars, Slabs
<1>8. PartialInv'
  BY <1>1, <1>3, <1>5, StartKeepsPartial
<1>9. EmptyInv'
  BY <1>1, <1>2, <1>5 DEF EmptyInv, EmptyHead, Linked, TypedLists
<1>10. FreeInv' /\ FreeQuarInv'
  BY <1>1, <1>2, <1>5, FreeFrame DEF TypedLists, Retired
<1>11. PagesMatchUse'
  BY <1>1, <1>2, <1>5 DEF PagesMatchUse, InPlace, TypedLists
<1> QED BY <1>6, <1>7, <1>8, <1>9, <1>10, <1>11

\* The next slot of a slab taken from the head of the free list.
LEMMA AllocateFromFree2 ==
  ASSUME Inv2, AllocateFromFree PROVE (ListInv /\ PagesMatchUse)'
<1> USE DEF Inv2, Inv1, Typed, ListInv
<1> DEFINE m == free_slabs_head
<1>1. m \in Slabs /\ m # NULL /\ partial_slabs = NULL /\ ~trimming
  BY SlabClassAssumption DEF AllocateFromFree, NeedsFreeSlab, TypedLists, Available
<1>2. place[m] = "free"
  BY <1>1 DEF FreeInv, Linked
<1>3. count[m] = 0
  BY <1>1, <1>2, UnusedIsEmpty
<1>4. PICK cv \in CanaryValues, s \in get_free_slot(m) : TakeFreeSlab(m, s, cv)
  BY DEF AllocateFromFree
<1>5. /\ next' = [next EXCEPT ![m] = NULL] /\ prev' = [prev EXCEPT ![m] = NULL]
      /\ count' = [count EXCEPT ![m] = @ + 1] /\ place' = [place EXCEPT ![m] = "inuse"]
      /\ free_slabs_head' = next[m]
      /\ free_slabs_tail' = IF next[m] = NULL THEN NULL ELSE free_slabs_tail
      /\ StartSlab(m) /\ Unprotect(m)
      /\ UNCHANGED <<countVars, empty_slabs, trimming, iterator, free_slabs_quarantine>>
  BY <1>4 DEF TakeFreeSlab, TakeSlot, StartSlab, trimVars, emptyListVars
<1>6. PlaceInv'
  BY <1>1, <1>2, <1>3, <1>5 DEF PlaceInv, TypedLists, TypedSlots, countVars
<1>7. GuardInv'
  BY <1>1, <1>2, <1>5 DEF GuardInv, TypedLists, countVars, Slabs
<1>8. PartialInv'
  BY <1>1, <1>3, <1>5, StartKeepsPartial
<1>9. EmptyInv'
  <2>1. EmptyHead' = EmptyHead
    BY <1>5 DEF EmptyHead
  <2> QED BY <2>1, <1>1, <1>2, <1>5, EmptyFrame DEF TypedLists
<1>10. FreeInv'
  BY <1>1, <1>2, <1>5 DEF FreeInv, Linked, TypedLists
<1>11. FreeQuarInv'
  BY <1>1, <1>2, <1>5 DEF FreeQuarInv, TypedLists
<1>12. PagesMatchUse'
  BY <1>1, <1>2, <1>5 DEF PagesMatchUse, InPlace, TypedLists, Unprotect
<1> QED BY <1>6, <1>7, <1>8, <1>9, <1>10, <1>11, <1>12

\* The metadata that alloc_metadata grows to covers the slab it returns; this
\* needs the initial allocation to hold at least two slabs, since a guard
\* may put metadata_count one past metadata_allocated.
LEMMA GrownCovers ==
  ASSUME Typed, metadata_count <= metadata_allocated + 1,
         metadata_allocated = 1 => MetadataMax = 1,
         metadata_count < metadata_allocated \/ metadata_count < MetadataMax
  PROVE  /\ metadata_count < GrownMetadata /\ metadata_allocated <= GrownMetadata
         /\ metadata_count + 2 <= GrownMetadata + 1
         /\ GrownMetadata = 1 => MetadataMax = 1
BY SlabClassAssumption DEF Typed, TypedCounts, GrownMetadata

\* The initial states.
LEMMA Init2 == Init => ListInv /\ PagesMatchUse
<1> SUFFICES ASSUME Init PROVE ListInv /\ PagesMatchUse
  OBVIOUS
<1> USE SlabClassAssumption DEF Init
<1>1. PlaceInv
  BY DEF PlaceInv, Slabs
<1>2. GuardInv
  <2>1. \A m \in Slabs : m + GuardInterval < MetadataMax =>
          m \in m .. m + GuardInterval /\ place[m] = "unused"
    BY DEF Slabs
  <2> QED BY <2>1 DEF GuardInv
<1>3. PartialInv /\ EmptyInv /\ FreeInv /\ FreeQuarInv
  BY DEF PartialInv, Partial, EmptyInv, EmptyHead, FreeInv, Linked, FreeQuarInv
<1>4. PagesMatchUse
  BY DEF PagesMatchUse, InPlace
<1> QED BY <1>1, <1>2, <1>3, <1>4 DEF ListInv

\* A new slab ends a run of at most GuardInterval slabs in use: the slab
\* before the run is a guard, and the slab after the new one is unused.
LEMMA NewSlabKeepsGuards ==
  ASSUME Typed, PlaceInv, GuardInv, metadata_count \in Slabs,
         metadata_count' = metadata_count + (IF GuardDue THEN 2 ELSE 1),
         metadata_count_unguarded' = IF GuardDue THEN 0 ELSE metadata_count_unguarded + 1,
         place' = [place EXCEPT ![metadata_count] = "inuse"]
  PROVE  GuardInv'
<1> USE SlabClassAssumption DEF Typed, TypedCounts, TypedLists, Slabs
<1> DEFINE c == metadata_count
           g == metadata_count - metadata_count_unguarded - 1
<1>1. \A x \in Slabs : x # c => place'[x] = place[x]
  OBVIOUS
<1>2. \A x \in Slabs : x > c => place[x] = "unused"
  BY DEF PlaceInv
<1>3. g \in Slabs => place[g] = "unused" /\ g < c
  BY DEF GuardInv
<1>4. (g \in Slabs => place[g] = "unused")'
  BY <1>1, <1>2, <1>3 DEF GuardDue
<1>5. ASSUME NEW m \in Slabs, m + GuardInterval < MetadataMax
      PROVE  \E x \in m .. m + GuardInterval : place'[x] = "unused"
  <2>1. CASE c \notin m .. m + GuardInterval
    <3>1. PICK x \in m .. m + GuardInterval : place[x] = "unused"
      BY <1>5 DEF GuardInv
    <3> QED BY <1>1, <1>5, <2>1, <3>1
  <2>2. CASE c \in m .. m + GuardInterval - 1
    <3>1. c + 1 \in m .. m + GuardInterval /\ c + 1 \in Slabs
      BY <1>5, <2>2
    <3>2. c + 1 # c /\ c + 1 > c
      OBVIOUS
    <3>3. place'[c + 1] = "unused"
      BY <1>1, <1>2, <3>1, <3>2
    <3> QED BY <3>1, <3>3
  <2>3. CASE c = m + GuardInterval
    <3>1. g \in m .. m + GuardInterval /\ g \in Slabs
      BY <1>5, <2>3
    <3> QED BY <1>1, <1>3, <3>1
  <2> QED BY <1>5, <2>1, <2>2, <2>3
<1> QED BY <1>4, <1>5 DEF GuardInv

\* The first slot of a slab that was never used.
LEMMA AllocateFromNew2 ==
  ASSUME Inv2, AllocateFromNew PROVE (ListInv /\ PagesMatchUse)'
<1> USE DEF Inv2, Inv1, Typed, ListInv
<1> DEFINE m == metadata_count
<1>1. m \in Slabs /\ partial_slabs = NULL
  BY NewSlabCounts DEF AllocateFromNew, NeedsNewSlab
<1>2. /\ m < GrownMetadata /\ metadata_allocated <= GrownMetadata
      /\ m + 2 <= GrownMetadata + 1 /\ GrownMetadata \in Nat
      /\ GrownMetadata = 1 => MetadataMax = 1
  BY GrownCovers, NewSlabCounts DEF AllocateFromNew, NeedsNewSlab, PlaceInv
<1>3. place[m] = "unused" /\ next[m] = NULL /\ prev[m] = NULL
  BY <1>1 DEF PlaceInv, Slabs
<1>4. count[m] = 0
  BY <1>1, <1>3, UnusedIsEmpty
<1>5. PICK cv \in CanaryValues, s \in get_free_slot(m) : TakeNewSlab(m, s, cv)
  BY DEF AllocateFromNew
<1>6. /\ next' = next /\ prev' = prev
      /\ count' = [count EXCEPT ![m] = @ + 1] /\ place' = [place EXCEPT ![m] = "inuse"]
      /\ metadata_count' = m + (IF GuardDue THEN 2 ELSE 1)
      /\ metadata_count_unguarded' = IF GuardDue THEN 0 ELSE metadata_count_unguarded + 1
      /\ metadata_allocated' = GrownMetadata
      /\ StartSlab(m) /\ Unprotect(m)
      /\ UNCHANGED <<empty_slabs, trimming, iterator, freeListVars>>
  BY <1>5 DEF TakeNewSlab, TakeSlot, StartSlab, trimVars, emptyListVars, AllocateFromNew
<1>7. PlaceInv'
  <2>1. metadata_count' \in Int /\ m < metadata_count' /\ metadata_count' <= m + 2
    BY <1>1, <1>6 DEF Slabs
  <2>2. \A x \in Slabs : x # m => place'[x] = place[x] /\ count'[x] = count[x]
    BY <1>6 DEF TypedLists, TypedSlots
  <2>3. place'[m] = "inuse" /\ count'[m] > 0
    BY <1>1, <1>4, <1>6 DEF TypedLists, TypedSlots
  <2>4. \A x \in Slabs : place'[x] # "unused" => x < metadata_allocated'
    BY <1>1, <1>2, <1>6, <2>2 DEF PlaceInv, TypedCounts, Slabs
  <2>5. \A x \in Slabs : x >= metadata_count' => place'[x] = "unused"
    BY <1>1, <2>1, <2>2 DEF PlaceInv, Slabs
  <2>6. metadata_count' <= metadata_allocated' + 1
    BY <1>1, <1>2, <1>6, <2>1 DEF Slabs
  <2>7. \A x \in Slabs : place'[x] = "inuse" <=> count'[x] > 0
    BY <2>2, <2>3 DEF PlaceInv
  <2>8. \A x \in Slabs : place'[x] = "unused" => next'[x] = NULL /\ prev'[x] = NULL
    BY <1>6, <2>2, <2>3 DEF PlaceInv
  <2> QED BY <1>2, <1>6, <2>4, <2>5, <2>6, <2>7, <2>8 DEF PlaceInv
<1>8. GuardInv'
  BY <1>1, <1>6, NewSlabKeepsGuards
<1>9. PartialInv'
  <2>1. next' = [next EXCEPT ![m] = NULL] /\ prev' = [prev EXCEPT ![m] = NULL]
    BY <1>1, <1>3, <1>6 DEF TypedLists
  <2> QED BY <1>1, <1>4, <1>6, <2>1, StartKeepsPartial
<1>10. EmptyInv'
  <2>1. EmptyHead' = EmptyHead
    BY <1>6 DEF EmptyHead
  <2> QED BY <2>1, <1>1, <1>3, <1>6, EmptyFrame DEF TypedLists
<1>11. FreeInv' /\ FreeQuarInv'
  BY <1>1, <1>3, <1>6, FreeFrame DEF TypedLists, Retired
<1>12. PagesMatchUse'
  BY <1>1, <1>3, <1>6 DEF PagesMatchUse, InPlace, TypedLists, Unprotect
<1> QED BY <1>7, <1>8, <1>9, <1>10, <1>11, <1>12

\* The head of the partial list serves a request; a full slab is unlinked.
LEMMA AllocateFromPartial2 ==
  ASSUME Inv2, AllocateFromPartial PROVE (ListInv /\ PagesMatchUse)'
<1> USE SlabClassAssumption DEF Inv2, Inv1, Typed, ListInv
<1>0. PICK m \in Slabs : m = partial_slabs
  BY DEF AllocateFromPartial, TypedLists
<1>1. m \in Slabs /\ m # NULL
  BY <1>0 DEF AllocateFromPartial
<1>2. Partial(m) /\ place[m] = "inuse" /\ prev[m] = NULL
  BY <1>0, <1>1 DEF PartialInv, PlaceInv, Partial
<1>3. PICK s \in get_free_slot(m) : TakePartialSlot(m, s)
  BY <1>0 DEF AllocateFromPartial
<1>4. /\ count' = [count EXCEPT ![m] = @ + 1]
      /\ partial_slabs' = IF count[m] + 1 >= Slots THEN next[m] ELSE m
      /\ prev' = IF count[m] + 1 >= Slots /\ next[m] # NULL
                 THEN [prev EXCEPT ![next[m]] = NULL] ELSE prev
      /\ next' = next /\ place' = place
      /\ UNCHANGED <<countVars, empty_slabs, freeListVars, trimming, iterator, accessible>>
  BY <1>3 DEF TakePartialSlot, TakeSlot, trimVars, emptyListVars
<1>5. \A x \in Slabs : x # m => count'[x] = count[x]
  BY <1>4 DEF TypedSlots
<1>6. count'[m] = count[m] + 1 /\ count[m] \in 1 .. Slots - 1
  BY <1>1, <1>2, <1>4 DEF TypedSlots, Partial
<1>7. PlaceInv'
  BY <1>2, <1>4, <1>5, <1>6 DEF PlaceInv, TypedLists, countVars
<1>8. GuardInv'
  BY <1>4 DEF GuardInv, countVars
<1>9. PartialInv'
  <2>1. \A x \in Slabs : x # m => (Partial(x)' <=> Partial(x))
    BY <1>5 DEF Partial
  <2>2. CASE count[m] + 1 < Slots
    <3>1. Partial(m)'
      BY <1>6, <2>2 DEF Partial
    <3>2. \A x \in Slabs : Partial(x)' <=> Partial(x)
      BY <1>2, <2>1, <3>1
    <3> QED BY <1>0, <1>4, <1>6, <2>2, <3>2, PartialFrame
  <2>3. CASE ~(count[m] + 1 < Slots)
    <3>1. ~Partial(m)'
      BY <1>6, <2>3 DEF Partial
    <3>2. partial_slabs' = next[m]
      BY <1>4, <1>6, <2>3
    <3>3. prev' = IF next[m] # NULL THEN [prev EXCEPT ![next[m]] = NULL] ELSE prev
      BY <1>4, <1>6, <2>3
    <3>4. next[m] # NULL => next[m] # m
      BY <1>1, <1>2 DEF PartialInv
    <3> QED BY <1>0, <1>1, <1>2, <1>4, <2>1, <3>1, <3>2, <3>3, <3>4 DEF PartialInv, TypedLists
  <2> QED BY <1>6, <2>2, <2>3
<1>10. EmptyInv'
  BY <1>4 DEF EmptyInv, EmptyHead, Linked
<1>11. FreeInv' /\ FreeQuarInv'
  BY <1>4 DEF FreeInv, FreeQuarInv, Linked, freeListVars
<1>12. PagesMatchUse'
  BY <1>4 DEF PagesMatchUse, InPlace
<1> QED BY <1>7, <1>8, <1>9, <1>10, <1>11, <1>12

\* A step that leaves the lists, the counts and the pages alone.
LEMMA ListsUnchanged ==
  ASSUME Inv2, UNCHANGED <<countVars, count, listVars, trimVars, accessible>>
  PROVE  (ListInv /\ PagesMatchUse)'
<1> USE DEF countVars, listVars, trimVars, emptyListVars, freeListVars, Inv2, ListInv
<1>1. (PlaceInv /\ GuardInv /\ PartialInv)'
  BY DEF PlaceInv, GuardInv, PartialInv, Partial
<1>2. (EmptyInv /\ FreeInv /\ FreeQuarInv)'
  BY DEF EmptyInv, EmptyHead, FreeInv, FreeQuarInv, Linked
<1>3. PagesMatchUse'
  BY DEF PagesMatchUse, InPlace
<1> QED BY <1>1, <1>2, <1>3

\* memory_protect_rw fails: at most the metadata grows.
LEMMA ProtectFails2 ==
  ASSUME Inv2, FreeSlabProtectFails \/ NewSlabProtectFails
  PROVE  (ListInv /\ PagesMatchUse)'
<1>1. CASE FreeSlabProtectFails
  BY <1>1, ListsUnchanged DEF FreeSlabProtectFails, slotVars, memoryVars
<1>2. CASE NewSlabProtectFails
  <2> USE DEF Inv2, ListInv, Inv1
  <2>1. /\ metadata_count < GrownMetadata /\ metadata_allocated <= GrownMetadata
        /\ GrownMetadata \in Nat /\ metadata_count + 2 <= GrownMetadata + 1
        /\ GrownMetadata = 1 => MetadataMax = 1
    BY <1>2, GrownCovers, NewSlabCounts DEF NewSlabProtectFails, NeedsNewSlab, PlaceInv
  <2>2. /\ metadata_allocated' = GrownMetadata
        /\ UNCHANGED <<metadata_count, metadata_count_unguarded, count, listVars, trimVars, accessible>>
    BY <1>2 DEF NewSlabProtectFails, slotVars, memoryVars
  <2> USE DEF listVars, trimVars, emptyListVars, freeListVars
  <2>3. PlaceInv'
    BY <2>1, <2>2 DEF PlaceInv, Typed, TypedCounts, Slabs
  <2>4. (GuardInv /\ PartialInv)'
    BY <2>2 DEF GuardInv, PartialInv, Partial
  <2>5. (EmptyInv /\ FreeInv /\ FreeQuarInv)'
    BY <2>2 DEF EmptyInv, EmptyHead, FreeInv, FreeQuarInv, Linked
  <2>6. PagesMatchUse'
    BY <2>2 DEF PagesMatchUse, InPlace
  <2> QED BY <2>3, <2>4, <2>5, <2>6
<1> QED BY <1>1, <1>2

\* A full slab that loses a slot is pushed on the partial list.
LEMMA PushKeepsPartial ==
  ASSUME TypedLists, PartialInv, NEW m \in Slabs, ~Partial(m), Partial(m)',
         \A x \in Slabs : x # m => (Partial(x)' <=> Partial(x)),
         next' = [next EXCEPT ![m] = partial_slabs],
         prev' = [x \in Slabs |-> CASE x = m -> NULL
                                    [] x # m /\ x = partial_slabs -> m
                                    [] OTHER -> prev[x]],
         partial_slabs' = m
  PROVE  PartialInv'
<1> USE SlabClassAssumption DEF TypedLists
<1>1. /\ next'[m] = partial_slabs /\ prev'[m] = NULL /\ m # NULL
      /\ \A x \in Slabs : x # m => next'[x] = next[x]
      /\ \A x \in Slabs : x # m => prev'[x] = IF x = partial_slabs THEN m ELSE prev[x]
  OBVIOUS
<1>2. partial_slabs # m
  BY DEF PartialInv
<1>3. \A x \in Slabs : Partial(x) => prev[x] # m /\ next[x] # m
  BY SMTT(30), <1>1 DEF PartialInv
<1> QED BY SMTT(30), <1>1, <1>2, <1>3 DEF PartialInv

\* What a slot release does to the slab of the released slot.
LEMMA DisplaceFacts ==
  ASSUME Inv2, NEW p \in Ptr, NEW r \in Ptr, Displace(p, r)
  PROVE  /\ r[1] \in Slabs /\ place[r[1]] = "inuse" /\ ~trimming
         /\ count' = [count EXCEPT ![r[1]] = @ - 1]
         /\ count[r[1]] \in 1 .. Slots
         /\ UNCHANGED <<countVars, trimming, iterator>>
<1>1. r[1] \in Slabs /\ r[2] \in bitmap[r[1]]
  BY DisplaceKeeps DEF Inv2
<1>2. count[r[1]] \in 0 .. Slots /\ count[r[1]] = Cardinality(bitmap[r[1]])
      /\ bitmap[r[1]] \in SUBSET SlotIdx
  BY <1>1 DEF Inv2, Inv1, Typed, TypedSlots, SlotInv
<1>3. count[r[1]] \in 1 .. Slots
  <2>1. Cardinality(bitmap[r[1]]) >= 1
    BY <1>1, <1>2, CardDrop
  <2> QED BY <1>2, <2>1, SlabClassAssumption
<1>4. place[r[1]] = "inuse"
  BY <1>1, <1>3 DEF Inv2, ListInv, PlaceInv
<1> QED BY <1>1, <1>3, <1>4 DEF Displace, AcceptFree, Available, trimVars

\* A free that makes a slot of a slab reusable while others stay in use.
LEMMA DeallocateRelease2 ==
  ASSUME Inv2, NEW p \in Ptr, NEW r \in Ptr, DeallocateRelease(p, r)
  PROVE  (ListInv /\ PagesMatchUse)'
<1> USE SlabClassAssumption DEF Inv2, Inv1, Typed, ListInv
<1>1. PICK m \in Slabs : m = r[1]
  BY DisplaceFacts DEF DeallocateRelease
<1>2. /\ place[m] = "inuse" /\ ~trimming /\ count' = [count EXCEPT ![m] = @ - 1]
      /\ count[m] \in 2 .. Slots
      /\ UNCHANGED <<countVars, trimming, iterator>>
  BY <1>1, DisplaceFacts DEF DeallocateRelease
<1>3. /\ next' = PushedNext(m) /\ prev' = PushedPrev(m) /\ partial_slabs' = PushedHead(m)
      /\ UNCHANGED <<empty_slabs, freeListVars, place, accessible>>
  BY <1>1 DEF DeallocateRelease, emptyListVars
<1>4. count'[m] = count[m] - 1 /\ \A x \in Slabs : x # m => count'[x] = count[x]
  BY <1>2 DEF TypedSlots
<1>5. /\ \A x \in Slabs : x # m => next'[x] = next[x]
      /\ \A x \in Slabs : place[x] = "unused" => prev'[x] = prev[x]
  <2>1. \A x \in Slabs : place[x] = "unused" => x # partial_slabs /\ x # m
    BY <1>2 DEF PartialInv, Partial, PlaceInv
  <2> QED BY <1>3, <2>1 DEF PushedNext, PushedPrev, TypedLists
<1>6. PartialInv'
  <2>1. Partial(m)'
    BY <1>2, <1>4 DEF Partial
  <2>2. \A x \in Slabs : x # m => (Partial(x)' <=> Partial(x))
    BY <1>4 DEF Partial
  <2>3. CASE has_free_slots(m)
    <3>1. Partial(m)
      BY <1>2, <2>3 DEF Partial, has_free_slots
    <3>2. next' = next /\ prev' = prev /\ partial_slabs' = partial_slabs
      BY <1>3, <2>3 DEF PushedNext, PushedPrev, PushedHead
    <3> QED BY <2>1, <2>2, <3>1, <3>2, PartialFrame
  <2>4. CASE ~has_free_slots(m)
    <3>1. ~Partial(m)
      BY <1>2, <2>4 DEF Partial, has_free_slots
    <3>2. /\ next' = [next EXCEPT ![m] = partial_slabs]
          /\ prev' = [x \in Slabs |-> CASE x = m -> NULL
                                        [] x # m /\ x = partial_slabs -> m
                                        [] OTHER -> prev[x]]
          /\ partial_slabs' = m
      BY <1>3, <2>4 DEF PushedNext, PushedPrev, PushedHead
    <3> QED BY <2>1, <2>2, <3>1, <3>2, PushKeepsPartial
  <2> QED BY <2>3, <2>4
<1>7. PlaceInv'
  BY <1>2, <1>3, <1>4, <1>5 DEF PlaceInv, countVars
<1>8. GuardInv'
  BY <1>2, <1>3 DEF GuardInv, countVars
<1>9. EmptyInv'
  <2>1. EmptyHead' = EmptyHead
    BY <1>2, <1>3 DEF EmptyHead
  <2> QED BY <1>2, <1>3, <1>5, <2>1, EmptyFrame
<1>10. FreeInv' /\ FreeQuarInv'
  BY <1>2, <1>3, <1>5, FreeFrame DEF Retired
<1>11. PagesMatchUse'
  BY <1>3 DEF PagesMatchUse, InPlace
<1> QED BY <1>6, <1>7, <1>8, <1>9, <1>10, <1>11

\* Unlinking a slab leaves the links of slabs outside the partial list alone.
LEMMA UnlinkFrame ==
  ASSUME TypedLists, PartialInv, NEW m \in Slabs, count[m] = 1
  PROVE  \A x \in Slabs : x # m /\ ~Partial(x) =>
           UnlinkedNext(m)[x] = next[x] /\ UnlinkedPrev(m)[x] = prev[x]
<1> USE SlabClassAssumption DEF TypedLists
<1>1. CASE has_free_slots(m)
  <2>1. Partial(m)
    BY <1>1 DEF Partial, has_free_slots
  <2>2. PushedNext(m) = next /\ PushedPrev(m) = prev
    BY <1>1 DEF PushedNext, PushedPrev
  <2> QED BY SMTT(30), <2>1, <2>2 DEF UnlinkedNext, UnlinkedPrev, PartialInv
<1>2. CASE ~has_free_slots(m)
  <2>1. /\ PushedNext(m) = [next EXCEPT ![m] = partial_slabs]
        /\ PushedPrev(m)[m] = NULL
        /\ \A x \in Slabs : x # m /\ x # partial_slabs => PushedPrev(m)[x] = prev[x]
    BY <1>2 DEF PushedNext, PushedPrev
  <2>2. \A x \in Slabs : ~Partial(x) => x # partial_slabs
    BY DEF PartialInv
  <2> QED BY <2>1, <2>2 DEF UnlinkedNext, UnlinkedPrev
<1> QED BY <1>1, <1>2

\* Unlinking a slab that lost its last used slot keeps the partial list whole.
LEMMA UnlinkKeepsPartial ==
  ASSUME Typed, TypedLists', PartialInv, NEW m \in Slabs, count[m] = 1,
         ~Partial(m)', \A x \in Slabs : x # m => (Partial(x)' <=> Partial(x)),
         prev' = UnlinkedPrev(m), partial_slabs' = UnlinkedHead(m),
         \A x \in Slabs : x # m /\ Partial(x) => next'[x] = UnlinkedNext(m)[x]
  PROVE  PartialInv'
<1> USE SlabClassAssumption DEF Typed, TypedLists
<1>1. CASE has_free_slots(m)
  <2>1. Partial(m)
    BY <1>1 DEF Partial, has_free_slots
  <2>2. PushedNext(m) = next /\ PushedPrev(m) = prev /\ PushedHead(m) = partial_slabs
    BY <1>1 DEF PushedNext, PushedPrev, PushedHead
  <2>3. /\ \A x \in Slabs : x # m /\ Partial(x) =>
             next'[x] = IF x = prev[m] THEN next[m] ELSE next[x]
        /\ \A x \in Slabs : x # m => prev'[x] = IF x = next[m] THEN prev[m] ELSE prev[x]
        /\ partial_slabs' = IF prev[m] # NULL THEN partial_slabs ELSE next[m]
    <3>1. UnlinkedNext(m) = IF prev[m] # NULL THEN [next EXCEPT ![prev[m]] = next[m]] ELSE next
      BY <2>2 DEF UnlinkedNext
    <3>2. \A x \in Slabs : x # m /\ Partial(x) =>
            next'[x] = IF x = prev[m] THEN next[m] ELSE next[x]
      BY <3>1
    <3>3. UnlinkedPrev(m) = [x \in Slabs |-> CASE x = m -> NULL
                                               [] x # m /\ x = next[m] -> prev[m]
                                               [] OTHER -> prev[x]]
      BY <2>2 DEF UnlinkedPrev
    <3>4. \A x \in Slabs : x # m => prev'[x] = IF x = next[m] THEN prev[m] ELSE prev[x]
      BY <3>3
    <3> QED BY <2>2, <3>2, <3>4 DEF UnlinkedHead
  <2>4. /\ partial_slabs' # NULL => Partial(partial_slabs') /\ partial_slabs' # m
                                    /\ prev'[partial_slabs'] = NULL
        /\ \A x \in Slabs : x # m /\ Partial(x) /\ prev'[x] = NULL => partial_slabs' = x
    BY <2>1, <2>3 DEF PartialInv
  <2>5. \A x \in Slabs : x # m /\ Partial(x) /\ prev'[x] # NULL =>
          Partial(prev'[x]) /\ prev'[x] # m /\ next'[prev'[x]] = x
    BY <2>1, <2>3 DEF PartialInv
  <2>6. \A x \in Slabs : x # m /\ Partial(x) /\ next'[x] # NULL =>
          Partial(next'[x]) /\ next'[x] # m /\ prev'[next'[x]] = x
    BY <2>1, <2>3 DEF PartialInv
  <2> QED BY <2>4, <2>5, <2>6 DEF PartialInv
<1>2. CASE ~has_free_slots(m)
  <2>1. ~Partial(m) /\ \A x \in Slabs : ~Partial(x)
    BY <1>2 DEF Partial, has_free_slots, TypedSlots
  <2>2. partial_slabs = NULL
    BY <2>1 DEF PartialInv
  <2>3. partial_slabs' = NULL
    BY <1>2, <2>2 DEF UnlinkedHead, PushedNext, PushedPrev, PushedHead
  <2>4. \A x \in Slabs : ~Partial(x)'
    BY <2>1
  <2> QED BY <2>3, <2>4 DEF PartialInv
<1> QED BY <1>1, <1>2

\* What emptying a slab does to the partial list, and what it leaves alone.
LEMMA EmptySlabFacts ==
  ASSUME Inv2, NEW p \in Ptr, NEW r \in Ptr, EmptySlab(p, r)
  PROVE  /\ r[1] \in Slabs /\ count[r[1]] = 1 /\ place[r[1]] = "inuse" /\ ~trimming
         /\ UNCHANGED <<countVars, trimming, iterator>>
         /\ count'[r[1]] = 0 /\ \A x \in Slabs : x # r[1] => count'[x] = count[x]
         /\ \A x \in Slabs : x # r[1] /\ place[x] # "inuse" =>
              UnlinkedNext(r[1])[x] = next[x] /\ prev'[x] = prev[x]
         /\ UnlinkedNext(r[1]) \in [Slabs -> Slabs \cup {NULL}]
<1>1. PICK m \in Slabs : m = r[1]
  BY DisplaceFacts DEF EmptySlab
<1>2. /\ place[m] = "inuse" /\ ~trimming /\ count[m] = 1
      /\ UNCHANGED <<countVars, trimming, iterator>>
      /\ count' = [count EXCEPT ![m] = @ - 1] /\ prev' = UnlinkedPrev(m)
  BY <1>1, DisplaceFacts DEF EmptySlab
<1>3. count'[m] = 0 /\ \A x \in Slabs : x # m => count'[x] = count[x]
  BY <1>2 DEF Inv2, Inv1, Typed, TypedSlots
<1>4. \A x \in Slabs : place[x] # "inuse" => ~Partial(x)
  BY DEF Inv2, ListInv, PlaceInv, Partial
<1>5. \A x \in Slabs : x # m /\ place[x] # "inuse" =>
        UnlinkedNext(m)[x] = next[x] /\ prev'[x] = prev[x]
  BY <1>2, <1>4, UnlinkFrame DEF Inv2, Inv1, Typed, ListInv
<1>6. UnlinkedNext(m) \in [Slabs -> Slabs \cup {NULL}]
  BY LinksTyped DEF Inv2, Inv1
<1> QED BY <1>1, <1>2, <1>3, <1>5, <1>6

\* A slab lost its last used slot and moved out of the slabs in use: the
\* partial list and the places stay consistent.
LEMMA EmptySlabKeeps ==
  ASSUME Inv2, TypedLists', NEW p \in Ptr, NEW r \in Ptr, EmptySlab(p, r),
         place'[r[1]] \notin {"inuse", "unused"},
         \A x \in Slabs : place[x] \in {"inuse", "unused"} /\ x # r[1] =>
           place'[x] = place[x] /\ next'[x] = UnlinkedNext(r[1])[x],
         \A x \in Slabs : place[x] \notin {"inuse", "unused"} =>
           place'[x] \notin {"inuse", "unused"}
  PROVE  PlaceInv' /\ GuardInv' /\ PartialInv'
<1> USE DEF Inv2, Inv1, ListInv
<1>1. PICK m \in Slabs : m = r[1]
  BY EmptySlabFacts
<1>2. /\ count[m] = 1 /\ place[m] = "inuse" /\ UNCHANGED countVars
      /\ count'[m] = 0 /\ \A x \in Slabs : x # m => count'[x] = count[x]
      /\ \A x \in Slabs : x # m /\ place[x] # "inuse" =>
           UnlinkedNext(m)[x] = next[x] /\ prev'[x] = prev[x]
  BY <1>1, EmptySlabFacts
<1>3. \A x \in Slabs : (place'[x] = "unused") <=> (place[x] = "unused")
  BY <1>1, <1>2
<1>4. \A x \in Slabs : (place'[x] = "inuse") <=> (place[x] = "inuse" /\ x # m)
  BY <1>1, <1>2
<1>5. PlaceInv'
  <2>1. \A x \in Slabs : place'[x] = "inuse" <=> count'[x] > 0
    BY <1>2, <1>4 DEF PlaceInv
  <2>2. \A x \in Slabs : place'[x] = "unused" => next'[x] = NULL /\ prev'[x] = NULL
    BY <1>1, <1>2, <1>3 DEF PlaceInv
  <2> QED BY <1>2, <1>3, <2>1, <2>2 DEF PlaceInv, countVars
<1>6. GuardInv'
  <2>1. ASSUME NEW x \in Slabs, x + GuardInterval < MetadataMax
        PROVE  \E g \in x .. x + GuardInterval : place'[g] = "unused"
    <3>1. PICK g \in x .. x + GuardInterval : place[g] = "unused"
      BY <2>1 DEF GuardInv
    <3>2. g \in Slabs
      BY <2>1, SlabClassAssumption DEF Slabs
    <3> QED BY <1>3, <3>1, <3>2
  <2> QED BY <1>2, <1>3, <2>1 DEF GuardInv, countVars
<1>7. PartialInv'
  <2>1. ~Partial(m)' /\ \A x \in Slabs : x # m => (Partial(x)' <=> Partial(x))
    BY <1>2 DEF Partial
  <2>2. prev' = UnlinkedPrev(m) /\ partial_slabs' = UnlinkedHead(m)
    BY <1>1 DEF EmptySlab
  <2>3. \A x \in Slabs : x # m /\ Partial(x) => next'[x] = UnlinkedNext(m)[x]
    BY <1>1 DEF PlaceInv, Partial
  <2> QED BY <1>2, <2>1, <2>2, <2>3, UnlinkKeepsPartial
<1> QED BY <1>5, <1>6, <1>7

\* The slab goes back to the kernel and into the free lists.
LEMMA DeallocateFreesSlab2 ==
  ASSUME Inv2, TypedLists', NEW p \in Ptr, NEW r \in Ptr, DeallocateFreesSlab(p, r)
  PROVE  (ListInv /\ PagesMatchUse)'
<1> USE DEF Inv2, Inv1, Typed, ListInv
<1>1. PICK m \in Slabs : m = r[1]
  BY EmptySlabFacts DEF DeallocateFreesSlab
<1>2. /\ place[m] = "inuse" /\ ~trimming /\ UNCHANGED <<trimming, iterator>>
      /\ \A x \in Slabs : x # m /\ place[x] # "inuse" => UnlinkedNext(m)[x] = next[x]
      /\ UnlinkedNext(m) \in [Slabs -> Slabs \cup {NULL}]
  BY <1>1, EmptySlabFacts DEF DeallocateFreesSlab
<1>3. /\ FreeInv' /\ FreeQuarInv' /\ place'[m] \in Retired
      /\ \A x \in Slabs : place[x] \in Retired => place'[x] \in Retired
      /\ \A x \in Slabs : x # m /\ place[x] \notin Retired
                            => place'[x] = place[x] /\ next'[x] = UnlinkedNext(m)[x]
  BY <1>1, <1>2, EnqueueKeeps DEF DeallocateFreesSlab, Retired
<1>4. PlaceInv' /\ GuardInv' /\ PartialInv'
  <2>1. /\ place'[m] \notin {"inuse", "unused"}
        /\ \A x \in Slabs : place[x] \in {"inuse", "unused"} /\ x # m =>
             place'[x] = place[x] /\ next'[x] = UnlinkedNext(m)[x]
        /\ \A x \in Slabs : place[x] \notin {"inuse", "unused"} =>
             place'[x] \notin {"inuse", "unused"}
    BY <1>2, <1>3 DEF Retired
  <2> QED BY <1>1, <2>1, EmptySlabKeeps DEF DeallocateFreesSlab
<1>5. EmptyInv'
  <2>1. EmptyHead' = EmptyHead
    BY <1>2 DEF EmptyHead, DeallocateFreesSlab, emptyListVars
  <2>2. /\ \A x \in Slabs : place[x] = "empty" => place'[x] = "empty" /\ next'[x] = next[x]
        /\ \A x \in Slabs : place'[x] = "empty" => place[x] = "empty"
    BY <1>2, <1>3 DEF Retired
  <2> QED BY <2>1, <2>2, EmptyFrame
<1>6. PagesMatchUse'
  <2>1. accessible' = accessible \ {m}
    BY <1>1 DEF DeallocateFreesSlab, MapFixed
  <2>2. \A x \in Slabs : place'[x] \in {"inuse", "empty"}
                           <=> place[x] \in {"inuse", "empty"} /\ x # m
    BY <1>2, <1>3 DEF Retired
  <2> QED BY <2>1, <2>2 DEF PagesMatchUse, InPlace
<1> QED BY <1>3, <1>4, <1>5, <1>6

\* The slab becomes the head of the cached empty slabs.
LEMMA DeallocateCachesSlab2 ==
  ASSUME Inv2, TypedLists', NEW p \in Ptr, NEW r \in Ptr, DeallocateCachesSlab(p, r)
  PROVE  (ListInv /\ PagesMatchUse)'
<1> USE SlabClassAssumption DEF Inv2, Inv1, Typed, ListInv
<1>1. PICK m \in Slabs : m = r[1]
  BY EmptySlabFacts DEF DeallocateCachesSlab
<1>2. /\ place[m] = "inuse" /\ ~trimming /\ UNCHANGED <<trimming, iterator>>
      /\ \A x \in Slabs : x # m /\ place[x] # "inuse" => UnlinkedNext(m)[x] = next[x]
      /\ UnlinkedNext(m) \in [Slabs -> Slabs \cup {NULL}]
  BY <1>1, EmptySlabFacts DEF DeallocateCachesSlab
<1>3. /\ next' = [UnlinkedNext(m) EXCEPT ![m] = empty_slabs]
      /\ empty_slabs' = m /\ place' = [place EXCEPT ![m] = "empty"]
      /\ UNCHANGED <<freeListVars, accessible>>
  BY <1>1 DEF DeallocateCachesSlab, Purge
<1>4. /\ place'[m] = "empty" /\ next'[m] = empty_slabs
      /\ \A x \in Slabs : x # m => place'[x] = place[x] /\ next'[x] = UnlinkedNext(m)[x]
  BY <1>2, <1>3 DEF TypedLists
<1>5. PlaceInv' /\ GuardInv' /\ PartialInv'
  <2>1. /\ place'[m] \notin {"inuse", "unused"}
        /\ \A x \in Slabs : place[x] \in {"inuse", "unused"} /\ x # m =>
             place'[x] = place[x] /\ next'[x] = UnlinkedNext(m)[x]
        /\ \A x \in Slabs : place[x] \notin {"inuse", "unused"} =>
             place'[x] \notin {"inuse", "unused"}
    BY <1>2, <1>4
  <2> QED BY <1>1, <2>1, EmptySlabKeeps DEF DeallocateCachesSlab
<1>6. EmptyInv'
  <2>1. EmptyHead = empty_slabs /\ EmptyHead' = m
    BY <1>2, <1>3 DEF EmptyHead
  <2>2. \A x \in Slabs : place'[x] = "empty" <=> place[x] = "empty" \/ x = m
    BY <1>4
  <2>3. \A x \in Slabs : place[x] = "empty" => next'[x] = next[x] /\ x # m
    BY <1>2, <1>4
  <2> QED BY SMTT(30), <1>2, <1>4, <2>1, <2>2, <2>3 DEF EmptyInv, Linked, TypedLists
<1>7. FreeInv' /\ FreeQuarInv'
  BY <1>2, <1>3, <1>4, FreeFrame DEF Retired
<1>8. PagesMatchUse'
  BY <1>2, <1>3, <1>4 DEF PagesMatchUse, InPlace
<1> QED BY <1>5, <1>6, <1>7, <1>8

\* h_malloc_trim: while it runs, its iterator is the head of the empty slabs.
LEMMA Trim2 ==
  ASSUME Inv2, TypedLists', TrimStart \/ TrimSlab \/ TrimEnd
  PROVE  (ListInv /\ PagesMatchUse)'
<1> USE SlabClassAssumption DEF Inv2, Inv1, Typed, ListInv
<1>1. CASE TrimStart \/ TrimEnd
  <2>1. /\ UNCHANGED <<countVars, count, next, prev, partial_slabs, freeListVars, place,
                       accessible>>
        /\ EmptyHead' = EmptyHead
    BY <1>1 DEF TrimStart, TrimEnd, slotVars, listVars, emptyListVars, memoryVars,
                EmptyHead, Available
  <2>2. (PlaceInv /\ GuardInv /\ PartialInv)'
    BY <2>1 DEF PlaceInv, GuardInv, PartialInv, Partial, countVars
  <2>3. (FreeInv /\ FreeQuarInv)'
    BY <2>1 DEF FreeInv, FreeQuarInv, Linked, freeListVars
  <2>4. EmptyInv'
    BY <2>1, EmptyFrame
  <2>5. PagesMatchUse'
    BY <2>1 DEF PagesMatchUse, InPlace
  <2> QED BY <2>2, <2>3, <2>4, <2>5
<1>2. CASE TrimSlab
  <2>1. PICK m \in Slabs : m = iterator
    BY <1>2 DEF TrimSlab, TypedLists
  <2>2. /\ trimming /\ m # NULL /\ iterator' = next[m] /\ trimming' = trimming
        /\ EnqueueFreeSlab(m, next)
        /\ UNCHANGED <<countVars, count, prev, partial_slabs>>
        /\ accessible' = accessible \ {m}
    BY <1>2, <2>1 DEF TrimSlab, slotVars, MapFixed
  <2>3. EmptyHead = m /\ EmptyHead' = next[m] /\ place[m] = "empty"
    BY <2>1, <2>2 DEF EmptyHead, EmptyInv, Linked
  <2>4. /\ FreeInv' /\ FreeQuarInv' /\ place'[m] \in Retired
        /\ \A x \in Slabs : place[x] \in Retired => place'[x] \in Retired
        /\ \A x \in Slabs : x # m /\ place[x] \notin Retired
                              => place'[x] = place[x] /\ next'[x] = next[x]
    BY <2>2, <2>3, EnqueueEmptyKeeps
  <2>5. /\ \A x \in Slabs : (place'[x] = "unused") <=> (place[x] = "unused")
        /\ \A x \in Slabs : (place'[x] = "inuse") <=> (place[x] = "inuse")
        /\ \A x \in Slabs : (place'[x] = "empty") <=> (place[x] = "empty" /\ x # m)
    BY <2>3, <2>4 DEF Retired
  <2>6. PlaceInv'
    <3>1. \A x \in Slabs : place'[x] = "unused" => next'[x] = NULL /\ prev'[x] = NULL
      BY <2>2, <2>3, <2>4, <2>5 DEF PlaceInv, Retired
    <3> QED BY <2>2, <2>5, <3>1 DEF PlaceInv, countVars
  <2>7. GuardInv'
    <3>1. ASSUME NEW x \in Slabs, x + GuardInterval < MetadataMax
          PROVE  \E g \in x .. x + GuardInterval : place'[g] = "unused"
      <4>1. PICK g \in x .. x + GuardInterval : place[g] = "unused"
        BY <3>1 DEF GuardInv
      <4>2. g \in Slabs
        BY <3>1 DEF Slabs
      <4> QED BY <2>5, <4>1, <4>2
    <3> QED BY <2>2, <2>5, <3>1 DEF GuardInv, countVars
  <2>8. PartialInv'
    <3>1. \A x \in Slabs : Partial(x) => next'[x] = next[x]
      BY <2>3, <2>4 DEF Partial, PlaceInv, Retired
    <3>2. \A x \in Slabs : Partial(x)' <=> Partial(x)
      BY <2>2 DEF Partial
    <3> QED BY <2>2, <3>1, <3>2, PartialFrame
  <2>9. EmptyInv'
    <3>1. \A x \in Slabs : place'[x] = "empty" => next'[x] = next[x] /\ x # m
      BY <2>4, <2>5 DEF Retired
    <3> QED BY <2>3, <2>5, <3>1 DEF EmptyInv, Linked, TypedLists
  <2>10. PagesMatchUse'
    BY <2>2, <2>3, <2>5 DEF PagesMatchUse, InPlace
  <2> QED BY <2>4, <2>6, <2>7, <2>8, <2>9, <2>10
<1> QED BY <1>1, <1>2

\* Every step preserves the second layer.
LEMMA Next2 == Inv2 /\ [Next]_vars => Inv2'
<1> SUFFICES ASSUME Inv2, [Next]_vars PROVE Inv2'
  OBVIOUS
<1>1. Inv1' /\ TypedLists'
  BY Next1 DEF Inv2, Inv1, Typed
<1> SUFFICES (ListInv /\ PagesMatchUse)'
  BY <1>1 DEF Inv2
<1>2. CASE UNCHANGED vars
  BY <1>2, ListsUnchanged DEF vars, slotVars, memoryVars
<1>3. CASE \/ AllocateFromPartial \/ AllocateFromEmpty \/ AllocateFromFree
           \/ AllocateFromNew
  BY <1>3, AllocateFromPartial2, AllocateFromEmpty2, AllocateFromFree2, AllocateFromNew2
<1>4. CASE FreeSlabProtectFails \/ NewSlabProtectFails
  BY <1>4, ProtectFails2
<1>5. ASSUME NEW why, NEW p, Fatal(why, p) PROVE (ListInv /\ PagesMatchUse)'
  BY <1>5, ListsUnchanged DEF Fatal, slotVars, memoryVars
<1>6. CASE AllocateAborts
  BY <1>5, <1>6 DEF AllocateAborts
<1>7. CASE \E m \in InputSlabs, s \in InputSlots, aligned, sizeMatches \in BOOLEAN :
             DeallocateAborts(m, s, aligned, sizeMatches)
  BY <1>5, <1>7 DEF DeallocateAborts
<1>8. CASE \E m \in InputSlabs, s \in InputSlots, aligned \in BOOLEAN :
             UsableSizeAborts(m, s, aligned)
  BY <1>5, <1>8 DEF UsableSizeAborts
<1>9. CASE \E p \in Ptr : DeallocateHeld(p)
  <2>1. UNCHANGED <<countVars, count, listVars, trimVars, accessible>>
    BY <1>9 DEF DeallocateHeld
  <2> QED BY <2>1, ListsUnchanged
<1>10. CASE \E p, r \in Ptr : \/ DeallocateRelease(p, r) \/ DeallocateFreesSlab(p, r)
                             \/ DeallocateCachesSlab(p, r)
  BY <1>1, <1>10, DeallocateRelease2, DeallocateFreesSlab2, DeallocateCachesSlab2
<1>11. CASE TrimStart \/ TrimSlab \/ TrimEnd
  BY <1>1, <1>11, Trim2
<1>12. CASE \E p \in Ptr : Write(p) \/ StrayWrite(p) \/ Overflow(p)
  <2>1. UNCHANGED <<countVars, count, listVars, trimVars, accessible>>
    BY <1>12 DEF Write, StrayWrite, Overflow, slotVars
  <2> QED BY <2>1, ListsUnchanged
<1> QED BY <1>2, <1>3, <1>4, <1>6, <1>7, <1>8, <1>9, <1>10, <1>11, <1>12 DEF Next

\* The lists of every class stay well formed and the pages follow the lists,
\* through every interleaving of allocations, frees, failures and trims.
THEOREM Layer2 == Spec => []Inv2
<1>1. Init => Inv2
  BY Init1, Init2 DEF Inv2
<1>2. Inv2 /\ [Next]_vars => Inv2'
  BY Next2
<1> QED BY <1>1, <1>2, PTL DEF Spec

\* Pages are accessible exactly while their slab holds used slots or is cached.
THEOREM PagesMatchUseHolds == Spec => []PagesMatchUse
<1>1. Inv2 => PagesMatchUse
  BY DEF Inv2
<1> QED BY <1>1, Layer2, PTL

\* Guard slabs stay: one slab in any GuardInterval + 1 is never made
\* accessible, whatever the interval, the region size and the growth steps of
\* the metadata array.
THEOREM GuardsStayHolds == Spec => []GuardsStay
<1>1. Inv2 => GuardsStay
  <2> SUFFICES ASSUME Inv2 PROVE GuardsStay
    OBVIOUS
  <2>1. \A m \in Slabs : place[m] # "unused" => m < metadata_allocated
    BY DEF Inv2, ListInv, PlaceInv
  <2>2. ASSUME NEW m \in Slabs, m + GuardInterval < MetadataMax
        PROVE  \E g \in m .. m + GuardInterval : place[g] = "unused" /\ g \notin accessible
    <3>1. PICK g \in m .. m + GuardInterval : place[g] = "unused"
      BY <2>2 DEF Inv2, ListInv, GuardInv
    <3>2. g \notin accessible
      BY <3>1 DEF Inv2, PagesMatchUse, InPlace
    <3> QED BY <3>1, <3>2
  <2> QED BY <2>1, <2>2 DEF GuardsStay
<1> QED BY <1>1, Layer2, PTL
=============================================================================

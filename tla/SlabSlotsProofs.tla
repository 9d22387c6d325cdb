-------------------------- MODULE SlabSlotsProofs --------------------------
(***************************************************************************)
(* Proofs about SlabSlots, for every word width, number of slots and       *)
(* number of tags: the search through the words finds the first free slot  *)
(* from any start, the exclusion mask of tag_and_clear_slab_slot makes     *)
(* tags catch overflows and uses after free, and switching tagging off     *)
(* kills no correct program.                                               *)
(***************************************************************************)
EXTENDS SlabSlots, FiniteSetTheorems, WellFoundedInduction, TLAPS

-----------------------------------------------------------------------------
(* The inductive invariant                                                 *)

\* The types; a canary in memory is the slab's or was never written.
Typed ==
  /\ slots \in SlotCounts /\ mte \in BOOLEAN /\ released \in BOOLEAN
  /\ bitmap \in [Words -> SUBSET AllOnes]
  /\ tags \in [Bytes -> 0 .. Tags * Tags - 1]
  /\ memory \in [Slot -> [tag : 0 .. Tags - 1, data : {0, 1}, canary : {0, canary}]]
  /\ pointer \in [Slot -> 0 .. Tags - 1]

\* No bit is set beyond the slots of the slab.
BitsInside == \A i \in Words : \A b \in bitmap[i] : i * Width + b < slots

UsedSlots == {s \in Slot : is_used_slot(s)}
Counted == count = Cardinality(UsedSlots)

\* What malloc finds: free memory is zero, and a slab that is not mapped is unused.
FreeIsZero ==
  /\ \A s \in Slot : ~is_used_slot(s) => memory[s].data = 0
  /\ released => \A s \in Slot : ~is_used_slot(s) /\ memory[s] = Zeroed

\* Under tagging: the packed array has the tag of the last pointer to each slot,
\* which the memory has too while the slot is in use; neighbours differ.
Tagged ==
  mte => \A s \in Slot :
    /\ u4_arr_get(tags, s + 1) = pointer[s]
    /\ memory[s].tag = IF is_used_slot(s) THEN pointer[s] ELSE RESERVED_TAG
    /\ is_used_slot(s) => pointer[s] # RESERVED_TAG
    /\ s + 1 \in Slot /\ pointer[s] # RESERVED_TAG => pointer[s] # pointer[s + 1]

SlabInv == Typed /\ BitsInside /\ Counted /\ FreeIsZero /\ Tagged /\ NoFalseAbort

-----------------------------------------------------------------------------
(* Arithmetic of words and of packed pairs                                 *)

\* A set of numbers has a least one, which Min returns.
LEMMA MinIs ==
  ASSUME NEW S, S \subseteq Nat, S # {}
  PROVE  Min(S) \in S /\ \A y \in S : Min(S) <= y
<1>1. IsWellFoundedOn(OpToRel(<, Nat), Nat)
  BY NatLessThanWellFounded
<1>2. \E x \in S : \A y \in S : ~(<<y, x>> \in OpToRel(<, Nat))
  BY <1>1, WFMin
<1>3. PICK x \in S : \A y \in S : ~(<<y, x>> \in OpToRel(<, Nat))
  BY <1>2
<1>4. \A y \in S : ~(y < x)
  BY <1>3 DEF OpToRel
<1>5. \A y \in S : x <= y
  BY <1>4
<1> QED BY <1>5 DEF Min

\* What is in the set and not above any of its elements is its Min.
LEMMA IsMin ==
  ASSUME NEW S, S \subseteq Nat, NEW m \in S, \A y \in S : m <= y
  PROVE  Min(S) = m
<1>1. Min(S) \in S /\ Min(S) <= m
  BY MinIs
<1>2. m <= Min(S) /\ m \in Nat /\ Min(S) \in Nat
  BY <1>1
<1> QED BY <1>1, <1>2

\* Quotient and remainder are determined by the number.
LEMMA Join ==
  ASSUME NEW w \in Nat, w > 0, NEW i \in Nat, NEW b \in 0 .. w - 1
  PROVE  (i * w + b) \div w = i /\ (i * w + b) % w = b
OBVIOUS

\* A number is its quotient times the divisor plus its remainder.
LEMMA Split ==
  ASSUME NEW w \in Nat, w > 0, NEW s \in Nat
  PROVE  s \div w \in Nat /\ s % w \in 0 .. w - 1 /\ s = (s \div w) * w + (s % w)
<1>1. s \div w \in Nat
  OBVIOUS
<1>2. (s \div w) * w <= s
  OBVIOUS
<1>3. s < (s \div w) * w + w
  OBVIOUS
<1>4. PICK q \in Nat : q = s \div w
  BY <1>1
<1>5. PICK b \in Int : b = s - q * w
  BY <1>4
<1>6. q * w <= s /\ s < q * w + w
  BY <1>2, <1>3, <1>4
<1>7. b \in 0 .. w - 1 /\ s = q * w + b
  BY <1>5, <1>6
<1>8. s % w = b
  BY <1>7, Join
<1> QED BY <1>4, <1>7, <1>8

\* Slots of an earlier word come before those of a later one.
LEMMA Apart ==
  ASSUME NEW w \in Nat, w > 0, NEW i \in Nat, NEW j \in Nat, i < j
  PROVE  i * w + w <= j * w
OBVIOUS

\* What u4_arr_set writes to one half of a byte, u4_arr_get finds there, and it
\* finds the other half as it was.
LEMMA PackedByte ==
  ASSUME NEW T \in Nat, T > 4, NEW x \in 0 .. T * T - 1, NEW v \in 0 .. T - 1
  PROVE  /\ x - (x % T) + v \in 0 .. T * T - 1
         /\ (x - (x % T) + v) % T = v
         /\ (x - (x % T) + v) \div T = x \div T
         /\ (x % T) + v * T \in 0 .. T * T - 1
         /\ ((x % T) + v * T) % T = x % T
         /\ ((x % T) + v * T) \div T = v
         /\ x \div T \in 0 .. T - 1 /\ x % T \in 0 .. T - 1
<1> DEFINE q == x \div T
<1> DEFINE r == x % T
<1>1. q \in Nat /\ r \in 0 .. T - 1 /\ x = q * T + r /\ T * T \in Nat
  BY Split
<1>2. q < T
  <2> HIDE DEF q, r
  <2> SUFFICES ASSUME q >= T PROVE FALSE
    BY <1>1
  <2>1. q * T >= T * T
    BY <1>1
  <2> QED BY <1>1, <2>1
<1>3. x - r + v = q * T + v
  BY <1>1
<1>4. q * T + v \in 0 .. T * T - 1 /\ r + v * T = v * T + r /\ v * T + r \in 0 .. T * T - 1
  <2> HIDE DEF q, r
  <2>1. q * T + T <= T * T /\ v * T + T <= T * T /\ q * T \in Nat /\ v * T \in Nat
    BY <1>1, <1>2
  <2> QED BY <1>1, <2>1
<1>5. /\ (q * T + v) % T = v /\ (q * T + v) \div T = q
      /\ (v * T + r) % T = r /\ (v * T + r) \div T = v
  <2> HIDE DEF q, r
  <2> QED BY <1>1, Join
<1> QED BY <1>1, <1>2, <1>3, <1>4, <1>5

\* The words wrap after the last one.
LEMMA Wrap ==
  ASSUME NEW n \in Nat, n > 0, NEW a \in Nat
  PROVE  /\ a < n => a % n = a
         /\ a >= n /\ a < n + n => a % n = a - n
<1>1. ASSUME a < n PROVE a % n = a
  <2>1. a = 0 * n + a /\ a \in 0 .. n - 1
    BY <1>1
  <2> QED BY <2>1, Join
<1>2. ASSUME a >= n, a < n + n PROVE a % n = a - n
  <2>1. PICK b \in 0 .. n - 1 : b = a - n
    BY <1>2
  <2>2. a = 1 * n + b
    BY <2>1
  <2> QED BY <2>1, <2>2, Join
<1> QED BY <1>1, <1>2

-----------------------------------------------------------------------------
(* Words and slots                                                         *)

\* The last word is one of the four, and the last slot lies in it.
LEMMA WordCount ==
  ASSUME Typed
  PROVE  /\ Width \in Nat /\ Width > 0 /\ slots \in Nat /\ slots > 0 /\ slots <= 4 * Width
         /\ LastWord \in Words
         /\ LastWord * Width <= slots - 1 /\ slots - 1 < LastWord * Width + Width
<1>1. Width \in Nat /\ Width > 0 /\ slots \in Nat /\ slots > 0 /\ slots <= 4 * Width
  BY SlabSlotsAssumption DEF Typed
<1>2. PICK L \in Nat : /\ L = LastWord
                       /\ L * Width <= slots - 1 /\ slots - 1 < L * Width + Width
  <2>1. slots - 1 \in Nat
    BY <1>1
  <2>2. /\ (slots - 1) \div Width \in Nat /\ (slots - 1) % Width \in 0 .. Width - 1
        /\ slots - 1 = ((slots - 1) \div Width) * Width + ((slots - 1) % Width)
    BY <1>1, <2>1, Split
  <2>3. PICK L \in Nat, b \in 0 .. Width - 1 : L = LastWord /\ slots - 1 = L * Width + b
    BY <2>2 DEF LastWord
  <2>4. L * Width <= slots - 1 /\ slots - 1 < L * Width + Width
    BY <1>1, <2>3
  <2> QED BY <2>3, <2>4
<1>3. L <= 3
  <2> SUFFICES ASSUME 3 < L PROVE FALSE
    BY <1>2
  <2>1. 3 * Width + Width <= L * Width
    BY <1>1, Apart
  <2> QED BY <1>1, <1>2, <2>1
<1> QED BY <1>1, <1>2, <1>3 DEF Words

\* Each slot has a bit in one of the words in use.
LEMMA SlotWord ==
  ASSUME Typed, NEW s \in Slot
  PROVE  /\ s \div Width \in 0 .. LastWord /\ s \div Width \in Words /\ s % Width \in AllOnes
         /\ s = (s \div Width) * Width + (s % Width)
<1>1. /\ Width \in Nat /\ Width > 0 /\ slots \in Nat /\ slots > 0 /\ s \in Nat /\ s <= slots - 1
      /\ LastWord \in 0 .. 3 /\ slots - 1 < LastWord * Width + Width
  BY WordCount DEF Slot, Words
<1>2. PICK q \in Nat, b \in 0 .. Width - 1 :
        q = s \div Width /\ b = s % Width /\ s = q * Width + b
  BY <1>1, Split
<1>3. PICK L \in 0 .. 3 : L = LastWord
  BY <1>1
<1>4. q <= L
  <2> SUFFICES ASSUME L < q PROVE FALSE
    BY <1>2, <1>3
  <2>1. L * Width + Width <= q * Width
    BY <1>1, <1>2, <1>3, Apart
  <2> QED BY <1>1, <1>2, <1>3, <2>1
<1> QED BY <1>2, <1>3, <1>4 DEF Words, AllOnes

\* A bit of a word in use that stands for a slot.
LEMMA BitSlot ==
  ASSUME Typed, NEW i \in Nat, NEW b \in AllOnes
  PROVE  /\ i * Width + b \in Nat
         /\ (i * Width + b) \div Width = i /\ (i * Width + b) % Width = b
         /\ is_used_slot(i * Width + b) <=> b \in bitmap[i]
<1>1. Width \in Nat /\ Width > 0
  BY WordCount
<1>2. (i * Width + b) \div Width = i /\ (i * Width + b) % Width = b
  BY <1>1, Join DEF AllOnes
<1>3. i * Width + b \in Nat
  BY <1>1 DEF AllOnes
<1> QED BY <1>2, <1>3 DEF is_used_slot

\* The bits outside the slab, as both searches mask them.
LEMMA OutsideIs ==
  ASSUME Typed, NEW i \in 0 .. LastWord, NEW b \in AllOnes
  PROVE  b \in Outside(i) <=> ~(i * Width + b < slots)
<1>1. /\ Width \in Nat /\ Width > 0 /\ slots \in Nat /\ slots > 0 /\ LastWord \in 0 .. 3
      /\ LastWord * Width <= slots - 1 /\ b \in 0 .. Width - 1
  BY WordCount DEF Words, AllOnes
<1>2. PICK q \in Nat, e \in 0 .. Width - 1 : q = slots \div Width /\ slots = q * Width + e
  BY <1>1, Split
<1>3. PICK L \in 0 .. 3 : L = LastWord /\ i <= L /\ i \in Nat /\ L * Width <= slots - 1
  BY <1>1
<1>4. L <= q
  <2> SUFFICES ASSUME q < L PROVE FALSE
    BY <1>2, <1>3
  <2>1. q * Width + Width <= L * Width
    BY <1>1, <1>2, <1>3, Apart
  <2> QED BY <1>1, <1>2, <1>3, <2>1
<1>5. CASE i = q
  <2>1. Outside(i) = slots - i * Width .. Width - 1
    BY <1>2, <1>5 DEF Outside, get_mask
  <2>2. slots - i * Width = e /\ i * Width \in Nat
    BY <1>1, <1>2, <1>5
  <2> QED BY <1>1, <2>1, <2>2
<1>6. CASE i < q
  <2>1. Outside(i) = {}
    BY <1>2, <1>3, <1>6 DEF Outside
  <2>2. i * Width + Width <= q * Width
    BY <1>1, <1>2, <1>3, <1>6, Apart
  <2>3. i * Width \in Nat /\ q * Width \in Nat
    BY <1>1, <1>2, <1>3
  <2>4. i * Width + b < slots
    BY <1>1, <1>2, <2>2, <2>3
  <2> QED BY <2>1, <2>4
<1> QED BY <1>2, <1>3, <1>4, <1>5, <1>6

\* What the mask leaves of a word are the free slots in it.
LEMMA WordFree ==
  ASSUME Typed, NEW i \in 0 .. LastWord, NEW b \in AllOnes
  PROVE  b \notin bitmap[i] \cup Outside(i) <=> i * Width + b \in FreeSlots
<1>1. i \in Nat /\ slots \in Nat
  BY WordCount DEF Words
<1>2. i * Width + b \in Nat /\ (is_used_slot(i * Width + b) <=> b \in bitmap[i])
  BY <1>1, BitSlot
<1>3. b \in Outside(i) <=> ~(i * Width + b < slots)
  BY OutsideIs
<1>4. i * Width + b \in Slot <=> i * Width + b < slots
  BY <1>1, <1>2 DEF Slot
<1> QED BY <1>2, <1>3, <1>4 DEF FreeSlots

-----------------------------------------------------------------------------
(* The search                                                              *)

\* The word that the search from r looks at in its n-th round, and what it
\* leaves of it after masking.
WordAt(r, n) == (r \div Width + n) % (LastWord + 1)
LeftAt(r, n) ==
  AllOnes \ (bitmap[WordAt(r, n)] \cup Outside(WordAt(r, n))
               \cup (IF n = 0 THEN 0 .. (r % Width) - 1 ELSE {}))

\* The rounds go up to the last word and on from the first, back to r's own.
LEMMA Rounds ==
  ASSUME Typed, NEW r \in Slot, NEW n \in 0 .. LastWord + 1
  PROVE  /\ WordAt(r, n) \in 0 .. LastWord
         /\ r \div Width + n <= LastWord => WordAt(r, n) = r \div Width + n
         /\ r \div Width + n > LastWord => WordAt(r, n) = r \div Width + n - (LastWord + 1)
<1>1. PICK q \in Nat : q = r \div Width /\ q \in 0 .. LastWord
  BY SlotWord
<1>2. PICK L \in Nat : L = LastWord
  BY WordCount DEF Words
<1>3. WordAt(r, n) = (q + n) % (L + 1)
  BY <1>1, <1>2 DEF WordAt
<1>4. q + n \in Nat /\ q + n < (L + 1) + (L + 1) /\ L + 1 \in Nat /\ L + 1 > 0
  BY <1>1, <1>2
<1>5. /\ q + n < L + 1 => (q + n) % (L + 1) = q + n
      /\ q + n >= L + 1 => (q + n) % (L + 1) = q + n - (L + 1)
  BY <1>4, Wrap
<1> QED BY <1>1, <1>2, <1>3, <1>4, <1>5

\* What is left of a word in a round are its free slots, but only those from r on
\* when the search starts.
LEMMA LeftIs ==
  ASSUME Typed, NEW r \in Slot, NEW n \in 0 .. LastWord + 1, NEW b \in AllOnes
  PROVE  b \in LeftAt(r, n) <=> /\ WordAt(r, n) * Width + b \in FreeSlots
                                /\ n = 0 => b >= r % Width
<1>1. WordAt(r, n) \in 0 .. LastWord
  BY Rounds
<1>2. PICK i \in 0 .. LastWord : i = WordAt(r, n)
  BY <1>1
<1>3. b \notin bitmap[i] \cup Outside(i) <=> i * Width + b \in FreeSlots
  BY WordFree
<1>4. r % Width \in Nat /\ b \in Nat
  BY SlotWord, WordCount DEF AllOnes
<1>5. b \in 0 .. (r % Width) - 1 <=> ~(b >= r % Width)
  BY <1>4
<1> QED BY <1>2, <1>3, <1>5 DEF LeftAt

\* get_free_slot takes the first bit left in the first round that leaves one.
LEMMA SearchIs ==
  ASSUME Typed, NEW r \in Slot
  PROVE  LET J == {n \in 0 .. LastWord + 1 : LeftAt(r, n) # {}}
         IN  get_free_slot(r) = Min(LeftAt(r, Min(J))) + WordAt(r, Min(J)) * Width
<1> DEFINE M(n) == bitmap[WordAt(r, n)] \cup Outside(WordAt(r, n))
                     \cup (IF n = 0 THEN 0 .. (r % Width) - 1 ELSE {})
<1> DEFINE J == {n \in 0 .. LastWord + 1 : LeftAt(r, n) # {}}
<1>1. ASSUME NEW n \in 0 .. LastWord + 1
      PROVE  M(n) # AllOnes <=> LeftAt(r, n) # {}
  <2>1. WordAt(r, n) \in 0 .. LastWord /\ LastWord \in 0 .. 3
    BY Rounds, WordCount DEF Words
  <2>2. bitmap[WordAt(r, n)] \subseteq AllOnes
    BY <2>1 DEF Typed, Words
  <2>3. Outside(WordAt(r, n)) \subseteq AllOnes
    <3>1. PICK i \in 0 .. LastWord : i = WordAt(r, n)
      BY <2>1
    <3>2. i * Width <= slots /\ slots \in Nat /\ Width \in Nat /\ i * Width \in Nat
      <4>1. /\ Width \in Nat /\ slots \in Nat /\ i \in Nat /\ LastWord \in Nat /\ i <= LastWord
            /\ LastWord * Width <= slots - 1 /\ Width > 0
        BY <2>1, <3>1, WordCount
      <4>2. CASE i = LastWord
        BY <4>1, <4>2
      <4>3. CASE i < LastWord
        <5>1. i * Width + Width <= LastWord * Width
          BY <4>1, <4>3, Apart
        <5> QED BY <4>1, <5>1
      <4> QED BY <4>1, <4>2, <4>3
    <3>3. Outside(i) = {} \/ Outside(i) = slots - i * Width .. Width - 1
      BY DEF Outside, get_mask
    <3> QED BY <3>1, <3>2, <3>3 DEF AllOnes
  <2>4. 0 .. (r % Width) - 1 \subseteq AllOnes
    BY SlotWord, WordCount DEF AllOnes
  <2>5. M(n) \subseteq AllOnes
    BY <2>2, <2>3, <2>4
  <2>6. LeftAt(r, n) = AllOnes \ M(n)
    BY DEF LeftAt
  <2> HIDE DEF M
  <2> QED BY <2>5, <2>6
<1>2. J = {n \in 0 .. LastWord + 1 : M(n) # AllOnes}
  <2> HIDE DEF M
  <2> QED BY <1>1
<1>3. get_free_slot(r) = LET k == Min({n \in 0 .. LastWord + 1 : M(n) # AllOnes})
                         IN  Min(AllOnes \ M(k)) + WordAt(r, k) * Width
  BY DEF get_free_slot, WordAt
<1>4. LeftAt(r, Min(J)) = AllOnes \ M(Min(J))
  BY DEF LeftAt
<1> HIDE DEF M, J
<1>5. get_free_slot(r) = Min(LeftAt(r, Min(J))) + WordAt(r, Min(J)) * Width
  BY <1>2, <1>3, <1>4
<1> QED BY <1>5 DEF J

\* A free slot at or behind r comes up before the search wraps, one in front of r
\* after that; the word of r itself is then looked at again.
LEMMA RoundOf ==
  ASSUME Typed, NEW r \in Slot, NEW f \in FreeSlots
  PROVE  \E n \in 0 .. LastWord + 1 :
           /\ WordAt(r, n) = f \div Width /\ f % Width \in LeftAt(r, n)
           /\ f >= r => n = f \div Width - r \div Width
           /\ f < r => n = f \div Width + (LastWord + 1) - r \div Width
<1>1. f \in Slot /\ f \in Nat /\ r \in Nat
  BY WordCount DEF FreeSlots, Slot
<1>2. PICK q \in Nat, b \in AllOnes :
        /\ q = f \div Width /\ b = f % Width /\ q \in 0 .. LastWord /\ f = q * Width + b
  BY <1>1, SlotWord
<1>3. PICK p \in Nat, c \in AllOnes :
        /\ p = r \div Width /\ c = r % Width /\ p \in 0 .. LastWord /\ r = p * Width + c
  BY SlotWord
<1>4. Width \in Nat /\ Width > 0 /\ LastWord \in Nat /\ b \in 0 .. Width - 1 /\ c \in 0 .. Width - 1
  BY WordCount DEF Words, AllOnes
<1>5. p < q => r < f
  <2> SUFFICES ASSUME p < q PROVE r < f
    OBVIOUS
  <2>1. p * Width + Width <= q * Width
    BY <1>2, <1>3, <1>4, Apart
  <2> QED BY <1>2, <1>3, <1>4, <2>1
<1>6. q < p => f < r
  <2> SUFFICES ASSUME q < p PROVE f < r
    OBVIOUS
  <2>1. q * Width + Width <= p * Width
    BY <1>2, <1>3, <1>4, Apart
  <2> QED BY <1>2, <1>3, <1>4, <2>1
<1>7. p = r \div Width /\ LastWord \in Nat
  BY <1>3, <1>4
<1>8. CASE f >= r
  <2>1. PICK n \in 0 .. LastWord + 1 : n = q - p /\ p + n <= LastWord
    BY <1>1, <1>2, <1>3, <1>4, <1>6, <1>8
  <2>2. WordAt(r, n) = q
    <3>1. r \div Width + n <= LastWord
      BY <1>7, <2>1
    <3>2. WordAt(r, n) = r \div Width + n
      BY <3>1, Rounds
    <3> QED BY <1>7, <2>1, <3>2
  <2>3. n = 0 => b >= c
    BY <1>1, <1>2, <1>3, <1>4, <1>8, <2>1
  <2>4. b \in LeftAt(r, n)
    <3>1. q * Width + b \in FreeSlots /\ c = r % Width
      BY <1>2, <1>3
    <3> QED BY <2>2, <2>3, <3>1, LeftIs
  <2>5. ~(f < r) /\ n = f \div Width - r \div Width /\ f % Width \in LeftAt(r, n)
        /\ WordAt(r, n) = f \div Width
    <3>1. q = f \div Width /\ b = f % Width /\ p = r \div Width
      BY <1>2, <1>3
    <3>2. ~(f < r)
      BY <1>1, <1>8
    <3> QED BY <2>1, <2>2, <2>4, <3>1, <3>2
  <2> QED BY <2>5
<1>9. CASE f < r
  <2>1. PICK n \in 0 .. LastWord + 1 : n = q + (LastWord + 1) - p /\ p + n > LastWord /\ n # 0
    BY <1>1, <1>2, <1>3, <1>4, <1>5, <1>9
  <2>2. WordAt(r, n) = q
    <3>1. r \div Width + n > LastWord
      BY <1>7, <2>1
    <3>2. WordAt(r, n) = r \div Width + n - (LastWord + 1)
      BY <3>1, Rounds
    <3> QED BY <1>7, <2>1, <3>2
  <2>3. b \in LeftAt(r, n)
    <3>1. q * Width + b \in FreeSlots
      BY <1>2
    <3> QED BY <2>1, <2>2, <3>1, LeftIs
  <2>4. /\ ~(f >= r) /\ n = f \div Width + (LastWord + 1) - r \div Width
        /\ f % Width \in LeftAt(r, n) /\ WordAt(r, n) = f \div Width
    <3>1. q = f \div Width /\ b = f % Width /\ p = r \div Width
      BY <1>2, <1>3
    <3>2. ~(f >= r)
      BY <1>1, <1>9
    <3> QED BY <2>1, <2>2, <2>3, <3>1, <3>2
  <2> QED BY <2>4
<1> QED BY <1>1, <1>8, <1>9

\* What a round leaves is free, and behind r before the search wraps.
LEMMA LeftFree ==
  ASSUME Typed, NEW r \in Slot, NEW n \in 0 .. LastWord + 1, NEW b \in LeftAt(r, n)
  PROVE  /\ b \in AllOnes /\ WordAt(r, n) * Width + b \in FreeSlots
         /\ r \div Width + n <= LastWord => WordAt(r, n) * Width + b >= r
<1>1. b \in AllOnes
  BY DEF LeftAt
<1>2. WordAt(r, n) * Width + b \in FreeSlots /\ (n = 0 => b >= r % Width)
  BY <1>1, LeftIs
<1>3. PICK p \in Nat, c \in AllOnes :
        /\ p = r \div Width /\ c = r % Width /\ p \in 0 .. LastWord /\ r = p * Width + c
  BY SlotWord
<1>4. Width \in Nat /\ Width > 0 /\ LastWord \in Nat /\ b \in 0 .. Width - 1 /\ c \in 0 .. Width - 1
  BY <1>1, WordCount DEF Words, AllOnes
<1>5. ASSUME p + n <= LastWord PROVE WordAt(r, n) * Width + b >= r
  <2>1. PICK w \in Nat : w = WordAt(r, n) /\ w = p + n
    BY <1>3, <1>4, <1>5, Rounds
  <2>2. CASE n = 0
    <3>1. w = p /\ b >= c /\ r = p * Width + c
      BY <1>2, <1>3, <2>1, <2>2
    <3>2. p * Width \in Nat
      BY <1>4
    <3> QED BY <1>4, <2>1, <3>1, <3>2
  <2>3. CASE n # 0
    <3>1. p < w
      BY <1>3, <1>4, <2>1, <2>3
    <3>2. p * Width + Width <= w * Width
      BY <1>3, <1>4, <2>1, <3>1, Apart
    <3> QED BY <1>3, <1>4, <2>1, <3>2
  <2> QED BY <2>2, <2>3
<1> QED BY <1>1, <1>2, <1>3, <1>5

\* The search ends in the first round with something left, at a free slot that is
\* not behind any other free slot of the same phase of the search.
LEMMA SearchFinds ==
  ASSUME Typed, NEW r \in Slot, FreeSlots # {}
  PROVE  \E m \in FreeSlots :
           /\ get_free_slot(r) = m
           /\ (\E f \in FreeSlots : f >= r) => m >= r
           /\ \A f \in FreeSlots : (f >= r <=> m >= r) => m <= f
<1> DEFINE J == {n \in 0 .. LastWord + 1 : LeftAt(r, n) # {}}
<1>1. /\ Width \in Nat /\ Width > 0 /\ LastWord \in Nat /\ r \in Nat
      /\ AllOnes \subseteq Nat /\ \A f \in FreeSlots : f \in Nat
  BY WordCount DEF Words, AllOnes, Slot, FreeSlots
<1>2. J # {} /\ J \subseteq Nat
  <2>1. PICK f \in FreeSlots : TRUE
    OBVIOUS
  <2>2. PICK n \in 0 .. LastWord + 1 : f % Width \in LeftAt(r, n)
    BY RoundOf
  <2>3. n \in J
    BY <2>2
  <2> QED BY <1>1, <2>3
<1>3. PICK k \in J : k = Min(J) /\ \A n \in J : k <= n
  <2> HIDE DEF J
  <2> QED BY <1>2, MinIs
<1>4. k \in 0 .. LastWord + 1 /\ LeftAt(r, k) # {} /\ LeftAt(r, k) \subseteq Nat
  BY <1>1, <1>3 DEF LeftAt
<1>5. PICK b \in LeftAt(r, k) : b = Min(LeftAt(r, k)) /\ \A y \in LeftAt(r, k) : b <= y
  BY <1>4, MinIs
<1>6. PICK w \in 0 .. LastWord :
        /\ w = WordAt(r, k)
        /\ r \div Width + k <= LastWord => w = r \div Width + k
        /\ r \div Width + k > LastWord => w = r \div Width + k - (LastWord + 1)
  BY <1>4, Rounds
<1>7. PICK m \in FreeSlots :
        m = w * Width + b /\ (r \div Width + k <= LastWord => m >= r) /\ b \in AllOnes
  BY <1>4, <1>5, <1>6, LeftFree
<1>8. get_free_slot(r) = m
  <2>1. get_free_slot(r) = b + w * Width
    BY <1>3, <1>5, <1>6, SearchIs
  <2>2. b \in Nat /\ w \in Nat /\ w * Width \in Nat
    BY <1>1, <1>4, <1>6
  <2> QED BY <1>7, <2>1, <2>2
<1>9. PICK p \in 0 .. LastWord : p = r \div Width
  BY SlotWord
<1>10. ASSUME NEW f \in FreeSlots
       PROVE  /\ f >= r => m >= r
              /\ (f >= r <=> m >= r) => m <= f
  <2>1. PICK n \in 0 .. LastWord + 1 :
          /\ WordAt(r, n) = f \div Width /\ f % Width \in LeftAt(r, n)
          /\ f >= r => n = f \div Width - r \div Width
          /\ f < r => n = f \div Width + (LastWord + 1) - r \div Width
    BY RoundOf
  <2>2. PICK q \in 0 .. LastWord, c \in AllOnes :
          q = f \div Width /\ c = f % Width /\ f = q * Width + c
    BY SlotWord DEF FreeSlots
  <2>3. k <= n
    BY <1>3, <2>1
  <2>4. f >= r => p + k <= LastWord
    BY <1>1, <1>4, <1>9, <2>1, <2>2, <2>3
  <2>5. f >= r => m >= r
    BY <1>7, <1>9, <2>4
  <2>6. ASSUME f >= r <=> m >= r PROVE m <= f
    <3>1. f \in Nat /\ r \in Nat /\ m \in Nat /\ (f >= r \/ f < r)
      BY <1>1
    <3>2. w <= q /\ (w = q => n = k)
      <4>1. CASE f >= r
        <5>1. w = p + k /\ n = q - p
          BY <1>6, <1>9, <2>1, <2>2, <2>4, <4>1
        <5> QED BY <1>1, <1>4, <1>9, <2>3, <5>1
      <4>2. CASE f < r
        <5>1. n = q + (LastWord + 1) - p /\ ~(p + k <= LastWord)
          BY <1>7, <1>9, <2>1, <2>2, <2>6, <3>1, <4>2
        <5>2. p + k > LastWord
          BY <1>1, <1>4, <1>9, <5>1
        <5>3. w = p + k - (LastWord + 1)
          BY <1>6, <1>9, <5>2
        <5> QED BY <1>1, <1>4, <1>9, <2>3, <5>1, <5>3
      <4> QED BY <3>1, <4>1, <4>2
    <3>3. CASE w = q
      <4>1. b <= c
        BY <1>5, <2>1, <2>2, <3>2, <3>3
      <4>2. PICK x \in Nat : x = q * Width
        BY <1>1
      <4>3. m = x + b /\ f = x + c /\ b \in Nat /\ c \in Nat
        BY <1>1, <1>7, <2>2, <3>3, <4>2
      <4> QED BY <4>1, <4>3
    <3>4. CASE w < q
      <4>1. w * Width + Width <= q * Width
        BY <1>1, <3>4, Apart
      <4>2. b \in 0 .. Width - 1 /\ c \in Nat /\ q * Width \in Nat /\ w * Width \in Nat
        BY <1>1, <1>7 DEF AllOnes
      <4> QED BY <1>1, <1>7, <2>2, <4>1, <4>2
    <3> QED BY <1>1, <3>2, <3>3, <3>4
  <2> QED BY <2>5, <2>6
<1> QED BY <1>8, <1>10

\* The bits that the search without SLOT_RANDOMIZE leaves of a word are its free
\* slots: there only the last word is masked.
LEMMA FirstLeft ==
  ASSUME Typed, NEW i \in 0 .. LastWord
  PROVE  LET M == bitmap[i] \cup (IF i = LastWord THEN get_mask(slots - i * Width) ELSE {})
         IN  /\ M \subseteq AllOnes
             /\ \A b \in AllOnes : b \notin M <=> i * Width + b \in FreeSlots
<1> DEFINE T == IF i = LastWord THEN get_mask(slots - i * Width) ELSE {}
<1>1. /\ Width \in Nat /\ Width > 0 /\ slots \in Nat /\ slots > 0 /\ LastWord \in 0 .. 3
      /\ LastWord * Width <= slots - 1 /\ slots - 1 < LastWord * Width + Width /\ i \in Nat
  BY WordCount DEF Words
<1>2. bitmap[i] \subseteq AllOnes
  BY <1>1 DEF Typed, Words
<1>3. PICK x \in Nat : x = LastWord * Width /\ x < slots
  BY <1>1
<1>4. T \subseteq AllOnes
  <2>1. T = {} \/ T = slots - x .. Width - 1
    BY <1>3 DEF get_mask
  <2> QED BY <1>1, <1>3, <2>1 DEF AllOnes
<1>5. ASSUME NEW b \in AllOnes PROVE b \in T <=> ~(i * Width + b < slots)
  <2>1. b \in 0 .. Width - 1
    BY DEF AllOnes
  <2>2. CASE i = LastWord
    <3>1. T = slots - x .. Width - 1 /\ i * Width = x
      BY <1>3, <2>2 DEF get_mask
    <3> HIDE DEF T
    <3> QED BY <1>1, <1>3, <2>1, <3>1
  <2>3. CASE i < LastWord
    <3>1. i * Width + Width <= LastWord * Width
      BY <1>1, <2>3, Apart
    <3>2. PICK y \in Nat : y = i * Width
      BY <1>1
    <3>3. y + b < slots
      BY <1>1, <1>3, <2>1, <3>1, <3>2
    <3>4. T = {}
      BY <1>1, <2>3
    <3> QED BY <3>2, <3>3, <3>4
  <2> QED BY <1>1, <2>2, <2>3
<1>6. ASSUME NEW b \in AllOnes PROVE b \notin bitmap[i] \cup T <=> i * Width + b \in FreeSlots
  <2>1. i * Width + b \in Nat /\ (is_used_slot(i * Width + b) <=> b \in bitmap[i])
    BY <1>1, BitSlot
  <2>2. i * Width + b \in Slot <=> i * Width + b < slots
    BY <1>1, <2>1 DEF Slot
  <2> HIDE DEF T
  <2> QED BY <1>5, <2>1, <2>2 DEF FreeSlots
<1> QED BY <1>2, <1>4, <1>6

\* get_free_slot without SLOT_RANDOMIZE finds the first free slot.
LEMMA FirstFinds ==
  ASSUME Typed, FreeSlots # {}
  PROVE  get_first_free_slot = Min(FreeSlots)
<1> DEFINE M(i) == bitmap[i] \cup (IF i = LastWord THEN get_mask(slots - i * Width) ELSE {})
<1> DEFINE J == {j \in 0 .. LastWord : M(j) # AllOnes}
<1>1. /\ Width \in Nat /\ Width > 0 /\ LastWord \in Nat
      /\ AllOnes \subseteq Nat /\ FreeSlots \subseteq Nat
  BY WordCount DEF Words, AllOnes, Slot, FreeSlots
<1>2. \A i \in 0 .. LastWord : /\ M(i) \subseteq AllOnes
                               /\ \A b \in AllOnes : b \notin M(i) <=> i * Width + b \in FreeSlots
  BY FirstLeft
<1>3. get_first_free_slot = Min(AllOnes \ M(Min(J))) + Min(J) * Width
  BY DEF get_first_free_slot
<1> HIDE DEF M
<1>4. ASSUME NEW f \in FreeSlots
      PROVE  \E q \in J, c \in AllOnes : f = q * Width + c /\ c \notin M(q)
  <2>1. PICK q \in 0 .. LastWord, c \in AllOnes : f = q * Width + c
    BY SlotWord DEF FreeSlots
  <2>2. c \notin M(q)
    BY <1>2, <2>1
  <2>3. q \in J
    BY <2>2
  <2> QED BY <2>1, <2>2, <2>3
<1>5. J # {} /\ J \subseteq Nat
  <2>1. PICK f \in FreeSlots : TRUE
    OBVIOUS
  <2>2. \E q \in J : TRUE
    BY <1>4, <2>1
  <2> QED BY <1>1, <2>2
<1>6. PICK k \in J : k = Min(J) /\ \A n \in J : k <= n
  <2> HIDE DEF J
  <2> QED BY <1>5, MinIs
<1>7. AllOnes \ M(k) # {} /\ AllOnes \ M(k) \subseteq Nat /\ k \in 0 .. LastWord
  BY <1>1, <1>2, <1>6
<1>8. PICK b \in AllOnes \ M(k) : b = Min(AllOnes \ M(k)) /\ \A y \in AllOnes \ M(k) : b <= y
  BY <1>7, MinIs
<1>9. PICK m \in FreeSlots : m = k * Width + b
  BY <1>2, <1>7, <1>8
<1>10. get_first_free_slot = m
  <2>1. get_first_free_slot = b + k * Width
    BY <1>3, <1>6, <1>8
  <2>2. b \in Nat /\ k * Width \in Nat
    BY <1>1, <1>7, <1>8
  <2> QED BY <1>9, <2>1, <2>2
<1>11. ASSUME NEW f \in FreeSlots PROVE m <= f
  <2>1. PICK q \in J, c \in AllOnes : f = q * Width + c /\ c \notin M(q)
    BY <1>4
  <2>2. k <= q /\ k \in Nat /\ q \in Nat /\ b \in 0 .. Width - 1 /\ c \in 0 .. Width - 1
    BY <1>1, <1>6, <1>7, <1>8, <2>1 DEF AllOnes
  <2>3. CASE k = q
    <3>1. b <= c
      BY <1>8, <2>1, <2>3
    <3>2. PICK x \in Nat : x = q * Width
      BY <1>1, <2>2
    <3>3. m = x + b /\ f = x + c
      BY <1>9, <2>1, <2>3, <3>2
    <3> QED BY <1>1, <2>2, <3>1, <3>3
  <2>4. CASE k < q
    <3>1. k * Width + Width <= q * Width
      BY <1>1, <2>2, <2>4, Apart
    <3>2. k * Width \in Nat /\ q * Width \in Nat
      BY <1>1, <2>2
    <3> QED BY <1>1, <1>9, <2>1, <2>2, <3>1, <3>2
  <2> QED BY <2>2, <2>3, <2>4
<1> QED BY <1>1, <1>10, <1>11, IsMin

\* The count against the bitmap.
LEMMA Counts ==
  ASSUME Typed, Counted
  PROVE  /\ count \in Nat
         /\ has_free_slots <=> FreeSlots # {}
         /\ is_free_slab <=> FreeSlots = Slot
<1>1. slots \in Nat /\ slots > 0 /\ UsedSlots \subseteq Slot
  BY WordCount DEF UsedSlots
<1>2. IsFiniteSet(Slot) /\ Cardinality(Slot) = slots
  <2>1. 0 \in Int /\ slots - 1 \in Int
    BY <1>1
  <2>2. IsFiniteSet(Slot) /\ Cardinality(Slot) = IF 0 > slots - 1 THEN 0 ELSE (slots - 1) - 0 + 1
    BY <2>1, FS_Interval DEF Slot
  <2> QED BY <1>1, <2>2
<1>3. /\ IsFiniteSet(UsedSlots) /\ Cardinality(UsedSlots) <= slots
      /\ (Cardinality(UsedSlots) = slots => UsedSlots = Slot)
  BY <1>1, <1>2, FS_Subset
<1>4. Cardinality(UsedSlots) \in Nat /\ (Cardinality(UsedSlots) = 0 <=> UsedSlots = {})
  BY <1>3, FS_CardinalityType, FS_EmptySet
<1>5. UsedSlots = Slot => Cardinality(UsedSlots) = slots
  BY <1>2
<1>6. (FreeSlots # {} <=> UsedSlots # Slot) /\ (FreeSlots = Slot <=> UsedSlots = {})
  BY DEF FreeSlots, UsedSlots
<1> QED BY <1>1, <1>3, <1>4, <1>5, <1>6 DEF Counted, has_free_slots, is_free_slab

\* The invariant makes every one of the searches and tests exact.
LEMMA InvSearchExact ==
  ASSUME Typed, BitsInside, Counted
  PROVE  SearchExact
<1>1. FreeSlots \subseteq Nat /\ Slot \subseteq Nat /\ slots \in Nat /\ LastWord \in 0 .. 3
  BY WordCount DEF Slot, FreeSlots, Words
<1>2. ASSUME FreeSlots # {}, NEW r \in Slot
      PROVE  LET behind == {s \in FreeSlots : s >= r}
             IN  get_free_slot(r) = IF behind # {} THEN Min(behind) ELSE Min(FreeSlots)
  <2> DEFINE behind == {s \in FreeSlots : s >= r}
  <2>1. PICK m \in FreeSlots :
          /\ get_free_slot(r) = m
          /\ (\E f \in FreeSlots : f >= r) => m >= r
          /\ \A f \in FreeSlots : (f >= r <=> m >= r) => m <= f
    BY <1>2, SearchFinds
  <2>2. CASE behind # {}
    <3>1. m \in behind /\ behind \subseteq Nat /\ \A f \in behind : m <= f
      BY <1>1, <2>1, <2>2
    <3>2. Min(behind) = m
      <4> HIDE DEF behind
      <4> QED BY <3>1, IsMin
    <3> QED BY <2>1, <2>2, <3>2
  <2>3. CASE behind = {}
    <3>1. \A f \in FreeSlots : m <= f
      BY <2>1, <2>3
    <3>2. Min(FreeSlots) = m
      BY <1>1, <3>1, IsMin
    <3> QED BY <2>1, <2>3, <3>2
  <2> QED BY <2>2, <2>3
<1>3. FreeSlots # {} => get_first_free_slot = Min(FreeSlots)
  BY FirstFinds
<1> DEFINE M(i) == bitmap[i] \cup (IF i = LastWord THEN get_mask(slots - i * Width) ELSE {})
<1>4. has_free_slots_bitmap <=> FreeSlots # {}
  <2>1. \A i \in 0 .. LastWord : /\ M(i) \subseteq AllOnes
                                 /\ \A b \in AllOnes : b \notin M(i) <=> i * Width + b \in FreeSlots
    BY FirstLeft
  <2>2. has_free_slots_bitmap <=> \E i \in 0 .. LastWord : M(i) # AllOnes
    <3>1. \A i \in 0 .. LastWord - 1 : M(i) = bitmap[i] /\ i \in 0 .. LastWord
      BY <1>1
    <3>2. M(LastWord) = bitmap[LastWord] \cup get_mask(slots - LastWord * Width)
      OBVIOUS
    <3>3. \A i \in 0 .. LastWord : i \in 0 .. LastWord - 1 \/ i = LastWord
      BY <1>1
    <3> HIDE DEF M
    <3> QED BY <1>1, <3>1, <3>2, <3>3 DEF has_free_slots_bitmap
  <2> HIDE DEF M
  <2>3. ASSUME NEW i \in 0 .. LastWord, M(i) # AllOnes PROVE FreeSlots # {}
    <3>1. PICK b \in AllOnes : b \notin M(i)
      BY <2>1, <2>3
    <3> QED BY <2>1, <3>1
  <2>4. ASSUME NEW f \in FreeSlots PROVE \E i \in 0 .. LastWord : M(i) # AllOnes
    <3>1. PICK q \in 0 .. LastWord, c \in AllOnes : f = q * Width + c
      BY SlotWord DEF FreeSlots
    <3> QED BY <2>1, <3>1
  <2> QED BY <2>2, <2>3, <2>4
<1>5. is_free_slab_bitmap <=> FreeSlots = Slot
  <2>1. ASSUME is_free_slab_bitmap, NEW s \in Slot PROVE ~is_used_slot(s)
    BY <2>1, SlotWord DEF is_free_slab_bitmap, is_used_slot
  <2>2. ASSUME FreeSlots = Slot, NEW i \in Words, NEW b \in bitmap[i] PROVE FALSE
    <3>1. b \in AllOnes /\ i \in Nat
      BY <2>2 DEF Typed, Words
    <3>2. i * Width + b \in Nat /\ is_used_slot(i * Width + b) /\ i * Width + b < slots
      BY <2>2, <3>1, BitSlot DEF BitsInside
    <3>3. i * Width + b \in Slot
      BY <1>1, <3>2 DEF Slot
    <3> QED BY <2>2, <3>2, <3>3 DEF FreeSlots
  <2>3. \A i \in Words : bitmap[i] \subseteq AllOnes
    BY DEF Typed
  <2> QED BY <2>1, <2>2, <2>3 DEF is_free_slab_bitmap, FreeSlots
<1>6. (has_free_slots <=> FreeSlots # {}) /\ (is_free_slab <=> FreeSlots = Slot)
  BY Counts
<1>7. /\ has_free_slots \in BOOLEAN /\ is_free_slab \in BOOLEAN
      /\ has_free_slots_bitmap \in BOOLEAN /\ is_free_slab_bitmap \in BOOLEAN
  BY DEF has_free_slots, is_free_slab, has_free_slots_bitmap, is_free_slab_bitmap
<1> QED BY <1>2, <1>3, <1>4, <1>5, <1>6, <1>7 DEF SearchExact

-----------------------------------------------------------------------------
(* Bits and tags that an operation changes                                 *)

\* set_used_slot sets the bit of its slot only.
LEMMA SetUsed ==
  ASSUME Typed, NEW s \in Slot, NEW t \in Slot, bitmap' = set_used_slot(s)
  PROVE  is_used_slot(t)' <=> t = s \/ is_used_slot(t)
<1>1. /\ s \div Width \in Words /\ t \div Width \in Words
      /\ s = (s \div Width) * Width + (s % Width) /\ t = (t \div Width) * Width + (t % Width)
  BY SlotWord
<1>2. bitmap' = [bitmap EXCEPT ![s \div Width] = bitmap[s \div Width] \cup {s % Width}]
  BY DEF set_used_slot
<1>3. bitmap'[t \div Width] = IF t \div Width = s \div Width
                              THEN bitmap[t \div Width] \cup {s % Width} ELSE bitmap[t \div Width]
  BY <1>1, <1>2 DEF Typed
<1>4. is_used_slot(t)' <=> t % Width \in bitmap'[t \div Width]
  BY DEF is_used_slot
<1>5. t = s <=> t \div Width = s \div Width /\ t % Width = s % Width
  BY <1>1
<1> QED BY <1>3, <1>4, <1>5 DEF is_used_slot

\* clear_used_slot clears the bit of its slot only.
LEMMA ClearUsed ==
  ASSUME Typed, NEW s \in Slot, NEW t \in Slot, bitmap' = clear_used_slot(s)
  PROVE  is_used_slot(t)' <=> t # s /\ is_used_slot(t)
<1>1. /\ s \div Width \in Words /\ t \div Width \in Words
      /\ s = (s \div Width) * Width + (s % Width) /\ t = (t \div Width) * Width + (t % Width)
  BY SlotWord
<1>2. bitmap' = [bitmap EXCEPT ![s \div Width] = bitmap[s \div Width] \ {s % Width}]
  BY DEF clear_used_slot
<1>3. bitmap'[t \div Width] = IF t \div Width = s \div Width
                              THEN bitmap[t \div Width] \ {s % Width} ELSE bitmap[t \div Width]
  BY <1>1, <1>2 DEF Typed
<1>4. is_used_slot(t)' <=> t % Width \in bitmap'[t \div Width]
  BY DEF is_used_slot
<1>5. t = s <=> t \div Width = s \div Width /\ t % Width = s % Width
  BY <1>1
<1> QED BY <1>3, <1>4, <1>5 DEF is_used_slot

\* u4_arr_set changes one tag and keeps the others, also the one it shares its
\* byte with.
LEMMA TagsPacked ==
  ASSUME Typed, NEW i \in 0 .. slots + 1, NEW val \in 0 .. Tags - 1
  PROVE  /\ u4_arr_set(tags, i, val) \in [Bytes -> 0 .. Tags * Tags - 1]
         /\ u4_arr_get(u4_arr_set(tags, i, val), i) = val
         /\ \A j \in 0 .. slots + 1 : /\ u4_arr_get(tags, j) \in 0 .. Tags - 1
                                      /\ j # i => u4_arr_get(u4_arr_set(tags, i, val), j)
                                                    = u4_arr_get(tags, j)
<1>1. /\ Width \in Nat /\ slots \in Nat /\ slots <= 4 * Width /\ Tags \in Nat /\ Tags > 4
      /\ tags \in [Bytes -> 0 .. Tags * Tags - 1]
  BY WordCount, SlabSlotsAssumption DEF Typed
<1>2. ASSUME NEW j \in 0 .. slots + 1
      PROVE  /\ j \div 2 \in Bytes /\ j % 2 \in {0, 1} /\ j = (j \div 2) * 2 + (j % 2)
             /\ tags[j \div 2] \in 0 .. Tags * Tags - 1
  <2>1. /\ j \div 2 \in Nat /\ j % 2 \in 0 .. 1 /\ j = (j \div 2) * 2 + (j % 2)
        /\ j <= 4 * Width + 1
    BY <1>1
  <2>2. j \div 2 \in Bytes
    BY <1>1, <2>1 DEF Bytes
  <2> QED BY <1>1, <2>1, <2>2
<1> DEFINE x == tags[i \div 2]
<1> DEFINE e == IF i % 2 = 0 THEN x - (x % Tags) + val ELSE (x % Tags) + val * Tags
<1>3. x \in 0 .. Tags * Tags - 1
  BY <1>2
<1>4. u4_arr_set(tags, i, val) = [tags EXCEPT ![i \div 2] = e]
  BY DEF u4_arr_set
<1>5. e \in 0 .. Tags * Tags - 1 /\ e % Tags = (IF i % 2 = 0 THEN val ELSE x % Tags)
      /\ e \div Tags = (IF i % 2 = 0 THEN x \div Tags ELSE val)
  <2> HIDE DEF x
  <2> QED BY <1>1, <1>3, PackedByte
<1> HIDE DEF e
<1>6. u4_arr_set(tags, i, val) \in [Bytes -> 0 .. Tags * Tags - 1]
  BY <1>1, <1>4, <1>5
<1>7. \A j \in 0 .. slots + 1 : u4_arr_set(tags, i, val)[j \div 2]
                                  = IF j \div 2 = i \div 2 THEN e ELSE tags[j \div 2]
  BY <1>1, <1>2, <1>4
<1>8. \A v \in 0 .. Tags - 1 : v % Tags = v
  BY <1>1, Wrap
<1>9. u4_arr_get(u4_arr_set(tags, i, val), i) = val
  <2>1. u4_arr_set(tags, i, val)[i \div 2] = e
    BY <1>7
  <2> QED BY <1>5, <1>8, <2>1 DEF u4_arr_get
<1>10. ASSUME NEW j \in 0 .. slots + 1
       PROVE  /\ u4_arr_get(tags, j) \in 0 .. Tags - 1
              /\ j # i => u4_arr_get(u4_arr_set(tags, i, val), j) = u4_arr_get(tags, j)
  <2>1. PICK y \in 0 .. Tags * Tags - 1 : y = tags[j \div 2]
    BY <1>2
  <2>2. y \div Tags \in 0 .. Tags - 1 /\ y % Tags \in 0 .. Tags - 1
    BY <1>1, <2>1, PackedByte
  <2>3. (y \div Tags) % Tags = y \div Tags
    BY <1>8, <2>2
  <2>4. u4_arr_get(tags, j) = IF j % 2 = 0 THEN y % Tags ELSE y \div Tags
    BY <2>1, <2>3 DEF u4_arr_get
  <2>5. ASSUME j # i, j \div 2 = i \div 2
        PROVE  u4_arr_get(u4_arr_set(tags, i, val), j) = u4_arr_get(tags, j)
    <3>1. u4_arr_set(tags, i, val)[j \div 2] = e /\ x = y
      BY <1>7, <2>1, <2>5
    <3>2. (i % 2 = 0 /\ j % 2 # 0) \/ (i % 2 # 0 /\ j % 2 = 0)
      BY <1>2, <2>5
    <3>3. u4_arr_get(u4_arr_set(tags, i, val), j) = (IF j % 2 = 0 THEN e ELSE e \div Tags) % Tags
      BY <3>1 DEF u4_arr_get
    <3>4. u4_arr_get(tags, j) = (IF j % 2 = 0 THEN y ELSE y \div Tags) % Tags
      BY <2>1 DEF u4_arr_get
    <3> HIDE DEF x
    <3> QED BY <1>5, <2>2, <3>1, <3>2, <3>3, <3>4
  <2>6. ASSUME j \div 2 # i \div 2
        PROVE  u4_arr_get(u4_arr_set(tags, i, val), j) = u4_arr_get(tags, j)
    BY <1>7, <2>6 DEF u4_arr_get
  <2> QED BY <2>2, <2>4, <2>5, <2>6
<1> QED BY <1>6, <1>9, <1>10

-----------------------------------------------------------------------------
(* The steps                                                               *)

\* The records that memory consists of, for a slab with canary c.
SlotMemory(c) == [tag : 0 .. Tags - 1, data : {0, 1}, canary : {0, c}]

\* A new slab is zero, unused and untagged.
LEMMA InitInv == Init => SlabInv
<1> SUFFICES ASSUME Init PROVE SlabInv
  OBVIOUS
<1>1. /\ Tags \in Nat /\ Tags > 4 /\ Width \in Nat /\ Width > 0 /\ Tags * Tags \in Nat
      /\ Tags * Tags > 0 /\ slots \in SlotCounts /\ slots \in Nat /\ slots > 0
      /\ slots <= 4 * Width
  BY SlabSlotsAssumption DEF Init
<1>2. \A s : ~is_used_slot(s) \/ s \div Width \notin Words
  BY DEF Init, is_used_slot
<1>3. Typed
  <2>1. Zeroed \in SlotMemory(canary)
    BY <1>1 DEF Zeroed, SlotMemory, RESERVED_TAG
  <2>2. memory \in [Slot -> SlotMemory(canary)] /\ pointer \in [Slot -> 0 .. Tags - 1]
    BY <1>1, <2>1 DEF Init, RESERVED_TAG
  <2>3. tags \in [Bytes -> 0 .. Tags * Tags - 1] /\ bitmap \in [Words -> SUBSET AllOnes]
    BY <1>1 DEF Init
  <2> QED BY <1>1, <2>2, <2>3 DEF Init, Typed, SlotMemory
<1>4. \A s \in Slot : ~is_used_slot(s)
  BY <1>2, <1>3, SlotWord
<1>5. BitsInside
  BY DEF Init, BitsInside
<1>6. Counted
  <2>1. UsedSlots = {}
    BY <1>4 DEF UsedSlots
  <2> QED BY <2>1, FS_EmptySet DEF Init, Counted
<1>7. FreeIsZero
  BY <1>4 DEF Init, FreeIsZero, Zeroed
<1>8. Tagged
  <2> SUFFICES ASSUME NEW s \in Slot
               PROVE  u4_arr_get(tags, s + 1) = 0 /\ pointer[s] = 0 /\ memory[s].tag = 0
    BY <1>4 DEF Tagged, RESERVED_TAG
  <2>1. s + 1 \in 0 .. slots + 1
    BY <1>1 DEF Slot
  <2>2. (s + 1) \div 2 \in Bytes
    BY <1>1, <2>1 DEF Bytes
  <2>3. tags[(s + 1) \div 2] = 0
    BY <2>2 DEF Init
  <2>4. 0 % Tags = 0 /\ 0 \div Tags = 0
    BY <1>1
  <2>5. u4_arr_get(tags, s + 1) = 0
    BY <2>3, <2>4 DEF u4_arr_get
  <2> QED BY <2>5 DEF Init, Zeroed, RESERVED_TAG
<1> QED BY <1>3, <1>5, <1>6, <1>7, <1>8 DEF SlabInv, NoFalseAbort, Init

\* One slot more, or one less, is in use, and count follows.
LEMMA CountMoves ==
  ASSUME SlabInv, slots' = slots, NEW s \in Slot,
         \/ /\ ~is_used_slot(s) /\ bitmap' = set_used_slot(s) /\ count' = count + 1
         \/ /\ is_used_slot(s) /\ bitmap' = clear_used_slot(s) /\ count' = count - 1
  PROVE  bitmap' \in [Words -> SUBSET AllOnes] /\ BitsInside' /\ Counted'
<1>1. /\ Typed /\ Counted /\ BitsInside /\ s \div Width \in Words /\ s % Width \in AllOnes
      /\ s = (s \div Width) * Width + (s % Width) /\ s < slots
      /\ bitmap \in [Words -> SUBSET AllOnes]
  <2>1. Typed /\ Counted /\ BitsInside /\ bitmap \in [Words -> SUBSET AllOnes]
    BY DEF SlabInv, Typed
  <2>2. slots \in Nat
    BY <2>1, WordCount
  <2>3. s < slots
    BY <2>2 DEF Slot
  <2> QED BY <2>1, <2>3, SlotWord
<1>2. Slot' = Slot
  BY DEF Slot
<1>3. IsFiniteSet(UsedSlots) /\ Cardinality(UsedSlots) \in Nat
  <2>1. slots \in Nat
    BY <1>1, WordCount
  <2>2. IsFiniteSet(Slot)
    BY <2>1, FS_Interval DEF Slot
  <2> QED BY <2>2, FS_Subset, FS_CardinalityType DEF UsedSlots
<1>4. CASE ~is_used_slot(s) /\ bitmap' = set_used_slot(s) /\ count' = count + 1
  <2>1. bitmap' = [bitmap EXCEPT ![s \div Width] = bitmap[s \div Width] \cup {s % Width}]
    BY <1>4 DEF set_used_slot
  <2>2. bitmap' \in [Words -> SUBSET AllOnes]
    BY <1>1, <2>1
  <2>3. BitsInside'
    <3> SUFFICES ASSUME NEW i \in Words, NEW b \in bitmap'[i] PROVE i * Width + b < slots
      BY DEF BitsInside
    <3>1. b \in bitmap[i] \/ (i = s \div Width /\ b = s % Width)
      BY <1>1, <2>1
    <3> QED BY <1>1, <3>1 DEF BitsInside
  <2>4. UsedSlots' = UsedSlots \cup {s} /\ s \notin UsedSlots
    <3>1. \A t \in Slot : is_used_slot(t)' <=> t = s \/ is_used_slot(t)
      BY <1>1, <1>4, SetUsed
    <3>2. UsedSlots' = {t \in Slot : is_used_slot(t)'}
      BY <1>2 DEF UsedSlots
    <3> QED BY <1>4, <3>1, <3>2 DEF UsedSlots
  <2>5. Cardinality(UsedSlots') = Cardinality(UsedSlots) + 1
    BY <1>3, <2>4, FS_AddElement
  <2> QED BY <1>1, <1>4, <2>2, <2>3, <2>5 DEF Counted
<1>5. CASE is_used_slot(s) /\ bitmap' = clear_used_slot(s) /\ count' = count - 1
  <2>1. bitmap' = [bitmap EXCEPT ![s \div Width] = bitmap[s \div Width] \ {s % Width}]
    BY <1>5 DEF clear_used_slot
  <2>2. bitmap' \in [Words -> SUBSET AllOnes]
    BY <1>1, <2>1
  <2>3. BitsInside'
    <3> SUFFICES ASSUME NEW i \in Words, NEW b \in bitmap'[i] PROVE i * Width + b < slots
      BY DEF BitsInside
    <3>1. b \in bitmap[i]
      BY <1>1, <2>1
    <3> QED BY <1>1, <3>1 DEF BitsInside
  <2>4. UsedSlots' = UsedSlots \ {s} /\ s \in UsedSlots
    <3>1. \A t \in Slot : is_used_slot(t)' <=> t # s /\ is_used_slot(t)
      BY <1>1, <1>5, ClearUsed
    <3>2. UsedSlots' = {t \in Slot : is_used_slot(t)'}
      BY <1>2 DEF UsedSlots
    <3> QED BY <1>5, <3>1, <3>2 DEF UsedSlots
  <2>5. Cardinality(UsedSlots') = Cardinality(UsedSlots) - 1
    BY <1>3, <2>4, FS_RemoveElement
  <2> QED BY <1>1, <1>5, <2>2, <2>3, <2>5 DEF Counted
<1> QED BY <1>4, <1>5

\* What allocate_small gives out: a free slot, whatever the random start.
LEMMA AllocateFinds ==
  ASSUME SlabInv, has_free_slots, NEW r \in Slot
  PROVE  get_free_slot(r) \in Slot /\ ~is_used_slot(get_free_slot(r))
<1>1. Typed /\ FreeSlots # {}
  BY Counts DEF SlabInv
<1>2. get_free_slot(r) \in FreeSlots
  BY <1>1, SearchFinds
<1> QED BY <1>2 DEF FreeSlots

\* The memory of a slab whose canary may change, which only happens to a fresh
\* slab, where no canary has been written.
LEMMA CanaryMoves ==
  ASSUME SlabInv, canary' = canary \/ released
  PROVE  memory \in [Slot -> SlotMemory(canary')]
<1>1. memory \in [Slot -> SlotMemory(canary)]
  BY DEF SlabInv, Typed, SlotMemory
<1>2. CASE canary' = canary
  BY <1>1, <1>2
<1>3. CASE released
  <2>1. \A s \in Slot : memory[s] = Zeroed
    BY <1>3 DEF SlabInv, FreeIsZero
  <2>2. Zeroed \in SlotMemory(canary')
    BY SlabSlotsAssumption DEF Zeroed, SlotMemory, RESERVED_TAG
  <2> QED BY <1>1, <2>1, <2>2
<1> QED BY <1>2, <1>3

\* allocate_small with tagging: the new tag differs from the reserved one, from
\* the slot's last one and from those beside it, in use or not.
LEMMA AllocateTagged ==
  ASSUME SlabInv, mte, mte' = mte, slots' = slots, NEW s \in Slot, ~is_used_slot(s),
         bitmap' = set_used_slot(s), NEW tag \in (0 .. Tags - 1) \ Excluded(s),
         memory' = [memory EXCEPT ![s] = [tag |-> tag, data |-> 1, canary |-> 0]],
         tags' = u4_arr_set(tags, s + 1, tag), pointer' = [pointer EXCEPT ![s] = tag]
  PROVE  /\ tags' \in [Bytes -> 0 .. Tags * Tags - 1] /\ pointer' \in [Slot -> 0 .. Tags - 1]
         /\ Tagged' /\ tag # pointer[s]
<1>1. /\ Typed /\ slots \in Nat /\ pointer \in [Slot -> 0 .. Tags - 1]
      /\ memory \in [Slot -> SlotMemory(canary)] /\ Slot' = Slot
  <2>1. Typed
    BY DEF SlabInv
  <2> QED BY <2>1, WordCount DEF Typed, SlotMemory, Slot
<1>2. \A t \in Slot : t + 1 \in 0 .. slots + 1 /\ t + 2 \in 0 .. slots + 1 /\ t \in 0 .. slots + 1
                      /\ t \in Nat
  BY <1>1 DEF Slot
<1>3. /\ tags' \in [Bytes -> 0 .. Tags * Tags - 1]
      /\ u4_arr_get(tags', s + 1) = tag
      /\ \A j \in 0 .. slots + 1 : j # s + 1 => u4_arr_get(tags', j) = u4_arr_get(tags, j)
  BY <1>1, <1>2, TagsPacked
<1>4. \A t \in Slot : /\ u4_arr_get(tags, t + 1) = pointer[t]
                      /\ memory[t].tag = IF is_used_slot(t) THEN pointer[t] ELSE RESERVED_TAG
                      /\ is_used_slot(t) => pointer[t] # RESERVED_TAG
                      /\ t + 1 \in Slot /\ pointer[t] # RESERVED_TAG => pointer[t] # pointer[t + 1]
  BY DEF SlabInv, Tagged
<1>5. tag # RESERVED_TAG /\ \A d \in 0 .. 2 : tag # u4_arr_get(tags, s + d)
  BY DEF Excluded
<1>6. tag # pointer[s]
  BY <1>4, <1>5
<1>7. s + 1 \in Slot => tag # pointer[s + 1]
  <2> SUFFICES ASSUME s + 1 \in Slot PROVE tag # pointer[s + 1]
    OBVIOUS
  <2>1. (s + 1) + 1 = s + 2
    BY <1>2
  <2>2. u4_arr_get(tags, s + 2) = pointer[s + 1]
    BY <1>4, <2>1
  <2> QED BY <1>5, <2>2
<1>8. \A t \in Slot : t + 1 = s => tag # pointer[t]
  <2> SUFFICES ASSUME NEW t \in Slot, t + 1 = s PROVE tag # pointer[t]
    OBVIOUS
  <2>1. s + 0 = t + 1
    BY <1>2
  <2>2. tag # u4_arr_get(tags, s + 0)
    BY <1>5
  <2> QED BY <1>4, <2>1, <2>2
<1>9. pointer' \in [Slot -> 0 .. Tags - 1] /\ pointer'[s] = tag
      /\ \A t \in Slot : t # s => pointer'[t] = pointer[t]
  BY <1>1
<1>10. memory'[s].tag = tag /\ \A t \in Slot : t # s => memory'[t] = memory[t]
  BY <1>1
<1>11. \A t \in Slot : is_used_slot(t)' <=> t = s \/ is_used_slot(t)
  BY <1>1, SetUsed
<1>12. ASSUME NEW t \in Slot
       PROVE  /\ u4_arr_get(tags', t + 1) = pointer'[t]
              /\ memory'[t].tag = IF is_used_slot(t)' THEN pointer'[t] ELSE RESERVED_TAG
              /\ is_used_slot(t)' => pointer'[t] # RESERVED_TAG
              /\ t + 1 \in Slot /\ pointer'[t] # RESERVED_TAG => pointer'[t] # pointer'[t + 1]
  <2>1. CASE t = s
    <3>1. t + 1 # s
      BY <1>2, <2>1
    <3> QED BY <1>3, <1>5, <1>7, <1>9, <1>10, <1>11, <2>1, <3>1
  <2>2. CASE t # s
    <3>1. u4_arr_get(tags', t + 1) = pointer'[t]
      BY <1>2, <1>3, <1>4, <1>9, <2>2
    <3>2. t + 1 \in Slot /\ pointer'[t] # RESERVED_TAG => pointer'[t] # pointer'[t + 1]
      BY <1>4, <1>8, <1>9, <2>2
    <3> QED BY <1>4, <1>9, <1>10, <1>11, <2>2, <3>1, <3>2
  <2> QED BY <2>1, <2>2
<1>13. Tagged'
  BY <1>1, <1>12 DEF Tagged, u4_arr_get, RESERVED_TAG
<1> QED BY <1>3, <1>6, <1>9, <1>13

\* allocate_small, on a fresh slab or not, with tagging or not.
LEMMA AllocateInv == ASSUME SlabInv, Allocate PROVE SlabInv'
<1>1. PICK r \in Slot :
        LET s == get_free_slot(r)
        IN  /\ bitmap' = set_used_slot(s)
            /\ fatal' = WrittenAfterFree(s)
            /\ IF mte
                 THEN \E tag \in (0 .. Tags - 1) \ Excluded(s) :
                        /\ memory' = [memory EXCEPT ![s] = [tag |-> tag, data |-> 1, canary |-> 0]]
                        /\ tags' = u4_arr_set(tags, s + 1, tag)
                        /\ pointer' = [pointer EXCEPT ![s] = tag]
                 ELSE /\ memory' = [memory EXCEPT ![s] = [@ EXCEPT !.data = 1, !.canary = canary']]
                      /\ pointer' = [pointer EXCEPT ![s] = RESERVED_TAG]
                      /\ UNCHANGED tags
  BY DEF Allocate
<1>2. /\ has_free_slots /\ count' = count + 1 /\ released' = FALSE /\ slots' = slots
      /\ mte' = mte /\ (canary' = canary \/ released)
  BY DEF Allocate
<1>3. PICK s \in Slot : s = get_free_slot(r) /\ ~is_used_slot(s)
  BY <1>2, AllocateFinds
<1>4. /\ Typed /\ Slot' = Slot /\ pointer \in [Slot -> 0 .. Tags - 1]
      /\ memory \in [Slot -> SlotMemory(canary')]
  BY <1>2, CanaryMoves DEF SlabInv, Typed, Slot
<1>5. bitmap' = set_used_slot(s) /\ fatal' = WrittenAfterFree(s)
  BY <1>1, <1>3
<1>6. bitmap' \in [Words -> SUBSET AllOnes] /\ BitsInside' /\ Counted'
  BY <1>2, <1>3, <1>5, CountMoves
<1>7. \A t \in Slot : is_used_slot(t)' <=> t = s \/ is_used_slot(t)
  BY <1>4, <1>5, SetUsed
<1>8. \A t \in Slot : ~is_used_slot(t) => memory[t].data = 0
  BY DEF SlabInv, FreeIsZero
<1>9. fatal' = FALSE
  BY <1>3, <1>5, <1>8 DEF WrittenAfterFree
<1>10. Tags \in Nat /\ Tags > 4
  BY SlabSlotsAssumption
<1>11. CASE mte
  <2>1. PICK tag \in (0 .. Tags - 1) \ Excluded(s) :
          /\ memory' = [memory EXCEPT ![s] = [tag |-> tag, data |-> 1, canary |-> 0]]
          /\ tags' = u4_arr_set(tags, s + 1, tag)
          /\ pointer' = [pointer EXCEPT ![s] = tag]
    BY <1>1, <1>3, <1>11
  <2>2. tags' \in [Bytes -> 0 .. Tags * Tags - 1] /\ pointer' \in [Slot -> 0 .. Tags - 1] /\ Tagged'
    BY <1>2, <1>3, <1>5, <1>11, <2>1, AllocateTagged
  <2>3. [tag |-> tag, data |-> 1, canary |-> 0] \in SlotMemory(canary')
    BY DEF SlotMemory
  <2>4. memory' \in [Slot -> SlotMemory(canary')]
    BY <1>4, <2>1, <2>3
  <2>5. \A t \in Slot : t # s => memory'[t] = memory[t]
    BY <1>4, <2>1
  <2>6. Typed'
    BY <1>2, <1>4, <1>6, <2>2, <2>4 DEF Typed, SlotMemory
  <2>7. FreeIsZero'
    BY <1>2, <1>4, <1>7, <1>8, <2>5 DEF FreeIsZero
  <2> QED BY <1>6, <1>9, <2>2, <2>6, <2>7 DEF SlabInv, NoFalseAbort
<1>12. CASE ~mte
  <2>1. /\ memory' = [memory EXCEPT ![s] = [@ EXCEPT !.data = 1, !.canary = canary']]
        /\ pointer' = [pointer EXCEPT ![s] = RESERVED_TAG] /\ tags' = tags
    BY <1>1, <1>3, <1>12
  <2> DEFINE e == [memory[s] EXCEPT !.data = 1, !.canary = canary']
  <2>2. e \in SlotMemory(canary')
    <3>1. memory[s] \in SlotMemory(canary')
      BY <1>4
    <3> QED BY <3>1 DEF SlotMemory
  <2>3. /\ memory' \in [Slot -> SlotMemory(canary')]
        /\ \A t \in Slot : t # s => memory'[t] = memory[t]
    <3>1. memory' = [memory EXCEPT ![s] = e]
      BY <2>1
    <3> HIDE DEF e
    <3> QED BY <1>4, <2>2, <3>1
  <2>4. pointer' \in [Slot -> 0 .. Tags - 1]
    BY <1>4, <1>10, <2>1 DEF RESERVED_TAG
  <2>5. Typed'
    BY <1>2, <1>4, <1>6, <2>1, <2>3, <2>4 DEF Typed, SlotMemory
  <2>6. FreeIsZero'
    BY <1>2, <1>4, <1>7, <1>8, <2>3 DEF FreeIsZero
  <2>7. Tagged'
    BY <1>2, <1>12 DEF Tagged
  <2> QED BY <1>6, <1>9, <2>5, <2>6, <2>7 DEF SlabInv, NoFalseAbort
<1> QED BY <1>11, <1>12

\* deallocate_small of an allocation: its canary is right or was never written,
\* and its memory is zero and, with tagging, untagged again.
LEMMA DeallocateInv == ASSUME SlabInv, NEW s \in Slot, Deallocate(s) PROVE SlabInv'
<1>1. /\ is_used_slot(s) /\ bitmap' = clear_used_slot(s) /\ count' = count - 1
      /\ fatal' = BadCanary(s) /\ memory' = [memory EXCEPT ![s] = Freed(s)]
      /\ UNCHANGED <<slots, mte, tags, canary, pointer, released>>
  BY DEF Deallocate
<1>2. /\ Typed /\ Slot' = Slot /\ memory \in [Slot -> SlotMemory(canary)]
      /\ Tags \in Nat /\ Tags > 4
  BY <1>1, SlabSlotsAssumption DEF SlabInv, Typed, Slot, SlotMemory
<1>3. bitmap' \in [Words -> SUBSET AllOnes] /\ BitsInside' /\ Counted'
  BY <1>1, CountMoves
<1>4. \A t \in Slot : is_used_slot(t)' <=> t # s /\ is_used_slot(t)
  BY <1>1, <1>2, ClearUsed
<1>5. fatal' = FALSE
  BY <1>1, <1>2 DEF BadCanary, SlotMemory
<1>6. Freed(s) \in SlotMemory(canary) /\ Freed(s).data = 0 /\ (mte => Freed(s).tag = RESERVED_TAG)
  <2>1. memory[s] \in SlotMemory(canary)
    BY <1>2
  <2> QED BY <1>2, <2>1 DEF Freed, Zeroed, SlotMemory, RESERVED_TAG
<1>7. /\ memory' \in [Slot -> SlotMemory(canary)] /\ memory'[s] = Freed(s)
      /\ \A t \in Slot : t # s => memory'[t] = memory[t]
  BY <1>1, <1>2, <1>6
<1>8. Typed'
  BY <1>1, <1>2, <1>3, <1>7 DEF Typed, SlotMemory
<1>9. released' = FALSE
  BY <1>1 DEF SlabInv, FreeIsZero, Typed
<1>10. FreeIsZero'
  <2>1. \A t \in Slot : ~is_used_slot(t) => memory[t].data = 0
    BY DEF SlabInv, FreeIsZero
  <2> QED BY <1>2, <1>4, <1>6, <1>7, <1>9, <2>1 DEF FreeIsZero
<1>11. Tagged'
  <2> SUFFICES ASSUME mte PROVE Tagged'
    BY <1>1 DEF Tagged
  <2>1. \A t \in Slot : /\ u4_arr_get(tags, t + 1) = pointer[t]
                        /\ memory[t].tag = IF is_used_slot(t) THEN pointer[t] ELSE RESERVED_TAG
                        /\ is_used_slot(t) => pointer[t] # RESERVED_TAG
                        /\ t + 1 \in Slot /\ pointer[t] # RESERVED_TAG => pointer[t] # pointer[t + 1]
    BY DEF SlabInv, Tagged
  <2>2. \A t \in Slot : memory'[t].tag = IF is_used_slot(t)' THEN pointer[t] ELSE RESERVED_TAG
    BY <1>4, <1>6, <1>7, <2>1
  <2>3. \A t \in Slot : u4_arr_get(tags', t + 1) = u4_arr_get(tags, t + 1)
    BY <1>1
  <2> QED BY <1>1, <1>2, <1>4, <2>1, <2>2, <2>3 DEF Tagged, u4_arr_get, RESERVED_TAG
<1> QED BY <1>3, <1>5, <1>8, <1>10, <1>11 DEF SlabInv, NoFalseAbort

\* A slab goes back to the system only when it is empty.
LEMMA ReleaseInv == ASSUME SlabInv, Release PROVE SlabInv'
<1>1. /\ is_free_slab /\ released' = TRUE /\ memory' = [s \in Slot |-> Zeroed]
      /\ UNCHANGED <<slots, mte, bitmap, count, tags, canary, pointer, fatal>>
  BY DEF Release
<1>2. Typed /\ Slot' = Slot /\ Tags \in Nat /\ Tags > 4
  BY <1>1, SlabSlotsAssumption DEF SlabInv, Slot
<1>3. \A s \in Slot : ~is_used_slot(s)
  BY <1>1, Counts DEF SlabInv, FreeSlots
<1>4. \A s \in Slot : (is_used_slot(s)' <=> is_used_slot(s)) /\ memory'[s] = Zeroed
  BY <1>1 DEF is_used_slot
<1>5. memory' \in [Slot -> SlotMemory(canary)]
  BY <1>1, <1>2 DEF SlotMemory, Zeroed, RESERVED_TAG
<1>6. Typed' /\ BitsInside' /\ NoFalseAbort'
  BY <1>1, <1>2, <1>5 DEF SlabInv, Typed, SlotMemory, BitsInside, NoFalseAbort
<1>7. Counted'
  <2>1. UsedSlots' = UsedSlots
    BY <1>2, <1>4 DEF UsedSlots
  <2> QED BY <1>1, <2>1 DEF SlabInv, Counted
<1>8. FreeIsZero'
  BY <1>2, <1>3, <1>4 DEF FreeIsZero, Zeroed
<1>9. Tagged'
  <2> SUFFICES ASSUME mte PROVE Tagged'
    BY <1>1 DEF Tagged
  <2>1. \A t \in Slot : /\ u4_arr_get(tags, t + 1) = pointer[t]
                        /\ t + 1 \in Slot /\ pointer[t] # RESERVED_TAG => pointer[t] # pointer[t + 1]
    BY DEF SlabInv, Tagged
  <2>2. \A t \in Slot : memory'[t].tag = RESERVED_TAG
    BY <1>4 DEF Zeroed
  <2>3. \A t \in Slot : u4_arr_get(tags', t + 1) = u4_arr_get(tags, t + 1)
    BY <1>1
  <2> QED BY <1>1, <1>2, <1>3, <1>4, <2>1, <2>2, <2>3 DEF Tagged, u4_arr_get, RESERVED_TAG
<1> QED BY <1>6, <1>7, <1>8, <1>9 DEF SlabInv

\* Every step keeps the invariant; the switch leaves everything but itself alone.
LEMMA StepInv == SlabInv /\ [Next]_vars => SlabInv'
<1> SUFFICES ASSUME SlabInv, [Next]_vars PROVE SlabInv'
  OBVIOUS
<1>1. CASE DisableTagging \/ UNCHANGED vars
  <2>1. /\ UNCHANGED <<slots, bitmap, count, tags, canary, memory, pointer, released, fatal>>
        /\ mte' = mte \/ mte' = FALSE
    BY <1>1 DEF DisableTagging, vars
  <2>2. Slot' = Slot /\ UsedSlots' = UsedSlots
    BY <2>1 DEF Slot, UsedSlots, is_used_slot
  <2>3. Typed' /\ BitsInside' /\ Counted' /\ NoFalseAbort'
    BY <2>1, <2>2 DEF SlabInv, Typed, BitsInside, Counted, NoFalseAbort
  <2>4. FreeIsZero'
    BY <2>1, <2>2 DEF SlabInv, FreeIsZero, is_used_slot, Zeroed
  <2>5. CASE mte' = FALSE
    BY <2>3, <2>4, <2>5 DEF SlabInv, Tagged
  <2>6. CASE mte' = mte
    <3>1. Tagged'
      BY <2>1, <2>2, <2>6 DEF SlabInv, Tagged, is_used_slot, u4_arr_get, RESERVED_TAG
    <3> QED BY <2>3, <2>4, <3>1 DEF SlabInv
  <2> QED BY <2>1, <2>5, <2>6
<1> QED BY <1>1, AllocateInv, DeallocateInv, ReleaseInv DEF Next

-----------------------------------------------------------------------------
(* The theorems                                                            *)

\* The invariant of a slab: bitmap words, count, memory, packed tags and canaries
\* agree, whatever is allocated, freed, released and switched off.
THEOREM SlabInvariant == Spec => []SlabInv
BY InitInv, StepInv, PTL DEF Spec

\* The search of get_free_slot through the words finds the first free slot from
\* any random start, around the end, and so do the other build's searches and
\* tests, for every number of slots and every width of a word.
THEOREM SlabSearchExact == Spec => []SearchExact
<1>1. SlabInv => SearchExact
  BY InvSearchExact DEF SlabInv
<1> QED BY <1>1, SlabInvariant, PTL

\* No correct program is killed by a canary or by the write after free check,
\* even when h_malloc_disable_memory_tagging comes between malloc and free.
THEOREM SlabNoFalseAbort == Spec => []NoFalseAbort
<1>1. SlabInv => NoFalseAbort
  BY DEF SlabInv
<1> QED BY <1>1, SlabInvariant, PTL

\* The exclusion mask of tag_and_clear_slab_slot catches linear overflows: the
\* last pointer to a slot never has the tag of the memory beside it.
THEOREM SlabOverflowCaught == Spec => []OverflowCaught
<1>1. ASSUME SlabInv PROVE OverflowCaught
  <2> SUFFICES ASSUME mte, NEW s \in Slot
               PROVE  /\ is_used_slot(s) => memory[s].tag = pointer[s] /\ pointer[s] # RESERVED_TAG
                      /\ pointer[s] # RESERVED_TAG =>
                           \A n \in {s - 1, s + 1} \cap Slot : memory[n].tag # pointer[s]
    BY DEF OverflowCaught
  <2>1. \A t \in Slot : /\ memory[t].tag = IF is_used_slot(t) THEN pointer[t] ELSE RESERVED_TAG
                        /\ is_used_slot(t) => pointer[t] # RESERVED_TAG
                        /\ t + 1 \in Slot /\ pointer[t] # RESERVED_TAG => pointer[t] # pointer[t + 1]
    BY <1>1 DEF SlabInv, Tagged
  <2>2. ASSUME pointer[s] # RESERVED_TAG, NEW n \in Slot, n = s - 1 \/ n = s + 1
        PROVE  memory[n].tag # pointer[s]
    <3>1. s \in Int /\ n \in Int
      BY DEF Slot
    <3>2. CASE n = s + 1
      BY <2>1, <2>2, <3>2
    <3>3. CASE n = s - 1
      <4>1. n + 1 = s
        BY <3>1, <3>3
      <4>2. pointer[n] # RESERVED_TAG => pointer[n] # pointer[s]
        BY <2>1, <4>1
      <4> QED BY <2>1, <2>2, <4>2
    <3> QED BY <2>2, <3>2, <3>3
  <2> QED BY <2>1, <2>2
<1> QED BY <1>1, SlabInvariant, PTL

\* It catches uses after free until the second reuse: the memory of a free slot is
\* untagged, and the next owner's tag is not the last one's.
THEOREM SlabDanglingCaught == Spec => DanglingCaught
<1> DEFINE Caught == mte' => \A s \in Slot :
                       IF is_used_slot(s)' THEN ~is_used_slot(s) => memory'[s].tag # pointer[s]
                       ELSE memory'[s].tag = RESERVED_TAG
<1>1. ASSUME SlabInv, SlabInv', [Next]_vars PROVE Caught
  <2> SUFFICES ASSUME mte', NEW s \in Slot
               PROVE  IF is_used_slot(s)' THEN ~is_used_slot(s) => memory'[s].tag # pointer[s]
                      ELSE memory'[s].tag = RESERVED_TAG
    OBVIOUS
  <2>1. slots' = slots /\ Slot' = Slot
    BY <1>1 DEF Next, vars, Allocate, Deallocate, Release, DisableTagging, Slot
  <2>2. ASSUME ~is_used_slot(s)' PROVE memory'[s].tag = RESERVED_TAG
    BY <1>1, <2>1, <2>2 DEF SlabInv, Tagged, RESERVED_TAG
  <2>3. ASSUME is_used_slot(s)', ~is_used_slot(s) PROVE memory'[s].tag # pointer[s]
    <3>1. CASE Allocate
      <4>1. PICK r \in Slot :
              LET a == get_free_slot(r)
              IN  /\ bitmap' = set_used_slot(a)
                  /\ mte => \E tag \in (0 .. Tags - 1) \ Excluded(a) :
                       /\ memory' = [memory EXCEPT ![a] = [tag |-> tag, data |-> 1, canary |-> 0]]
                       /\ tags' = u4_arr_set(tags, a + 1, tag)
                       /\ pointer' = [pointer EXCEPT ![a] = tag]
        BY <3>1 DEF Allocate
      <4>2. has_free_slots /\ mte' = mte /\ mte
        BY <3>1 DEF Allocate
      <4>3. PICK a \in Slot : a = get_free_slot(r) /\ ~is_used_slot(a)
        BY <1>1, <4>2, AllocateFinds
      <4>4. PICK tag \in (0 .. Tags - 1) \ Excluded(a) :
              /\ bitmap' = set_used_slot(a)
              /\ memory' = [memory EXCEPT ![a] = [tag |-> tag, data |-> 1, canary |-> 0]]
              /\ tags' = u4_arr_set(tags, a + 1, tag)
              /\ pointer' = [pointer EXCEPT ![a] = tag]
        BY <4>1, <4>2, <4>3
      <4>5. tag # pointer[a]
        BY <1>1, <2>1, <4>2, <4>3, <4>4, AllocateTagged
      <4>6. s = a
        BY <1>1, <2>3, <4>3, <4>4, SetUsed DEF SlabInv
      <4>7. memory \in [Slot -> SlotMemory(canary)]
        BY <1>1 DEF SlabInv, Typed, SlotMemory
      <4> QED BY <4>4, <4>5, <4>6, <4>7
    <3>2. ASSUME NEW d \in Slot, Deallocate(d) PROVE FALSE
      <4>1. bitmap' = clear_used_slot(d)
        BY <3>2 DEF Deallocate
      <4> QED BY <1>1, <2>3, <4>1, ClearUsed DEF SlabInv
    <3>3. CASE Release \/ DisableTagging \/ UNCHANGED vars
      BY <2>3, <3>3 DEF Release, DisableTagging, vars, is_used_slot
    <3> QED BY <1>1, <3>1, <3>2, <3>3 DEF Next
  <2> QED BY <2>2, <2>3
<1>2. SlabInv /\ SlabInv' /\ [Next]_vars => [Caught]_vars
  BY <1>1
<1>3. Spec => []SlabInv
  BY SlabInvariant
<1> QED BY <1>2, <1>3, PTL DEF Spec, DanglingCaught
=============================================================================

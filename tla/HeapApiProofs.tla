--------------------------- MODULE HeapApiProofs ----------------------------
(***************************************************************************)
(* Proofs about the allocation interface, for every width of a size_t from *)
(* 20 to 64 bits and every set of sizes, counts and alignments that the    *)
(* program asks for.                                                       *)
(*                                                                         *)
(* The first half is the arithmetic of the size classes: what rounding up  *)
(* to a quarter of a power of two does to every size, that it finds the    *)
(* entries of the tables, and how slots are aligned.  HeapInv then ties    *)
(* the place of the object to its request, and is kept by every call.      *)
(***************************************************************************)
EXTENDS HeapApi, WellFoundedInduction, TLAPS

-----------------------------------------------------------------------------
(* Sets of numbers *)

\* A nonempty set of natural numbers has a least element.
LEMMA LeastNat ==
  ASSUME NEW T \in SUBSET Nat, T # {} PROVE \E x \in T : \A y \in T : x <= y
<1>1. IsWellFoundedOn(OpToRel(<, Nat), Nat)
  BY NatLessThanWellFounded
<1>2. PICK x \in T : \A y \in T : ~(<<y, x>> \in OpToRel(<, Nat))
  BY <1>1, WFMin
<1>3. \A y \in T : ~(y < x)
  BY <1>2 DEF OpToRel
<1> QED BY <1>3

\* Min returns it.
LEMMA MinNat ==
  ASSUME NEW T \in SUBSET Nat, T # {} PROVE Min(T) \in T /\ \A y \in T : Min(T) <= y
<1>1. \E x \in T : \A y \in T : x =< y
  BY LeastNat
<1> QED BY <1>1 DEF Min

\* Max returns the greatest element of a set that has one.
LEMMA MaxNat ==
  ASSUME NEW T \in SUBSET Nat, NEW b \in Nat, T # {}, \A y \in T : y <= b
  PROVE  Max(T) \in T /\ \A y \in T : Max(T) >= y
<1> DEFINE Up == {b - y : y \in T}
<1>1. Up \in SUBSET Nat /\ Up # {}
  <2>1. \A y \in T : b - y \in Nat
    OBVIOUS
  <2> QED BY <2>1
<1>2. PICK u \in Up : \A v \in Up : u <= v
  <2> HIDE DEF Up
  <2> QED BY <1>1, LeastNat
<1>3. PICK x \in T : u = b - x
  BY <1>2
<1>4. \A y \in T : x >= y
  <2> TAKE y \in T
  <2>1. b - y \in Up
    OBVIOUS
  <2>2. u <= b - y
    BY <1>2, <2>1
  <2> QED BY <1>3, <2>2
<1>5. \E z \in T : \A y \in T : z >= y
  BY <1>4
<1> QED BY <1>5 DEF Max

\* Of two numbers.
LEMMA MinMaxPair ==
  ASSUME NEW a \in Nat, NEW b \in Nat
  PROVE  /\ Min({a, b}) = IF a <= b THEN a ELSE b
         /\ Max({a, b}) = IF a >= b THEN a ELSE b
<1>1. Min({a, b}) \in {a, b} /\ \A y \in {a, b} : Min({a, b}) <= y
  BY MinNat
<1>2. {a, b} \in SUBSET Nat /\ {a, b} # {} /\ a + b \in Nat /\ \A y \in {a, b} : y <= a + b
  OBVIOUS
<1>3. Max({a, b}) \in {a, b} /\ \A y \in {a, b} : Max({a, b}) >= y
  BY <1>2, MaxNat
<1> QED BY <1>1, <1>3

-----------------------------------------------------------------------------
(* Powers of two *)

\* They are positive and grow.
LEMMA PowersGrow ==
  \A k \in 0 .. WordBits : /\ 2^k \in Nat \ {0}
                           /\ \A j \in 0 .. k : 2^j <= 2^k
<1> DEFINE Good(k) == 2^k \in Nat \ {0} /\ \A j \in 0 .. k : 2^j <= 2^k
           T == {k \in 0 .. WordBits : ~Good(k)}
<1>1. SUFFICES ASSUME T # {} PROVE FALSE
  OBVIOUS
<1>2. PICK k \in T : \A y \in T : k <= y
  <2>1. T \in SUBSET Nat
    BY WordAssumption
  <2> HIDE DEF T
  <2> QED BY <1>1, <2>1, LeastNat
<1>3. Good(0)
  OBVIOUS
<1>4. k \in 1 .. WordBits /\ k - 1 \in 0 .. WordBits /\ k - 1 \in 0 .. WordBits - 1
      /\ (k - 1) + 1 = k /\ ~Good(k)
  <2> HIDE DEF Good
  <2> QED BY <1>2, <1>3, WordAssumption
<1>5. Good(k - 1)
  <2> HIDE DEF Good
  <2> QED BY <1>2, <1>4
<1>6. 2^k = 2 * 2^(k - 1)
  BY <1>4, PowerAssumption
<1>7. 2^k \in Nat \ {0} /\ 2^(k - 1) <= 2^k
  BY <1>5, <1>6
<1>8. \A j \in 0 .. k : 2^j <= 2^k
  <2> TAKE j \in 0 .. k
  <2>1. CASE j = k
    BY <2>1, <1>7
  <2>2. CASE j # k
    <3>1. j \in 0 .. k - 1
      BY <1>4, <2>2
    <3>2. 2^j <= 2^(k - 1) /\ 2^(k - 1) \in Nat /\ 2^j \in Nat
      <4>1. j \in 0 .. WordBits - 1
        BY <1>4, <3>1, WordAssumption
      <4> QED BY <1>5, <3>1, <4>1, PowerAssumption
    <3> QED BY <1>7, <3>2
  <2> QED BY <2>1, <2>2
<1> QED BY <1>4, <1>7, <1>8

\* m divides 2^k.
Div(k, m) == \E t \in Nat \ {0} : 2^k = m * t

\* A divisor of a power of two divides every later one.
LEMMA DividesLater ==
  ASSUME NEW j \in 0 .. WordBits, NEW m \in Nat, Div(j, m)
  PROVE  \A k \in j .. WordBits : Div(k, m)
<1> DEFINE T == {k \in j .. WordBits : ~Div(k, m)}
<1>1. SUFFICES ASSUME T # {} PROVE FALSE
  OBVIOUS
<1>2. PICK k \in T : \A y \in T : k <= y
  <2>1. T \in SUBSET Nat
    BY WordAssumption
  <2> HIDE DEF T
  <2> QED BY <1>1, <2>1, LeastNat
<1>3. k \in j + 1 .. WordBits /\ k - 1 \in j .. WordBits /\ k - 1 \in 0 .. WordBits - 1
      /\ (k - 1) + 1 = k /\ ~Div(k, m)
  BY <1>2, WordAssumption
<1>4. k - 1 \notin T
  BY <1>2, <1>3
<1>5. Div(k - 1, m)
  BY <1>3, <1>4
<1>6. PICK t \in Nat \ {0} : 2^(k - 1) = m * t
  BY <1>5 DEF Div
<1>7. 2^k = 2 * 2^(k - 1)
  BY <1>3, PowerAssumption
<1>8. 2 * t \in Nat \ {0} /\ 2 * (m * t) = m * (2 * t)
  OBVIOUS
<1>9. 2^k = m * (2 * t)
  BY <1>6, <1>7, <1>8
<1>10. Div(k, m)
  BY <1>8, <1>9 DEF Div
<1> QED BY <1>3, <1>10

\* The multiples that the classes need.
LEMMA PowersDivide ==
  /\ \A k \in 5 .. WordBits : \E t \in Nat \ {0} : 2^k = 32 * t
  /\ \A k \in 12 .. WordBits : \E t \in Nat \ {0} : 2^k = 4096 * t
<1>1. 2^5 = 32 * 1 /\ 2^12 = 4096 * 1 /\ 1 \in Nat \ {0}
  OBVIOUS
<1>2. Div(5, 32) /\ Div(12, 4096)
  BY <1>1 DEF Div
<1>3. 5 \in 0 .. WordBits /\ 12 \in 0 .. WordBits
  BY WordAssumption
<1>4. \A k \in 5 .. WordBits : Div(k, 32)
  BY <1>2, <1>3, DividesLater
<1>5. \A k \in 12 .. WordBits : Div(k, 4096)
  BY <1>2, <1>3, DividesLater
<1> QED BY <1>4, <1>5 DEF Div

\* The word is a power of two, far beyond the classes of slabs.
LEMMA WordFacts ==
  /\ Word \in Nat /\ Word >= 1048576 /\ SIZE_MAX \in Nat /\ SIZE_MAX = Word - 1
  /\ \E t \in Nat : Word = 4096 * t
<1>1. 2^20 <= 2^WordBits /\ 2^WordBits \in Nat
  <2>1. 20 \in 0 .. WordBits /\ WordBits \in 0 .. WordBits
    BY WordAssumption
  <2> DEFINE G(k) == 2^k \in Nat \ {0} /\ \A j \in 0 .. k : 2^j <= 2^k
  <2>2. \A k \in 0 .. WordBits : G(k)
    BY PowersGrow
  <2> HIDE DEF G
  <2>3. G(WordBits)
    BY <2>1, <2>2
  <2> QED BY <2>1, <2>3 DEF G
<1>2. 2^20 = 1048576
  OBVIOUS
<1>3. \E t \in Nat : 2^WordBits = 4096 * t
  BY PowersDivide, WordAssumption
<1> QED BY <1>1, <1>2, <1>3 DEF Word, SIZE_MAX

\* log2u64 finds the power of two below a number.
LEMMA Log2Finds ==
  ASSUME NEW x \in 1 .. SIZE_MAX
  PROVE  /\ log2u64(x) \in 0 .. WordBits - 1
         /\ 2^log2u64(x) <= x /\ x < 2^(log2u64(x) + 1)
<1> DEFINE T == {k \in 0 .. WordBits - 1 : 2^k <= x}
<1>1. T \in SUBSET Nat /\ WordBits \in Nat /\ T # {} /\ \A y \in T : y <= WordBits
  <2>1. 0 \in 0 .. WordBits - 1 /\ 2^0 <= x
    BY WordAssumption, WordFacts
  <2>2. 0 \in T
    BY <2>1
  <2>3. WordBits \in Nat /\ \A y \in 0 .. WordBits - 1 : y \in Nat /\ y <= WordBits
    BY WordAssumption
  <2> QED BY <2>2, <2>3
<1>2. log2u64(x) \in T /\ \A y \in T : log2u64(x) >= y
  <2>1. log2u64(x) = Max(T)
    BY DEF log2u64
  <2> HIDE DEF T
  <2> QED BY <1>1, <2>1, MaxNat
<1>3. x < 2^(log2u64(x) + 1)
  <2> DEFINE k == log2u64(x)
  <2>1. k \in 0 .. WordBits - 1
    BY <1>2
  <2> HIDE DEF k
  <2>2. CASE k = WordBits - 1
    <3>1. k + 1 = WordBits
      BY <2>2, WordAssumption
    <3> QED BY <3>1, WordFacts DEF Word, k
  <2>3. CASE k # WordBits - 1
    <3>1. k + 1 \in 0 .. WordBits - 1 /\ k + 1 \in 0 .. WordBits
      BY <2>1, <2>3, WordAssumption
    <3>2. k + 1 \notin T
      BY <1>2, <2>1 DEF k
    <3>3. 2^(k + 1) \in Nat
      BY <3>1, PowersGrow
    <3>4. ~(2^(k + 1) <= x)
      BY <3>1, <3>2
    <3>5. x < 2^(k + 1)
      BY <3>3, <3>4, WordFacts
    <3> QED BY <3>5 DEF k
  <2> QED BY <2>2, <2>3
<1> QED BY <1>2, <1>3

\* It is the only one.
LEMMA Log2Unique ==
  ASSUME NEW x \in 1 .. SIZE_MAX, NEW k \in 0 .. WordBits - 1, 2^k <= x, x < 2^(k + 1)
  PROVE  log2u64(x) = k
<1> DEFINE j == log2u64(x)
<1>1. j \in 0 .. WordBits - 1 /\ 2^j <= x /\ x < 2^(j + 1)
  BY Log2Finds
<1> HIDE DEF j
<1>2. /\ j + 1 \in 0 .. WordBits /\ k + 1 \in 0 .. WordBits
      /\ j \in 0 .. WordBits /\ k \in 0 .. WordBits
      /\ 2^j \in Nat /\ 2^k \in Nat /\ 2^(j + 1) \in Nat /\ 2^(k + 1) \in Nat
  <2>1. /\ j + 1 \in 0 .. WordBits /\ k + 1 \in 0 .. WordBits
        /\ j \in 0 .. WordBits /\ k \in 0 .. WordBits
    BY <1>1, WordAssumption
  <2> QED BY <2>1, PowersGrow
<1>3. ~(j + 1 <= k)
  <2>1. j + 1 <= k => 2^(j + 1) <= 2^k
    BY <1>1, <1>2, PowersGrow
  <2> QED BY <1>1, <1>2, <2>1, WordFacts
<1>4. ~(k + 1 <= j)
  <2>1. k + 1 <= j => 2^(k + 1) <= 2^j
    BY <1>1, <1>2, PowersGrow
  <2> QED BY <1>1, <1>2, <2>1, WordFacts
<1> QED BY <1>1, <1>3, <1>4, WordAssumption DEF j

-----------------------------------------------------------------------------
(* Rounding up *)

\* Quotient and remainder.
LEMMA Division ==
  ASSUME NEW a \in Nat, NEW m \in Nat \ {0}
  PROVE  /\ a \div m \in Nat /\ a % m \in 0 .. m - 1 /\ (a \div m) * m \in Nat
         /\ a = (a \div m) * m + (a % m)
OBVIOUS

\* They are the only ones.
LEMMA DivisionUnique ==
  ASSUME NEW a \in Nat, NEW m \in Nat \ {0}, NEW q \in Nat, NEW r \in 0 .. m - 1, a = q * m + r
  PROVE  a \div m = q /\ a % m = r
OBVIOUS

\* One step around a modulus.
LEMMA WrapOnce ==
  ASSUME NEW m \in Nat \ {0}, NEW r \in 0 .. m - 1
  PROVE  (m + r) % m = r
OBVIOUS

\* A multiple leaves no remainder.
LEMMA NoRemainder ==
  ASSUME NEW q \in Nat, NEW m \in Nat \ {0}
  PROVE  q * m \in Nat /\ (q * m) % m = 0 /\ (q * m) \div m = q
<1>1. q * m \in Nat /\ q * m = q * m + 0 /\ 0 \in 0 .. m - 1
  OBVIOUS
<1> QED BY <1>1, DivisionUnique

\* align returns the next multiple, and 0 when that is the word itself.
LEMMA AlignUp ==
  ASSUME NEW n \in 1 .. SIZE_MAX, NEW to \in Nat \ {0}, NEW q \in Nat \ {0}, NEW w \in Nat,
         Word = w * to, (q - 1) * to < n, n <= q * to
  PROVE  q * to <= Word /\ align(n, to) = IF q * to = Word THEN 0 ELSE q * to
<1>1. /\ q * to \in Nat /\ (q - 1) * to = q * to - to /\ Word \in Nat /\ n < Word /\ n \in Nat
      /\ w * to \in Nat
  BY WordFacts
<1>2. q <= w
  <2>1. ~(w + 1 <= q)
    <3> SUFFICES ASSUME w + 1 <= q PROVE FALSE
      OBVIOUS
    <3>1. PICK d \in Nat : q = (w + 1) + d
      <4>1. q - (w + 1) \in Nat /\ q = (w + 1) + (q - (w + 1))
        OBVIOUS
      <4> QED BY <4>1
    <3>2. q * to = w * to + to + d * to /\ d * to \in Nat
      BY <3>1
    <3> QED BY <1>1, <3>2
  <2> QED BY <2>1
<1>3. q = w \/ q * to + to <= Word
  <2> SUFFICES ASSUME q # w PROVE q * to + to <= Word
    OBVIOUS
  <2>1. PICK d \in Nat : w = q + 1 + d
    <3>1. w - (q + 1) \in Nat /\ w = q + 1 + (w - (q + 1))
      BY <1>2
    <3> QED BY <3>1
  <2>2. w * to = q * to + to + d * to /\ d * to \in Nat
    BY <2>1
  <2> QED BY <1>1, <2>2
<1>4. CASE q = w
  <2>1. n + to - 1 - Word \in 0 .. to - 1 /\ n + to - 1 - Word \in 0 .. Word - 1 /\ Word \in Nat \ {0}
    BY <1>1, <1>4
  <2>2. n + to - 1 = 1 * Word + (n + to - 1 - Word) /\ n + to - 1 \in Nat /\ 1 \in Nat
    BY <1>1
  <2>3. (n + to - 1) % Word = n + to - 1 - Word
    <3>1. PICK r \in 0 .. Word - 1 : r = n + to - 1 - Word
      BY <2>1
    <3>2. (Word + r) % Word = r
      BY <2>1, WrapOnce
    <3> QED BY <1>1, <3>1, <3>2
  <2>4. n + to - 1 - Word = 0 * to + (n + to - 1 - Word) /\ n + to - 1 - Word \in Nat /\ 0 \in Nat
    BY <1>1, <2>1
  <2>5. (n + to - 1 - Word) \div to = 0
    BY <2>1, <2>4, DivisionUnique
  <2>6. align(n, to) = 0
    BY <2>3, <2>5 DEF align
  <2> QED BY <1>4, <2>6, <1>1
<1>5. CASE q # w
  <2>1. q * to + to <= Word
    BY <1>3, <1>5
  <2>2. n + to - 1 \in 0 .. Word - 1 /\ Word \in Nat \ {0} /\ 0 \in Nat
        /\ n + to - 1 = 0 * Word + (n + to - 1) /\ n + to - 1 \in Nat
    BY <1>1, <2>1
  <2>3. (n + to - 1) % Word = n + to - 1
    BY <2>2, DivisionUnique
  <2>4. n + to - 1 - q * to \in 0 .. to - 1 /\ n + to - 1 = q * to + (n + to - 1 - q * to)
    BY <1>1
  <2>5. (n + to - 1) \div to = q
    BY <2>2, <2>4, DivisionUnique
  <2>6. align(n, to) = q * to
    BY <2>3, <2>5 DEF align
  <2> QED BY <2>1, <2>6, <1>1
<1> QED BY <1>4, <1>5

\* n lies between two neighbouring classes with k as the log of n - 1.
Between(n, k, q, sp) ==
  /\ k \in 7 .. WordBits - 1 /\ q \in 5 .. 8
  /\ sp \in Nat \ {0} /\ sp = 2^(k - 2)
  /\ 4 * sp = 2^k /\ 8 * sp = 2^(k + 1) /\ 8 * sp <= Word
  /\ \E t \in Nat \ {0} : sp = 32 * t
  /\ \E w \in Nat \ {0} : Word = w * sp
  /\ (q - 1) * sp < n /\ n <= q * sp

\* What follows from k alone.
LEMMA SpacingFacts ==
  ASSUME NEW k \in 7 .. WordBits - 1
  PROVE  /\ 2^(k - 2) \in Nat \ {0} /\ 4 * 2^(k - 2) = 2^k /\ 8 * 2^(k - 2) = 2^(k + 1)
         /\ 8 * 2^(k - 2) <= Word
         /\ \E t \in Nat \ {0} : 2^(k - 2) = 32 * t
         /\ \E w \in Nat \ {0} : Word = w * 2^(k - 2)
<1>1. /\ k - 2 \in 0 .. WordBits - 1 /\ k - 1 \in 0 .. WordBits - 1 /\ k \in 0 .. WordBits - 1
      /\ k - 2 \in 5 .. WordBits /\ k - 2 \in 0 .. WordBits /\ k + 1 \in 0 .. WordBits
      /\ (k - 2) + 1 = k - 1 /\ (k - 1) + 1 = k /\ WordBits \in 0 .. WordBits
      /\ k + 1 \in 0 .. WordBits /\ WordBits \in (k - 2) .. WordBits
  BY WordAssumption
<1>2. 2^(k - 1) = 2 * 2^(k - 2) /\ 2^k = 2 * 2^(k - 1) /\ 2^(k + 1) = 2 * 2^k
  <2>1. 2^((k - 2) + 1) = 2 * 2^(k - 2)
    BY <1>1, PowerAssumption
  <2>2. 2^((k - 1) + 1) = 2 * 2^(k - 1)
    BY <1>1, PowerAssumption
  <2>3. 2^(k + 1) = 2 * 2^k
    BY <1>1, PowerAssumption
  <2> QED BY <1>1, <2>1, <2>2, <2>3
<1>3. 2^(k - 2) \in Nat \ {0}
  BY <1>1, PowersGrow
<1>4. 4 * 2^(k - 2) = 2^k /\ 8 * 2^(k - 2) = 2^(k + 1)
  BY <1>2, <1>3
<1>5. 2^(k + 1) <= Word
  <2> DEFINE G(j) == 2^j \in Nat \ {0} /\ \A i \in 0 .. j : 2^i <= 2^j
  <2>1. \A j \in 0 .. WordBits : G(j)
    BY PowersGrow
  <2> HIDE DEF G
  <2>2. G(WordBits)
    BY <1>1, <2>1
  <2> QED BY <1>1, <2>2 DEF G, Word
<1>6. \E t \in Nat \ {0} : 2^(k - 2) = 32 * t
  BY <1>1, PowersDivide
<1>7. \E w \in Nat \ {0} : Word = w * 2^(k - 2)
  <2>1. Div(k - 2, 2^(k - 2))
    <3>1. 1 \in Nat \ {0} /\ 2^(k - 2) = 2^(k - 2) * 1
      BY <1>3
    <3> QED BY <3>1 DEF Div
  <2>2. Div(WordBits, 2^(k - 2))
    BY <1>1, <1>3, <2>1, DividesLater
  <2>3. PICK w \in Nat \ {0} : 2^WordBits = 2^(k - 2) * w
    BY <2>2 DEF Div
  <2>4. Word = w * 2^(k - 2)
    BY <1>3, <2>3 DEF Word
  <2> QED BY <2>4
<1> QED BY <1>3, <1>4, <1>5, <1>6, <1>7

\* Every size beyond 128 lies between two classes.
LEMMA BetweenExists ==
  ASSUME NEW n \in 129 .. SIZE_MAX
  PROVE  \E k, q, sp : Between(n, k, q, sp)
<1> DEFINE k == log2u64(n - 1)
           sp == 2^(k - 2)
<1>1. n - 1 \in 1 .. SIZE_MAX /\ n \in Nat /\ SIZE_MAX \in Nat
  BY WordFacts
<1>2. k \in 0 .. WordBits - 1 /\ 2^k <= n - 1 /\ n - 1 < 2^(k + 1)
  BY <1>1, Log2Finds
<1> HIDE DEF k
<1>3. k \in 7 .. WordBits - 1
  <2>1. 7 \in 0 .. WordBits /\ k + 1 \in 0 .. WordBits /\ WordBits \in Nat /\ k \in Nat
    BY <1>2, WordAssumption
  <2>2. 2^(k + 1) \in Nat
    BY <2>1, PowersGrow
  <2>3. k + 1 <= 7 => 2^(k + 1) <= 2^7
    <3> DEFINE G(j) == 2^j \in Nat \ {0} /\ \A i \in 0 .. j : 2^i <= 2^j
    <3>1. \A j \in 0 .. WordBits : G(j)
      BY PowersGrow
    <3> HIDE DEF G
    <3>2. G(7)
      BY <2>1, <3>1
    <3>3. \A i \in 0 .. 7 : 2^i <= 2^7
      BY <3>2 DEF G
    <3> SUFFICES ASSUME k + 1 <= 7 PROVE 2^(k + 1) <= 2^7
      OBVIOUS
    <3>4. k + 1 \in 0 .. 7
      BY <2>1
    <3> QED BY <3>3, <3>4
  <2>4. 2^7 = 128
    OBVIOUS
  <2>5. ~(k + 1 <= 7)
    BY <1>1, <1>2, <2>2, <2>3, <2>4
  <2> QED BY <1>2, <2>1, <2>5
<1>4. /\ sp \in Nat \ {0} /\ 4 * sp = 2^k /\ 8 * sp = 2^(k + 1) /\ 8 * sp <= Word
      /\ \E t \in Nat \ {0} : sp = 32 * t
      /\ \E w \in Nat \ {0} : Word = w * sp
  BY <1>3, SpacingFacts
<1>5. sp = 2^(k - 2)
  OBVIOUS
<1> HIDE DEF sp
<1>6. 4 * sp < n /\ n <= 8 * sp
  BY <1>1, <1>2, <1>4
<1>7. \E q \in 5 .. 8 : (q - 1) * sp < n /\ n <= q * sp
  <2>1. CASE n <= 5 * sp
    <3>1. 5 \in 5 .. 8 /\ (5 - 1) * sp < n /\ n <= 5 * sp
      BY <1>6, <2>1
    <3> QED BY <3>1
  <2>2. CASE 5 * sp < n /\ n <= 6 * sp
    <3>1. 6 \in 5 .. 8 /\ (6 - 1) * sp < n /\ n <= 6 * sp
      BY <1>6, <2>2
    <3> QED BY <3>1
  <2>3. CASE 6 * sp < n /\ n <= 7 * sp
    <3>1. 7 \in 5 .. 8 /\ (7 - 1) * sp < n /\ n <= 7 * sp
      BY <1>6, <2>3
    <3> QED BY <3>1
  <2>4. CASE 7 * sp < n
    <3>1. 8 \in 5 .. 8 /\ (8 - 1) * sp < n /\ n <= 8 * sp
      BY <1>6, <2>4
    <3> QED BY <3>1
  <2> QED BY <1>1, <1>4, <2>1, <2>2, <2>3, <2>4
<1>8. PICK q \in 5 .. 8 : (q - 1) * sp < n /\ n <= q * sp
  BY <1>7
<1>9. Between(n, k, q, sp)
  BY <1>3, <1>4, <1>5, <1>8 DEF Between
<1> QED BY <1>9

\* Bounds with the spacing, one per class of a doubling.
LEMMA BetweenBounds ==
  ASSUME NEW n \in Nat, NEW k, NEW q, NEW sp, Between(n, k, q, sp)
  PROVE  /\ k \in 7 .. WordBits - 1 /\ q \in 5 .. 8 /\ q \in Nat \ {0} /\ k \in Nat
         /\ sp \in Nat \ {0} /\ sp >= 32 /\ q * sp \in Nat
         /\ q * sp = (q - 1) * sp + sp
         /\ 4 * sp < n /\ n <= 8 * sp /\ 5 * sp <= q * sp /\ q * sp <= 8 * sp
         /\ (q - 1) * sp < n /\ n <= q * sp /\ q * sp - n < sp
         /\ 8 * sp <= Word
<1>1. /\ k \in 7 .. WordBits - 1 /\ q \in 5 .. 8 /\ sp \in Nat \ {0} /\ 8 * sp <= Word
      /\ (q - 1) * sp < n /\ n <= q * sp /\ Word \in Nat
      /\ \E t \in Nat \ {0} : sp = 32 * t
  BY WordFacts DEF Between
<1>2. q = 5 \/ q = 6 \/ q = 7 \/ q = 8
  BY <1>1
<1>3. sp >= 32
  BY <1>1
<1>4. q * sp \in Nat /\ q * sp = (q - 1) * sp + sp /\ q \in Nat \ {0} /\ k \in Nat
  BY <1>1
<1>5. 4 * sp <= (q - 1) * sp /\ 5 * sp <= q * sp /\ q * sp <= 8 * sp
  BY <1>1, <1>2
<1> QED BY <1>1, <1>3, <1>4, <1>5

\* get_size_info of it.
LEMMA RoundingAt ==
  ASSUME NEW n \in 129 .. SIZE_MAX, NEW k, NEW q, NEW sp, Between(n, k, q, sp)
  PROVE  /\ SpacingShift(n) = k - 2
         /\ get_size_info(n).size = IF q * sp = Word THEN 0 ELSE q * sp
         /\ q * sp # Word => get_size_info(n).class = (k - 6) * 4 + q
<1>1. n \in Nat /\ n - 1 \in 1 .. SIZE_MAX /\ n \in 1 .. SIZE_MAX /\ SIZE_MAX \in Nat
  BY WordFacts
<1>2. /\ k \in 7 .. WordBits - 1 /\ q \in 5 .. 8 /\ q \in Nat \ {0} /\ sp \in Nat \ {0}
      /\ 4 * sp < n /\ n <= 8 * sp /\ (q - 1) * sp < n /\ n <= q * sp /\ k \in Nat
  BY <1>1, BetweenBounds
<1>3. 4 * sp = 2^k /\ 8 * sp = 2^(k + 1) /\ sp = 2^(k - 2)
  BY DEF Between
<1>4. log2u64(n - 1) = k
  <2>1. k \in 0 .. WordBits - 1
    BY <1>2, WordAssumption
  <2>2. 2^k <= n - 1 /\ n - 1 < 2^(k + 1)
    BY <1>1, <1>2, <1>3
  <2> QED BY <1>1, <2>1, <2>2, Log2Unique
<1>5. SpacingShift(n) = k - 2
  BY <1>4 DEF SpacingShift
<1>6. PICK w \in Nat : Word = w * sp
  BY DEF Between
<1>7. align(n, sp) = IF q * sp = Word THEN 0 ELSE q * sp
  BY <1>1, <1>2, <1>6, AlignUp
<1>8. n # 0 /\ ~(n <= 128)
  BY <1>1
<1>9. /\ get_size_info(n).size = align(n, sp)
      /\ get_size_info(n).class = ((k - 2) - 4) * 4 + 5 + (align(n, sp) \div sp) - 5
  BY <1>3, <1>5, <1>8 DEF get_size_info
<1>10. ASSUME q * sp # Word PROVE get_size_info(n).class = (k - 6) * 4 + q
  <2>1. align(n, sp) \div sp = q
    BY <1>2, <1>7, <1>10, NoRemainder
  <2> QED BY <1>2, <1>9, <2>1
<1> QED BY <1>5, <1>7, <1>9, <1>10

\* The sixteen byte classes.
LEMMA SmallRounding ==
  ASSUME NEW n \in 1 .. 128
  PROVE  \E q \in 1 .. 8 : /\ 16 * (q - 1) < n /\ n <= 16 * q
                           /\ get_size_info(n).size = 16 * q /\ get_size_info(n).class = q
<1> DEFINE q == (n - 1) \div 16 + 1
<1>1. q \in 1 .. 8 /\ 16 * (q - 1) < n /\ n <= 16 * q
  OBVIOUS
<1>2. get_size_info(n).size = align(n, 16) /\ get_size_info(n).class = q
  BY DEF get_size_info
<1> HIDE DEF q
<1>3. align(n, 16) = 16 * q
  <2>1. PICK t \in Nat : Word = 4096 * t
    BY WordFacts
  <2>2. 256 * t \in Nat /\ Word = (256 * t) * 16 /\ Word >= 1048576 /\ n \in 1 .. SIZE_MAX
    BY <2>1, WordFacts
  <2>3. q \in Nat \ {0} /\ (q - 1) * 16 < n /\ n <= q * 16 /\ 16 \in Nat \ {0} /\ q * 16 # Word
        /\ q * 16 = 16 * q
    BY <1>1, <2>2
  <2> QED BY <2>2, <2>3, AlignUp
<1> QED BY <1>1, <1>2, <1>3

\* Smaller powers of two have smaller exponents.
LEMMA PowerOrder ==
  ASSUME NEW j \in 0 .. WordBits, NEW k \in 0 .. WordBits
  PROVE  /\ 2^j \in Nat /\ 2^k \in Nat
         /\ j <= k => 2^j <= 2^k
         /\ 2^j < 2^k => j + 1 <= k
<1> DEFINE G(i) == 2^i \in Nat \ {0} /\ \A h \in 0 .. i : 2^h <= 2^i
<1>1. \A i \in 0 .. WordBits : G(i)
  BY PowersGrow
<1>2. j \in Nat /\ k \in Nat
  BY WordAssumption
<1> HIDE DEF G
<1>3. G(j) /\ G(k)
  BY <1>1
<1>4. 2^j \in Nat /\ 2^k \in Nat
  BY <1>3 DEF G
<1>5. j <= k => 2^j <= 2^k
  BY <1>2, <1>3 DEF G
<1>6. k <= j => 2^k <= 2^j
  BY <1>2, <1>3 DEF G
<1> QED BY <1>2, <1>4, <1>5, <1>6

\* A class is rounded to itself.
LEMMA BetweenFixed ==
  ASSUME NEW n \in 129 .. SIZE_MAX, NEW k, NEW q, NEW sp, Between(n, k, q, sp), q * sp # Word
  PROVE  /\ q * sp \in 129 .. SIZE_MAX /\ Between(q * sp, k, q, sp)
         /\ get_size_info(q * sp).size = q * sp
         /\ get_size_info(q * sp).class = (k - 6) * 4 + q
<1>1. n \in Nat /\ n >= 129 /\ SIZE_MAX = Word - 1 /\ Word \in Nat
  BY WordFacts
<1>2. /\ q * sp \in Nat /\ n <= q * sp /\ q * sp <= 8 * sp /\ 8 * sp <= Word
      /\ q * sp = (q - 1) * sp + sp /\ sp \in Nat \ {0} /\ q \in 5 .. 8
  BY <1>1, BetweenBounds
<1>3. q * sp \in 129 .. SIZE_MAX
  BY <1>1, <1>2
<1>4. (q - 1) * sp < q * sp /\ q * sp <= q * sp
  BY <1>2
<1>5. Between(q * sp, k, q, sp)
  BY <1>4 DEF Between
<1> QED BY <1>3, <1>5, RoundingAt

\* What rounding up does to every size.
LEMMA Rounding ==
  ASSUME NEW n \in 1 .. SIZE_MAX, NEW r, r = get_size_info(n).size
  PROVE  /\ r \in 0 .. SIZE_MAX
         /\ r = 0 => n > Word - (Word \div 8)
         /\ r # 0 => /\ n <= r /\ r % 16 = 0 /\ r >= 16 /\ get_size_info(r).size = r
                     /\ n > 64 => 5 * (r - n) < r
<1>0. n \in Nat /\ Word \in Nat /\ SIZE_MAX \in Nat /\ SIZE_MAX = Word - 1 /\ Word >= 1048576
  BY WordFacts
<1>1. CASE n <= 128
  <2>1. n \in 1 .. 128
    BY <1>0, <1>1
  <2>2. PICK q \in 1 .. 8 : /\ 16 * (q - 1) < n /\ n <= 16 * q
                            /\ get_size_info(n).size = 16 * q /\ get_size_info(n).class = q
    BY <2>1, SmallRounding
  <2>3. r = 16 * q /\ r \in 1 .. 128 /\ r \in 0 .. SIZE_MAX /\ n <= r /\ r # 0 /\ r >= 16
    BY <1>0, <2>2
  <2>4. r % 16 = 0
    BY <2>3
  <2>5. get_size_info(r).size = r
    <3>1. PICK p \in 1 .. 8 : /\ 16 * (p - 1) < r /\ r <= 16 * p
                              /\ get_size_info(r).size = 16 * p
      BY <2>3, SmallRounding
    <3>2. p = q
      BY <2>3, <3>1
    <3> QED BY <2>3, <3>1, <3>2
  <2>6. n > 64 => 5 * (r - n) < r
    BY <1>0, <2>2, <2>3
  <2> QED BY <2>3, <2>4, <2>5, <2>6
<1>2. CASE ~(n <= 128)
  <2>1. n \in 129 .. SIZE_MAX
    BY <1>0, <1>2
  <2>2. PICK k, q, sp : Between(n, k, q, sp)
    BY <2>1, BetweenExists
  <2>3. r = IF q * sp = Word THEN 0 ELSE q * sp
    BY <2>1, <2>2, RoundingAt
  <2>4. /\ q \in 5 .. 8 /\ sp \in Nat \ {0} /\ sp >= 32 /\ q * sp \in Nat
        /\ 5 * sp <= q * sp /\ q * sp <= 8 * sp /\ 8 * sp <= Word
        /\ n <= q * sp /\ q * sp - n < sp
    BY <1>0, <2>2, BetweenBounds
  <2>5. CASE q * sp = Word
    <3>1. r = 0 /\ Word = 8 * sp
      BY <1>0, <2>3, <2>4, <2>5
    <3>2. Word \div 8 = sp
      BY <2>4, <3>1
    <3> QED BY <1>0, <2>4, <2>5, <3>1, <3>2
  <2>6. CASE q * sp # Word
    <3>1. r = q * sp /\ r \in 0 .. SIZE_MAX /\ r \in Nat /\ n <= r /\ r >= 16 /\ r # 0
      BY <1>0, <2>3, <2>4, <2>6
    <3>2. get_size_info(r).size = r
      BY <2>1, <2>2, <2>6, <3>1, BetweenFixed
    <3>3. r % 16 = 0
      <4>1. PICK t \in Nat \ {0} : sp = 32 * t
        BY <2>2 DEF Between
      <4>2. q * t \in Nat /\ q * sp = 32 * (q * t)
        BY <2>4, <4>1
      <4> QED BY <3>1, <4>2
    <3>4. 5 * (r - n) < r
      BY <1>0, <2>4, <3>1
    <3> QED BY <3>1, <3>2, <3>3, <3>4
  <2> QED BY <2>5, <2>6
<1> QED BY <1>1, <1>2

\* Rounding does not leave the slabs.
LEMMA RoundingInSlab ==
  ASSUME NEW n \in Nat, NEW m \in {14, 17}, n <= 2^m
  PROVE  /\ n \in 0 .. SIZE_MAX /\ get_size_info(n).size \in n .. 2^m
         /\ n = 0 <=> get_size_info(n).size = 0
<1>0. /\ Word >= 1048576 /\ SIZE_MAX = Word - 1 /\ Word \in Nat /\ 2^m \in Nat /\ 2^m <= 131072
      /\ 2^m >= 16384 /\ m \in 0 .. WordBits /\ m \in Nat
  <2>1. 2^14 = 16384 /\ 2^17 = 131072
    OBVIOUS
  <2>2. 2^m = 16384 \/ 2^m = 131072
    <3>1. m = 14 => 2^m = 16384
      BY <2>1
    <3>2. m = 17 => 2^m = 131072
      BY <2>1
    <3> QED BY <3>1, <3>2
  <2> QED BY <2>2, WordFacts, WordAssumption
<1>1. n \in 0 .. SIZE_MAX
  BY <1>0
<1>2. CASE n = 0
  BY <1>0, <1>1, <1>2 DEF get_size_info
<1>3. CASE n \in 1 .. 128
  <2>1. PICK q \in 1 .. 8 : n <= 16 * q /\ get_size_info(n).size = 16 * q
    BY <1>3, SmallRounding
  <2> QED BY <1>0, <1>1, <1>3, <2>1
<1>4. CASE n > 128
  <2>1. n \in 129 .. SIZE_MAX
    BY <1>0, <1>1, <1>4
  <2>2. PICK k, q, sp : Between(n, k, q, sp)
    BY <2>1, BetweenExists
  <2>3. get_size_info(n).size = IF q * sp = Word THEN 0 ELSE q * sp
    BY <2>1, <2>2, RoundingAt
  <2>4. /\ k \in 7 .. WordBits - 1 /\ sp \in Nat \ {0} /\ q * sp \in Nat /\ k \in Nat
        /\ 4 * sp < n /\ n <= q * sp /\ q * sp <= 8 * sp
    BY <2>2, BetweenBounds
  <2>5. 4 * sp = 2^k /\ 8 * sp = 2^(k + 1)
    BY <2>2 DEF Between
  <2>6. k \in 0 .. WordBits /\ k + 1 \in 0 .. WordBits
    BY <2>4, WordAssumption
  <2>7. 2^k < 2^m
    BY <1>0, <2>4, <2>5
  <2>8. k + 1 <= m
    BY <1>0, <2>6, <2>7, PowerOrder
  <2>9. 2^(k + 1) <= 2^m
    BY <1>0, <2>6, <2>8, PowerOrder
  <2> QED BY <1>0, <1>1, <2>3, <2>4, <2>5, <2>9
<1> QED BY <1>2, <1>3, <1>4

\* Beyond the slabs the classes are pages.
LEMMA RoundingToPages ==
  ASSUME NEW n \in 16385 .. SIZE_MAX, get_size_info(n).size # 0
  PROVE  get_size_info(n).size % 4096 = 0
<1>0. n \in Nat /\ n \in 129 .. SIZE_MAX /\ SIZE_MAX \in Nat
  BY WordFacts
<1>1. PICK k, q, sp : Between(n, k, q, sp)
  BY <1>0, BetweenExists
<1>2. get_size_info(n).size = IF q * sp = Word THEN 0 ELSE q * sp
  BY <1>0, <1>1, RoundingAt
<1>3. /\ k \in 7 .. WordBits - 1 /\ sp \in Nat \ {0} /\ q \in 5 .. 8 /\ n <= 8 * sp /\ k \in Nat
  BY <1>0, <1>1, BetweenBounds
<1>4. 8 * sp = 2^(k + 1) /\ sp = 2^(k - 2)
  BY <1>1 DEF Between
<1>5. k + 1 \in 0 .. WordBits /\ 14 \in 0 .. WordBits
  BY <1>3, WordAssumption
<1>6. 2^14 = 16384
  OBVIOUS
<1>7. 2^14 < 2^(k + 1)
  BY <1>0, <1>3, <1>4, <1>6
<1>8. 14 + 1 <= k + 1
  <2>1. PICK j \in 0 .. WordBits : j = 14
    BY <1>5
  <2>2. 2^j = 2^14
    BY <2>1
  <2>3. 2^j < 2^(k + 1)
    BY <1>7, <2>2
  <2>4. j + 1 <= k + 1
    <3> HIDE <2>1
    <3> QED BY <1>5, <2>3, PowerOrder
  <2> QED BY <2>1, <2>4
<1>9. k - 2 \in 12 .. WordBits
  BY <1>3, <1>8, WordAssumption
<1>10. PICK t \in Nat \ {0} : 2^(k - 2) = 4096 * t
  BY <1>9, PowersDivide
<1>11. q * t \in Nat /\ q * sp = 4096 * (q * t)
  BY <1>3, <1>4, <1>10
<1> QED BY <1>2, <1>11

\* Rounding up to pages.
LEMMA PageRounding ==
  ASSUME NEW n \in 0 .. SIZE_MAX, NEW s, s = page_align(n)
  PROVE  /\ s \in 0 .. SIZE_MAX /\ \E q \in Nat : s = 4096 * q
         /\ s = 0 => n = 0 \/ n > Word - 4096
         /\ s # 0 => n <= s /\ s - n < 4096 /\ page_align(s) = s /\ n # 0
<1>0. /\ n \in Nat /\ Word \in Nat /\ SIZE_MAX \in Nat /\ SIZE_MAX = Word - 1 /\ Word >= 1048576
      /\ s = align(n, 4096)
  BY WordFacts DEF page_align, PAGE_SIZE
<1>1. PICK w \in Nat : Word = 4096 * w
  BY WordFacts
<1>2. CASE n = 0
  <2>1. (n + 4096 - 1) % Word = 4095
    BY <1>0, <1>2
  <2>2. s = 0
    BY <1>0, <2>1 DEF align
  <2>3. s = 4096 * 0 /\ 0 \in Nat
    BY <2>2
  <2> QED BY <1>0, <1>2, <2>2, <2>3
<1>3. CASE n # 0
  <2> DEFINE q == (n - 1) \div 4096 + 1
  <2>1. q \in Nat \ {0} /\ (q - 1) * 4096 < n /\ n <= q * 4096
    BY <1>0, <1>3
  <2> HIDE DEF q
  <2>2. n \in 1 .. SIZE_MAX /\ Word = w * 4096 /\ 4096 \in Nat \ {0}
    BY <1>0, <1>1, <1>3
  <2>3. q * 4096 <= Word /\ s = IF q * 4096 = Word THEN 0 ELSE q * 4096
    BY <1>0, <2>1, <2>2, AlignUp
  <2>4. CASE q * 4096 = Word
    <3>1. s = 0 /\ s = 4096 * 0 /\ 0 \in Nat
      BY <2>3, <2>4
    <3> QED BY <1>0, <2>1, <2>4, <3>1
  <2>5. CASE q * 4096 # Word
    <3>1. s = q * 4096 /\ s = 4096 * q /\ s \in 1 .. SIZE_MAX /\ s # 0 /\ n <= s /\ s - n < 4096
      BY <1>0, <2>1, <2>3, <2>5
    <3>2. (q - 1) * 4096 < s /\ s <= q * 4096
      BY <2>1, <3>1
    <3>3. align(s, 4096) = IF q * 4096 = Word THEN 0 ELSE q * 4096
      BY <2>1, <2>2, <3>1, <3>2, AlignUp
    <3>4. page_align(s) = s
      BY <2>5, <3>1, <3>3 DEF page_align, PAGE_SIZE
    <3> QED BY <1>0, <1>3, <2>1, <3>1, <3>4
  <2> QED BY <2>4, <2>5
<1> QED BY <1>2, <1>3

\* What the classes of regions do to every size.
LEMMA LargeRounding ==
  ASSUME NEW n \in 0 .. SIZE_MAX, NEW large \in BOOLEAN, NEW s, s = get_large_size_class(large, n)
  PROVE  /\ s \in 0 .. SIZE_MAX
         /\ s = 0 => \/ n = 0 /\ ~large
                     \/ n > Word - (IF large THEN Word \div 8 ELSE 4096)
         /\ s # 0 => /\ n <= s /\ get_large_size_class(large, s) = s /\ s >= 16
                     /\ n > 16384 => s % 4096 = 0 /\ 5 * (s - n) < s
<1>0. /\ n \in Nat /\ Word \in Nat /\ SIZE_MAX \in Nat /\ SIZE_MAX = Word - 1 /\ Word >= 1048576
  BY WordFacts
<1>1. CASE ~large
  <2>1. s = page_align(n) /\ get_large_size_class(large, s) = page_align(s)
    BY <1>1 DEF get_large_size_class
  <2>2. /\ s \in 0 .. SIZE_MAX
        /\ s = 0 => n = 0 \/ n > Word - 4096
        /\ s # 0 => n <= s /\ s - n < 4096 /\ page_align(s) = s
    BY <2>1, PageRounding
  <2>3. PICK q \in Nat : s = 4096 * q
    BY <2>1, PageRounding
  <2>4. s % 4096 = 0 /\ (s # 0 => s >= 16)
    BY <2>3
  <2>5. s # 0 /\ n > 16384 => 5 * (s - n) < s
    BY <1>0, <2>2, <2>3
  <2> QED BY <1>1, <2>1, <2>2, <2>4, <2>5
<1>2. CASE large
  <2> DEFINE m == IF n >= 4096 THEN n ELSE 4096
  <2>1. Max({n, 4096}) = m /\ m \in 1 .. SIZE_MAX /\ m >= 4096 /\ m >= n
        /\ (n > 16384 => m = n /\ m \in 16385 .. SIZE_MAX) /\ (m > 4096 => m = n)
    <3>1. Max({n, 4096}) = m
      BY <1>0, MinMaxPair
    <3> QED BY <1>0, <3>1
  <2>2. s = get_size_info(m).size
    BY <1>2, <2>1 DEF get_large_size_class, PAGE_SIZE
  <2> HIDE DEF m
  <2>3. /\ s \in 0 .. SIZE_MAX
        /\ s = 0 => m > Word - (Word \div 8)
        /\ s # 0 => /\ m <= s /\ get_size_info(s).size = s /\ (m > 64 => 5 * (s - m) < s)
    BY <2>1, <2>2, Rounding
  <2>4. CASE s = 0
    <3>1. Word - (Word \div 8) >= 4096
      BY <1>0
    <3>2. n > Word - (Word \div 8)
      BY <1>0, <2>1, <2>3, <2>4, <3>1
    <3>3. (IF large THEN Word \div 8 ELSE 4096) = Word \div 8
      BY <1>2
    <3>4. n > Word - (IF large THEN Word \div 8 ELSE 4096)
      BY <3>2, <3>3
    <3> QED BY <2>3, <2>4, <3>4
  <2>5. CASE s # 0
    <3>1. n <= s /\ s >= 4096 /\ s \in Nat
      BY <1>0, <2>1, <2>3, <2>5
    <3>2. Max({s, 4096}) = s
      BY <3>1, MinMaxPair
    <3>3. get_large_size_class(large, s) = s
      BY <1>2, <2>3, <2>5, <3>2 DEF get_large_size_class, PAGE_SIZE
    <3>4. ASSUME n > 16384 PROVE s % 4096 = 0 /\ 5 * (s - n) < s
      <4>1. m = n /\ m \in 16385 .. SIZE_MAX /\ m > 64
        BY <1>0, <2>1, <3>4
      <4>2. s % 4096 = 0
        <5>1. get_size_info(m).size # 0
          BY <2>2, <2>5
        <5> QED BY <2>2, <4>1, <5>1, RoundingToPages
      <4> QED BY <2>3, <2>5, <4>1, <4>2
    <3>5. s >= 16
      BY <3>1
    <3> QED BY <2>3, <2>5, <3>1, <3>3, <3>4, <3>5
  <2> QED BY <2>4, <2>5
<1> QED BY <1>1, <1>2

-----------------------------------------------------------------------------
(* The tables *)

\* The entries of the two tables.
BaseAt(c) == base_size_classes[c + 1]
ExtendedAt(c) == (base_size_classes \o extended_size_classes)[c + 1]

\* Which one SizeOfClass looks at.
LEMMA TableChoice ==
  ASSUME NEW extended \in BOOLEAN, NEW c
  PROVE  SizeOfClass(extended, c) = IF extended THEN ExtendedAt(c) ELSE BaseAt(c)
BY DEF SizeOfClass, size_classes, BaseAt, ExtendedAt

\* The entries by the sixteen byte classes and by doubling.
LEMMA BaseTable ==
  \A c \in 0 .. 36 :
    /\ c <= 8 => BaseAt(c) = 16 * c
    /\ c \in 9 .. 12 => BaseAt(c) = 32 * (c - 4)
    /\ c \in 13 .. 16 => BaseAt(c) = 64 * (c - 8)
    /\ c \in 17 .. 20 => BaseAt(c) = 128 * (c - 12)
    /\ c \in 21 .. 24 => BaseAt(c) = 256 * (c - 16)
    /\ c \in 25 .. 28 => BaseAt(c) = 512 * (c - 20)
    /\ c \in 29 .. 32 => BaseAt(c) = 1024 * (c - 24)
    /\ c \in 33 .. 36 => BaseAt(c) = 2048 * (c - 28)
BY DEF BaseAt, base_size_classes

\* With CONFIG_EXTENDED_SIZE_CLASSES.
LEMMA ExtendedTable ==
  \A c \in 0 .. 48 :
    /\ c <= 8 => ExtendedAt(c) = 16 * c
    /\ c \in 9 .. 12 => ExtendedAt(c) = 32 * (c - 4)
    /\ c \in 13 .. 16 => ExtendedAt(c) = 64 * (c - 8)
    /\ c \in 17 .. 20 => ExtendedAt(c) = 128 * (c - 12)
    /\ c \in 21 .. 24 => ExtendedAt(c) = 256 * (c - 16)
    /\ c \in 25 .. 28 => ExtendedAt(c) = 512 * (c - 20)
    /\ c \in 29 .. 32 => ExtendedAt(c) = 1024 * (c - 24)
    /\ c \in 33 .. 36 => ExtendedAt(c) = 2048 * (c - 28)
    /\ c \in 37 .. 40 => ExtendedAt(c) = 4096 * (c - 32)
    /\ c \in 41 .. 44 => ExtendedAt(c) = 8192 * (c - 36)
    /\ c \in 45 .. 48 => ExtendedAt(c) = 16384 * (c - 40)
BY DEF ExtendedAt, base_size_classes, extended_size_classes

\* Their lengths.
LEMMA TableLength ==
  ASSUME NEW extended \in BOOLEAN
  PROVE  /\ size_classes(extended) \in Seq(Nat)
         /\ Len(size_classes(extended)) = IF extended THEN 49 ELSE 37
<1>1. size_classes(TRUE) \in Seq(Nat) /\ Len(size_classes(TRUE)) = 49
  BY DEF size_classes, base_size_classes, extended_size_classes
<1>2. size_classes(FALSE) \in Seq(Nat) /\ Len(size_classes(FALSE)) = 37
  BY DEF size_classes, base_size_classes
<1>3. CASE extended = TRUE
  BY <1>1, <1>3
<1>4. CASE extended = FALSE
  BY <1>2, <1>4
<1> QED BY <1>3, <1>4

\* The last class has k = TopLog(extended).
TopLog(extended) == IF extended THEN 16 ELSE 13

\* The table that the build uses.
LEMMA Table ==
  ASSUME NEW extended \in BOOLEAN
  PROVE  /\ \A c \in 0 .. 8 : SizeOfClass(extended, c) = 16 * c
         /\ \A k \in 7 .. TopLog(extended) : \A q \in 5 .. 8 :
              SizeOfClass(extended, (k - 6) * 4 + q) = q * 2^(k - 2)
<1>1. ASSUME NEW c \in 0 .. 8 PROVE SizeOfClass(extended, c) = 16 * c
  <2>1. c \in 0 .. 36 /\ c \in 0 .. 48 /\ c <= 8
    OBVIOUS
  <2>2. ExtendedAt(c) = 16 * c
    BY <2>1, ExtendedTable
  <2>3. BaseAt(c) = 16 * c
    BY <2>1, BaseTable
  <2> QED BY TableChoice, <2>2, <2>3
<1>4. ASSUME NEW k \in 7 .. TopLog(extended), NEW q \in 5 .. 8
      PROVE  SizeOfClass(extended, (k - 6) * 4 + q) = q * 2^(k - 2)
  <2>1. k \in 7 .. 16 /\ (k > 13 => extended)
    BY DEF TopLog
  <2>2. PICK j \in 5 .. 14, c \in 0 .. 48 : j = k - 2 /\ c = (k - 6) * 4 + q
    BY <2>1
  <2>3. 2^(k - 2) = 2^j /\ c = (j - 4) * 4 + q
    BY <2>1, <2>2
  <2>4. PICK s : s = SizeOfClass(extended, (k - 6) * 4 + q)
    OBVIOUS
  <2>5. s = IF extended THEN ExtendedAt(c) ELSE BaseAt(c)
    BY <2>2, <2>4, TableChoice
  <2>6. SUFFICES s = q * 2^(k - 2)
    BY <2>4
  <2>7. CASE j = 5
    <3>1. 2^j = 32
      BY <2>7
    <3>2. c = 4 + q /\ c \in 9 .. 12 /\ c \in 0 .. 36
      BY <2>1, <2>2, <2>3, <2>7
    <3>3. ExtendedAt(c) = 32 * (c - 4)
      BY <3>2, ExtendedTable
    <3>4. BaseAt(c) = 32 * (c - 4)
      BY <3>2, BaseTable
    <3>5. s = 32 * (c - 4)
      BY <2>5, <3>3, <3>4
    <3> QED BY <2>3, <3>1, <3>2, <3>5
  <2>8. CASE j = 6
    <3>1. 2^j = 64
      BY <2>8
    <3>2. c = 8 + q /\ c \in 13 .. 16 /\ c \in 0 .. 36
      BY <2>1, <2>2, <2>3, <2>8
    <3>3. ExtendedAt(c) = 64 * (c - 8)
      BY <3>2, ExtendedTable
    <3>4. BaseAt(c) = 64 * (c - 8)
      BY <3>2, BaseTable
    <3>5. s = 64 * (c - 8)
      BY <2>5, <3>3, <3>4
    <3> QED BY <2>3, <3>1, <3>2, <3>5
  <2>9. CASE j = 7
    <3>1. 2^j = 128
      BY <2>9
    <3>2. c = 12 + q /\ c \in 17 .. 20 /\ c \in 0 .. 36
      BY <2>1, <2>2, <2>3, <2>9
    <3>3. ExtendedAt(c) = 128 * (c - 12)
      BY <3>2, ExtendedTable
    <3>4. BaseAt(c) = 128 * (c - 12)
      BY <3>2, BaseTable
    <3>5. s = 128 * (c - 12)
      BY <2>5, <3>3, <3>4
    <3> QED BY <2>3, <3>1, <3>2, <3>5
  <2>10. CASE j = 8
    <3>1. 2^j = 256
      BY <2>10
    <3>2. c = 16 + q /\ c \in 21 .. 24 /\ c \in 0 .. 36
      BY <2>1, <2>2, <2>3, <2>10
    <3>3. ExtendedAt(c) = 256 * (c - 16)
      BY <3>2, ExtendedTable
    <3>4. BaseAt(c) = 256 * (c - 16)
      BY <3>2, BaseTable
    <3>5. s = 256 * (c - 16)
      BY <2>5, <3>3, <3>4
    <3> QED BY <2>3, <3>1, <3>2, <3>5
  <2>11. CASE j = 9
    <3>1. 2^j = 512
      BY <2>11
    <3>2. c = 20 + q /\ c \in 25 .. 28 /\ c \in 0 .. 36
      BY <2>1, <2>2, <2>3, <2>11
    <3>3. ExtendedAt(c) = 512 * (c - 20)
      BY <3>2, ExtendedTable
    <3>4. BaseAt(c) = 512 * (c - 20)
      BY <3>2, BaseTable
    <3>5. s = 512 * (c - 20)
      BY <2>5, <3>3, <3>4
    <3> QED BY <2>3, <3>1, <3>2, <3>5
  <2>12. CASE j = 10
    <3>1. 2^j = 1024
      BY <2>12
    <3>2. c = 24 + q /\ c \in 29 .. 32 /\ c \in 0 .. 36
      BY <2>1, <2>2, <2>3, <2>12
    <3>3. ExtendedAt(c) = 1024 * (c - 24)
      BY <3>2, ExtendedTable
    <3>4. BaseAt(c) = 1024 * (c - 24)
      BY <3>2, BaseTable
    <3>5. s = 1024 * (c - 24)
      BY <2>5, <3>3, <3>4
    <3> QED BY <2>3, <3>1, <3>2, <3>5
  <2>13. CASE j = 11
    <3>1. 2^j = 2048
      BY <2>13
    <3>2. c = 28 + q /\ c \in 33 .. 36 /\ c \in 0 .. 36
      BY <2>1, <2>2, <2>3, <2>13
    <3>3. ExtendedAt(c) = 2048 * (c - 28)
      BY <3>2, ExtendedTable
    <3>4. BaseAt(c) = 2048 * (c - 28)
      BY <3>2, BaseTable
    <3>5. s = 2048 * (c - 28)
      BY <2>5, <3>3, <3>4
    <3> QED BY <2>3, <3>1, <3>2, <3>5
  <2>14. CASE j = 12
    <3>1. 2^j = 4096
      BY <2>14
    <3>2. c = 32 + q /\ c \in 37 .. 40 /\ extended
      BY <2>1, <2>2, <2>3, <2>14
    <3>3. ExtendedAt(c) = 4096 * (c - 32)
      BY <3>2, ExtendedTable
    <3>5. s = 4096 * (c - 32)
      BY <2>5, <3>2, <3>3
    <3> QED BY <2>3, <3>1, <3>2, <3>5
  <2>15. CASE j = 13
    <3>1. 2^j = 8192
      BY <2>15
    <3>2. c = 36 + q /\ c \in 41 .. 44 /\ extended
      BY <2>1, <2>2, <2>3, <2>15
    <3>3. ExtendedAt(c) = 8192 * (c - 36)
      BY <3>2, ExtendedTable
    <3>5. s = 8192 * (c - 36)
      BY <2>5, <3>2, <3>3
    <3> QED BY <2>3, <3>1, <3>2, <3>5
  <2>16. CASE j = 14
    <3>1. 2^j = 16384
      BY <2>16
    <3>2. c = 40 + q /\ c \in 45 .. 48 /\ extended
      BY <2>1, <2>2, <2>3, <2>16
    <3>3. ExtendedAt(c) = 16384 * (c - 40)
      BY <3>2, ExtendedTable
    <3>5. s = 16384 * (c - 40)
      BY <2>5, <3>2, <3>3
    <3> QED BY <2>3, <3>1, <3>2, <3>5
  <2> QED BY <2>7, <2>8, <2>9, <2>10, <2>11, <2>12, <2>13, <2>14, <2>15, <2>16
<1> QED BY <1>1, <1>4

\* The last class.
LastClass(extended) == IF extended THEN 48 ELSE 36

\* It is the largest size of a slab, a power of two.
LEMMA LastEntry ==
  ASSUME NEW extended \in BOOLEAN
  PROVE  /\ SizeOfClass(extended, LastClass(extended)) = max_slab_size_class(extended)
         /\ LastClass(extended) = 4 * (TopLog(extended) - 6) + 8
         /\ LastClass(extended) + 1 = Len(size_classes(extended))
         /\ max_slab_size_class(extended) \in {16384, 131072}
         /\ TopLog(extended) + 1 \in {14, 17}
         /\ max_slab_size_class(extended) = 2^(TopLog(extended) + 1)
         /\ max_slab_size_class(extended) <= SIZE_MAX
<1>1. PICK l, ms, p, n : l = LastClass(extended) /\ ms = max_slab_size_class(extended) /\ p = TopLog(extended)
                         /\ n = Len(size_classes(extended))
  OBVIOUS
<1>2. \/ extended /\ l = 48 /\ ms = 131072 /\ p = 16 /\ n = 49
      \/ ~extended /\ l = 36 /\ ms = 16384 /\ p = 13 /\ n = 37
  <2>1. n = IF extended THEN 49 ELSE 37
    BY <1>1, TableLength
  <2>2. l = IF extended THEN 48 ELSE 36
    BY <1>1 DEF LastClass
  <2>3. ms = IF extended THEN 131072 ELSE 16384
    BY <1>1 DEF max_slab_size_class
  <2>4. p = IF extended THEN 16 ELSE 13
    BY <1>1 DEF TopLog
  <2> QED BY <2>1, <2>2, <2>3, <2>4
<1>3. PICK s : s = SizeOfClass(extended, l)
  OBVIOUS
<1>4. s = IF extended THEN ExtendedAt(l) ELSE BaseAt(l)
  BY <1>3, TableChoice
<1>5. s = ms
  <2>1. CASE extended /\ l = 48 /\ ms = 131072
    <3>1. ExtendedAt(l) = 16384 * (l - 40)
      BY <2>1, ExtendedTable
    <3> QED BY <1>4, <2>1, <3>1
  <2>2. CASE ~extended /\ l = 36 /\ ms = 16384
    <3>1. BaseAt(l) = 2048 * (l - 28)
      BY <2>2, BaseTable
    <3> QED BY <1>4, <2>2, <3>1
  <2> QED BY <1>2, <2>1, <2>2
<1>6. ms = 2^(p + 1)
  <2>1. PICK m : m = p + 1
    OBVIOUS
  <2>2. CASE m = 14 /\ ms = 16384
    <3>1. 2^m = 16384
      BY <2>2
    <3> QED BY <2>1, <2>2, <3>1
  <2>3. CASE m = 17 /\ ms = 131072
    <3>1. 2^m = 131072
      BY <2>3
    <3> QED BY <2>1, <2>3, <3>1
  <2> QED BY <1>2, <2>1, <2>2, <2>3
<1>7. l = 4 * (p - 6) + 8 /\ l + 1 = n /\ ms \in {16384, 131072} /\ p + 1 \in {14, 17}
  BY <1>2
<1>8. ms <= SIZE_MAX
  BY <1>7, WordFacts
<1> QED BY <1>1, <1>3, <1>5, <1>6, <1>7, <1>8

\* The class before one of a doubling.
LEMMA ClassBefore ==
  ASSUME NEW extended \in BOOLEAN, NEW k \in 7 .. TopLog(extended), NEW q \in 5 .. 8
  PROVE  SizeOfClass(extended, (k - 6) * 4 + q - 1) = (q - 1) * 2^(k - 2)
<1>0. k \in 7 .. 16 /\ k \in 7 .. WordBits - 1 /\ TopLog(extended) \in Nat
  <2>1. TopLog(extended) \in {13, 16}
    BY DEF TopLog
  <2> QED BY <2>1, WordAssumption
<1>1. CASE q > 5
  <2>1. q - 1 \in 5 .. 8 /\ (k - 6) * 4 + q - 1 = (k - 6) * 4 + (q - 1)
    BY <1>0, <1>1
  <2>2. SizeOfClass(extended, (k - 6) * 4 + (q - 1)) = (q - 1) * 2^(k - 2)
    BY <2>1, Table
  <2> QED BY <2>1, <2>2
<1>2. CASE q = 5 /\ k > 7
  <2>1. /\ k - 1 \in 7 .. TopLog(extended) /\ 8 \in 5 .. 8 /\ (k - 6) * 4 + q - 1 = ((k - 1) - 6) * 4 + 8
        /\ (k - 1) - 2 = k - 3 /\ k - 3 \in 0 .. WordBits - 1 /\ (k - 3) + 1 = k - 2
    <3>1. PICK top \in Nat : top = TopLog(extended)
      BY <1>0
    <3>2. k - 1 \in 7 .. top /\ (k - 6) * 4 + q - 1 = ((k - 1) - 6) * 4 + 8
      BY <1>0, <1>2, <3>1
    <3>3. (k - 1) - 2 = k - 3 /\ k - 3 \in 0 .. WordBits - 1 /\ (k - 3) + 1 = k - 2
      BY <1>0, <1>2, WordAssumption
    <3> QED BY <3>1, <3>2, <3>3
  <2>2. SizeOfClass(extended, ((k - 1) - 6) * 4 + 8) = 8 * 2^((k - 1) - 2)
    BY <2>1, Table
  <2>3. 2^(k - 2) = 2 * 2^(k - 3) /\ 2^(k - 3) \in Nat
    BY <2>1, PowerAssumption
  <2>4. 2^((k - 1) - 2) = 2^(k - 3)
    BY <2>1
  <2>5. 8 * 2^(k - 3) = (q - 1) * 2^(k - 2)
    BY <1>2, <2>3
  <2> QED BY <2>1, <2>2, <2>4, <2>5
<1>3. CASE q = 5 /\ k = 7
  <2>1. PICK j \in Nat : j = k - 2
    BY <1>3
  <2>2. 2^j = 32
    <3>1. j = 5
      BY <1>3, <2>1
    <3> QED BY <3>1
  <2>3. 2^(k - 2) = 32
    BY <2>1, <2>2
  <2>4. (k - 6) * 4 + q - 1 = 8 /\ 8 \in 0 .. 8 /\ (q - 1) * 32 = 128
    BY <1>3
  <2>5. SizeOfClass(extended, 8) = 16 * 8
    BY <2>4, Table
  <2> QED BY <2>3, <2>4, <2>5
<1> QED BY <1>0, <1>1, <1>2, <1>3

\* get_size_info computes what the table says: the class of a request of a
\* slab, and none before it fits.
LEMMA ClassInTable ==
  ASSUME NEW extended \in BOOLEAN, NEW n \in 0 .. max_slab_size_class(extended),
         NEW c, c = get_size_info(n).class
  PROVE  /\ c \in 0 .. LastClass(extended)
         /\ SizeOfClass(extended, c) = get_size_info(n).size
         /\ c > 0 => SizeOfClass(extended, c - 1) < n
<1>0. /\ LastClass(extended) \in {36, 48} /\ max_slab_size_class(extended) \in {16384, 131072}
      /\ n \in Nat
  BY DEF LastClass, max_slab_size_class
<1>1. CASE n = 0
  <2>1. c = 0 /\ get_size_info(n).size = 0 /\ 0 \in 0 .. 8
    BY <1>1 DEF get_size_info
  <2>2. SizeOfClass(extended, 0) = 16 * 0
    BY <2>1, Table
  <2> QED BY <1>0, <2>1, <2>2
<1>2. CASE n \in 1 .. 128
  <2>1. PICK q \in 1 .. 8 : /\ 16 * (q - 1) < n /\ n <= 16 * q
                            /\ get_size_info(n).size = 16 * q /\ get_size_info(n).class = q
    BY <1>2, SmallRounding
  <2>2. c = q /\ c \in 0 .. 8 /\ c - 1 \in 0 .. 8
    BY <2>1
  <2>3. SizeOfClass(extended, c) = 16 * c /\ SizeOfClass(extended, c - 1) = 16 * (c - 1)
    BY <2>2, Table
  <2> QED BY <1>0, <2>1, <2>2, <2>3
<1>3. CASE n > 128
  <2>0. /\ n \in 129 .. SIZE_MAX /\ TopLog(extended) \in Nat /\ n <= 2^(TopLog(extended) + 1)
        /\ TopLog(extended) + 1 \in {14, 17} /\ TopLog(extended) + 1 \in 0 .. WordBits
        /\ LastClass(extended) = 4 * (TopLog(extended) - 6) + 8
        /\ 2^(TopLog(extended) + 1) <= SIZE_MAX /\ 2^(TopLog(extended) + 1) \in Nat
    <3>1. PICK top, ms, l : top = TopLog(extended) /\ ms = max_slab_size_class(extended)
                            /\ l = LastClass(extended)
      OBVIOUS
    <3>2. top \in {13, 16}
      BY <3>1 DEF TopLog
    <3>3. ms = 2^(top + 1) /\ ms <= SIZE_MAX /\ ms \in {16384, 131072} /\ l = 4 * (top - 6) + 8
      BY <3>1, LastEntry
    <3>4. top + 1 \in {14, 17} /\ top \in Nat /\ top + 1 \in 0 .. WordBits /\ ms \in Nat
      BY <3>2, <3>3, WordAssumption
    <3>5. n \in 129 .. SIZE_MAX /\ n <= ms
      BY <1>0, <1>3, <3>1, <3>3, WordFacts
    <3> QED BY <3>1, <3>3, <3>4, <3>5
  <2> DEFINE top == TopLog(extended)
  <2>1. PICK k, q, sp : Between(n, k, q, sp)
    BY <2>0, BetweenExists
  <2>2. /\ k \in 7 .. WordBits - 1 /\ sp \in Nat \ {0} /\ q * sp \in Nat /\ k \in Nat
        /\ 4 * sp < n /\ n <= q * sp /\ q * sp <= 8 * sp /\ q \in 5 .. 8 /\ (q - 1) * sp < n
    BY <1>0, <2>1, BetweenBounds
  <2>3. 4 * sp = 2^k /\ 8 * sp = 2^(k + 1) /\ sp = 2^(k - 2)
    BY <2>1 DEF Between
  <2>4. k \in 0 .. WordBits /\ k + 1 \in 0 .. WordBits
    BY <2>2, WordAssumption
  <2>5. k \in 7 .. top
    <3>1. 2^k < 2^(top + 1)
      BY <1>0, <2>0, <2>2, <2>3
    <3>2. k + 1 <= top + 1
      BY <2>0, <2>4, <3>1, PowerOrder
    <3> QED BY <2>0, <2>2, <3>2
  <2>6. q * sp # Word
    <3>1. 2^(k + 1) <= 2^(top + 1)
      BY <2>0, <2>4, <2>5, <2>2, PowerOrder
    <3> QED BY <2>0, <2>2, <2>3, <3>1, WordFacts
  <2>7. get_size_info(n).size = q * sp /\ c = (k - 6) * 4 + q
    BY <2>0, <2>1, <2>6, RoundingAt
  <2>8. SizeOfClass(extended, c) = q * sp /\ SizeOfClass(extended, c - 1) = (q - 1) * sp
    <3>1. SizeOfClass(extended, (k - 6) * 4 + q) = q * 2^(k - 2)
      BY <2>2, <2>5, Table
    <3>2. SizeOfClass(extended, (k - 6) * 4 + q - 1) = (q - 1) * 2^(k - 2)
      BY <2>2, <2>5, ClassBefore
    <3>3. SizeOfClass(extended, c) = SizeOfClass(extended, (k - 6) * 4 + q)
      BY <2>7
    <3>4. SizeOfClass(extended, c - 1) = SizeOfClass(extended, (k - 6) * 4 + q - 1)
      <4>0. c = (k - 6) * 4 + q /\ k \in Nat /\ q \in Nat
        BY <2>2, <2>7
      <4>1. c - 1 = (k - 6) * 4 + q - 1
        BY <4>0
      <4> QED BY <4>1
    <3>5. SizeOfClass(extended, c) = q * sp
      BY <2>3, <3>1, <3>3
    <3>6. SizeOfClass(extended, c - 1) = (q - 1) * sp
      BY <2>3, <3>2, <3>4
    <3> QED BY <3>5, <3>6
  <2>9. c \in 0 .. LastClass(extended)
    BY <2>0, <2>2, <2>5, <2>7
  <2> QED BY <2>2, <2>7, <2>8, <2>9
<1> QED BY <1>0, <1>1, <1>2, <1>3

\* Every entry is a size that is rounded to itself.
LEMMA EntryFixed ==
  ASSUME NEW extended \in BOOLEAN, NEW c \in 1 .. LastClass(extended), NEW s,
         s = SizeOfClass(extended, c)
  PROVE  /\ s \in 16 .. max_slab_size_class(extended) /\ s % 16 = 0
         /\ get_size_info(s).size = s
<1>0. PICK top, ms, l : top = TopLog(extended) /\ ms = max_slab_size_class(extended)
                        /\ l = LastClass(extended)
  OBVIOUS
<1>1. /\ ms = 2^(top + 1) /\ ms <= SIZE_MAX /\ ms \in {16384, 131072} /\ l = 4 * (top - 6) + 8
      /\ top + 1 \in {14, 17} /\ top \in {13, 16}
  <2>1. top \in {13, 16}
    BY <1>0 DEF TopLog
  <2> QED BY <1>0, <2>1, LastEntry
<1>2. c \in 1 .. l /\ l \in Nat /\ c \in Nat
  BY <1>0, <1>1
<1>3. CASE c <= 8
  <2>1. c \in 0 .. 8 /\ c \in 1 .. 8
    BY <1>2, <1>3
  <2>2. s = 16 * c
    BY <2>1, Table
  <2>3. s \in 1 .. 128 /\ s \in 16 .. ms /\ s % 16 = 0
    BY <1>1, <2>1, <2>2
  <2>4. PICK q \in 1 .. 8 : 16 * (q - 1) < s /\ s <= 16 * q /\ get_size_info(s).size = 16 * q
    BY <2>3, SmallRounding
  <2>5. q = c
    BY <2>1, <2>2, <2>4
  <2> QED BY <1>0, <2>2, <2>3, <2>4, <2>5
<1>4. CASE c > 8
  <2>1. PICK k, q : k \in 7 .. top /\ q \in 5 .. 8 /\ c = (k - 6) * 4 + q
    <3>1. /\ ((c - 5) \div 4) + 6 \in 7 .. top /\ ((c - 5) % 4) + 5 \in 5 .. 8
          /\ c = ((((c - 5) \div 4) + 6) - 6) * 4 + (((c - 5) % 4) + 5)
      BY <1>1, <1>2, <1>4
    <3> QED BY <3>1
  <2>2. k \in 7 .. TopLog(extended) /\ k \in 7 .. WordBits - 1 /\ k + 1 \in 0 .. WordBits /\ k \in Nat
        /\ top + 1 \in 0 .. WordBits /\ top \in Nat
    BY <1>0, <1>1, <2>1, WordAssumption
  <2>3. PICK sp : sp = 2^(k - 2)
    OBVIOUS
  <2>4. s = q * sp
    <3>1. SizeOfClass(extended, (k - 6) * 4 + q) = q * 2^(k - 2)
      BY <2>1, <2>2, Table
    <3>2. s = SizeOfClass(extended, (k - 6) * 4 + q)
      BY <2>1
    <3> QED BY <2>3, <3>1, <3>2
  <2>5. /\ sp \in Nat \ {0} /\ 4 * sp = 2^k /\ 8 * sp = 2^(k + 1) /\ 8 * sp <= Word
        /\ \E t \in Nat \ {0} : sp = 32 * t
        /\ \E w \in Nat \ {0} : Word = w * sp
    BY <2>2, <2>3, SpacingFacts
  <2>6. (q - 1) * sp < q * sp /\ q * sp <= q * sp /\ q * sp \in Nat
    <3>1. q \in Nat /\ q * sp = (q - 1) * sp + sp /\ (q - 1) * sp \in Nat
      BY <2>1, <2>5
    <3> QED BY <2>5, <3>1
  <2>7. Between(q * sp, k, q, sp)
    BY <2>1, <2>2, <2>3, <2>5, <2>6 DEF Between
  <2>8. 2^(k + 1) <= 2^(top + 1) /\ 2^(k + 1) \in Nat /\ 2^(top + 1) \in Nat
    BY <2>1, <2>2, PowerOrder
  <2>9. 4 * sp < q * sp /\ q * sp <= 8 * sp /\ sp >= 32
    BY <2>6, <2>7, BetweenBounds
  <2>10. q * sp \in 129 .. SIZE_MAX /\ q * sp \in 16 .. ms /\ q * sp # Word
    BY <1>1, <2>5, <2>6, <2>8, <2>9, WordFacts
  <2>11. get_size_info(q * sp).size = q * sp
    BY <2>7, <2>10, RoundingAt
  <2>12. (q * sp) % 16 = 0
    <3>1. q * sp \in 1 .. SIZE_MAX /\ q * sp # 0
      BY <2>10, WordFacts
    <3> QED BY <2>11, <3>1, Rounding
  <2> QED BY <1>0, <2>4, <2>10, <2>11, <2>12
<1> QED BY <1>2, <1>3, <1>4

\* The entries are in the table.
LEMMA EntryInRange ==
  ASSUME NEW extended \in BOOLEAN, NEW c \in 0 .. LastClass(extended)
  PROVE  SizeOfClass(extended, c) \in Range(size_classes(extended))
<1>1. /\ size_classes(extended) \in Seq(Nat) /\ LastClass(extended) \in {36, 48}
      /\ Len(size_classes(extended)) = LastClass(extended) + 1
  BY TableLength, LastEntry DEF LastClass
<1>2. c + 1 \in 1 .. Len(size_classes(extended))
  BY <1>1
<1>3. c + 1 \in DOMAIN size_classes(extended)
  BY <1>1, <1>2
<1> QED BY <1>3 DEF SizeOfClass, Range

-----------------------------------------------------------------------------
(* Alignment *)

Divides(a, b) == b % a = 0

\* The alignments up to a page.
PagePowers == {1, 2, 4, 8, 16, 32, 64, 128, 256, 512, 1024, 2048, 4096}

\* Of two of them the smaller divides the larger.
LEMMA PowersDivideEachOther ==
  \A a \in PagePowers, b \in PagePowers : a <= b => b % a = 0
BY DEF PagePowers

\* They all divide the largest class.
LEMMA PowersDivideMax ==
  \A a \in PagePowers : 16384 % a = 0 /\ 131072 % a = 0 /\ 4096 % a = 0
BY DEF PagePowers

\* get_size_info_align finds a class: it fits, it is aligned and it is rounded
\* to itself.
LEMMA AlignedClass ==
  ASSUME NEW extended \in BOOLEAN, NEW n \in 0 .. max_slab_size_class(extended),
         NEW a \in PagePowers, NEW s, s = get_size_info_align(extended, n, a).size
  PROVE  /\ s \in 16 .. max_slab_size_class(extended) /\ n <= s /\ Divides(a, s)
         /\ get_size_info(s).size = s
         /\ s \in Range(size_classes(extended))
<1> DEFINE start == Max({1, get_size_info(n).class})
           Fits(v) == n <= v /\ v % a = 0
           T == {c \in start .. Len(size_classes(extended)) - 1 : Fits(SizeOfClass(extended, c))}
<1>7. s = SizeOfClass(extended, Min(T))
  BY DEF get_size_info_align
<1>1. PICK l \in {36, 48} : l = LastClass(extended)
  BY DEF LastClass
<1>2. PICK ms : ms = max_slab_size_class(extended) /\ ms \in {16384, 131072}
  BY DEF max_slab_size_class
<1>3. start \in 1 .. l
  <2>1. PICK g \in 0 .. l : g = get_size_info(n).class
    BY <1>1, ClassInTable
  <2>2. 1 \in Nat /\ g \in Nat
    OBVIOUS
  <2>3. Max({1, g}) = IF 1 >= g THEN 1 ELSE g
    BY <2>2, MinMaxPair
  <2> QED BY <2>1, <2>3
<1>4. Len(size_classes(extended)) - 1 = l
  BY <1>1, LastEntry
<1> HIDE DEF start
<1>5. l \in T
  <2>1. SizeOfClass(extended, l) = ms
    BY <1>1, <1>2, LastEntry
  <2>2. ms % a = 0
    BY <1>2, PowersDivideMax
  <2>3. l \in start .. l /\ n <= ms
    BY <1>2, <1>3
  <2> QED BY <1>4, <2>1, <2>2, <2>3
<1>6. T \in SUBSET Nat /\ T # {}
  <2>1. \A c \in start .. l : c \in Nat
    BY <1>3
  <2> QED BY <1>4, <1>5, <2>1
<1> HIDE DEF Fits
<1>8. PICK c : c = Min(T) /\ c \in T
  <2> HIDE DEF T
  <2>1. Min(T) \in T
    BY <1>6, MinNat
  <2> QED BY <2>1
<1>9. c \in start .. l /\ Fits(SizeOfClass(extended, c))
  BY <1>4, <1>8
<1> HIDE DEF T
<1>10. s = SizeOfClass(extended, c)
  BY <1>7, <1>8
<1>11. Fits(s)
  BY <1>9, <1>10
<1>12. c \in 1 .. LastClass(extended) /\ c \in 0 .. LastClass(extended)
  <2>1. c \in start .. l
    BY <1>9
  <2> QED BY <1>1, <1>3, <2>1
<1>13. /\ s \in 16 .. max_slab_size_class(extended) /\ s % 16 = 0
       /\ get_size_info(s).size = s
  BY <1>10, <1>12, EntryFixed
<1>14. s \in Range(size_classes(extended))
  BY <1>10, <1>12, EntryInRange
<1>15. n <= s /\ Divides(a, s)
  BY <1>11, Zenon DEF Fits, Divides
<1> QED BY <1>13, <1>14, <1>15, Zenon

\* They are the powers of two up to 2^12.
LEMMA PagePowersAre ==
  /\ \A k \in 0 .. 12 : 2^k \in PagePowers
  /\ \A a \in PagePowers : \E k \in 0 .. 12 : a = 2^k
<1>1. ASSUME NEW k \in 0 .. 12
      PROVE  \A i \in 0 .. 12 : k = i => 2^k \in PagePowers
  <2>0. k = 0 => 2^k = 1
    OBVIOUS
  <2>1. k = 1 => 2^k = 2
    OBVIOUS
  <2>2. k = 2 => 2^k = 4
    OBVIOUS
  <2>3. k = 3 => 2^k = 8
    OBVIOUS
  <2>4. k = 4 => 2^k = 16
    OBVIOUS
  <2>5. k = 5 => 2^k = 32
    OBVIOUS
  <2>6. k = 6 => 2^k = 64
    OBVIOUS
  <2>7. k = 7 => 2^k = 128
    OBVIOUS
  <2>8. k = 8 => 2^k = 256
    OBVIOUS
  <2>9. k = 9 => 2^k = 512
    OBVIOUS
  <2>10. k = 10 => 2^k = 1024
    OBVIOUS
  <2>11. k = 11 => 2^k = 2048
    OBVIOUS
  <2>12. k = 12 => 2^k = 4096
    OBVIOUS
  <2> QED BY <2>0, <2>1, <2>2, <2>3, <2>4, <2>5, <2>6, <2>7, <2>8, <2>9, <2>10, <2>11, <2>12 DEF PagePowers
<1>2. ASSUME NEW a \in PagePowers PROVE \E k \in 0 .. 12 : a = 2^k
  <2>0. CASE a = 1
    <3>1. PICK k \in 0 .. 12 : k = 0
      OBVIOUS
    <3>2. 2^k = 1
      BY <3>1
    <3> QED BY <2>0, <3>2
  <2>1. CASE a = 2
    <3>1. PICK k \in 0 .. 12 : k = 1
      OBVIOUS
    <3>2. 2^k = 2
      BY <3>1
    <3> QED BY <2>1, <3>2
  <2>2. CASE a = 4
    <3>1. PICK k \in 0 .. 12 : k = 2
      OBVIOUS
    <3>2. 2^k = 4
      BY <3>1
    <3> QED BY <2>2, <3>2
  <2>3. CASE a = 8
    <3>1. PICK k \in 0 .. 12 : k = 3
      OBVIOUS
    <3>2. 2^k = 8
      BY <3>1
    <3> QED BY <2>3, <3>2
  <2>4. CASE a = 16
    <3>1. PICK k \in 0 .. 12 : k = 4
      OBVIOUS
    <3>2. 2^k = 16
      BY <3>1
    <3> QED BY <2>4, <3>2
  <2>5. CASE a = 32
    <3>1. PICK k \in 0 .. 12 : k = 5
      OBVIOUS
    <3>2. 2^k = 32
      BY <3>1
    <3> QED BY <2>5, <3>2
  <2>6. CASE a = 64
    <3>1. PICK k \in 0 .. 12 : k = 6
      OBVIOUS
    <3>2. 2^k = 64
      BY <3>1
    <3> QED BY <2>6, <3>2
  <2>7. CASE a = 128
    <3>1. PICK k \in 0 .. 12 : k = 7
      OBVIOUS
    <3>2. 2^k = 128
      BY <3>1
    <3> QED BY <2>7, <3>2
  <2>8. CASE a = 256
    <3>1. PICK k \in 0 .. 12 : k = 8
      OBVIOUS
    <3>2. 2^k = 256
      BY <3>1
    <3> QED BY <2>8, <3>2
  <2>9. CASE a = 512
    <3>1. PICK k \in 0 .. 12 : k = 9
      OBVIOUS
    <3>2. 2^k = 512
      BY <3>1
    <3> QED BY <2>9, <3>2
  <2>10. CASE a = 1024
    <3>1. PICK k \in 0 .. 12 : k = 10
      OBVIOUS
    <3>2. 2^k = 1024
      BY <3>1
    <3> QED BY <2>10, <3>2
  <2>11. CASE a = 2048
    <3>1. PICK k \in 0 .. 12 : k = 11
      OBVIOUS
    <3>2. 2^k = 2048
      BY <3>1
    <3> QED BY <2>11, <3>2
  <2>12. CASE a = 4096
    <3>1. PICK k \in 0 .. 12 : k = 12
      OBVIOUS
    <3>2. 2^k = 4096
      BY <3>1
    <3> QED BY <2>12, <3>2
  <2> QED BY <2>0, <2>1, <2>2, <2>3, <2>4, <2>5, <2>6, <2>7, <2>8, <2>9, <2>10, <2>11, <2>12 DEF PagePowers
<1> QED BY <1>1, <1>2

\* The alignment of the slots of a class: the largest power of two up to a page
\* that divides the size, so every other one that does divides it.
LEMMA SlotAlignment ==
  ASSUME NEW x \in Nat, NEW A, A = Max({2^k : k \in {j \in 0 .. 12 : x % 2^j = 0}}), x % 16 = 0
  PROVE  /\ A \in PagePowers /\ A >= 16
         /\ \A a \in PagePowers : x % a = 0 => A % a = 0
<1> DEFINE S == {2^k : k \in {j \in 0 .. 12 : x % 2^j = 0}}
<1>1. S \subseteq PagePowers
  BY PagePowersAre
<1>2. ASSUME NEW a \in PagePowers, x % a = 0 PROVE a \in S
  <2>1. PICK k \in 0 .. 12 : a = 2^k
    BY PagePowersAre
  <2>2. x % 2^k = 0
    BY <1>2, <2>1, Zenon
  <2> QED BY <2>1, <2>2, Zenon
<1>3. 16 \in PagePowers
  BY DEF PagePowers
<1>4. 16 \in S
  BY <1>2, <1>3, Zenon
<1>5. S \in SUBSET Nat /\ S # {} /\ 4096 \in Nat /\ \A y \in S : y <= 4096
  <2>1. PagePowers \subseteq Nat /\ \A y \in PagePowers : y <= 4096
    BY DEF PagePowers
  <2> HIDE DEF S
  <2> QED BY <1>1, <1>4, <2>1
<1>6. A = Max(S)
  OBVIOUS
<1> HIDE DEF S
<1>7. A \in S /\ \A y \in S : A >= y
  <2>0. PICK b \in Nat : b = 4096
    OBVIOUS
  <2>1. \A y \in S : y <= b
    BY <1>5, <2>0
  <2>2. S \in SUBSET Nat /\ S # {}
    BY <1>5
  <2>3. Max(S) \in S /\ \A y \in S : Max(S) >= y
    BY <2>1, <2>2, MaxNat
  <2> QED BY <1>6, <2>3, Zenon
<1>8. A \in PagePowers /\ A >= 16
  BY <1>1, <1>4, <1>7
<1>9. ASSUME NEW a \in PagePowers, x % a = 0 PROVE A % a = 0
  <2>1. a \in S
    BY <1>2, <1>9, Zenon
  <2>2. a <= A
    <3>1. A >= a
      BY <1>7, <2>1
    <3>2. a \in Nat /\ A \in Nat
      BY <1>8 DEF PagePowers
    <3> QED BY <3>1, <3>2
  <2> QED BY <1>8, <2>2, PowersDivideEachOther, Zenon
<1> QED BY <1>8, <1>9, Zenon

-----------------------------------------------------------------------------
(* The invariant *)

Configs == [extended : BOOLEAN, large : BOOLEAN, canary : {0, 8}, zero : BOOLEAN]

\* adjust_size_for_canary in the build c.
Adjusted(c, n) ==
  IF n > 0 /\ n <= max_slab_size_class(c.extended) THEN n + c.canary ELSE n

ValidAlignments == {2^k : k \in 0 .. 16}

\* Of a slot the class, and of a region the size, is the one that a sized free
\* computes from the request; a request of pages cannot be freed that way.
SlotOf(c, o) ==
  LET n == Adjusted(c, o.req)
  IN  /\ o.size <= max_slab_size_class(c.extended)
      /\ o.size \in Range(size_classes(c.extended))
      /\ o.origin \in {"plain", "calloc"} =>
           n <= max_slab_size_class(c.extended) /\ o.size = get_size_info(n).size
      /\ o.origin = "aligned" =>
           /\ n <= max_slab_size_class(c.extended)
           /\ o.reqAlign \in ValidAlignments /\ o.reqAlign <= 4096
           /\ o.size = IF o.reqAlign > 16 THEN get_size_info_align(c.extended, n, o.reqAlign).size
                       ELSE get_size_info(n).size
RegionOf(c, o) ==
  /\ o.size # 0 /\ get_large_size_class(c.large, o.size) = o.size
  /\ o.origin # "page" => o.size = get_large_size_class(c.large, Adjusted(c, o.req))

ObjectInv(c, o) ==
  /\ o.req \in 0 .. SIZE_MAX /\ o.size \in 0 .. SIZE_MAX /\ Adjusted(c, o.req) <= o.size
  /\ o.size = 0 \/ o.size >= 16
  /\ o.align \in Nat /\ o.align >= 16 /\ Divides(o.reqAlign, o.align)
  /\ o.origin \in {"plain", "calloc", "aligned", "page"}
  /\ o.origin = "calloc" => o.zero >= o.req
  /\ o.kind \in {"slab", "large"}
  /\ IF o.kind = "slab" THEN SlotOf(c, o) ELSE RegionOf(c, o)

\* A call of operator new that is trying again.
PendingInv ==
  pending = NoCall \/ /\ pending.size \in 0 .. SIZE_MAX
                      /\ pending.alignment \in ValidAlignments \cup {0}
                      /\ obj = NoObject /\ copied = 0

HeapInv ==
  /\ config \in Configs /\ ~fatal
  /\ obj = NoObject \/ ObjectInv(config, obj)
  /\ PendingInv

\* The parameters of a build.
LEMMA ConfigFacts ==
  ASSUME NEW c \in Configs
  PROVE  /\ c.extended \in BOOLEAN /\ c.large \in BOOLEAN /\ c.zero \in BOOLEAN /\ c.canary \in {0, 8}
         /\ max_slab_size_class(c.extended) \in Nat
         /\ max_slab_size_class(c.extended) >= 16384
         /\ max_slab_size_class(c.extended) <= 131072
         /\ max_slab_size_class(c.extended) + 8 <= SIZE_MAX
<1>1. c.extended \in BOOLEAN /\ c.large \in BOOLEAN /\ c.zero \in BOOLEAN /\ c.canary \in {0, 8}
  BY DEF Configs
<1>2. PICK ms : ms = max_slab_size_class(c.extended)
  OBVIOUS
<1>3. ms \in {16384, 131072}
  BY <1>1, <1>2, LastEntry
<1>4. ms \in Nat /\ ms >= 16384 /\ ms <= 131072 /\ ms + 8 <= SIZE_MAX
  BY <1>3, WordFacts
<1> QED BY <1>1, <1>2, <1>4

\* What the canary adds.
LEMMA AdjustedFacts ==
  ASSUME NEW c \in Configs, NEW n \in 0 .. SIZE_MAX, NEW m, m = Adjusted(c, n),
         NEW ms, ms = max_slab_size_class(c.extended)
  PROVE  /\ m \in 0 .. SIZE_MAX /\ n <= m /\ m \in Nat /\ n \in Nat
         /\ m = 0 <=> n = 0
         /\ n > ms => m = n
         /\ n > 0 /\ n <= ms => m = n + c.canary
         /\ m <= ms => n <= ms
<1>1. c.canary \in {0, 8} /\ ms \in Nat /\ ms + 8 <= SIZE_MAX /\ SIZE_MAX \in Nat
  BY ConfigFacts, WordFacts
<1>2. m = IF n > 0 /\ n <= ms THEN n + c.canary ELSE n
  BY DEF Adjusted
<1> QED BY <1>1, <1>2

\* adjust_size_for_canary and the other operators of the state are those.
LEMMA StateOperators ==
  ASSUME config \in Configs
  PROVE  /\ MaxSlab = max_slab_size_class(config.extended)
         /\ \A n : adjust_size_for_canary(n) = Adjusted(config, n)
         /\ \A n : LargeSize(n) = get_large_size_class(config.large, n)
         /\ \A n, a : AlignedSize(n, a) = get_size_info_align(config.extended, n, a).size
BY DEF MaxSlab, adjust_size_for_canary, Adjusted, LargeSize, AlignedSize

\* The class of a request of a slab.
LEMMA SlabPlace ==
  ASSUME NEW c \in Configs, NEW m \in Nat, m <= max_slab_size_class(c.extended),
         NEW s, s = get_size_info(m).size
  PROVE  /\ s \in 0 .. SIZE_MAX /\ m <= s /\ s <= max_slab_size_class(c.extended)
         /\ s \in Range(size_classes(c.extended))
         /\ Divides(16, s)
         /\ s = 0 <=> m = 0
         /\ s = 0 \/ s >= 16
<1>1. PICK ms : ms = max_slab_size_class(c.extended)
  OBVIOUS
<1>2. c.extended \in BOOLEAN /\ ms \in Nat /\ ms + 8 <= SIZE_MAX /\ SIZE_MAX \in Nat /\ m <= ms
  BY <1>1, ConfigFacts, WordFacts
<1>3. s \in m .. ms /\ (s = 0 <=> m = 0)
  <2>1. PICK p \in {14, 17} : ms = 2^p
    <3>1. TopLog(c.extended) + 1 \in {14, 17} /\ ms = 2^(TopLog(c.extended) + 1)
      BY <1>1, <1>2, LastEntry
    <3> QED BY <3>1
  <2>2. m <= 2^p
    BY <1>2, <2>1
  <2>3. get_size_info(m).size \in m .. 2^p /\ (m = 0 <=> get_size_info(m).size = 0)
    BY <2>2, RoundingInSlab
  <2> QED BY <2>1, <2>3
<1>4. s \in Range(size_classes(c.extended))
  <2>1. PICK g : g = get_size_info(m).class
    OBVIOUS
  <2>2. m \in 0 .. max_slab_size_class(c.extended)
    BY <1>1, <1>2
  <2>3. g \in 0 .. LastClass(c.extended) /\ SizeOfClass(c.extended, g) = s
    BY <1>2, <2>1, <2>2, ClassInTable
  <2> QED BY <1>2, <2>3, EntryInRange
<1>5. Divides(16, s)
  <2>1. CASE m = 0
    <3>1. s = 0
      BY <1>3, <2>1
    <3>2. 0 % 16 = 0
      OBVIOUS
    <3> QED BY <3>1, <3>2 DEF Divides
  <2>2. CASE m # 0
    <3>1. m \in 1 .. SIZE_MAX /\ s # 0
      BY <1>2, <1>3, <2>2
    <3>2. s % 16 = 0
      BY <3>1, Rounding
    <3> QED BY <3>2 DEF Divides
  <2> QED BY <2>1, <2>2
<1>6. s \in 0 .. SIZE_MAX /\ m <= s /\ s <= ms
  BY <1>2, <1>3
<1>7. s = 0 \/ s >= 16
  <2>1. CASE m = 0
    BY <1>3, <2>1
  <2>2. CASE m # 0
    <3>1. m \in 1 .. SIZE_MAX /\ s # 0
      BY <1>2, <1>3, <2>2
    <3> QED BY <3>1, Rounding
  <2> QED BY <2>1, <2>2
<1> QED BY <1>1, <1>3, <1>4, <1>5, <1>6, <1>7

\* The size of a region.
LEMMA RegionPlace ==
  ASSUME NEW c \in Configs, NEW m \in 0 .. SIZE_MAX,
         NEW s, s = get_large_size_class(c.large, m), s # 0
  PROVE  /\ s \in 0 .. SIZE_MAX /\ s \in Nat /\ m <= s /\ get_large_size_class(c.large, s) = s
         /\ s >= 16
<1>1. c.large \in BOOLEAN
  BY ConfigFacts
<1>2. s \in 0 .. SIZE_MAX /\ m <= s /\ get_large_size_class(c.large, s) = s /\ s >= 16
  BY <1>1, LargeRounding
<1> QED BY <1>2, WordFacts

\* The alignment of a slot.
LEMMA InSlabAlign ==
  ASSUME NEW s \in Nat, Divides(16, s)
  PROVE  /\ InSlab(s).align \in PagePowers /\ InSlab(s).align >= 16
         /\ \A a \in PagePowers : a <= 16 \/ (s # 0 /\ Divides(a, s)) => Divides(a, InSlab(s).align)
<1>1. PICK x : x = IF s = 0 THEN 16 ELSE s
  OBVIOUS
<1>2. x \in Nat /\ x % 16 = 0
  <2>1. 16 % 16 = 0 /\ 16 \in Nat
    OBVIOUS
  <2>2. s % 16 = 0
    BY DEF Divides
  <2> QED BY <1>1, <2>1, <2>2
<1>3. PICK A : A = Max({2^k : k \in {j \in 0 .. 12 : x % 2^j = 0}})
  OBVIOUS
<1>4. InSlab(s).align = A
  BY <1>1, <1>3, Zenon DEF InSlab
<1>5. A \in PagePowers /\ A >= 16 /\ \A a \in PagePowers : x % a = 0 => A % a = 0
  BY <1>2, <1>3, SlotAlignment
<1>6. ASSUME NEW a \in PagePowers, a <= 16 \/ (s # 0 /\ Divides(a, s)) PROVE Divides(a, A)
  <2>1. CASE a <= 16
    <3>1. a <= A
      <4>1. a \in Nat /\ A \in Nat
        BY <1>5 DEF PagePowers
      <4>2. A >= 16
        BY <1>5
      <4> QED BY <2>1, <4>1, <4>2
    <3>2. A % a = 0
      BY <1>5, <3>1, PowersDivideEachOther, Zenon
    <3> QED BY <3>2, Zenon DEF Divides
  <2>2. CASE s # 0 /\ Divides(a, s)
    <3>1. x = s
      BY <1>1, <2>2, Zenon
    <3>2. x % a = 0
      BY <2>2, <3>1, Zenon DEF Divides
    <3>3. A % a = 0
      BY <1>5, <3>2, Zenon
    <3> QED BY <3>3, Zenon DEF Divides
  <2> QED BY <1>6, <2>1, <2>2, Zenon
<1> QED BY <1>4, <1>5, <1>6, Zenon

\* What allocate returns for a slab.
LEMMA AllocateSlab ==
  ASSUME config \in Configs, NEW m \in Nat, m <= MaxSlab, NEW o \in allocate(m)
  PROVE  /\ o = InSlab(get_size_info(m).size)
         /\ o.kind = "slab" /\ o.size = get_size_info(m).size
         /\ o.size \in 0 .. SIZE_MAX /\ o.size \in Nat /\ m <= o.size /\ o.size <= MaxSlab
         /\ o.size = 0 <=> m = 0
         /\ o.size = 0 \/ o.size >= 16
         /\ o.size \in Range(size_classes(config.extended))
         /\ o.align \in PagePowers /\ o.align >= 16 /\ o.align \in Nat
         /\ \A a \in PagePowers :
              a <= 16 \/ (o.size # 0 /\ Divides(a, o.size)) => Divides(a, o.align)
         /\ o.zero = IF config.zero THEN o.size ELSE 0
<1>1. PICK s : s = get_size_info(m).size
  OBVIOUS
<1>2. o = InSlab(s)
  BY <1>1 DEF allocate
<1>3. o.kind = "slab" /\ o.size = s /\ o.zero = IF config.zero THEN s ELSE 0
  BY <1>2 DEF InSlab
<1>4. MaxSlab = max_slab_size_class(config.extended)
  BY StateOperators
<1>5. /\ s \in 0 .. SIZE_MAX /\ m <= s /\ s <= MaxSlab
      /\ s \in Range(size_classes(config.extended))
      /\ Divides(16, s) /\ (s = 0 <=> m = 0) /\ (s = 0 \/ s >= 16)
  BY <1>1, <1>4, SlabPlace
<1>6. s \in Nat
  BY <1>5, WordFacts
<1>7. /\ o.align \in PagePowers /\ o.align >= 16
      /\ \A a \in PagePowers : a <= 16 \/ (s # 0 /\ Divides(a, s)) => Divides(a, o.align)
  BY <1>2, <1>5, <1>6, InSlabAlign
<1>8. o.align \in Nat
  BY <1>7 DEF PagePowers
<1> QED BY <1>1, <1>2, <1>3, <1>5, <1>6, <1>7, <1>8, Zenon

\* What it returns beyond the slabs, and allocate_aligned beyond a page.
LEMMA RegionResult ==
  ASSUME config \in Configs, NEW m \in 0 .. SIZE_MAX, NEW a,
         NEW o \in {InRegion(s, a) : s \in {LargeSize(m)} \ {0}}
  PROVE  /\ o.kind = "large" /\ o.size = get_large_size_class(config.large, m) /\ o.size # 0
         /\ o.size \in 0 .. SIZE_MAX /\ o.size \in Nat /\ m <= o.size
         /\ get_large_size_class(config.large, o.size) = o.size
         /\ o.align = a /\ o.zero = o.size /\ o.size >= 16
<1>1. PICK s \in {LargeSize(m)} \ {0} : o = InRegion(s, a)
  OBVIOUS
<1>2. s = get_large_size_class(config.large, m) /\ s # 0
  BY <1>1, StateOperators
<1>3. o.kind = "large" /\ o.size = s /\ o.align = a /\ o.zero = s
  BY <1>1 DEF InRegion
<1>4. s \in 0 .. SIZE_MAX /\ s \in Nat /\ m <= s /\ get_large_size_class(config.large, s) = s
      /\ s >= 16
  BY <1>2, RegionPlace
<1> QED BY <1>2, <1>3, <1>4

\* allocate beyond the slabs.
LEMMA AllocateRegion ==
  ASSUME config \in Configs, NEW m \in 0 .. SIZE_MAX, ~(m <= MaxSlab), NEW o \in allocate(m)
  PROVE  o \in {InRegion(s, PAGE_SIZE) : s \in {LargeSize(m)} \ {0}}
BY DEF allocate

\* The valid alignments.
LEMMA ValidAlignmentFacts ==
  ASSUME NEW a \in ValidAlignments
  PROVE  /\ a \in Nat \ {0} /\ Divides(a, a)
         /\ a <= 4096 => a \in PagePowers
<1>1. PICK k \in 0 .. 16 : a = 2^k
  BY DEF ValidAlignments
<1>2. CASE k <= 12
  <2>1. k \in 0 .. 12
    BY <1>2
  <2>2. a \in PagePowers
    BY <1>1, <2>1, PagePowersAre
  <2>3. a \in Nat \ {0}
    BY <2>2 DEF PagePowers
  <2>4. a % a = 0
    BY <2>2, <2>3, PowersDivideEachOther
  <2> QED BY <2>2, <2>3, <2>4 DEF Divides
<1>13. CASE k = 13
  <2>1. 2^k = 8192
    BY <1>13
  <2>2. 8192 % 8192 = 0
    OBVIOUS
  <2> QED BY <1>1, <2>1, <2>2 DEF Divides
<1>14. CASE k = 14
  <2>1. 2^k = 16384
    BY <1>14
  <2>2. 16384 % 16384 = 0
    OBVIOUS
  <2> QED BY <1>1, <2>1, <2>2 DEF Divides
<1>15. CASE k = 15
  <2>1. 2^k = 32768
    BY <1>15
  <2>2. 32768 % 32768 = 0
    OBVIOUS
  <2> QED BY <1>1, <2>1, <2>2 DEF Divides
<1>16. CASE k = 16
  <2>1. 2^k = 65536
    BY <1>16
  <2>2. 65536 % 65536 = 0
    OBVIOUS
  <2> QED BY <1>1, <2>1, <2>2 DEF Divides
<1> QED BY <1>2, <1>13, <1>14, <1>15, <1>16

\* One divides every number.
LEMMA DividesByOne ==
  ASSUME NEW x \in Nat PROVE Divides(1, x)
BY DEF Divides

\* An object that a sized free without an alignment may release.
LEMMA PlainObject ==
  ASSUME NEW c \in Configs, NEW n \in 0 .. SIZE_MAX, NEW x,
         x.req = n, x.origin \in {"plain", "calloc"}, x.reqAlign = 1,
         x.align \in Nat, x.align >= 16, x.origin = "calloc" => x.zero >= n,
         \/ /\ x.kind = "slab" /\ Adjusted(c, n) <= max_slab_size_class(c.extended)
            /\ x.size = get_size_info(Adjusted(c, n)).size
         \/ /\ x.kind = "large" /\ x.size # 0
            /\ x.size = get_large_size_class(c.large, Adjusted(c, n))
  PROVE  ObjectInv(c, x)
<1>1. PICK m : m = Adjusted(c, n)
  OBVIOUS
<1>2. m \in 0 .. SIZE_MAX /\ m \in Nat
  BY <1>1, AdjustedFacts
<1>3. Divides(x.reqAlign, x.align)
  BY DividesByOne
<1>4. CASE x.kind = "slab" /\ m <= max_slab_size_class(c.extended) /\ x.size = get_size_info(m).size
  <2>1. /\ x.size \in 0 .. SIZE_MAX /\ m <= x.size /\ x.size <= max_slab_size_class(c.extended)
        /\ x.size \in Range(size_classes(c.extended)) /\ (x.size = 0 \/ x.size >= 16)
    BY <1>2, <1>4, SlabPlace
  <2>2. x.origin # "aligned"
    OBVIOUS
  <2>3. SlotOf(c, x)
    BY <1>1, <1>4, <2>1, <2>2 DEF SlotOf
  <2> QED BY <1>1, <1>3, <1>4, <2>1, <2>3 DEF ObjectInv
<1>5. CASE x.kind = "large" /\ x.size # 0 /\ x.size = get_large_size_class(c.large, m)
  <2>1. x.size \in 0 .. SIZE_MAX /\ m <= x.size /\ get_large_size_class(c.large, x.size) = x.size
        /\ x.size >= 16
    BY <1>2, <1>5, RegionPlace
  <2>2. RegionOf(c, x)
    BY <1>1, <1>5, <2>1 DEF RegionOf
  <2> QED BY <1>1, <1>3, <1>5, <2>1, <2>2 DEF ObjectInv
<1> QED BY <1>1, <1>4, <1>5

\* The results of allocate are such objects.
LEMMA AllocatedPlain ==
  ASSUME config \in Configs, NEW n \in 0 .. SIZE_MAX, NEW o \in allocate(Adjusted(config, n))
  PROVE  /\ o.align \in Nat /\ o.align >= 16
         /\ \/ /\ o.kind = "slab" /\ Adjusted(config, n) <= max_slab_size_class(config.extended)
               /\ o.size = get_size_info(Adjusted(config, n)).size
               /\ o.zero = IF config.zero THEN o.size ELSE 0
            \/ /\ o.kind = "large" /\ o.size # 0 /\ ~(Adjusted(config, n) <= max_slab_size_class(config.extended))
               /\ o.size = get_large_size_class(config.large, Adjusted(config, n))
               /\ o.zero = o.size
<1>1. PICK m : m = Adjusted(config, n)
  OBVIOUS
<1>2. m \in 0 .. SIZE_MAX /\ m \in Nat
  BY <1>1, AdjustedFacts
<1>3. MaxSlab = max_slab_size_class(config.extended)
  BY StateOperators
<1>4. o \in allocate(m)
  BY <1>1
<1>5. CASE m <= MaxSlab
  <2>1. /\ o.kind = "slab" /\ o.size = get_size_info(m).size /\ o.align >= 16 /\ o.align \in Nat
        /\ o.zero = IF config.zero THEN o.size ELSE 0
    BY <1>2, <1>4, <1>5, AllocateSlab
  <2> QED BY <1>1, <1>3, <1>5, <2>1
<1>6. CASE ~(m <= MaxSlab)
  <2>1. o \in {InRegion(s, PAGE_SIZE) : s \in {LargeSize(m)} \ {0}}
    BY <1>2, <1>4, <1>6, AllocateRegion
  <2>2. /\ o.kind = "large" /\ o.size = get_large_size_class(config.large, m) /\ o.size # 0
        /\ o.align = PAGE_SIZE /\ o.zero = o.size
    BY <1>2, <2>1, RegionResult
  <2>3. PAGE_SIZE \in Nat /\ PAGE_SIZE >= 16
    BY DEF PAGE_SIZE
  <2> QED BY <1>1, <1>3, <1>6, <2>2, <2>3
<1> QED BY <1>5, <1>6

\* The results of allocate_aligned.
LEMMA AllocatedAligned ==
  ASSUME config \in Configs, NEW m \in 0 .. SIZE_MAX, NEW a \in ValidAlignments,
         NEW o \in allocate_aligned(a, m)
  PROVE  /\ o.align \in Nat /\ o.align >= 16 /\ Divides(a, o.align)
         /\ o.size \in 0 .. SIZE_MAX /\ m <= o.size /\ (o.size = 0 \/ o.size >= 16)
         /\ \/ /\ o.kind = "slab" /\ a <= 4096 /\ m <= max_slab_size_class(config.extended)
               /\ o.size <= max_slab_size_class(config.extended)
               /\ o.size \in Range(size_classes(config.extended))
               /\ o.size = IF a > 16 THEN get_size_info_align(config.extended, m, a).size
                           ELSE get_size_info(m).size
            \/ /\ o.kind = "large" /\ o.size # 0
               /\ o.size = get_large_size_class(config.large, m)
               /\ get_large_size_class(config.large, o.size) = o.size
<1>1. PICK ms : ms = max_slab_size_class(config.extended) /\ ms = MaxSlab
  BY StateOperators
<1>2. m \in Nat /\ ms \in Nat /\ a \in Nat \ {0} /\ config.extended \in BOOLEAN /\ ms + 8 <= SIZE_MAX
      /\ SIZE_MAX \in Nat
  <2>1. ms \in Nat /\ config.extended \in BOOLEAN /\ ms + 8 <= SIZE_MAX
    <3>1. /\ config.extended \in BOOLEAN /\ max_slab_size_class(config.extended) \in Nat
          /\ max_slab_size_class(config.extended) + 8 <= SIZE_MAX
      BY ConfigFacts, SMT
    <3> QED BY <1>1, <3>1, SMT
  <2>2. a \in Nat \ {0}
    BY ValidAlignmentFacts
  <2>3. m \in Nat /\ SIZE_MAX \in Nat
    BY WordFacts
  <2> QED BY <2>1, <2>2, <2>3
<1>3. CASE a <= 4096 /\ m <= ms /\ a > 16
  <2>1. PICK s : s = get_size_info_align(config.extended, m, a).size /\ s = AlignedSize(m, a)
    BY StateOperators
  <2>2. a \in PagePowers
    BY <1>3, ValidAlignmentFacts
  <2>3. m \in 0 .. max_slab_size_class(config.extended)
    BY <1>1, <1>2, <1>3
  <2>5. s \in 16 .. ms /\ m <= s /\ get_size_info(s).size = s
        /\ s \in Range(size_classes(config.extended)) /\ Divides(a, s)
    <3>1. config.extended \in BOOLEAN
      BY <1>2, SMT
    <3> QED BY <1>1, <2>1, <2>2, <2>3, <3>1, AlignedClass, Zenon
  <2>6. s \in Nat /\ s <= MaxSlab /\ s # 0 /\ s <= ms /\ s \in 0 .. SIZE_MAX /\ s >= 16
    <3>1. s \in 16 .. ms
      BY <2>5
    <3> QED BY <1>1, <1>2, <3>1
  <2>7. o \in allocate(s)
    BY <1>1, <1>3, <2>1 DEF allocate_aligned, PAGE_SIZE, min_align
  <2>8. /\ o.kind = "slab" /\ o.size = s /\ o.align >= 16 /\ o.align \in Nat
        /\ Divides(a, o.align)
    BY <2>2, <2>5, <2>6, <2>7, AllocateSlab
  <2> QED BY <1>1, <1>3, <2>1, <2>5, <2>6, <2>8
<1>4. CASE a <= 4096 /\ m <= ms /\ ~(a > 16)
  <2>1. o \in allocate(m)
    BY <1>1, <1>4 DEF allocate_aligned, PAGE_SIZE, min_align
  <2>2. a \in PagePowers /\ a <= 16
    BY <1>2, <1>4, ValidAlignmentFacts
  <2>3. /\ o.kind = "slab" /\ o.size = get_size_info(m).size /\ o.align >= 16 /\ o.align \in Nat
        /\ o.size \in 0 .. SIZE_MAX /\ m <= o.size /\ o.size <= ms /\ (o.size = 0 \/ o.size >= 16)
        /\ o.size \in Range(size_classes(config.extended))
        /\ Divides(a, o.align)
    BY <1>1, <1>2, <1>4, <2>1, <2>2, AllocateSlab
  <2> QED BY <1>1, <1>4, <2>3
<1>5. CASE a <= 4096 /\ ~(m <= ms)
  <2>1. o \in allocate(m)
    BY <1>1, <1>5 DEF allocate_aligned, PAGE_SIZE, min_align
  <2>2. o \in {InRegion(s, PAGE_SIZE) : s \in {LargeSize(m)} \ {0}}
    BY <1>1, <1>5, <2>1, AllocateRegion
  <2>3. a \in PagePowers
    BY <1>5, ValidAlignmentFacts
  <2>4. Divides(a, PAGE_SIZE) /\ PAGE_SIZE \in Nat /\ PAGE_SIZE >= 16
    BY <2>3, PowersDivideMax DEF Divides, PAGE_SIZE
  <2> QED BY <2>2, <2>4, RegionResult
<1>6. CASE ~(a <= 4096)
  <2>1. o \in {InRegion(s, a) : s \in {LargeSize(m)} \ {0}}
    BY <1>6 DEF allocate_aligned, PAGE_SIZE
  <2>2. Divides(a, a) /\ a \in Nat /\ a >= 16
    BY <1>2, <1>6, ValidAlignmentFacts
  <2> QED BY <2>1, <2>2, RegionResult
<1> QED BY <1>3, <1>4, <1>5, <1>6

\* Objects of the memalign family.
LEMMA AlignedObject ==
  ASSUME config \in Configs, NEW n \in 0 .. SIZE_MAX, NEW a \in ValidAlignments,
         NEW o \in allocate_aligned(a, Adjusted(config, n))
  PROVE  ObjectInv(config, Owned(o, n, a, "aligned"))
<1>1. PICK m : m = Adjusted(config, n)
  OBVIOUS
<1>2. m \in 0 .. SIZE_MAX /\ o \in allocate_aligned(a, m)
  BY <1>1, AdjustedFacts
<1>3. PICK x : x = Owned(o, n, a, "aligned")
  OBVIOUS
<1>4. /\ x.kind = o.kind /\ x.size = o.size /\ x.align = o.align /\ x.req = n
      /\ x.reqAlign = a /\ x.origin = "aligned"
  BY <1>3 DEF Owned
<1>5. /\ o.align \in Nat /\ o.align >= 16 /\ Divides(a, o.align)
      /\ o.size \in 0 .. SIZE_MAX /\ m <= o.size /\ (o.size = 0 \/ o.size >= 16)
      /\ \/ /\ o.kind = "slab" /\ a <= 4096 /\ m <= max_slab_size_class(config.extended)
            /\ o.size <= max_slab_size_class(config.extended)
            /\ o.size \in Range(size_classes(config.extended))
            /\ o.size = IF a > 16 THEN get_size_info_align(config.extended, m, a).size
                        ELSE get_size_info(m).size
         \/ /\ o.kind = "large" /\ o.size # 0
            /\ o.size = get_large_size_class(config.large, m)
            /\ get_large_size_class(config.large, o.size) = o.size
  BY <1>2, AllocatedAligned
<1>6. o.kind = "slab" => SlotOf(config, x)
  BY <1>1, <1>4, <1>5 DEF SlotOf
<1>7. o.kind = "large" => RegionOf(config, x)
  BY <1>1, <1>4, <1>5 DEF RegionOf
<1>8. o.kind \in {"slab", "large"}
  BY <1>5
<1>9. ObjectInv(config, x)
  BY <1>1, <1>4, <1>5, <1>6, <1>7, <1>8 DEF ObjectInv
<1> QED BY <1>3, <1>9

\* Objects of valloc and pvalloc: of pages that hold the request.
LEMMA PageObject ==
  ASSUME config \in Configs, NEW n \in 0 .. SIZE_MAX, NEW m \in 0 .. SIZE_MAX,
         Adjusted(config, n) <= m, NEW o \in allocate_aligned(PAGE_SIZE, m)
  PROVE  ObjectInv(config, Owned(o, n, PAGE_SIZE, "page"))
<1>1. PICK b : b = Adjusted(config, n)
  OBVIOUS
<1>2. b \in Nat /\ b <= m /\ m \in Nat
  BY <1>1, AdjustedFacts, WordFacts
<1>3. PICK x : x = Owned(o, n, PAGE_SIZE, "page")
  OBVIOUS
<1>4. /\ x.kind = o.kind /\ x.size = o.size /\ x.align = o.align /\ x.req = n
      /\ x.reqAlign = PAGE_SIZE /\ x.origin = "page"
  BY <1>3 DEF Owned
<1>5. PAGE_SIZE \in ValidAlignments
  <2>1. PICK k \in 0 .. 16 : k = 12
    OBVIOUS
  <2>2. 2^k = 4096
    BY <2>1
  <2> QED BY <2>2 DEF ValidAlignments, PAGE_SIZE
<1>6. /\ o.align \in Nat /\ o.align >= 16 /\ Divides(PAGE_SIZE, o.align)
      /\ o.size \in 0 .. SIZE_MAX /\ m <= o.size /\ (o.size = 0 \/ o.size >= 16)
      /\ \/ /\ o.kind = "slab"
            /\ o.size <= max_slab_size_class(config.extended)
            /\ o.size \in Range(size_classes(config.extended))
         \/ /\ o.kind = "large" /\ o.size # 0
            /\ get_large_size_class(config.large, o.size) = o.size
  BY <1>5, AllocatedAligned
<1>7. o.kind = "slab" => SlotOf(config, x)
  BY <1>4, <1>6 DEF SlotOf
<1>8. o.kind = "large" => RegionOf(config, x)
  BY <1>4, <1>6 DEF RegionOf
<1>9. o.kind \in {"slab", "large"}
  BY <1>6
<1>10. b <= o.size
  <2>1. o.size \in Nat /\ m <= o.size
    BY <1>6, WordFacts
  <2> QED BY <1>2, <2>1
<1>11. ObjectInv(config, x)
  BY <1>1, <1>4, <1>6, <1>7, <1>8, <1>9, <1>10 DEF ObjectInv
<1> QED BY <1>3, <1>11

-----------------------------------------------------------------------------
(* realloc *)

\* h_malloc_usable_size of an object of the kind and the size.
Usable(c, kind, size) == IF kind = "slab" /\ size > 0 THEN size - c.canary ELSE size

\* What is known when realloc copies from old to new: r is the size that it works
\* with, and req and n are the two requests.
CopyBetween(c, n, r, req, oldKind, oldSize, newKind, newSize) ==
  LET ms == max_slab_size_class(c.extended)
  IN  /\ n \in 0 .. SIZE_MAX /\ req \in 0 .. SIZE_MAX /\ r \in Nat
      /\ oldSize \in Nat /\ newSize \in Nat
      /\ oldKind \in {"slab", "large"} /\ newKind \in {"slab", "large"}
      /\ Adjusted(c, req) <= oldSize /\ (oldSize = 0 \/ oldSize >= 16)
      /\ (oldKind = "slab" => oldSize <= ms)
      /\ (r <= ms => r = Adjusted(c, n)) /\ (r > ms => r >= Adjusted(c, n))
      /\ r <= newSize /\ (newSize = 0 \/ newSize >= 16) /\ (newSize = 0 => r = 0)
      /\ (newKind = "slab" => newSize <= ms)

\* copy_size of the two sizes.
Copied(c, r, size) ==
  LET least == IF r <= size THEN r ELSE size
  IN  IF least > 0 /\ least <= max_slab_size_class(c.extended) THEN least - c.canary ELSE least

\* The arithmetic of the copy: it keeps the smaller request and stays in front of
\* both canaries.
LEMMA CopyFits ==
  ASSUME NEW c \in Configs, NEW n, NEW r, NEW req, NEW oldKind, NEW oldSize, NEW newKind, NEW newSize,
         CopyBetween(c, n, r, req, oldKind, oldSize, newKind, newSize)
  PROVE  /\ Copied(c, r, oldSize) \in Int
         /\ n <= Copied(c, r, oldSize) \/ req <= Copied(c, r, oldSize)
         /\ Copied(c, r, oldSize) <= Usable(c, oldKind, oldSize)
         /\ Copied(c, r, oldSize) <= Usable(c, newKind, newSize)
<1>a. PICK ms : ms = max_slab_size_class(c.extended)
  OBVIOUS
<1>b. /\ n \in 0 .. SIZE_MAX /\ req \in 0 .. SIZE_MAX /\ r \in Nat
      /\ oldSize \in Nat /\ newSize \in Nat /\ ms \in Nat
      /\ oldKind \in {"slab", "large"} /\ newKind \in {"slab", "large"}
      /\ Adjusted(c, req) <= oldSize /\ (oldSize = 0 \/ oldSize >= 16)
      /\ (oldKind = "slab" => oldSize <= ms)
      /\ (r <= ms => r = Adjusted(c, n)) /\ (r > ms => r >= Adjusted(c, n))
      /\ r <= newSize /\ (newSize = 0 \/ newSize >= 16) /\ (newSize = 0 => r = 0)
      /\ (newKind = "slab" => newSize <= ms)
  BY <1>a, ConfigFacts DEF CopyBetween
<1>c. PICK least : least = IF r <= oldSize THEN r ELSE oldSize
  OBVIOUS
<1>d. PICK k : k = IF least > 0 /\ least <= ms THEN least - c.canary ELSE least
  OBVIOUS
<1>e. Copied(c, r, oldSize) = k /\ least \in Nat
  BY <1>a, <1>b, <1>c, <1>d DEF Copied
<1>0. PICK a, b : a = Adjusted(c, n) /\ b = Adjusted(c, req)
  OBVIOUS
<1>1. /\ a \in Nat /\ n \in Nat /\ n <= a /\ (a = 0 <=> n = 0) /\ (n > ms => a = n)
      /\ (n > 0 /\ n <= ms => a = n + c.canary) /\ (a <= ms => n <= ms)
  BY <1>0, <1>a, <1>b, AdjustedFacts
<1>2. /\ b \in Nat /\ req \in Nat /\ req <= b /\ (b = 0 <=> req = 0) /\ (req > ms => b = req)
      /\ (req > 0 /\ req <= ms => b = req + c.canary) /\ (b <= ms => req <= ms)
  BY <1>0, <1>a, <1>b, AdjustedFacts
<1>3. PICK ca \in {0, 8} : ca = c.canary
  BY ConfigFacts
<1>4. b <= oldSize /\ (r <= ms => r = a) /\ (r > ms => r >= a)
  BY <1>0, <1>b
<1>5. k \in Int /\ k <= least /\ (least > 0 /\ least <= ms => k = least - ca) /\ (least = 0 => k = 0)
      /\ (least > ms => k = least) /\ least <= r /\ least <= oldSize
  BY <1>b, <1>c, <1>d, <1>e, <1>3
<1>f. /\ r \in Nat /\ oldSize \in Nat /\ newSize \in Nat /\ ms \in Nat /\ least \in Nat
      /\ (oldSize = 0 \/ oldSize >= 16) /\ r <= newSize
      /\ (newSize = 0 \/ newSize >= 16) /\ (newSize = 0 => r = 0)
  BY <1>b, <1>e
<1>6. n <= k \/ req <= k
  <2>1. CASE r <= oldSize
    <3>1. least = r
      BY <1>c, <2>1
    <3> QED BY <1>f, <1>1, <1>3, <1>4, <1>5, <3>1
  <2>2. CASE ~(r <= oldSize)
    <3>1. least = oldSize
      BY <1>c, <2>2
    <3> QED BY <1>f, <1>2, <1>3, <1>4, <1>5, <3>1
  <2> QED BY <2>1, <2>2
<1>7. k <= Usable(c, oldKind, oldSize)
  <2>1. CASE oldKind = "slab" /\ oldSize > 0
    <3>1. Usable(c, oldKind, oldSize) = oldSize - ca /\ oldSize <= ms
      BY <1>b, <1>3, <2>1 DEF Usable
    <3>2. oldSize > 0
      BY <2>1
    <3>3. k <= oldSize - ca
      BY <1>f, <1>3, <1>5, <3>1, <3>2
    <3> QED BY <3>1, <3>3
  <2>2. CASE ~(oldKind = "slab" /\ oldSize > 0)
    <3>1. Usable(c, oldKind, oldSize) = oldSize
      BY <2>2 DEF Usable
    <3>2. k <= oldSize
      BY <1>f, <1>5
    <3> QED BY <3>1, <3>2
  <2> QED BY <2>1, <2>2
<1>8. k <= Usable(c, newKind, newSize)
  <2>1. CASE newKind = "slab" /\ newSize > 0
    <3>1. Usable(c, newKind, newSize) = newSize - ca /\ newSize <= ms
      BY <1>b, <1>3, <2>1 DEF Usable
    <3>2. newSize > 0
      BY <2>1
    <3>3. k <= newSize - ca
      BY <1>f, <1>3, <1>5, <3>1, <3>2
    <3> QED BY <3>1, <3>3
  <2>2. CASE ~(newKind = "slab" /\ newSize > 0)
    <3>1. Usable(c, newKind, newSize) = newSize
      BY <2>2 DEF Usable
    <3>2. k <= newSize
      BY <1>f, <1>5
    <3> QED BY <3>1, <3>2
  <2> QED BY <2>1, <2>2
<1> QED BY <1>e, <1>5, <1>6, <1>7, <1>8

\* What ObjectInv says of the object that realloc starts with.
LEMMA ObjectFacts ==
  ASSUME NEW c \in Configs, NEW o, ObjectInv(c, o)
  PROVE  /\ o.req \in 0 .. SIZE_MAX /\ o.req \in Nat /\ o.size \in Nat /\ o.size \in 0 .. SIZE_MAX
         /\ Adjusted(c, o.req) <= o.size /\ (o.size = 0 \/ o.size >= 16) /\ o.req <= o.size
         /\ o.kind \in {"slab", "large"} /\ o.align \in Nat /\ o.align >= 16
         /\ o.kind = "slab" => o.size <= max_slab_size_class(c.extended)
         /\ o.kind = "large" => o.size # 0 /\ get_large_size_class(c.large, o.size) = o.size
<1>1. /\ o.req \in 0 .. SIZE_MAX /\ o.size \in 0 .. SIZE_MAX
      /\ Adjusted(c, o.req) <= o.size /\ (o.size = 0 \/ o.size >= 16)
      /\ o.kind \in {"slab", "large"} /\ o.align \in Nat /\ o.align >= 16
  BY DEF ObjectInv
<1>2. o.req \in Nat /\ o.size \in Nat
  BY <1>1, WordFacts
<1>3. o.req <= o.size
  <2>1. PICK a : a = Adjusted(c, o.req)
    OBVIOUS
  <2>2. a \in Nat /\ o.req <= a
    BY <1>1, <2>1, AdjustedFacts
  <2> QED BY <1>1, <1>2, <2>1, <2>2
<1>4. o.kind = "slab" => o.size <= max_slab_size_class(c.extended)
  BY DEF ObjectInv, SlotOf
<1>5. o.kind = "large" => o.size # 0 /\ get_large_size_class(c.large, o.size) = o.size
  BY DEF ObjectInv, RegionOf
<1> QED BY <1>1, <1>2, <1>3, <1>4, <1>5

\* The size that realloc works with.
LEMMA RoundedFacts ==
  ASSUME config \in Configs, NEW n \in 0 .. SIZE_MAX, NEW r, r = RoundedSize(n),
         ~(adjust_size_for_canary(n) > MaxSlab /\ r = 0),
         NEW ms, ms = MaxSlab, NEW a, a = Adjusted(config, n)
  PROVE  /\ r \in 0 .. SIZE_MAX /\ r \in Nat /\ ms \in Nat /\ a \in Nat
         /\ a <= ms => r = a
         /\ ~(a <= ms) => /\ r > ms /\ r >= a /\ r = get_large_size_class(config.large, a) /\ r # 0
                          /\ get_large_size_class(config.large, r) = r
<1>1. ms = max_slab_size_class(config.extended) /\ adjust_size_for_canary(n) = a
  BY StateOperators
<1>2. ms \in Nat
  BY <1>1, ConfigFacts, SMT
<1>3. a \in 0 .. SIZE_MAX /\ a \in Nat
  BY AdjustedFacts
<1>4. CASE a <= ms
  <2>1. ~(a > ms)
    BY <1>2, <1>3, <1>4
  <2>2. r = a
    BY <1>1, <2>1 DEF RoundedSize
  <2> QED BY <1>2, <1>3, <1>4, <2>2
<1>5. CASE ~(a <= ms)
  <2>1. a > ms
    BY <1>2, <1>3, <1>5
  <2>2. r = LargeSize(a)
    BY <1>1, <2>1 DEF RoundedSize
  <2>3. r = get_large_size_class(config.large, a)
    BY <2>2, StateOperators
  <2>4. r # 0
    BY <1>1, <2>1
  <2>5. r \in 0 .. SIZE_MAX /\ r \in Nat /\ a <= r /\ get_large_size_class(config.large, r) = r
    BY <1>3, <2>3, <2>4, RegionPlace
  <2>6. r > ms /\ r >= a
    BY <1>2, <1>3, <2>1, <2>5
  <2> QED BY <1>2, <1>3, <1>5, <2>3, <2>4, <2>5, <2>6
<1> QED BY <1>4, <1>5

\* x is where an object of n bytes belongs.
PlaceFor(c, n, x) ==
  /\ x.align \in Nat /\ x.align >= 16
  /\ \/ /\ x.kind = "slab" /\ Adjusted(c, n) <= max_slab_size_class(c.extended)
        /\ x.size = get_size_info(Adjusted(c, n)).size
     \/ /\ x.kind = "large" /\ x.size # 0
        /\ x.size = get_large_size_class(c.large, Adjusted(c, n))

\* bytes is enough of the contents of an object with the request req, and not
\* more than either place holds.
BytesFor(c, o, x, n, bytes) ==
  /\ bytes \in Int /\ (n <= bytes \/ o.req <= bytes)
  /\ x.size # o.size => bytes <= Usable(c, o.kind, o.size) /\ bytes <= Usable(c, x.kind, x.size)

\* A new allocation for the rounded size.
LEMMA FreshPlace ==
  ASSUME config \in Configs, NEW n \in 0 .. SIZE_MAX, NEW r, r = RoundedSize(n),
         ~(adjust_size_for_canary(n) > MaxSlab /\ r = 0), NEW o \in allocate(r)
  PROVE  /\ PlaceFor(config, n, o) /\ o.kind \in {"slab", "large"}
         /\ o.size \in Nat /\ r <= o.size /\ (o.size = 0 \/ o.size >= 16) /\ (o.size = 0 => r = 0)
         /\ o.kind = "slab" => o.size <= MaxSlab
         /\ r > MaxSlab => o.kind = "large" /\ o.size = r
<1>1. PICK ms, a : ms = MaxSlab /\ a = Adjusted(config, n)
  OBVIOUS
<1>2. /\ r \in 0 .. SIZE_MAX /\ r \in Nat /\ ms \in Nat /\ a \in Nat
      /\ a <= ms => r = a
      /\ ~(a <= ms) => /\ r > ms /\ r >= a /\ r = get_large_size_class(config.large, a) /\ r # 0
                       /\ get_large_size_class(config.large, r) = r
  BY <1>1, RoundedFacts
<1>3. ms = max_slab_size_class(config.extended)
  BY <1>1, StateOperators
<1>4. CASE a <= ms
  <2>1. r = a /\ r <= MaxSlab /\ ~(r > MaxSlab)
    BY <1>1, <1>2, <1>4
  <2>2. /\ o.kind = "slab" /\ o.size = get_size_info(r).size
        /\ o.size \in Nat /\ r <= o.size /\ o.size <= MaxSlab
        /\ (o.size = 0 <=> r = 0) /\ (o.size = 0 \/ o.size >= 16)
        /\ o.align >= 16 /\ o.align \in Nat
    BY <1>2, <2>1, AllocateSlab
  <2>3. PlaceFor(config, n, o)
    BY <1>1, <1>3, <1>4, <2>1, <2>2 DEF PlaceFor
  <2> QED BY <2>1, <2>2, <2>3
<1>5. CASE ~(a <= ms)
  <2>1. ~(r <= MaxSlab)
    BY <1>1, <1>2, <1>5
  <2>2. o \in {InRegion(s, PAGE_SIZE) : s \in {LargeSize(r)} \ {0}}
    BY <1>2, <2>1, AllocateRegion
  <2>3. /\ o.kind = "large" /\ o.size = get_large_size_class(config.large, r) /\ o.size # 0
        /\ o.size \in Nat /\ r <= o.size /\ o.align = PAGE_SIZE /\ o.size >= 16
    BY <1>2, <2>2, RegionResult
  <2>4. PAGE_SIZE \in Nat /\ PAGE_SIZE >= 16
    BY DEF PAGE_SIZE
  <2>5. o.size = r
    BY <1>2, <1>5, <2>3
  <2>6. PlaceFor(config, n, o)
    BY <1>1, <1>2, <1>5, <2>3, <2>4, <2>5 DEF PlaceFor
  <2> QED BY <2>3, <2>5, <2>6
<1> QED BY <1>4, <1>5

\* copy_size is the arithmetic above.
LEMMA CopyFromTo ==
  ASSUME config \in Configs, ObjectInv(config, obj), NEW n \in 0 .. SIZE_MAX, NEW r, r = RoundedSize(n),
         ~(adjust_size_for_canary(n) > MaxSlab /\ r = 0), NEW o \in allocate(r)
  PROVE  BytesFor(config, obj, o, n, copy_size(r))
<1>1. PICK ms, a : ms = MaxSlab /\ a = Adjusted(config, n)
  OBVIOUS
<1>2. /\ r \in Nat /\ ms \in Nat /\ a \in Nat
      /\ a <= ms => r = a
      /\ ~(a <= ms) => r > ms /\ r >= a
  BY <1>1, RoundedFacts
<1>3. ms = max_slab_size_class(config.extended)
  BY <1>1, StateOperators
<1>4. /\ o.kind \in {"slab", "large"}
      /\ o.size \in Nat /\ r <= o.size /\ (o.size = 0 \/ o.size >= 16) /\ (o.size = 0 => r = 0)
      /\ o.kind = "slab" => o.size <= MaxSlab
  BY FreshPlace
<1>5. /\ obj.req \in 0 .. SIZE_MAX /\ obj.size \in Nat
      /\ Adjusted(config, obj.req) <= obj.size /\ (obj.size = 0 \/ obj.size >= 16)
      /\ obj.kind \in {"slab", "large"}
      /\ obj.kind = "slab" => obj.size <= max_slab_size_class(config.extended)
  BY ObjectFacts
<1>6. copy_size(r) = Copied(config, r, obj.size)
  <2>1. Min({r, obj.size}) = IF r <= obj.size THEN r ELSE obj.size
    BY <1>2, <1>5, MinMaxPair
  <2> QED BY <1>1, <1>3, <2>1 DEF copy_size, Copied
<1>7. (r <= ms => r = a) /\ (r > ms => r >= a)
  BY <1>2
<1>8. CopyBetween(config, n, r, obj.req, obj.kind, obj.size, o.kind, o.size)
  BY <1>1, <1>2, <1>3, <1>4, <1>5, <1>7 DEF CopyBetween
<1>9. /\ Copied(config, r, obj.size) \in Int
      /\ n <= Copied(config, r, obj.size) \/ obj.req <= Copied(config, r, obj.size)
      /\ Copied(config, r, obj.size) <= Usable(config, obj.kind, obj.size)
      /\ Copied(config, r, obj.size) <= Usable(config, o.kind, o.size)
  BY <1>8, CopyFits
<1> QED BY <1>6, <1>9 DEF BytesFor

\* Every way that realloc has of moving the contents.
LEMMA MovesFit ==
  ASSUME config \in Configs, ObjectInv(config, obj), NEW n \in 0 .. SIZE_MAX, NEW r, r = RoundedSize(n),
         ~(adjust_size_for_canary(n) > MaxSlab /\ r = 0), NEW m \in Moves(r)
  PROVE  PlaceFor(config, n, m.to) /\ BytesFor(config, obj, m.to, n, m.bytes)
<1>1. PICK ms, a : ms = MaxSlab /\ a = Adjusted(config, n)
  OBVIOUS
<1>2. /\ r \in 0 .. SIZE_MAX /\ r \in Nat /\ ms \in Nat /\ a \in Nat
      /\ a <= ms => r = a
      /\ ~(a <= ms) => /\ r > ms /\ r >= a /\ r = get_large_size_class(config.large, a) /\ r # 0
                       /\ get_large_size_class(config.large, r) = r
  BY <1>1, RoundedFacts
<1>3. ms = max_slab_size_class(config.extended)
  BY <1>1, StateOperators
<1>4. /\ obj.req \in Nat /\ obj.size \in Nat /\ obj.req <= obj.size
      /\ obj.kind \in {"slab", "large"} /\ obj.align \in Nat /\ obj.align >= 16
      /\ obj.kind = "large" => obj.size # 0 /\ get_large_size_class(config.large, obj.size) = obj.size
  BY ObjectFacts
<1>5. n \in Nat /\ n <= a
  BY <1>1, AdjustedFacts
<1>6. CASE InPlace(r)
  <2>1. m = [to |-> obj, bytes |-> obj.size]
    BY <1>6 DEF Moves
  <2>2. m.to = obj /\ m.bytes = obj.size
    BY <2>1
  <2>3. BytesFor(config, obj, obj, n, obj.size)
    BY <1>4 DEF BytesFor
  <2>4. PlaceFor(config, n, obj)
    <3>1. CASE obj.kind = "slab"
      <4>1. r <= ms /\ get_size_info(r).size = obj.size
        BY <1>1, <1>6, <3>1 DEF InPlace
      <4>2. a <= ms /\ r = a
        BY <1>2, <4>1
      <4> QED BY <1>1, <1>3, <1>4, <3>1, <4>1, <4>2 DEF PlaceFor
    <3>2. CASE obj.kind = "large"
      <4>1. obj.size = r
        BY <1>6, <3>2 DEF InPlace
      <4>2. r = get_large_size_class(config.large, a)
        BY <1>2, <1>4, <3>2, <4>1
      <4> QED BY <1>1, <1>4, <3>2, <4>1, <4>2 DEF PlaceFor
    <3> QED BY <1>4, <3>1, <3>2
  <2> QED BY <2>2, <2>3, <2>4
<1>7. CASE ~InPlace(r) /\ obj.kind = "large" /\ r > MaxSlab /\ r < obj.size
  <2>1. m = [to |-> InRegion(r, obj.align), bytes |-> r]
    BY <1>7 DEF Moves
  <2>2. /\ m.to.kind = "large" /\ m.to.size = r /\ m.to.align = obj.align /\ m.bytes = r
    BY <2>1 DEF InRegion
  <2>3. ~(a <= ms)
    BY <1>1, <1>2, <1>7
  <2>4. PlaceFor(config, n, m.to)
    BY <1>1, <1>2, <1>4, <2>2, <2>3 DEF PlaceFor
  <2>5. Usable(config, obj.kind, obj.size) = obj.size /\ Usable(config, "large", r) = r
    BY <1>7 DEF Usable
  <2>6. n <= r /\ r <= obj.size /\ r \in Int
    BY <1>2, <1>4, <1>5, <1>7, <2>3
  <2>7. BytesFor(config, obj, m.to, n, m.bytes)
    BY <2>2, <2>5, <2>6 DEF BytesFor
  <2> QED BY <2>4, <2>7
<1>8. CASE ~InPlace(r) /\ obj.kind = "large" /\ r > MaxSlab /\ ~(r < obj.size)
           /\ obj.size >= MREMAP_MOVE_THRESHOLD
  <2>1. PICK o \in allocate(r) : m = [to |-> o, bytes |-> obj.size]
    BY <1>8 DEF Moves
  <2>2. m.to = o /\ m.bytes = obj.size
    BY <2>1
  <2>3. PlaceFor(config, n, o) /\ o.kind = "large" /\ o.size = r
    BY <1>8, FreshPlace
  <2>4. Usable(config, obj.kind, obj.size) = obj.size /\ Usable(config, o.kind, o.size) = r
    BY <1>8, <2>3 DEF Usable
  <2>5. obj.size <= r /\ obj.size \in Int
    BY <1>2, <1>4, <1>8
  <2>6. BytesFor(config, obj, o, n, obj.size)
    BY <1>4, <2>4, <2>5 DEF BytesFor
  <2> QED BY <2>2, <2>3, <2>6
<1>9. CASE ~InPlace(r) /\ (obj.kind = "large" /\ r > MaxSlab =>
                             ~(r < obj.size) /\ ~(obj.size >= MREMAP_MOVE_THRESHOLD))
  <2>1. PICK o \in allocate(r) : m = [to |-> o, bytes |-> copy_size(r)]
    BY <1>9 DEF Moves
  <2>2. m.to = o /\ m.bytes = copy_size(r)
    BY <2>1
  <2>3. PlaceFor(config, n, o)
    BY FreshPlace
  <2>4. BytesFor(config, obj, o, n, copy_size(r))
    BY CopyFromTo
  <2> QED BY <2>2, <2>3, <2>4
<1> QED BY <1>6, <1>7, <1>8, <1>9

-----------------------------------------------------------------------------
(* The steps *)

\* A step that moves no contents.
Moveless == copied' = 0 /\ (obj = NoObject \/ outcome' # "returned")

\* The part of a step that ContentsKept is about.
KeepsContents ==
  copied' # 0 \/ (outcome' = "returned" /\ obj # NoObject) =>
    /\ copied' >= Min({obj.req, obj'.req})
    /\ obj'.size # obj.size => copied' <= Min({usable_size(obj), usable_size(obj')})

\* Allocations.
LEMMA AllocatedStep ==
  ASSUME HeapInv, Idle, NEW results, NEW n, NEW a, NEW origin, Allocated(results, n, a, origin),
         \A o \in results : ObjectInv(config, Owned(o, n, a, origin))
  PROVE  HeapInv' /\ Moveless
<1>1. config' = config /\ pending' = pending /\ fatal' = fatal /\ copied' = 0
  BY DEF Allocated
<1>2. obj' = NoObject \/ ObjectInv(config, obj')
  BY DEF Allocated, Idle
<1>3. obj' = NoObject \/ ObjectInv(config', obj')
  BY <1>1, <1>2
<1>4. config' \in Configs /\ ~fatal'
  BY <1>1 DEF HeapInv
<1>5. pending' = NoCall
  BY <1>1 DEF Idle
<1>6. HeapInv'
  BY <1>3, <1>4, <1>5 DEF HeapInv, PendingInv
<1>7. obj = NoObject
  BY DEF Idle
<1> QED BY <1>1, <1>6, <1>7 DEF Moveless

\* malloc.
LEMMA MallocStep ==
  ASSUME HeapInv, NEW n \in 0 .. SIZE_MAX, Malloc(n) PROVE HeapInv' /\ Moveless
<1>1. config \in Configs /\ Idle
  BY DEF HeapInv, Malloc
<1>2. PICK results : results = allocate(Adjusted(config, n))
  OBVIOUS
<1>3. Allocated(results, n, 1, "plain")
  BY <1>1, <1>2, StateOperators DEF Malloc
<1>4. ASSUME NEW o \in results PROVE ObjectInv(config, Owned(o, n, 1, "plain"))
  <2>1. PICK x : x = Owned(o, n, 1, "plain")
    OBVIOUS
  <2>2. /\ x.kind = o.kind /\ x.size = o.size /\ x.align = o.align /\ x.req = n
        /\ x.reqAlign = 1 /\ x.origin = "plain"
    BY <2>1 DEF Owned
  <2>3. /\ o.align \in Nat /\ o.align >= 16
        /\ \/ /\ o.kind = "slab" /\ Adjusted(config, n) <= max_slab_size_class(config.extended)
              /\ o.size = get_size_info(Adjusted(config, n)).size
           \/ /\ o.kind = "large" /\ o.size # 0
              /\ o.size = get_large_size_class(config.large, Adjusted(config, n))
    BY <1>1, <1>2, AllocatedPlain
  <2>4. ObjectInv(config, x)
    BY <1>1, <2>2, <2>3, PlainObject
  <2> QED BY <2>1, <2>4
<1> QED BY <1>1, <1>3, <1>4, AllocatedStep

\* calloc: the bytes that are not known to be zero are cleared.
LEMMA CallocStep ==
  ASSUME HeapInv, NEW m \in Nat, NEW n \in Nat, Calloc(m, n) PROVE HeapInv' /\ Moveless
<1>1. config \in Configs /\ Idle
  BY DEF HeapInv, Calloc
<1>2. PICK p : p = m * n
  OBVIOUS
<1>3. p \in Nat /\ SIZE_MAX \in Nat
  BY <1>2, WordFacts
<1>4. PICK total : total = Adjusted(config, p)
  OBVIOUS
<1>5. PICK results : results = IF p > SIZE_MAX THEN {} ELSE {Cleared(o, total) : o \in allocate(total)}
  OBVIOUS
<1>6. adjust_size_for_canary(p) = total
  BY <1>1, <1>4, StateOperators
<1>7. Allocated(results, p, 1, "calloc")
  BY <1>2, <1>5, <1>6 DEF Calloc
<1>8. ASSUME NEW y \in results PROVE ObjectInv(config, Owned(y, p, 1, "calloc"))
  <2>1. p \in 0 .. SIZE_MAX
    BY <1>3, <1>5
  <2>2. PICK o \in allocate(total) : y = Cleared(o, total)
    BY <1>3, <1>5, <2>1
  <2>3. /\ o.align \in Nat /\ o.align >= 16
        /\ \/ /\ o.kind = "slab" /\ Adjusted(config, p) <= max_slab_size_class(config.extended)
              /\ o.size = get_size_info(Adjusted(config, p)).size
              /\ o.zero = IF config.zero THEN o.size ELSE 0
           \/ /\ o.kind = "large" /\ o.size # 0
              /\ ~(Adjusted(config, p) <= max_slab_size_class(config.extended))
              /\ o.size = get_large_size_class(config.large, Adjusted(config, p))
              /\ o.zero = o.size
    BY <1>1, <1>4, <2>1, <2>2, AllocatedPlain
  <2>4. MaxSlab = max_slab_size_class(config.extended)
    BY <1>1, StateOperators
  <2>5. y.kind = o.kind /\ y.size = o.size /\ y.align = o.align
    <3>1. o = InSlab(o.size) \/ o = InRegion(o.size, o.align)
      BY <2>2 DEF allocate, InSlab, InRegion
    <3>2. /\ "kind" \in DOMAIN o /\ "size" \in DOMAIN o /\ "align" \in DOMAIN o
          /\ "zero" \in DOMAIN o
      BY <3>1 DEF InSlab, InRegion
    <3> QED BY <2>2, <3>2 DEF Cleared
  <2>6. y.zero = IF ~config.zero /\ total > 0 /\ total <= MaxSlab THEN total - config.canary ELSE o.zero
    <3>1. o = InSlab(o.size) \/ o = InRegion(o.size, o.align)
      BY <2>2 DEF allocate, InSlab, InRegion
    <3>2. "zero" \in DOMAIN o
      BY <3>1 DEF InSlab, InRegion
    <3> QED BY <2>2, <3>2 DEF Cleared
  <2>7. y.zero >= p
    <3>1. /\ total \in 0 .. SIZE_MAX /\ p <= total /\ total \in Nat /\ (total = 0 <=> p = 0)
          /\ (p > 0 /\ p <= MaxSlab => total = p + config.canary) /\ (total <= MaxSlab => p <= MaxSlab)
      BY <1>1, <1>4, <2>1, <2>4, AdjustedFacts
    <3>2. config.canary \in {0, 8} /\ MaxSlab \in Nat
      BY <1>1, <2>4, ConfigFacts, SMT
    <3>3. CASE ~config.zero /\ total > 0 /\ total <= MaxSlab
      <4>1. y.zero = total - config.canary
        BY <2>6, <3>3
      <4>2. p > 0 /\ p <= MaxSlab
        BY <1>3, <3>1, <3>3
      <4> QED BY <1>3, <3>1, <3>2, <4>1, <4>2
    <3>4. CASE ~(~config.zero /\ total > 0 /\ total <= MaxSlab)
      <4>1. y.zero = o.zero
        BY <2>6, <3>4
      <4>2. CASE o.kind = "slab"
        <5>1. total <= MaxSlab /\ o.size = get_size_info(total).size
              /\ o.zero = IF config.zero THEN o.size ELSE 0
          BY <1>4, <2>3, <2>4, <4>2
        <5>2. o.size \in Nat /\ total <= o.size
          <6>1. o.size \in 0 .. SIZE_MAX /\ total <= o.size
            BY <1>1, <2>4, <3>1, <5>1, SlabPlace
          <6> QED BY <6>1, WordFacts
        <5>3. config.zero \/ total = 0
          BY <3>1, <3>4, <5>1
        <5> QED BY <1>3, <3>1, <4>1, <5>1, <5>2, <5>3
      <4>3. CASE o.kind = "large"
        <5>1. o.size # 0 /\ o.size = get_large_size_class(config.large, total) /\ o.zero = o.size
          BY <1>4, <2>3, <4>3
        <5>2. o.size \in Nat /\ total <= o.size
          BY <1>1, <3>1, <5>1, RegionPlace
        <5> QED BY <1>3, <3>1, <4>1, <5>1, <5>2
      <4> QED BY <2>3, <4>2, <4>3
    <3> QED BY <3>3, <3>4
  <2>8. PICK x : x = Owned(y, p, 1, "calloc")
    OBVIOUS
  <2>9. /\ x.kind = o.kind /\ x.size = o.size /\ x.align = o.align /\ x.req = p
        /\ x.reqAlign = 1 /\ x.origin = "calloc" /\ x.zero >= p
    BY <2>5, <2>7, <2>8 DEF Owned
  <2>10. ObjectInv(config, x)
    BY <1>1, <2>1, <2>3, <2>9, PlainObject
  <2> QED BY <2>8, <2>10
<1> QED BY <1>1, <1>7, <1>8, AllocatedStep

\* The memalign family: an alignment that is not a power of two, or below the
\* least one, is refused.
LEMMA MemalignStep ==
  ASSUME HeapInv, NEW a, NEW n \in 0 .. SIZE_MAX, NEW least, Memalign(a, n, least)
  PROVE  HeapInv' /\ Moveless
<1>1. config \in Configs /\ Idle
  BY DEF HeapInv, Memalign
<1>2. CASE BadAlignment(a, least)
  <2>1. outcome' = "invalid" /\ copied' = 0 /\ UNCHANGED <<config, obj, pending, fatal>>
    BY <1>2, Zenon DEF Memalign
  <2>2. outcome' # "returned"
    BY <2>1
  <2>3. pending' = NoCall /\ config' = config /\ obj' = obj /\ ~fatal'
    BY <1>1, <2>1 DEF Idle
  <2>4. obj' = NoObject
    BY <1>1, <2>3 DEF Idle
  <2>5. HeapInv'
    BY <1>1, <2>3, <2>4 DEF HeapInv, PendingInv
  <2> QED BY <2>1, <2>2, <2>5 DEF Moveless
<1>3. CASE ~BadAlignment(a, least)
  <2>1. a \in ValidAlignments
    BY <1>3, Zenon DEF BadAlignment, ValidAlignments
  <2>2. PICK results : results = allocate_aligned(a, Adjusted(config, n))
    OBVIOUS
  <2>3. Allocated(allocate_aligned(a, adjust_size_for_canary(n)), n, a, "aligned")
    BY <1>3, Zenon DEF Memalign
  <2>4. Allocated(results, n, a, "aligned")
    BY <1>1, <2>2, <2>3, StateOperators
  <2>5. \A o \in results : ObjectInv(config, Owned(o, n, a, "aligned"))
    BY <1>1, <2>1, <2>2, AlignedObject
  <2> QED BY <1>1, <2>4, <2>5, AllocatedStep
<1> QED BY <1>2, <1>3

\* valloc.
LEMMA VallocStep ==
  ASSUME HeapInv, NEW n \in 0 .. SIZE_MAX, Valloc(n) PROVE HeapInv' /\ Moveless
<1>1. config \in Configs /\ Idle
  BY DEF HeapInv, Valloc
<1>2. PICK m : m = Adjusted(config, n)
  OBVIOUS
<1>3. m \in 0 .. SIZE_MAX /\ m <= m
  BY <1>1, <1>2, AdjustedFacts
<1>4. PICK results : results = allocate_aligned(PAGE_SIZE, m)
  OBVIOUS
<1>5. Allocated(allocate_aligned(PAGE_SIZE, adjust_size_for_canary(n)), n, PAGE_SIZE, "page")
  BY DEF Valloc
<1>6. Allocated(results, n, PAGE_SIZE, "page")
  BY <1>1, <1>2, <1>4, <1>5, StateOperators
<1>7. \A o \in results : ObjectInv(config, Owned(o, n, PAGE_SIZE, "page"))
  BY <1>1, <1>2, <1>3, <1>4, PageObject
<1> QED BY <1>1, <1>6, <1>7, AllocatedStep

\* The pages that hold a request hold it with its canary.
LEMMA PagesHold ==
  ASSUME NEW c \in Configs, NEW n \in 0 .. SIZE_MAX, NEW p, p = page_align(n), ~(n > 0 /\ p = 0)
  PROVE  Adjusted(c, p) \in 0 .. SIZE_MAX /\ Adjusted(c, n) <= Adjusted(c, p)
<1>1. PICK a, b : a = Adjusted(c, n) /\ b = Adjusted(c, p)
  OBVIOUS
<1>2. PICK ms : ms = max_slab_size_class(c.extended)
  OBVIOUS
<1>3. PICK ca : ca = c.canary
  OBVIOUS
<1>4. p \in 0 .. SIZE_MAX
  BY PageRounding
<1>5. PICK q \in Nat : p = 4096 * q
  BY PageRounding
<1>6. n \in Nat /\ p \in Nat
  BY <1>4, WordFacts
<1>7. p # 0 => n <= p /\ p - n < 4096 /\ n # 0
  BY PageRounding
<1>8. p = 0 => n = 0
  BY <1>6
<1>9. /\ a \in Nat /\ n <= a /\ (a = 0 <=> n = 0) /\ (n > ms => a = n)
      /\ (n > 0 /\ n <= ms => a = n + ca)
  BY <1>1, <1>2, <1>3, AdjustedFacts
<1>10. /\ b \in Nat /\ b \in 0 .. SIZE_MAX /\ p <= b /\ (b = 0 <=> p = 0) /\ (p > ms => b = p)
       /\ (p > 0 /\ p <= ms => b = p + ca)
  BY <1>1, <1>2, <1>3, <1>4, AdjustedFacts
<1>11. ca \in {0, 8} /\ ms \in Nat
  BY <1>2, <1>3, ConfigFacts, SMT
<1>12. ms = 4096 * 4 \/ ms = 4096 * 32
  <2>1. c.extended \in BOOLEAN
    BY ConfigFacts, SMT
  <2>2. ms \in {16384, 131072}
    BY <1>2, <2>1, LastEntry, SMT
  <2> QED BY <2>2, SMT
<1>13. CASE n = 0
  BY <1>9, <1>10, <1>13, <1>1
<1>14. CASE n # 0 /\ n <= ms
  <2>1. p # 0 /\ p <= ms
    BY <1>5, <1>6, <1>7, <1>8, <1>11, <1>12, <1>14, SMT
  <2>2. a = n + ca /\ b = p + ca /\ n <= p
    BY <1>6, <1>7, <1>9, <1>10, <1>14, <2>1, SMT
  <2> QED BY <1>1, <1>6, <1>10, <1>11, <2>2, SMT
<1>15. CASE n > ms
  <2>1. p # 0 /\ n <= p /\ p > ms
    BY <1>6, <1>7, <1>8, <1>11, <1>15, SMT
  <2>2. a = n /\ b = p
    BY <1>9, <1>10, <1>15, <2>1
  <2> QED BY <1>1, <1>10, <2>1, <2>2
<1> QED BY <1>6, <1>11, <1>13, <1>14, <1>15, SMT

\* pvalloc.
LEMMA PvallocStep ==
  ASSUME HeapInv, NEW n \in 0 .. SIZE_MAX, Pvalloc(n) PROVE HeapInv' /\ Moveless
<1>1. config \in Configs /\ Idle
  BY DEF HeapInv, Pvalloc
<1>2. PICK p : p = page_align(n)
  OBVIOUS
<1>3. PICK m : m = Adjusted(config, p)
  OBVIOUS
<1>4. PICK results : results = IF n > 0 /\ p = 0 THEN {} ELSE allocate_aligned(PAGE_SIZE, m)
  OBVIOUS
<1>5. adjust_size_for_canary(p) = m
  BY <1>1, <1>3, StateOperators
<1>6. Allocated(results, n, PAGE_SIZE, "page")
  BY <1>2, <1>4, <1>5, Zenon DEF Pvalloc
<1>7. ASSUME NEW o \in results PROVE ObjectInv(config, Owned(o, n, PAGE_SIZE, "page"))
  <2>1. ~(n > 0 /\ p = 0) /\ o \in allocate_aligned(PAGE_SIZE, m)
    BY <1>4
  <2>2. m \in 0 .. SIZE_MAX /\ Adjusted(config, n) <= m
    BY <1>1, <1>2, <1>3, <2>1, PagesHold
  <2> QED BY <1>1, <2>1, <2>2, PageObject
<1> QED BY <1>1, <1>6, <1>7, AllocatedStep

\* operator new returns an object of its call, at once or when it tried again.
LEMMA NewObject ==
  ASSUME config \in Configs, NEW call, call.size \in 0 .. SIZE_MAX,
         call.alignment \in ValidAlignments \cup {0}, NewReturns(call)
  PROVE  ObjectInv(config, obj')
<1>1. PICK n, a : n = call.size /\ a = call.alignment
  OBVIOUS
<1>2. n \in 0 .. SIZE_MAX /\ a \in ValidAlignments \cup {0}
  BY <1>1
<1>3. adjust_size_for_canary(call.size) = Adjusted(config, n)
  BY <1>1, StateOperators
<1>4. CASE a = 0
  <2>1. PICK o \in NewResults(call) : obj' = Owned(o, n, Max({1, a}), "plain")
    BY <1>1, <1>4 DEF NewReturns
  <2>2. o \in allocate(Adjusted(config, n))
    BY <1>1, <1>3, <1>4, <2>1 DEF NewResults
  <2>3. Max({1, a}) = 1
    BY <1>4, MinMaxPair
  <2>4. PICK x : x = Owned(o, n, 1, "plain")
    OBVIOUS
  <2>5. /\ x.kind = o.kind /\ x.size = o.size /\ x.align = o.align /\ x.req = n
        /\ x.reqAlign = 1 /\ x.origin = "plain"
    BY <2>4 DEF Owned
  <2>6. /\ o.align \in Nat /\ o.align >= 16
        /\ \/ /\ o.kind = "slab" /\ Adjusted(config, n) <= max_slab_size_class(config.extended)
              /\ o.size = get_size_info(Adjusted(config, n)).size
           \/ /\ o.kind = "large" /\ o.size # 0
              /\ o.size = get_large_size_class(config.large, Adjusted(config, n))
    BY <1>2, <2>2, AllocatedPlain
  <2>7. ObjectInv(config, x)
    BY <1>2, <2>5, <2>6, PlainObject
  <2> QED BY <2>1, <2>3, <2>4, <2>7
<1>5. CASE a # 0
  <2>1. PICK o \in NewResults(call) : obj' = Owned(o, n, Max({1, a}), "aligned")
    BY <1>1, <1>5 DEF NewReturns
  <2>2. o \in allocate_aligned(a, Adjusted(config, n))
    BY <1>1, <1>3, <1>5, <2>1 DEF NewResults
  <2>3. a \in ValidAlignments
    BY <1>2, <1>5, Zenon
  <2>4. a \in Nat \ {0}
    BY <2>3, ValidAlignmentFacts
  <2>5. Max({1, a}) = a
    <3>1. a \in Nat /\ 1 \in Nat /\ (1 >= a => a = 1)
      BY <2>4
    <3>2. Max({1, a}) = IF 1 >= a THEN 1 ELSE a
      BY <3>1, MinMaxPair
    <3> QED BY <3>1, <3>2
  <2>6. ObjectInv(config, Owned(o, n, a, "aligned"))
    BY <1>2, <2>2, <2>3, AlignedObject
  <2> QED BY <2>1, <2>5, <2>6
<1> QED BY <1>4, <1>5

\* operator new.
LEMMA NewStep ==
  ASSUME HeapInv, NEW n \in 0 .. SIZE_MAX, NEW a, NEW nothrow,
         New([size |-> n, alignment |-> a, nothrow |-> nothrow])
  PROVE  HeapInv' /\ Moveless
<1>1. PICK call : call = [size |-> n, alignment |-> a, nothrow |-> nothrow]
  OBVIOUS
<1>2. call.size = n /\ call.alignment = a
  BY <1>1
<1>3. New(call)
  BY <1>1
<1>4. config \in Configs /\ ~fatal /\ obj = NoObject /\ pending = NoCall
  BY <1>3 DEF HeapInv, New, Idle
<1>5. config' = config /\ fatal' = fatal /\ copied' = 0
  BY <1>3 DEF New
<1>6. call.size \in 0 .. SIZE_MAX /\ call.alignment \in ValidAlignments \cup {0}
  <2>1. a # 0 => ~BadAlignment(a, 1)
    BY <1>2, <1>3 DEF New
  <2>2. a # 0 => a \in ValidAlignments
    BY <2>1, Zenon DEF BadAlignment, ValidAlignments
  <2> QED BY <1>2, <2>2, Zenon
<1>7. CASE NewReturns(call) /\ UNCHANGED pending
  <2>1. ObjectInv(config, obj')
    BY <1>4, <1>6, <1>7, NewObject
  <2>2. ObjectInv(config', obj') /\ config' \in Configs /\ ~fatal' /\ pending' = NoCall
    BY <1>4, <1>5, <1>7, <2>1
  <2>3. HeapInv'
    BY <2>2 DEF HeapInv, PendingInv
  <2> QED BY <1>4, <1>5, <2>3 DEF Moveless
<1>8. CASE pending' = call /\ UNCHANGED obj
  <2>1. config' \in Configs /\ ~fatal' /\ obj' = NoObject
    BY <1>4, <1>5, <1>8
  <2>2. pending'.size \in 0 .. SIZE_MAX /\ pending'.alignment \in ValidAlignments \cup {0}
    BY <1>6, <1>8
  <2>3. PendingInv'
    BY <1>5, <2>1, <2>2, Zenon DEF PendingInv, ValidAlignments, SIZE_MAX, Word
  <2>4. HeapInv'
    BY <2>1, <2>3 DEF HeapInv
  <2> QED BY <1>4, <1>5, <2>4 DEF Moveless
<1> QED BY <1>3, <1>7, <1>8 DEF New

\* A round of handle_out_of_memory.
LEMMA OutOfMemoryStep ==
  ASSUME HeapInv, OutOfMemory PROVE HeapInv' /\ Moveless
<1>1. /\ config \in Configs /\ ~fatal /\ obj = NoObject /\ copied = 0
      /\ pending.size \in 0 .. SIZE_MAX /\ pending.alignment \in ValidAlignments \cup {0}
  BY DEF HeapInv, PendingInv, OutOfMemory
<1>2. config' = config /\ fatal' = fatal /\ copied' = 0
  BY <1>1 DEF OutOfMemory
<1>3. CASE UNCHANGED obj /\ pending' = NoCall
  <2>1. obj' = NoObject /\ config' \in Configs /\ ~fatal'
    BY <1>1, <1>2, <1>3
  <2>2. HeapInv'
    BY <1>3, <2>1 DEF HeapInv, PendingInv
  <2> QED BY <1>1, <1>2, <2>2 DEF Moveless
<1>4. CASE NewReturns(pending) /\ pending' = NoCall
  <2>1. ObjectInv(config, obj')
    BY <1>1, <1>4, NewObject
  <2>2. ObjectInv(config', obj') /\ config' \in Configs /\ ~fatal'
    BY <1>1, <1>2, <2>1
  <2>3. HeapInv'
    BY <1>4, <2>2 DEF HeapInv, PendingInv
  <2> QED BY <1>1, <1>2, <2>3 DEF Moveless
<1>5. CASE UNCHANGED <<obj, outcome, pending>>
  <2>1. config' \in Configs /\ ~fatal' /\ obj' = NoObject /\ pending' = pending
    BY <1>1, <1>2, <1>5
  <2>2. pending'.size \in 0 .. SIZE_MAX /\ pending'.alignment \in ValidAlignments \cup {0}
    BY <1>1, <2>1
  <2>3. PendingInv'
    BY <1>2, <2>1, <2>2, Zenon DEF PendingInv, ValidAlignments, SIZE_MAX, Word
  <2>4. HeapInv'
    BY <2>1, <2>3 DEF HeapInv
  <2> QED BY <1>1, <1>2, <2>4 DEF Moveless
<1> QED BY <1>3, <1>4, <1>5 DEF OutOfMemory

\* A free that is accepted.
LEMMA ReleaseStep ==
  ASSUME HeapInv, Release(TRUE) PROVE HeapInv' /\ Moveless
<1>1. config' = config /\ pending' = pending /\ copied' = 0 /\ obj' = NoObject
      /\ outcome' = "freed" /\ ~fatal' /\ pending = NoCall
  BY DEF Release
<1>2. HeapInv'
  BY <1>1 DEF HeapInv, PendingInv
<1> QED BY <1>1, <1>2 DEF Moveless

\* free_sized of the requested size.
LEMMA FreeSizedStep ==
  ASSUME HeapInv, FreeSized PROVE HeapInv' /\ Moveless
<1>1. config \in Configs /\ ObjectInv(config, obj) /\ obj.origin \in {"plain", "calloc"}
  BY DEF HeapInv, FreeSized
<1>2. PICK n : n = Adjusted(config, obj.req)
  OBVIOUS
<1>3. adjust_size_for_canary(obj.req) = n /\ MaxSlab = max_slab_size_class(config.extended)
      /\ LargeSize(n) = get_large_size_class(config.large, n)
  BY <1>1, <1>2, StateOperators
<1>4. PICK accepted : accepted = IF obj.kind = "slab" THEN n <= MaxSlab /\ obj.size = get_size_info(n).size
                                 ELSE LargeSizeMatches(n)
  OBVIOUS
<1>5. Release(accepted)
  BY <1>3, <1>4, Zenon DEF FreeSized
<1>6. CASE obj.kind = "slab"
  <2>1. n <= MaxSlab /\ obj.size = get_size_info(n).size
    BY <1>1, <1>2, <1>3, <1>6 DEF ObjectInv, SlotOf
  <2>2. accepted = TRUE
    BY <1>4, <1>6, <2>1, Zenon
  <2>3. Release(TRUE)
    BY <1>5, <2>2, Zenon
  <2> QED BY <2>3, ReleaseStep
<1>7. CASE obj.kind # "slab"
  <2>1. obj.size = get_large_size_class(config.large, n)
    BY <1>1, <1>2, <1>7 DEF ObjectInv, RegionOf
  <2>2. LargeSizeMatches(n) = TRUE
    BY <1>3, <2>1, Zenon DEF LargeSizeMatches
  <2>3. accepted = TRUE
    BY <1>4, <1>7, <2>2, Zenon
  <2>4. Release(TRUE)
    BY <1>5, <2>3, Zenon
  <2> QED BY <2>4, ReleaseStep
<1> QED BY <1>6, <1>7

\* free_aligned_sized of the requested size and alignment.
LEMMA FreeAlignedSizedStep ==
  ASSUME HeapInv, FreeAlignedSized PROVE HeapInv' /\ Moveless
<1>1. config \in Configs /\ ObjectInv(config, obj) /\ obj.origin = "aligned"
  BY DEF HeapInv, FreeAlignedSized
<1>2. PICK n : n = Adjusted(config, obj.req)
  OBVIOUS
<1>3. adjust_size_for_canary(obj.req) = n /\ MaxSlab = max_slab_size_class(config.extended)
      /\ LargeSize(n) = get_large_size_class(config.large, n)
      /\ AlignedSize(n, obj.reqAlign) = get_size_info_align(config.extended, n, obj.reqAlign).size
  BY <1>1, <1>2, StateOperators
<1>4. PICK accepted : accepted = IF obj.kind = "slab"
                                   THEN /\ ~BadAlignment(obj.reqAlign, 0) /\ obj.reqAlign <= PAGE_SIZE
                                        /\ n <= MaxSlab
                                        /\ obj.size = AlignedExpected(obj.reqAlign, n)
                                 ELSE LargeSizeMatches(n)
  OBVIOUS
<1>5. Release(accepted)
  BY <1>3, <1>4, Zenon DEF FreeAlignedSized
<1>6. CASE obj.kind = "slab"
  <2>1. /\ n <= MaxSlab /\ obj.reqAlign \in ValidAlignments /\ obj.reqAlign <= 4096
        /\ obj.size = IF obj.reqAlign > 16 THEN get_size_info_align(config.extended, n, obj.reqAlign).size
                      ELSE get_size_info(n).size
    BY <1>1, <1>2, <1>3, <1>6 DEF ObjectInv, SlotOf
  <2>a. n <= MaxSlab /\ obj.reqAlign \in ValidAlignments
    BY <2>1, SMT
  <2>2. obj.size = AlignedExpected(obj.reqAlign, n)
    BY <1>3, <2>1 DEF AlignedExpected, min_align
  <2>3. ~BadAlignment(obj.reqAlign, 0)
    <3>0. PICK a : a = obj.reqAlign
      OBVIOUS
    <3>1. a \in Nat
      BY <2>a, <3>0, ValidAlignmentFacts
    <3>2. ~(a < 0)
      BY <3>1
    <3> QED BY <2>a, <3>0, <3>2, Zenon DEF BadAlignment, ValidAlignments
  <2>4. obj.reqAlign <= PAGE_SIZE
    BY <2>1, SMT DEF PAGE_SIZE
  <2>5. accepted = TRUE
    BY <1>4, <1>6, <2>a, <2>2, <2>3, <2>4, Zenon
  <2>6. Release(TRUE)
    BY <1>5, <2>5, Zenon
  <2> QED BY <2>6, ReleaseStep
<1>7. CASE obj.kind # "slab"
  <2>1. obj.size = get_large_size_class(config.large, n)
    BY <1>1, <1>2, <1>7 DEF ObjectInv, RegionOf
  <2>2. LargeSizeMatches(n) = TRUE
    BY <1>3, <2>1, Zenon DEF LargeSizeMatches
  <2>3. accepted = TRUE
    BY <1>4, <1>7, <2>2, Zenon
  <2>4. Release(TRUE)
    BY <1>5, <2>3, Zenon
  <2> QED BY <2>4, ReleaseStep
<1> QED BY <1>6, <1>7

\* What realloc returns holds the new request and the old contents.
LEMMA ReallocReturns ==
  ASSUME HeapInv, obj # NoObject, NEW n \in 0 .. SIZE_MAX, NEW r, r = RoundedSize(n),
         ~(adjust_size_for_canary(n) > MaxSlab /\ r = 0), NEW m \in Moves(r),
         NEW x, x = [Owned(m.to, n, 1, "plain") EXCEPT !.zero = 0]
  PROVE  /\ ObjectInv(config, x)
         /\ m.bytes >= Min({obj.req, x.req})
         /\ x.size # obj.size => m.bytes <= Min({usable_size(obj), usable_size(x)})
<1>1. config \in Configs /\ ObjectInv(config, obj)
  BY DEF HeapInv
<1>2. PlaceFor(config, n, m.to) /\ BytesFor(config, obj, m.to, n, m.bytes)
  BY <1>1, MovesFit
<1>3. /\ x.kind = m.to.kind /\ x.size = m.to.size /\ x.align = m.to.align /\ x.req = n
      /\ x.reqAlign = 1 /\ x.origin = "plain"
  BY DEF Owned
<1>4. /\ x.align \in Nat /\ x.align >= 16
      /\ \/ /\ x.kind = "slab" /\ Adjusted(config, n) <= max_slab_size_class(config.extended)
            /\ x.size = get_size_info(Adjusted(config, n)).size
         \/ /\ x.kind = "large" /\ x.size # 0
            /\ x.size = get_large_size_class(config.large, Adjusted(config, n))
  BY <1>2, <1>3, Zenon DEF PlaceFor
<1>5. ObjectInv(config, x)
  BY <1>1, <1>3, <1>4, PlainObject
<1>6. PICK bytes : bytes = m.bytes
  OBVIOUS
<1>7. /\ bytes \in Int /\ (n <= bytes \/ obj.req <= bytes)
      /\ x.size # obj.size => /\ bytes <= Usable(config, obj.kind, obj.size)
                              /\ bytes <= Usable(config, x.kind, x.size)
  BY <1>2, <1>3, <1>6 DEF BytesFor
<1>8. n \in Nat /\ obj.req \in Nat
  BY <1>1, ObjectFacts, WordFacts
<1>9. bytes >= Min({obj.req, x.req})
  <2>1. Min({obj.req, n}) = IF obj.req <= n THEN obj.req ELSE n
    BY <1>8, MinMaxPair
  <2> QED BY <1>3, <1>7, <1>8, <2>1
<1>10. ASSUME x.size # obj.size PROVE bytes <= Min({usable_size(obj), usable_size(x)})
  <2>1. PICK u, v : u = usable_size(obj) /\ v = usable_size(x)
    OBVIOUS
  <2>2. u = Usable(config, obj.kind, obj.size) /\ v = Usable(config, x.kind, x.size)
    BY <2>1, Zenon DEF usable_size, Usable
  <2>3. u \in Nat /\ v \in Nat
    <3>1. config.canary \in {0, 8}
      BY <1>1, ConfigFacts, SMT
    <3>2. obj.size \in Nat /\ (obj.size = 0 \/ obj.size >= 16)
      BY <1>1, ObjectFacts
    <3>3. x.size \in Nat /\ (x.size = 0 \/ x.size >= 16)
      BY <1>1, <1>5, ObjectFacts
    <3> QED BY <2>2, <3>1, <3>2, <3>3 DEF Usable
  <2>4. Min({u, v}) = IF u <= v THEN u ELSE v
    BY <2>3, MinMaxPair
  <2>5. bytes <= u /\ bytes <= v
    BY <1>7, <1>10, <2>2
  <2> QED BY <2>1, <2>4, <2>5
<1> QED BY <1>5, <1>6, <1>9, <1>10

\* realloc.
LEMMA ReallocStep ==
  ASSUME HeapInv, NEW n \in 0 .. SIZE_MAX, ReallocTo(n) PROVE HeapInv' /\ KeepsContents
<1>1. /\ config \in Configs /\ ~fatal /\ obj # NoObject /\ ObjectInv(config, obj) /\ pending = NoCall
      /\ config' = config /\ pending' = pending /\ fatal' = fatal
  BY DEF HeapInv, ReallocTo
<1>2. PICK r : r = RoundedSize(n)
  OBVIOUS
<1>3. CASE /\ ~(adjust_size_for_canary(n) > MaxSlab /\ r = 0)
           /\ \E m \in Moves(r) :
                /\ obj' = [Owned(m.to, n, 1, "plain") EXCEPT !.zero = 0]
                /\ copied' = m.bytes
  <2>1. PICK m \in Moves(r) : /\ obj' = [Owned(m.to, n, 1, "plain") EXCEPT !.zero = 0]
                              /\ copied' = m.bytes
    BY <1>3
  <2>2. PICK x : x = [Owned(m.to, n, 1, "plain") EXCEPT !.zero = 0]
    OBVIOUS
  <2>3. /\ ObjectInv(config, x)
        /\ m.bytes >= Min({obj.req, x.req})
        /\ x.size # obj.size => m.bytes <= Min({usable_size(obj), usable_size(x)})
    BY <1>1, <1>2, <1>3, <2>2, ReallocReturns
  <2>5. KeepsContents
    BY <2>1, <2>2, <2>3 DEF KeepsContents
  <2>6. obj' = x /\ ObjectInv(config', obj')
    BY <1>1, <2>1, <2>2, <2>3
  <2>7. HeapInv'
    BY <1>1, <2>6 DEF HeapInv, PendingInv
  <2> QED BY <2>5, <2>7
<1>4. CASE outcome' = "null" /\ copied' = 0 /\ UNCHANGED obj
  <2>1. HeapInv'
    BY <1>1, <1>4 DEF HeapInv, PendingInv
  <2>2. KeepsContents
    BY <1>4 DEF KeepsContents
  <2> QED BY <2>1, <2>2
<1> QED BY <1>2, <1>3, <1>4, Zenon DEF ReallocTo, Overflows

\* reallocarray.
LEMMA ReallocArrayStep ==
  ASSUME HeapInv, NEW m \in Nat, NEW n \in Nat, ReallocArray(m, n) PROVE HeapInv' /\ KeepsContents
<1>1. PICK p : p = m * n
  OBVIOUS
<1>2. p \in Nat /\ SIZE_MAX \in Nat
  BY <1>1, WordFacts
<1>3. CASE p <= SIZE_MAX /\ ReallocTo(p)
  <2>1. p \in 0 .. SIZE_MAX
    BY <1>2, <1>3
  <2> QED BY <1>3, <2>1, ReallocStep
<1>4. CASE outcome' = "null" /\ copied' = 0 /\ UNCHANGED <<config, obj, pending, fatal>> /\ pending = NoCall
  <2>1. HeapInv'
    BY <1>4 DEF HeapInv, PendingInv
  <2>2. KeepsContents
    BY <1>4 DEF KeepsContents
  <2> QED BY <2>1, <2>2
<1> QED BY <1>1, <1>3, <1>4, Zenon DEF ReallocArray

\* A step that moves nothing keeps the contents.
LEMMA MovelessKeeps ==
  ASSUME Moveless PROVE KeepsContents
BY DEF Moveless, KeepsContents

\* Every step of the interface.
LEMMA HeapStep ==
  ASSUME HeapInv, Next PROVE HeapInv' /\ KeepsContents
<1>1. ASSUME NEW n \in Sizes,
             \/ Malloc(n) \/ Valloc(n) \/ Pvalloc(n) \/ Realloc(n)
             \/ \E m \in Counts : Calloc(m, n) \/ ReallocArray(m, n)
             \/ \E a \in Alignments : \E least \in {1, 8} : Memalign(a, n, least)
             \/ \E a \in Alignments \cup {0} : \E nothrow \in BOOLEAN :
                  New([size |-> n, alignment |-> a, nothrow |-> nothrow])
      PROVE  HeapInv' /\ KeepsContents
  <2>a. n \in 0 .. SIZE_MAX
    BY SizesAssumption
  <2>1. n \in 0 .. SIZE_MAX /\ n \in Nat
    BY <2>a, WordFacts, SMT
  <2>2. \A m \in Counts : m \in Nat
    BY CountsAssumption, WordFacts, SMT
  <2>3. CASE Malloc(n)
    BY <2>1, <2>3, MallocStep, MovelessKeeps
  <2>4. CASE Valloc(n)
    BY <2>1, <2>4, VallocStep, MovelessKeeps
  <2>5. CASE Pvalloc(n)
    BY <2>1, <2>5, PvallocStep, MovelessKeeps
  <2>6. CASE Realloc(n)
    <3>1. ReallocTo(n)
      BY <2>6 DEF Realloc
    <3> QED BY <2>1, <3>1, ReallocStep
  <2>7. ASSUME NEW m \in Counts, Calloc(m, n) PROVE HeapInv' /\ KeepsContents
    BY <2>1, <2>2, <2>7, CallocStep, MovelessKeeps
  <2>8. ASSUME NEW m \in Counts, ReallocArray(m, n) PROVE HeapInv' /\ KeepsContents
    BY <2>1, <2>2, <2>8, ReallocArrayStep
  <2>9. ASSUME NEW a, NEW least, Memalign(a, n, least) PROVE HeapInv' /\ KeepsContents
    BY <2>1, <2>9, MemalignStep, MovelessKeeps
  <2>10. ASSUME NEW a, NEW nothrow, New([size |-> n, alignment |-> a, nothrow |-> nothrow])
         PROVE  HeapInv' /\ KeepsContents
    BY <2>1, <2>10, NewStep, MovelessKeeps
  <2> QED BY <1>1, <2>3, <2>4, <2>5, <2>6, <2>7, <2>8, <2>9, <2>10, Zenon
<1>2. CASE Free
  <2>1. Release(TRUE)
    BY <1>2 DEF Free
  <2> QED BY <2>1, ReleaseStep, MovelessKeeps
<1>3. CASE FreeSized
  BY <1>3, FreeSizedStep, MovelessKeeps
<1>4. CASE FreeAlignedSized
  BY <1>4, FreeAlignedSizedStep, MovelessKeeps
<1>5. CASE OutOfMemory
  BY <1>5, OutOfMemoryStep, MovelessKeeps
<1> QED BY <1>1, <1>2, <1>3, <1>4, <1>5, Zenon DEF Next

-----------------------------------------------------------------------------
(* The theorems *)

\* HeapInv holds before the first call.
LEMMA HeapInit == Init => HeapInv
<1> SUFFICES ASSUME Init PROVE HeapInv
  OBVIOUS
<1>1. config \in Configs
  BY DEF Init, Configs
<1>2. obj = NoObject /\ pending = NoCall /\ ~fatal
  BY DEF Init
<1> QED BY <1>1, <1>2 DEF HeapInv, PendingInv

\* The invariant of the allocation interface, for every set of sizes, counts and
\* alignments that the program asks for: after any sequence of calls the object
\* lies where its request says, and a call that waits for memory has no object.
THEOREM HeapInvariant == Spec => []HeapInv
<1>1. HeapInv /\ [Next]_vars => HeapInv'
  <2> SUFFICES ASSUME HeapInv, [Next]_vars PROVE HeapInv'
    OBVIOUS
  <2>1. CASE Next
    BY <2>1, HeapStep
  <2>2. CASE UNCHANGED vars
    BY <2>2 DEF vars, HeapInv, PendingInv
  <2> QED BY <2>1, <2>2
<1> QED BY HeapInit, <1>1, PTL DEF Spec

\* A sized free (free_sized, free_aligned_sized, the sized operators delete) of
\* the size and the alignment that the program asked for never ends the program
\* with a fatal error, whatever realloc did to the object before.
THEOREM SizedFrees == Spec => []SizedFreeAccepted
<1>1. HeapInv => SizedFreeAccepted
  BY DEF HeapInv, SizedFreeAccepted
<1> QED BY HeapInvariant, <1>1, PTL

\* realloc and reallocarray keep the contents up to the smaller of the two
\* requests, and copy neither from nor to a canary.
THEOREM ReallocKeepsContents == Spec => ContentsKept
<1>1. HeapInv /\ [Next]_vars => [KeepsContents]_vars
  <2> SUFFICES ASSUME HeapInv, [Next]_vars PROVE [KeepsContents]_vars
    OBVIOUS
  <2>1. CASE Next
    BY <2>1, HeapStep
  <2>2. CASE UNCHANGED vars
    BY <2>2
  <2> QED BY <2>1, <2>2
<1>2. Spec => [][KeepsContents]_vars
  BY HeapInvariant, <1>1, PTL DEF Spec
<1> QED BY <1>2 DEF ContentsKept, KeepsContents

\* The usable size covers the request.
LEMMA UsableCovers ==
  ASSUME NEW c \in Configs, NEW o, ObjectInv(c, o), NEW u, u = Usable(c, o.kind, o.size)
  PROVE  u \in Nat /\ o.req <= u /\ u <= o.size
<1>1. /\ o.req \in 0 .. SIZE_MAX /\ o.req \in Nat /\ o.size \in Nat
      /\ Adjusted(c, o.req) <= o.size /\ (o.size = 0 \/ o.size >= 16) /\ o.req <= o.size
      /\ o.kind = "slab" => o.size <= max_slab_size_class(c.extended)
  BY ObjectFacts
<1>2. PICK ms, ca, a, s, n : /\ ms = max_slab_size_class(c.extended) /\ ca = c.canary
                             /\ a = Adjusted(c, o.req) /\ s = o.size /\ n = o.req
  OBVIOUS
<1>3. ca \in {0, 8} /\ ms \in Nat
  BY <1>2, ConfigFacts, SMT
<1>4. /\ a \in Nat /\ (a = 0 <=> n = 0) /\ (n > ms => a = n)
      /\ (n > 0 /\ n <= ms => a = n + ca)
  BY <1>1, <1>2, AdjustedFacts
<1>5. n \in Nat /\ s \in Nat /\ a <= s /\ (s = 0 \/ s >= 16) /\ n <= s
  BY <1>1, <1>2
<1>6. CASE o.kind = "slab" /\ o.size > 0
  <2>1. u = s - ca /\ s > 0 /\ s <= ms
    BY <1>1, <1>2, <1>6 DEF Usable
  <2>2. u \in Nat /\ n <= u /\ u <= s
    BY <1>3, <1>4, <1>5, <2>1
  <2> QED BY <1>2, <2>2
<1>7. CASE ~(o.kind = "slab" /\ o.size > 0)
  <2>1. u = s
    BY <1>2, <1>7 DEF Usable
  <2> QED BY <1>2, <1>5, <2>1
<1> QED BY <1>6, <1>7

\* The first slot has number 0.
LEMMA FirstSlot ==
  ASSUME NEW d \in Nat, NEW x \in 0 .. d - 1 PROVE x \div d = 0
<1>1. PICK q : q = x \div d
  OBVIOUS
<1>2. q \in Int /\ d * q <= x /\ x < d * q + d
  BY <1>1
<1> QED BY <1>1, <1>2

\* Just behind the first slot is the second one.
LEMMA SecondSlot ==
  ASSUME NEW d \in Nat \ {0} PROVE d \div d = 1
OBVIOUS

\* The two size queries, for a pointer offset bytes into the object, are upper
\* bounds on what is left of it, whichever other slots are in use; the first has
\* an answer when the pointer is in the slot.
LEMMA QueriesBound ==
  ASSUME config \in Configs, ObjectInv(config, obj), NEW offset \in 0 .. obj.req,
         NEW used, 0 \in used
  PROVE  /\ offset < SlotSize(obj) => ObjectSizes(obj, offset, used) # {}
         /\ \A n \in ObjectSizes(obj, offset, used) :
              n >= obj.req - offset /\ object_size_fast(obj) >= n
<1>1. PICK u : u = usable_size(obj)
  OBVIOUS
<1>2. u = Usable(config, obj.kind, obj.size)
  BY <1>1, Zenon DEF usable_size, Usable
<1>3. u \in Nat /\ obj.req <= u /\ u <= obj.size
  BY <1>2, UsableCovers
<1>4. /\ obj.req \in Nat /\ obj.size \in Nat /\ obj.size \in 0 .. SIZE_MAX /\ obj.req <= obj.size
      /\ obj.req \in 0 .. SIZE_MAX
  BY ObjectFacts
<1>5. SIZE_MAX \in Nat /\ obj.size <= SIZE_MAX
  BY <1>4, WordFacts
<1>6. CASE obj.kind = "large"
  <2>1. PICK x : x = IF offset = 0 THEN obj.size ELSE SIZE_MAX
    OBVIOUS
  <2>2. ObjectSizes(obj, offset, used) = {x} /\ object_size_fast(obj) = SIZE_MAX
    BY <1>6, <2>1 DEF ObjectSizes, object_size_fast
  <2>3. x >= obj.req - offset /\ SIZE_MAX >= x
    BY <1>4, <1>5, <2>1
  <2> QED BY <2>2, <2>3
<1>7. CASE obj.kind # "large"
  <2>1. PICK d : d = SlotSize(obj)
    OBVIOUS
  <2>2. d \in Nat \ {0} /\ obj.size <= d
    BY <1>4, <2>1 DEF SlotSize
  <2>3. PICK slot : slot = offset \div d
    OBVIOUS
  <2>4. PICK rest : rest = offset - slot * d
    OBVIOUS
  <2>5. /\ ObjectSizes(obj, offset, used) = IF slot \in used /\ rest <= u THEN {u - rest} ELSE {}
        /\ object_size_fast(obj) = u
    BY <1>1, <1>7, <2>1, <2>3, <2>4, Zenon DEF ObjectSizes, object_size_fast
  <2>6. offset \in Nat /\ offset <= u /\ offset <= d
    BY <1>3, <1>4, <2>2
  <2>7. CASE offset < d
    <3>1. slot = 0
      BY <2>2, <2>3, <2>6, <2>7, FirstSlot
    <3>2. rest = offset
      BY <2>2, <2>4, <2>6, <3>1
    <3>3. ObjectSizes(obj, offset, used) = {u - offset}
      BY <2>5, <2>6, <3>1, <3>2
    <3>4. u - offset >= obj.req - offset /\ u >= u - offset
      BY <1>3, <1>4, <2>6
    <3> QED BY <2>5, <3>3, <3>4
  <2>8. CASE ~(offset < d)
    <3>1. offset = d
      BY <2>2, <2>6, <2>8
    <3>2. slot = 1
      BY <2>2, <2>3, <3>1, SecondSlot
    <3>3. rest = 0
      BY <2>2, <2>4, <3>1, <3>2
    <3>4. \A n \in ObjectSizes(obj, offset, used) : n = u
      BY <1>3, <2>5, <3>3
    <3>5. u >= obj.req - offset /\ u >= u
      BY <1>3, <1>4, <2>6
    <3> QED BY <2>1, <2>5, <2>8, <3>4, <3>5
  <2> QED BY <2>7, <2>8
<1> QED BY <1>6, <1>7

\* The program gets what it asked for, for every size, count and alignment and
\* in every build: the usable size covers the request, the address is aligned,
\* memory from calloc is zero, a slot is one of a class in the table, and the two
\* size queries are upper bounds; malloc_object_size does not abort for a pointer
\* into the object, or just behind it and still in its slot.
THEOREM RequestsFit == Spec => []RequestFits
<1>1. ASSUME HeapInv PROVE RequestFits
  <2> SUFFICES ASSUME obj # NoObject
               PROVE  /\ usable_size(obj) >= obj.req
                      /\ obj.align % obj.reqAlign = 0 /\ obj.align >= min_align
                      /\ obj.origin = "calloc" => obj.zero >= obj.req
                      /\ obj.kind = "slab" => obj.size \in Range(size_classes(config.extended))
                      /\ \A offset \in {0, 1, obj.req - 1, obj.req} \cap 0 .. obj.req :
                           \A used \in {{0}, {0, 1}} :
                             /\ offset < SlotSize(obj) => ObjectSizes(obj, offset, used) # {}
                             /\ \A n \in ObjectSizes(obj, offset, used) :
                                  n >= obj.req - offset /\ object_size_fast(obj) >= n
    BY Zenon DEF RequestFits
  <2>1. config \in Configs /\ ObjectInv(config, obj)
    BY <1>1 DEF HeapInv
  <2>2. usable_size(obj) >= obj.req
    <3>1. PICK u : u = usable_size(obj)
      OBVIOUS
    <3>2. u = Usable(config, obj.kind, obj.size)
      BY <3>1, Zenon DEF usable_size, Usable
    <3>3. u \in Nat /\ obj.req <= u
      BY <2>1, <3>2, UsableCovers
    <3>4. obj.req \in Nat
      BY <2>1, ObjectFacts
    <3>5. u >= obj.req
      BY <3>3, <3>4
    <3> QED BY <3>1, <3>5, Zenon
  <2>3. Divides(obj.reqAlign, obj.align) /\ obj.align >= 16
    BY <2>1 DEF ObjectInv
  <2>4. obj.align % obj.reqAlign = 0 /\ obj.align >= min_align
    BY <2>3, Zenon DEF Divides, min_align
  <2>5. obj.origin = "calloc" => obj.zero >= obj.req
    BY <2>1 DEF ObjectInv
  <2>6. obj.kind = "slab" => obj.size \in Range(size_classes(config.extended))
    BY <2>1 DEF ObjectInv, SlotOf
  <2>7. ASSUME NEW offset \in {0, 1, obj.req - 1, obj.req} \cap 0 .. obj.req,
               NEW used \in {{0}, {0, 1}}
        PROVE  /\ offset < SlotSize(obj) => ObjectSizes(obj, offset, used) # {}
               /\ \A n \in ObjectSizes(obj, offset, used) :
                    n >= obj.req - offset /\ object_size_fast(obj) >= n
    <3>1. 0 \in used /\ offset \in 0 .. obj.req
      OBVIOUS
    <3> QED BY <2>1, <3>1, QueriesBound
  <2> QED BY <2>2, <2>4, <2>5, <2>6, <2>7, Zenon
<1> QED BY HeapInvariant, <1>1, PTL

-----------------------------------------------------------------------------
(* The size classes *)

\* p bytes of slots of size bytes in the pages of a slab: few, and with no room
\* for another slot.
SlabBytes(p) == p \in Nat /\ p >= 1 /\ p <= 131072
NoRoom(p, size) == size >= PAGE_SIZE \/ \E q \in Nat : p <= PAGE_SIZE * q /\ PAGE_SIZE * q - p < size

\* What is left of them.
LEMMA PagesRest ==
  ASSUME NEW size \in Nat, NEW p, SlabBytes(p), NoRoom(p, size)
  PROVE  page_align(p) - p \in 0 .. size - 1
<1>1. PICK s : s = page_align(p)
  OBVIOUS
<1>2. p \in 0 .. SIZE_MAX /\ ~(p > Word - 4096) /\ p # 0 /\ p \in Nat
  BY WordFacts, SMT DEF SlabBytes
<1>3. p \in 0 .. SIZE_MAX
  BY <1>2, SMT
<1>4. s # 0 /\ p <= s /\ s - p < 4096
  BY <1>1, <1>2, PageRounding, SMT
<1>5. PICK t \in Nat : s = 4096 * t
  BY <1>1, <1>3, PageRounding, SMT
<1>6. p \in Nat /\ s \in Nat
  BY <1>2, <1>5, SMT
<1>7. s - p \in 0 .. size - 1
  <2>1. CASE size >= 4096
    BY <1>4, <1>6, <2>1, SMT
  <2>2. CASE size < 4096
    <3>1. PICK q \in Nat : p <= 4096 * q /\ 4096 * q - p < size
      BY <2>2, SMT DEF NoRoom, PAGE_SIZE
    <3>2. q = t
      BY <1>4, <1>5, <1>6, <2>2, <3>1, SMT
    <3> QED BY <1>4, <1>5, <1>6, <3>1, <3>2, SMT
  <2> QED BY <2>1, <2>2, SMT
<1> QED BY <1>1, <1>7, Zenon

\* The slots of a slab, as many as the tables say, leave less than a slot of its
\* pages.
LEMMA SlabFits ==
  ASSUME NEW slots \in Nat, NEW size \in Nat, NEW p, p = slots * size, SlabBytes(p), NoRoom(p, size)
  PROVE  get_slab_size(slots, size) - slots * size \in 0 .. size - 1
<1>1. page_align(p) - p \in 0 .. size - 1
  BY PagesRest, Zenon
<1> QED BY <1>1, Zenon DEF get_slab_size

\* The number of slots of a class without the extended classes, and the pages of
\* its slab when a slot is less than a page.
SlotsOf(c) == base_size_class_slots[c + 1]
PagesOf(c) ==
  <<1, 1, 1, 1, 1, 1, 1, 1, 2, 2, 3, 3, 4, 5, 6, 7, 8, 10, 12, 14, 16, 5, 6, 7, 8, 5, 6, 7>>[c + 1]

\* The slabs of the small classes.
LEMMA SmallSlabs ==
  ASSUME NEW c \in 1 .. 27, NEW k, NEW b, k = SlotsOf(c), b = BaseAt(c)
  PROVE  k \in Nat /\ b \in Nat /\ SlabBytes(k * b) /\ NoRoom(k * b, b)
<1>1. PICK g : g = PagesOf(c)
  OBVIOUS
<1>2. \/ k = 256 /\ <<b, g>> \in {<<16, 1>>}
      \/ k = 128 /\ <<b, g>> \in {<<32, 1>>}
      \/ k = 85 /\ <<b, g>> \in {<<48, 1>>}
      \/ k = 64 /\ <<b, g>> \in {<<64, 1>>, <<128, 2>>, <<192, 3>>, <<256, 4>>, <<320, 5>>, <<384, 6>>, <<448, 7>>, <<512, 8>>, <<640, 10>>, <<768, 12>>, <<896, 14>>, <<1024, 16>>}
      \/ k = 51 /\ <<b, g>> \in {<<80, 1>>, <<160, 2>>}
      \/ k = 42 /\ <<b, g>> \in {<<96, 1>>}
      \/ k = 36 /\ <<b, g>> \in {<<112, 1>>}
      \/ k = 54 /\ <<b, g>> \in {<<224, 3>>}
      \/ k = 16 /\ <<b, g>> \in {<<1280, 5>>, <<1536, 6>>, <<1792, 7>>, <<2048, 8>>}
      \/ k = 8 /\ <<b, g>> \in {<<2560, 5>>, <<3072, 6>>, <<3584, 7>>}
  BY <1>1, SMT DEF SlotsOf, PagesOf, BaseAt, base_size_classes, base_size_class_slots
<1>3. /\ k \in Nat /\ b \in Nat /\ g \in Nat /\ k * b \in Nat /\ k * b >= 1 /\ k * b <= 131072
      /\ k * b <= 4096 * g /\ 4096 * g - k * b < b
  BY <1>2, SMT
<1> QED BY <1>3, SMT DEF SlabBytes, NoRoom, PAGE_SIZE

\* Those of the larger ones.
LEMMA PageSlabs ==
  ASSUME NEW c \in 28 .. 36, NEW k, NEW b, k = SlotsOf(c), b = BaseAt(c)
  PROVE  k \in Nat /\ b \in Nat /\ SlabBytes(k * b) /\ NoRoom(k * b, b)
<1>2. \/ k = 8 /\ b \in {4096, 5120, 6144, 7168, 8192}
      \/ k = 6 /\ b \in {10240}
      \/ k = 5 /\ b \in {12288}
      \/ k = 4 /\ b \in {14336, 16384}
  BY SMT DEF SlotsOf, BaseAt, base_size_classes, base_size_class_slots
<1>3. k \in Nat /\ b \in Nat /\ k * b \in Nat /\ k * b >= 1 /\ k * b <= 131072 /\ b >= 4096
  BY <1>2, SMT
<1> QED BY <1>3, SMT DEF SlabBytes, NoRoom, PAGE_SIZE

\* With the extended classes.
SlotsAt(c) == size_class_slots[c + 1]

\* The two parts of the table of slots.
LEMMA SlotParts ==
  /\ \A c \in 0 .. 36 : SlotsAt(c) = SlotsOf(c)
  /\ \A c \in 37 .. 48 : SlotsAt(c) = 1
<1>1. base_size_class_slots \in Seq(Nat) /\ Len(base_size_class_slots) = 37
  BY SMT DEF base_size_class_slots
<1>2. Len(extended_size_classes) = 12
  BY SMT DEF extended_size_classes
<1>3. PICK a, b : a = base_size_class_slots /\ b = [c \in 1 .. 12 |-> 1]
  OBVIOUS
<1>4. b \in Seq(Nat) /\ Len(b) = 12 /\ \A i \in 1 .. 12 : b[i] = 1
  BY <1>3
<1>5. a \in Seq(Nat) /\ Len(a) = 37 /\ size_class_slots = a \o b
  BY <1>1, <1>2, <1>3 DEF size_class_slots
<1>6. ASSUME NEW i \in 1 .. 37 PROVE (a \o b)[i] = a[i]
  <2>1. a \in Seq(Nat) /\ b \in Seq(Nat) /\ i \in 1 .. Len(a)
    BY <1>4, <1>5
  <2> QED BY <2>1
<1>7. ASSUME NEW i \in 38 .. 49 PROVE (a \o b)[i] = 1
  <2>1. a \in Seq(Nat) /\ b \in Seq(Nat) /\ i > Len(a) /\ i <= Len(a) + Len(b) /\ i - Len(a) \in 1 .. 12
    BY <1>4, <1>5
  <2>2. (a \o b)[i] = b[i - Len(a)]
    BY <2>1, SMTT(30)
  <2> QED BY <1>4, <2>1, <2>2
<1>8. ASSUME NEW c \in 0 .. 36 PROVE SlotsAt(c) = SlotsOf(c)
  <2>1. c + 1 \in 1 .. 37
    OBVIOUS
  <2> QED BY <1>3, <1>5, <1>6, <2>1 DEF SlotsAt, SlotsOf
<1>9. ASSUME NEW c \in 37 .. 48 PROVE SlotsAt(c) = 1
  <2>1. c + 1 \in 38 .. 49
    OBVIOUS
  <2> QED BY <1>5, <1>7, <2>1 DEF SlotsAt
<1> QED BY <1>8, <1>9

\* Every slab is full.
LEMMA SlabOfClass ==
  ASSUME NEW extended \in BOOLEAN, NEW c \in 0 .. LastClass(extended),
         NEW s, s = Max({16, SizeOfClass(extended, c)})
  PROVE  get_slab_size(SlotsAt(c), s) - SlotsAt(c) * s \in 0 .. s - 1
<1>0. c \in 0 .. 48 /\ (c > 36 => extended)
  BY SMT DEF LastClass
<1>1. PICK b : b = SizeOfClass(extended, c)
  OBVIOUS
<1>2. b = IF extended THEN ExtendedAt(c) ELSE BaseAt(c)
  BY <1>1, TableChoice, Zenon
<1>3. CASE c = 0
  <2>1. b = 0
    <3>1. BaseAt(c) = 0 /\ ExtendedAt(c) = 0
      BY <1>3, BaseTable, ExtendedTable, SMT
    <3> QED BY <1>2, <3>1, Zenon
  <2>2. s = 16
    <3>1. Max({16, b}) = IF 16 >= b THEN 16 ELSE b
      BY <2>1, MinMaxPair, SMT
    <3> QED BY <1>1, <2>1, <3>1, SMT
  <2>3. SlotsOf(c) = 256 /\ SlotsAt(c) = SlotsOf(c)
    BY <1>3, SlotParts, SMT DEF SlotsOf, base_size_class_slots
  <2>4. PICK k : k = SlotsAt(c)
    OBVIOUS
  <2>5. PICK p : p = k * s
    OBVIOUS
  <2>6. p = 4096 /\ k \in Nat /\ s \in Nat
    BY <2>2, <2>3, <2>4, <2>5, SMT
  <2>7. SlabBytes(p) /\ NoRoom(p, s)
    <3>1. PICK q \in Nat : q = 1
      OBVIOUS
    <3>2. p <= 4096 * q /\ 4096 * q - p < s
      BY <2>2, <2>6, <3>1, SMT
    <3>3. NoRoom(p, s)
      BY <3>2, SMT DEF NoRoom, PAGE_SIZE
    <3>4. SlabBytes(p)
      BY <2>6, SMT DEF SlabBytes
    <3> QED BY <3>3, <3>4
  <2>8. k \in Nat /\ s \in Nat
    BY <2>6, SMT
  <2>9. get_slab_size(k, s) - k * s \in 0 .. s - 1
    BY <2>5, <2>7, <2>8, SlabFits, Zenon
  <2> QED BY <2>4, <2>9, Zenon
<1>4. ASSUME NEW k, k = SlotsAt(c), k \in Nat, b \in Nat, b >= 16, SlabBytes(k * b), NoRoom(k * b, b)
      PROVE  get_slab_size(SlotsAt(c), s) - SlotsAt(c) * s \in 0 .. s - 1
  <2>1. s = b
    <3>0. b \in Nat /\ b >= 16
      BY <1>4
    <3>1. Max({16, b}) = IF 16 >= b THEN 16 ELSE b
      <4>1. 16 \in Nat /\ b \in Nat
        BY <3>0
      <4> QED BY <4>1, MinMaxPair, Zenon
    <3>2. 16 >= b => b = 16
      BY <3>0, SMT
    <3> QED BY <1>1, <3>1, <3>2, Zenon
  <2>2. get_slab_size(k, b) - k * b \in 0 .. b - 1
    BY <1>4, SlabFits, Zenon
  <2> QED BY <1>4, <2>1, <2>2, Zenon
<1>5. c > 0 => b >= 16
  <2>1. CASE c > 0
    <3>1. c \in 1 .. LastClass(extended)
      BY <2>1, SMT DEF LastClass
    <3>2. b \in 16 .. max_slab_size_class(extended)
      BY <1>1, <3>1, EntryFixed
    <3> QED BY <3>2
  <2> QED BY <2>1, Zenon
<1>6. CASE c \in 1 .. 36
  <2>1. b = BaseAt(c)
    <3>1. BaseAt(c) = ExtendedAt(c)
      BY <1>6, BaseTable, ExtendedTable, SMT
    <3> QED BY <1>2, <3>1, Zenon
  <2>2. PICK k : k = SlotsAt(c)
    OBVIOUS
  <2>3. k = SlotsOf(c)
    BY <1>6, <2>2, SlotParts, SMT
  <2>4. k \in Nat /\ b \in Nat /\ SlabBytes(k * b) /\ NoRoom(k * b, b)
    <3>1. CASE c \in 1 .. 27
      BY <2>1, <2>3, <3>1, SmallSlabs, Zenon
    <3>2. CASE c \in 28 .. 36
      BY <2>1, <2>3, <3>2, PageSlabs, Zenon
    <3>3. c \in 1 .. 27 \/ c \in 28 .. 36
      BY <1>6, SMT
    <3> QED BY <3>1, <3>2, <3>3, Zenon
  <2>5. b >= 16
    BY <1>5, <1>6, SMT
  <2> QED BY <1>4, <2>2, <2>4, <2>5, Zenon
<1>7. CASE c \in 37 .. 48
  <2>1. b = ExtendedAt(c)
    BY <1>0, <1>2, <1>7, SMT
  <2>2. b \in Nat /\ b >= 4096 /\ b <= 131072
    BY <1>7, <2>1, ExtendedTable, SMT
  <2>3. PICK k : k = SlotsAt(c)
    OBVIOUS
  <2>4. k = 1 /\ k \in Nat /\ k * b = b /\ b \in Nat /\ b >= 16
    BY <1>7, <2>2, <2>3, SlotParts, SMT
  <2>5. SlabBytes(b) /\ NoRoom(b, b)
    BY <2>2, SMT DEF SlabBytes, NoRoom, PAGE_SIZE
  <2>6. k \in Nat /\ b \in Nat /\ b >= 16 /\ SlabBytes(k * b) /\ NoRoom(k * b, b)
    BY <2>4, <2>5, Zenon
  <2> QED BY <1>4, <2>3, <2>6, Zenon
<1>8. c = 0 \/ c \in 1 .. 36 \/ c \in 37 .. 48
  BY <1>0, SMT
<1> QED BY <1>3, <1>6, <1>7, <1>8, Zenon

\* The class of a request of a slab.
LEMMA ClassExact ==
  ASSUME NEW c \in Configs, NEW n \in Nat, n <= max_slab_size_class(c.extended),
         NEW table, table = size_classes(c.extended),
         NEW k, k = get_size_info(n).class, NEW s, s = get_size_info(n).size
  PROVE  /\ table[k + 1] = s /\ n <= table[k + 1] /\ (k > 0 => n > table[k])
         /\ n > 64 => 5 * (s - n) < s
<1>1. c.extended \in BOOLEAN
  BY ConfigFacts, SMT
<1>2. max_slab_size_class(c.extended) \in Nat
  BY ConfigFacts, SMT
<1>3. n \in 0 .. max_slab_size_class(c.extended)
  BY <1>2, SMT
<1>4. /\ k \in 0 .. LastClass(c.extended) /\ SizeOfClass(c.extended, k) = s
      /\ k > 0 => SizeOfClass(c.extended, k - 1) < n
  BY <1>1, <1>3, ClassInTable
<1>5. k \in Nat
  BY <1>4, SMT
<1>6. s \in 0 .. SIZE_MAX /\ n <= s
  BY SlabPlace
<1>7. s \in Nat /\ SIZE_MAX \in Nat /\ s <= SIZE_MAX
  BY <1>6, WordFacts, SMT
<1>8. table[k + 1] = s
  BY <1>4 DEF SizeOfClass
<1>9. ASSUME k > 0 PROVE n > table[k]
  <2>1. (k - 1) + 1 = k
    BY <1>5
  <2>2. SizeOfClass(c.extended, k - 1) = table[k]
    BY <2>1 DEF SizeOfClass
  <2>3. table[k] < n
    BY <1>4, <1>9, <2>2
  <2> QED BY <2>3
<1>10. ASSUME n > 64 PROVE 5 * (s - n) < s
  <2>1. n \in 1 .. SIZE_MAX /\ s # 0
    BY <1>6, <1>7, <1>10, SMT
  <2> QED BY <1>10, <2>1, Rounding
<1> QED BY <1>6, <1>8, <1>9, <1>10

\* The requests at and next to the sizes of the classes are sizes.
LEMMA NearSizes ==
  ASSUME NEW c, c = config, config \in Configs, NEW n \in NearClasses
  PROVE  n \in Nat /\ n \in 0 .. SIZE_MAX
<1>1. c.extended \in BOOLEAN
  BY ConfigFacts, SMT
<1>2. PICK s \in Range(size_classes(c.extended)) \ {0}, d \in {-1, 0, 1} : n = s + d
  BY DEF NearClasses
<1>3. /\ size_classes(c.extended) \in Seq(Nat) /\ Len(size_classes(c.extended)) \in Nat
      /\ Len(size_classes(c.extended)) = LastClass(c.extended) + 1 /\ LastClass(c.extended) \in Nat
  <2>1. size_classes(c.extended) \in Seq(Nat)
    BY <1>1, TableLength
  <2>2. LastClass(c.extended) + 1 = Len(size_classes(c.extended))
    BY <1>1, LastEntry
  <2>3. LastClass(c.extended) \in Nat
    BY SMT DEF LastClass
  <2> QED BY <2>1, <2>2, <2>3
<1>4. PICK i \in 1 .. Len(size_classes(c.extended)) : s = size_classes(c.extended)[i]
  BY <1>2, <1>3 DEF Range
<1>5. PICK k : k = i - 1
  OBVIOUS
<1>6. k + 1 = i /\ k \in 0 .. LastClass(c.extended)
  BY <1>3, <1>4, <1>5
<1>7. s = SizeOfClass(c.extended, k)
  BY <1>4, <1>6 DEF SizeOfClass
<1>8. k # 0
  <2>1. 0 \in 0 .. 8
    OBVIOUS
  <2>2. SizeOfClass(c.extended, 0) = 16 * 0
    BY <1>1, <2>1, Table
  <2>3. s # 0
    BY <1>2
  <2> QED BY <1>7, <2>2, <2>3
<1>9. k \in 1 .. LastClass(c.extended)
  BY <1>3, <1>6, <1>8
<1>10. s \in 16 .. max_slab_size_class(c.extended)
  BY <1>1, <1>7, <1>9, EntryFixed
<1>11. PICK ms : ms = max_slab_size_class(c.extended)
  OBVIOUS
<1>12. ms \in Nat /\ ms + 8 <= SIZE_MAX /\ SIZE_MAX \in Nat
  BY <1>11, ConfigFacts, WordFacts, SMT
<1>13. s \in 16 .. ms
  BY <1>10, <1>11
<1> QED BY <1>2, <1>12, <1>13, SMT

\* The class of a region.
LEMMA LargeExact ==
  ASSUME NEW c \in Configs, NEW n \in 0 .. SIZE_MAX, NEW s, s = get_large_size_class(c.large, n)
  PROVE  IF s = 0
           THEN \/ n = 0 /\ ~c.large
                \/ n > Word - (IF c.large THEN Word \div 8 ELSE PAGE_SIZE)
           ELSE /\ s >= n
                /\ n > max_slab_size_class(c.extended) => s % PAGE_SIZE = 0 /\ 5 * (s - n) < s
<1>1. c.large \in BOOLEAN /\ max_slab_size_class(c.extended) \in Nat
      /\ max_slab_size_class(c.extended) >= 16384
  BY ConfigFacts, SMT
<1>2. c.large \in BOOLEAN
  BY <1>1, SMT
<1>3. /\ s \in 0 .. SIZE_MAX
      /\ s = 0 => \/ n = 0 /\ ~c.large
                  \/ n > Word - (IF c.large THEN Word \div 8 ELSE 4096)
      /\ s # 0 => /\ n <= s /\ (n > 16384 => s % 4096 = 0 /\ 5 * (s - n) < s)
  BY <1>2, LargeRounding, SMT
<1>4. n \in Nat /\ s \in Nat
  BY <1>3, WordFacts, SMT
<1>5. PICK ms : ms = max_slab_size_class(c.extended)
  OBVIOUS
<1>6. n > ms => n > 16384
  BY <1>1, <1>4, <1>5, SMT
<1>7. CASE s = 0
  <2>1. (n = 0 /\ ~c.large) \/ n > Word - (IF c.large THEN Word \div 8 ELSE PAGE_SIZE)
    BY <1>3, <1>7, SMT DEF PAGE_SIZE
  <2> QED BY <1>7, <2>1, Zenon
<1>8. CASE s # 0
  <2>1. s >= n
    BY <1>3, <1>4, <1>8, SMT
  <2>2. n > ms => s % PAGE_SIZE = 0 /\ 5 * (s - n) < s
    BY <1>3, <1>6, <1>8, SMT DEF PAGE_SIZE
  <2> QED BY <1>5, <1>8, <2>1, <2>2, Zenon
<1> QED BY <1>7, <1>8, Zenon

\* For every build and every WordBits the computed class of a slab is the
\* smallest one of the table that fits and wastes less than a fifth beyond 64
\* bytes, no slab has room for another slot, and the class of a region fits and
\* wastes no more, or has overflowed.
THEOREM SizeClassesExact == Spec => []SizeClassExact
<1>1. ASSUME HeapInv PROVE SizeClassExact
  <2>0. config \in Configs
    BY <1>1 DEF HeapInv
  <2>1. PICK table : table = size_classes(config.extended)
    OBVIOUS
  <2>2. MaxSlab = max_slab_size_class(config.extended)
    BY DEF MaxSlab
  <2>3. ASSUME NEW n \in {s \in NearClasses : s <= MaxSlab} \cup {0}
        PROVE  /\ table[get_size_info(n).class + 1] = get_size_info(n).size
               /\ n <= table[get_size_info(n).class + 1]
               /\ get_size_info(n).class > 0 => n > table[get_size_info(n).class]
               /\ n > 64 => 5 * (get_size_info(n).size - n) < get_size_info(n).size
    <3>1. n \in Nat /\ n <= max_slab_size_class(config.extended)
      <4>1. CASE n = 0
        BY <2>0, <4>1, ConfigFacts, SMT
      <4>2. CASE n # 0
        <5>1. n \in NearClasses /\ n <= MaxSlab
          BY <4>2
        <5> QED BY <2>0, <2>2, <5>1, NearSizes
      <4> QED BY <4>1, <4>2
    <3>2. PICK k, s : k = get_size_info(n).class /\ s = get_size_info(n).size
      OBVIOUS
    <3>3. /\ table[k + 1] = s /\ n <= table[k + 1] /\ (k > 0 => n > table[k])
          /\ n > 64 => 5 * (s - n) < s
      BY <2>0, <2>1, <3>1, <3>2, ClassExact
    <3> QED BY <3>2, <3>3, Zenon
  <2>4. ASSUME NEW i \in 1 .. Len(table)
        PROVE  get_slab_size(size_class_slots[i], Max({16, table[i]})) - size_class_slots[i] * Max({16, table[i]})
                 \in 0 .. Max({16, table[i]}) - 1
    <3>1. config.extended \in BOOLEAN
      BY <2>0, ConfigFacts, SMT
    <3>a. LastClass(config.extended) \in Nat
      BY SMT DEF LastClass
    <3>2. LastClass(config.extended) + 1 = Len(table) /\ LastClass(config.extended) \in Nat
      BY <2>1, <3>1, <3>a, LastEntry
    <3>3. PICK c : c = i - 1
      OBVIOUS
    <3>4. c \in 0 .. LastClass(config.extended) /\ c + 1 = i
      BY <3>2, <3>3
    <3>5. SizeOfClass(config.extended, c) = table[i] /\ SlotsAt(c) = size_class_slots[i]
      BY <2>1, <3>4 DEF SizeOfClass, SlotsAt
    <3>6. PICK s : s = Max({16, SizeOfClass(config.extended, c)})
      OBVIOUS
    <3>7. get_slab_size(SlotsAt(c), s) - SlotsAt(c) * s \in 0 .. s - 1
      BY <3>1, <3>4, <3>6, SlabOfClass
    <3> QED BY <3>5, <3>6, <3>7, Zenon
  <2>5. ASSUME NEW n \in NearClasses \cup Sizes
        PROVE  IF LargeSize(n) = 0
                 THEN \/ n = 0 /\ ~config.large
                      \/ n > Word - (IF config.large THEN Word \div 8 ELSE PAGE_SIZE)
                 ELSE /\ LargeSize(n) >= n
                      /\ n > MaxSlab => /\ LargeSize(n) % PAGE_SIZE = 0
                                        /\ 5 * (LargeSize(n) - n) < LargeSize(n)
    <3>1. n \in 0 .. SIZE_MAX
      BY <2>0, NearSizes, SizesAssumption
    <3>2. PICK s : s = get_large_size_class(config.large, n)
      OBVIOUS
    <3>3. LargeSize(n) = s
      BY <3>2, Zenon DEF LargeSize
    <3>4. IF s = 0
            THEN \/ n = 0 /\ ~config.large
                 \/ n > Word - (IF config.large THEN Word \div 8 ELSE PAGE_SIZE)
            ELSE /\ s >= n
                 /\ n > max_slab_size_class(config.extended) => s % PAGE_SIZE = 0 /\ 5 * (s - n) < s
      BY <2>0, <3>1, <3>2, LargeExact
    <3> QED BY <2>2, <3>3, <3>4, Zenon
  <2> QED BY <2>1, <2>3, <2>4, <2>5, Zenon DEF SizeClassExact
<1> QED BY HeapInvariant, <1>1, PTL

\* The same of every request, not only of those around the sizes of the classes:
\* get_size_info finds the smallest class of the table that fits, and
\* get_large_size_class a region size that fits unless it overflows.
THEOREM EveryRequestRounded ==
  ASSUME NEW c \in Configs, NEW n \in 0 .. SIZE_MAX,
         NEW table, table = size_classes(c.extended),
         NEW k, k = get_size_info(n).class, NEW s, s = get_size_info(n).size,
         NEW l, l = get_large_size_class(c.large, n)
  PROVE  /\ n <= max_slab_size_class(c.extended) =>
              /\ table[k + 1] = s /\ n <= table[k + 1] /\ (k > 0 => n > table[k])
              /\ n > 64 => 5 * (s - n) < s
         /\ IF l = 0
              THEN \/ n = 0 /\ ~c.large
                   \/ n > Word - (IF c.large THEN Word \div 8 ELSE PAGE_SIZE)
              ELSE /\ l >= n
                   /\ n > max_slab_size_class(c.extended) => l % PAGE_SIZE = 0 /\ 5 * (l - n) < l
<1>1. n \in Nat
  BY WordFacts, SMT
<1>2. n <= max_slab_size_class(c.extended) =>
        /\ table[k + 1] = s /\ n <= table[k + 1] /\ (k > 0 => n > table[k])
        /\ n > 64 => 5 * (s - n) < s
  BY <1>1, ClassExact
<1>3. IF l = 0
        THEN \/ n = 0 /\ ~c.large
             \/ n > Word - (IF c.large THEN Word \div 8 ELSE PAGE_SIZE)
        ELSE /\ l >= n
             /\ n > max_slab_size_class(c.extended) => l % PAGE_SIZE = 0 /\ 5 * (l - n) < l
  BY LargeExact
<1> QED BY <1>2, <1>3, Zenon
=============================================================================

------------------------- MODULE RandomStateProofs -------------------------
(***************************************************************************)
(* Proofs about RandomState, for every number of states and every size     *)
(* that RandomAssumption allows: the range reduction is uniform, and no    *)
(* byte of keystream is returned twice.                                    *)
(***************************************************************************)
EXTENDS RandomState, FiniteSetTheorems, TLAPS

-----------------------------------------------------------------------------
(* The range reduction                                                     *)

\* Products with a natural number are natural numbers, and are ordered.
LEMMA Times ==
  ASSUME NEW a \in Nat, NEW b \in Nat, NEW m \in Nat
  PROVE  /\ a * m \in Nat /\ (a + 1) * m = a * m + m /\ (a + b) * m = a * m + b * m
         /\ a <= b => a * m <= b * m
OBVIOUS

\* Quotient and remainder.
LEMMA Division ==
  ASSUME NEW a \in Nat, NEW m \in Nat \ {0}
  PROVE  /\ a \div m \in Nat /\ a % m \in 0 .. m - 1
         /\ a = (a \div m) * m + (a % m)
OBVIOUS

\* A number without a remainder is a multiple.
LEMMA Multiple ==
  ASSUME NEW a \in Nat, NEW m \in Nat \ {0}, a % m = 0
  PROVE  \E q \in Nat : a = q * m
<1>1. a \div m \in Nat /\ a = (a \div m) * m + (a % m) /\ (a \div m) * m \in Nat
  BY Division, Times
<1>2. a = (a \div m) * m
  BY <1>1
<1> QED BY <1>1, <1>2

\* Quotient and remainder are the only ones.
LEMMA DivisionUnique ==
  ASSUME NEW a \in Nat, NEW m \in Nat \ {0}, NEW q \in Nat, NEW r \in 0 .. m - 1, a = q * m + r
  PROVE  a \div m = q /\ a % m = r
OBVIOUS

\* The threshold is the remainder of the number of values.
LEMMA ThresholdIs ==
  ASSUME NEW b \in 1 .. Values - 1
  PROVE  /\ Values \in Nat \ {0} /\ Threshold(b) \in 0 .. b - 1
         /\ Values = (Values \div b) * b + Threshold(b) /\ Values \div b \in Nat
<1>1. Values \in Nat \ {0}
  BY WidthAssumption DEF Values
<1> HIDE DEF Values
<1>2. PICK q \in Nat, t \in 0 .. b - 1 : q = Values \div b /\ Values = q * b + t
  BY <1>1, Division
<1>3. q # 0
  <2>1. q = 0 => q * b = 0
    OBVIOUS
  <2> QED BY <1>1, <1>2, <2>1
<1>4. q - 1 \in Nat /\ q = (q - 1) + 1
  BY <1>3
<1>5. q * b = (q - 1) * b + b
  BY <1>4, Times
<1>6. Values - b = (q - 1) * b + t /\ Values - b \in Nat
  BY <1>1, <1>2, <1>5
<1>7. Threshold(b) = t
  <2>1. b \in Nat \ {0}
    BY <1>1
  <2>2. (Values - b) % b = t
    BY <1>4, <1>6, <2>1, DivisionUnique
  <2> QED BY <2>2 DEF Threshold
<1> QED BY <1>1, <1>2, <1>7

\* The accepted values that are reduced to v are those whose product with the
\* bound lies in one piece of the numbers.
LEMMA HitsAre ==
  ASSUME NEW b \in 1 .. Values - 1, NEW v \in 0 .. b - 1, NEW r \in 0 .. Values - 1
  PROVE  /\ ~Rejected(r, b) /\ Reduced(r, b) = v
              <=> v * Values + Threshold(b) <= r * b /\ r * b < v * Values + Values
<1>1. /\ Values \in Nat \ {0} /\ Threshold(b) \in 0 .. b - 1 /\ r * b \in Nat /\ v * Values \in Nat
  BY ThresholdIs, Times
<1> HIDE DEF Values
<1>2. PICK q \in Nat, l \in 0 .. Values - 1 :
        q = (r * b) \div Values /\ l = (r * b) % Values /\ r * b = q * Values + l
  BY <1>1, Division
<1>3. Rejected(r, b) <=> l < Threshold(b)
  BY <1>1, <1>2 DEF Rejected, Leftover
<1>4. Reduced(r, b) = q
  BY <1>2 DEF Reduced
<1>5. CASE q = v
  <2>1. q * Values = v * Values
    BY <1>5
  <2> QED BY <1>1, <1>2, <1>3, <1>4, <1>5, <2>1
<1>6. CASE q < v
  <2>1. (q + 1) * Values <= v * Values /\ (q + 1) * Values = q * Values + Values
    BY <1>1, <1>6, Times
  <2> QED BY <1>1, <1>2, <1>4, <1>6, <2>1
<1>7. CASE v < q
  <2>1. (v + 1) * Values <= q * Values /\ (v + 1) * Values = v * Values + Values
    BY <1>1, <1>7, Times
  <2> QED BY <1>1, <1>2, <1>4, <1>7, <2>1
<1> QED BY <1>2, <1>5, <1>6, <1>7

\* Those are as many numbers in a row as the bound fits into the values.
LEMMA HitsInARow ==
  ASSUME NEW b \in 1 .. Values - 1, NEW v \in 0 .. b - 1
  PROVE  \E first \in Nat :
           {r \in 0 .. Values - 1 : ~Rejected(r, b) /\ Reduced(r, b) = v}
             = first .. first + Values \div b - 1
<1> DEFINE t == Threshold(b)
           q == Values \div b
<1>1. /\ Values \in Nat \ {0} /\ t \in 0 .. b - 1 /\ q \in Nat /\ Values = q * b + t
      /\ v * Values \in Nat /\ q * b \in Nat
  BY ThresholdIs, Times
<1> HIDE DEF Values, t, q
<1>2. PICK first \in Nat, e \in 0 .. b - 1 : first * b = v * Values + t + e
  <2>1. PICK d \in Nat, c \in 0 .. b - 1 : v * Values + t = d * b + c
    <3>1. v * Values + t \in Nat /\ b \in Nat \ {0}
      BY <1>1
    <3> QED BY <3>1, Division
  <2>2. CASE c = 0
    <3>1. d * b = v * Values + t + 0 /\ 0 \in 0 .. b - 1
      BY <1>1, <2>1, <2>2
    <3> QED BY <3>1
  <2>3. CASE c # 0
    <3>1. (d + 1) * b = v * Values + t + (b - c) /\ b - c \in 0 .. b - 1 /\ d + 1 \in Nat
      BY <1>1, <2>1, <2>3, Times
    <3> QED BY <3>1
  <2> QED BY <2>2, <2>3
<1>3. ASSUME NEW r \in Nat
      PROVE  /\ r * b \in Nat
             /\ r < first => r * b < v * Values + t
             /\ first <= r => v * Values + t <= r * b
             /\ r < first + q => r * b < v * Values + Values
             /\ first + q <= r => v * Values + Values <= r * b
  <2>1. (first + q) * b = v * Values + Values + e
    BY <1>1, <1>2, Times
  <2>2. r * b \in Nat /\ (r + 1) * b = r * b + b
    BY Times
  <2>3. r < first => (r + 1) * b <= first * b
    BY Times
  <2>4. first <= r => first * b <= r * b
    BY Times
  <2>5. r < first + q => (r + 1) * b <= (first + q) * b
    BY <1>1, Times
  <2>6. first + q <= r => (first + q) * b <= r * b
    BY <1>1, Times
  <2> QED BY <1>1, <1>2, <2>1, <2>2, <2>3, <2>4, <2>5, <2>6
<1>4. ASSUME NEW r \in Nat, r * b < v * Values + Values
      PROVE  r \in 0 .. Values - 1
  <2>1. (v + 1) * Values = v * Values + Values /\ (v + 1) * Values <= b * Values
    BY <1>1, Times
  <2>2. Values <= r => Values * b <= r * b
    BY <1>1, Times
  <2>3. Values * b = b * Values
    BY <1>1
  <2>4. r * b \in Nat /\ b * Values \in Nat
    BY <1>1, Times
  <2> QED BY <1>1, <1>4, <2>1, <2>2, <2>3, <2>4
<1>5. ASSUME NEW r \in 0 .. Values - 1
      PROVE  ~Rejected(r, b) /\ Reduced(r, b) = v
               <=> v * Values + t <= r * b /\ r * b < v * Values + Values
  BY HitsAre DEF t
<1>6. ASSUME NEW r
      PROVE  r \in {x \in 0 .. Values - 1 : ~Rejected(x, b) /\ Reduced(x, b) = v}
               <=> r \in first .. first + q - 1
  <2>1. CASE r \in 0 .. Values - 1
    <3>1. r * b \in Nat /\ (first <= r /\ r < first + q <=> ~Rejected(r, b) /\ Reduced(r, b) = v)
      BY <1>1, <1>2, <1>3, <1>5, <2>1
    <3> QED BY <1>1, <2>1, <3>1
  <2>2. CASE r \notin 0 .. Values - 1
    <3>1. r \notin first .. first + q - 1
      BY <1>1, <1>3, <1>4, <2>2
    <3> QED BY <2>2, <3>1
  <2> QED BY <2>1, <2>2
<1> QED BY <1>6 DEF q

\* get_random_u16_uniform, _u32_uniform and _u64_uniform are uniform: for a word
\* of any width and any bound, every result below the bound is hit by the same
\* number of accepted values, and a bound of 0 gives 0.
THEOREM RangesUniform == Spec => []UniformExact
<1>1. Values \in Nat \ {0}
  BY WidthAssumption DEF Values
<1>2. ASSUME NEW b \in 0 .. Values - 1, b = 0
      PROVE  \A r \in 0 .. Values - 1 : ~Rejected(r, b) /\ Reduced(r, b) = 0
  <2> SUFFICES ASSUME NEW r \in 0 .. Values - 1 PROVE ~Rejected(r, b) /\ Reduced(r, b) = 0
    OBVIOUS
  <2>1. r * b = 0
    BY <1>2
  <2>2. Leftover(r, b) = 0 /\ Reduced(r, b) = 0
    BY <1>1, <2>1 DEF Leftover, Reduced
  <2> QED BY <1>2, <2>2 DEF Rejected
<1>3. ASSUME NEW b \in 0 .. Values - 1, b # 0, NEW v \in 0 .. b - 1
      PROVE  Cardinality({r \in {x \in 0 .. Values - 1 : ~Rejected(x, b)} : Reduced(r, b) = v})
               = Values \div b
  <2> DEFINE hits == {r \in 0 .. Values - 1 : ~Rejected(r, b) /\ Reduced(r, b) = v}
  <2>1. b \in 1 .. Values - 1
    BY <1>1, <1>3
  <2>2. PICK first \in Nat : hits = first .. first + Values \div b - 1
    BY <2>1, HitsInARow
  <2>3. Values \div b \in Nat
    BY <2>1, ThresholdIs
  <2>4. Cardinality(first .. first + Values \div b - 1) = Values \div b
    <3> DEFINE last == first + Values \div b - 1
    <3>1. first \in Int /\ last \in Int /\ last - first + 1 = Values \div b
      BY <2>3
    <3>2. Cardinality(first .. last) = IF first > last THEN 0 ELSE last - first + 1
      BY <3>1, FS_Interval
    <3> QED BY <2>3, <3>1, <3>2
  <2>5. {r \in {x \in 0 .. Values - 1 : ~Rejected(x, b)} : Reduced(r, b) = v} = hits
    OBVIOUS
  <2> QED BY <2>2, <2>4, <2>5
<1>4. UniformExact
  <2> SUFFICES ASSUME NEW b \in 0 .. Values - 1
               PROVE  LET accepted == {r \in 0 .. Values - 1 : ~Rejected(r, b)}
                          hits(v) == Cardinality({r \in accepted : Reduced(r, b) = v})
                      IN  IF b = 0 THEN accepted # {} /\ \A r \in accepted : Reduced(r, b) = 0
                          ELSE \A v \in 0 .. b - 1 : hits(v) = Values \div b
    BY DEF UniformExact
  <2>1. CASE b = 0
    <3>1. 0 \in {r \in 0 .. Values - 1 : ~Rejected(r, b)}
      BY <1>1, <1>2, <2>1
    <3> QED BY <1>2, <2>1, <3>1
  <2>2. CASE b # 0
    BY <1>3, <2>2
  <2> QED BY <2>1, <2>2
<1> QED BY <1>4, PTL

-----------------------------------------------------------------------------
(* The inductive invariant of the random number states                     *)

\* The first byte of its keystream that a state has not returned.
Reach(r) == r.reseed + r.index - CacheSize

\* A number of bytes that fills caches.
Caches(n) == n % CacheSize = 0

\* A seeded state: the key has served the bytes that reseed counts, and what is
\* left of the cache are the last of them.
Good(r) ==
  /\ r \in [index : 0 .. CacheSize, reseed : 0 .. ReseedSize, key : Seq(Nat), block : Nat,
            cacheKey : Seq(Nat), base : Nat]
  /\ Caches(r.reseed) /\ NextByte(r) = r.reseed
  /\ r.reseed = 0 => r.index = CacheSize
  /\ r.index < CacheSize => r.cacheKey = r.key /\ r.base = r.reseed - CacheSize

\* A key from getrandom, or one drawn from such a key.
KnownBy(k, n) == k \in Seq(Nat) /\ Len(k) \in {1, 2} /\ k[1] \in 1 .. n
Known(k) == KnownBy(k, keys)

StatesGood ==
  /\ keys \in Nat /\ DOMAIN rng = 0 .. NStates
  /\ \A s \in 0 .. NStates : rng[s] # Unset => Good(rng[s]) /\ Known(rng[s].key)
  /\ rng[0] # Unset => Len(rng[0].key) = 1

PhaseRight ==
  /\ phase \in {"start", "gap", "seed", "ready"}
  /\ phase = "start" => \A s \in 0 .. NStates : rng[s] = Unset
  /\ phase # "start" => rng[0] # Unset
  /\ phase = "ready" => \A s \in State : rng[s] # Unset
  /\ phase # "ready" => foreign = {}

\* What a state returned is behind what it will return.
SpentBehind ==
  /\ DOMAIN spent = 0 .. NStates
  /\ \A s \in 0 .. NStates :
       /\ spent[s][1] = << >> \/ Known(spent[s][1])
       /\ spent[s][2] \in Nat
       /\ rng[s] = Unset => spent[s][1] = << >>
       /\ rng[s] # Unset /\ spent[s][1] = rng[s].key => spent[s][2] < Reach(rng[s])

\* No two states have the same key; a key drawn from the key of the
\* initialisation rng was drawn from bytes that this rng has returned.
KeysApart ==
  /\ \A s, u \in 0 .. NStates :
       s # u /\ rng[s] # Unset /\ rng[u] # Unset => rng[s].key # rng[u].key
  /\ \A s \in State :
       rng[s] # Unset /\ Len(rng[s].key) = 2 /\ rng[s].key[1] = rng[0].key[1] =>
         rng[s].key[2] < Reach(rng[0])
  /\ \A k \in foreign : Known(k)
  /\ \A s \in State : rng[s].key \notin foreign

RandomInv == StatesGood /\ PhaseRight /\ SpentBehind /\ KeysApart

-----------------------------------------------------------------------------
(* What a draw returns and leaves behind                                   *)

\* The bytes b, drawn from the state r, are new bytes of its key or of the key
\* n from getrandom, in order, and t is the state that goes on behind them.
Drawn(r, t, b, n) ==
  /\ Good(t) /\ (t.key = r.key => Reach(r) <= Reach(t))
  /\ t.key = r.key \/ t.key = <<n>>
  /\ Len(b) \in Nat \ {0} /\ DOMAIN b = 1 .. Len(b) /\ b[Len(b)][1] = t.key
  /\ \A i \in 1 .. Len(b) :
       /\ b[i][1] \in {r.key, t.key} /\ b[i][2] \in 0 .. ReseedSize - 1
       /\ b[i][1] = r.key => Reach(r) <= b[i][2]
       /\ b[i][1] = t.key => b[i][2] < Reach(t)
       /\ i # 1 => After(b[i], b[i - 1])

\* The sizes that the proofs use.
LEMMA CacheFacts ==
  /\ CacheSize \in Nat \ {0} /\ ReseedSize \in Nat \ {0} /\ BlockSize \in Nat \ {0}
  /\ BlocksOf(CacheSize) \in Nat /\ BlocksOf(CacheSize) * BlockSize = CacheSize
<1>1. /\ CacheSize \in Nat \ {0} /\ ReseedSize \in Nat \ {0} /\ BlockSize \in Nat \ {0}
      /\ CacheSize % BlockSize = 0
  BY RandomAssumption
<1>2. PICK q \in Nat : CacheSize = q * BlockSize
  BY <1>1, Multiple
<1>3. CacheSize + BlockSize - 1 = q * BlockSize + (BlockSize - 1) /\ BlockSize - 1 \in 0 .. BlockSize - 1
  BY <1>1, <1>2
<1>4. (CacheSize + BlockSize - 1) \div BlockSize = q
  BY <1>1, <1>3, DivisionUnique
<1> QED BY <1>1, <1>2, <1>4 DEF BlocksOf

\* How far a state has come is a number.
LEMMA ReachTyped ==
  ASSUME NEW r, Good(r)
  PROVE  Reach(r) \in Int
BY CacheFacts DEF Good, Reach

\* Multiples of the cache are a whole cache apart.
LEMMA CachesApart ==
  ASSUME NEW a \in Nat, NEW b \in Nat, Caches(a), Caches(b)
  PROVE  Caches(a + CacheSize) /\ (a < b => a + CacheSize <= b)
<1>1. CacheSize \in Nat \ {0}
  BY CacheFacts
<1>2. PICK p \in Nat : a = p * CacheSize
  BY <1>1, Multiple DEF Caches
<1>3. PICK q \in Nat : b = q * CacheSize
  BY <1>1, Multiple DEF Caches
<1>4. (p + 1) * CacheSize = p * CacheSize + CacheSize /\ p * CacheSize \in Nat
  BY <1>1, Times
<1>5. Caches(a + CacheSize)
  <2>1. a + CacheSize = (p + 1) * CacheSize + 0
    BY <1>1, <1>2, <1>4
  <2>2. a + CacheSize \in Nat /\ p + 1 \in Nat /\ 0 \in 0 .. CacheSize - 1
    BY <1>1
  <2> QED BY <1>1, <2>1, <2>2, DivisionUnique DEF Caches
<1>6. ASSUME a < b PROVE p < q
  <2>1. q <= p => q * CacheSize <= p * CacheSize
    BY <1>1, Times
  <2> QED BY <1>2, <1>3, <1>6, <2>1
<1>7. ASSUME a < b PROVE a + CacheSize <= b
  <2>1. (p + 1) * CacheSize <= q * CacheSize
    BY <1>1, <1>6, <1>7, Times
  <2> QED BY <1>1, <1>2, <1>3, <1>4, <2>1
<1> QED BY <1>5, <1>7

\* A cache of keystream moves the next byte by its size.
LEMMA NextByteMoves ==
  ASSUME NEW r, NEW t, r.block \in Nat, t.block = r.block + BlocksOf(CacheSize)
  PROVE  NextByte(r) \in Nat /\ NextByte(t) = NextByte(r) + CacheSize /\ t.block \in Nat
<1>1. /\ BlockSize \in Nat /\ BlocksOf(CacheSize) \in Nat
      /\ BlocksOf(CacheSize) * BlockSize = CacheSize
  BY CacheFacts
<1>2. /\ (r.block + BlocksOf(CacheSize)) * BlockSize
           = r.block * BlockSize + BlocksOf(CacheSize) * BlockSize
      /\ r.block * BlockSize \in Nat
  BY <1>1, Times
<1>3. t.block \in Nat
  BY <1>1
<1> QED BY <1>1, <1>2, <1>3 DEF NextByte

\* A refill goes on behind the old cache, or with the key from getrandom.
LEMMA RefillIs ==
  ASSUME NEW r, Good(r), NEW n \in Nat
  PROVE  LET t == refill(r, n)
         IN  /\ Good(t) /\ t.index = 0 /\ t.cacheKey = t.key
             /\ t.base = t.reseed - CacheSize /\ CacheSize <= t.reseed
             /\ \/ t.key = r.key /\ t.reseed = r.reseed + CacheSize
                \/ t.key = <<n>> /\ t.reseed = CacheSize
<1> DEFINE Rec == [index : 0 .. CacheSize, reseed : 0 .. ReseedSize, key : Seq(Nat), block : Nat,
                   cacheKey : Seq(Nat), base : Nat]
           fresh == IF ReseedDue(r) THEN random_state_init(r, n) ELSE r
           k == BlocksOf(CacheSize)
           t == refill(r, n)
<1>1. CacheSize \in Nat \ {0} /\ ReseedSize \in Nat \ {0}
  BY CacheFacts
<1>2. r \in Rec /\ Caches(r.reseed) /\ NextByte(r) = r.reseed
  BY DEF Good
<1>3. <<n>> \in Seq(Nat)
  OBVIOUS
<1>4. /\ fresh \in Rec /\ fresh.reseed < ReseedSize
      /\ Caches(fresh.reseed) /\ NextByte(fresh) = fresh.reseed
      /\ \/ fresh.key = r.key /\ fresh.reseed = r.reseed
         \/ fresh.key = <<n>> /\ fresh.reseed = 0
  <2>1. CASE ReseedDue(r)
    <3>1. fresh = [index |-> CacheSize, reseed |-> 0, key |-> <<n>>, block |-> 0,
                   cacheKey |-> r.cacheKey, base |-> r.base]
      BY <1>2, <2>1 DEF random_state_init, Seeded
    <3> HIDE DEF fresh
    <3>2. fresh \in Rec /\ fresh.key = <<n>> /\ fresh.reseed = 0 /\ fresh.block = 0
      BY <1>1, <1>2, <1>3, <3>1
    <3>3. Caches(0)
      BY <1>1 DEF Caches
    <3>4. NextByte(fresh) = 0
      BY <3>2, CacheFacts DEF NextByte
    <3> QED BY <1>1, <3>2, <3>3, <3>4
  <2>2. CASE ~ReseedDue(r)
    <3>1. fresh = r
      BY <2>2
    <3> HIDE DEF fresh
    <3> QED BY <1>1, <1>2, <2>2, <3>1 DEF ReseedDue
  <2> QED BY <2>1, <2>2
<1>5. t = [index |-> 0, reseed |-> fresh.reseed + CacheSize, key |-> fresh.key,
           block |-> fresh.block + k, cacheKey |-> fresh.key, base |-> NextByte(fresh)]
  <2>1. t = [[[fresh EXCEPT !.block = @ + k] EXCEPT !.cacheKey = fresh.key, !.base = NextByte(fresh)]
               EXCEPT !.index = 0, !.reseed = fresh.reseed + CacheSize]
    BY DEF refill, Keystream, Advanced
  <2> HIDE DEF fresh, k, t
  <2> QED BY <1>4, <2>1
<1> HIDE DEF fresh, k, t
<1>6. /\ t.index = 0 /\ t.reseed = fresh.reseed + CacheSize /\ t.key = fresh.key
      /\ t.block = fresh.block + k /\ t.cacheKey = fresh.key /\ t.base = NextByte(fresh)
  BY <1>4, <1>5
<1>7. NextByte(t) = NextByte(fresh) + CacheSize /\ t.block \in Nat
  BY <1>4, <1>6, NextByteMoves DEF k
<1>8. Caches(fresh.reseed + CacheSize) /\ fresh.reseed + CacheSize <= ReseedSize
  <2>1. Caches(ReseedSize) /\ fresh.reseed \in Nat
    BY <1>4, RandomAssumption DEF Caches
  <2> QED BY <1>1, <1>4, <2>1, CachesApart
<1>9. Good(t)
  <2>1. t \in Rec
    <3>1. k \in Nat
      BY CacheFacts DEF k
    <3> QED BY <1>1, <1>4, <1>5, <1>8, <3>1
  <2> QED BY <1>1, <1>4, <1>6, <1>7, <1>8, <2>1, SMTT(30) DEF Good
<1> QED BY <1>1, <1>4, <1>6, <1>9 DEF t

\* What is served from the cache is the next piece of the keystream.
LEMMA ServedIs ==
  ASSUME NEW r, Good(r), NEW size \in Nat \ {0}, size <= CacheSize - r.index
  PROVE  LET t == Skip(r, size)
             b == Served(r, size)
         IN  /\ Good(t) /\ t.key = r.key /\ t.reseed = r.reseed /\ t.index = r.index + size
             /\ b \in Seq(Seq(Nat) \X Nat) /\ Len(b) = size /\ Reach(r) \in Nat
             /\ Reach(t) = Reach(r) + size /\ Reach(t) <= ReseedSize
             /\ \A i \in 1 .. size : b[i][1] = r.key /\ b[i][2] = Reach(r) + i - 1
<1> DEFINE t == Skip(r, size)
           b == Served(r, size)
<1>1. CacheSize \in Nat \ {0} /\ ReseedSize \in Nat \ {0}
  BY CacheFacts
<1>2. /\ r \in [index : 0 .. CacheSize, reseed : 0 .. ReseedSize, key : Seq(Nat), block : Nat,
                cacheKey : Seq(Nat), base : Nat]
      /\ Caches(r.reseed) /\ NextByte(r) = r.reseed
      /\ r.index < CacheSize /\ r.cacheKey = r.key /\ r.base = r.reseed - CacheSize /\ r.reseed # 0
  BY <1>1 DEF Good
<1>3. t = [index |-> r.index + size, reseed |-> r.reseed, key |-> r.key, block |-> r.block,
           cacheKey |-> r.cacheKey, base |-> r.base]
  <2>1. t = [r EXCEPT !.index = r.index + size]
    BY DEF Skip
  <2> HIDE DEF t
  <2> QED BY <1>2, <2>1
<1> HIDE DEF t
<1>4. NextByte(t) = NextByte(r)
  BY <1>3 DEF NextByte
<1>5. Good(t)
  BY <1>1, <1>2, <1>3, <1>4 DEF Good
<1>6. /\ Reach(r) = r.base + r.index /\ Reach(r) \in Nat /\ Reach(t) = Reach(r) + size
      /\ Reach(t) <= ReseedSize
  BY <1>1, <1>2, <1>3, SMTT(30) DEF Reach
<1>7. b = [i \in 1 .. size |-> <<r.key, r.base + r.index + i - 1>>]
  BY <1>2 DEF Served
<1> HIDE DEF b
<1>8. \A i \in 1 .. size : r.base + r.index + i - 1 \in Nat /\ r.base + r.index + i - 1 = Reach(r) + i - 1
  BY <1>1, <1>2, <1>6, SMTT(30)
<1>9. b \in [1 .. size -> Seq(Nat) \X Nat] /\ \A i \in 1 .. size : b[i][1] = r.key /\ b[i][2] = Reach(r) + i - 1
  BY <1>2, <1>7, <1>8
<1>10. b \in Seq(Seq(Nat) \X Nat) /\ Len(b) = size
  BY <1>9
<1> QED BY <1>3, <1>5, <1>6, <1>9, <1>10 DEF t, b

\* Bytes from the cache of a state that is r, or follows from r by a refill.
LEMMA PieceIs ==
  ASSUME NEW r, Good(r), NEW n \in Nat, r.key # <<n>>, NEW full, Good(full),
         NEW size \in Nat \ {0}, size <= CacheSize - full.index,
         \/ full.key = r.key /\ Reach(r) <= Reach(full)
         \/ full.key = <<n>>
  PROVE  Drawn(r, Skip(full, size), Served(full, size), n)
<1> DEFINE t == Skip(full, size)
           b == Served(full, size)
<1>1. /\ CacheSize \in Nat \ {0} /\ ReseedSize \in Nat \ {0}
      /\ r.index \in 0 .. CacheSize /\ r.reseed \in Nat
  BY CacheFacts DEF Good
<1>2. /\ Good(t) /\ t.key = full.key
      /\ b \in Seq(Seq(Nat) \X Nat) /\ Len(b) = size /\ Reach(full) \in Nat
      /\ Reach(t) = Reach(full) + size /\ Reach(t) <= ReseedSize
      /\ \A i \in 1 .. size : b[i][1] = full.key /\ b[i][2] = Reach(full) + i - 1
  BY ServedIs
<1> HIDE DEF t, b
<1>3. Reach(r) \in Int
  BY <1>1 DEF Reach
<1>4. ASSUME NEW i \in 1 .. size, i # 1 PROVE After(b[i], b[i - 1])
  BY <1>1, <1>2, <1>4 DEF After
<1>5. DOMAIN b = 1 .. size
  BY <1>2
<1>6. /\ t.key = r.key => Reach(r) <= Reach(t)
      /\ t.key = r.key \/ t.key = <<n>>
      /\ b[Len(b)][1] = t.key
  BY <1>1, <1>2, <1>3, SMTT(30)
<1>7. ASSUME NEW i \in 1 .. size
      PROVE  /\ b[i][1] = t.key /\ b[i][2] \in 0 .. ReseedSize - 1
             /\ b[i][1] = r.key => Reach(r) <= b[i][2]
             /\ b[i][2] < Reach(t)
  <2>1. b[i][1] = full.key /\ b[i][2] = Reach(full) + i - 1
    BY <1>2
  <2>2. /\ Reach(full) \in Nat /\ Reach(t) = Reach(full) + size /\ Reach(t) <= ReseedSize
        /\ t.key = full.key /\ (full.key = r.key => Reach(r) <= Reach(full))
    BY <1>2
  <2>3. Reach(full) + i - 1 \in 0 .. ReseedSize - 1 /\ Reach(full) + i - 1 < Reach(t)
    BY <1>1, <2>2
  <2> QED BY <1>1, <1>3, <2>1, <2>2, <2>3
<1>8. Drawn(r, t, b, n)
  BY <1>2, <1>4, <1>5, <1>6, <1>7 DEF Drawn
<1> QED BY <1>8 DEF t, b

\* get_random_u16, _u32 and _u64
LEMMA ValueIs ==
  ASSUME NEW r, Good(r), NEW size \in 1 .. CacheSize, NEW n \in Nat, r.key # <<n>>
  PROVE  LET result == get_random_value(r, size, n)
         IN  Drawn(r, result.state, result.bytes, n)
<1> DEFINE full == IF ServesValue(r, size) THEN r ELSE refill(r, n)
<1>1. /\ CacheSize \in Nat \ {0} /\ ReseedSize \in Nat \ {0}
      /\ r.index \in 0 .. CacheSize /\ r.reseed \in Nat
  BY CacheFacts DEF Good
<1>2. /\ Good(full) /\ size <= CacheSize - full.index
      /\ \/ full.key = r.key /\ Reach(r) <= Reach(full)
         \/ full.key = <<n>>
  <2>1. CASE ServesValue(r, size)
    <3>1. full = r
      BY <2>1
    <3> HIDE DEF full
    <3> QED BY <1>1, <2>1, <3>1 DEF ServesValue, Reach
  <2>2. CASE ~ServesValue(r, size)
    <3>1. full = refill(r, n)
      BY <2>2
    <3> HIDE DEF full
    <3>2. /\ Good(full) /\ full.index = 0
          /\ \/ full.key = r.key /\ full.reseed = r.reseed + CacheSize
             \/ full.key = <<n>>
      BY <3>1, RefillIs
    <3> QED BY <1>1, <3>2 DEF Reach
  <2> QED BY <2>1, <2>2
<1> HIDE DEF full
<1>3. Drawn(r, Skip(full, size), Served(full, size), n)
  BY <1>1, <1>2, PieceIs
<1> QED BY <1>3 DEF get_random_value, full

\* Two pieces one after the other.
LEMMA Joined ==
  ASSUME NEW S, NEW a \in Seq(S), NEW d \in Seq(S)
  PROVE  /\ Len(a \o d) = Len(a) + Len(d) /\ DOMAIN (a \o d) = 1 .. Len(a) + Len(d)
         /\ \A i \in 1 .. Len(a) : (a \o d)[i] = a[i]
         /\ \A i \in Len(a) + 1 .. Len(a) + Len(d) : (a \o d)[i] = d[i - Len(a)]
<1>1. Len(a) \in Nat /\ Len(d) \in Nat
  OBVIOUS
<1>2. Len(a \o d) = Len(a) + Len(d) /\ DOMAIN (a \o d) = 1 .. Len(a) + Len(d)
  BY <1>1
<1>3. \A i \in 1 .. Len(a) + Len(d) : (a \o d)[i] = IF i <= Len(a) THEN a[i] ELSE d[i - Len(a)]
  BY <1>1
<1> QED BY <1>1, <1>2, <1>3

\* get_random_bytes, for the sizes that take the cache
LEMMA BytesIs ==
  ASSUME NEW r, Good(r), NEW size \in 1 .. CacheSize \div 2, NEW n \in Nat, r.key # <<n>>
  PROVE  LET result == get_random_bytes(r, size, n)
         IN  Drawn(r, result.state, result.bytes, n)
<1> DEFINE start == IF r.index = CacheSize THEN refill(r, n) ELSE r
           copy == Min({size, CacheSize - start.index})
           rest == refill(Skip(start, copy), n)
           result == get_random_bytes(r, size, n)
<1>1. /\ CacheSize \in Nat \ {0} /\ ReseedSize \in Nat \ {0}
      /\ r.index \in 0 .. CacheSize /\ r.reseed \in Nat
      /\ size \in Nat \ {0} /\ size <= CacheSize /\ ~(size > CacheSize \div 2)
  BY CacheFacts DEF Good
<1>2. /\ Good(start) /\ start.index < CacheSize
      /\ \/ start = r
         \/ start.index = 0 /\ \/ start.key = r.key /\ Reach(r) <= Reach(start)
                               \/ start.key = <<n>>
  <2>1. CASE r.index = CacheSize
    <3>1. start = refill(r, n)
      BY <2>1
    <3> HIDE DEF start
    <3>2. /\ Good(start) /\ start.index = 0
          /\ \/ start.key = r.key /\ start.reseed = r.reseed + CacheSize
             \/ start.key = <<n>>
      BY <3>1, RefillIs
    <3> QED BY <1>1, <3>2 DEF Reach
  <2>2. CASE r.index # CacheSize
    BY <1>1, <2>2
  <2> QED BY <2>1, <2>2
<1>3. /\ result.bytes = IF copy = size THEN Served(start, size)
                        ELSE Served(start, copy) \o Served(rest, size - copy)
      /\ result.state = IF copy = size THEN Skip(start, size) ELSE Skip(rest, size - copy)
  BY <1>1 DEF get_random_bytes
<1> HIDE DEF start, rest, result
<1>4. start.index \in 0 .. CacheSize - 1
  BY <1>1, <1>2 DEF Good
<1>5. /\ copy \in Nat \ {0} /\ copy <= size /\ copy <= CacheSize - start.index
      /\ copy = size \/ copy = CacheSize - start.index
  BY <1>1, <1>4 DEF Min
<1> HIDE DEF copy
<1>6. CASE copy = size
  <2>1. Drawn(r, Skip(start, size), Served(start, size), n)
    <3>1. \/ start.key = r.key /\ Reach(r) <= Reach(start)
          \/ start.key = <<n>>
      BY <1>1, <1>2 DEF Reach
    <3> QED BY <1>1, <1>2, <1>5, <1>6, <3>1, PieceIs
  <2> QED BY <1>3, <1>6, <2>1 DEF result
<1>7. CASE copy # size
  <2> DEFINE u == Skip(start, copy)
             a == Served(start, copy)
             c == size - copy
             t == Skip(rest, c)
             d == Served(rest, c)
             b == a \o d
  <2>1. start = r /\ copy = CacheSize - r.index
    BY <1>1, <1>2, <1>4, <1>5, <1>7
  <2>2. /\ Good(u) /\ u.key = r.key /\ u.index = CacheSize /\ u.reseed = r.reseed
        /\ a \in Seq(Seq(Nat) \X Nat) /\ Len(a) = copy /\ Reach(r) \in Nat
        /\ Reach(u) = Reach(r) + copy /\ Reach(u) <= ReseedSize
        /\ \A i \in 1 .. copy : a[i][1] = r.key /\ a[i][2] = Reach(r) + i - 1
    <3>1. u = Skip(r, copy) /\ a = Served(r, copy)
      BY <2>1
    <3>2. copy \in Nat \ {0} /\ copy <= CacheSize - r.index /\ r.index + copy = CacheSize
      BY <1>1, <1>5, <2>1
    <3> HIDE DEF u, a
    <3> QED BY <3>1, <3>2, ServedIs
  <2>3. /\ Good(rest) /\ rest.index = 0
        /\ \/ rest.key = r.key /\ rest.reseed = r.reseed + CacheSize
           \/ rest.key = <<n>>
    BY <2>2, RefillIs DEF rest
  <2>4. c \in Nat \ {0} /\ c <= CacheSize - rest.index /\ copy + c = size
    BY <1>1, <1>5, <1>7, <2>3
  <2> HIDE DEF u, c
  <2>5. /\ Good(t) /\ t.key = rest.key
        /\ d \in Seq(Seq(Nat) \X Nat) /\ Len(d) = c /\ Reach(rest) \in Nat
        /\ Reach(t) = Reach(rest) + c /\ Reach(t) <= ReseedSize
        /\ \A i \in 1 .. c : d[i][1] = rest.key /\ d[i][2] = Reach(rest) + i - 1
    BY <2>3, <2>4, ServedIs
  <2> HIDE DEF a, d, t
  <2>6. rest.key = r.key => Reach(rest) = Reach(u)
    <3>1. u.index = CacheSize /\ u.reseed = r.reseed
      BY <2>2
    <3>2. ASSUME rest.key = r.key PROVE rest.reseed = r.reseed + CacheSize /\ rest.index = 0
      BY <2>3, <3>2
    <3> QED BY <1>1, <3>1, <3>2 DEF Reach
  <2>7. /\ Len(b) = size /\ DOMAIN b = 1 .. size
        /\ \A i \in 1 .. copy : b[i] = a[i]
        /\ \A i \in copy + 1 .. size : b[i] = d[i - copy]
    <3>1. a \in Seq(Seq(Nat) \X Nat) /\ Len(a) = copy /\ d \in Seq(Seq(Nat) \X Nat) /\ Len(d) = c
      BY <2>2, <2>5
    <3>2. /\ Len(b) = Len(a) + Len(d) /\ DOMAIN b = 1 .. Len(a) + Len(d)
          /\ \A i \in 1 .. Len(a) : b[i] = a[i]
          /\ \A i \in Len(a) + 1 .. Len(a) + Len(d) : b[i] = d[i - Len(a)]
      BY <3>1, Joined
    <3>3. Len(a) + Len(d) = size
      BY <2>4, <3>1
    <3> HIDE DEF b
    <3> QED BY <3>1, <3>2, <3>3, Zenon
  <2> HIDE DEF b
  <2> DEFINE Bounds == /\ Reach(r) \in Nat /\ Reach(u) = Reach(r) + copy /\ Reach(u) <= ReseedSize
                       /\ Reach(rest) \in Nat /\ Reach(t) = Reach(rest) + c /\ Reach(t) <= ReseedSize
                       /\ t.key = r.key => Reach(rest) = Reach(u)
                       /\ size = copy + c /\ c \in Nat \ {0} /\ copy \in Nat \ {0}
  <2>8. Bounds
    BY <1>5, <2>2, <2>4, <2>5, <2>6
  <2>9. ASSUME NEW i \in 1 .. copy
        PROVE  b[i][1] = r.key /\ b[i][2] = Reach(r) + i - 1
    BY <2>2, <2>7
  <2>10. ASSUME NEW i \in copy + 1 .. size
        PROVE  b[i][1] = t.key /\ b[i][2] = Reach(rest) + i - copy - 1
    <3>1. i - copy \in 1 .. c
      BY <1>1, <1>5, <2>4
    <3>2. d[i - copy][1] = rest.key /\ d[i - copy][2] = Reach(rest) + (i - copy) - 1
      BY <2>5, <3>1
    <3> QED BY <1>1, <1>5, <2>5, <2>7, <3>2
  <2>11. ASSUME NEW i \in 1 .. size
         PROVE  /\ b[i][1] \in {r.key, t.key} /\ b[i][2] \in 0 .. ReseedSize - 1
                /\ b[i][1] = r.key => Reach(r) <= b[i][2]
                /\ b[i][1] = t.key => b[i][2] < Reach(t)
                /\ i # 1 => After(b[i], b[i - 1])
    <3>1. CASE i \in 1 .. copy
      <4>1. b[i][1] = r.key /\ b[i][2] = Reach(r) + i - 1
        BY <2>9, <3>1
      <4>2. Reach(r) + i - 1 \in 0 .. ReseedSize - 1 /\ Reach(r) <= Reach(r) + i - 1
        BY <1>1, <2>8, <3>1
      <4>3. t.key = r.key => Reach(r) + i - 1 < Reach(t)
        BY <2>8, <3>1
      <4>4. ASSUME i # 1 PROVE After(b[i], b[i - 1])
        <5>1. i - 1 \in 1 .. copy
          BY <1>5, <3>1, <4>4
        <5>2. b[i - 1][2] = Reach(r) + (i - 1) - 1
          BY <2>9, <5>1
        <5> QED BY <2>8, <3>1, <4>1, <5>2 DEF After
      <4> QED BY <4>1, <4>2, <4>3, <4>4
    <3>2. CASE i \in copy + 1 .. size
      <4>1. b[i][1] = t.key /\ b[i][2] = Reach(rest) + i - copy - 1
        BY <2>10, <3>2
      <4>2. /\ Reach(rest) + i - copy - 1 \in 0 .. ReseedSize - 1
            /\ Reach(rest) + i - copy - 1 < Reach(t)
        BY <1>1, <2>8, <3>2
      <4>3. t.key = r.key => Reach(r) <= Reach(rest) + i - copy - 1
        BY <2>8, <3>2
      <4>4. CASE i = copy + 1
        <5>1. copy \in 1 .. copy /\ i - 1 = copy
          BY <1>5, <4>4
        <5>2. b[i - 1][1] = r.key /\ b[i - 1][2] = Reach(r) + copy - 1
          BY <2>9, <5>1
        <5>3. t.key = r.key => Reach(r) + copy - 1 < Reach(rest) + i - copy - 1
          BY <2>8, <4>4
        <5>4. After(b[i], b[i - 1])
          BY <4>1, <5>2, <5>3 DEF After
        <5> QED BY <4>1, <4>2, <4>3, <5>4
      <4>5. CASE i # copy + 1
        <5>1. i - 1 \in copy + 1 .. size
          BY <1>1, <1>5, <3>2, <4>5
        <5>2. b[i - 1][2] = Reach(rest) + (i - 1) - copy - 1
          BY <2>10, <5>1
        <5>3. After(b[i], b[i - 1])
          BY <2>8, <3>2, <4>1, <5>2 DEF After
        <5> QED BY <4>1, <4>2, <4>3, <5>3
      <4> QED BY <4>4, <4>5
    <3> QED BY <1>1, <1>5, <3>1, <3>2
  <2>12. t.key = r.key => Reach(r) <= Reach(t)
    BY <2>8
  <2>13. b[size][1] = t.key
    BY <1>1, <1>5, <1>7, <2>10
  <2>14. Drawn(r, t, b, n)
    BY <1>1, <2>3, <2>5, <2>7, <2>11, <2>12, <2>13 DEF Drawn
  <2>15. result.state = t /\ result.bytes = b
    BY <1>3, <1>7 DEF t, b, a, d, c
  <2> QED BY <2>14, <2>15 DEF result
<1> QED BY <1>6, <1>7

-----------------------------------------------------------------------------
(* The steps                                                               *)

\* What one draw of state s must find in the bytes: FreshBytes for this state.
FreshFor(s) ==
  \A i \in DOMAIN drawn' :
    /\ After(drawn'[i], IF i = 1 THEN spent[s] ELSE drawn'[i - 1])
    /\ drawn'[i][1] \in {rng[s].key, rng'[s].key}
    /\ drawn'[i][2] < ReseedSize
    /\ drawn'[i][1] \notin foreign \cup {rng[u].key : u \in 0 .. NStates \ {s}}

\* The key that getrandom gives next is not known yet.
LEMMA KeyIsNew ==
  ASSUME keys \in Nat
  PROVE  /\ NewKey \in Nat /\ Len(<<NewKey>>) = 1 /\ <<NewKey>>[1] = NewKey /\ <<NewKey>> \in Seq(Nat)
         /\ \A k : Known(k) => k # <<NewKey>> /\ k # << >> /\ k[1] # NewKey
         /\ <<NewKey>> # << >>
BY DEF NewKey, Known, KnownBy

\* Keys stay known.
LEMMA KeysStay ==
  ASSUME keys \in Nat, keys' \in {keys, NewKey}, NEW k, Known(k)
  PROVE  KnownBy(k, keys')
BY DEF Known, KnownBy, NewKey

\* A draw calls getrandom exactly when the state changes its key.
LEMMA DrawCounts ==
  ASSUME RandomInv, NEW s \in 0 .. NStates, rng[s] # Unset,
         NEW t, NEW b, Drawn(rng[s], t, b, NewKey),
         keys' = IF t.key = <<NewKey>> THEN NewKey ELSE keys
  PROVE  /\ keys' \in Nat /\ KnownBy(t.key, keys') /\ \A k : Known(k) => KnownBy(k, keys')
         /\ \/ t.key = rng[s].key /\ keys' = keys
            \/ t.key = <<NewKey>> /\ keys' = NewKey /\ t.key # rng[s].key
<1>1. keys \in Nat /\ Known(rng[s].key) /\ rng[s].key # <<NewKey>>
  BY KeyIsNew DEF RandomInv, StatesGood
<1>2. \/ t.key = rng[s].key /\ keys' = keys
      \/ t.key = <<NewKey>> /\ keys' = NewKey /\ t.key # rng[s].key
  BY <1>1 DEF Drawn
<1>3. keys' \in Nat /\ \A k : Known(k) => KnownBy(k, keys')
  BY <1>1, <1>2, KeyIsNew, KeysStay
<1>4. t.key = <<NewKey>> /\ keys' = NewKey => KnownBy(t.key, keys')
  BY <1>1, KeyIsNew DEF Known, KnownBy, NewKey
<1> QED BY <1>1, <1>2, <1>3, <1>4

\* The bytes of a draw are new.
LEMMA DrawFresh ==
  ASSUME RandomInv, NEW s \in 0 .. NStates, rng[s] # Unset, s \in State \/ foreign = {},
         NEW t, NEW b, Drawn(rng[s], t, b, NewKey),
         rng'[s] = t, drawn' = b
  PROVE  FreshFor(s)
<1>1. keys \in Nat /\ Known(rng[s].key) /\ ReseedSize \in Nat
  BY CacheFacts DEF RandomInv, StatesGood
<1> SUFFICES ASSUME NEW i \in 1 .. Len(b)
             PROVE  /\ After(b[i], IF i = 1 THEN spent[s] ELSE b[i - 1])
                    /\ b[i][1] \in {rng[s].key, t.key}
                    /\ b[i][2] < ReseedSize
                    /\ b[i][1] \notin foreign \cup {rng[u].key : u \in 0 .. NStates \ {s}}
  BY DEF FreshFor, Drawn
<1>2. /\ b[i][1] \in {rng[s].key, t.key} /\ b[i][2] \in 0 .. ReseedSize - 1
      /\ b[i][1] = rng[s].key => Reach(rng[s]) <= b[i][2]
      /\ i # 1 => After(b[i], b[i - 1])
      /\ t.key = rng[s].key \/ t.key = <<NewKey>>
  BY DEF Drawn
<1>3. b[i][1] = rng[s].key \/ b[i][1] = <<NewKey>>
  BY <1>2
<1>4. ASSUME i = 1 PROVE After(b[i], spent[s])
  <2>1. /\ spent[s][1] = << >> \/ Known(spent[s][1])
        /\ spent[s][2] \in Nat
        /\ spent[s][1] = rng[s].key => spent[s][2] < Reach(rng[s])
    BY DEF RandomInv, SpentBehind
  <2>2. spent[s][1] # <<NewKey>>
    BY <1>1, <2>1, KeyIsNew
  <2>3. Reach(rng[s]) \in Int
    BY ReachTyped DEF RandomInv, StatesGood
  <2>4. spent[s][1] = b[i][1] => spent[s][2] < Reach(rng[s]) /\ Reach(rng[s]) <= b[i][2]
    BY <1>2, <1>3, <2>1, <2>2
  <2>5. spent[s][1] = b[i][1] => spent[s][2] < b[i][2]
    BY <1>1, <1>2, <2>1, <2>3, <2>4
  <2> QED BY <2>5 DEF After
<1>5. b[i][1] \notin foreign
  BY <1>1, <1>3, KeyIsNew DEF RandomInv, KeysApart
<1>6. ASSUME NEW u \in 0 .. NStates, u # s PROVE b[i][1] # rng[u].key
  <2>1. CASE rng[u] = Unset
    <3>1. rng[u].key = << >>
      BY <2>1 DEF Unset
    <3> QED BY <1>1, <1>3, <3>1, KeyIsNew
  <2>2. CASE rng[u] # Unset
    <3>1. Known(rng[u].key) /\ rng[u].key # rng[s].key
      BY <1>6, <2>2 DEF RandomInv, StatesGood, KeysApart
    <3> QED BY <1>1, <1>3, <3>1, KeyIsNew
  <2> QED BY <2>1, <2>2
<1>7. b[i][2] < ReseedSize
  BY <1>1, <1>2
<1> QED BY <1>2, <1>4, <1>5, <1>6, <1>7

\* A seed drawn from the first byte of b, for a state that has none.
LEMMA SeedIs ==
  ASSUME RandomInv, rng[0] # Unset, NEW t, NEW b, Drawn(rng[0], t, b, NewKey),
         keys' = IF t.key = <<NewKey>> THEN NewKey ELSE keys,
         NEW w, w = Seeded(Unset, Append(b[1][1], b[1][2]))
  PROVE  /\ Good(w) /\ w # Unset /\ KnownBy(w.key, keys') /\ Len(w.key) = 2
         /\ w.key[1] = b[1][1][1] /\ w.key[2] = b[1][2] /\ Len(t.key) = 1
         /\ b[1][1] = rng[0].key \/ b[1][1] = t.key
<1>1. 0 \in 0 .. NStates
  BY RandomAssumption
<1>2. /\ Known(rng[0].key) /\ Len(rng[0].key) = 1 /\ keys \in Nat
  BY <1>1 DEF RandomInv, StatesGood
<1>3. /\ keys' \in Nat /\ KnownBy(t.key, keys') /\ KnownBy(rng[0].key, keys') /\ Len(t.key) = 1
  BY <1>1, <1>2, DrawCounts, KeyIsNew
<1>4. (b[1][1] = rng[0].key \/ b[1][1] = t.key) /\ b[1][2] \in Nat
  BY CacheFacts DEF Drawn
<1>5. PICK k, n : k = b[1][1] /\ n = b[1][2] /\ KnownBy(k, keys') /\ Len(k) = 1 /\ n \in Nat
  BY <1>2, <1>3, <1>4
<1>6. w = [index |-> CacheSize, reseed |-> 0, key |-> Append(k, n), block |-> 0,
           cacheKey |-> << >>, base |-> 0]
  BY <1>5 DEF Seeded, Unset
<1>7. k \in Seq(Nat)
  BY <1>5 DEF KnownBy
<1>8. Append(k, n) \in Seq(Nat) /\ Len(Append(k, n)) = 2 /\ Append(k, n)[1] = k[1] /\ Append(k, n)[2] = n
  BY <1>5, <1>7
<1>9. w.key = Append(k, n) /\ w.index = CacheSize /\ w.reseed = 0 /\ w.block = 0
  BY <1>6
<1>10. NextByte(w) = 0 /\ Caches(0)
  BY <1>9, CacheFacts DEF NextByte, Caches
<1>11. Good(w)
  <2>1. << >> \in Seq(Nat) /\ CacheSize \in 0 .. CacheSize /\ 0 \in 0 .. ReseedSize
    BY CacheFacts
  <2>2. w \in [index : 0 .. CacheSize, reseed : 0 .. ReseedSize, key : Seq(Nat), block : Nat,
                cacheKey : Seq(Nat), base : Nat]
    BY <1>6, <1>8, <2>1
  <2> QED BY <1>9, <1>10, <2>2, CacheFacts DEF Good
<1>12. w # Unset
  <2> SUFFICES ASSUME w = Unset PROVE FALSE
    OBVIOUS
  <2>1. w.key = << >>
    BY DEF Unset
  <2>2. Len(w.key) = 0
    BY <2>1
  <2> QED BY <1>8, <1>9, <2>2
<1>13. KnownBy(w.key, keys')
  BY <1>5, <1>8, <1>9 DEF KnownBy
<1> QED BY <1>3, <1>4, <1>5, <1>8, <1>9, <1>11, <1>12, <1>13

\* A draw of state s, from which the state w may take its seed, keeps the states
\* good, what was returned behind what is to come, and the keys apart.
LEMMA DrawKeeps ==
  ASSUME RandomInv, NEW s \in 0 .. NStates, rng[s] # Unset, s \in State \/ foreign = {},
         NEW t, NEW b, Drawn(rng[s], t, b, NewKey),
         keys' = IF t.key = <<NewKey>> THEN NewKey ELSE keys,
         spent' = [spent EXCEPT ![s] = b[Len(b)]], foreign' = foreign,
         DOMAIN rng' = 0 .. NStates, rng'[s] = t, NEW w \in 0 .. NStates,
         \A u \in 0 .. NStates : u # s /\ u # w => rng'[u] = rng[u],
         \/ w = s
         \/ /\ w \in State /\ s = 0 /\ rng[w] = Unset /\ foreign = {}
            /\ rng'[w] = Seeded(Unset, Append(b[1][1], b[1][2]))
  PROVE  StatesGood' /\ SpentBehind' /\ KeysApart'
<1> USE DEF RandomInv
<1>1. /\ keys \in Nat /\ keys' \in Nat /\ KnownBy(t.key, keys')
      /\ \A k : Known(k) => KnownBy(k, keys') /\ k # << >> /\ k[1] # NewKey
      /\ \/ t.key = rng[s].key /\ keys' = keys
         \/ t.key = <<NewKey>> /\ keys' = NewKey /\ t.key # rng[s].key
      /\ <<NewKey>>[1] = NewKey /\ Len(<<NewKey>>) = 1
  BY DrawCounts, KeyIsNew DEF StatesGood
<1>2. Good(t) /\ t # Unset
  <2>1. t.key # << >>
    BY <1>1 DEF KnownBy
  <2> QED BY <2>1 DEF Drawn, Unset
<1>3. ASSUME w # s
      PROVE  /\ s = 0 /\ w \in State /\ rng[w] = Unset /\ foreign = {}
             /\ Good(rng'[w]) /\ rng'[w] # Unset /\ KnownBy(rng'[w].key, keys')
             /\ Len(rng'[w].key) = 2 /\ rng'[w].key[1] = b[1][1][1] /\ rng'[w].key[2] = b[1][2]
             /\ Len(t.key) = 1 /\ (b[1][1] = rng[0].key \/ b[1][1] = t.key)
  BY <1>3, SeedIs
<1>4. 0 \in 0 .. NStates /\ State \subseteq 0 .. NStates /\ 0 \notin State
  BY RandomAssumption DEF State
<1>5. StatesGood'
  <2>1. ASSUME NEW u \in 0 .. NStates, rng'[u] # Unset
        PROVE  Good(rng'[u]) /\ KnownBy(rng'[u].key, keys')
    <3>1. CASE u # s /\ u # w
      <4>1. Good(rng[u]) /\ Known(rng[u].key) /\ rng'[u] = rng[u]
        BY <2>1, <3>1 DEF StatesGood
      <4> QED BY <1>1, <4>1
    <3> QED BY <1>1, <1>2, <1>3, <3>1
  <2>2. Len(rng'[0].key) = 1 \/ rng'[0] = Unset
    <3>1. CASE s = 0
      BY <1>1, <1>4, <3>1 DEF StatesGood
    <3>2. CASE s # 0
      <4>1. rng'[0] = rng[0]
        BY <1>3, <1>4, <3>2
      <4> QED BY <4>1 DEF StatesGood
    <3> QED BY <3>1, <3>2
  <2> QED BY <1>1, <2>1, <2>2 DEF StatesGood, Known
<1>6. SpentBehind'
  <2>1. DOMAIN spent' = 0 .. NStates
    BY DEF SpentBehind
  <2> SUFFICES ASSUME NEW u \in 0 .. NStates
               PROVE  /\ spent'[u][1] = << >> \/ KnownBy(spent'[u][1], keys')
                      /\ spent'[u][2] \in Nat
                      /\ rng'[u] = Unset => spent'[u][1] = << >>
                      /\ rng'[u] # Unset /\ spent'[u][1] = rng'[u].key => spent'[u][2] < Reach(rng'[u])
    BY <2>1 DEF SpentBehind, Known, Reach
  <2>2. CASE u = s
    <3>1. spent'[u] = b[Len(b)]
      BY <2>2 DEF SpentBehind
    <3>2. Len(b) \in 1 .. Len(b) /\ b[Len(b)][1] = t.key
      BY DEF Drawn
    <3>3. b[Len(b)][2] \in Nat /\ b[Len(b)][2] < Reach(t)
      BY <3>2, CacheFacts DEF Drawn
    <3> QED BY <1>1, <1>2, <2>2, <3>1, <3>2, <3>3
  <2>3. CASE u # s
    <3>1. spent'[u] = spent[u]
      BY <2>3 DEF SpentBehind
    <3>2. /\ spent[u][1] = << >> \/ KnownBy(spent[u][1], keys')
          /\ spent[u][2] \in Nat
          /\ rng[u] = Unset => spent[u][1] = << >>
          /\ rng[u] # Unset /\ spent[u][1] = rng[u].key => spent[u][2] < Reach(rng[u])
      BY <1>1 DEF SpentBehind
    <3>3. CASE u = w
      <4>1. rng'[u].key # << >> /\ spent[u][1] = << >> /\ rng'[u] # Unset
        BY <1>3, <2>3, <3>2, <3>3 DEF KnownBy
      <4> QED BY <3>1, <3>2, <4>1
    <3>4. CASE u # w
      <4>1. rng'[u] = rng[u]
        BY <2>3, <3>4
      <4> QED BY <3>1, <3>2, <4>1
    <3> QED BY <3>3, <3>4
  <2> QED BY <2>2, <2>3
<1>7. KeysApart'
  <2>1. ASSUME NEW u \in 0 .. NStates, u # s, u # w, rng'[u] # Unset
        PROVE  rng'[u] = rng[u] /\ Known(rng[u].key) /\ rng[u].key # t.key
    <3>1. rng'[u] = rng[u] /\ Known(rng[u].key) /\ rng[u].key # rng[s].key
      BY <2>1 DEF StatesGood, KeysApart
    <3> QED BY <1>1, <3>1
  <2>2. ASSUME NEW u \in 0 .. NStates, u # s, u # w, w # s, rng'[u] # Unset
        PROVE  rng'[u].key # rng'[w].key
    <3> SUFFICES ASSUME rng[u].key = rng'[w].key PROVE FALSE
      BY <2>1, <2>2
    <3>1. u \in State /\ Known(rng[u].key) /\ rng[u] # Unset /\ Len(rng[u].key) = 2
      BY <1>3, <2>1, <2>2 DEF State
    <3>2. b[1][1] = rng[0].key
      BY <1>1, <1>3, <2>2, <3>1
    <3>3. rng[u].key[2] < Reach(rng[0])
      BY <1>3, <2>2, <3>1, <3>2 DEF KeysApart
    <3>4. Reach(rng[0]) <= b[1][2] /\ b[1][2] \in Nat
      BY <1>3, <2>2, <3>2, CacheFacts DEF Drawn
    <3>5. Reach(rng[0]) \in Int
      BY <1>3, <1>4, <2>2, ReachTyped DEF StatesGood
    <3> QED BY <1>3, <2>2, <3>3, <3>4, <3>5
  <2>3. ASSUME w # s PROVE t.key # rng'[w].key
    BY <1>3, <2>3
  <2>4. \A u, v \in 0 .. NStates :
          u # v /\ rng'[u] # Unset /\ rng'[v] # Unset => rng'[u].key # rng'[v].key
    <3> SUFFICES ASSUME NEW u \in 0 .. NStates, NEW v \in 0 .. NStates,
                        u # v, rng'[u] # Unset, rng'[v] # Unset
                 PROVE  rng'[u].key # rng'[v].key
      OBVIOUS
    <3>1. CASE u \in {s, w} /\ v \in {s, w}
      BY <2>3, <3>1
    <3>2. CASE u \in {s, w} /\ v \notin {s, w}
      BY <2>1, <2>2, <3>2
    <3>3. CASE u \notin {s, w} /\ v \in {s, w}
      BY <2>1, <2>2, <3>3
    <3>4. CASE u \notin {s, w} /\ v \notin {s, w}
      BY <3>4 DEF KeysApart
    <3> QED BY <3>1, <3>2, <3>3, <3>4
  <2>5. ASSUME NEW u \in State, rng'[u] # Unset, Len(rng'[u].key) = 2, rng'[u].key[1] = rng'[0].key[1]
        PROVE  rng'[u].key[2] < Reach(rng'[0])
    <3>1. u \in 0 .. NStates /\ u # 0
      BY <1>4
    <3>2. CASE s # 0
      <4>1. rng'[0] = rng[0] /\ (u # s => rng'[u] = rng[u])
        BY <1>3, <1>4, <3>1, <3>2
      <4>2. u = s => rng'[u].key = rng[u].key /\ rng[u] # Unset
        BY <1>1, <2>5
      <4>3. rng[u] # Unset /\ rng[u].key = rng'[u].key
        BY <2>5, <4>1, <4>2
      <4> QED BY <2>5, <4>1, <4>3 DEF KeysApart
    <3>3. CASE s = 0 /\ u # w
      <4>1. rng'[u] = rng[u] /\ Known(rng[u].key) /\ rng[u] # Unset /\ rng'[0] = t
        BY <2>1, <2>5, <3>1, <3>3
      <4>2. t.key = rng[0].key
        BY <1>1, <2>5, <3>3, <4>1
      <4>3. rng[u].key[2] < Reach(rng[0]) /\ Reach(rng[0]) <= Reach(t)
        BY <2>5, <3>3, <4>1, <4>2 DEF KeysApart, Drawn
      <4>4. Reach(rng[0]) \in Int /\ Reach(t) \in Int /\ rng[u].key[2] \in Int
        <5>1. Reach(rng[0]) \in Int /\ Reach(t) \in Int
          BY <1>2, <1>4, <3>3, ReachTyped DEF StatesGood
        <5>2. rng[u].key \in Seq(Nat) /\ Len(rng[u].key) = 2
          BY <2>5, <4>1 DEF Known, KnownBy
        <5> QED BY <5>1, <5>2
      <4> QED BY <4>1, <4>3, <4>4
    <3>4. CASE s = 0 /\ u = w
      <4>1. b[1][1] = t.key
        <5>1. Known(rng[0].key)
          BY <1>4, <3>4 DEF StatesGood
        <5> QED BY <1>1, <1>3, <2>5, <3>1, <3>4, <5>1
      <4>2. b[1][2] < Reach(t)
        BY <4>1 DEF Drawn
      <4> QED BY <1>3, <3>1, <3>4, <4>2
    <3> QED BY <3>2, <3>3, <3>4
  <2>6. \A k \in foreign' : KnownBy(k, keys')
    BY <1>1 DEF KeysApart
  <2>7. ASSUME NEW u \in State PROVE rng'[u].key \notin foreign'
    <3>1. CASE w # s
      BY <1>3, <3>1
    <3>2. CASE w = s /\ u = s
      BY <1>1, <3>2 DEF KeysApart
    <3>3. CASE w = s /\ u # s
      BY <1>4, <3>3 DEF KeysApart
    <3> QED BY <3>1, <3>2, <3>3
  <2> QED BY <2>4, <2>5, <2>6, <2>7 DEF KeysApart, Known, Reach
<1> QED BY <1>5, <1>6, <1>7

\* A state seeded from getrandom is good.
LEMMA ReseededIs ==
  ASSUME NEW r, r = Unset \/ Good(r), NEW n \in Nat \ {0}
  PROVE  /\ Good(random_state_init(r, n)) /\ random_state_init(r, n).key = <<n>>
         /\ random_state_init(r, n) # Unset
<1> DEFINE t == random_state_init(r, n)
           Rec == [index : 0 .. CacheSize, reseed : 0 .. ReseedSize, key : Seq(Nat), block : Nat,
                   cacheKey : Seq(Nat), base : Nat]
<1>1. << >> \in Seq(Nat) /\ <<n>> \in Seq(Nat) /\ CacheSize \in 0 .. CacheSize /\ 0 \in 0 .. ReseedSize
  BY CacheFacts
<1>2. r \in [index : 0 .. CacheSize, reseed : 0 .. ReseedSize, key : Seq(Nat), block : Nat,
             cacheKey : Seq(Nat), base : Nat]
  <2>1. CASE r = Unset
    <3>1. 0 \in 0 .. CacheSize
      BY CacheFacts
    <3> QED BY <1>1, <2>1, <3>1 DEF Unset
  <2>2. CASE Good(r)
    BY <2>2 DEF Good
  <2> QED BY <2>1, <2>2
<1>3. t = [index |-> CacheSize, reseed |-> 0, key |-> <<n>>, block |-> 0,
           cacheKey |-> r.cacheKey, base |-> r.base]
  <2>1. t = [r EXCEPT !.index = CacheSize, !.reseed = 0, !.key = <<n>>, !.block = 0]
    BY DEF random_state_init, Seeded
  <2> HIDE DEF t
  <2> QED BY <1>2, <2>1
<1> HIDE DEF t
<1>4. t.key = <<n>> /\ t.index = CacheSize /\ t.reseed = 0 /\ t.block = 0 /\ t \in Rec
  BY <1>1, <1>2, <1>3
<1>5. NextByte(t) = 0 /\ Caches(0)
  BY <1>4, CacheFacts DEF NextByte, Caches
<1>6. Good(t)
  BY <1>4, <1>5, CacheFacts DEF Good
<1>7. t # Unset
  <2> SUFFICES ASSUME t = Unset PROVE FALSE
    OBVIOUS
  <2>1. <<n>> = << >>
    BY <1>4 DEF Unset
  <2> QED BY <2>1
<1> QED BY <1>4, <1>6, <1>7 DEF t

\* init_slow_path seeds its rng from getrandom.
LEMMA InitRngStep ==
  ASSUME RandomInv, InitRng PROVE RandomInv'
<1>1. /\ keys \in Nat /\ keys' = NewKey /\ NewKey \in Nat \ {0} /\ KnownBy(<<NewKey>>, keys')
      /\ 0 \in 0 .. NStates /\ 0 \notin State /\ Len(<<NewKey>>) = 1
  BY RandomAssumption DEF RandomInv, StatesGood, InitRng, NewKey, KnownBy, State
<1>2. /\ \A s \in 0 .. NStates : rng[s] = Unset
      /\ DOMAIN rng = 0 .. NStates /\ foreign = {} /\ phase = "start"
  BY DEF RandomInv, StatesGood, PhaseRight, InitRng
<1>3. /\ rng' = [rng EXCEPT ![0] = random_state_init(rng[0], NewKey)]
      /\ phase' = "gap" /\ spent' = spent /\ foreign' = foreign
  BY DEF InitRng
<1>4. /\ DOMAIN rng' = 0 .. NStates /\ rng'[0] = random_state_init(rng[0], NewKey)
      /\ \A s \in 0 .. NStates : s # 0 => rng'[s] = Unset
  BY <1>1, <1>2, <1>3
<1>5. Good(rng'[0]) /\ rng'[0].key = <<NewKey>> /\ rng'[0] # Unset
  BY <1>1, <1>2, <1>4, ReseededIs
<1>6. StatesGood'
  BY <1>1, <1>4, <1>5 DEF StatesGood, Known
<1>7. PhaseRight'
  BY <1>2, <1>3, <1>5 DEF PhaseRight
<1>8. SpentBehind'
  <2>1. /\ DOMAIN spent = 0 .. NStates
        /\ \A s \in 0 .. NStates : spent[s][1] = << >> /\ spent[s][2] \in Nat
    BY <1>2 DEF RandomInv, SpentBehind
  <2>2. rng'[0].key # << >>
    BY <1>5
  <2> QED BY <1>1, <1>3, <1>4, <2>1, <2>2 DEF SpentBehind
<1>9. KeysApart'
  <2>1. \A s \in State : s \in 0 .. NStates /\ s # 0
    BY <1>1, RandomAssumption DEF State
  <2> QED BY <1>2, <1>3, <1>4, <2>1 DEF KeysApart
<1> QED BY <1>6, <1>7, <1>8, <1>9 DEF RandomInv

\* A gap is drawn from the rng of init_slow_path.
LEMMA DrawGapStep ==
  ASSUME RandomInv, DrawGap PROVE RandomInv' /\ FreshFor(0) /\ \A s \in State : spent'[s] = spent[s]
<1> DEFINE result == get_random_value(rng[0], Max(ValueSizes), NewKey)
           t == result.state
           b == result.bytes
<1>1. Max(ValueSizes) \in 1 .. CacheSize
  BY RandomAssumption DEF Max
<1>2. /\ 0 \in 0 .. NStates /\ rng[0] # Unset /\ foreign = {} /\ foreign' = {} /\ phase = "gap"
      /\ Good(rng[0]) /\ Known(rng[0].key) /\ keys \in Nat /\ DOMAIN rng = 0 .. NStates
      /\ \A s \in State : s # 0
  BY RandomAssumption DEF RandomInv, StatesGood, PhaseRight, DrawGap, State
<1>3. rng[0].key # <<NewKey>> /\ NewKey \in Nat
  BY <1>2, KeyIsNew
<1>4. Drawn(rng[0], t, b, NewKey)
  BY <1>1, <1>2, <1>3, ValueIs
<1>5. /\ rng' = [rng EXCEPT ![0] = t] /\ drawn' = b /\ spent' = [spent EXCEPT ![0] = b[Len(b)]]
      /\ keys' = IF t.key = <<NewKey>> THEN NewKey ELSE keys
      /\ phase' \in {"gap", IF \E s \in State : rng[s] = Unset THEN "seed" ELSE "ready"}
  BY DEF DrawGap, Draw
<1> HIDE DEF t, b
<1>6. /\ DOMAIN rng' = 0 .. NStates /\ rng'[0] = t
      /\ \A u \in 0 .. NStates : u # 0 => rng'[u] = rng[u]
  BY <1>2, <1>5
<1>7. StatesGood' /\ SpentBehind' /\ KeysApart'
  BY <1>2, <1>4, <1>5, <1>6, DrawKeeps
<1>8. FreshFor(0)
  BY <1>2, <1>4, <1>5, <1>6, DrawFresh
<1>9. PhaseRight'
  <2>1. t # Unset
    <3>1. KnownBy(t.key, keys')
      BY <1>2, <1>4, <1>5, DrawCounts
    <3> QED BY <3>1 DEF KnownBy, Unset
  <2>2. \A s \in State : s \in 0 .. NStates
    BY DEF State
  <2> QED BY <1>2, <1>5, <1>6, <2>1, <2>2 DEF PhaseRight
<1>10. \A s \in State : spent'[s] = spent[s]
  BY <1>2, <1>5
<1> QED BY <1>7, <1>8, <1>9, <1>10 DEF RandomInv

\* A state of the allocator takes its seed from the rng of init_slow_path.
LEMMA InitFromRngStep ==
  ASSUME RandomInv, NEW w \in State, InitFromRng(w)
  PROVE  RandomInv' /\ FreshFor(0) /\ \A s \in State : spent'[s] = spent[s]
<1> DEFINE result == get_random_bytes(rng[0], SeedSize, NewKey)
           t == result.state
           b == result.bytes
<1>1. SeedSize \in 1 .. CacheSize \div 2
  BY RandomAssumption
<1>2. /\ 0 \in 0 .. NStates /\ rng[0] # Unset /\ foreign = {} /\ foreign' = {} /\ phase = "seed"
      /\ Good(rng[0]) /\ Known(rng[0].key) /\ keys \in Nat /\ DOMAIN rng = 0 .. NStates
      /\ w \in 0 .. NStates /\ rng[w] = Unset /\ \A s \in State : s # 0
  BY RandomAssumption DEF RandomInv, StatesGood, PhaseRight, InitFromRng, State
<1>3. rng[0].key # <<NewKey>> /\ NewKey \in Nat
  BY <1>2, KeyIsNew
<1>4. Drawn(rng[0], t, b, NewKey)
  BY <1>1, <1>2, <1>3, BytesIs
<1>5. /\ rng' = [rng EXCEPT ![0] = t, ![w] = Seeded(Unset, Append(b[1][1], b[1][2]))]
      /\ drawn' = b /\ spent' = [spent EXCEPT ![0] = b[Len(b)]]
      /\ keys' = IF t.key = <<NewKey>> THEN NewKey ELSE keys
      /\ phase' = IF w = 1 THEN "seed" ELSE "gap"
  <2>1. rng' = [rng EXCEPT ![0] = t, ![w] = Seeded(rng[w], Append(b[1][1], b[1][2]))]
    BY <1>2 DEF InitFromRng
  <2> QED BY <1>2, <2>1 DEF InitFromRng, Draw
<1> HIDE DEF t, b
<1>6. /\ DOMAIN rng' = 0 .. NStates /\ rng'[0] = t
      /\ rng'[w] = Seeded(Unset, Append(b[1][1], b[1][2]))
      /\ \A u \in 0 .. NStates : u # 0 /\ u # w => rng'[u] = rng[u]
  BY <1>2, <1>5
<1>7. StatesGood' /\ SpentBehind' /\ KeysApart'
  BY <1>2, <1>4, <1>5, <1>6, DrawKeeps
<1>8. FreshFor(0)
  BY <1>2, <1>4, <1>5, <1>6, DrawFresh
<1>9. PhaseRight'
  <2>1. t # Unset
    <3>1. KnownBy(t.key, keys')
      BY <1>2, <1>4, <1>5, DrawCounts
    <3> QED BY <3>1 DEF KnownBy, Unset
  <2> QED BY <1>2, <1>5, <1>6, <2>1 DEF PhaseRight
<1>10. \A s \in State : spent'[s] = spent[s]
  BY <1>2, <1>5
<1> QED BY <1>7, <1>8, <1>9, <1>10 DEF RandomInv

\* A state of the allocator draws a value.
LEMMA DrawValueStep ==
  ASSUME RandomInv, NEW s \in State, DrawValue(s)
  PROVE  RandomInv' /\ FreshFor(s) /\ \A u \in 0 .. NStates : u # s => spent'[u] = spent[u]
<1>1. PICK size \in ValueSizes :
        LET result == get_random_value(rng[s], size, NewKey)
        IN  rng' = [rng EXCEPT ![s] = result.state] /\ Draw(s, result)
  BY DEF DrawValue
<1> DEFINE result == get_random_value(rng[s], size, NewKey)
           t == result.state
           b == result.bytes
<1>2. size \in 1 .. CacheSize
  BY RandomAssumption
<1>3. /\ s \in 0 .. NStates /\ s # 0 /\ rng[s] # Unset /\ foreign' = foreign
      /\ phase = "ready" /\ phase' = "ready" /\ rng[0] # Unset /\ 0 \in 0 .. NStates
      /\ Good(rng[s]) /\ Known(rng[s].key) /\ keys \in Nat /\ DOMAIN rng = 0 .. NStates
  BY RandomAssumption DEF RandomInv, StatesGood, PhaseRight, DrawValue, State
<1>4. rng[s].key # <<NewKey>> /\ NewKey \in Nat
  BY <1>3, KeyIsNew
<1>5. Drawn(rng[s], t, b, NewKey)
  BY <1>2, <1>3, <1>4, ValueIs
<1>6. /\ rng' = [rng EXCEPT ![s] = t] /\ drawn' = b /\ spent' = [spent EXCEPT ![s] = b[Len(b)]]
      /\ keys' = IF t.key = <<NewKey>> THEN NewKey ELSE keys
  BY <1>1 DEF Draw
<1> HIDE DEF t, b
<1>7. /\ DOMAIN rng' = 0 .. NStates /\ rng'[s] = t
      /\ \A u \in 0 .. NStates : u # s => rng'[u] = rng[u]
  BY <1>3, <1>6
<1>8. StatesGood' /\ SpentBehind' /\ KeysApart'
  BY <1>3, <1>5, <1>6, <1>7, DrawKeeps
<1>9. FreshFor(s)
  BY <1>3, <1>5, <1>6, <1>7, DrawFresh
<1>10. PhaseRight'
  <2>1. t # Unset
    <3>1. KnownBy(t.key, keys')
      BY <1>3, <1>5, <1>6, DrawCounts
    <3> QED BY <3>1 DEF KnownBy, Unset
  <2>2. \A u \in State : u \in 0 .. NStates
    BY DEF State
  <2>3. \A u \in State : rng[u] # Unset
    BY <1>3 DEF RandomInv, PhaseRight
  <2> QED BY <1>3, <1>7, <2>1, <2>2, <2>3 DEF PhaseRight
<1>11. \A u \in 0 .. NStates : u # s => spent'[u] = spent[u]
  BY <1>6
<1> QED BY <1>8, <1>9, <1>10, <1>11 DEF RandomInv

\* The numbers of the keys that a child process draws.
LEMMA ForkNumbers ==
  /\ Cardinality(State) = NStates
  /\ \A s \in State : Cardinality({u \in State : u < s}) = s - 1
<1>1. NStates \in Nat
  BY RandomAssumption
<1>2. Cardinality(1 .. NStates) = NStates
  BY <1>1, RandomAssumption, FS_Interval
<1>3. ASSUME NEW s \in State PROVE Cardinality({u \in State : u < s}) = s - 1
  <2>1. {u \in State : u < s} = 1 .. s - 1 /\ s - 1 \in Nat /\ s \in Nat
    BY <1>1 DEF State
  <2>2. Cardinality(1 .. s - 1) = IF 1 > s - 1 THEN 0 ELSE (s - 1) - 1 + 1
    BY <2>1, FS_Interval
  <2>3. Cardinality(1 .. s - 1) = s - 1
    BY <2>1, <2>2
  <2> QED BY <2>1, <2>3, Zenon
<1> QED BY <1>2, <1>3 DEF State

\* A child process gives every state of the allocator a key of its own.
LEMMA PostForkChildStep ==
  ASSUME RandomInv, PostForkChild PROVE RandomInv' /\ spent' = spent
<1>1. /\ keys \in Nat /\ NStates \in Nat /\ DOMAIN rng = 0 .. NStates /\ phase = "ready"
      /\ State \subseteq 0 .. NStates /\ 0 \in 0 .. NStates /\ 0 \notin State
      /\ \A s \in 0 .. NStates : s # 0 => s \in State
  BY RandomAssumption DEF RandomInv, StatesGood, PostForkChild, State
<1>2. \A s \in 0 .. NStates : rng[s] # Unset /\ Good(rng[s]) /\ Known(rng[s].key)
  BY <1>1 DEF RandomInv, StatesGood, PhaseRight
<1>3. /\ foreign' = foreign \cup {rng[s].key : s \in State} /\ keys' = keys + NStates
      /\ spent' = spent /\ phase' = phase /\ DOMAIN rng' = 0 .. NStates /\ rng'[0] = rng[0]
      /\ \A s \in State : rng'[s] = random_state_init(rng[s], keys + s)
  <2>1. \A s \in State : keys + 1 + Cardinality({u \in State : u < s}) = keys + s
    <3>1. \A s \in State : s \in Nat
      BY DEF State
    <3> QED BY <1>1, <3>1, ForkNumbers
  <2>2. rng' = [s \in DOMAIN rng |->
                 IF s \in State
                   THEN random_state_init(rng[s], keys + 1 + Cardinality({u \in State : u < s}))
                   ELSE rng[s]]
    BY DEF PostForkChild, Reinit
  <2>3. \A s \in State : rng'[s] = random_state_init(rng[s], keys + s)
    BY <1>1, <2>1, <2>2
  <2> QED BY <1>1, <2>2, <2>3, ForkNumbers DEF PostForkChild
<1>4. ASSUME NEW s \in State
      PROVE  /\ Good(rng'[s]) /\ rng'[s].key = <<keys + s>> /\ rng'[s] # Unset
             /\ KnownBy(<<keys + s>>, keys') /\ Len(<<keys + s>>) = 1 /\ <<keys + s>>[1] = keys + s
             /\ keys + s > keys
  <2>1. s \in Nat \ {0} /\ s <= NStates
    BY <1>1 DEF State
  <2>2. keys + s \in Nat \ {0} /\ keys + s \in 1 .. keys' /\ keys + s > keys
    BY <1>1, <1>3, <2>1
  <2>3. Good(rng'[s]) /\ rng'[s].key = <<keys + s>> /\ rng'[s] # Unset
    <3>1. rng'[s] = random_state_init(rng[s], keys + s) /\ Good(rng[s])
      BY <1>1, <1>2, <1>3
    <3> QED BY <2>2, <3>1, ReseededIs
  <2>4. <<keys + s>> \in Seq(Nat) /\ Len(<<keys + s>>) = 1 /\ <<keys + s>>[1] = keys + s
    BY <2>2
  <2> QED BY <2>2, <2>3, <2>4 DEF KnownBy
<1>5. ASSUME NEW k, Known(k)
      PROVE  KnownBy(k, keys') /\ k # << >> /\ \A s \in State : k # <<keys + s>>
  <2>1. k \in Seq(Nat) /\ Len(k) \in {1, 2} /\ k[1] \in 1 .. keys
    BY <1>5 DEF Known, KnownBy
  <2>2. KnownBy(k, keys')
    BY <1>1, <1>3, <2>1 DEF KnownBy
  <2>3. ASSUME NEW s \in State PROVE k # <<keys + s>>
    BY <1>1, <1>4, <2>1
  <2> QED BY <2>1, <2>2, <2>3
<1>6. StatesGood'
  <2>1. ASSUME NEW s \in 0 .. NStates PROVE Good(rng'[s]) /\ KnownBy(rng'[s].key, keys')
    <3>1. CASE s = 0
      BY <1>2, <1>3, <1>5, <3>1
    <3>2. CASE s # 0
      BY <1>1, <1>4, <3>2
    <3> QED BY <3>1, <3>2
  <2>2. keys' \in Nat
    BY <1>1, <1>3
  <2>3. Len(rng'[0].key) = 1
    BY <1>1, <1>2, <1>3 DEF RandomInv, StatesGood
  <2> QED BY <1>3, <2>1, <2>2, <2>3 DEF StatesGood, Known
<1>7. PhaseRight'
  BY <1>1, <1>2, <1>3, <1>4 DEF PhaseRight
<1>8. SpentBehind'
  <2> SUFFICES ASSUME NEW s \in 0 .. NStates
               PROVE  /\ spent[s][1] = << >> \/ KnownBy(spent[s][1], keys')
                      /\ spent[s][2] \in Nat
                      /\ rng'[s] = Unset => spent[s][1] = << >>
                      /\ rng'[s] # Unset /\ spent[s][1] = rng'[s].key => spent[s][2] < Reach(rng'[s])
    BY <1>3 DEF RandomInv, SpentBehind, Known, Reach
  <2>1. /\ spent[s][1] = << >> \/ Known(spent[s][1])
        /\ spent[s][2] \in Nat
        /\ spent[s][1] = rng[s].key => spent[s][2] < Reach(rng[s])
    BY <1>2 DEF RandomInv, SpentBehind
  <2>2. CASE s = 0
    BY <1>2, <1>3, <1>5, <2>1, <2>2
  <2>3. CASE s # 0
    <3>1. s \in State
      BY <1>1, <2>3
    <3>2. spent[s][1] # rng'[s].key
      <4>1. <<keys + s>> # << >>
        OBVIOUS
      <4> QED BY <1>4, <1>5, <2>1, <3>1, <4>1
    <3> QED BY <1>4, <1>5, <2>1, <3>1, <3>2
  <2> QED BY <2>2, <2>3
<1>9. KeysApart'
  <2>1. \A s, u \in 0 .. NStates : s # u => rng'[s].key # rng'[u].key
    <3> SUFFICES ASSUME NEW s \in 0 .. NStates, NEW u \in 0 .. NStates, s # u
                 PROVE  rng'[s].key # rng'[u].key
      OBVIOUS
    <3>1. CASE s # 0 /\ u # 0
      <4>1. s \in State /\ u \in State
        BY <1>1, <3>1
      <4>2. keys + s # keys + u
        BY <1>1
      <4>3. rng'[s].key[1] = keys + s /\ rng'[u].key[1] = keys + u
        BY <1>4, <4>1
      <4> QED BY <4>2, <4>3
    <3>2. ASSUME NEW v \in State PROVE rng'[0].key # rng'[v].key
      <4>1. Known(rng[0].key) /\ rng'[0].key = rng[0].key /\ rng'[v].key = <<keys + v>>
        BY <1>1, <1>2, <1>3, <1>4
      <4> QED BY <1>5, <4>1
    <3>3. CASE s = 0
      BY <1>1, <3>2, <3>3
    <3>4. CASE u = 0
      BY <1>1, <3>2, <3>4
    <3> QED BY <3>1, <3>3, <3>4
  <2>2. ASSUME NEW s \in State PROVE Len(rng'[s].key) # 2
    <3>1. rng'[s].key = <<keys + s>> /\ Len(<<keys + s>>) = 1
      BY <1>4
    <3> QED BY <3>1
  <2>3. \A k \in foreign' : Known(k)
    BY <1>1, <1>2, <1>3 DEF RandomInv, KeysApart
  <2>4. \A k \in foreign' : KnownBy(k, keys') /\ \A s \in State : k # <<keys + s>>
    BY <1>5, <2>3
  <2>5. \A s \in State : rng'[s].key \notin foreign'
    BY <1>4, <2>4
  <2> QED BY <2>1, <2>2, <2>4, <2>5 DEF KeysApart, Known
<1> QED BY <1>3, <1>6, <1>7, <1>8, <1>9 DEF RandomInv

\* The invariant of the random number states: every state counts the bytes that
\* its key served, what it returned is behind what it will return, and no two
\* states, a parent and its child included, have the same key.
THEOREM RandomInvariant == Spec => []RandomInv
<1>1. Init => RandomInv
  <2> SUFFICES ASSUME Init PROVE RandomInv
    OBVIOUS
  <2>1. 0 \in 0 .. NStates /\ State \subseteq 0 .. NStates
    BY RandomAssumption DEF State
  <2>2. \A s \in 0 .. NStates : rng[s] = Unset /\ spent[s][1] = << >> /\ spent[s][2] = 0
    BY DEF Init
  <2> QED BY <2>1, <2>2
          DEF Init, RandomInv, StatesGood, PhaseRight, SpentBehind, KeysApart
<1>2. RandomInv /\ [Next]_vars => RandomInv'
  <2> SUFFICES ASSUME RandomInv, [Next]_vars PROVE RandomInv'
    OBVIOUS
  <2>1. CASE InitRng
    BY <2>1, InitRngStep
  <2>2. CASE DrawGap
    BY <2>2, DrawGapStep
  <2>3. CASE PostForkChild
    BY <2>3, PostForkChildStep
  <2>4. ASSUME NEW s \in State, InitFromRng(s) PROVE RandomInv'
    BY <2>4, InitFromRngStep
  <2>5. ASSUME NEW s \in State, DrawValue(s) PROVE RandomInv'
    BY <2>5, DrawValueStep
  <2>6. CASE UNCHANGED vars
    BY <2>6 DEF vars, RandomInv, StatesGood, PhaseRight, SpentBehind, KeysApart, Known
  <2> QED BY <2>1, <2>2, <2>3, <2>4, <2>5, <2>6 DEF Next
<1> QED BY <1>1, <1>2, PTL DEF Spec

\* No byte of keystream is returned twice, by one state, by two, or by a parent
\* and its child, and none behind RANDOM_RESEED_SIZE: for every number of states
\* and all sizes of values, cache and keys.
THEOREM BytesFresh == Spec => FreshBytes
<1> DEFINE Fresh ==
      \A s \in 0 .. NStates :
        spent'[s] # spent[s] =>
          \A i \in DOMAIN drawn' :
            /\ After(drawn'[i], IF i = 1 THEN spent[s] ELSE drawn'[i - 1])
            /\ drawn'[i][1] \in {rng[s].key, rng'[s].key}
            /\ drawn'[i][2] < ReseedSize
            /\ drawn'[i][1] \notin foreign \cup {rng[u].key : u \in 0 .. NStates \ {s}}
<1>1. RandomInv /\ [Next]_vars => [Fresh]_vars
  <2> SUFFICES ASSUME RandomInv, Next, NEW s \in 0 .. NStates, spent'[s] # spent[s] PROVE FreshFor(s)
    BY DEF FreshFor
  <2>1. s \in State \/ s = 0
    BY RandomAssumption DEF State
  <2>2. CASE InitRng
    BY <2>2 DEF InitRng
  <2>3. CASE DrawGap
    BY <2>1, <2>3, DrawGapStep
  <2>4. CASE PostForkChild
    BY <2>4, PostForkChildStep
  <2>5. ASSUME NEW u \in State, InitFromRng(u) PROVE FreshFor(s)
    BY <2>1, <2>5, InitFromRngStep
  <2>6. ASSUME NEW u \in State, DrawValue(u) PROVE FreshFor(s)
    BY <2>6, DrawValueStep
  <2> QED BY <2>2, <2>3, <2>4, <2>5, <2>6 DEF Next
<1> QED BY <1>1, RandomInvariant, PTL DEF Spec, FreshBytes
=============================================================================

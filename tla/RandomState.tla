---------------------------- MODULE RandomState ----------------------------
(***************************************************************************)
(* The random number states of random.c: the initialisation rng, and one   *)
(* state for the region allocator and for each size class, seeded from it, *)
(* their caches, reseeding, draws of values and of ranges, and fork.       *)
(*                                                                         *)
(* The keystream is abstract: byte n under a key is the pair of the key    *)
(* and n.  A key drawn from getrandom is a new number, a key drawn from    *)
(* another state is that state's key extended by the place of the first    *)
(* byte it was drawn from, so that equal keys mean reused bytes.  Sizes    *)
(* are scaled down; every proportion that the code relies on is kept.      *)
(***************************************************************************)
EXTENDS Integers, Sequences, FiniteSets, FiniteSetsExt

CONSTANTS
  NStates,       \* states of the allocator: ra->rng and the c->rng
  CacheSize,     \* RANDOM_CACHE_SIZE
  BlockSize,     \* bytes of a keystream block
  ReseedSize,    \* RANDOM_RESEED_SIZE
  SeedSize,      \* CHACHA_KEY_SIZE + CHACHA_IV_SIZE
  ValueSizes,    \* sizes of u16, u32 and u64
  Width,         \* bits of a value in the range reduction
  MaxKeys        \* bound on the calls of getrandom

\* A seed (40 bytes) is at most half a cache (256 bytes), so that it never takes
\* the path of get_random_bytes that goes around the cache.
ASSUME RandomAssumption ==
  /\ NStates \in Nat \ {0, 1} /\ MaxKeys \in Nat
  /\ CacheSize \in Nat /\ BlockSize \in Nat \ {0} /\ CacheSize % BlockSize = 0
  /\ SeedSize \in 1 .. CacheSize \div 2
  /\ ValueSizes \subseteq 1 .. CacheSize
  /\ \E m \in ValueSizes : \A n \in ValueSizes : n <= m
  /\ ReseedSize \in Nat \ {0} /\ ReseedSize % CacheSize = 0

\* What the proofs use of the number of values of a word.
ASSUME WidthAssumption == 2^Width \in Nat \ {0}

VARIABLES
  rng,      \* each state; state 0 is the one of init_slow_path
  keys,     \* the number of keys drawn from getrandom
  drawn,    \* the bytes that the last draw returned
  spent,    \* history: per state, the last byte it returned
  foreign,  \* history: keys that the parent of this process still uses
  phase     \* how far init_slow_path is

vars == <<rng, keys, drawn, spent, foreign, phase>>

State == 1 .. NStates

\* A state that is not initialised; index 0 would serve the cache as it is.
Unset == [index |-> 0, reseed |-> 0, key |-> << >>, block |-> 0,
          cacheKey |-> << >>, base |-> 0]

Init ==
  /\ rng = [s \in 0 .. NStates |-> Unset]
  /\ keys = 0
  /\ drawn = << >>
  /\ spent = [s \in 0 .. NStates |-> <<<< >>, 0>>]
  /\ foreign = {}
  /\ phase = "start"

\* chacha_keysetup and chacha_ivsetup: the block counter starts at 0.
Seeded(r, key) ==
  [r EXCEPT !.index = CacheSize, !.reseed = 0, !.key = key, !.block = 0]

\* random_state_init: the key is the n-th one from getrandom.
random_state_init(r, n) == Seeded(r, <<n>>)

\* The block counter in words 12 and 13 of the ChaCha input, after n blocks.  A
\* key is replaced long before the first word overflows.
Advanced(r, n) == [r EXCEPT !.block = @ + n]

BlocksOf(bytes) == (bytes + BlockSize - 1) \div BlockSize

\* The next byte of the keystream; what is left of a block is dropped.
NextByte(r) == r.block * BlockSize

\* chacha_keystream_bytes into the cache
Keystream(r) ==
  [Advanced(r, BlocksOf(CacheSize)) EXCEPT !.cacheKey = r.key, !.base = NextByte(r)]

ReseedDue(r) == r.reseed >= ReseedSize

\* refill, with n the number of the key that getrandom gives
refill(r, n) ==
  LET fresh == IF ReseedDue(r) THEN random_state_init(r, n) ELSE r
  IN  [Keystream(fresh) EXCEPT !.index = 0, !.reseed = fresh.reseed + CacheSize]

\* size bytes of the cache from index on
Served(r, size) == [i \in 1 .. size |-> <<r.cacheKey, r.base + r.index + i - 1>>]
Skip(r, size) == [r EXCEPT !.index = @ + size]

\* get_random_u16, _u32, _u64: the rest of the cache is dropped when it is too
\* small for the value.
ServesValue(r, size) == CacheSize - r.index >= size

get_random_value(r, size, n) ==
  LET full == IF ServesValue(r, size) THEN r ELSE refill(r, n)
  IN  [bytes |-> Served(full, size), state |-> Skip(full, size)]

\* get_random_bytes: more than half a cache directly; otherwise up to the end
\* of the cache, and the rest from the next one.
get_random_bytes(r, size, n) ==
  LET start == IF r.index = CacheSize THEN refill(r, n) ELSE r
      copy == Min({size, CacheSize - start.index})
      rest == refill(Skip(start, copy), n)
  IN  IF size > CacheSize \div 2
        THEN [bytes |-> [i \in 1 .. size |-> <<r.key, NextByte(r) + i - 1>>],
              state |-> Advanced(r, BlocksOf(size))]
      ELSE IF copy = size
        THEN [bytes |-> Served(start, size), state |-> Skip(start, size)]
        ELSE [bytes |-> Served(start, copy) \o Served(rest, size - copy),
              state |-> Skip(rest, size - copy)]

NewKey == keys + 1

-----------------------------------------------------------------------------
(* get_random_u16_uniform and its siblings: Lemire's range reduction.      *)

Values == 2^Width

\* (u16)-bound % bound
UncastThreshold(bound) == 0
Threshold(bound) == (Values - bound) % bound

Leftover(random, bound) == (random * bound) % Values

\* The value is drawn again; a bound of 0 never divides.
Rejected(random, bound) ==
  Leftover(random, bound) < bound /\ Leftover(random, bound) < Threshold(bound)

Reduced(random, bound) == (random * bound) \div Values

-----------------------------------------------------------------------------
(* init_slow_path, draws and fork                                          *)

\* A draw of state s; getrandom was called if the state has the new key.
Draw(s, result) ==
  /\ drawn' = result.bytes
  /\ spent' = [spent EXCEPT ![s] = result.bytes[Len(result.bytes)]]
  /\ keys' = IF result.state.key = <<NewKey>> THEN NewKey ELSE keys
  /\ keys' <= MaxKeys

InitRng ==
  /\ phase = "start"
  /\ keys < MaxKeys
  /\ rng' = [rng EXCEPT ![0] = random_state_init(@, NewKey)]
  /\ keys' = NewKey
  /\ phase' = "gap"
  /\ UNCHANGED <<drawn, spent, foreign>>

\* The size of the guard around the metadata, and of the gap in front of each
\* class region, comes from the initialisation rng; a rejected value is drawn
\* again.
DrawGap ==
  LET result == get_random_value(rng[0], Max(ValueSizes), NewKey)
  IN  /\ phase = "gap"
      /\ rng' = [rng EXCEPT ![0] = result.state]
      /\ Draw(0, result)
      /\ phase' \in {"gap", IF \E s \in State : rng[s] = Unset THEN "seed" ELSE "ready"}
      /\ UNCHANGED foreign

\* random_state_init_from_random_state: the key and the nonce of s are bytes
\* of the initialisation rng.  The region allocator is the first state.
InitFromRng(s) ==
  LET result == get_random_bytes(rng[0], SeedSize, NewKey)
  IN  /\ phase = "seed"
      /\ rng[s] = Unset /\ \A u \in 1 .. s - 1 : rng[u] # Unset
      /\ rng' = [rng EXCEPT ![0] = result.state,
                            ![s] = Seeded(@, Append(result.bytes[1][1], result.bytes[1][2]))]
      /\ Draw(0, result)
      /\ phase' = IF s = 1 THEN "seed" ELSE "gap"
      /\ UNCHANGED foreign

\* A value, or one more value for a range when the last one was rejected; each
\* state has a lock of its own.
DrawValue(s) ==
  /\ phase = "ready"
  /\ \E size \in ValueSizes :
       LET result == get_random_value(rng[s], size, NewKey)
       IN  rng' = [rng EXCEPT ![s] = result.state] /\ Draw(s, result)
  /\ UNCHANGED <<foreign, phase>>

\* post_fork_child: from here on this is the child, and the parent goes on
\* drawing from the states as they were.
KeepCache(r, n) == [random_state_init(r, n) EXCEPT !.index = r.index]
Reinit(r, n) == random_state_init(r, n)

PostForkChild ==
  LET number(s) == keys + 1 + Cardinality({u \in State : u < s})
  IN  /\ phase = "ready"
      /\ keys + Cardinality(State) <= MaxKeys
      /\ foreign' = foreign \cup {rng[s].key : s \in State}
      /\ rng' = [s \in DOMAIN rng |-> IF s \in State THEN Reinit(rng[s], number(s)) ELSE rng[s]]
      /\ keys' = keys + Cardinality(State)
      /\ drawn' = << >>
      /\ UNCHANGED <<spent, phase>>

Next ==
  \/ InitRng \/ DrawGap \/ PostForkChild
  \/ \E s \in State : InitFromRng(s) \/ DrawValue(s)

Spec == Init /\ [][Next]_vars

-----------------------------------------------------------------------------
(* Properties                                                              *)

After(b, a) == a[1] = b[1] => a[2] < b[2]

\* No byte of keystream is returned twice.  A draw returns bytes behind the ones
\* that the same state returned before, in one piece or around a refill, and
\* never cached bytes of a key that was replaced; no key serves more than
\* RANDOM_RESEED_SIZE bytes, and none belongs to another state, or to the
\* parent of a child process too.
FreshBytes ==
  [][\A s \in 0 .. NStates :
       spent'[s] # spent[s] =>
         \A i \in DOMAIN drawn' :
           /\ After(drawn'[i], IF i = 1 THEN spent[s] ELSE drawn'[i - 1])
           /\ drawn'[i][1] \in {rng[s].key, rng'[s].key}
           /\ drawn'[i][2] < ReseedSize
           /\ drawn'[i][1] \notin foreign \cup {rng[u].key : u \in 0 .. NStates \ {s}}]_vars

\* The range reduction is exact for every bound: the accepted values are spread
\* evenly over 0 .. bound - 1, some value is accepted, and a bound of 0, which
\* get_guard_size passes for a single page, gives 0.  It has no state, so it is
\* evaluated in the first one only.
UniformExact ==
  phase = "start" => \A bound \in 0 .. Values - 1 :
    LET accepted == {r \in 0 .. Values - 1 : ~Rejected(r, bound)}
        hits(v) == Cardinality({r \in accepted : Reduced(r, bound) = v})
    IN  IF bound = 0 THEN accepted # {} /\ \A r \in accepted : Reduced(r, bound) = 0
        ELSE \A v \in 0 .. bound - 1 : hits(v) = Values \div bound
=============================================================================

-------------------------- MODULE InitForkProofs ---------------------------
(***************************************************************************)
(* Proofs about InitFork for every number of threads, arenas, classes and  *)
(* calls: initialisation runs once and before every use, every lock is     *)
(* accounted for across fork and malloc_disable, and the read-only data is *)
(* written in one window only.                                             *)
(***************************************************************************)
EXTENDS InitFork, SequenceTheorems, TLAPS

(* The inductive invariant *)

\* The locks from m on, in the order of full_lock.
From(m) == [n \in 1 .. NLocks + 1 - m |-> m + n - 1]

\* Where a thread initialises the allocator, from the second look at is_init on.
Initialising == {"init_body", "init_publish", "init_seal", "init_unlock", "init_atfork"}

\* Where a thread waits for or runs init_slow_path.
InSlowPath == {"init_lock", "init_check"} \cup Initialising

\* Where a thread can only be once slab_region_end is published.
AfterPublication ==
  {"enter", "take", "inside", "full", "full_held", "unlock", "child", "memtag_write",
   "memtag_protect", "init_seal", "init_unlock", "init_atfork"}

Labels ==
  InSlowPath \cup AfterPublication
    \cup {"idle", "fork", "memtag_lock", "memtag_test", "memtag_unlock"}
Calls == {"none", "alloc", "disable", "other", "fork", "memtag"}
RoData == [published : BOOLEAN, writable : BOOLEAN, untagged : BOOLEAN, ready : SUBSET Locks]
Process ==
  [alive : SUBSET Thread, registered : BOOLEAN, inits : Nat, early : BOOLEAN, raced : BOOLEAN]
Threads == [arena : 0 .. NArena, pc : Labels, op : Calls, todo : Seq(Locks)]

Typed ==
  /\ ro \in RoData
  /\ owner \in [Locks \cup {InitLock} -> Thread \cup {NoThread}]
  /\ proc \in Process
  /\ counter \in 0 .. NArena - 1
  /\ thr \in [Thread -> Threads]
  /\ fault \in BOOLEAN

\* A thread that knows its arena has been through init.
ArenaKnown(t) ==
  /\ thr[t].pc \in InSlowPath \cup {"enter"} => thr[t].arena < NArena
  /\ NArena > 1 /\ thr[t].arena < NArena
       /\ thr[t].pc \notin {"init_lock", "init_check", "init_body", "init_publish"} => ro.published

\* The locks that a thread still has to take, to initialise or to release.
TodoRight(t) ==
  /\ thr[t].pc \in {"full", "unlock"} => \E m \in Locks : thr[t].todo = From(m)
  /\ thr[t].pc = "init_body" => \E m \in Locks : thr[t].todo = From(m) /\ ro.ready = 0 .. m - 1
  /\ thr[t].pc \in {"take", "inside"} => thr[t].todo # << >>

\* How far the initialisation is where the thread is.
InitPlace(t) ==
  /\ thr[t].pc \in AfterPublication => ro.published
  /\ thr[t].pc \in {"init_check", "init_body", "init_publish", "init_seal", "init_unlock"} =>
       owner[InitLock] = t
  /\ thr[t].pc \in {"init_body", "init_publish"} => ~ro.published
  /\ thr[t].pc = "init_publish" => ro.ready = Locks
  /\ thr[t].pc \in Initialising => proc.inits = 1 /\ ~proc.registered

\* What a thread has to be doing where it is.
Purpose(t) ==
  /\ thr[t].pc \in {"memtag_lock", "memtag_test", "memtag_write", "memtag_protect"} =>
       thr[t].op = "memtag"
  /\ thr[t].pc \in {"full", "full_held"} /\ thr[t].op = "fork" => proc.registered
  /\ thr[t].pc = "child" => proc.alive = {t}

Placed(t) == ArenaKnown(t) /\ TodoRight(t) /\ InitPlace(t) /\ Purpose(t)

OneInitialises ==
  \A t, u \in proc.alive : thr[t].pc \in Initialising /\ thr[u].pc \in Initialising => t = u

\* How far the initialisation is.  It is run by a thread that holds init_lock; when a
\* fork has lost that thread nobody else gets the lock.
InitState ==
  /\ proc.inits \in {0, 1}
  /\ ~ro.published => ro.writable
  /\ proc.inits = 0 => ro.ready = {}
  /\ ro.published => ro.ready = Locks
  /\ proc.registered => ro.published
  /\ proc.inits = 1 /\ ~ro.published =>
       /\ owner[InitLock] # NoThread
       /\ owner[InitLock] \in proc.alive => thr[owner[InitLock]].pc \in {"init_body", "init_publish"}

\* Unless tagging was switched off before ro was sealed, the seal is over by the time
\* ro is made writable for it, and nothing takes that back before the write.
Unraced ==
  \A t \in proc.alive :
    ~proc.raced /\ thr[t].op = "memtag" /\ thr[t].pc \in {"full", "full_held", "memtag_write"} =>
      /\ \A u \in proc.alive : thr[u].pc # "init_seal"
      /\ thr[t].pc = "memtag_write" => ro.writable

\* A thread owns the locks it holds at its place in the code.
Owned == \A t \in proc.alive : \A l \in Holding(t) : owner[l] = t

ForkInv ==
  /\ Typed /\ (\A t \in proc.alive : Placed(t)) /\ OneInitialises /\ InitState /\ Unraced /\ Owned
  /\ LocksAccounted /\ ReadOnlyAfterInit

-----------------------------------------------------------------------------
(* The locks and their sequences *)

\* There is a region lock and at least one class lock.
LEMMA LocksBasics ==
  /\ NArena \in Nat /\ NClass \in Nat /\ NArena > 0 /\ NClass > 0 /\ NLocks \in Nat
  /\ 0 \in Locks /\ InitLock \notin Locks /\ NoThread \notin Thread
  /\ \A l \in Locks : l \in Nat /\ l <= NLocks
<1>1. NArena \in Nat /\ NClass \in Nat /\ NArena > 0 /\ NClass > 0 /\ NoThread \notin Thread
  BY InitForkAssumption
<1>2. NLocks \in Nat
  BY <1>1 DEF NLocks
<1> HIDE DEF NLocks
<1> QED BY <1>1, <1>2 DEF Locks, InitLock

\* The locks from m on: m is the first, and the rest are the locks from m + 1 on.
LEMMA FromFacts ==
  ASSUME NEW m \in Locks
  PROVE  /\ From(m) \in Seq(Locks) /\ From(m) # << >> /\ Len(From(m)) = NLocks + 1 - m
         /\ Head(From(m)) = m /\ Range(From(m)) = m .. NLocks
         /\ m # NLocks => m + 1 \in Locks /\ Tail(From(m)) = From(m + 1)
         /\ Len(From(m)) > 1 <=> m # NLocks
         /\ Tail(From(m)) \in Seq(Locks)
<1>1. m \in Nat /\ m <= NLocks /\ NLocks \in Nat
  BY LocksBasics
<1>2. \A n \in 1 .. NLocks + 1 - m : m + n - 1 \in Locks
  BY <1>1 DEF Locks
<1>3. From(m) \in Seq(Locks) /\ Len(From(m)) = NLocks + 1 - m
  BY <1>1, <1>2 DEF From
<1>4. From(m) # << >> /\ Head(From(m)) = m
  BY <1>1, <1>3 DEF From
<1>5. Range(From(m)) = m .. NLocks
  <2>1. \A n \in 1 .. NLocks + 1 - m : From(m)[n] = m + n - 1
    BY DEF From
  <2>2. DOMAIN From(m) = 1 .. NLocks + 1 - m
    BY DEF From
  <2>3. \A l \in m .. NLocks : l - m + 1 \in 1 .. NLocks + 1 - m /\ m + (l - m + 1) - 1 = l
    BY <1>1
  <2>4. ASSUME NEW l \in m .. NLocks PROVE l \in Range(From(m))
    BY <2>1, <2>2, <2>3 DEF Range
  <2>5. ASSUME NEW l \in Range(From(m)) PROVE l \in m .. NLocks
    BY <1>1, <2>1, <2>2 DEF Range
  <2> QED BY <2>4, <2>5
<1>6. Tail(From(m)) \in Seq(Locks)
  BY <1>3, <1>4, HeadTailProperties
<1>7. ASSUME m # NLocks PROVE m + 1 \in Locks /\ Tail(From(m)) = From(m + 1)
  <2>1. m + 1 \in Locks /\ m + 1 \in Nat /\ m + 1 <= NLocks
    BY <1>1, <1>7 DEF Locks
  <2>2. /\ Len(Tail(From(m))) = Len(From(m)) - 1
        /\ \A n \in 1 .. Len(Tail(From(m))) : Tail(From(m))[n] = From(m)[n + 1]
    BY <1>3, <1>4, HeadTailProperties
  <2>3. Len(Tail(From(m))) = NLocks + 1 - (m + 1)
    BY <1>1, <1>3, <2>2
  <2>4. \A n \in 1 .. NLocks + 1 - (m + 1) : From(m)[n + 1] = (m + 1) + n - 1
    BY <1>1 DEF From
  <2>5. /\ From(m + 1) \in Seq(Locks) /\ Len(From(m + 1)) = NLocks + 1 - (m + 1)
        /\ \A n \in 1 .. NLocks + 1 - (m + 1) : From(m + 1)[n] = (m + 1) + n - 1
    <3>1. \A n \in 1 .. NLocks + 1 - (m + 1) : (m + 1) + n - 1 \in Locks
      BY <1>1, <2>1 DEF Locks
    <3> QED BY <1>1, <2>1, <3>1 DEF From
  <2>6. Tail(From(m)) = From(m + 1)
    BY <1>6, <2>2, <2>3, <2>4, <2>5, SeqEqual
  <2> QED BY <2>1, <2>6
<1> QED BY <1>1, <1>3, <1>4, <1>5, <1>6, <1>7

\* full_lock's sequence starts with the region lock.
LEMMA AllLocksFrom == AllLocks = From(0) /\ AllLocks \in Seq(Locks)
<1>1. AllLocks = From(0)
  BY LocksBasics DEF AllLocks, From
<1> QED BY <1>1, FromFacts, LocksBasics

\* The locks of an arena are class locks.
LEMMA ArenaLocksRange ==
  ASSUME NEW a \in 0 .. NArena - 1 PROVE ArenaLocks(a) \subseteq Locks
<1>1. a \in Nat /\ a + 1 <= NArena /\ NArena \in Nat /\ NClass \in Nat /\ NLocks \in Nat
  BY LocksBasics
<1>2. PICK d \in Nat : NArena = (a + 1) + d
  <2>1. NArena - (a + 1) \in Nat
    BY <1>1
  <2> QED BY <1>1, <2>1
<1>3. NLocks = (a + 1) * NClass + d * NClass /\ d * NClass \in Nat
  BY <1>1, <1>2 DEF NLocks
<1>4. a * NClass \in Nat /\ (a + 1) * NClass \in Nat
  BY <1>1
<1> HIDE DEF NLocks
<1> QED BY <1>1, <1>3, <1>4 DEF ArenaLocks, Locks

\* The trim takes locks of classes.
LEMMA TrimLocksType == TrimLocks \in Seq(Locks)
<1> DEFINE M == NClass - 1
<1>1. NArena \in Nat /\ NArena > 0 /\ NClass \in Nat /\ M \in Nat /\ NLocks \in Nat
  BY LocksBasics
<1>2. NArena * M \in Nat /\ NLocks = NArena * M + NArena
  BY <1>1 DEF NLocks
<1>3. ASSUME NEW n \in 1 .. NArena * M PROVE n + 1 + (n - 1) \div M \in Locks
  <2>1. M > 0 /\ n - 1 \in Nat
    BY <1>1, <1>2
  <2> DEFINE q == (n - 1) \div M
  <2>2. q \in Nat /\ q * M <= n - 1
    BY <1>1, <2>1
  <2> HIDE DEF q, M
  <2>3. q < NArena
    <3> SUFFICES ASSUME q >= NArena PROVE FALSE
      BY <1>1, <2>2
    <3>1. PICK d \in Nat : q = NArena + d
      <4>1. q - NArena \in Nat
        BY <1>1, <2>2
      <4> QED BY <1>1, <2>2, <4>1
    <3>2. q * M = NArena * M + d * M /\ d * M \in Nat
      BY <1>1, <3>1
    <3> QED BY <1>2, <2>2, <3>2
  <2>4. n + 1 + q \in 0 .. NLocks
    BY <1>1, <1>2, <2>2, <2>3
  <2> QED BY <2>4 DEF Locks, q
<1>4. TrimLocks = [n \in 1 .. NArena * M |-> n + 1 + (n - 1) \div M]
  BY DEF TrimLocks
<1> HIDE DEF M
<1> QED BY <1>2, <1>3, <1>4

-----------------------------------------------------------------------------
(* What a step does to the thread that takes it *)

\* Thread t goes to label with the locks of seq to do; nothing else changes for it
\* but perhaps its call, and nothing at all for the others.
Moves(t, label, seq) ==
  /\ thr' \in [Thread -> Threads]
  /\ \A u \in Thread : u # t => thr'[u] = thr[u]
  /\ thr'[t].pc = label /\ thr'[t].todo = seq

\* The parts of the type invariant, thread by thread.
LEMMA TypedFacts ==
  ASSUME Typed
  PROVE  /\ thr \in [Thread -> Threads] /\ proc.alive \subseteq Thread
         /\ \A t \in Thread : /\ thr[t].arena \in 0 .. NArena /\ thr[t].pc \in Labels
                              /\ thr[t].op \in Calls /\ thr[t].todo \in Seq(Locks)
<1>1. thr \in [Thread -> Threads] /\ proc.alive \subseteq Thread
  BY DEF Typed, Process
<1> QED BY <1>1 DEF Threads

\* Where the actions go.
LEMMA LabelsAre ==
  /\ {"idle", "enter", "take", "inside", "init_lock", "init_check", "init_body", "init_publish",
      "init_seal", "init_unlock", "init_atfork", "full", "full_held", "unlock", "fork", "child",
      "memtag_lock", "memtag_test", "memtag_write", "memtag_protect", "memtag_unlock"} = Labels
  /\ << >> \in Seq(Locks)
BY DEF Labels, InSlowPath, AfterPublication, Initialising

\* A step that follows its list of locks moves only the thread taking it.
LEMMA FollowMoves ==
  ASSUME Typed, NEW t \in Thread, NEW label \in Labels, NEW seq \in Seq(Locks),
         Follow(t, label, seq)
  PROVE  Moves(t, label, seq) /\ thr'[t].op = thr[t].op /\ thr'[t].arena = thr[t].arena
<1> DEFINE r == [thr[t] EXCEPT !.pc = label, !.todo = seq]
<1>1. thr \in [Thread -> Threads] /\ thr[t] \in Threads
  BY TypedFacts
<1>2. thr' = [thr EXCEPT ![t] = r]
  BY DEF Follow
<1>3. r \in Threads /\ r.pc = label /\ r.todo = seq /\ r.op = thr[t].op /\ r.arena = thr[t].arena
  BY <1>1 DEF Threads
<1> HIDE DEF r
<1> QED BY <1>1, <1>2, <1>3 DEF Moves

\* A step that only changes its place moves only the thread taking it.
LEMMA GotoMoves ==
  ASSUME Typed, NEW t \in Thread, NEW label \in Labels, Goto(t, label)
  PROVE  Moves(t, label, thr[t].todo) /\ thr'[t].op = thr[t].op /\ thr'[t].arena = thr[t].arena
<1> DEFINE r == [thr[t] EXCEPT !.pc = label]
<1>1. thr \in [Thread -> Threads] /\ thr[t] \in Threads
  BY TypedFacts
<1>2. thr' = [thr EXCEPT ![t] = r]
  BY DEF Goto
<1>3. r \in Threads /\ r.pc = label /\ r.todo = thr[t].todo /\ r.op = thr[t].op
      /\ r.arena = thr[t].arena
  BY <1>1 DEF Threads
<1> HIDE DEF r
<1> QED BY <1>1, <1>2, <1>3 DEF Moves

\* The start of a call moves only the thread that makes it.
LEMMA BeginMoves ==
  ASSUME Typed, NEW t \in Thread, NEW label \in Labels, NEW call \in Calls,
         NEW seq \in Seq(Locks), Begin(t, call, label, seq)
  PROVE  Moves(t, label, seq) /\ thr'[t].op = call /\ thr'[t].arena = thr[t].arena
<1> DEFINE r == [thr[t] EXCEPT !.op = call, !.pc = label, !.todo = seq]
<1>1. thr \in [Thread -> Threads] /\ thr[t] \in Threads
  BY TypedFacts
<1>2. thr' = [thr EXCEPT ![t] = r]
  BY DEF Begin
<1>3. r \in Threads /\ r.pc = label /\ r.todo = seq /\ r.op = call /\ r.arena = thr[t].arena
  BY <1>1 DEF Threads
<1> HIDE DEF r
<1> QED BY <1>1, <1>2, <1>3 DEF Moves

-----------------------------------------------------------------------------
(* What a step does to the invariant *)

\* The locks that a thread at label with the locks of seq to do holds.
HeldAt(label, seq) ==
  CASE label = "inside" -> {Head(seq)}
    [] label = "full" -> Locks \ Range(seq)
    [] label \in {"full_held", "memtag_write", "memtag_protect", "child"} -> Locks
    [] label = "unlock" -> Range(seq)
    [] OTHER -> {}

\* The locks a thread holds are determined by its place and its list, now and next.
LEMMA HoldingIs ==
  \A t \in Thread : /\ Holding(t) = HeldAt(thr[t].pc, thr[t].todo)
                    /\ Holding(t)' = HeldAt(thr'[t].pc, thr'[t].todo)
BY DEF Holding, HeldAt, First

\* What LocksAccounted says of the next state.
LEMMA AccountedNext ==
  LocksAccounted' <=>
    \A l \in Locks :
      owner'[l] # NoThread =>
        IF owner'[l] \in proc'.alive
          THEN l \in HeldAt(thr'[owner'[l]].pc, thr'[owner'[l]].todo) ELSE proc'.early
BY DEF LocksAccounted, Holding, First, HeldAt

\* Where a thread holds which locks.
LEMMA HeldAtFacts ==
  ASSUME NEW label, NEW seq
  PROVE  /\ label = "inside" => HeldAt(label, seq) = {Head(seq)}
         /\ label = "full" => HeldAt(label, seq) = Locks \ Range(seq)
         /\ label \in {"full_held", "memtag_write", "memtag_protect", "child"} =>
              HeldAt(label, seq) = Locks
         /\ label = "unlock" => HeldAt(label, seq) = Range(seq)
         /\ label \notin {"inside", "full", "full_held", "memtag_write", "memtag_protect",
                          "child", "unlock"} => HeldAt(label, seq) = {}
BY DEF HeldAt

\* While locks are taken in order, and while they are released in order.
LEMMA HeldFrom ==
  ASSUME NEW m \in Locks
  PROVE  HeldAt("full", From(m)) = 0 .. m - 1 /\ HeldAt("unlock", From(m)) = m .. NLocks
<1>1. m \in Nat /\ m <= NLocks /\ NLocks \in Nat /\ Range(From(m)) = m .. NLocks
  BY LocksBasics, FromFacts
<1>2. (0 .. NLocks) \ (m .. NLocks) = 0 .. m - 1
  BY <1>1
<1> QED BY <1>1, <1>2, HeldAtFacts DEF Locks

\* Another thread's place stays right: what it relies on is not taken back.
LEMMA OthersPlaced ==
  ASSUME NEW u, Placed(u), thr'[u] = thr[u], proc'.alive = proc.alive,
         owner[InitLock] = u => owner'[InitLock] = u,
         ro.published => ro'.published, proc.registered => proc'.registered,
         thr[u].pc \in Initialising =>
           /\ ro'.published = ro.published /\ ro'.ready = ro.ready
           /\ proc'.inits = proc.inits /\ proc'.registered = proc.registered
  PROVE  Placed(u)'
<1>1. ArenaKnown(u)' /\ Purpose(u)'
  BY DEF Placed, ArenaKnown, Purpose
<1>2. TodoRight(u)'
  BY DEF Placed, TodoRight, Initialising
<1>3. InitPlace(u)'
  BY DEF Placed, InitPlace, Initialising
<1> QED BY <1>1, <1>2, <1>3 DEF Placed

\* A thread holds no other locks than these.
LEMMA HoldingRange ==
  ASSUME ForkInv, NEW u \in proc.alive PROVE Holding(u) \subseteq Locks
<1>1. u \in Thread /\ thr[u].todo \in Seq(Locks) /\ Placed(u)
  BY TypedFacts DEF ForkInv
<1>2. Range(thr[u].todo) \subseteq Locks
  BY <1>1, LenProperties DEF Range
<1>3. thr[u].pc = "inside" => Head(thr[u].todo) \in Locks
  BY <1>1, HeadTailProperties DEF Placed, TodoRight
<1> QED BY <1>1, <1>2, <1>3, HoldingIs, HeldAtFacts

\* Each lock keeps its owner and its place in what t holds, or t takes it, or it is
\* given up by t or held by nobody.
LockStep(t) ==
  \A l \in Locks :
    \/ owner'[l] = owner[l] /\ (l \in Holding(t)' <=> l \in Holding(t))
    \/ owner[l] = NoThread /\ owner'[l] = t /\ l \in Holding(t)'
    \/ owner'[l] = NoThread /\ l \notin Holding(t)' /\ \A u \in proc.alive : u # t => l \notin Holding(u)

\* A step that takes or gives back one lock keeps ownership and places in agreement.
LEMMA LocksKept ==
  ASSUME ForkInv, NEW t \in proc.alive, proc'.alive = proc.alive, proc'.early = proc.early,
         \A u \in Thread : u # t => thr'[u] = thr[u], LockStep(t), Holding(t)' \subseteq Locks
  PROVE  Owned' /\ LocksAccounted'
<1>1. \A u \in proc.alive : u \in Thread /\ u # NoThread
  BY TypedFacts, LocksBasics DEF ForkInv
<1>2. \A u \in proc.alive : u # t => Holding(u)' = Holding(u)
  BY <1>1, HoldingIs
<1>3. Owned /\ LocksAccounted
  BY DEF ForkInv
<1>4. ASSUME NEW u \in proc.alive PROVE \A l \in Holding(u) : l \in Locks
  BY HoldingRange
<1>5. Owned'
  <2> SUFFICES ASSUME NEW u \in proc.alive, NEW l \in Holding(u)' PROVE owner'[l] = u
    BY DEF Owned
  <2>1. CASE u = t
    BY <1>1, <1>3, <2>1 DEF LockStep, Owned
  <2>2. CASE u # t
    <3>1. l \in Holding(u) /\ l \in Locks /\ owner[l] = u
      BY <1>2, <1>3, <1>4, <2>2 DEF Owned
    <3> QED BY <1>1, <2>2, <3>1 DEF LockStep
  <2> QED BY <2>1, <2>2
<1>6. LocksAccounted'
  <2> SUFFICES ASSUME NEW l \in Locks, owner'[l] # NoThread
               PROVE  IF owner'[l] \in proc'.alive
                        THEN l \in HeldAt(thr'[owner'[l]].pc, thr'[owner'[l]].todo) ELSE proc'.early
    BY AccountedNext
  <2>1. t \in Thread /\ Holding(t) = HeldAt(thr[t].pc, thr[t].todo)
        /\ Holding(t)' = HeldAt(thr'[t].pc, thr'[t].todo)
    BY <1>1, HoldingIs
  <2>2. CASE /\ owner'[l] = owner[l] /\ (l \in Holding(t)' <=> l \in Holding(t))
             /\ owner[l] \in proc.alive
    <3>1. l \in Holding(owner[l])
      BY <1>3, <2>2 DEF LocksAccounted
    <3>2. owner[l] # t => thr'[owner[l]] = thr[owner[l]]
      BY <1>1, <2>2
    <3>3. l \in HeldAt(thr[owner[l]].pc, thr[owner[l]].todo)
      BY <1>1, <2>2, <3>1, HoldingIs
    <3>4. CASE owner[l] = t
      BY <2>1, <2>2, <3>1, <3>4
    <3>5. CASE owner[l] # t
      BY <2>2, <3>2, <3>3, <3>5
    <3> QED BY <3>4, <3>5
  <2>3. CASE owner'[l] = owner[l] /\ owner[l] \notin proc.alive
    BY <1>3, <2>3 DEF LocksAccounted
  <2>4. CASE owner'[l] = t /\ l \in Holding(t)'
    BY <2>1, <2>4
  <2> QED BY <2>2, <2>3, <2>4 DEF LockStep
<1> QED BY <1>5, <1>6

\* A step of t that leaves the read-only data and the process alone, neither begins nor
\* ends a window in which ro is writable, and takes init_lock from nobody.
LEMMA LocalInv ==
  ASSUME ForkInv, NEW t \in proc.alive, NEW label, NEW seq, Moves(t, label, seq), Placed(t)',
         UNCHANGED <<ro, proc, fault>>, counter' \in 0 .. NArena - 1,
         owner' \in [Locks \cup {InitLock} -> Thread \cup {NoThread}],
         LockStep(t), Holding(t)' \subseteq Locks,
         \A u \in proc.alive : u # t /\ owner[InitLock] = u => owner'[InitLock] = u,
         proc.inits = 1 /\ ~ro.published => owner'[InitLock] = owner[InitLock],
         thr[t].pc \notin {"init_seal", "init_body", "init_publish", "memtag_write", "memtag_protect"},
         label \notin {"init_seal", "memtag_write"},
         label \in Initialising => thr[t].pc \in Initialising,
         thr'[t].op = "memtag" /\ label \in {"full", "full_held"} =>
           thr[t].op = "memtag" /\ thr[t].pc \in {"full", "full_held"}
  PROVE  ForkInv'
<1>1. /\ t \in Thread /\ thr'[t].pc = label /\ \A u \in Thread : u # t => thr'[u] = thr[u]
      /\ \A u \in proc.alive : u \in Thread
  BY TypedFacts DEF ForkInv, Moves
<1>2. Typed'
  BY DEF ForkInv, Typed, Moves
<1>3. \A u \in proc.alive : Placed(u)'
  BY <1>1, OthersPlaced DEF ForkInv
<1>4. OneInitialises'
  BY <1>1 DEF ForkInv, OneInitialises
<1>5. InitState'
  BY <1>1 DEF ForkInv, InitState
<1>6. Unraced'
  BY <1>1 DEF ForkInv, Unraced
<1>7. Owned' /\ LocksAccounted'
  BY <1>1, LocksKept
<1>8. ReadOnlyAfterInit'
  BY <1>1 DEF ForkInv, ReadOnlyAfterInit
<1> QED BY <1>2, <1>3, <1>4, <1>5, <1>6, <1>7, <1>8 DEF ForkInv

\* The same when t keeps the locks that it holds.
LEMMA QuietInv ==
  ASSUME ForkInv, NEW t \in proc.alive, NEW label, NEW seq, Moves(t, label, seq), Placed(t)',
         UNCHANGED <<ro, proc, fault, owner>>, counter' \in 0 .. NArena - 1,
         HeldAt(label, seq) = HeldAt(thr[t].pc, thr[t].todo),
         thr[t].pc \notin {"init_seal", "init_body", "init_publish", "memtag_write", "memtag_protect"},
         label \notin {"init_seal", "memtag_write"} \cup Initialising,
         thr'[t].op = "memtag" /\ label \in {"full", "full_held"} =>
           thr[t].op = "memtag" /\ thr[t].pc \in {"full", "full_held"}
  PROVE  ForkInv'
<1>1. t \in Thread /\ thr'[t].pc = label /\ thr'[t].todo = seq
  BY TypedFacts DEF ForkInv, Moves
<1>2. Holding(t)' = Holding(t) /\ Holding(t) \subseteq Locks
  BY <1>1, HoldingIs, HoldingRange
<1>3. LockStep(t)
  BY <1>2 DEF LockStep
<1>4. owner' \in [Locks \cup {InitLock} -> Thread \cup {NoThread}]
  BY DEF ForkInv, Typed
<1> QED BY <1>2, <1>3, <1>4, LocalInv

-----------------------------------------------------------------------------
(* One lemma for each action, or for a few that change the same state *)

\* The facts every action starts from.
LEMMA AtFacts ==
  ASSUME ForkInv, NEW t \in Thread, NEW label, At(t, label)
  PROVE  /\ t \in proc.alive /\ thr[t].pc = label /\ ~fault /\ Typed /\ Placed(t)
         /\ thr[t].arena \in 0 .. NArena /\ thr[t].op \in Calls /\ thr[t].todo \in Seq(Locks)
         /\ counter \in 0 .. NArena - 1
BY TypedFacts DEF ForkInv, At, Typed

\* init() on the fast path of a call, with the choice of the thread's arena.
LEMMA CallInitInv ==
  ASSUME ForkInv, NEW t \in Thread, NEW call \in {"alloc", "disable"}, CallInit(t, call)
  PROVE  ForkInv'
<1> DEFINE known == NArena > 1 /\ thr[t].arena < NArena
<1> DEFINE next == IF known \/ ro.published THEN "enter" ELSE "init_lock"
<1> DEFINE a == IF known THEN thr[t].arena ELSE counter
<1> DEFINE r == [thr[t] EXCEPT !.op = call, !.pc = next, !.arena = a]
<1>1. At(t, "idle") /\ UNCHANGED <<ro, owner, proc, fault>>
      /\ counter' = IF known THEN counter ELSE NextCounter
  BY DEF CallInit
<1>2. /\ t \in proc.alive /\ thr[t].pc = "idle" /\ Typed /\ Placed(t)
      /\ thr[t].arena \in 0 .. NArena /\ thr[t].todo \in Seq(Locks) /\ counter \in 0 .. NArena - 1
      /\ NArena \in Nat /\ NArena > 0
  BY <1>1, AtFacts, LocksBasics
<1>3. counter' \in 0 .. NArena - 1
  BY <1>1, <1>2 DEF NextCounter
<1>4. a \in 0 .. NArena - 1 /\ next \in {"enter", "init_lock"}
  BY <1>2
<1>5. known => ro.published
  BY <1>2 DEF Placed, ArenaKnown
<1>6. next = "enter" => ro.published
  BY <1>5
<1>7. thr' = [thr EXCEPT ![t] = r]
  BY DEF CallInit
<1> HIDE DEF next, a, known
<1>8. r \in Threads /\ r.pc = next /\ r.todo = thr[t].todo /\ r.op = call /\ r.arena = a
  <2>1. thr[t] \in Threads /\ next \in Labels /\ call \in Calls /\ a \in 0 .. NArena
    BY <1>2, <1>4, TypedFacts DEF Labels, Calls, InSlowPath, AfterPublication
  <2> QED BY <2>1 DEF Threads
<1> HIDE DEF r
<1>9. thr'[t] = r /\ Moves(t, next, thr[t].todo)
  BY <1>2, <1>7, <1>8, TypedFacts DEF Moves
<1>10. Placed(t)'
  <2>1. ArenaKnown(t)'
    BY <1>1, <1>2, <1>4, <1>6, <1>8, <1>9 DEF ArenaKnown
  <2>2. TodoRight(t)' /\ InitPlace(t)' /\ Purpose(t)'
    BY <1>1, <1>4, <1>6, <1>8, <1>9 DEF TodoRight, InitPlace, Purpose, AfterPublication, Initialising
  <2> QED BY <2>1, <2>2 DEF Placed
<1>11. HeldAt(next, thr[t].todo) = {} /\ HeldAt("idle", thr[t].todo) = {}
  BY <1>4, HeldAtFacts
<1> QED BY <1>1, <1>2, <1>3, <1>4, <1>9, <1>10, <1>11, QuietInv DEF Initialising

\* Sections under the region lock.
LEMMA RegionLocksType ==
  ASSUME NEW n \in Nat \ {0} PROVE RegionLocks(n) \in Seq(Locks) /\ RegionLocks(n) # << >>
<1>1. 0 \in Locks
  BY LocksBasics DEF Locks
<1>2. RegionLocks(n) \in Seq(Locks) /\ Len(RegionLocks(n)) = n
  BY <1>1 DEF RegionLocks
<1> QED BY <1>2

\* The start of a call once the allocator is initialised.
LEMMA EnterInv ==
  ASSUME ForkInv, NEW t \in Thread, Enter(t) PROVE ForkInv'
<1>1. At(t, "enter") /\ UNCHANGED <<ro, owner, proc, counter, fault>>
  BY DEF Enter
<1>2. /\ t \in proc.alive /\ thr[t].pc = "enter" /\ Typed /\ Placed(t)
      /\ thr[t].arena \in 0 .. NArena /\ counter \in 0 .. NArena - 1
  BY <1>1, AtFacts
<1>3. thr[t].arena \in 0 .. NArena - 1 /\ ro.published
  BY <1>2, LocksBasics DEF Placed, ArenaKnown, InitPlace, AfterPublication
<1>4. HeldAt("enter", thr[t].todo) = {}
  BY HeldAtFacts
<1>5. CASE thr[t].op = "alloc" /\ \E s \in AllocationLocks(t) : Follow(t, "take", s)
  <2>1. PICK s \in AllocationLocks(t) : Follow(t, "take", s)
    BY <1>5
  <2>2. ArenaLocks(thr[t].arena) \subseteq Locks /\ 1 .. NLocks \subseteq Locks /\ 0 \in Locks
    BY <1>3, ArenaLocksRange, LocksBasics DEF Locks
  <2>3. s \in Seq(Locks) /\ s # << >>
    <3> DEFINE own == ArenaLocks(thr[t].arena)
    <3>1. CASE \E c \in own : s = <<c>>
      BY <2>2, <3>1
    <3>2. CASE \E c \in own, d \in 1 .. NLocks : s = <<c, d>>
      BY <2>2, <3>2
    <3>3. CASE \E c \in own : s = <<0, c, 0>>
      BY <2>2, <3>3
    <3>4. CASE \E c \in own : s = <<0, c, 0, 0>>
      BY <2>2, <3>4
    <3>5. CASE \E d \in 1 .. NLocks : s = <<0, 0, d>>
      BY <2>2, <3>5
    <3>6. CASE \E n \in 1 .. 5 : s = RegionLocks(n)
      BY <3>6, RegionLocksType
    <3> QED BY <2>1, <3>1, <3>2, <3>3, <3>4, <3>5, <3>6 DEF AllocationLocks
  <2>4. Moves(t, "take", s) /\ thr'[t].op = thr[t].op /\ thr'[t].arena = thr[t].arena
    BY <1>2, <2>1, <2>3, FollowMoves, LabelsAre
  <2>5. Placed(t)'
    BY <1>1, <1>3, <2>3, <2>4
    DEF Placed, ArenaKnown, TodoRight, InitPlace, Purpose, Moves, InSlowPath, Initialising
  <2>6. HeldAt("take", s) = {}
    BY HeldAtFacts
  <2> QED BY <1>1, <1>2, <1>4, <2>4, <2>5, <2>6, QuietInv DEF Initialising
<1>6. CASE thr[t].op = "disable" /\ Follow(t, "full", AllLocks)
  <2>1. Moves(t, "full", AllLocks) /\ thr'[t].op = thr[t].op /\ thr'[t].arena = thr[t].arena
    BY <1>2, <1>6, AllLocksFrom, FollowMoves, LabelsAre
  <2>2. Placed(t)'
    BY <1>1, <1>3, <1>6, <2>1, AllLocksFrom, LocksBasics
    DEF Placed, ArenaKnown, TodoRight, InitPlace, Purpose, Moves, InSlowPath, Initialising
  <2>3. HeldAt("full", AllLocks) = {}
    BY AllLocksFrom, HeldFrom, LocksBasics
  <2> QED BY <1>1, <1>2, <1>4, <1>6, <2>1, <2>2, <2>3, QuietInv DEF Initialising
<1> QED BY <1>5, <1>6 DEF Enter

\* free, statistics and trim, which do not call init().
LEMMA WithoutInitInv ==
  ASSUME ForkInv, NEW t \in Thread, WithoutInit(t) PROVE ForkInv'
<1>1. PICK s \in FreeLocks \cup StatisticsLocks \cup ({TrimLocks} \ {<< >>}) :
        Begin(t, "other", "take", s)
  BY DEF WithoutInit
<1>2. At(t, "idle") /\ UNCHANGED <<ro, owner, proc, counter, fault>> /\ ro.published
  BY <1>1 DEF WithoutInit, Begin
<1>3. t \in proc.alive /\ thr[t].pc = "idle" /\ Typed /\ Placed(t) /\ counter \in 0 .. NArena - 1
  BY <1>2, AtFacts
<1>4. s \in Seq(Locks) /\ s # << >>
  <2>1. AllLocks \in Seq(Locks) /\ AllLocks # << >> /\ 0 \in Locks /\ ClassLocks \in Seq(Locks)
    BY AllLocksFrom, FromFacts, LocksBasics DEF ClassLocks
  <2>2. Append(ClassLocks, 0) \in Seq(Locks) /\ Append(ClassLocks, 0) # << >>
    BY <2>1, AppendProperties
  <2>3. CASE s \in FreeLocks
    <3>1. CASE \E l \in 1 .. NLocks : s = <<l>>
      BY <3>1, LocksBasics DEF Locks
    <3>2. CASE \E n \in 1 .. 4 : s = RegionLocks(n)
      BY <3>2, RegionLocksType
    <3> QED BY <2>3, <3>1, <3>2 DEF FreeLocks
  <2> QED BY <1>1, <2>1, <2>2, <2>3, TrimLocksType DEF StatisticsLocks
<1>5. Moves(t, "take", s) /\ thr'[t].op = "other"
  BY <1>1, <1>3, <1>4, BeginMoves, LabelsAre DEF Calls
<1>6. Placed(t)'
  BY <1>2, <1>4, <1>5
  DEF Placed, ArenaKnown, TodoRight, InitPlace, Purpose, Moves, InSlowPath, Initialising
<1>7. HeldAt("take", s) = {} /\ HeldAt("idle", thr[t].todo) = {}
  BY HeldAtFacts
<1> QED BY <1>2, <1>3, <1>5, <1>6, <1>7, QuietInv DEF Initialising

\* The start of fork and of h_malloc_disable_memory_tagging.
LEMMA BeginInv ==
  ASSUME ForkInv, NEW t \in Thread, Fork(t) \/ MemtagBegin(t) PROVE ForkInv'
<1>1. At(t, "idle") /\ UNCHANGED <<ro, owner, proc, counter, fault>>
  BY DEF Fork, MemtagBegin, Begin
<1>2. t \in proc.alive /\ thr[t].pc = "idle" /\ Typed /\ Placed(t) /\ counter \in 0 .. NArena - 1
  BY <1>1, AtFacts
<1>3. HeldAt("idle", thr[t].todo) = {}
  BY HeldAtFacts
<1>4. proc.registered => ro.published
  BY DEF ForkInv, InitState
<1>5. CASE Fork(t)
  <2> DEFINE label == IF proc.registered THEN "full" ELSE "fork"
  <2>1. label \in Labels /\ label \in {"full", "fork"} /\ (label = "full" => proc.registered)
    BY LabelsAre
  <2>2. Begin(t, "fork", label, AllLocks)
    BY <1>5 DEF Fork
  <2> HIDE DEF label
  <2>3. Moves(t, label, AllLocks) /\ thr'[t].op = "fork" /\ thr'[t].arena = thr[t].arena
    BY <1>2, <2>1, <2>2, AllLocksFrom, BeginMoves DEF Calls
  <2>4. Placed(t)'
    BY <1>1, <1>2, <1>4, <2>1, <2>3, AllLocksFrom, LocksBasics
    DEF Placed, ArenaKnown, TodoRight, InitPlace, Purpose, Moves, InSlowPath, Initialising,
        AfterPublication
  <2>5. HeldAt(label, AllLocks) = {}
    <3>1. HeldAt("full", AllLocks) = {} /\ HeldAt("fork", AllLocks) = {}
      BY AllLocksFrom, HeldFrom, HeldAtFacts, LocksBasics
    <3> QED BY <2>1, <3>1
  <2> QED BY <1>1, <1>2, <1>3, <2>1, <2>3, <2>4, <2>5, QuietInv DEF Initialising
<1>6. CASE MemtagBegin(t)
  <2> DEFINE label == IF ro.published THEN "memtag_test" ELSE "memtag_lock"
  <2>1. label \in Labels /\ label \in {"memtag_test", "memtag_lock"}
    BY LabelsAre
  <2>2. Begin(t, "memtag", label, << >>)
    BY <1>6 DEF MemtagBegin
  <2> HIDE DEF label
  <2>3. Moves(t, label, << >>) /\ thr'[t].op = "memtag" /\ thr'[t].arena = thr[t].arena
    BY <1>2, <2>1, <2>2, LabelsAre, BeginMoves DEF Calls
  <2>4. Placed(t)'
    BY <1>1, <1>2, <2>1, <2>3
    DEF Placed, ArenaKnown, TodoRight, InitPlace, Purpose, Moves, InSlowPath, Initialising,
        AfterPublication
  <2>5. HeldAt(label, << >>) = {}
    BY <2>1, HeldAtFacts
  <2> QED BY <1>1, <1>2, <1>3, <2>1, <2>3, <2>4, <2>5, QuietInv DEF Initialising
<1> QED BY <1>5, <1>6

\* With every lock held: full_unlock begins.
LEMMA UnlockingInv ==
  ASSUME ForkInv, NEW t \in Thread, At(t, "full_held"), Follow(t, "unlock", Unlocking),
         UNCHANGED <<ro, owner, proc, counter, fault>>
  PROVE  ForkInv'
<1>1. /\ t \in proc.alive /\ thr[t].pc = "full_held" /\ Typed /\ Placed(t)
      /\ counter \in 0 .. NArena - 1
  BY AtFacts
<1>2. Unlocking = From(0) /\ Unlocking \in Seq(Locks)
  BY AllLocksFrom DEF Unlocking
<1>3. Moves(t, "unlock", Unlocking) /\ thr'[t].op = thr[t].op /\ thr'[t].arena = thr[t].arena
  BY <1>1, <1>2, LabelsAre, FollowMoves
<1>4. Placed(t)'
  BY <1>1, <1>2, <1>3, LocksBasics
  DEF Placed, ArenaKnown, TodoRight, InitPlace, Purpose, Moves, InSlowPath, Initialising,
      AfterPublication
<1>5. HeldAt("unlock", Unlocking) = Locks /\ HeldAt("full_held", thr[t].todo) = Locks
  BY <1>2, HeldAtFacts, HeldFrom, LocksBasics DEF Locks
<1> QED BY <1>1, <1>3, <1>4, <1>5, QuietInv DEF Initialising

\* malloc_enable begins to give back what malloc_disable took.
LEMMA EnableInv ==
  ASSUME ForkInv, NEW t \in Thread, Enable(t) PROVE ForkInv'
BY UnlockingInv DEF Enable

\* fork in the parent: with its handlers, or before they are registered.
LEMMA ForkParentInv ==
  ASSUME ForkInv, NEW t \in Thread, ForkParent(t) PROVE ForkInv'
<1>1. CASE At(t, "fork") /\ Goto(t, "idle")
  <2>1. UNCHANGED <<ro, owner, proc, counter, fault>>
    BY DEF ForkParent
  <2>2. t \in proc.alive /\ thr[t].pc = "fork" /\ Typed /\ Placed(t) /\ counter \in 0 .. NArena - 1
    BY <1>1, AtFacts
  <2>3. Moves(t, "idle", thr[t].todo) /\ thr'[t].op = thr[t].op /\ thr'[t].arena = thr[t].arena
    BY <1>1, <2>2, LabelsAre, GotoMoves
  <2>4. Placed(t)'
    BY <2>1, <2>2, <2>3
    DEF Placed, ArenaKnown, TodoRight, InitPlace, Purpose, Moves, InSlowPath, Initialising,
        AfterPublication
  <2>5. HeldAt("idle", thr[t].todo) = {} /\ HeldAt("fork", thr[t].todo) = {}
    BY HeldAtFacts
  <2> QED BY <2>1, <2>2, <2>3, <2>4, <2>5, QuietInv DEF Initialising
<1>2. CASE At(t, "full_held") /\ Follow(t, "unlock", Unlocking)
  BY <1>2, UnlockingInv DEF ForkParent
<1> QED BY <1>1, <1>2 DEF ForkParent

\* A lock taken, and a lock released, by the calls that hold one at a time.
LEMMA TakeInv ==
  ASSUME ForkInv, NEW t \in Thread, Take(t) PROVE ForkInv'
<1> DEFINE s == thr[t].todo
<1> DEFINE l == Head(s)
<1>1. /\ At(t, "take") /\ owner[l] = NoThread /\ owner' = [owner EXCEPT ![l] = t]
      /\ Goto(t, "inside") /\ UNCHANGED <<ro, proc, counter, fault>>
  BY DEF Take, Lock, First
<1>2. /\ t \in proc.alive /\ thr[t].pc = "take" /\ Typed /\ Placed(t) /\ s \in Seq(Locks)
      /\ counter \in 0 .. NArena - 1
  BY <1>1, AtFacts
<1>3. s # << >> /\ ro.published /\ l \in Locks /\ l # InitLock
  <2>1. s # << >> /\ ro.published
    BY <1>2 DEF Placed, TodoRight, InitPlace, AfterPublication
  <2>2. l \in Locks
    BY <1>2, <2>1, HeadTailProperties
  <2> QED BY <2>1, <2>2, LocksBasics
<1>4. Moves(t, "inside", s) /\ thr'[t].op = thr[t].op /\ thr'[t].arena = thr[t].arena
  BY <1>1, <1>2, LabelsAre, GotoMoves
<1>5. Placed(t)'
  BY <1>1, <1>2, <1>3, <1>4
  DEF Placed, ArenaKnown, TodoRight, InitPlace, Purpose, Moves, InSlowPath, Initialising,
      AfterPublication
<1>6. Holding(t) = {} /\ Holding(t)' = {l}
  BY <1>2, <1>4, HoldingIs, HeldAtFacts DEF Moves
<1> HIDE DEF l, s
<1>7. owner' \in [Locks \cup {InitLock} -> Thread \cup {NoThread}] /\ owner'[l] = t
      /\ \A k \in Locks \cup {InitLock} : k # l => owner'[k] = owner[k]
  BY <1>1, <1>2, <1>3 DEF Typed
<1>8. LockStep(t)
  BY <1>1, <1>6, <1>7 DEF LockStep
<1> QED BY <1>1, <1>2, <1>3, <1>4, <1>5, <1>6, <1>7, <1>8, LocalInv DEF Initialising

\* What t holds no other thread holds.
LEMMA HeldByOne ==
  ASSUME ForkInv, NEW t \in proc.alive, NEW l \in Holding(t)
  PROVE  l \in Locks /\ owner[l] = t /\ \A u \in proc.alive : u # t => l \notin Holding(u)
BY HoldingRange DEF ForkInv, Owned

\* The end of a critical section; a call over several locks goes on to the next.
LEMMA LeaveInv ==
  ASSUME ForkInv, NEW t \in Thread, Leave(t) PROVE ForkInv'
<1> DEFINE s == thr[t].todo
<1> DEFINE l == Head(s)
<1> DEFINE label == IF Len(s) > 1 THEN "take" ELSE "idle"
<1>1. /\ At(t, "inside") /\ owner' = [owner EXCEPT ![l] = NoThread]
      /\ Follow(t, label, Tail(s)) /\ UNCHANGED <<ro, proc, counter, fault>>
  BY DEF Leave, Unlock, First, Rest
<1>2. /\ t \in proc.alive /\ thr[t].pc = "inside" /\ Typed /\ Placed(t) /\ s \in Seq(Locks)
      /\ counter \in 0 .. NArena - 1
  BY <1>1, AtFacts
<1>3. s # << >> /\ ro.published
  BY <1>2 DEF Placed, TodoRight, InitPlace, AfterPublication
<1>4. Tail(s) \in Seq(Locks) /\ (label = "take" => Tail(s) # << >>)
      /\ label \in {"take", "idle"} /\ label \in Labels
  <2>1. Tail(s) \in Seq(Locks) /\ Len(Tail(s)) = Len(s) - 1
    BY <1>2, <1>3, HeadTailProperties
  <2>2. Len(s) > 1 => Tail(s) # << >>
    <3>1. Len(s) \in Nat /\ Len(<< >>) = 0
      BY <1>2, LenProperties
    <3>2. \A n \in Nat : n > 1 => n - 1 # 0
      OBVIOUS
    <3>3. Len(s) > 1 => Len(s) - 1 # 0
      BY <3>1, <3>2
    <3> QED BY <2>1, <3>1, <3>3, Zenon
  <2> QED BY <2>1, <2>2, LabelsAre
<1> HIDE DEF label
<1>5. Moves(t, label, Tail(s)) /\ thr'[t].op = thr[t].op /\ thr'[t].arena = thr[t].arena
  BY <1>1, <1>2, <1>4, FollowMoves
<1>6. Placed(t)'
  BY <1>1, <1>2, <1>3, <1>4, <1>5
  DEF Placed, ArenaKnown, TodoRight, InitPlace, Purpose, Moves, InSlowPath, Initialising,
      AfterPublication
<1>7. Holding(t) = {l} /\ Holding(t)' = {}
  BY <1>2, <1>4, <1>5, HoldingIs, HeldAtFacts DEF Moves
<1> HIDE DEF l, s
<1>8. l \in Locks /\ l # InitLock /\ \A u \in proc.alive : u # t => l \notin Holding(u)
  BY <1>2, <1>7, HeldByOne, LocksBasics
<1>9. owner' \in [Locks \cup {InitLock} -> Thread \cup {NoThread}] /\ owner'[l] = NoThread
      /\ \A k \in Locks \cup {InitLock} : k # l => owner'[k] = owner[k]
  BY <1>1, <1>2, <1>8 DEF Typed
<1>10. LockStep(t)
  BY <1>7, <1>8, <1>9 DEF LockStep
<1> QED BY <1>1, <1>2, <1>4, <1>5, <1>6, <1>7, <1>8, <1>9, <1>10, LocalInv DEF Initialising

\* full_lock takes the next lock.
LEMMA FullLockInv ==
  ASSUME ForkInv, NEW t \in Thread, FullLock(t) PROVE ForkInv'
<1>1. At(t, "full") /\ UNCHANGED <<ro, proc, counter, fault>>
  BY DEF FullLock
<1>2. /\ t \in proc.alive /\ thr[t].pc = "full" /\ Typed /\ Placed(t)
      /\ counter \in 0 .. NArena - 1
  BY <1>1, AtFacts
<1>3. PICK m \in Locks : thr[t].todo = From(m)
  BY <1>2 DEF Placed, TodoRight
<1> DEFINE label == IF Len(From(m)) > 1 THEN "full" ELSE "full_held"
<1>4. /\ owner[m] = NoThread /\ owner' = [owner EXCEPT ![m] = t]
      /\ Follow(t, label, Tail(From(m)))
  BY <1>3, FromFacts DEF FullLock, Lock, First, Rest
<1>5. /\ m \in Nat /\ m <= NLocks /\ NLocks \in Nat /\ m # InitLock
      /\ Tail(From(m)) \in Seq(Locks) /\ label \in {"full", "full_held"} /\ label \in Labels
      /\ label = "full" => m + 1 \in Locks /\ Tail(From(m)) = From(m + 1)
      /\ label = "full_held" => m = NLocks
  BY FromFacts, LocksBasics, LabelsAre
<1> HIDE DEF label
<1>6. Moves(t, label, Tail(From(m))) /\ thr'[t].op = thr[t].op /\ thr'[t].arena = thr[t].arena
  BY <1>2, <1>4, <1>5, FollowMoves
<1>7. Placed(t)'
  BY <1>1, <1>2, <1>5, <1>6
  DEF Placed, ArenaKnown, TodoRight, InitPlace, Purpose, Moves, InSlowPath, Initialising,
      AfterPublication
<1>8. Holding(t) = 0 .. m - 1 /\ Holding(t)' = 0 .. m
  <2>1. Holding(t) = 0 .. m - 1
    BY <1>2, <1>3, HoldingIs, HeldFrom
  <2>2. CASE label = "full"
    <3>1. HeldAt("full", From(m + 1)) = 0 .. m + 1 - 1
      BY <1>5, <2>2, HeldFrom
    <3>2. Holding(t)' = HeldAt("full", From(m + 1))
      BY <1>5, <1>6, <2>2, HoldingIs DEF Moves
    <3>3. m + 1 - 1 = m
      BY <1>5
    <3> QED BY <2>1, <3>1, <3>2, <3>3
  <2>3. CASE label = "full_held"
    BY <1>5, <1>6, <2>1, <2>3, HoldingIs, HeldAtFacts DEF Moves, Locks
  <2> QED BY <1>5, <2>2, <2>3
<1>9. owner' \in [Locks \cup {InitLock} -> Thread \cup {NoThread}] /\ owner'[m] = t
      /\ \A k \in Locks \cup {InitLock} : k # m => owner'[k] = owner[k]
  BY <1>2, <1>4 DEF Typed
<1>10. LockStep(t) /\ Holding(t)' \subseteq Locks
  <2>1. \A k \in Locks : k # m => (k \in 0 .. m <=> k \in 0 .. m - 1)
    BY <1>5, LocksBasics
  <2>2. m \in 0 .. m /\ 0 .. m \subseteq Locks
    BY <1>5 DEF Locks
  <2> QED BY <1>4, <1>8, <1>9, <2>1, <2>2 DEF LockStep
<1> QED BY <1>1, <1>2, <1>5, <1>6, <1>7, <1>9, <1>10, LocalInv DEF Initialising

\* full_unlock releases the next lock.
LEMMA FullUnlockInv ==
  ASSUME ForkInv, NEW t \in Thread, FullUnlock(t) PROVE ForkInv'
<1>1. At(t, "unlock") /\ UNCHANGED <<ro, proc, counter, fault>>
  BY DEF FullUnlock
<1>2. /\ t \in proc.alive /\ thr[t].pc = "unlock" /\ Typed /\ Placed(t)
      /\ counter \in 0 .. NArena - 1
  BY <1>1, AtFacts
<1>3. PICK m \in Locks : thr[t].todo = From(m)
  BY <1>2 DEF Placed, TodoRight
<1> DEFINE last == IF thr[t].op = "memtag" THEN "memtag_unlock" ELSE "idle"
<1> DEFINE label == IF Len(From(m)) > 1 THEN "unlock" ELSE last
<1>4. owner' = [owner EXCEPT ![m] = NoThread] /\ Follow(t, label, Tail(From(m)))
  BY <1>3, FromFacts DEF FullUnlock, Unlock, First, Rest
<1>5. /\ m \in Nat /\ m <= NLocks /\ NLocks \in Nat /\ m # InitLock
      /\ Tail(From(m)) \in Seq(Locks) /\ label \in {"unlock", "memtag_unlock", "idle"}
      /\ label \in Labels
      /\ label = "unlock" => m + 1 \in Locks /\ Tail(From(m)) = From(m + 1)
      /\ label # "unlock" => m = NLocks
  BY FromFacts, LocksBasics, LabelsAre
<1> HIDE DEF label
<1>6. Moves(t, label, Tail(From(m))) /\ thr'[t].op = thr[t].op /\ thr'[t].arena = thr[t].arena
  BY <1>2, <1>4, <1>5, FollowMoves
<1>7. Placed(t)'
  BY <1>1, <1>2, <1>5, <1>6
  DEF Placed, ArenaKnown, TodoRight, InitPlace, Purpose, Moves, InSlowPath, Initialising,
      AfterPublication
<1>8. Holding(t) = m .. NLocks /\ Holding(t)' = m + 1 .. NLocks
  <2>1. Holding(t) = m .. NLocks
    BY <1>2, <1>3, HoldingIs, HeldFrom
  <2>2. CASE label = "unlock"
    <3>1. HeldAt("unlock", From(m + 1)) = m + 1 .. NLocks
      BY <1>5, <2>2, HeldFrom
    <3> QED BY <1>5, <1>6, <2>1, <2>2, <3>1, HoldingIs DEF Moves
  <2>3. CASE label # "unlock"
    <3>1. Holding(t)' = {}
      BY <1>5, <1>6, <2>3, HoldingIs, HeldAtFacts DEF Moves
    <3> QED BY <1>5, <2>1, <2>3, <3>1
  <2> QED BY <2>2, <2>3
<1>9. owner' \in [Locks \cup {InitLock} -> Thread \cup {NoThread}] /\ owner'[m] = NoThread
      /\ \A k \in Locks \cup {InitLock} : k # m => owner'[k] = owner[k]
  BY <1>2, <1>4 DEF Typed
<1>10. LockStep(t) /\ Holding(t)' \subseteq Locks
  <2>1. \A k \in Locks : k # m => (k \in m + 1 .. NLocks <=> k \in m .. NLocks)
    BY <1>5, LocksBasics
  <2>2. m \in m .. NLocks /\ m \notin m + 1 .. NLocks /\ m + 1 .. NLocks \subseteq Locks
    BY <1>5 DEF Locks
  <2>3. \A u \in proc.alive : u # t => m \notin Holding(u)
    BY <1>2, <1>8, <2>2, HeldByOne
  <2> QED BY <1>8, <1>9, <2>1, <2>2, <2>3 DEF LockStep
<1> QED BY <1>1, <1>2, <1>5, <1>6, <1>7, <1>9, <1>10, LocalInv DEF Initialising

\* A step of t that takes or gives back init_lock and holds no other lock.
LEMMA InitLockInv ==
  ASSUME ForkInv, NEW t \in proc.alive, NEW label, NEW seq, Moves(t, label, seq), Placed(t)',
         UNCHANGED <<ro, proc, counter, fault>>,
         NEW x \in {t, NoThread}, owner' = [owner EXCEPT ![InitLock] = x],
         owner[InitLock] \in {t, NoThread}, ~(proc.inits = 1 /\ ~ro.published),
         HeldAt(label, seq) = {}, HeldAt(thr[t].pc, thr[t].todo) = {},
         thr[t].pc \notin {"init_seal", "init_body", "init_publish", "memtag_write", "memtag_protect"},
         label \notin {"init_seal", "memtag_write", "full", "full_held"},
         label \in Initialising => thr[t].pc \in Initialising
  PROVE  ForkInv'
<1>1. t \in Thread /\ thr'[t].pc = label /\ thr'[t].todo = seq /\ Typed /\ t # NoThread
      /\ \A u \in proc.alive : u \in Thread /\ u # NoThread
  BY TypedFacts, LocksBasics DEF ForkInv, Moves
<1>2. Holding(t)' = {} /\ Holding(t) = {}
  BY <1>1, HoldingIs
<1>3. /\ owner' \in [Locks \cup {InitLock} -> Thread \cup {NoThread}]
      /\ \A l \in Locks : owner'[l] = owner[l]
  BY <1>1, LocksBasics DEF Typed
<1>4. LockStep(t)
  BY <1>2, <1>3 DEF LockStep
<1>5. counter' \in 0 .. NArena - 1
  BY <1>1 DEF Typed
<1> QED BY <1>1, <1>2, <1>3, <1>4, <1>5, LocalInv

\* The thread that has just got init_lock, or has it without initialising: the
\* initialisation has not begun, or is over.
LEMMA NotHalfway ==
  ASSUME ForkInv, NEW t \in proc.alive, owner[InitLock] \in {t, NoThread},
         thr[t].pc \notin {"init_body", "init_publish"}
  PROVE  ~(proc.inits = 1 /\ ~ro.published)
BY DEF ForkInv, InitState

\* init_lock is taken by a thread that needs the slow path, or that switches tagging off.
LEMMA LockInitInv ==
  ASSUME ForkInv, NEW t \in Thread, LockInit(t) \/ MemtagLock(t) PROVE ForkInv'
<1>1. PICK from \in {"init_lock", "memtag_lock"}, label \in {"init_check", "memtag_test"} :
        /\ At(t, from) /\ Goto(t, label) /\ (from = "init_lock" <=> label = "init_check")
  BY DEF LockInit, MemtagLock
<1>2. /\ owner[InitLock] = NoThread /\ owner' = [owner EXCEPT ![InitLock] = t]
      /\ UNCHANGED <<ro, proc, counter, fault>>
  BY DEF LockInit, MemtagLock, Lock
<1>3. t \in proc.alive /\ thr[t].pc = from /\ Typed /\ Placed(t) /\ label \in Labels
  BY <1>1, AtFacts, LabelsAre
<1>4. Moves(t, label, thr[t].todo) /\ thr'[t].op = thr[t].op /\ thr'[t].arena = thr[t].arena
  BY <1>1, <1>3, GotoMoves
<1>5. owner'[InitLock] = t
  BY <1>2, <1>3 DEF Typed
<1>6. Placed(t)'
  <2>1. ArenaKnown(t)'
    BY <1>1, <1>2, <1>3, <1>4 DEF Placed, ArenaKnown, Moves, InSlowPath, Initialising
  <2>2. TodoRight(t)' /\ InitPlace(t)' /\ Purpose(t)'
    BY <1>1, <1>3, <1>4, <1>5
    DEF Placed, TodoRight, InitPlace, Purpose, Moves, Initialising, AfterPublication
  <2> QED BY <2>1, <2>2 DEF Placed
<1>7. HeldAt(label, thr[t].todo) = {} /\ HeldAt(thr[t].pc, thr[t].todo) = {}
  BY <1>1, <1>3, HeldAtFacts
<1>8. ~(proc.inits = 1 /\ ~ro.published)
  BY <1>1, <1>2, <1>3, NotHalfway
<1> QED BY <1>1, <1>2, <1>3, <1>4, <1>6, <1>7, <1>8, InitLockInv DEF Initialising

\* init_lock is given back: the allocator is initialised, by this thread or another.
LEMMA UnlockInitInv ==
  ASSUME ForkInv, NEW t \in Thread, UnlockInit(t) \/ (InitCheck(t) /\ ~StillNeeded)
  PROVE  ForkInv'
<1>1. PICK from \in {"init_unlock", "init_check"}, label \in {"init_atfork", "enter"} :
        /\ At(t, from) /\ Goto(t, label) /\ (from = "init_unlock" <=> label = "init_atfork")
        /\ (from = "init_check" => ro.published)
  BY DEF UnlockInit, InitCheck, StillNeeded
<1>2. owner' = [owner EXCEPT ![InitLock] = NoThread] /\ UNCHANGED <<ro, proc, counter, fault>>
  BY DEF UnlockInit, InitCheck, Unlock
<1>3. t \in proc.alive /\ thr[t].pc = from /\ Typed /\ Placed(t) /\ label \in Labels
  BY <1>1, AtFacts, LabelsAre
<1>4. Moves(t, label, thr[t].todo) /\ thr'[t].op = thr[t].op /\ thr'[t].arena = thr[t].arena
  BY <1>1, <1>3, GotoMoves
<1>5. ro.published /\ owner[InitLock] = t
  BY <1>1, <1>3 DEF Placed, InitPlace, AfterPublication
<1>6. Placed(t)'
  <2>1. ArenaKnown(t)'
    BY <1>1, <1>2, <1>3, <1>4, <1>5 DEF Placed, ArenaKnown, Moves, InSlowPath, Initialising
  <2>2. TodoRight(t)' /\ Purpose(t)'
    BY <1>1, <1>4 DEF TodoRight, Purpose, Moves
  <2>3. InitPlace(t)'
    BY <1>1, <1>2, <1>3, <1>4, <1>5
    DEF Placed, InitPlace, Moves, Initialising, AfterPublication
  <2> QED BY <2>1, <2>2, <2>3 DEF Placed
<1>7. HeldAt(label, thr[t].todo) = {} /\ HeldAt(thr[t].pc, thr[t].todo) = {}
  BY <1>1, <1>3, HeldAtFacts
<1> QED BY ZenonT(30), <1>1, <1>2, <1>3, <1>4, <1>5, <1>6, <1>7, InitLockInv DEF Initialising

\* h_malloc_disable_memory_tagging gives init_lock back, when it took it.
LEMMA MemtagUnlockInv ==
  ASSUME ForkInv, NEW t \in Thread, MemtagUnlock(t) PROVE ForkInv'
<1>1. At(t, "memtag_unlock") /\ Goto(t, "idle") /\ UNCHANGED <<ro, proc, counter, fault>>
  BY DEF MemtagUnlock
<1>2. /\ t \in proc.alive /\ thr[t].pc = "memtag_unlock" /\ Typed /\ Placed(t)
      /\ counter \in 0 .. NArena - 1
  BY <1>1, AtFacts
<1>3. Moves(t, "idle", thr[t].todo) /\ thr'[t].op = thr[t].op /\ thr'[t].arena = thr[t].arena
  BY <1>1, <1>2, LabelsAre, GotoMoves
<1>4. Placed(t)'
  BY <1>1, <1>2, <1>3
  DEF Placed, ArenaKnown, TodoRight, InitPlace, Purpose, Moves, InSlowPath, Initialising,
      AfterPublication
<1>5. HeldAt("idle", thr[t].todo) = {} /\ HeldAt(thr[t].pc, thr[t].todo) = {}
  BY <1>2, HeldAtFacts
<1>6. CASE owner[InitLock] = t
  <2>1. owner' = [owner EXCEPT ![InitLock] = NoThread]
    BY <1>6 DEF MemtagUnlock, Unlock
  <2>2. ~(proc.inits = 1 /\ ~ro.published)
    BY <1>2, <1>6, NotHalfway
  <2>3. owner[InitLock] \in {t, NoThread} /\ NoThread \in {t, NoThread}
    BY <1>6
  <2>4. /\ "idle" \notin {"init_seal", "memtag_write", "full", "full_held"} \cup Initialising
        /\ thr[t].pc \notin {"init_seal", "init_body", "init_publish", "memtag_write",
                            "memtag_protect"}
    BY <1>2 DEF Initialising
  <2> QED BY <1>1, <1>2, <1>3, <1>4, <1>5, <2>1, <2>2, <2>3, <2>4, InitLockInv
<1>7. CASE owner[InitLock] # t
  <2>1. UNCHANGED owner
    BY <1>7 DEF MemtagUnlock
  <2> QED BY <1>1, <1>2, <1>3, <1>4, <1>5, <2>1, QuietInv DEF Initialising
<1> QED BY <1>6, <1>7

\* A step of t that may change whether ro is writable or tagging is on, but not how far
\* the initialisation is, nor any lock.
LEMMA RoInv ==
  ASSUME ForkInv, NEW t \in proc.alive, NEW label, NEW seq, Moves(t, label, seq), Placed(t)',
         UNCHANGED <<owner, counter>>, fault' \in BOOLEAN,
         ro' \in RoData,
         ro'.published = ro.published, ro'.ready = ro.ready, ~ro.published => ro'.writable,
         proc' \in Process,
         proc'.alive = proc.alive, proc'.registered = proc.registered,
         proc'.inits = proc.inits, proc'.early = proc.early,
         HeldAt(label, seq) = HeldAt(thr[t].pc, thr[t].todo),
         thr[t].pc \notin {"init_body", "init_publish"},
         label \in Initialising => thr[t].pc \in Initialising,
         Unraced', ReadOnlyAfterInit'
  PROVE  ForkInv'
<1>1. /\ t \in Thread /\ thr'[t].pc = label /\ thr'[t].todo = seq
      /\ \A u \in Thread : u # t => thr'[u] = thr[u]
      /\ \A u \in proc.alive : u \in Thread
  BY TypedFacts DEF ForkInv, Moves
<1>2. Typed'
  BY DEF ForkInv, Typed, Moves
<1>3. \A u \in proc.alive : Placed(u)'
  BY <1>1, OthersPlaced DEF ForkInv
<1>4. OneInitialises'
  BY <1>1 DEF ForkInv, OneInitialises
<1>5. InitState'
  BY <1>1 DEF ForkInv, InitState
<1>6. Holding(t)' = Holding(t) /\ Holding(t) \subseteq Locks
  BY <1>1, HoldingIs, HoldingRange
<1>7. LockStep(t)
  BY <1>6 DEF LockStep
<1>8. Owned' /\ LocksAccounted'
  BY <1>1, <1>6, <1>7, LocksKept
<1> QED BY <1>2, <1>3, <1>4, <1>5, <1>8 DEF ForkInv

\* The end of init_slow_path makes ro read-only.
LEMMA SealInv ==
  ASSUME ForkInv, NEW t \in Thread, Seal(t) PROVE ForkInv'
<1>1. At(t, "init_seal") /\ Goto(t, "init_unlock") /\ ro' = [ro EXCEPT !.writable = FALSE]
      /\ UNCHANGED <<owner, proc, counter, fault>>
  BY DEF Seal, SealedRo
<1>2. t \in proc.alive /\ thr[t].pc = "init_seal" /\ Typed /\ Placed(t)
  BY <1>1, AtFacts
<1>3. /\ ro' \in RoData
      /\ ro'.published = ro.published /\ ro'.ready = ro.ready /\ ~ro'.writable
  BY <1>1, <1>2 DEF Typed, RoData
<1>4. Moves(t, "init_unlock", thr[t].todo) /\ thr'[t].op = thr[t].op /\ thr'[t].arena = thr[t].arena
  BY <1>1, <1>2, LabelsAre, GotoMoves
<1>5. ro.published
  BY <1>2 DEF Placed, InitPlace, AfterPublication
<1>6. Placed(t)'
  BY <1>1, <1>2, <1>3, <1>4, <1>5
  DEF Placed, ArenaKnown, TodoRight, InitPlace, Purpose, Moves, InSlowPath, Initialising,
      AfterPublication
<1>7. HeldAt("init_unlock", thr[t].todo) = HeldAt(thr[t].pc, thr[t].todo)
  BY ZenonT(30), <1>2, HeldAtFacts
<1>8. \A u \in proc.alive : u \in Thread
  BY <1>2, TypedFacts
<1>9. Unraced'
  BY <1>1, <1>2, <1>4, <1>8 DEF ForkInv, Unraced, Moves
<1>10. ReadOnlyAfterInit'
  BY <1>1, <1>3 DEF ForkInv, ReadOnlyAfterInit
<1>11. /\ fault' \in BOOLEAN
       /\ proc' \in Process
  BY <1>1, <1>2 DEF Typed
<1> QED BY <1>1, <1>2, <1>3, <1>4, <1>5, <1>6, <1>7, <1>9, <1>10, <1>11, RoInv DEF Initialising

\* With every lock held, ro is made writable,
LEMMA MemtagUnprotectInv ==
  ASSUME ForkInv, NEW t \in Thread, MemtagUnprotect(t) PROVE ForkInv'
<1>1. CASE ro.untagged
  BY <1>1, UnlockingInv DEF MemtagUnprotect
<1>2. CASE ~ro.untagged
  <2>1. /\ At(t, "full_held") /\ thr[t].op = "memtag" /\ Goto(t, "memtag_write")
        /\ ro' = [ro EXCEPT !.writable = TRUE] /\ UNCHANGED <<owner, proc, counter, fault>>
    BY <1>2 DEF MemtagUnprotect, Unprotected
  <2>2. t \in proc.alive /\ thr[t].pc = "full_held" /\ Typed /\ Placed(t)
    BY <2>1, AtFacts
  <2>3. /\ ro' \in RoData
        /\ ro'.published = ro.published /\ ro'.ready = ro.ready /\ ro'.writable
    BY <2>1, <2>2 DEF Typed, RoData
  <2>4. Moves(t, "memtag_write", thr[t].todo) /\ thr'[t].op = thr[t].op
        /\ thr'[t].arena = thr[t].arena
    BY <2>1, <2>2, LabelsAre, GotoMoves
  <2>5. Placed(t)'
    BY <2>1, <2>2, <2>3, <2>4
    DEF Placed, ArenaKnown, TodoRight, InitPlace, Purpose, Moves, InSlowPath, Initialising,
        AfterPublication
  <2>6. HeldAt("memtag_write", thr[t].todo) = HeldAt(thr[t].pc, thr[t].todo)
    BY <2>2, HeldAtFacts
  <2>7. \A u \in proc.alive : u \in Thread
    BY <2>2, TypedFacts
  <2>8. Unraced'
    BY <2>1, <2>2, <2>3, <2>4, <2>7 DEF ForkInv, Unraced, Moves
  <2>9. ReadOnlyAfterInit'
    BY <2>1, <2>2, <2>4 DEF ForkInv, ReadOnlyAfterInit, Moves
  <2>10. /\ fault' \in BOOLEAN
         /\ proc' \in Process
    BY <2>1, <2>2 DEF Typed
  <2> QED BY <2>1, <2>2, <2>3, <2>4, <2>5, <2>6, <2>8, <2>9, <2>10, RoInv DEF Initialising
<1> QED BY <1>1, <1>2

\* the flag is written,
LEMMA MemtagWriteInv ==
  ASSUME ForkInv, NEW t \in Thread, MemtagWrite(t) PROVE ForkInv'
<1>1. /\ At(t, "memtag_write") /\ Goto(t, "memtag_protect") /\ fault' = ~ro.writable
      /\ ro' = [ro EXCEPT !.untagged = TRUE] /\ UNCHANGED <<owner, proc, counter>>
  BY DEF MemtagWrite, Store
<1>2. t \in proc.alive /\ thr[t].pc = "memtag_write" /\ Typed /\ Placed(t)
  BY <1>1, AtFacts
<1>3. /\ ro' \in RoData
      /\ ro'.published = ro.published /\ ro'.ready = ro.ready /\ ro'.writable = ro.writable
  BY <1>1, <1>2 DEF Typed, RoData
<1>4. Moves(t, "memtag_protect", thr[t].todo) /\ thr'[t].op = thr[t].op
      /\ thr'[t].arena = thr[t].arena
  BY <1>1, <1>2, LabelsAre, GotoMoves
<1>5. Placed(t)'
  BY <1>1, <1>2, <1>3, <1>4
  DEF Placed, ArenaKnown, TodoRight, InitPlace, Purpose, Moves, InSlowPath, Initialising,
      AfterPublication
<1>6. HeldAt("memtag_protect", thr[t].todo) = HeldAt(thr[t].pc, thr[t].todo)
  BY <1>2, HeldAtFacts
<1>7. \A u \in proc.alive : u \in Thread
  BY <1>2, TypedFacts
<1>8. Unraced'
  BY <1>1, <1>2, <1>3, <1>4, <1>7 DEF ForkInv, Unraced, Moves
<1>9. ReadOnlyAfterInit'
  <2>1. thr[t].op = "memtag"
    BY <1>2 DEF Placed, Purpose
  <2>2. ~proc.raced => ro.writable
    BY <1>2, <2>1 DEF ForkInv, Unraced
  <2>3. t \in proc'.alive /\ thr'[t].pc = "memtag_protect"
    BY <1>1, <1>2, <1>4 DEF Moves
  <2>4. fault' => proc'.raced
    BY <1>1, <2>2
  <2> QED BY <2>3, <2>4 DEF ReadOnlyAfterInit
<1>10. /\ fault' \in BOOLEAN /\ (~ro.published => ro'.writable)
       /\ proc' \in Process
  BY <1>1, <1>2, <1>3 DEF Typed, ForkInv, InitState
<1> QED BY <1>1, <1>2, <1>3, <1>4, <1>5, <1>6, <1>8, <1>9, <1>10, RoInv DEF Initialising

\* and ro is made read-only again.
LEMMA MemtagProtectInv ==
  ASSUME ForkInv, NEW t \in Thread, MemtagProtect(t) PROVE ForkInv'
<1>1. /\ At(t, "memtag_protect") /\ Follow(t, "unlock", Unlocking)
      /\ ro' = [ro EXCEPT !.writable = FALSE] /\ UNCHANGED <<owner, proc, counter, fault>>
  BY DEF MemtagProtect
<1>2. t \in proc.alive /\ thr[t].pc = "memtag_protect" /\ Typed /\ Placed(t)
  BY <1>1, AtFacts
<1>3. /\ ro' \in RoData
      /\ ro'.published = ro.published /\ ro'.ready = ro.ready /\ ~ro'.writable
  BY <1>1, <1>2 DEF Typed, RoData
<1>4. Unlocking = From(0) /\ Unlocking \in Seq(Locks)
  BY AllLocksFrom DEF Unlocking
<1>5. Moves(t, "unlock", Unlocking) /\ thr'[t].op = thr[t].op /\ thr'[t].arena = thr[t].arena
  BY <1>1, <1>2, <1>4, LabelsAre, FollowMoves
<1>6. ro.published
  BY <1>2 DEF Placed, InitPlace, AfterPublication
<1>7. Placed(t)'
  BY <1>1, <1>2, <1>3, <1>4, <1>5, <1>6, LocksBasics
  DEF Placed, ArenaKnown, TodoRight, InitPlace, Purpose, Moves, InSlowPath, Initialising,
      AfterPublication
<1>8. HeldAt("unlock", Unlocking) = Locks /\ HeldAt(thr[t].pc, thr[t].todo) = Locks
  BY <1>2, <1>4, HeldAtFacts, HeldFrom, LocksBasics DEF Locks
<1>9. \A u \in proc.alive : u \in Thread
  BY <1>2, TypedFacts
<1>10. \A u \in proc.alive : u # t => thr[u].pc # "memtag_write"
  <2>1. 0 \in Holding(t)
    BY <1>8, HoldingIs, LocksBasics
  <2>2. \A u \in proc.alive : thr[u].pc = "memtag_write" => 0 \in Holding(u)
    BY <1>9, HoldingIs, HeldAtFacts, LocksBasics
  <2> QED BY <1>2, <2>1, <2>2, HeldByOne
<1>11. Unraced'
  BY <1>1, <1>2, <1>5, <1>9, <1>10 DEF ForkInv, Unraced, Moves
<1>12. ReadOnlyAfterInit'
  BY <1>1, <1>3 DEF ForkInv, ReadOnlyAfterInit
<1>13. /\ fault' \in BOOLEAN
       /\ proc' \in Process
  BY <1>1, <1>2 DEF Typed
<1> QED BY <1>1, <1>2, <1>3, <1>5, <1>6, <1>7, <1>8, <1>11, <1>12, <1>13, RoInv DEF Initialising

\* h_malloc_disable_memory_tagging looks whether the allocator is initialised.
LEMMA MemtagTestInv ==
  ASSUME ForkInv, NEW t \in Thread, MemtagTest(t) PROVE ForkInv'
<1>1. At(t, "memtag_test") /\ UNCHANGED <<owner, counter>>
  BY DEF MemtagTest
<1>2. t \in proc.alive /\ thr[t].pc = "memtag_test" /\ Typed /\ Placed(t) /\ thr[t].op = "memtag"
  BY <1>1, AtFacts DEF Placed, Purpose
<1>3. \A u \in proc.alive : u \in Thread
  BY <1>2, TypedFacts
<1>4. HeldAt(thr[t].pc, thr[t].todo) = {}
  BY <1>2, HeldAtFacts
<1>5. CASE ro.published
  <2>1. /\ Follow(t, "full", AllLocks) /\ UNCHANGED <<ro, fault>>
        /\ proc' = [proc EXCEPT !.raced = proc.raced \/ \E u \in proc.alive : thr[u].pc = "init_seal"]
    BY <1>5 DEF MemtagTest
  <2>2. /\ proc' \in Process /\ proc'.alive = proc.alive /\ proc'.registered = proc.registered
        /\ proc'.inits = proc.inits /\ proc'.early = proc.early
        /\ proc'.raced <=> proc.raced \/ \E u \in proc.alive : thr[u].pc = "init_seal"
    BY <1>2, <2>1 DEF Typed, Process
  <2>3. Moves(t, "full", AllLocks) /\ thr'[t].op = thr[t].op /\ thr'[t].arena = thr[t].arena
    BY <1>2, <2>1, AllLocksFrom, LabelsAre, FollowMoves
  <2>4. Placed(t)'
    BY <1>2, <1>5, <2>1, <2>2, <2>3, AllLocksFrom, LocksBasics
    DEF Placed, ArenaKnown, TodoRight, InitPlace, Purpose, Moves, InSlowPath, Initialising,
        AfterPublication
  <2>5. HeldAt("full", AllLocks) = {}
    BY AllLocksFrom, HeldFrom, LocksBasics
  <2>6. Unraced'
    BY <1>2, <1>3, <2>1, <2>2, <2>3 DEF ForkInv, Unraced, Moves
  <2>7. ReadOnlyAfterInit'
    BY <1>2, <1>3, <2>1, <2>2, <2>3 DEF ForkInv, ReadOnlyAfterInit, Moves
  <2>8. fault' \in BOOLEAN /\ ro' \in RoData /\ ro'.published = ro.published /\ ro'.ready = ro.ready
    BY <1>2, <2>1 DEF Typed
  <2> QED BY <1>1, <1>2, <1>4, <1>5, <2>2, <2>3, <2>4, <2>5, <2>6, <2>7, <2>8, RoInv
          DEF Initialising
<1>6. CASE ~ro.published
  <2>1. /\ Goto(t, "memtag_unlock") /\ UNCHANGED proc /\ fault' = ~ro.writable
        /\ ro' = [ro EXCEPT !.untagged = TRUE]
    BY <1>6 DEF MemtagTest, Store
  <2>2. /\ ro' \in RoData
        /\ ro'.published = ro.published /\ ro'.ready = ro.ready /\ ro'.writable = ro.writable
    BY <1>2, <2>1 DEF Typed, RoData
  <2>3. Moves(t, "memtag_unlock", thr[t].todo) /\ thr'[t].op = thr[t].op
        /\ thr'[t].arena = thr[t].arena
    BY <1>2, <2>1, LabelsAre, GotoMoves
  <2>4. Placed(t)'
    BY <1>2, <2>1, <2>2, <2>3
    DEF Placed, ArenaKnown, TodoRight, InitPlace, Purpose, Moves, InSlowPath, Initialising,
        AfterPublication
  <2>5. HeldAt("memtag_unlock", thr[t].todo) = {}
    BY HeldAtFacts
  <2>6. Unraced'
    BY <1>2, <1>3, <2>1, <2>2, <2>3 DEF ForkInv, Unraced, Moves
  <2>7. ro.writable /\ fault' = FALSE
    BY <1>6, <2>1 DEF ForkInv, InitState
  <2>8. ReadOnlyAfterInit'
    BY <1>6, <2>2, <2>7 DEF ReadOnlyAfterInit
  <2>9. proc' \in Process /\ proc'.alive = proc.alive /\ proc'.registered = proc.registered
        /\ proc'.inits = proc.inits /\ proc'.early = proc.early
    BY <1>2, <2>1 DEF Typed
  <2> QED BY <1>1, <1>2, <1>4, <2>2, <2>3, <2>4, <2>5, <2>6, <2>7, <2>8, <2>9, RoInv
          DEF Initialising
<1> QED BY <1>5, <1>6

\* While the allocator is not initialised no lock is held, and tagging is not switched off
\* in the way that needs the locks.
LEMMA BeforePublication ==
  ASSUME ForkInv, ~ro.published, NEW u \in proc.alive
  PROVE  Holding(u) = {} /\ thr[u].pc \notin {"full", "full_held", "memtag_write"}
<1>1. u \in Thread /\ Placed(u)
  BY TypedFacts DEF ForkInv
<1>2. thr[u].pc \notin AfterPublication
  BY <1>1 DEF Placed, InitPlace
<1>3. thr[u].pc \notin {"inside", "full", "full_held", "memtag_write", "memtag_protect", "child",
                        "unlock"}
  BY <1>2 DEF AfterPublication
<1> QED BY <1>1, <1>3, HoldingIs, HeldAtFacts

\* The second look at is_init: this thread initialises the allocator.
LEMMA InitCheckInv ==
  ASSUME ForkInv, NEW t \in Thread, InitCheck(t), StillNeeded PROVE ForkInv'
<1>1. /\ At(t, "init_check") /\ ~ro.published /\ Follow(t, "init_body", AllLocks)
      /\ proc' = [proc EXCEPT !.inits = proc.inits + 1] /\ UNCHANGED <<ro, owner, counter, fault>>
  BY DEF InitCheck, StillNeeded
<1>2. t \in proc.alive /\ thr[t].pc = "init_check" /\ Typed /\ Placed(t)
  BY <1>1, AtFacts
<1>3. owner[InitLock] = t /\ t # NoThread
  BY <1>2, LocksBasics DEF Placed, InitPlace
<1>4. proc.inits = 0 /\ ro.ready = {} /\ ~proc.registered
  BY <1>1, <1>2, <1>3, NotHalfway DEF ForkInv, InitState
<1>5. /\ proc' \in Process /\ proc'.alive = proc.alive /\ proc'.registered = proc.registered
      /\ proc'.inits = 1 /\ proc'.early = proc.early /\ proc'.raced = proc.raced
  BY <1>1, <1>2, <1>4 DEF Typed, Process
<1>6. Moves(t, "init_body", AllLocks) /\ thr'[t].op = thr[t].op /\ thr'[t].arena = thr[t].arena
  BY <1>1, <1>2, AllLocksFrom, LabelsAre, FollowMoves
<1>7. \A u \in proc.alive : u \in Thread /\ Placed(u) /\ thr[u].pc \notin Initialising
  BY <1>2, <1>4, TypedFacts DEF ForkInv, Placed, InitPlace
<1>8. Placed(t)'
  <2>1. ArenaKnown(t)' /\ Purpose(t)'
    BY <1>1, <1>2, <1>6 DEF Placed, ArenaKnown, Purpose, Moves, InSlowPath, Initialising
  <2>2. TodoRight(t)'
    <3>1. 0 .. 0 - 1 = {}
      OBVIOUS
    <3> QED BY <1>1, <1>4, <1>6, <3>1, AllLocksFrom, LocksBasics DEF TodoRight, Moves
  <2>3. InitPlace(t)'
    BY <1>1, <1>3, <1>4, <1>5, <1>6 DEF InitPlace, Moves, Initialising, AfterPublication
  <2> QED BY <2>1, <2>2, <2>3 DEF Placed
<1>9. \A u \in proc.alive : u # t => thr'[u] = thr[u]
  BY <1>6, <1>7 DEF Moves
<1>10. \A u \in proc.alive : Placed(u)'
  BY <1>1, <1>5, <1>7, <1>8, <1>9, OthersPlaced
<1>11. Typed'
  BY <1>1, <1>2, <1>5, <1>6 DEF Typed, Moves
<1>12. OneInitialises'
  BY <1>5, <1>7, <1>9 DEF OneInitialises
<1>13. InitState'
  BY <1>1, <1>3, <1>4, <1>5, <1>6 DEF ForkInv, InitState, Moves
<1>14. Unraced'
  BY <1>1, <1>5, <1>6, <1>9, BeforePublication DEF Unraced, Moves
<1>15. ReadOnlyAfterInit'
  BY <1>1, <1>5 DEF ForkInv, ReadOnlyAfterInit
<1>16. Holding(t)' = {} /\ Holding(t) = {}
  BY <1>2, <1>6, HoldingIs, HeldAtFacts DEF Moves
<1>17. LockStep(t)
  BY <1>1, <1>16 DEF LockStep
<1>18. Owned' /\ LocksAccounted'
  BY <1>2, <1>5, <1>6, <1>16, <1>17, LocksKept DEF Moves
<1> QED BY <1>5, <1>10, <1>11, <1>12, <1>13, <1>14, <1>15, <1>18 DEF ForkInv

\* init_slow_path initialises one lock and what it protects.
LEMMA InitBodyInv ==
  ASSUME ForkInv, NEW t \in Thread, InitBody(t) PROVE ForkInv'
<1>1. At(t, "init_body") /\ fault' = ~ro.writable /\ UNCHANGED <<proc, counter>>
  BY DEF InitBody, Store
<1>2. t \in proc.alive /\ thr[t].pc = "init_body" /\ Typed /\ Placed(t)
  BY <1>1, AtFacts
<1>3. PICK m \in Locks : thr[t].todo = From(m) /\ ro.ready = 0 .. m - 1
  BY <1>2 DEF Placed, TodoRight
<1> DEFINE label == IF Len(From(m)) > 1 THEN "init_body" ELSE "init_publish"
<1>4. /\ ro' = [ro EXCEPT !.ready = (0 .. m - 1) \cup {m}]
      /\ owner' = [owner EXCEPT ![m] = NoThread] /\ Follow(t, label, Tail(From(m)))
  BY <1>3, FromFacts DEF InitBody, Unlock, First, Rest
<1>5. /\ m \in Nat /\ m <= NLocks /\ NLocks \in Nat /\ m # InitLock
      /\ Tail(From(m)) \in Seq(Locks) /\ label \in {"init_body", "init_publish"} /\ label \in Labels
      /\ label = "init_body" => m + 1 \in Locks /\ Tail(From(m)) = From(m + 1)
      /\ label = "init_publish" => m = NLocks
  BY FromFacts, LocksBasics, LabelsAre
<1> HIDE DEF label
<1>6. Moves(t, label, Tail(From(m))) /\ thr'[t].op = thr[t].op /\ thr'[t].arena = thr[t].arena
  BY <1>2, <1>4, <1>5, FollowMoves
<1>7. (0 .. m - 1) \cup {m} = 0 .. m /\ 0 .. m \subseteq Locks
  BY <1>5 DEF Locks
<1>8. /\ ro' \in RoData /\ ro'.published = ro.published /\ ro'.ready = 0 .. m
      /\ ro'.writable = ro.writable
  BY <1>2, <1>4, <1>7 DEF Typed, RoData
<1>9. ~ro.published /\ owner[InitLock] = t /\ proc.inits = 1 /\ ~proc.registered /\ ro.writable
      /\ t # NoThread
  BY <1>2, LocksBasics DEF Placed, InitPlace, Initialising, ForkInv, InitState
<1>10. owner' \in [Locks \cup {InitLock} -> Thread \cup {NoThread}] /\ owner'[m] = NoThread
       /\ \A k \in Locks \cup {InitLock} : k # m => owner'[k] = owner[k]
  BY <1>2, <1>4 DEF Typed
<1>11. owner'[InitLock] = t
  BY <1>5, <1>9, <1>10
<1>12. Placed(t)'
  <2>1. ArenaKnown(t)' /\ Purpose(t)'
    BY <1>2, <1>5, <1>6 DEF Placed, ArenaKnown, Purpose, Moves, InSlowPath, Initialising
  <2>2. TodoRight(t)'
    <3>1. 0 .. m = 0 .. m + 1 - 1
      BY <1>5
    <3> QED BY <1>5, <1>6, <1>8, <3>1 DEF TodoRight, Moves
  <2>3. InitPlace(t)'
    BY <1>1, <1>5, <1>6, <1>8, <1>9, <1>11 DEF InitPlace, Moves, Initialising, AfterPublication, Locks
  <2> QED BY <2>1, <2>2, <2>3 DEF Placed
<1>13. \A u \in proc.alive : u \in Thread /\ Placed(u) /\ (u # t => thr[u].pc \notin Initialising)
  BY <1>2, TypedFacts DEF ForkInv, OneInitialises, Initialising
<1>14. \A u \in proc.alive : u # t => thr'[u] = thr[u]
  BY <1>6, <1>13 DEF Moves
<1>15. \A u \in proc.alive : Placed(u)'
  BY <1>1, <1>8, <1>9, <1>11, <1>12, <1>13, <1>14, OthersPlaced
<1>16. fault' = FALSE
  BY <1>1, <1>9
<1>17. Typed'
  BY <1>1, <1>2, <1>6, <1>8, <1>10, <1>16 DEF Typed, Moves
<1>18. OneInitialises'
  BY <1>1, <1>13, <1>14 DEF OneInitialises
<1>19. InitState'
  BY <1>1, <1>5, <1>6, <1>8, <1>9, <1>11 DEF ForkInv, InitState, Moves
<1>20. Unraced'
  BY <1>1, <1>5, <1>6, <1>9, <1>14, BeforePublication DEF Unraced, Moves
<1>21. ReadOnlyAfterInit'
  BY <1>8, <1>9, <1>16 DEF ReadOnlyAfterInit
<1>22. Holding(t)' = {} /\ Holding(t) = {}
  BY <1>2, <1>5, <1>6, HoldingIs, HeldAtFacts DEF Moves
<1>23. LockStep(t)
  BY <1>9, <1>10, <1>22, BeforePublication DEF LockStep
<1>24. Owned' /\ LocksAccounted'
  BY <1>1, <1>2, <1>6, <1>22, <1>23, LocksKept DEF Moves
<1> QED BY <1>1, <1>15, <1>17, <1>18, <1>19, <1>20, <1>21, <1>24 DEF ForkInv

\* slab_region_end is set: from now on is_init is true.
LEMMA PublishInv ==
  ASSUME ForkInv, NEW t \in Thread, Publish(t) PROVE ForkInv'
<1>1. /\ At(t, "init_publish") /\ Goto(t, "init_seal") /\ fault' = ~ro.writable
      /\ ro' = [ro EXCEPT !.published = TRUE] /\ UNCHANGED <<owner, proc, counter>>
  BY DEF Publish, Store
<1>2. t \in proc.alive /\ thr[t].pc = "init_publish" /\ Typed /\ Placed(t)
  BY <1>1, AtFacts
<1>3. /\ ~ro.published /\ owner[InitLock] = t /\ proc.inits = 1 /\ ~proc.registered /\ ro.writable
      /\ ro.ready = Locks
  BY <1>2 DEF Placed, InitPlace, Initialising, ForkInv, InitState
<1>4. /\ ro' \in RoData /\ ro'.published /\ ro'.ready = ro.ready /\ ro'.writable = ro.writable
  BY <1>1, <1>2 DEF Typed, RoData
<1>5. Moves(t, "init_seal", thr[t].todo) /\ thr'[t].op = thr[t].op /\ thr'[t].arena = thr[t].arena
  BY <1>1, <1>2, LabelsAre, GotoMoves
<1>6. Placed(t)'
  BY <1>1, <1>2, <1>3, <1>4, <1>5
  DEF Placed, ArenaKnown, TodoRight, InitPlace, Purpose, Moves, InSlowPath, Initialising,
      AfterPublication
<1>7. \A u \in proc.alive : u \in Thread /\ Placed(u) /\ (u # t => thr[u].pc \notin Initialising)
  BY <1>2, TypedFacts DEF ForkInv, OneInitialises, Initialising
<1>8. \A u \in proc.alive : u # t => thr'[u] = thr[u]
  BY <1>5, <1>7 DEF Moves
<1>9. \A u \in proc.alive : Placed(u)'
  BY <1>1, <1>4, <1>6, <1>7, <1>8, OthersPlaced
<1>10. fault' = FALSE
  BY <1>1, <1>3
<1>11. Typed'
  BY <1>1, <1>2, <1>4, <1>5, <1>10 DEF Typed, Moves
<1>12. OneInitialises'
  BY <1>1, <1>7, <1>8 DEF OneInitialises
<1>13. InitState'
  BY <1>1, <1>3, <1>4 DEF ForkInv, InitState
<1>14. Unraced'
  BY <1>1, <1>3, <1>5, <1>8, BeforePublication DEF Unraced, Moves
<1>15. ReadOnlyAfterInit'
  BY <1>1, <1>2, <1>5, <1>10 DEF ReadOnlyAfterInit, Moves
<1>16. Holding(t)' = {} /\ Holding(t) = {}
  BY <1>2, <1>5, HoldingIs, HeldAtFacts DEF Moves
<1>17. LockStep(t)
  BY <1>1, <1>16 DEF LockStep
<1>18. Owned' /\ LocksAccounted'
  BY <1>1, <1>2, <1>5, <1>16, <1>17, LocksKept DEF Moves
<1> QED BY <1>1, <1>9, <1>11, <1>12, <1>13, <1>14, <1>15, <1>18 DEF ForkInv

\* pthread_atfork: from now on a fork takes every lock.
LEMMA RegisterInv ==
  ASSUME ForkInv, NEW t \in Thread, Register(t) PROVE ForkInv'
<1>1. /\ At(t, "init_atfork") /\ Goto(t, "enter") /\ proc' = [proc EXCEPT !.registered = TRUE]
      /\ UNCHANGED <<ro, owner, counter, fault>>
  BY DEF Register
<1>2. t \in proc.alive /\ thr[t].pc = "init_atfork" /\ Typed /\ Placed(t)
  BY <1>1, AtFacts
<1>3. ro.published
  BY <1>2 DEF Placed, InitPlace, AfterPublication
<1>4. /\ proc' \in Process /\ proc'.alive = proc.alive /\ proc'.registered
      /\ proc'.inits = proc.inits /\ proc'.early = proc.early /\ proc'.raced = proc.raced
  BY <1>1, <1>2 DEF Typed, Process
<1>5. Moves(t, "enter", thr[t].todo) /\ thr'[t].op = thr[t].op /\ thr'[t].arena = thr[t].arena
  BY <1>1, <1>2, LabelsAre, GotoMoves
<1>6. Placed(t)'
  BY <1>1, <1>2, <1>3, <1>4, <1>5
  DEF Placed, ArenaKnown, TodoRight, InitPlace, Purpose, Moves, InSlowPath, Initialising,
      AfterPublication
<1>7. \A u \in proc.alive : u \in Thread /\ Placed(u) /\ (u # t => thr[u].pc \notin Initialising)
  BY <1>2, TypedFacts DEF ForkInv, OneInitialises, Initialising
<1>8. \A u \in proc.alive : u # t => thr'[u] = thr[u]
  BY <1>5, <1>7 DEF Moves
<1>9. \A u \in proc.alive : Placed(u)'
  BY <1>1, <1>4, <1>6, <1>7, <1>8, OthersPlaced
<1>10. Typed'
  BY <1>1, <1>2, <1>4, <1>5 DEF Typed, Moves
<1>11. OneInitialises'
  BY <1>4, <1>7, <1>8 DEF OneInitialises
<1>12. InitState'
  BY <1>1, <1>3, <1>4 DEF ForkInv, InitState
<1>13. Unraced'
  BY <1>1, <1>2, <1>4, <1>5, <1>7, <1>8 DEF ForkInv, Unraced, Moves
<1>14. ReadOnlyAfterInit'
  BY <1>1, <1>2, <1>4, <1>5, <1>8 DEF ForkInv, ReadOnlyAfterInit, Moves
<1>15. Holding(t)' = {} /\ Holding(t) = {}
  BY <1>2, <1>5, HoldingIs, HeldAtFacts DEF Moves
<1>16. LockStep(t)
  BY <1>1, <1>15 DEF LockStep
<1>17. Owned' /\ LocksAccounted'
  BY <1>2, <1>4, <1>5, <1>15, <1>16, LocksKept DEF Moves
<1> QED BY <1>4, <1>9, <1>10, <1>11, <1>12, <1>13, <1>14, <1>17 DEF ForkInv

\* The caller of fork goes on as the only thread of the child.
LEMMA ForkChildInv ==
  ASSUME ForkInv, NEW t \in Thread, ForkChild(t) PROVE ForkInv'
<1>1. PICK from \in {"fork", "full_held"}, label \in {"idle", "child"} :
        /\ At(t, from) /\ Goto(t, label) /\ (from = "fork" <=> label = "idle")
        /\ from = "full_held" => thr[t].op = "fork"
  BY DEF ForkChild
<1>2. t \in proc.alive /\ thr[t].pc = from /\ Typed /\ Placed(t) /\ label \in Labels
  BY <1>1, AtFacts, LabelsAre
<1>3. proc' = [proc EXCEPT !.alive = {t}, !.early = proc.early \/ thr[t].pc = "fork"]
      /\ UNCHANGED <<ro, owner, counter, fault>>
  BY DEF ForkChild
<1>4. /\ proc' \in Process /\ proc'.alive = {t} /\ proc'.registered = proc.registered
      /\ proc'.inits = proc.inits /\ proc'.raced = proc.raced
      /\ proc'.early <=> proc.early \/ from = "fork"
  BY <1>2, <1>3 DEF Typed, Process
<1>5. Moves(t, label, thr[t].todo) /\ thr'[t].op = thr[t].op /\ thr'[t].arena = thr[t].arena
  BY <1>1, <1>2, GotoMoves
<1>6. Placed(t)'
  BY <1>1, <1>2, <1>3, <1>4, <1>5
  DEF Placed, ArenaKnown, TodoRight, InitPlace, Purpose, Moves, InSlowPath, Initialising,
      AfterPublication
<1>7. Typed'
  BY <1>2, <1>3, <1>4, <1>5 DEF Typed, Moves
<1>8. OneInitialises'
  BY <1>4 DEF OneInitialises
<1>9. InitState'
  BY <1>1, <1>2, <1>3, <1>4 DEF ForkInv, InitState
<1>10. Unraced'
  BY <1>1, <1>4, <1>5 DEF Unraced, Moves
<1>11. CASE from = "fork"
  <2>1. Holding(t)' = {}
    BY <1>1, <1>5, <1>11, HoldingIs, HeldAtFacts DEF Moves
  <2>2. Owned'
    BY <1>4, <2>1 DEF Owned
  <2>3. proc'.early
    BY <1>4, <1>11
  <2>4. LocksAccounted'
    <3>1. Holding(t) = {}
      BY <1>1, <1>2, <1>11, HoldingIs, HeldAtFacts
    <3>2. \A l \in Locks : owner'[l] # t \/ owner'[l] = NoThread
      BY <1>2, <1>3, <3>1 DEF ForkInv, LocksAccounted
    <3> QED BY <1>4, <2>3, <3>2, AccountedNext
  <2>5. ReadOnlyAfterInit'
    BY <1>3, <1>4, <2>3 DEF ForkInv, ReadOnlyAfterInit
  <2> QED BY <1>4, <1>6, <1>7, <1>8, <1>9, <1>10, <2>2, <2>4, <2>5 DEF ForkInv
<1>12. CASE from = "full_held"
  <2>1. Holding(t)' = Locks /\ Holding(t) = Locks /\ thr'[t].pc = "child"
    BY <1>1, <1>2, <1>5, <1>12, HoldingIs, HeldAtFacts DEF Moves
  <2>2. \A l \in Locks : owner'[l] = t
    BY <1>2, <1>3, <2>1 DEF ForkInv, Owned
  <2>3. Owned'
    BY <1>4, <2>1, <2>2 DEF Owned
  <2>4. LocksAccounted'
    BY <1>4, <2>1, <2>2, AccountedNext, HeldAtFacts
  <2>5. \A u \in proc.alive : thr[u].pc \notin {"init_seal", "memtag_write", "memtag_protect"}
    <3> SUFFICES ASSUME NEW u \in proc.alive
                 PROVE  thr[u].pc \notin {"init_seal", "memtag_write", "memtag_protect"}
      OBVIOUS
    <3>1. u \in Thread /\ Placed(u)
      BY TypedFacts DEF ForkInv
    <3>2. proc.registered
      BY <1>1, <1>2, <1>12 DEF Placed, Purpose
    <3>3. thr[u].pc # "init_seal"
      BY <3>1, <3>2 DEF Placed, InitPlace, Initialising
    <3>4. CASE u = t
      BY <1>2, <1>12, <3>4
    <3>5. CASE u # t
      <4>1. 0 \notin Holding(u)
        BY <1>2, <2>1, <3>5, HeldByOne, LocksBasics
      <4> QED BY <3>1, <3>3, <4>1, HoldingIs, HeldAtFacts, LocksBasics
    <3> QED BY <3>4, <3>5
  <2>6. ReadOnlyAfterInit'
    BY <1>3, <1>4, <2>5 DEF ForkInv, ReadOnlyAfterInit
  <2> QED BY <1>4, <1>6, <1>7, <1>8, <1>9, <1>10, <2>3, <2>4, <2>6 DEF ForkInv
<1> QED BY <1>11, <1>12

\* The child initialises every lock again.
LEMMA PostForkChildInv ==
  ASSUME ForkInv, NEW t \in Thread, PostForkChild(t) PROVE ForkInv'
<1>1. /\ At(t, "child") /\ Goto(t, "idle") /\ UNCHANGED <<ro, proc, counter, fault>>
      /\ owner' = [l \in DOMAIN owner |-> IF l \in Locks THEN NoThread ELSE owner[l]]
  BY DEF PostForkChild, ChildInits
<1>2. /\ t \in proc.alive /\ thr[t].pc = "child" /\ Typed /\ Placed(t)
      /\ counter \in 0 .. NArena - 1
  BY <1>1, AtFacts
<1>3. proc.alive = {t} /\ ro.published
  BY <1>2 DEF Placed, Purpose, InitPlace, AfterPublication
<1>4. Moves(t, "idle", thr[t].todo) /\ thr'[t].op = thr[t].op /\ thr'[t].arena = thr[t].arena
  BY <1>1, <1>2, LabelsAre, GotoMoves
<1>5. Placed(t)'
  BY <1>1, <1>3, <1>4
  DEF Placed, ArenaKnown, TodoRight, InitPlace, Purpose, Moves, InSlowPath, Initialising,
      AfterPublication
<1>6. /\ owner' \in [Locks \cup {InitLock} -> Thread \cup {NoThread}]
      /\ owner'[InitLock] = owner[InitLock] /\ \A l \in Locks : owner'[l] = NoThread
  BY <1>1, <1>2, LocksBasics DEF Typed
<1>7. Holding(t)' = {}
  BY <1>2, <1>4, HoldingIs, HeldAtFacts DEF Moves
<1>8. LockStep(t)
  BY <1>3, <1>6, <1>7 DEF LockStep
<1> QED BY <1>1, <1>2, <1>4, <1>5, <1>6, <1>7, <1>8, LocalInv DEF Initialising

-----------------------------------------------------------------------------
(* The theorems *)

\* A process starts with nothing initialised and no lock held.
LEMMA InitForkInv ==
  ASSUME Init PROVE ForkInv
<1>1. /\ ro = [published |-> FALSE, writable |-> TRUE, untagged |-> FALSE, ready |-> {}]
      /\ owner = [l \in Locks \cup {InitLock} |-> NoThread] /\ counter = 0 /\ fault = FALSE
      /\ proc = [alive |-> Thread, registered |-> FALSE, inits |-> 0, early |-> FALSE,
                 raced |-> FALSE]
      /\ thr = [t \in Thread |-> [arena |-> IF NArena > 1 THEN NArena ELSE 0,
                                  pc |-> "idle", op |-> "none", todo |-> << >>]]
  BY DEF Init
<1>2. /\ ~ro.published /\ ro.writable /\ ro.ready = {} /\ ro \in RoData
      /\ proc \in Process /\ proc.alive = Thread /\ proc.inits = 0 /\ ~proc.registered /\ ~fault
  BY <1>1 DEF RoData, Process
<1>3. /\ thr \in [Thread -> Threads]
      /\ \A t \in Thread : /\ thr[t].pc = "idle" /\ thr[t].op = "none"
                           /\ ~(NArena > 1 /\ thr[t].arena < NArena)
  <2>1. \A t \in Thread :
          thr[t] = [arena |-> IF NArena > 1 THEN NArena ELSE 0, pc |-> "idle", op |-> "none",
                    todo |-> << >>]
    BY <1>1
  <2>2. (IF NArena > 1 THEN NArena ELSE 0) \in 0 .. NArena
    BY LocksBasics
  <2>3. "idle" \in Labels /\ << >> \in Seq(Locks) /\ "none" \in Calls
    BY LabelsAre DEF Calls
  <2>4. \A t \in Thread : thr[t] \in Threads
    <3>1. ASSUME NEW a \in 0 .. NArena, NEW l \in Labels, NEW o \in Calls, NEW q \in Seq(Locks)
          PROVE  [arena |-> a, pc |-> l, op |-> o, todo |-> q] \in Threads
      BY DEF Threads
    <3>2. [arena |-> IF NArena > 1 THEN NArena ELSE 0, pc |-> "idle", op |-> "none",
           todo |-> << >>] \in Threads
      BY <2>2, <2>3, <3>1
    <3> QED BY <2>1, <3>2
  <2>5. thr \in [Thread -> Threads]
    BY <1>1, <2>4
  <2>6. \A t \in Thread : thr[t].arena = IF NArena > 1 THEN NArena ELSE 0
    BY <2>1
  <2> QED BY <2>1, <2>5, <2>6, LocksBasics
<1>4. \A t \in Thread : Holding(t) = {}
  BY <1>3, HoldingIs, HeldAtFacts
<1>5. Typed
  <2>1. owner \in [Locks \cup {InitLock} -> Thread \cup {NoThread}]
    BY <1>1
  <2>2. counter = 0 /\ fault = FALSE
    BY <1>1
  <2>3. counter \in 0 .. NArena - 1
    BY <2>2, LocksBasics
  <2>4. fault \in BOOLEAN
    BY <2>2
  <2> QED BY <1>2, <1>3, <2>1, <2>3, <2>4 DEF Typed
<1>6. \A t \in proc.alive : Placed(t)
  BY <1>2, <1>3
  DEF Placed, ArenaKnown, TodoRight, InitPlace, Purpose, InSlowPath, Initialising, AfterPublication
<1>7. OneInitialises /\ InitState /\ Unraced
  BY <1>2, <1>3 DEF OneInitialises, InitState, Unraced, Initialising
<1>8. Owned /\ LocksAccounted /\ ReadOnlyAfterInit
  BY <1>1, <1>2, <1>4 DEF Owned, LocksAccounted, ReadOnlyAfterInit
<1> QED BY <1>5, <1>6, <1>7, <1>8 DEF ForkInv

\* Every step of every thread keeps the invariant.
LEMMA ForkInvStep ==
  ASSUME ForkInv, [Next]_vars PROVE ForkInv'
<1>1. CASE UNCHANGED vars
  <2>1. UNCHANGED <<ro, owner, proc, counter, thr, fault>>
    BY <1>1 DEF vars
  <2>2. Typed' /\ OneInitialises' /\ InitState' /\ Unraced' /\ ReadOnlyAfterInit'
    BY <2>1 DEF ForkInv, Typed, OneInitialises, InitState, Unraced, ReadOnlyAfterInit
  <2>3. \A t \in proc'.alive : Placed(t)'
    BY <2>1 DEF ForkInv, Placed, ArenaKnown, TodoRight, InitPlace, Purpose
  <2>4. Owned' /\ LocksAccounted'
    BY <2>1 DEF ForkInv, Owned, LocksAccounted, Holding, First
  <2> QED BY <2>2, <2>3, <2>4 DEF ForkInv
<1>2. ASSUME NEW t \in Thread, Start(t) PROVE ForkInv'
  BY <1>2, CallInitInv, WithoutInitInv, BeginInv DEF Start
<1>3. ASSUME NEW t \in Thread, Step(t) PROVE ForkInv'
  <2>1. CASE Enter(t) \/ Take(t) \/ Leave(t)
    BY <2>1, EnterInv, TakeInv, LeaveInv
  <2>2. CASE LockInit(t) \/ InitCheck(t) \/ InitBody(t) \/ Publish(t) \/ Seal(t)
               \/ UnlockInit(t) \/ Register(t)
    BY <2>2, LockInitInv, InitCheckInv, UnlockInitInv, InitBodyInv, PublishInv, SealInv, RegisterInv
  <2>3. CASE FullLock(t) \/ FullUnlock(t) \/ Enable(t)
    BY <2>3, FullLockInv, FullUnlockInv, EnableInv
  <2>4. CASE ForkParent(t) \/ ForkChild(t) \/ PostForkChild(t)
    BY <2>4, ForkParentInv, ForkChildInv, PostForkChildInv
  <2>5. CASE MemtagLock(t) \/ MemtagTest(t) \/ MemtagUnprotect(t) \/ MemtagWrite(t)
               \/ MemtagProtect(t) \/ MemtagUnlock(t)
    BY <2>5, LockInitInv, MemtagTestInv, MemtagUnprotectInv, MemtagWriteInv, MemtagProtectInv,
       MemtagUnlockInv
  <2> QED BY <1>3, <2>1, <2>2, <2>3, <2>4, <2>5 DEF Step
<1> QED BY <1>1, <1>2, <1>3 DEF Next

\* The inductive invariant: every step of init, fork, malloc_disable and
\* h_malloc_disable_memory_tagging, in any interleaving of any threads, keeps it.
THEOREM ForkInvariant == Spec => []ForkInv
<1>1. Init => ForkInv
  BY InitForkInv
<1>2. ForkInv /\ [Next]_vars => ForkInv'
  BY ForkInvStep
<1> QED BY <1>1, <1>2, PTL DEF Spec

\* init_slow_path runs once, and no call takes a lock or is let in by init before the
\* whole allocator is initialised and published.
THEOREM ForkInitOnce == Spec => []InitOnce
<1>1. ASSUME ForkInv PROVE InitOnce
  <2>1. proc.inits <= 1
    BY <1>1 DEF ForkInv, InitState
  <2>2. ASSUME NEW t \in proc.alive, Holding(t) # {} \/ thr[t].pc = "enter"
        PROVE  ro.published /\ ro.ready = Locks
    <3>1. ro.published
      <4>1. CASE Holding(t) # {}
        BY <1>1, <4>1, BeforePublication
      <4>2. CASE thr[t].pc = "enter"
        BY <1>1, <4>2 DEF ForkInv, Placed, InitPlace, AfterPublication
      <4> QED BY <2>2, <4>1, <4>2
    <3> QED BY <1>1, <3>1 DEF ForkInv, InitState
  <2> QED BY <2>1, <2>2 DEF InitOnce
<1> QED BY <1>1, ForkInvariant, PTL

\* Fork and malloc_disable leave no lock behind, in the parent and in the child: who owns
\* a lock is alive and at a place where it releases it, unless the fork came before
\* pthread_atfork.
THEOREM ForkLocksAccounted == Spec => []LocksAccounted
<1>1. ForkInv => LocksAccounted
  BY DEF ForkInv
<1> QED BY <1>1, ForkInvariant, PTL

\* After initialisation the read-only data is writable in the two windows of
\* init_slow_path and h_malloc_disable_memory_tagging only, and a write meets read-only
\* memory only when the second was entered within the first.
THEOREM ForkReadOnly == Spec => []ReadOnlyAfterInit
<1>1. ForkInv => ReadOnlyAfterInit
  BY DEF ForkInv
<1> QED BY <1>1, ForkInvariant, PTL
=============================================================================

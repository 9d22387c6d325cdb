------------------------------ MODULE InitFork ------------------------------
(***************************************************************************)
(* Initialisation, locking and fork: init and init_slow_path run by        *)
(* several threads, the locks that every call takes one at a time,         *)
(* full_lock and full_unlock around fork and malloc_disable, the child's   *)
(* post_fork_child, and h_malloc_disable_memory_tagging, which writes to   *)
(* the read-only data after initialisation.                                *)
(*                                                                         *)
(* What a call does under a lock is in the other modules; here it is the   *)
(* sequence of the locks it takes.                                         *)
(***************************************************************************)
EXTENDS Integers, Sequences, SequencesExt, FiniteSets

CONSTANTS
  Thread,     \* the threads that may exist
  NArena,     \* N_ARENA
  NClass,     \* N_SIZE_CLASSES, in each arena
  MaxOps,     \* bound on the calls the program makes
  NoThread    \* the owner of a free lock

ASSUME InitForkAssumption ==
  /\ NArena \in Nat \ {0} /\ NClass \in Nat \ {0} /\ MaxOps \in Nat
  /\ NoThread \notin Thread

VARIABLES
  ro,       \* published (slab_region_end is set), writable, untagged
            \* (is_memtag_disabled) and ready, the locks initialised
  owner,    \* the owner of each lock
  proc,     \* the process: its alive threads, registered (pthread_atfork was
            \* called) and, as history, inits (how often initialisation ran),
            \* early (forked before the registration) and raced (tagging was
            \* switched off while ro was being sealed)
  counter,  \* thread_arena_counter
  thr,      \* each thread: its arena, pc, the call it is in (op) and todo, the
            \* locks it still has to take, or to release
  ops,      \* the number of calls made
  fault     \* the process died of a write to read-only memory

vars == <<ro, owner, proc, counter, thr, ops, fault>>

\* init_lock, ra->lock and the size class locks, in the order of full_lock.
InitLock == -1
NLocks == NArena * NClass
Locks == 0 .. NLocks
AllLocks == [i \in 1 .. NLocks + 1 |-> i - 1]
ClassLocks == Tail(AllLocks)
ArenaLocks(a) == a * NClass + 1 .. (a + 1) * NClass

Init ==
  /\ ro = [published |-> FALSE, writable |-> TRUE, untagged |-> FALSE, ready |-> {}]
  /\ owner = [l \in Locks \cup {InitLock} |-> NoThread]
  /\ proc = [alive |-> Thread, registered |-> FALSE, inits |-> 0, early |-> FALSE,
             raced |-> FALSE]
  /\ counter = 0
  /\ thr = [t \in Thread |-> [arena |-> IF NArena > 1 THEN NArena ELSE 0,
                              pc |-> "idle", op |-> "none", todo |-> << >>]]
  /\ ops = 0
  /\ fault = FALSE

At(t, label) == t \in proc.alive /\ thr[t].pc = label /\ ~fault
Goto(t, label) == thr' = [thr EXCEPT ![t].pc = label]

\* Continue at label with the locks of seq to be taken, or released.
Follow(t, label, seq) == thr' = [thr EXCEPT ![t].pc = label, ![t].todo = seq]

\* The first of the locks to do, and continuing with the others: at label, or
\* at last when there are none.
First(t) == Head(thr[t].todo)
Rest(t, label, last) ==
  Follow(t, IF Len(thr[t].todo) > 1 THEN label ELSE last, Tail(thr[t].todo))

Lock(t, l) == owner[l] = NoThread /\ owner' = [owner EXCEPT ![l] = t]
Unlock(l) == owner' = [owner EXCEPT ![l] = NoThread]

\* A store to ro.
Store == fault' = ~ro.writable

Begin(t, call, label, seq) ==
  /\ At(t, "idle")
  /\ ops < MaxOps
  /\ ops' = ops + 1
  /\ thr' = [thr EXCEPT ![t].op = call, ![t].pc = label, ![t].todo = seq]

-----------------------------------------------------------------------------
(* Calls that take locks one at a time.                                    *)

\* n sections under the region lock
RegionLocks(n) == [i \in 1 .. n |-> 0]

\* An allocation: a class of the thread's own arena, or the region lock, which
\* allocate_large takes twice.  A reallocation takes the region lock first if the
\* old object is a region, and after the allocation the lock of the class of the
\* old slot, or the region lock, a second time for the quarantine.
AllocationLocks(t) ==
  LET own == ArenaLocks(thr[t].arena)
  IN  {<<c>> : c \in own} \cup {RegionLocks(n) : n \in 1 .. 5}
        \cup {<<c, d>> : c \in own, d \in 1 .. NLocks} \cup {<<0, 0, d>> : d \in 1 .. NLocks}
        \cup {<<0, c, 0>> : c \in own} \cup {<<0, c, 0, 0>> : c \in own}

\* deallocate_small, deallocate_large with its quarantine, a size query, and the
\* reallocations that allocate nothing or move a region.
FreeLocks == {<<l>> : l \in 1 .. NLocks} \cup {RegionLocks(n) : n \in 1 .. 4}

\* h_mallinfo and h_malloc_info, and the trim, which skips class 0 of each arena.
StatisticsLocks == {AllLocks, Append(ClassLocks, 0)}
TrimLocks ==
  [n \in 1 .. NArena * (NClass - 1) |-> n + 1 + (n - 1) \div (NClass - 1)]

\* thread_arena_counter++ % N_ARENA
NextCounter == (counter + 1) % NArena

\* init(): the first call of a thread picks its arena; its later calls do not
\* even look whether the allocator is initialised.
CallInit(t, call) ==
  LET known == NArena > 1 /\ thr[t].arena < NArena
      next == IF known \/ ro.published THEN "enter" ELSE "init_lock"
  IN  /\ At(t, "idle")
      /\ ops < MaxOps
      /\ ops' = ops + 1
      /\ thr' = [thr EXCEPT ![t].op = call, ![t].pc = next,
                            ![t].arena = IF known THEN @ ELSE counter]
      /\ counter' = IF known THEN counter ELSE NextCounter
      /\ UNCHANGED <<ro, owner, proc, fault>>

\* What follows once init() has returned to the call.
Enter(t) ==
  /\ At(t, "enter")
  /\ \/ thr[t].op = "alloc" /\ \E s \in AllocationLocks(t) : Follow(t, "take", s)
     \/ thr[t].op = "disable" /\ Follow(t, "full", AllLocks)
  /\ UNCHANGED <<ro, owner, proc, counter, ops, fault>>

\* These calls do not run init(): statistics and trim return at once before
\* initialisation, and there is nothing to free yet.
WithoutInit(t) ==
  /\ ro.published
  /\ \E s \in FreeLocks \cup StatisticsLocks \cup ({TrimLocks} \ {<< >>}) :
       Begin(t, "other", "take", s)
  /\ UNCHANGED <<ro, owner, proc, counter, fault>>

Take(t) ==
  /\ At(t, "take")
  /\ Lock(t, First(t))
  /\ Goto(t, "inside")
  /\ UNCHANGED <<ro, proc, counter, ops, fault>>

Leave(t) ==
  /\ At(t, "inside")
  /\ Unlock(First(t))
  /\ Rest(t, "take", "idle")
  /\ UNCHANGED <<ro, proc, counter, ops, fault>>

-----------------------------------------------------------------------------
(* init_slow_path                                                          *)

LockInit(t) ==
  /\ At(t, "init_lock")
  /\ Lock(t, InitLock)
  /\ Goto(t, "init_check")
  /\ UNCHANGED <<ro, proc, counter, ops, fault>>

\* The second look at is_init, under the lock.
UncheckedNeed == TRUE
StillNeeded == ~ro.published

InitCheck(t) ==
  /\ At(t, "init_check")
  /\ IF StillNeeded
       THEN /\ Follow(t, "init_body", AllLocks)
            /\ proc' = [proc EXCEPT !.inits = @ + 1]
            /\ UNCHANGED owner
       ELSE Goto(t, "enter") /\ Unlock(InitLock) /\ UNCHANGED proc
  /\ UNCHANGED <<ro, counter, ops, fault>>

\* mutex_init and the fields of the region allocator, then of each class; the
\* pointers to them are stored in ro.
InitBody(t) ==
  /\ At(t, "init_body")
  /\ Store
  /\ ro' = [ro EXCEPT !.ready = @ \cup {First(t)}]
  /\ Unlock(First(t))
  /\ Rest(t, "init_body", "init_publish")
  /\ UNCHANGED <<proc, counter, ops>>

Publish(t) ==
  /\ At(t, "init_publish")
  /\ Store
  /\ ro' = [ro EXCEPT !.published = TRUE]
  /\ Goto(t, "init_seal")
  /\ UNCHANGED <<owner, proc, counter, ops>>

\* memory_protect_ro(&ro), at the end of init_slow_path
UnsealedRo == ro
SealedRo == [ro EXCEPT !.writable = FALSE]

Seal(t) ==
  /\ At(t, "init_seal")
  /\ ro' = SealedRo
  /\ Goto(t, "init_unlock")
  /\ UNCHANGED <<owner, proc, counter, ops, fault>>

UnlockInit(t) ==
  /\ At(t, "init_unlock")
  /\ Unlock(InitLock)
  /\ Goto(t, "init_atfork")
  /\ UNCHANGED <<ro, proc, counter, ops, fault>>

Register(t) ==
  /\ At(t, "init_atfork")
  /\ proc' = [proc EXCEPT !.registered = TRUE]
  /\ Goto(t, "enter")
  /\ UNCHANGED <<ro, owner, counter, ops, fault>>

-----------------------------------------------------------------------------
(* full_lock, full_unlock and what happens in between                      *)

FullLock(t) ==
  /\ At(t, "full")
  /\ Lock(t, First(t))
  /\ Rest(t, "full", "full_held")
  /\ UNCHANGED <<ro, proc, counter, ops, fault>>

\* The locks that full_unlock releases, region lock first.
FaultyUnlocking == Front(AllLocks)
Unlocking == AllLocks

FullUnlock(t) ==
  /\ At(t, "unlock")
  /\ Unlock(First(t))
  /\ Rest(t, "unlock", IF thr[t].op = "memtag" THEN "memtag_unlock" ELSE "idle")
  /\ UNCHANGED <<ro, proc, counter, ops, fault>>

\* malloc_enable after malloc_disable: until then the thread makes no call.
Enable(t) ==
  /\ At(t, "full_held") /\ thr[t].op = "disable"
  /\ Follow(t, "unlock", Unlocking)
  /\ UNCHANGED <<ro, owner, proc, counter, ops, fault>>

\* fork by the C library: the handlers run only once they are registered.
Fork(t) ==
  /\ Begin(t, "fork", IF proc.registered THEN "full" ELSE "fork", AllLocks)
  /\ UNCHANGED <<ro, owner, proc, counter, fault>>

\* The caller goes on as the parent, which releases the locks,
ForkParent(t) ==
  /\ \/ At(t, "fork") /\ Goto(t, "idle")
     \/ At(t, "full_held") /\ thr[t].op = "fork" /\ Follow(t, "unlock", Unlocking)
  /\ UNCHANGED <<ro, owner, proc, counter, ops, fault>>

\* or as the only thread of the child, whose memory is a copy.
ForkChild(t) ==
  /\ \/ At(t, "fork") /\ Goto(t, "idle")
     \/ At(t, "full_held") /\ thr[t].op = "fork" /\ Goto(t, "child")
  /\ proc' = [proc EXCEPT !.alive = {t}, !.early = @ \/ thr[t].pc = "fork"]
  /\ UNCHANGED <<ro, owner, counter, ops, fault>>

\* The locks that the child initialises again, with their random states.
FaultyChildInits == Locks \ {0}
ChildInits == Locks

PostForkChild(t) ==
  /\ At(t, "child")
  /\ owner' = [l \in DOMAIN owner |-> IF l \in ChildInits THEN NoThread ELSE owner[l]]
  /\ Goto(t, "idle")
  /\ UNCHANGED <<ro, proc, counter, ops, fault>>

-----------------------------------------------------------------------------
(* h_malloc_disable_memory_tagging                                         *)

MemtagBegin(t) ==
  /\ Begin(t, "memtag", IF ro.published THEN "memtag_test" ELSE "memtag_lock", << >>)
  /\ UNCHANGED <<ro, owner, proc, counter, fault>>

MemtagLock(t) ==
  /\ At(t, "memtag_lock")
  /\ Lock(t, InitLock)
  /\ Goto(t, "memtag_test")
  /\ UNCHANGED <<ro, proc, counter, ops, fault>>

\* The second is_init; before initialisation the flag is simply set.
MemtagTest(t) ==
  /\ At(t, "memtag_test")
  /\ IF ro.published
       THEN /\ Follow(t, "full", AllLocks)
            /\ proc' = [proc EXCEPT !.raced =
                          @ \/ \E u \in proc.alive : thr[u].pc = "init_seal"]
            /\ UNCHANGED <<ro, fault>>
       ELSE /\ Store
            /\ ro' = [ro EXCEPT !.untagged = TRUE]
            /\ Goto(t, "memtag_unlock")
            /\ UNCHANGED proc
  /\ UNCHANGED <<owner, counter, ops>>

\* memory_protect_rw(&ro)
Unprotected == [ro EXCEPT !.writable = TRUE]

\* Nothing is written when the flag is set already.
MemtagUnprotect(t) ==
  /\ At(t, "full_held") /\ thr[t].op = "memtag"
  /\ IF ro.untagged
       THEN Follow(t, "unlock", Unlocking) /\ UNCHANGED ro
       ELSE Goto(t, "memtag_write") /\ ro' = Unprotected
  /\ UNCHANGED <<owner, proc, counter, ops, fault>>

MemtagWrite(t) ==
  /\ At(t, "memtag_write")
  /\ Store
  /\ ro' = [ro EXCEPT !.untagged = TRUE]
  /\ Goto(t, "memtag_protect")
  /\ UNCHANGED <<owner, proc, counter, ops>>

MemtagProtect(t) ==
  /\ At(t, "memtag_protect")
  /\ ro' = [ro EXCEPT !.writable = FALSE]
  /\ Follow(t, "unlock", Unlocking)
  /\ UNCHANGED <<owner, proc, counter, ops, fault>>

\* init_lock, when it was needed
MemtagUnlock(t) ==
  /\ At(t, "memtag_unlock")
  /\ IF owner[InitLock] = t THEN Unlock(InitLock) ELSE UNCHANGED owner
  /\ Goto(t, "idle")
  /\ UNCHANGED <<ro, proc, counter, ops, fault>>

-----------------------------------------------------------------------------

Start(t) == (\E call \in {"alloc", "disable"} : CallInit(t, call))
              \/ WithoutInit(t) \/ Fork(t) \/ MemtagBegin(t)

\* The steps of a call in progress.
Step(t) ==
  \/ Enter(t) \/ Take(t) \/ Leave(t)
  \/ LockInit(t) \/ InitCheck(t) \/ InitBody(t) \/ Publish(t) \/ Seal(t)
  \/ UnlockInit(t) \/ Register(t)
  \/ FullLock(t) \/ FullUnlock(t) \/ Enable(t)
  \/ ForkParent(t) \/ ForkChild(t) \/ PostForkChild(t)
  \/ MemtagLock(t) \/ MemtagTest(t) \/ MemtagUnprotect(t) \/ MemtagWrite(t)
  \/ MemtagProtect(t) \/ MemtagUnlock(t)

Next == \E t \in Thread : Start(t) \/ Step(t)

\* A runnable thread is scheduled in the end; calls need not be made.
Spec == Init /\ [][Next]_vars /\ \A t \in Thread : WF_vars(Step(t))

-----------------------------------------------------------------------------
(* Properties                                                              *)

\* The locks that a thread holds at its place in the code.
Holding(t) ==
  CASE thr[t].pc = "inside" -> {First(t)}
    [] thr[t].pc = "full" -> Locks \ Range(thr[t].todo)
    [] thr[t].pc \in {"full_held", "memtag_write", "memtag_protect", "child"} -> Locks
    [] thr[t].pc = "unlock" -> Range(thr[t].todo)
    [] OTHER -> {}

\* init_slow_path initialises the allocator once however many threads race for
\* it, and no call takes a lock, or is let in by init(), before everything that
\* it may touch is initialised and published.
InitOnce ==
  /\ proc.inits <= 1
  /\ \A t \in proc.alive :
       Holding(t) # {} \/ thr[t].pc = "enter" => ro.published /\ ro.ready = Locks

\* After initialisation ro is writable only between the publication and the
\* mprotect of init_slow_path, and inside h_malloc_disable_memory_tagging with
\* every lock held; a child forked in the first window inherits it.  And there
\* is one way to a write to read-only memory: tagging is switched off after
\* slab_region_end was published and before ro was made read-only, so that the
\* mprotect of init_slow_path falls between the one of
\* h_malloc_disable_memory_tagging and its write.
ReadOnlyAfterInit ==
  /\ ro.published /\ ro.writable =>
       \/ proc.early
       \/ \E t \in proc.alive : thr[t].pc \in {"init_seal", "memtag_write", "memtag_protect"}
  /\ fault => proc.raced

\* Fork and malloc_disable leave no lock behind: in the parent and in the child
\* every lock is held by a thread of this process that is where it holds it.
\* Only a child forked before pthread_atfork was called may have locks of threads
\* that it does not have.
LocksAccounted ==
  \A l \in Locks :
    owner[l] # NoThread =>
      IF owner[l] \in proc.alive THEN l \in Holding(owner[l]) ELSE proc.early

\* Locks that their owner will never release, in a child forked too early.
Orphaned ==
  proc.early /\ \E l \in DOMAIN owner : owner[l] \notin proc.alive \cup {NoThread}

\* Every call returns: full_lock and the calls that take locks one at a time
\* do not deadlock, in the parent and in a child, and a child that inherits
\* init_lock taken never needs it.
CallsReturn ==
  \A t \in Thread :
    thr[t].pc # "idle" ~> thr[t].pc = "idle" \/ t \notin proc.alive \/ fault \/ Orphaned
=============================================================================

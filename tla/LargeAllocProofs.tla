-------------------------- MODULE LargeAllocProofs --------------------------
(***************************************************************************)
(* Proofs about LargeAlloc for every address space, every number of        *)
(* threads and every quarantine length.                                    *)
(*                                                                         *)
(* A call holds pages: what it is mapping and what it has not given back.  *)
(* The argument follows the pages a step takes from and gives to the call, *)
(* the program and the quarantine; nothing else can change hands.          *)
(***************************************************************************)
EXTENDS LargeAlloc, FiniteSetTheorems, TLAPS

(* The local state of a call *)

Rec == [p : Int, size : Nat, guard : Nat]
Content == {"free", "none", "zero", "data"}
Waiting == {"copy", "delete", "remap", "guards"}

\* An allocation whose guards lie in the address space.
Fits(r) ==
  /\ r \in Rec /\ r.size >= 1 /\ r.guard \in Guards
  /\ r.p - r.guard >= 0 /\ r.p + r.size + r.guard <= Pages

LocalTyped(l) ==
  /\ l \in [pc : {"idle", "map", "shrink", "resize"} \cup Mapping \cup Releasing \cup Waiting,
            op : {"none", "malloc", "free", "shrink", "copy", "move"},
            new : Rec, align : Nat, real : SUBSET Page, old : Rec, release : Rec,
            victim : SUBSET Page, kept : SUBSET Nat]
  /\ l.align >= 1

\* What the local variables are while something is mapped for a call.
MappingShape(l) ==
  /\ l.pc \in {"map"} \cup Mapping =>
       /\ l.op \in {"malloc", "copy", "move"}
       /\ l.op = "malloc" => l.old = Nothing /\ l.kept = {}
       /\ l.op # "malloc" => Fits(l.old)
  /\ l.pc = "map" => l.new.p = 0 /\ l.new.size >= 1 /\ l.new.guard \in Guards
  /\ l.pc \in Mapping => Fits(l.new)
  /\ l.pc \in {"protect", "lead", "trail"} => Whole(l.new) \subseteq l.real

\* What they are while a realloc moves an allocation or gives it back.
ReallocShape(l) ==
  /\ l.pc = "copy" => l.op = "copy"
  /\ l.pc = "delete" => l.op \in {"copy", "move"}
  /\ l.pc \in {"remap", "guards"} => l.op = "move"
  /\ l.pc \in {"shrink", "resize"} => l.op = "shrink"
  /\ l.pc \in Waiting \cup Releasing /\ l.op \in {"copy", "move"} =>
       /\ Fits(l.old)
       /\ Fits(l.new) \/ (l.op = "copy" /\ l.new = Nothing)
       /\ l.pc \in Releasing \cup {"remap"} => l.release = l.old
  /\ l.op = "move" /\ l.pc \in Releasing => l.pc = "unmap"
  /\ l.op = "shrink" =>
       /\ Fits(l.old) /\ l.new.size >= 1 /\ l.new.size < l.old.size
       /\ l.new = [l.old EXCEPT !.size = l.new.size]
       /\ l.pc \in {"shrink", "resize"} \cup Releasing
       /\ l.pc \in Releasing => l.release = CutOff(l.old, l.new)

\* What they are in a free, and between calls.
FreeShape(l) ==
  /\ l.pc \in Releasing => l.op \in {"free", "shrink", "copy", "move"}
  /\ l.op = "free" =>
       l.pc \in Releasing /\ Fits(l.release) /\ l.new = Nothing /\ l.old = Nothing
  /\ l.pc = "idle" => l = Idle

Shape(l) == LocalTyped(l) /\ MappingShape(l) /\ ReallocShape(l) /\ FreeShape(l)

\* The pages of a call, as functions of its local variables.
LeadOf(l) == {a \in l.real : a < l.new.p - l.new.guard}
NewOf(l) ==
  CASE l.pc \in {"protect", "lead"} -> l.real
    [] l.pc = "trail" -> l.real \ LeadOf(l)
    [] l.pc \in {"insert", "drop"} -> Whole(l.new)
    [] l.new # Nothing /\ l.pc \in Releasing \cup {"copy", "delete", "remap", "guards", "resize"}
         -> Whole(l.new)
    [] OTHER -> {}
OldOf(l) ==
  CASE l.old # Nothing /\ l.pc \in Mapping \cup {"map", "shrink", "copy", "delete", "remap"}
         -> Whole(l.old)
    [] l.pc \in {"unmap", "purge", "enqueue"} -> Whole(l.release)
    [] l.pc = "evict" -> l.victim
    [] l.pc = "guards" -> LeftGuard(l.old) \cup RightGuard(l.old)
    [] OTHER -> {}
Mine(l) == NewOf(l) \cup OldOf(l)

(* What a call relies on finding in the memory m at its pages *)

Intact(m, r) ==
  /\ \A a \in Body(r) : m[a] \in {"zero", "data"}
  /\ \A a \in LeftGuard(r) \cup RightGuard(r) : m[a] = "none"
Fresh(m, r) == \A a \in Body(r) : m[a] = "zero"
SealedPage(m, a) == m[a] = "none" \/ ("fixed" \in Failing /\ m[a] = "zero")

MappingContents(m, l) ==
  /\ l.pc = "protect" => \A a \in l.real : m[a] = "none"
  /\ l.pc = "lead" => Fresh(m, l.new) /\ \A a \in l.real \ Body(l.new) : m[a] = "none"
  /\ l.pc \in {"trail", "insert", "drop"} => Fresh(m, l.new) /\ Intact(m, l.new)

ReallocContents(m, l) ==
  /\ l.old # Nothing /\ l.pc \in Mapping \cup {"map", "shrink", "copy", "delete", "remap"} =>
       Intact(m, l.old)
  /\ l.new # Nothing /\ l.pc \in Releasing \cup Waiting \cup {"resize"} => Intact(m, l.new)
  /\ l.pc = "purge" => \A a \in LeftGuard(l.release) \cup RightGuard(l.release) : m[a] = "none"
  /\ l.pc = "enqueue" => \A a \in Whole(l.release) : SealedPage(m, a)

\* Before and after the contents of the old allocation are in the new one.
Before(l) ==
  /\ l.old # Nothing
  /\ \/ l.pc \in {"map", "shrink", "copy"} \cup Mapping
     \/ l.op = "move" /\ l.pc \in {"delete", "remap"}
After(l) ==
  /\ l.new # Nothing
  /\ \/ l.op = "shrink" /\ l.pc \in Releasing \cup {"resize"}
     \/ l.op = "copy" /\ l.pc \in Releasing \cup {"delete"}
     \/ l.op = "move" /\ l.pc \in {"guards", "unmap"}
KeptContents(m, l) ==
  /\ Before(l) => l.kept = DataPages(m, l.old)
  /\ Before(l) /\ l.new # Nothing /\ l.pc \in Waiting => Fresh(m, l.new)
  /\ After(l) => DataPages(m, l.new) = l.kept \cap (0 .. l.new.size - 1)

Contents(m, l) == MappingContents(m, l) /\ ReallocContents(m, l) /\ KeptContents(m, l)

(* The inductive invariant *)

Quarantined ==
  (UNION {quarantine_random[i] : i \in 0 .. RandomLen - 1})
    \cup (UNION {quarantine_queue[i] : i \in 0 .. QueueLen - 1})

CellsTyped ==
  /\ quarantine_random \in [0 .. RandomLen - 1 -> SUBSET Page]
  /\ quarantine_queue \in [0 .. QueueLen - 1 -> SUBSET Page]
  /\ quarantine_queue_index \in (IF QueueLen = 0 THEN {0} ELSE 0 .. QueueLen - 1)

\* A quarantined page is in one cell.
CellsApart ==
  /\ \A i, j \in 0 .. RandomLen - 1 :
       \A a \in quarantine_random[i] : a \in quarantine_random[j] => i = j
  /\ \A i, j \in 0 .. QueueLen - 1 :
       \A a \in quarantine_queue[i] : a \in quarantine_queue[j] => i = j
  /\ \A i \in 0 .. RandomLen - 1, j \in 0 .. QueueLen - 1 :
       \A a \in quarantine_random[i] : a \notin quarantine_queue[j]

\* No page has two users among the allocations O, the calls L and the quarantine H.
Apart(O, L, H) ==
  /\ \A r, s \in O : \A a \in Whole(r) : a \in Whole(s) => r = s
  /\ \A r \in O, t \in Thread : \A a \in Whole(r) : a \notin Mine(L[t])
  /\ \A t, u \in Thread : \A a \in Mine(L[t]) : a \in Mine(L[u]) => t = u
  /\ \A t \in Thread : \A a \in NewOf(L[t]) : a \notin OldOf(L[t])
  /\ \A r \in O : \A a \in Whole(r) : a \notin H
  /\ \A t \in Thread : \A a \in Mine(L[t]) : a \notin H

HasUser(a, O, L, H) ==
  (\E r \in O : a \in Whole(r)) \/ (\E t \in Thread : a \in Mine(L[t])) \/ a \in H

\* The mapped pages are those with a user and the leaked ones K.
Mapped(m, O, L, H, K) ==
  /\ K \subseteq Page
  /\ \A r \in O : Whole(r) \subseteq Page
  /\ \A t \in Thread : Mine(L[t]) \subseteq Page
  /\ \A a \in Page : HasUser(a, O, L, H) => m[a] # "free" /\ a \notin K
  /\ \A a \in Page : a \in K => m[a] # "free"
  /\ \A a \in Page : m[a] # "free" => HasUser(a, O, L, H) \/ a \in K

Alone == \A t, u \in Thread : t = u

Space ==
  /\ mem \in [Page -> Content] /\ CellsTyped /\ CellsApart
  /\ loc = [t \in Thread |-> loc[t]] /\ \A t \in Thread : Shape(loc[t])
  /\ \A r \in owned : Fits(r)
  /\ Apart(owned, loc, Quarantined)
  /\ Mapped(mem, owned, loc, Quarantined, leaked)
  /\ \A t \in Thread : Contents(mem, loc[t])
  /\ \A r \in owned : Intact(mem, r)
  /\ \A a \in Quarantined : SealedPage(mem, a)
  /\ Alone => \A t \in Thread : loc[t].pc = "trail" => \A a \in LeadOf(loc[t]) : mem[a] = "free"

\* The entries of a call in the table.
EntriesOf(l) ==
  (IF \/ l.op = "shrink"
      \/ l.op \in {"copy", "move"} /\ l.pc \in Mapping \cup {"map", "copy", "delete"}
   THEN {l.old} ELSE {})
    \cup
  (IF /\ l.op \in {"copy", "move"} /\ l.new # Nothing
      /\ l.pc \in Releasing \cup {"copy", "delete", "remap", "guards"}
   THEN {l.new} ELSE {})

Table ==
  /\ IsFiniteSet(regions)
  /\ \A e : e \in regions <=> e \in owned \/ \E t \in Thread : e \in EntriesOf(loc[t])
  /\ allocated = SumSizes(regions)

-----------------------------------------------------------------------------
(* Pages that change hands *)

\* The page a is held by the call l or the allocations R.
Given(l, R, a) == a \in Mine(l) \/ \E r \in R : a \in Whole(r)

\* A step of call t to the local state l: it takes the allocations gone from the
\* program and gives it came, maps the pages fresh, and touches no others.
TurnPages(t, l, gone, came, fresh) ==
  /\ \A a \in fresh : ~HasUser(a, owned, loc, Quarantined)
  /\ \A a : Given(l, came, a) => Given(loc[t], gone, a) \/ a \in fresh
  /\ \A r, s \in came : r = s
  /\ \A r \in came : \A a \in Whole(r) : a \notin Mine(l)
  /\ \A a \in NewOf(l) : a \notin OldOf(l)

TurnMemory(t, l, gone, came, fresh) ==
  /\ mem' \in [Page -> Content] /\ leaked' \subseteq Page
  /\ \A a \in Page :
       ~Given(loc[t], gone, a) /\ a \notin fresh =>
         mem'[a] = mem[a] /\ (a \in leaked' <=> a \in leaked)
  /\ \A a \in Page : Given(l, came, a) => mem'[a] # "free" /\ a \notin leaked'
  /\ \A a \in Page :
       (Given(loc[t], gone, a) \/ a \in fresh) /\ ~Given(l, came, a) =>
         (mem'[a] # "free" <=> a \in leaked')

Turn(t, l, gone, came, fresh) ==
  /\ loc' = [loc EXCEPT ![t] = l] /\ Shape(l)
  /\ gone \subseteq owned /\ owned' = (owned \ gone) \cup came
  /\ \A r \in came : Fits(r)
  /\ fresh \subseteq Page
  /\ TurnPages(t, l, gone, came, fresh)
  /\ TurnMemory(t, l, gone, came, fresh)
  /\ Contents(mem', l) /\ \A r \in came : Intact(mem', r)
  /\ Alone /\ l.pc = "trail" => \A a \in LeadOf(l) : mem'[a] = "free"
  /\ UNCHANGED quarantineVars

\* The pages of an allocation that fits are pages of the address space.
LEMMA FitsPages ==
  ASSUME NEW r, Fits(r)
  PROVE  /\ Whole(r) \subseteq Page /\ r \in Region /\ r # Nothing
         /\ Body(r) \subseteq Whole(r) /\ r.p \in Body(r)
         /\ LeftGuard(r) \subseteq Whole(r) /\ RightGuard(r) \subseteq Whole(r)
         /\ Whole(r) = Body(r) \cup LeftGuard(r) \cup RightGuard(r)
BY LargeAllocAssumption
   DEF Fits, Whole, Body, LeftGuard, RightGuard, Page, Region, Rec, Nothing

\* What is found at an allocation depends on the memory only at its pages.
LEMMA IntactLocal ==
  ASSUME NEW m, NEW n, NEW r, Fits(r), \A a \in Whole(r) : n[a] = m[a]
  PROVE  /\ Intact(m, r) => Intact(n, r)
         /\ Fresh(m, r) => Fresh(n, r)
         /\ DataPages(n, r) = DataPages(m, r)
<1>1. \A k \in 0 .. r.size - 1 : r.p + k \in Whole(r)
  BY LargeAllocAssumption DEF Fits, Rec, Whole
<1> QED BY <1>1, FitsPages DEF Intact, Fresh, DataPages

\* The parts of the local state of a call.
LEMMA ShapeFits ==
  ASSUME NEW l, Shape(l)
  PROVE  /\ l.pc \in Mapping => Fits(l.new)
         /\ l.old # Nothing /\ l.pc \in Mapping \cup {"map", "shrink", "copy", "delete", "remap"}
              => Fits(l.old)
         /\ l.new # Nothing /\ l.pc \in Releasing \cup Waiting \cup {"resize"} => Fits(l.new)
         /\ l.pc = "guards" => Fits(l.old) /\ Fits(l.new)
<1> USE DEF Shape, Mapping, Releasing, Waiting
<1>1. l.op = "shrink" => Fits(l.new)
  BY LargeAllocAssumption DEF ReallocShape, Fits, Rec, LocalTyped
<1>2. l.pc \in Mapping => Fits(l.new)
  BY DEF MappingShape
<1>3. l.new # Nothing /\ l.pc \in Releasing \cup Waiting \cup {"resize"} => Fits(l.new)
  BY <1>1 DEF ReallocShape, FreeShape
<1>4. l.pc = "guards" => Fits(l.old) /\ Fits(l.new)
  BY DEF ReallocShape
<1>5. l.old # Nothing /\ l.pc \in Mapping \cup {"map", "shrink", "copy", "delete", "remap"}
        => Fits(l.old)
  BY DEF ReallocShape, MappingShape
<1> QED BY <1>2, <1>3, <1>4, <1>5

\* The pages a call holds, phase by phase.
LEMMA PagesOf ==
  ASSUME NEW l, Shape(l)
  PROVE  /\ l.pc \in {"protect", "lead"} => NewOf(l) = l.real
         /\ l.pc = "trail" => NewOf(l) = l.real \ LeadOf(l)
         /\ l.pc \in {"insert", "drop"} => NewOf(l) = Whole(l.new)
         /\ l.new # Nothing /\ l.pc \in Releasing \cup Waiting \cup {"resize"}
              => NewOf(l) = Whole(l.new)
         /\ l.new = Nothing /\ l.pc \in Releasing \cup Waiting \cup {"resize"} => NewOf(l) = {}
         /\ l.pc \in {"idle", "map", "shrink"} => NewOf(l) = {}
         /\ l.old # Nothing /\ l.pc \in Mapping \cup {"map", "shrink", "copy", "delete", "remap"}
              => OldOf(l) = Whole(l.old)
         /\ l.old = Nothing /\ l.pc \in Mapping \cup {"map"} => OldOf(l) = {}
         /\ l.pc \in {"unmap", "purge", "enqueue"} => OldOf(l) = Whole(l.release)
         /\ l.pc = "evict" => OldOf(l) = l.victim
         /\ l.pc = "guards" => OldOf(l) = LeftGuard(l.old) \cup RightGuard(l.old)
         /\ l.pc \in {"idle", "resize"} => OldOf(l) = {}
<1> USE DEF Mapping, Releasing, Waiting
<1>1. /\ l.pc \in {"protect", "lead"} => NewOf(l) = l.real
      /\ l.pc = "trail" => NewOf(l) = l.real \ LeadOf(l)
      /\ l.pc \in {"insert", "drop"} => NewOf(l) = Whole(l.new)
  BY DEF NewOf
<1>2. /\ l.new # Nothing /\ l.pc \in Releasing \cup Waiting \cup {"resize"}
           => NewOf(l) = Whole(l.new)
      /\ l.new = Nothing /\ l.pc \in Releasing \cup Waiting \cup {"resize"} => NewOf(l) = {}
      /\ l.pc \in {"idle", "map", "shrink"} => NewOf(l) = {}
  BY DEF NewOf
<1>3. /\ l.old # Nothing /\ l.pc \in Mapping \cup {"map", "shrink", "copy", "delete", "remap"}
           => OldOf(l) = Whole(l.old)
      /\ l.old = Nothing /\ l.pc \in Mapping \cup {"map"} => OldOf(l) = {}
  BY DEF OldOf
<1>4. /\ l.pc \in {"unmap", "purge", "enqueue"} => OldOf(l) = Whole(l.release)
      /\ l.pc = "evict" => OldOf(l) = l.victim
  BY DEF OldOf
<1>5. /\ l.pc = "guards" => OldOf(l) = LeftGuard(l.old) \cup RightGuard(l.old)
      /\ l.pc \in {"idle", "resize"} => OldOf(l) = {}
  BY DEF OldOf
<1> QED BY <1>1, <1>2, <1>3, <1>4, <1>5

\* The whole of a new mapping is among the pages of the call.
LEMMA WholeMine ==
  ASSUME NEW l, Shape(l)
  PROVE  /\ l.pc \in Mapping => Whole(l.new) \subseteq Mine(l)
         /\ l.new # Nothing /\ l.pc \in Releasing \cup Waiting \cup {"resize"}
              => Whole(l.new) \subseteq Mine(l)
         /\ l.old # Nothing /\ l.pc \in Mapping \cup {"map", "shrink", "copy", "delete", "remap"}
              => Whole(l.old) \subseteq Mine(l)
         /\ l.pc \in {"unmap", "purge", "enqueue"} => Whole(l.release) \subseteq Mine(l)
<1>1. l.pc = "trail" => Whole(l.new) \subseteq l.real \ LeadOf(l)
  <2> SUFFICES ASSUME l.pc = "trail" PROVE Whole(l.new) \subseteq l.real \ LeadOf(l)
    OBVIOUS
  <2>1. Whole(l.new) \subseteq l.real /\ Fits(l.new)
    BY DEF Shape, MappingShape, Mapping
  <2> QED BY <2>1, LargeAllocAssumption DEF Whole, LeadOf, Fits, Rec
<1>2. l.pc \in {"protect", "lead"} => Whole(l.new) \subseteq l.real
  BY DEF Shape, MappingShape
<1> QED BY <1>1, <1>2, PagesOf DEF Mine, Mapping

\* What a call relies on depends on the memory only at the pages it holds.
LEMMA ContentsLocal ==
  ASSUME NEW m, NEW n, NEW l, Shape(l), Contents(m, l), \A a \in Mine(l) : n[a] = m[a]
  PROVE  Contents(n, l)
<1> USE DEF Contents
<1>1. MappingContents(n, l)
  <2>1. l.pc \in {"protect", "lead"} => l.real \subseteq Mine(l)
    BY PagesOf DEF Mine
  <2>2. l.pc \in Mapping => (Fresh(m, l.new) => Fresh(n, l.new))
                            /\ (Intact(m, l.new) => Intact(n, l.new))
    BY WholeMine, ShapeFits, IntactLocal
  <2> QED BY <2>1, <2>2 DEF MappingContents, Mapping
<1>2. ReallocContents(n, l)
  <2>1. l.old # Nothing /\ l.pc \in Mapping \cup {"map", "shrink", "copy", "delete", "remap"} =>
          (Intact(m, l.old) => Intact(n, l.old))
    BY WholeMine, ShapeFits, IntactLocal
  <2>2. l.new # Nothing /\ l.pc \in Releasing \cup Waiting \cup {"resize"} =>
          (Intact(m, l.new) => Intact(n, l.new))
    BY WholeMine, ShapeFits, IntactLocal
  <2>3. l.pc \in {"unmap", "purge", "enqueue"} => \A a \in Whole(l.release) : n[a] = m[a]
    BY WholeMine
  <2>4. l.release \in Rec
    BY DEF Shape, LocalTyped
  <2>5. LeftGuard(l.release) \cup RightGuard(l.release) \subseteq Whole(l.release)
    BY <2>4 DEF Rec, LeftGuard, RightGuard, Whole
  <2> QED BY <2>1, <2>2, <2>3, <2>5 DEF ReallocContents, SealedPage
<1>3. KeptContents(n, l)
  <2>1. Before(l) => DataPages(n, l.old) = DataPages(m, l.old)
    BY WholeMine, ShapeFits, IntactLocal DEF Before
  <2>2. l.new # Nothing /\ l.pc \in Releasing \cup Waiting \cup {"resize"} =>
          (Fresh(m, l.new) => Fresh(n, l.new)) /\ DataPages(n, l.new) = DataPages(m, l.new)
    BY WholeMine, ShapeFits, IntactLocal
  <2>3. After(l) => l.new # Nothing /\ l.pc \in Releasing \cup Waiting \cup {"resize"}
    BY DEF After, Waiting, Releasing
  <2> QED BY <2>1, <2>2, <2>3 DEF KeptContents
<1> QED BY <1>1, <1>2, <1>3

\* Disjointness survives a turn.
LEMMA ApartTurn ==
  ASSUME NEW O, NEW L, NEW H, NEW t \in Thread, NEW l, NEW gone, NEW came, NEW fresh,
         Apart(O, L, H), L = [u \in Thread |-> L[u]], gone \subseteq O,
         \A a \in fresh : ~HasUser(a, O, L, H),
         \A a : Given(l, came, a) => Given(L[t], gone, a) \/ a \in fresh,
         \A r, s \in came : r = s,
         \A r \in came : \A a \in Whole(r) : a \notin Mine(l),
         \A a \in NewOf(l) : a \notin OldOf(l)
  PROVE  Apart((O \ gone) \cup came, [L EXCEPT ![t] = l], H)
<1> DEFINE O2 == (O \ gone) \cup came
<1> DEFINE L2 == [L EXCEPT ![t] = l]
<1>1. L2[t] = l /\ \A u \in Thread : u # t => L2[u] = L[u]
  OBVIOUS
<1>2. \A a : Given(L[t], gone, a) \/ a \in fresh =>
        /\ \A r \in O \ gone : a \notin Whole(r)
        /\ \A u \in Thread : u # t => a \notin Mine(L[u])
        /\ a \notin H
  BY DEF Apart, Given, HasUser
<1>3. \A r, s \in O2 : \A a \in Whole(r) : a \in Whole(s) => r = s
  BY <1>2 DEF Apart, Given
<1>4. \A r \in O2, u \in Thread : \A a \in Whole(r) : a \notin Mine(L2[u])
  BY <1>1, <1>2 DEF Apart, Given
<1>5. \A u, v \in Thread : \A a \in Mine(L2[u]) : a \in Mine(L2[v]) => u = v
  BY <1>1, <1>2 DEF Apart, Given
<1>6. \A u \in Thread : \A a \in NewOf(L2[u]) : a \notin OldOf(L2[u])
  BY <1>1 DEF Apart
<1>7. \A r \in O2 : \A a \in Whole(r) : a \notin H
  BY <1>2 DEF Apart, Given
<1>8. \A u \in Thread : \A a \in Mine(L2[u]) : a \notin H
  BY <1>1, <1>2 DEF Apart, Given
<1> HIDE DEF O2, L2
<1>9. Apart(O2, L2, H)
  BY <1>3, <1>4, <1>5, <1>6, <1>7, <1>8 DEF Apart
<1> QED BY <1>9 DEF O2, L2

\* So does the correspondence of users and mapped pages.
LEMMA MappedTurn ==
  ASSUME Space, NEW t \in Thread, NEW l, NEW gone, NEW came, NEW fresh,
         Turn(t, l, gone, came, fresh), Mine(l) \subseteq Page, Quarantined' = Quarantined
  PROVE  Mapped(mem', owned', loc', Quarantined', leaked')
<1>1. loc'[t] = l /\ \A u \in Thread : u # t => loc'[u] = loc[u]
  BY DEF Space, Turn
<1>2. owned' = (owned \ gone) \cup came /\ gone \subseteq owned
  BY DEF Turn
<1>3. \A a : (HasUser(a, owned', loc', Quarantined') <=>
               \/ Given(l, came, a)
               \/ \E r \in owned \ gone : a \in Whole(r)
               \/ \E u \in Thread : u # t /\ a \in Mine(loc[u])
               \/ a \in Quarantined)
  BY <1>1, <1>2 DEF HasUser, Given
<1>4. \A a : (HasUser(a, owned, loc, Quarantined) <=>
               \/ Given(loc[t], gone, a)
               \/ \E r \in owned \ gone : a \in Whole(r)
               \/ \E u \in Thread : u # t /\ a \in Mine(loc[u])
               \/ a \in Quarantined)
  BY <1>2 DEF HasUser, Given
<1>5. \A a : Given(loc[t], gone, a) =>
               /\ ~\E r \in owned \ gone : a \in Whole(r)
               /\ ~\E u \in Thread : u # t /\ a \in Mine(loc[u])
               /\ a \notin Quarantined
  BY <1>2 DEF Space, Apart, Given
<1>6. /\ \A r \in owned' : Whole(r) \subseteq Page
      /\ \A u \in Thread : Mine(loc'[u]) \subseteq Page
  BY <1>1, <1>2, FitsPages DEF Turn, Space, Mapped
<1>7. Mapped(mem, owned, loc, Quarantined, leaked)
  BY DEF Space
<1>8. TurnMemory(t, l, gone, came, fresh) /\ TurnPages(t, l, gone, came, fresh)
  BY DEF Turn
<1>9. \A a \in Page : HasUser(a, owned', loc', Quarantined') => mem'[a] # "free" /\ a \notin leaked'
  BY <1>3, <1>4, <1>5, <1>7, <1>8 DEF Mapped, TurnMemory, TurnPages
<1>10. \A a \in Page : a \in leaked' => mem'[a] # "free"
  BY <1>4, <1>5, <1>7, <1>8 DEF Mapped, TurnMemory, TurnPages
<1>11. \A a \in Page : mem'[a] # "free" => HasUser(a, owned', loc', Quarantined') \/ a \in leaked'
  BY <1>3, <1>4, <1>7, <1>8 DEF Mapped, TurnMemory, TurnPages
<1> QED BY <1>6, <1>8, <1>9, <1>10, <1>11 DEF Mapped, TurnMemory

\* The pages of a call are pages of the address space.
LEMMA MineInSpace ==
  ASSUME NEW l, Shape(l)
  PROVE  Mine(l) \subseteq Page
<1> USE DEF Mapping, Releasing, Waiting
<1>1. l.real \subseteq Page /\ l.victim \subseteq Page
  BY DEF Shape, LocalTyped
<1>2. l.pc \in {"unmap", "purge", "enqueue"} => Whole(l.release) \subseteq Page
  <2>1. l.op = "shrink" /\ l.release = CutOff(l.old, l.new) => Whole(l.release) \subseteq Page
    BY LargeAllocAssumption
       DEF Shape, ReallocShape, LocalTyped, Fits, Rec, CutOff, Whole, Page
  <2> QED BY <2>1, FitsPages DEF Shape, ReallocShape, FreeShape
<1>3. NewOf(l) \subseteq Page
  BY <1>1, PagesOf, ShapeFits, FitsPages DEF Shape, LocalTyped
<1>4. OldOf(l) \subseteq Page
  <2>1. l.pc \in {"unmap", "purge", "enqueue", "evict", "idle", "resize"} => OldOf(l) \subseteq Page
    BY <1>1, <1>2, PagesOf
  <2>2. l.pc = "guards" => OldOf(l) \subseteq Page
    BY PagesOf, ShapeFits, FitsPages
  <2>3. l.pc \in Mapping \cup {"map", "shrink", "copy", "delete", "remap"} => OldOf(l) \subseteq Page
    <3>1. l.pc \in {"shrink", "copy", "delete", "remap"} => Fits(l.old)
      BY DEF Shape, ReallocShape
    <3> QED BY <3>1, PagesOf, ShapeFits, FitsPages
  <2> QED BY <2>1, <2>2, <2>3 DEF Shape, LocalTyped
<1> QED BY <1>3, <1>4 DEF Mine

\* A turn keeps the invariant: the other calls, allocations and cells are not touched.
LEMMA TurnKeeps ==
  ASSUME Space, NEW t \in Thread, NEW l, NEW gone, NEW came, NEW fresh,
         Turn(t, l, gone, came, fresh)
  PROVE  Space'
<1>1. loc'[t] = l /\ (\A u \in Thread : u # t => loc'[u] = loc[u])
      /\ loc' = [u \in Thread |-> loc'[u]]
  BY DEF Space, Turn
<1>2. owned' = (owned \ gone) \cup came /\ gone \subseteq owned
  BY DEF Turn
<1>3. Quarantined' = Quarantined /\ CellsTyped' /\ CellsApart'
  BY DEF Turn, quarantineVars, Quarantined, Space, CellsTyped, CellsApart
<1>4. \A u \in Thread : Shape(loc'[u])
  BY <1>1 DEF Space, Turn
<1>5. \A r \in owned' : Fits(r)
  BY <1>2 DEF Space, Turn
<1>6. Apart(owned', loc', Quarantined')
  <2>1. Apart((owned \ gone) \cup came, [loc EXCEPT ![t] = l], Quarantined)
    BY <1>2, ApartTurn DEF Space, Turn, TurnPages
  <2> QED BY <2>1, <1>2, <1>3 DEF Turn
<1>7. Mapped(mem', owned', loc', Quarantined', leaked')
  BY <1>3, MappedTurn, MineInSpace DEF Turn
<1>8. /\ \A r \in owned \ gone : \A a \in Whole(r) : mem'[a] = mem[a]
      /\ \A u \in Thread : u # t => \A a \in Mine(loc[u]) : mem'[a] = mem[a]
      /\ \A a \in Quarantined : mem'[a] = mem[a]
  <2>1. \A a \in Page : HasUser(a, owned, loc, Quarantined) /\ ~Given(loc[t], gone, a)
                          => mem'[a] = mem[a]
    BY DEF Turn, TurnMemory, TurnPages
  <2>2. Quarantined \subseteq Page
    BY DEF Space, CellsTyped, Quarantined
  <2>3. /\ \A r \in owned \ gone : Whole(r) \subseteq Page
        /\ \A u \in Thread : Mine(loc[u]) \subseteq Page
    BY DEF Space, Mapped
  <2> QED BY <1>2, <2>1, <2>2, <2>3 DEF Space, Apart, Given, HasUser
<1>9. \A u \in Thread : Contents(mem', loc'[u])
  BY <1>1, <1>8, ContentsLocal DEF Space, Turn
<1>10. \A r \in owned' : Intact(mem', r)
  BY <1>2, <1>8, IntactLocal DEF Space, Turn
<1>11. \A a \in Quarantined' : SealedPage(mem', a)
  BY <1>3, <1>8 DEF Space, SealedPage
<1>12. Alone => \A u \in Thread : loc'[u].pc = "trail" =>
                  \A a \in LeadOf(loc'[u]) : mem'[a] = "free"
  BY <1>1 DEF Turn, Alone
<1>13. mem' \in [Page -> Content]
  BY DEF Turn, TurnMemory
<1> QED BY <1>1, <1>3, <1>4, <1>5, <1>6, <1>7, <1>9, <1>10, <1>11, <1>12, <1>13 DEF Space

\* A step that maps and unmaps nothing hands its pages on, all of them.
LEMMA QuietTurn ==
  ASSUME Space, NEW t \in Thread, NEW l, NEW gone, NEW came,
         loc' = [loc EXCEPT ![t] = l], Shape(l), l.pc # "trail",
         gone \subseteq owned, owned' = (owned \ gone) \cup came, \A r \in came : Fits(r),
         UNCHANGED <<mem, leaked, quarantineVars>>,
         \A a : Given(l, came, a) <=> Given(loc[t], gone, a),
         \A r, s \in came : r = s,
         \A r \in came : \A a \in Whole(r) : a \notin Mine(l),
         \A a \in NewOf(l) : a \notin OldOf(l),
         Contents(mem, l), \A r \in came : Intact(mem, r)
  PROVE  Space'
<1>1. TurnPages(t, l, gone, came, {})
  BY DEF TurnPages
<1>2. TurnMemory(t, l, gone, came, {})
  <2>1. mem \in [Page -> Content] /\ leaked \subseteq Page
    BY DEF Space, Mapped
  <2>2. \A a \in Page : Given(loc[t], gone, a) => mem[a] # "free" /\ a \notin leaked
    BY DEF Space, Mapped, Given, HasUser
  <2> QED BY <2>1, <2>2 DEF TurnMemory
<1>3. Turn(t, l, gone, came, {})
  BY <1>1, <1>2 DEF Turn
<1> QED BY <1>3, TurnKeeps

\* The pages S are given up: unmapped, but for those, in K, that are left behind
\* and leaked.
DroppedBut(S, K) ==
  /\ leaked' = leaked \cup K /\ mem' \in [Page -> Content]
  /\ \A a \in Page \ S : mem'[a] = mem[a]
  /\ \A a \in S : mem'[a] # "free" <=> a \in K
Dropped(S) ==
  \/ mem' = Filled(S, "free") /\ leaked' = leaked
  \/ \E K \in SUBSET S : DroppedBut(S, K)

\* All of them are left behind.
LEMMA DroppedAll ==
  ASSUME NEW S, leaked' = leaked \cup S, mem' \in [Page -> Content],
         \A a \in Page \ S : mem'[a] = mem[a], \A a \in S : mem'[a] # "free"
  PROVE  Dropped(S)
<1>1. S \in SUBSET S /\ DroppedBut(S, S)
  BY DEF DroppedBut
<1> QED BY <1>1 DEF Dropped

\* A step that gives up the pages S: munmap removes them, or fails and leaks them.
LEMMA ReleaseTurn ==
  ASSUME Space, NEW t \in Thread, NEW l, NEW came, NEW S,
         loc' = [loc EXCEPT ![t] = l], Shape(l),
         owned' = owned \cup came, \A r \in came : Fits(r),
         UNCHANGED quarantineVars,
         Dropped(S),
         \A a : Given(loc[t], {}, a) <=> Given(l, came, a) \/ a \in S,
         \A a \in S : ~Given(l, came, a),
         \A r, s \in came : r = s,
         \A r \in came : \A a \in Whole(r) : a \notin Mine(l),
         \A a \in NewOf(l) : a \notin OldOf(l),
         Contents(mem, l), \A r \in came : Intact(mem, r),
         l.pc = "trail" => \A a \in LeadOf(l) : a \in S /\ mem'[a] = "free"
  PROVE  Space'
<1>1. TurnPages(t, l, {}, came, {})
  BY DEF TurnPages
<1>2. mem \in [Page -> Content] /\ leaked \subseteq Page
  BY DEF Space, Mapped
<1>3. \A a \in Page : Given(loc[t], {}, a) => mem[a] # "free" /\ a \notin leaked
  BY DEF Space, Mapped, Given, HasUser
<1>4. S \subseteq Page
  BY MineInSpace DEF Space, Given
<1>5. mem' \in [Page -> Content] /\ leaked' \subseteq Page
  BY <1>2, <1>4 DEF Dropped, DroppedBut, Filled, Content
<1>6. \A a \in Page \ S : mem'[a] = mem[a] /\ (a \in leaked' <=> a \in leaked)
  BY <1>2 DEF Dropped, DroppedBut, Filled
<1>7. \A a \in S : mem'[a] # "free" <=> a \in leaked'
  BY <1>3, <1>4 DEF Dropped, DroppedBut, Filled
<1>8. TurnMemory(t, l, {}, came, {})
  <2>1. \A a \in Page : ~Given(loc[t], {}, a) => mem'[a] = mem[a] /\ (a \in leaked' <=> a \in leaked)
    BY <1>6
  <2>2. \A a \in Page : Given(l, came, a) => mem'[a] # "free" /\ a \notin leaked'
    BY <1>3, <1>6
  <2>3. \A a \in Page : Given(loc[t], {}, a) /\ ~Given(l, came, a) => (mem'[a] # "free" <=> a \in leaked')
    BY <1>7
  <2> QED BY <1>5, <2>1, <2>2, <2>3 DEF TurnMemory
<1>9. Contents(mem', l)
  BY <1>6, ContentsLocal, MineInSpace DEF Given
<1>10. \A r \in came : Intact(mem', r)
  BY <1>6, IntactLocal, FitsPages DEF Given
<1>11. Turn(t, l, {}, came, {})
  BY <1>1, <1>8, <1>9, <1>10 DEF Turn
<1> QED BY <1>11, TurnKeeps

\* The same with no allocation handed out.
LEMMA TrimTurn ==
  ASSUME Space, NEW t \in Thread, NEW l, NEW S,
         loc' = [loc EXCEPT ![t] = l], Shape(l),
         UNCHANGED <<owned, leaked, quarantineVars>>, Dropped(S),
         \A a : Given(loc[t], {}, a) <=> Given(l, {}, a) \/ a \in S,
         \A a \in S : ~Given(l, {}, a),
         \A a \in NewOf(l) : a \notin OldOf(l),
         Contents(mem, l),
         l.pc = "trail" => \A a \in LeadOf(l) : a \in S /\ mem'[a] = "free"
  PROVE  Space'
<1> DEFINE came == {}
<1>1. /\ owned' = owned \cup came /\ \A r \in came : Fits(r)
      /\ \A r, s \in came : r = s
      /\ \A r \in came : \A a \in Whole(r) : a \notin Mine(l)
      /\ \A r \in came : Intact(mem, r)
      /\ \A a : Given(loc[t], {}, a) <=> Given(l, came, a) \/ a \in S
      /\ \A a \in S : ~Given(l, came, a)
  OBVIOUS
<1>2. UNCHANGED quarantineVars
  OBVIOUS
<1> HIDE DEF came
<1> QED BY <1>1, <1>2, ReleaseTurn

-----------------------------------------------------------------------------
(* The steps of a mapping *)

\* A thread that is in no call holds nothing and relies on nothing.
LEMMA IdleShape ==
  Shape(Idle) /\ Mine(Idle) = {} /\ NewOf(Idle) = {} /\ \A m : Contents(m, Idle)
<1>1. Shape(Idle)
  BY LargeAllocAssumption
     DEF Shape, LocalTyped, MappingShape, ReallocShape, FreeShape, Idle, Nothing, Rec,
         Mapping, Releasing, Waiting
<1>2. Mine(Idle) = {} /\ NewOf(Idle) = {}
  BY <1>1, PagesOf DEF Idle, Mine
<1>3. \A m : Contents(m, Idle)
  BY DEF Contents, MappingContents, ReallocContents, KeptContents, Before, After, Idle,
         Mapping, Releasing, Waiting
<1> QED BY <1>1, <1>2, <1>3

\* The initial state: an empty address space.
LEMMA InitSpace == Init => Space
<1> SUFFICES ASSUME Init PROVE Space
  OBVIOUS
<1>1. Shape(Idle) /\ Mine(Idle) = {} /\ NewOf(Idle) = {} /\ \A m : Contents(m, Idle)
  BY IdleShape
<1>4. Quarantined = {}
  BY DEF Init, Quarantined
<1>5. CellsTyped
  BY LargeAllocAssumption DEF Init, CellsTyped
<1>6. CellsApart
  BY DEF Init, CellsApart
<1>7. Apart(owned, loc, Quarantined)
  BY <1>1, <1>4 DEF Init, Apart
<1>8. Mapped(mem, owned, loc, Quarantined, leaked)
  BY <1>1, <1>4 DEF Init, Mapped, HasUser
<1> QED BY <1>1, <1>4, <1>5, <1>6, <1>7, <1>8 DEF Init, Space, Content, Idle

\* Entering malloc takes no page.
LEMMA MallocSpace ==
  ASSUME Space, NEW t \in Thread, NEW s \in Sizes, NEW a \in Aligns, NEW g \in Guards,
         Malloc(t, s, a, g)
  PROVE  Space'
<1> DEFINE l == [Idle EXCEPT !.pc = "map", !.op = "malloc", !.align = a,
                             !.new = [p |-> 0, size |-> s, guard |-> g]]
<1>1. loc[t] = Idle /\ loc' = [loc EXCEPT ![t] = l]
      /\ UNCHANGED <<mem, leaked, quarantineVars, owned>>
  BY DEF Malloc, At, Space, Shape, FreeShape
<1>2. l.pc = "map" /\ l.op = "malloc" /\ l.align = a /\ l.old = Nothing /\ l.kept = {}
      /\ l.new = [p |-> 0, size |-> s, guard |-> g] /\ l.release = Nothing /\ l.victim = {}
      /\ l.real = {}
  BY DEF Idle
<1>3. s \in Nat /\ s >= 1 /\ a \in Nat /\ a >= 1 /\ g \in Nat /\ g >= 1
  BY LargeAllocAssumption
<1>4. Shape(l)
  <2>1. LocalTyped(l)
    <3>1. LocalTyped(Idle) /\ [p |-> 0, size |-> s, guard |-> g] \in Rec
      BY <1>3, IdleShape DEF Shape, Rec
    <3> QED BY <1>3, <3>1 DEF LocalTyped
  <2> HIDE DEF l
  <2> QED BY <1>2, <1>3, <2>1
          DEF Shape, MappingShape, ReallocShape, FreeShape, Mapping, Releasing, Waiting
<1> HIDE DEF l
<1>5. Mine(l) = {} /\ Mine(loc[t]) = {} /\ NewOf(l) = {}
  <2>1. Shape(loc[t]) /\ loc[t].pc = "idle"
    BY <1>1 DEF Space, Idle
  <2> QED BY <1>2, <1>4, <2>1, PagesOf DEF Mine
<1>6. Contents(mem, l)
  BY <1>2 DEF Contents, MappingContents, ReallocContents, KeptContents, Before, After,
              Mapping, Releasing, Waiting
<1>7. \A b : Given(l, {}, b) <=> Given(loc[t], {}, b)
  BY <1>5 DEF Given
<1>8. {} \subseteq owned /\ owned' = (owned \ {}) \cup {}
  BY <1>1
<1> QED BY <1>1, <1>2, <1>4, <1>5, <1>6, <1>7, <1>8, QuietTurn

\* What division by a positive number returns.
LEMMA DivBounds ==
  ASSUME NEW x \in Nat, NEW n \in Nat, n >= 1
  PROVE  x \div n \in Nat /\ n * (x \div n) <= x /\ x < n * (x \div n) + n
OBVIOUS

\* Rounding up to an alignment moves an address forward by less than the alignment.
LEMMA AlignedBounds ==
  ASSUME NEW a \in Nat, NEW n \in Nat, n >= 1
  PROVE  Aligned(a, n) \in Nat /\ a <= Aligned(a, n) /\ Aligned(a, n) <= a + n - 1
<1> DEFINE q == (a + n - 1) \div n
<1>1. q \in Nat /\ n * q <= a + n - 1 /\ a + n - 1 < n * q + n
  BY DivBounds
<1> HIDE DEF q
<1>2. n * q \in Nat
  BY <1>1
<1> QED BY <1>1, <1>2 DEF Aligned, q

\* Filling a range writes pages of the address space only.
LEMMA FilledAt ==
  ASSUME mem \in [Page -> Content], NEW S, NEW v \in Content
  PROVE  /\ Filled(S, v) \in [Page -> Content]
         /\ \A a \in Page : Filled(S, v)[a] = IF a \in S THEN v ELSE mem[a]
BY DEF Filled

\* So does wiping it.
LEMMA WipedAt ==
  ASSUME mem \in [Page -> Content], NEW S
  PROVE  /\ Wiped(S) \in [Page -> Content]
         /\ \A a \in Page :
              Wiped(S)[a] = IF a \in S /\ mem[a] # "none" THEN "zero" ELSE mem[a]
BY DEF Wiped, Content

\* The allocation lies inside what allocate_pages_aligned maps for it.
LEMMA MapPagesSpace ==
  ASSUME Space, NEW t \in Thread, MapPages(t)
  PROVE  Space'
<1> DEFINE k == loc[t]
<1>1. Shape(k) /\ k.pc = "map" /\ Contents(mem, k)
  BY DEF MapPages, At, Space
<1>2. k.new \in Rec /\ k.new.size >= 1 /\ k.new.guard \in Guards /\ k.align \in Nat /\ k.align >= 1
      /\ k.new.guard \in Nat /\ k.new.guard >= 1 /\ k.new.size \in Nat
  BY <1>1, LargeAllocAssumption DEF Shape, LocalTyped, MappingShape, Rec
<1>3. PICK base \in Page :
        LET len == k.new.size + k.align - 1 + 2 * k.new.guard
            real == base .. base + len - 1
        IN  /\ real \subseteq Page /\ \A a \in real : mem[a] = "free"
            /\ mem' = Filled(real, "none")
            /\ loc' = [loc EXCEPT ![t] = [@ EXCEPT !.pc = "protect", !.real = real,
                          !.new = [k.new EXCEPT !.p = Aligned(base + k.new.guard, k.align)]]]
  BY DEF MapPages
<1> DEFINE real == base .. base + (k.new.size + k.align - 1 + 2 * k.new.guard) - 1
<1> DEFINE l == [k EXCEPT !.pc = "protect", !.real = real,
                          !.new = [k.new EXCEPT !.p = Aligned(base + k.new.guard, k.align)]]
<1>4. loc' = [loc EXCEPT ![t] = l] /\ real \subseteq Page /\ (\A a \in real : mem[a] = "free")
      /\ mem' = Filled(real, "none")
      /\ UNCHANGED <<leaked, quarantineVars, owned>>
  BY <1>3 DEF MapPages, Space
<1>5. base \in Nat /\ base + k.new.guard \in Nat
  BY <1>2 DEF Page
<1>6. LET p == Aligned(base + k.new.guard, k.align)
      IN  p \in Nat /\ base + k.new.guard <= p /\ p <= base + k.new.guard + k.align - 1
  BY <1>2, <1>5, AlignedBounds
<1>7. l.pc = "protect" /\ l.op = k.op /\ l.new = [k.new EXCEPT !.p = Aligned(base + k.new.guard, k.align)]
      /\ l.real = real /\ l.old = k.old /\ l.kept = k.kept
  BY <1>1 DEF Shape, LocalTyped
<1>8. l.new \in Rec /\ l.new.size = k.new.size /\ l.new.guard = k.new.guard
      /\ l.new.p = Aligned(base + k.new.guard, k.align)
  BY <1>2, <1>6, <1>7 DEF Rec
<1>9. Whole(l.new) \subseteq real
  BY <1>2, <1>5, <1>6, <1>8 DEF Whole
<1>10. Fits(l.new)
  <2> DEFINE last == base + (k.new.size + k.align - 1 + 2 * k.new.guard) - 1
  <2>1. last \in real /\ last \in Int
    BY <1>2, <1>5
  <2>2. last <= Pages - 1
    <3> HIDE DEF last, real
    <3> QED BY <1>4, <2>1, LargeAllocAssumption DEF Page
  <2> HIDE DEF l, real
  <2> QED BY <1>2, <1>5, <1>6, <1>8, <2>2, LargeAllocAssumption DEF Fits
<1>11. LocalTyped(l)
  <2>1. [k.new EXCEPT !.p = Aligned(base + k.new.guard, k.align)] \in Rec
    BY <1>2, <1>6 DEF Rec
  <2> HIDE DEF real
  <2> QED BY <1>1, <1>4, <2>1 DEF Shape, LocalTyped, Mapping
<1> HIDE DEF l, real
<1>12. Shape(l)
  BY <1>1, <1>7, <1>9, <1>10, <1>11
     DEF Shape, MappingShape, ReallocShape, FreeShape, Mapping, Releasing, Waiting
<1>13. NewOf(l) = real /\ OldOf(l) = OldOf(k) /\ NewOf(k) = {}
  BY <1>1, <1>7, <1>12, PagesOf DEF Mapping
<1>14. \A a \in real : ~HasUser(a, owned, loc, Quarantined) /\ a \notin leaked
  BY <1>4 DEF Space, Mapped
<1>15. \A a \in NewOf(l) : a \notin OldOf(l)
  BY <1>13, <1>14 DEF HasUser, Mine
<1>16. TurnPages(t, l, {}, {}, real)
  BY <1>13, <1>14, <1>15 DEF TurnPages, Given, Mine
<1>17. mem' \in [Page -> Content] /\ \A a \in Page : mem'[a] = IF a \in real THEN "none" ELSE mem[a]
  BY <1>4, FilledAt DEF Space, Content
<1>18. \A a \in OldOf(k) : a \notin real /\ a \in Page /\ mem[a] # "free" /\ a \notin leaked
  BY <1>1, <1>14, MineInSpace DEF HasUser, Mine, Space, Mapped
<1>19. TurnMemory(t, l, {}, {}, real)
  <2>1. leaked' \subseteq Page
    BY <1>4 DEF Space, Mapped
  <2> QED BY <1>4, <1>13, <1>14, <1>17, <1>18, <2>1 DEF TurnMemory, Given, Mine
<1>20. Contents(mem', l)
  <2>1. Contents(mem', k)
    BY <1>1, <1>13, <1>17, <1>18, ContentsLocal DEF Mine
  <2>2. MappingContents(mem', l)
    BY <1>4, <1>7, <1>17 DEF MappingContents
  <2>3. ReallocContents(mem', l)
    BY <1>1, <1>7, <2>1 DEF Contents, ReallocContents, Mapping, Waiting, Releasing
  <2>4. KeptContents(mem', l)
    BY <1>1, <1>7, <2>1 DEF Contents, KeptContents, Before, After, Mapping, Waiting, Releasing
  <2> QED BY <2>2, <2>3, <2>4 DEF Contents
<1>21. Turn(t, l, {}, {}, real)
  BY <1>4, <1>7, <1>12, <1>16, <1>19, <1>20 DEF Turn
<1> QED BY <1>21, TurnKeeps

\* A call that fails gives up what it has mapped, and its argument is owned again.
LEMMA GiveUp ==
  ASSUME Space, NEW t \in Thread, loc[t].pc \in {"map", "shrink"} \cup Mapping,
         ReturnNull(t), UNCHANGED quarantineVars, Dropped(NewOf(loc[t]))
  PROVE  Space'
<1> DEFINE k == loc[t]
<1> DEFINE came == {k.old} \ {Nothing}
<1> DEFINE S == NewOf(k)
<1>1. Shape(k) /\ Contents(mem, k)
  BY DEF Space
<1>2. loc' = [loc EXCEPT ![t] = Idle] /\ owned' = owned \cup came
  BY DEF ReturnNull
<1>3. \A r \in came : Fits(r) /\ Intact(mem, r) /\ OldOf(k) = Whole(r)
  BY <1>1, ShapeFits, PagesOf DEF Contents, ReallocContents
<1>4. came = {} => OldOf(k) = {}
  <2>1. k.pc \in {"map"} \cup Mapping /\ k.old = Nothing => OldOf(k) = {}
    BY <1>1, PagesOf
  <2>2. k.pc = "shrink" => k.old # Nothing
    BY <1>1, FitsPages DEF Shape, ReallocShape
  <2> QED BY <2>1, <2>2
<1>5. \A a : (\E r \in came : a \in Whole(r)) <=> a \in OldOf(k)
  BY <1>3, <1>4
<1>6. \A a : Given(k, {}, a) <=> Given(Idle, came, a) \/ a \in S
  BY <1>5, IdleShape DEF Given, Mine
<1>7. \A a \in S : ~Given(Idle, came, a)
  <2>1. \A a \in S : a \notin OldOf(k)
    BY DEF Space, Apart
  <2> QED BY <1>5, <2>1, IdleShape DEF Given
<1>8. Dropped(S)
  OBVIOUS
<1>9. Idle.pc # "trail" /\ \A r, s \in came : r = s
  BY DEF Idle
<1> HIDE DEF S, came
<1> QED BY <1>2, <1>3, <1>6, <1>7, <1>8, <1>9, IdleShape, ReleaseTurn

\* Unmapping nothing, with the memory as it was.
LEMMA DroppedNone ==
  ASSUME Space, UNCHANGED <<mem, leaked>> PROVE Dropped({})
BY DroppedAll DEF Space

\* munmap of mapped pages, whether it fails or not.
LEMMA UnmapDropped ==
  ASSUME Space, NEW S \in SUBSET Page, Unmap(S), \A a \in S : mem[a] # "free"
  PROVE  Dropped(S)
<1>1. CASE mem' = Filled(S, "free") /\ UNCHANGED leaked
  BY <1>1 DEF Dropped
<1>2. CASE UNCHANGED mem /\ leaked' = leaked \cup S
  BY <1>2, DroppedAll DEF Space
<1> QED BY <1>1, <1>2 DEF Unmap

\* munmap of the two guards that mremap leaves, either of which may fail.
LEMMA GuardsDropped ==
  ASSUME Space, NEW r, NEW kept \in SUBSET OldGuards(r), OldGuards(r) \subseteq Page,
         \A a \in OldGuards(r) : mem[a] # "free",
         mem' = Filled(OldGuards(r) \ kept, "free"), leaked' = leaked \cup kept
  PROVE  Dropped(OldGuards(r))
<1>1. mem' \in [Page -> Content]
      /\ \A a \in Page : mem'[a] = IF a \in OldGuards(r) \ kept THEN "free" ELSE mem[a]
  BY FilledAt DEF Space, Content
<1>2. DroppedBut(OldGuards(r), kept)
  BY <1>1 DEF DroppedBut
<1> QED BY <1>2 DEF Dropped

\* deallocate_pages of mapped pages, whether munmap fails or not.
LEMMA DeallocateDropped ==
  ASSUME Space, NEW r, Body(r) \subseteq Whole(r), Whole(r) \subseteq Page, DeallocatePages(r),
         \A a \in Whole(r) : mem[a] # "free"
  PROVE  Dropped(Whole(r))
<1>1. CASE mem' = Filled(Whole(r), "free") /\ leaked' = leaked
  BY <1>1 DEF Dropped
<1>2. CASE mem' = Wiped(Body(r)) /\ leaked' = leaked \cup Whole(r)
  <2>1. mem' \in [Page -> Content]
        /\ \A a \in Page :
             mem'[a] = IF a \in Body(r) /\ mem[a] # "none" THEN "zero" ELSE mem[a]
    BY <1>2, WipedAt DEF Space
  <2> QED BY <1>2, <2>1, DroppedAll
<1> QED BY <1>1, <1>2 DEF DeallocatePages

\* What a call holds is mapped and not leaked.
LEMMA MineMapped ==
  ASSUME Space, NEW t \in Thread
  PROVE  \A a \in Mine(loc[t]) : a \in Page /\ mem[a] # "free" /\ a \notin leaked
BY MineInSpace DEF Space, Mapped, HasUser

\* The hypothesis of the theorems: a trim that fails after another one has
\* succeeded unmaps pages that by then may belong to another thread.
NoTrimRace == "trim" \notin Failing \/ Alone

\* The steps at which a call gives up.
Fails(t) ==
  MapFails(t) \/ ProtectFails(t) \/ LeadFails(t) \/ TrailFails(t) \/ Drop(t) \/ ShrinkFails(t)

\* A call that gives up drops what it has mapped and nothing else.  A trail that
\* cannot be trimmed: what was trimmed before is still unmapped.
LEMMA FailsDropped ==
  ASSUME Space, NoTrimRace, NEW t \in Thread, Fails(t)
  PROVE  /\ loc[t].pc \in {"map", "shrink"} \cup Mapping /\ ReturnNull(t)
         /\ UNCHANGED quarantineVars /\ Dropped(NewOf(loc[t]))
<1> DEFINE k == loc[t]
<1> USE DEF Mapping
<1>1. Shape(k) /\ \A a \in NewOf(k) : a \in Page /\ mem[a] # "free"
  BY MineMapped DEF Space, Mine
<1>2. CASE MapFails(t) \/ ShrinkFails(t)
  <2>1. k.pc \in {"map", "shrink"} /\ ReturnNull(t) /\ UNCHANGED <<mem, leaked, quarantineVars>>
    BY <1>2 DEF MapFails, ShrinkFails, At
  <2> QED BY <1>1, <2>1, DroppedNone, PagesOf
<1>3. CASE ProtectFails(t) \/ LeadFails(t)
  <2>1. k.pc \in {"protect", "lead"} /\ ReturnNull(t) /\ Unmap(k.real) /\ UNCHANGED quarantineVars
    BY <1>3 DEF ProtectFails, LeadFails, At
  <2> QED BY <1>1, <2>1, PagesOf, UnmapDropped
<1>4. CASE TrailFails(t)
  <2>1. k.pc = "trail" /\ ReturnNull(t) /\ UNCHANGED quarantineVars /\ Alone
    BY <1>4 DEF TrailFails, At, NoTrimRace
  <2>2. NewOf(k) = k.real \ LeadOf(k) /\ Lead(t) = LeadOf(k)
    BY <1>1, <2>1, PagesOf DEF Lead, LeadOf
  <2>3. \A a \in LeadOf(k) : mem[a] = "free"
    BY <2>1 DEF Space
  <2>4. mem' = Filled(k.real, "free") => mem' = Filled(NewOf(k), "free")
    BY <2>2, <2>3 DEF Filled
  <2>5. Dropped(NewOf(k))
    <3>1. CASE mem' = Filled(k.real, "free") /\ UNCHANGED leaked
      BY <2>4, <3>1 DEF Dropped
    <3>2. CASE UNCHANGED mem /\ leaked' = leaked \cup (k.real \ Lead(t))
      BY <1>1, <2>2, <3>2, DroppedAll DEF Space
    <3> QED BY <1>4, <3>1, <3>2 DEF TrailFails
  <2> QED BY <2>1, <2>5
<1>5. CASE Drop(t)
  <2>1. k.pc = "drop" /\ ReturnNull(t) /\ DeallocatePages(k.new) /\ UNCHANGED quarantineVars
    BY <1>5 DEF Drop, At
  <2>2. NewOf(k) = Whole(k.new) /\ Fits(k.new)
    BY <1>1, <2>1, PagesOf, ShapeFits
  <2> QED BY <1>1, <2>1, <2>2, FitsPages, DeallocateDropped
<1> QED BY <1>2, <1>3, <1>4, <1>5 DEF Fails

\* Giving up keeps the invariant.
LEMMA FailsSpace ==
  ASSUME Space, NoTrimRace, NEW t \in Thread, Fails(t) PROVE Space'
BY FailsDropped, GiveUp

\* A step that only writes to mapped pages of the call.
LEMMA WriteTurn ==
  ASSUME Space, NEW t \in Thread, NEW l,
         loc' = [loc EXCEPT ![t] = l], Shape(l), l.pc # "trail",
         UNCHANGED <<owned, leaked, quarantineVars>>, mem' \in [Page -> Content],
         \A a \in Page \ Mine(loc[t]) : mem'[a] = mem[a],
         \A a \in Mine(loc[t]) : mem'[a] # "free",
         \A a : a \in Mine(l) <=> a \in Mine(loc[t]),
         \A a \in NewOf(l) : a \notin OldOf(l),
         Contents(mem', l)
  PROVE  Space'
<1>1. TurnPages(t, l, {}, {}, {})
  BY DEF TurnPages, Given
<1>2. TurnMemory(t, l, {}, {}, {})
  <2>1. leaked \subseteq Page
    BY DEF Space, Mapped
  <2> QED BY <2>1, MineMapped DEF TurnMemory, Given
<1>3. Turn(t, l, {}, {}, {})
  BY <1>1, <1>2 DEF Turn
<1> QED BY <1>3, TurnKeeps

\* Moving on to another phase changes pc only.
LEMMA GotoFields ==
  ASSUME Space, NEW t \in Thread, NEW pc, Goto(t, pc),
         pc \in {"idle", "map", "shrink", "resize"} \cup Mapping \cup Releasing \cup Waiting
  PROVE  LET k == loc[t]
             l == [k EXCEPT !.pc = pc]
         IN  /\ loc' = [loc EXCEPT ![t] = l] /\ LocalTyped(l)
             /\ l.pc = pc /\ l.op = k.op /\ l.new = k.new /\ l.align = k.align
             /\ l.real = k.real /\ l.old = k.old /\ l.release = k.release
             /\ l.victim = k.victim /\ l.kept = k.kept
BY DEF Space, Shape, LocalTyped, Goto

\* memory_protect_rw of the part between the guards.
LEMMA ProtectPagesSpace ==
  ASSUME Space, NEW t \in Thread, ProtectPages(t) PROVE Space'
<1> DEFINE k == loc[t]
<1> DEFINE l == [k EXCEPT !.pc = "lead"]
<1> USE DEF Mapping
<1>1. Shape(k) /\ k.pc = "protect" /\ Contents(mem, k) /\ Goto(t, "lead")
      /\ mem' = Filled(Body(k.new), "zero") /\ UNCHANGED <<owned, leaked, quarantineVars>>
  BY DEF ProtectPages, At, Space
<1>2. loc' = [loc EXCEPT ![t] = l] /\ LocalTyped(l) /\ l.pc = "lead" /\ l.op = k.op
      /\ l.new = k.new /\ l.real = k.real /\ l.old = k.old /\ l.kept = k.kept
  BY <1>1, GotoFields
<1> HIDE DEF l
<1>3. Shape(l)
  BY <1>1, <1>2 DEF Shape, MappingShape, ReallocShape, FreeShape, Releasing, Waiting
<1>4. NewOf(l) = k.real /\ NewOf(k) = k.real /\ OldOf(l) = OldOf(k)
  BY <1>1, <1>2, <1>3, PagesOf
<1>5. Fits(k.new) /\ Whole(k.new) \subseteq k.real /\ Body(k.new) \subseteq k.real
  BY <1>1, FitsPages DEF Shape, MappingShape
<1>6. mem' \in [Page -> Content]
      /\ \A a \in Page : mem'[a] = IF a \in Body(k.new) THEN "zero" ELSE mem[a]
  BY <1>1, FilledAt DEF Space, Content
<1>7. \A a \in NewOf(l) : a \notin OldOf(l)
  BY <1>4 DEF Space, Apart
<1>8. \A a \in Mine(k) : mem'[a] # "free" /\ a \in Page
  BY <1>6, MineMapped
<1>9. MappingContents(mem', l)
  BY <1>1, <1>2, <1>4, <1>5, <1>6, <1>8 DEF Contents, MappingContents, Fresh, Mine
<1>10. k.old # Nothing => \A a \in Whole(k.old) : mem'[a] = mem[a]
  BY <1>1, <1>4, <1>5, <1>6, <1>7, <1>8, PagesOf DEF Mine
<1>11. k.old # Nothing => Intact(mem', k.old) /\ k.kept = DataPages(mem', k.old)
  BY <1>1, <1>10, ShapeFits, IntactLocal DEF Contents, ReallocContents, KeptContents, Before
<1>12. ReallocContents(mem', l) /\ KeptContents(mem', l)
  BY <1>2, <1>11 DEF ReallocContents, KeptContents, Before, After, Releasing, Waiting
<1>13. Contents(mem', l) /\ \A a : a \in Mine(l) <=> a \in Mine(k)
  BY <1>4, <1>9, <1>12 DEF Contents, Mine
<1>14. \A a \in Page \ Mine(k) : mem'[a] = mem[a]
  BY <1>4, <1>5, <1>6 DEF Mine
<1> QED BY <1>1, <1>2, <1>3, <1>6, <1>7, <1>8, <1>13, <1>14, WriteTurn

\* The pages in front of an aligned allocation and its guard are unmapped.
LEMMA TrimLeadSpace ==
  ASSUME Space, NEW t \in Thread, TrimLead(t) PROVE Space'
<1> DEFINE k == loc[t]
<1> DEFINE l == [k EXCEPT !.pc = "trail"]
<1> DEFINE S == LeadOf(k)
<1> USE DEF Mapping
<1>1. Shape(k) /\ k.pc = "lead" /\ Contents(mem, k) /\ Goto(t, "trail")
      /\ mem' = Filled(S, "free") /\ UNCHANGED <<owned, leaked, quarantineVars>>
  BY DEF TrimLead, At, Space, Lead, LeadOf
<1>2. loc' = [loc EXCEPT ![t] = l] /\ LocalTyped(l) /\ l.pc = "trail" /\ l.op = k.op
      /\ l.new = k.new /\ l.real = k.real /\ l.old = k.old /\ l.kept = k.kept
  BY <1>1, GotoFields
<1> HIDE DEF l, S
<1>3. Shape(l)
  BY <1>1, <1>2 DEF Shape, MappingShape, ReallocShape, FreeShape, Releasing, Waiting
<1>4. LeadOf(l) = S /\ NewOf(l) = k.real \ S /\ NewOf(k) = k.real /\ OldOf(l) = OldOf(k)
      /\ S \subseteq k.real
  BY <1>1, <1>2, <1>3, PagesOf DEF LeadOf, S
<1>5. \A a \in NewOf(k) : a \notin OldOf(k)
  BY DEF Space, Apart
<1>6. Contents(mem, l)
  <2>1. Fresh(mem, k.new) /\ \A a \in k.real \ Body(k.new) : mem[a] = "none"
    BY <1>1 DEF Contents, MappingContents
  <2>2. Fits(k.new) /\ Whole(k.new) \subseteq k.real
    BY <1>1 DEF Shape, MappingShape
  <2>3. \A a \in LeftGuard(k.new) \cup RightGuard(k.new) : a \notin Body(k.new)
    BY <2>2, LargeAllocAssumption DEF Fits, Rec, LeftGuard, RightGuard, Body
  <2>4. Intact(mem, k.new)
    BY <2>1, <2>2, <2>3, FitsPages DEF Intact, Fresh
  <2>5. MappingContents(mem, l)
    BY <1>2, <2>1, <2>4 DEF MappingContents
  <2>6. ReallocContents(mem, l) /\ KeptContents(mem, l)
    BY <1>1, <1>2 DEF Contents, ReallocContents, KeptContents, Before, After, Releasing, Waiting
  <2> QED BY <2>5, <2>6 DEF Contents
<1>7. \A a : Given(k, {}, a) <=> Given(l, {}, a) \/ a \in S
  BY <1>4 DEF Given, Mine
<1>8. \A a \in S : ~Given(l, {}, a)
  BY <1>4, <1>5 DEF Given, Mine
<1>9. \A a \in S : a \in Page /\ mem'[a] = "free"
  BY <1>1, <1>4 DEF Filled, Shape, LocalTyped
<1>10. Dropped(S)
  BY <1>1 DEF Dropped
<1>11. \A a \in NewOf(l) : a \notin OldOf(l)
  BY <1>4, <1>5
<1> QED BY <1>1, <1>2, <1>3, <1>4, <1>6, <1>7, <1>8, <1>9, <1>10, <1>11, TrimTurn

\* The pages behind it and its other guard: what stays is the allocation.
LEMMA TrimTrailSpace ==
  ASSUME Space, NEW t \in Thread, TrimTrail(t) PROVE Space'
<1> DEFINE k == loc[t]
<1> DEFINE l == [k EXCEPT !.pc = "insert"]
<1> DEFINE S == Trail(t)
<1> USE DEF Mapping
<1>1. Shape(k) /\ k.pc = "trail" /\ Contents(mem, k) /\ Goto(t, "insert")
      /\ mem' = Filled(S, "free") /\ UNCHANGED <<owned, leaked, quarantineVars>>
  BY DEF TrimTrail, At, Space
<1>2. loc' = [loc EXCEPT ![t] = l] /\ LocalTyped(l) /\ l.pc = "insert" /\ l.op = k.op
      /\ l.new = k.new /\ l.real = k.real /\ l.old = k.old /\ l.kept = k.kept
  BY <1>1, GotoFields
<1> HIDE DEF l
<1>3. Shape(l)
  BY <1>1, <1>2 DEF Shape, MappingShape, ReallocShape, FreeShape, Releasing, Waiting
<1>4. NewOf(l) = Whole(k.new) /\ NewOf(k) = k.real \ LeadOf(k) /\ OldOf(l) = OldOf(k)
  BY <1>1, <1>2, <1>3, PagesOf
<1>5. Fits(k.new) /\ Whole(k.new) \subseteq k.real /\ k.real \subseteq Page
  BY <1>1 DEF Shape, MappingShape, LocalTyped
<1>6. \A a : a \in NewOf(k) <=> a \in Whole(k.new) \/ a \in S
  BY SMTT(30), <1>4, <1>5, LargeAllocAssumption DEF LeadOf, Trail, Whole, Fits, Rec, Page
<1>7. \A a \in S : a \notin Whole(k.new)
  BY <1>5, LargeAllocAssumption DEF Trail, Whole, Fits, Rec, Page
<1> HIDE DEF S
<1>8. \A a \in NewOf(k) : a \notin OldOf(k)
  BY DEF Space, Apart
<1>9. Contents(mem, l)
  BY <1>1, <1>2 DEF Contents, MappingContents, ReallocContents, KeptContents, Before, After,
                    Releasing, Waiting
<1>10. \A a : Given(k, {}, a) <=> Given(l, {}, a) \/ a \in S
  BY <1>4, <1>6 DEF Given, Mine
<1>11. \A a \in S : ~Given(l, {}, a)
  BY <1>4, <1>6, <1>7, <1>8 DEF Given, Mine
<1>12. Dropped(S) /\ \A a \in NewOf(l) : a \notin OldOf(l)
  BY <1>1, <1>4, <1>6, <1>8 DEF Dropped
<1> QED BY <1>1, <1>2, <1>3, <1>9, <1>10, <1>11, <1>12, TrimTurn

\* A new allocation is handed to the program, or kept by the realloc it is for.
LEMMA InsertSpace ==
  ASSUME Space, NEW t \in Thread, Insert(t) PROVE Space'
<1> DEFINE k == loc[t]
<1> USE DEF Mapping
<1>1. Shape(k) /\ k.pc = "insert" /\ Contents(mem, k) /\ UNCHANGED <<mem, leaked, quarantineVars>>
  BY DEF Insert, At, Space
<1>2. Fits(k.new) /\ k.new # Nothing /\ Fresh(mem, k.new) /\ Intact(mem, k.new)
      /\ NewOf(k) = Whole(k.new) /\ k.op \in {"malloc", "copy", "move"}
  BY <1>1, PagesOf, FitsPages DEF Shape, MappingShape, Contents, MappingContents
<1>3. \A a \in NewOf(k) : a \notin OldOf(k)
  BY DEF Space, Apart
<1>4. CASE k.op = "malloc"
  <2> DEFINE came == {k.new}
  <2> DEFINE gone == {}
  <2>1. owned' = owned \cup {k.new} /\ loc' = [loc EXCEPT ![t] = Idle]
    BY <1>4 DEF Insert
  <2>2. OldOf(k) = {}
    BY <1>1, <1>4, PagesOf DEF Shape, MappingShape
  <2>3. \A a : Given(Idle, came, a) <=> Given(k, gone, a)
    BY <1>2, <2>2, IdleShape DEF Given, Mine
  <2>4. /\ owned' = (owned \ gone) \cup came /\ gone \subseteq owned
        /\ \A r \in came : Fits(r) /\ Intact(mem, r)
        /\ \A r, s \in came : r = s
    BY <1>2, <2>1
  <2>5. Idle.pc # "trail"
    BY DEF Idle
  <2> HIDE DEF came, gone
  <2> QED BY <1>1, <2>1, <2>3, <2>4, <2>5, IdleShape, QuietTurn
<1>5. CASE k.op \in {"copy", "move"}
  <2> DEFINE next == IF k.op = "move" THEN "delete" ELSE "copy"
  <2> DEFINE l == [k EXCEPT !.pc = next]
  <2>1. owned' = owned /\ Goto(t, next)
    BY <1>5 DEF Insert
  <2>2. loc' = [loc EXCEPT ![t] = l] /\ LocalTyped(l) /\ l.pc = next /\ l.op = k.op
        /\ l.new = k.new /\ l.old = k.old /\ l.kept = k.kept
    BY <2>1, GotoFields DEF Waiting
  <2> HIDE DEF l
  <2>3. Fits(k.old) /\ k.old # Nothing
    BY <1>1, <1>5, FitsPages DEF Shape, MappingShape
  <2>4. Shape(l)
    BY <1>1, <1>2, <1>5, <2>2, <2>3
       DEF Shape, MappingShape, ReallocShape, FreeShape, Releasing, Waiting
  <2>5. NewOf(l) = NewOf(k) /\ OldOf(l) = OldOf(k)
    BY <1>1, <1>2, <2>2, <2>3, <2>4, PagesOf DEF Waiting
  <2>6. Contents(mem, l)
    <3>1. MappingContents(mem, l) /\ ReallocContents(mem, l)
      BY <1>1, <1>2, <2>2, <2>3
         DEF Contents, MappingContents, ReallocContents, Releasing, Waiting
    <3>2. k.kept = DataPages(mem, k.old)
      BY <1>1, <2>3 DEF Contents, KeptContents, Before
    <3>3. KeptContents(mem, l)
      BY <1>2, <1>5, <2>2, <3>2 DEF KeptContents, Before, After, Releasing, Waiting
    <3> QED BY <3>1, <3>3 DEF Contents
  <2>7. (\A a : a \in Mine(l) <=> a \in Mine(k)) /\ mem' \in [Page -> Content] /\ Contents(mem', l)
        /\ \A a \in NewOf(l) : a \notin OldOf(l)
    BY <1>1, <1>3, <2>5, <2>6 DEF Mine, Space
  <2>8. \A a \in Mine(k) : mem'[a] # "free"
    BY <1>1, MineMapped
  <2> QED BY <1>1, <2>1, <2>2, <2>4, <2>7, <2>8, WriteTurn
<1> QED BY <1>2, <1>4, <1>5

\* The table has no room: nothing has changed but the next step.
LEMMA InsertFailsSpace ==
  ASSUME Space, NEW t \in Thread, InsertFails(t) PROVE Space'
<1> DEFINE k == loc[t]
<1> DEFINE l == [k EXCEPT !.pc = "drop"]
<1> USE DEF Mapping
<1>1. Shape(k) /\ k.pc = "insert" /\ Contents(mem, k) /\ Goto(t, "drop")
      /\ UNCHANGED <<mem, owned, leaked, quarantineVars>>
  BY DEF InsertFails, At, Space
<1>2. loc' = [loc EXCEPT ![t] = l] /\ LocalTyped(l) /\ l.pc = "drop" /\ l.op = k.op
      /\ l.new = k.new /\ l.old = k.old /\ l.kept = k.kept
  BY <1>1, GotoFields
<1> HIDE DEF l
<1>3. Shape(l)
  BY <1>1, <1>2 DEF Shape, MappingShape, ReallocShape, FreeShape, Releasing, Waiting
<1>4. NewOf(l) = NewOf(k) /\ OldOf(l) = OldOf(k)
  BY <1>1, <1>2, <1>3, PagesOf
<1>5. Contents(mem, l)
  BY <1>1, <1>2 DEF Contents, MappingContents, ReallocContents, KeptContents, Before, After,
                    Releasing, Waiting
<1>6. (\A a : a \in Mine(l) <=> a \in Mine(k)) /\ mem' \in [Page -> Content]
      /\ Contents(mem', l) /\ \A a \in NewOf(l) : a \notin OldOf(l)
  BY <1>1, <1>4, <1>5 DEF Mine, Space, Apart
<1>7. \A a \in Mine(k) : mem'[a] # "free"
  BY <1>1, MineMapped
<1> QED BY <1>1, <1>2, <1>3, <1>6, <1>7, WriteTurn

-----------------------------------------------------------------------------
(* The steps of a free *)

\* The next step of a release is to unmap or to purge.
LEMMA ReleaseAtType == \A r : ReleaseAt(r) \in {"unmap", "purge"}
BY DEF ReleaseAt

\* A freed allocation passes from the program to the call.
LEMMA FreeSpace ==
  ASSUME Space, NEW t \in Thread, NEW r \in owned, Free(t, r) PROVE Space'
<1> DEFINE l == [Idle EXCEPT !.pc = ReleaseAt(r), !.op = "free", !.release = r]
<1> DEFINE gone == {r}
<1> DEFINE came == {}
<1>1. loc[t] = Idle /\ loc' = [loc EXCEPT ![t] = l]
      /\ UNCHANGED <<mem, leaked, quarantineVars>> /\ owned' = owned \ {r}
  BY DEF Free, At, Space, Shape, FreeShape
<1>2. Fits(r) /\ r \in Rec /\ Intact(mem, r)
  BY DEF Space, Fits
<1>3. l.pc = ReleaseAt(r) /\ l.op = "free" /\ l.old = Nothing /\ l.new = Nothing /\ l.release = r
  BY DEF Idle
<1>4. Shape(l)
  <2>1. LocalTyped(l)
    <3>1. LocalTyped(Idle)
      BY IdleShape DEF Shape
    <3> QED BY <1>2, <3>1, ReleaseAtType DEF LocalTyped, Releasing
  <2> HIDE DEF l
  <2> QED BY <1>2, <1>3, <2>1, ReleaseAtType
          DEF Shape, MappingShape, ReallocShape, FreeShape, Mapping, Releasing, Waiting
<1> HIDE DEF l
<1>5. NewOf(l) = {} /\ OldOf(l) = Whole(r)
  BY <1>3, <1>4, ReleaseAtType, PagesOf DEF Releasing
<1>6. Contents(mem, l)
  BY <1>2, <1>3, ReleaseAtType
     DEF Contents, MappingContents, ReallocContents, KeptContents, Before, After, Intact,
         Mapping, Releasing, Waiting
<1>7. \A a : Given(l, came, a) <=> Given(loc[t], gone, a)
  BY <1>1, <1>5, IdleShape DEF Given, Mine
<1>8. /\ gone \subseteq owned /\ owned' = (owned \ gone) \cup came
      /\ \A s \in came : Fits(s) /\ Intact(mem, s)
      /\ \A s, u \in came : s = u
      /\ \A s \in came : \A a \in Whole(s) : a \notin Mine(l)
      /\ \A a \in NewOf(l) : a \notin OldOf(l)
      /\ l.pc # "trail"
  BY <1>1, <1>3, <1>5, ReleaseAtType
<1> HIDE DEF gone, came
<1> QED BY <1>1, <1>4, <1>6, <1>7, <1>8, QuietTurn

\* What Finish leaves of a call, and what it hands to the program.
FinishTo(k) ==
  IF k.op = "shrink" THEN [k EXCEPT !.pc = "resize", !.release = Nothing, !.victim = {}] ELSE Idle
FinishGives(k) == IF k.op = "shrink" THEN {} ELSE {k.new} \ {Nothing}

\* The new allocation survives the end of a release, with the call or the program.
LEMMA FinishLocal ==
  ASSUME Space, NEW t \in Thread, loc[t].pc \in Releasing \cup {"guards"}, Finish(t)
  PROVE  LET k == loc[t]
             l == FinishTo(k)
             came == FinishGives(k)
         IN  /\ loc' = [loc EXCEPT ![t] = l] /\ Shape(l) /\ l.pc # "trail"
             /\ owned' = owned \cup came
             /\ \A r \in came : Fits(r)
             /\ \A r \in came : Intact(mem, r)
             /\ \A r, s \in came : r = s
             /\ \A a : Given(l, came, a) <=> a \in NewOf(k)
             /\ \A r \in came : \A a \in Whole(r) : a \notin Mine(l)
             /\ \A a \in NewOf(l) : a \notin OldOf(l)
             /\ Contents(mem, l)
<1> DEFINE k == loc[t]
<1> DEFINE l == FinishTo(k)
<1> DEFINE came == FinishGives(k)
<1> USE DEF Releasing, Waiting
<1>1. Shape(k) /\ Contents(mem, k)
  BY DEF Space
<1>2. CASE k.op = "shrink"
  <2>1. owned' = owned \cup came /\ came = {} /\ loc' = [loc EXCEPT ![t] = l]
    BY <1>2 DEF Finish, FinishTo, FinishGives
  <2>2. l.pc = "resize" /\ l.op = "shrink" /\ l.new = k.new /\ l.old = k.old /\ l.kept = k.kept
        /\ l.release = Nothing /\ l.victim = {} /\ LocalTyped(l)
    <3>1. Nothing \in Rec /\ LocalTyped(k)
      BY <1>1 DEF Nothing, Rec, Shape
    <3> QED BY <1>2, <3>1 DEF FinishTo, LocalTyped
  <2> HIDE DEF l, came
  <2>3. Shape(l)
    BY <1>1, <1>2, <2>2 DEF Shape, MappingShape, ReallocShape, FreeShape, Mapping
  <2>4. k.new # Nothing /\ k.pc # "guards"
    BY <1>1, <1>2 DEF Shape, ReallocShape, Nothing
  <2>5. NewOf(l) = NewOf(k) /\ OldOf(l) = {}
    BY <1>1, <2>2, <2>3, <2>4, PagesOf
  <2>6. Contents(mem, l)
    BY <1>1, <1>2, <2>2, <2>4
       DEF Contents, MappingContents, ReallocContents, KeptContents, Before, After, Mapping
  <2>7. \A a : Given(l, came, a) <=> a \in NewOf(k)
    BY <2>1, <2>5 DEF Given, Mine
  <2> QED BY <2>1, <2>2, <2>3, <2>5, <2>6, <2>7 DEF l, came
<1>3. CASE k.op # "shrink"
  <2>1. owned' = owned \cup came /\ loc' = [loc EXCEPT ![t] = l] /\ l = Idle
        /\ came = {k.new} \ {Nothing}
    BY <1>3 DEF Finish, FinishTo, FinishGives
  <2>2. k.new # Nothing => Fits(k.new) /\ Intact(mem, k.new) /\ NewOf(k) = Whole(k.new)
    BY <1>1, ShapeFits, PagesOf DEF Contents, ReallocContents
  <2>3. k.new = Nothing => NewOf(k) = {}
    BY <1>1, PagesOf
  <2>4. \A a : Given(l, came, a) <=> a \in NewOf(k)
    BY <2>1, <2>2, <2>3, IdleShape DEF Given
  <2>5. Idle.pc # "trail"
    BY DEF Idle
  <2> QED BY <2>1, <2>2, <2>4, <2>5, IdleShape
<1> QED BY <1>2, <1>3

\* A release that ends with a munmap.
LEMMA FinishRelease ==
  ASSUME Space, NEW t \in Thread, loc[t].pc \in Releasing \cup {"guards"}, Finish(t),
         Dropped(OldOf(loc[t])), UNCHANGED quarantineVars
  PROVE  Space'
<1> DEFINE k == loc[t]
<1> DEFINE l == FinishTo(k)
<1> DEFINE came == FinishGives(k)
<1> DEFINE S == OldOf(k)
<1>1. /\ loc' = [loc EXCEPT ![t] = l] /\ Shape(l) /\ l.pc # "trail"
      /\ owned' = owned \cup came
      /\ \A r \in came : Fits(r)
      /\ \A r \in came : Intact(mem, r)
      /\ \A r, s \in came : r = s
      /\ \A a : Given(l, came, a) <=> a \in NewOf(k)
      /\ \A r \in came : \A a \in Whole(r) : a \notin Mine(l)
      /\ \A a \in NewOf(l) : a \notin OldOf(l)
      /\ Contents(mem, l)
  BY FinishLocal
<1>2. \A a \in NewOf(k) : a \notin OldOf(k)
  BY DEF Space, Apart
<1>3. \A a : Given(k, {}, a) <=> Given(l, came, a) \/ a \in S
  BY <1>1 DEF Given, Mine
<1>4. (\A a \in S : ~Given(l, came, a)) /\ Dropped(S)
  BY <1>1, <1>2
<1> HIDE DEF l, came, S
<1> QED BY <1>1, <1>3, <1>4, ReleaseTurn

\* The range that a release gives back, and its parts.
LEMMA ReleaseRange ==
  ASSUME NEW k, Shape(k), k.pc \in {"unmap", "purge", "enqueue"}
  PROVE  /\ k.release \in Rec /\ k.release.size >= 1 /\ OldOf(k) = Whole(k.release)
         /\ Whole(k.release) \subseteq Page
         /\ Body(k.release) \subseteq Whole(k.release)
         /\ \A a \in Whole(k.release) :
              a \in Body(k.release) \/ a \in LeftGuard(k.release) \cup RightGuard(k.release)
         /\ \A a \in LeftGuard(k.release) \cup RightGuard(k.release) : a \notin Body(k.release)
<1>1. k.release \in Rec /\ OldOf(k) = Whole(k.release) /\ Whole(k.release) \subseteq Page
  BY PagesOf, MineInSpace DEF Shape, LocalTyped, Mine
<1>2. k.release.size >= 1
  <2>1. k.op = "shrink" => k.release.size >= 1
    BY DEF Shape, LocalTyped, ReallocShape, CutOff, Releasing, Rec
  <2>2. k.op # "shrink" => Fits(k.release)
    BY DEF Shape, ReallocShape, FreeShape, Releasing
  <2> QED BY <2>1, <2>2 DEF Fits
<1> QED BY <1>1, <1>2 DEF Rec, Whole, Body, LeftGuard, RightGuard

\* The steps at which a release ends with a munmap.
Ends(t) == UnmapRelease(t) \/ Evict(t) \/ UnmapGuards(t)

\* A release that ends drops what it still holds of the old range.
LEMMA EndsDropped ==
  ASSUME Space, NEW t \in Thread, Ends(t)
  PROVE  /\ loc[t].pc \in Releasing \cup {"guards"} /\ Finish(t)
         /\ UNCHANGED quarantineVars /\ Dropped(OldOf(loc[t]))
<1> DEFINE k == loc[t]
<1> USE DEF Releasing
<1>1. Shape(k) /\ \A a \in OldOf(k) : a \in Page /\ mem[a] # "free"
  BY MineMapped DEF Space, Mine
<1>2. CASE UnmapRelease(t)
  <2>1. k.pc = "unmap" /\ DeallocatePages(k.release) /\ Finish(t) /\ UNCHANGED quarantineVars
    BY <1>2 DEF UnmapRelease, At
  <2>2. OldOf(k) = Whole(k.release) /\ Body(k.release) \subseteq Whole(k.release)
    BY <1>1, <2>1, ReleaseRange
  <2> QED BY <1>1, <2>1, <2>2, DeallocateDropped
<1>3. CASE Evict(t)
  <2>1. k.pc = "evict" /\ Unmap(k.victim) /\ Finish(t) /\ UNCHANGED quarantineVars
    BY <1>3 DEF Evict, At
  <2> QED BY <1>1, <2>1, PagesOf, UnmapDropped
<1>4. CASE UnmapGuards(t)
  <2>1. k.pc = "guards" /\ Finish(t) /\ UNCHANGED quarantineVars
    BY <1>4 DEF UnmapGuards, At
  <2>2. PICK kept \in SUBSET OldGuards(k.old) :
          mem' = Filled(OldGuards(k.old) \ kept, "free") /\ leaked' = leaked \cup kept
    BY <1>4 DEF UnmapGuards, OldGuards
  <2>3. OldOf(k) = OldGuards(k.old)
    BY <1>1, <2>1, PagesOf DEF OldGuards
  <2> QED BY <1>1, <2>1, <2>2, <2>3, GuardsDropped
<1> QED BY <1>2, <1>3, <1>4 DEF Ends

\* Ending a release keeps the invariant.
LEMMA EndsSpace ==
  ASSUME Space, NEW t \in Thread, Ends(t) PROVE Space'
BY EndsDropped, FinishRelease

\* A purge makes the range inaccessible, or zero where it cannot be replaced.
LEMMA PurgeSpace ==
  ASSUME Space, NEW t \in Thread, Purge(t) PROVE Space'
<1> DEFINE k == loc[t]
<1> DEFINE l == [k EXCEPT !.pc = "enqueue"]
<1> USE DEF Releasing, Waiting
<1>1. Shape(k) /\ k.pc = "purge" /\ Contents(mem, k) /\ Goto(t, "enqueue")
      /\ mem' \in Purged(k.release) /\ UNCHANGED <<owned, leaked, quarantineVars>>
  BY DEF Purge, At, Space
<1>2. loc' = [loc EXCEPT ![t] = l] /\ LocalTyped(l) /\ l.pc = "enqueue" /\ l.op = k.op
      /\ l.new = k.new /\ l.release = k.release /\ l.old = k.old /\ l.kept = k.kept
  BY <1>1, GotoFields
<1> HIDE DEF l
<1>3. Shape(l)
  BY <1>1, <1>2 DEF Shape, MappingShape, ReallocShape, FreeShape, Mapping
<1>4. NewOf(l) = NewOf(k) /\ OldOf(l) = OldOf(k) /\ OldOf(k) = Whole(k.release)
  BY <1>1, <1>2, <1>3, PagesOf
<1>5. \/ mem' = Filled(Body(k.release), "none")
      \/ mem' = Wiped(Body(k.release)) /\ "fixed" \in Failing
  BY <1>1 DEF Purged
<1>6. mem' \in [Page -> Content]
      /\ \A a \in Page :
           /\ a \notin Body(k.release) => mem'[a] = mem[a]
           /\ a \in Body(k.release) => mem'[a] = "none" \/ (mem'[a] = "zero" /\ "fixed" \in Failing)
  BY <1>5, FilledAt, WipedAt DEF Space, Content
<1>7. \A a \in NewOf(k) : a \notin OldOf(k)
  BY DEF Space, Apart
<1>8. Body(k.release) \subseteq OldOf(k)
  BY <1>1, ReleaseRange
<1>9. \A a \in Mine(k) : mem'[a] # "free" /\ a \in Page
  BY <1>6, MineMapped
<1>10. k.new # Nothing =>
         Intact(mem', k.new) /\ DataPages(mem', k.new) = DataPages(mem, k.new)
  <2>1. k.new # Nothing => Fits(k.new) /\ NewOf(k) = Whole(k.new) /\ Intact(mem, k.new)
    BY <1>1, ShapeFits, PagesOf DEF Contents, ReallocContents
  <2>2. k.new # Nothing => \A a \in Whole(k.new) : mem'[a] = mem[a]
    BY <1>6, <1>7, <1>8, <1>9, <2>1 DEF Mine
  <2> QED BY <2>1, <2>2, IntactLocal
<1>11. \A a \in Whole(k.release) : SealedPage(mem', a)
  <2>1. \A a \in LeftGuard(k.release) \cup RightGuard(k.release) : mem[a] = "none"
    BY <1>1 DEF Contents, ReallocContents
  <2> QED BY <1>1, <1>4, <1>5, <1>6, <1>9, <2>1, ReleaseRange DEF SealedPage, Mine
<1>12. Contents(mem', l)
  BY <1>1, <1>2, <1>10, <1>11
     DEF Contents, MappingContents, ReallocContents, KeptContents, Before, After, Mapping
<1>13. (\A a : a \in Mine(l) <=> a \in Mine(k)) /\ (\A a \in NewOf(l) : a \notin OldOf(l))
       /\ \A a \in Page \ Mine(k) : mem'[a] = mem[a]
  BY <1>4, <1>6, <1>7, <1>8 DEF Mine
<1> QED BY <1>1, <1>2, <1>3, <1>6, <1>9, <1>12, <1>13, WriteTurn

\* A quarantined page is in a cell.
LEMMA InQuarantined ==
  /\ \A a : a \in Quarantined <=>
       \/ \E i \in 0 .. RandomLen - 1 : a \in quarantine_random[i]
       \/ \E i \in 0 .. QueueLen - 1 : a \in quarantine_queue[i]
  /\ \A a : a \in Quarantined' <=>
       \/ \E i \in 0 .. RandomLen - 1 : a \in quarantine_random'[i]
       \/ \E i \in 0 .. QueueLen - 1 : a \in quarantine_queue'[i]
BY DEF Quarantined

\* An exchange of pages between a call and the quarantine.
LEMMA ExchangeKeeps ==
  ASSUME Space, NEW t \in Thread, NEW l, NEW came,
         loc' = [loc EXCEPT ![t] = l], Shape(l), l.pc # "trail",
         owned' = owned \cup came, \A r \in came : Fits(r),
         UNCHANGED <<mem, leaked>>, CellsTyped', CellsApart',
         \A a : (Given(l, came, a) \/ a \in Quarantined') <=>
                  (Given(loc[t], {}, a) \/ a \in Quarantined),
         \A a \in Quarantined' : ~Given(l, came, a) /\ SealedPage(mem, a),
         \A r, s \in came : r = s,
         \A r \in came : \A a \in Whole(r) : a \notin Mine(l),
         \A a \in NewOf(l) : a \notin OldOf(l),
         Contents(mem, l), \A r \in came : Intact(mem, r)
  PROVE  Space'
<1>1. loc'[t] = l /\ (\A u \in Thread : u # t => loc'[u] = loc[u])
      /\ loc' = [u \in Thread |-> loc'[u]]
  BY DEF Space
<1>2. \A a : Given(loc[t], {}, a) \/ a \in Quarantined =>
               /\ \A r \in owned : a \notin Whole(r)
               /\ \A u \in Thread : u # t => a \notin Mine(loc[u])
  BY DEF Space, Apart, Given
<1>3. Apart(owned', loc', Quarantined')
  <2>1. \A r, s \in owned' : \A a \in Whole(r) : a \in Whole(s) => r = s
    BY <1>2 DEF Space, Apart, Given
  <2>2. \A r \in owned', u \in Thread : \A a \in Whole(r) : a \notin Mine(loc'[u])
    BY <1>1, <1>2 DEF Space, Apart, Given
  <2>3. \A u, v \in Thread : \A a \in Mine(loc'[u]) : a \in Mine(loc'[v]) => u = v
    BY <1>1, <1>2 DEF Space, Apart, Given
  <2>4. \A u \in Thread : \A a \in NewOf(loc'[u]) : a \notin OldOf(loc'[u])
    BY <1>1 DEF Space, Apart
  <2>5. \A r \in owned' : \A a \in Whole(r) : a \notin Quarantined'
    BY <1>2 DEF Given
  <2>6. \A u \in Thread : \A a \in Mine(loc'[u]) : a \notin Quarantined'
    BY <1>1, <1>2 DEF Given
  <2> QED BY <2>1, <2>2, <2>3, <2>4, <2>5, <2>6 DEF Apart
<1>4. Mapped(mem', owned', loc', Quarantined', leaked')
  <2>1. \A a : HasUser(a, owned', loc', Quarantined') <=> HasUser(a, owned, loc, Quarantined)
    BY <1>1 DEF HasUser, Given
  <2>2. /\ \A r \in owned' : Whole(r) \subseteq Page
        /\ \A u \in Thread : Mine(loc'[u]) \subseteq Page
    BY <1>1, FitsPages, MineInSpace DEF Space, Mapped
  <2> QED BY <2>1, <2>2 DEF Space, Mapped
<1>5. /\ \A u \in Thread : Shape(loc'[u]) /\ Contents(mem', loc'[u])
      /\ \A r \in owned' : Fits(r) /\ Intact(mem', r)
  BY <1>1 DEF Space
<1>6. Alone => \A u \in Thread : loc'[u].pc = "trail" =>
                  \A a \in LeadOf(loc'[u]) : mem'[a] = "free"
  BY <1>1 DEF Alone
<1>7. (\A a \in Quarantined' : SealedPage(mem', a)) /\ mem' \in [Page -> Content]
  BY DEF Space
<1> QED BY <1>1, <1>3, <1>4, <1>5, <1>6, <1>7 DEF Space

\* The two stages of the quarantine take in the range T and put out the range out.
Queued(swapped) == QueueLen > 0 /\ swapped # {}
Shifted(T, i, swapped, out) ==
  /\ swapped = IF RandomLen = 0 THEN T ELSE quarantine_random[i]
  /\ out = IF Queued(swapped) THEN quarantine_queue[quarantine_queue_index] ELSE swapped
  /\ quarantine_random' =
       IF RandomLen = 0 THEN quarantine_random ELSE [quarantine_random EXCEPT ![i] = T]
  /\ quarantine_queue' =
       IF Queued(swapped) THEN [quarantine_queue EXCEPT ![quarantine_queue_index] = swapped]
       ELSE quarantine_queue
  /\ quarantine_queue_index' =
       IF Queued(swapped) THEN (quarantine_queue_index + 1) % QueueLen ELSE quarantine_queue_index

\* No page is lost or duplicated between the stages.
LEMMA ShiftCells ==
  ASSUME CellsTyped, CellsApart, NEW T \in SUBSET Page, T \cap Quarantined = {}, NEW i,
         i \in (IF RandomLen = 0 THEN {0} ELSE 0 .. RandomLen - 1), NEW swapped,
         NEW out, Shifted(T, i, swapped, out)
  PROVE  /\ CellsTyped' /\ CellsApart' /\ out \in SUBSET Page
         /\ \A a : (a \in Quarantined' \/ a \in out) <=> (a \in Quarantined \/ a \in T)
         /\ \A a \in out : a \notin Quarantined'
<1> DEFINE x == quarantine_queue_index
<1> DEFINE queued == Queued(swapped)
<1>1. RandomLen \in Nat /\ QueueLen \in Nat
  BY LargeAllocAssumption
<1>2. RandomLen # 0 => i \in 0 .. RandomLen - 1
  OBVIOUS
<1>3. queued => x \in 0 .. QueueLen - 1 /\ x' \in 0 .. QueueLen - 1
  BY <1>1 DEF CellsTyped, Shifted, Queued
<1>4. swapped \in SUBSET Page
  BY <1>2 DEF Shifted, CellsTyped
<1>5. out \in SUBSET Page
  BY <1>3, <1>4 DEF Shifted, CellsTyped
<1>6. CellsTyped'
  BY <1>1, <1>2, <1>3, <1>4 DEF Shifted, CellsTyped
<1>7. \A j \in 0 .. RandomLen - 1 :
        quarantine_random'[j] = IF j = i THEN T ELSE quarantine_random[j]
  BY <1>1, <1>2 DEF Shifted, CellsTyped
<1>8. \A j \in 0 .. QueueLen - 1 :
        quarantine_queue'[j] = IF queued /\ j = x THEN swapped ELSE quarantine_queue[j]
  BY <1>3 DEF Shifted, CellsTyped
<1>9. \A a \in T : /\ \A j \in 0 .. RandomLen - 1 : a \notin quarantine_random[j]
                   /\ \A j \in 0 .. QueueLen - 1 : a \notin quarantine_queue[j]
  BY InQuarantined
<1>10. CASE RandomLen = 0
  <2>1. swapped = T /\ 0 .. RandomLen - 1 = {}
    BY <1>10 DEF Shifted
  <2>2. CellsApart'
    BY <1>8, <1>9, <2>1 DEF CellsApart
  <2>3. CASE queued
    <3>1. out = quarantine_queue[x] /\ x \in 0 .. QueueLen - 1
      BY <1>3, <2>3 DEF Shifted
    <3>2. \A a : (a \in Quarantined' \/ a \in out) <=> (a \in Quarantined \/ a \in T)
      BY <1>8, <2>1, <2>3, <3>1, InQuarantined
    <3>3. \A a \in out : a \notin Quarantined'
      BY <1>8, <1>9, <2>1, <2>3, <3>1, InQuarantined DEF CellsApart
    <3> QED BY <1>5, <1>6, <2>2, <3>2, <3>3
  <2>4. CASE ~queued
    <3>1. out = T
      BY <2>1, <2>4 DEF Shifted
    <3>2. \A a : a \in Quarantined' <=> a \in Quarantined
      BY <1>8, <2>1, <2>4, InQuarantined
    <3> QED BY <1>5, <1>6, <2>2, <3>1, <3>2
  <2> QED BY <2>3, <2>4
<1>11. CASE RandomLen # 0
  <2>1. swapped = quarantine_random[i] /\ i \in 0 .. RandomLen - 1
    BY <1>2, <1>11 DEF Shifted
  <2>2. CellsApart'
    <3>1. \A j, m \in 0 .. RandomLen - 1 :
            \A a \in quarantine_random'[j] : a \in quarantine_random'[m] => j = m
      BY <1>7, <1>9 DEF CellsApart
    <3>2. \A j, m \in 0 .. QueueLen - 1 :
            \A a \in quarantine_queue'[j] : a \in quarantine_queue'[m] => j = m
      BY <1>8, <2>1 DEF CellsApart
    <3>3. \A j \in 0 .. RandomLen - 1, m \in 0 .. QueueLen - 1 :
            \A a \in quarantine_random'[j] : a \notin quarantine_queue'[m]
      BY <1>7, <1>8, <1>9, <2>1 DEF CellsApart
    <3> QED BY <3>1, <3>2, <3>3 DEF CellsApart
  <2>3. CASE queued
    <3>1. out = quarantine_queue[x] /\ x \in 0 .. QueueLen - 1
      BY <1>3, <2>3 DEF Shifted
    <3>2. \A a : (a \in Quarantined' \/ a \in out) => (a \in Quarantined \/ a \in T)
      BY <1>7, <1>8, <2>1, <2>3, <3>1, InQuarantined
    <3>3. \A a \in T : a \in Quarantined'
      BY <1>7, <2>1, InQuarantined
    <3>4. \A a \in Quarantined : a \in Quarantined' \/ a \in out
      <4> TAKE a \in Quarantined
      <4>1. CASE \E j \in 0 .. RandomLen - 1 : a \in quarantine_random[j]
        BY <1>7, <1>8, <2>1, <2>3, <3>1, <4>1, InQuarantined
      <4>2. CASE \E j \in 0 .. QueueLen - 1 : a \in quarantine_queue[j]
        BY <1>8, <2>3, <3>1, <4>2, InQuarantined
      <4> QED BY <4>1, <4>2, InQuarantined
    <3>5. \A a \in out : a \notin Quarantined'
      <4> TAKE a \in out
      <4>1. \A j \in 0 .. RandomLen - 1 : a \notin quarantine_random'[j]
        BY <1>7, <1>9, <3>1 DEF CellsApart
      <4>2. \A j \in 0 .. QueueLen - 1 : a \notin quarantine_queue'[j]
        BY <1>8, <2>1, <2>3, <3>1 DEF CellsApart
      <4> QED BY <4>1, <4>2, InQuarantined
    <3> QED BY <1>5, <1>6, <2>2, <3>2, <3>3, <3>4, <3>5
  <2>4. CASE ~queued
    <3>1. out = quarantine_random[i]
      BY <2>1, <2>4 DEF Shifted
    <3>2. \A a : (a \in Quarantined' \/ a \in out) <=> (a \in Quarantined \/ a \in T)
      BY <1>7, <1>8, <2>1, <2>4, <3>1, InQuarantined
    <3>3. \A a \in out : a \notin Quarantined'
      BY <1>7, <1>8, <1>9, <2>1, <2>4, <3>1, InQuarantined DEF CellsApart
    <3> QED BY <1>5, <1>6, <2>2, <3>2, <3>3
  <2> QED BY <2>3, <2>4
<1> QED BY <1>10, <1>11

\* A purged range enters the quarantine; what falls out is the call's to unmap.
LEMMA EnqueueSpace ==
  ASSUME Space, NEW t \in Thread, Enqueue(t) PROVE Space'
<1> DEFINE k == loc[t]
<1> DEFINE T == Whole(k.release)
<1>1. Shape(k) /\ k.pc = "enqueue" /\ Contents(mem, k) /\ UNCHANGED <<mem, leaked>>
  BY DEF Enqueue, At, Space
<1>2. OldOf(k) = T /\ T \subseteq Page
  BY <1>1, ReleaseRange
<1>3. T \cap Quarantined = {} /\ \A a \in T : SealedPage(mem, a) /\ a \notin NewOf(k)
  BY <1>1, <1>2 DEF Space, Apart, Mine, Contents, ReallocContents
<1>4. PICK i \in (IF RandomLen = 0 THEN {0} ELSE 0 .. RandomLen - 1) :
       LET target == Held(loc[t].release)
           swapped == IF RandomLen = 0 THEN target ELSE quarantine_random[i]
           queued == QueueLen > 0 /\ swapped # {}
           out == IF queued THEN quarantine_queue[quarantine_queue_index] ELSE swapped
       IN  /\ quarantine_random' =
                IF RandomLen = 0 THEN quarantine_random ELSE [quarantine_random EXCEPT ![i] = target]
           /\ quarantine_queue' =
                IF queued THEN [quarantine_queue EXCEPT ![quarantine_queue_index] = swapped]
                ELSE quarantine_queue
           /\ quarantine_queue_index' =
                IF queued THEN (quarantine_queue_index + 1) % QueueLen ELSE quarantine_queue_index
           /\ IF out = {} THEN Finish(t)
              ELSE UNCHANGED owned /\ loc' = [loc EXCEPT ![t] = [@ EXCEPT !.pc = "evict", !.victim = out]]
  BY DEF Enqueue
<1> DEFINE swapped == IF RandomLen = 0 THEN T ELSE quarantine_random[i]
<1> DEFINE queued == QueueLen > 0 /\ swapped # {}
<1> DEFINE out == IF queued THEN quarantine_queue[quarantine_queue_index] ELSE swapped
<1>5. Shifted(T, i, swapped, out)
  BY <1>4 DEF Shifted, Held, Queued
<1>6. IF out = {} THEN Finish(t)
      ELSE UNCHANGED owned /\ loc' = [loc EXCEPT ![t] = [k EXCEPT !.pc = "evict", !.victim = out]]
  BY <1>4 DEF Held
<1> HIDE DEF swapped, queued, out
<1>7. /\ CellsTyped' /\ CellsApart' /\ out \in SUBSET Page
      /\ \A a : (a \in Quarantined' \/ a \in out) <=> (a \in Quarantined \/ a \in T)
      /\ \A a \in out : a \notin Quarantined'
  <2>1. CellsTyped /\ CellsApart /\ T \in SUBSET Page /\ T \cap Quarantined = {}
    BY <1>2, <1>3 DEF Space
  <2>2. i \in (IF RandomLen = 0 THEN {0} ELSE 0 .. RandomLen - 1)
    OBVIOUS
  <2> HIDE DEF T
  <2> QED BY <1>5, <2>1, <2>2, ShiftCells
<1>8. \A a : a \in Quarantined \/ a \in T => a \notin NewOf(k) /\ SealedPage(mem, a)
  BY <1>3 DEF Space, Apart, Mine
<1>9. CASE out = {}
  <2> DEFINE l == FinishTo(k)
  <2> DEFINE came == FinishGives(k)
  <2>1. /\ loc' = [loc EXCEPT ![t] = l] /\ Shape(l) /\ l.pc # "trail"
        /\ owned' = owned \cup came
        /\ \A r \in came : Fits(r)
        /\ \A r \in came : Intact(mem, r)
        /\ \A r, s \in came : r = s
        /\ \A a : Given(l, came, a) <=> a \in NewOf(k)
        /\ \A r \in came : \A a \in Whole(r) : a \notin Mine(l)
        /\ \A a \in NewOf(l) : a \notin OldOf(l)
        /\ Contents(mem, l)
    BY <1>1, <1>6, <1>9, FinishLocal DEF Releasing
  <2> HIDE DEF l, came
  <2>2. \A a : (Given(l, came, a) \/ a \in Quarantined') <=>
                 (Given(k, {}, a) \/ a \in Quarantined)
    BY <1>2, <1>7, <1>9, <2>1 DEF Given, Mine
  <2>3. \A a \in Quarantined' : ~Given(l, came, a) /\ SealedPage(mem, a)
    BY <1>7, <1>8, <2>1
  <2> QED BY <1>1, <1>7, <2>1, <2>2, <2>3, ExchangeKeeps
<1>10. CASE out # {}
  <2> DEFINE l == [k EXCEPT !.pc = "evict", !.victim = out]
  <2> DEFINE came == {}
  <2>1. loc' = [loc EXCEPT ![t] = l] /\ owned' = owned \cup came
    BY <1>6, <1>10
  <2>2. LocalTyped(l) /\ l.pc = "evict" /\ l.victim = out /\ l.op = k.op /\ l.new = k.new
        /\ l.old = k.old /\ l.release = k.release /\ l.kept = k.kept
    BY <1>1, <1>7 DEF Shape, LocalTyped, Releasing
  <2> HIDE DEF l
  <2>3. Shape(l)
    <3>1. MappingShape(l) /\ ReallocShape(l)
      <4>1. k.op # "move"
        BY <1>1 DEF Shape, ReallocShape, Releasing
      <4> QED BY <1>1, <2>2, <4>1
              DEF Shape, MappingShape, ReallocShape, Mapping, Releasing, Waiting
    <3>2. FreeShape(l)
      BY <1>1, <2>2 DEF Shape, FreeShape, Releasing
    <3> QED BY <2>2, <3>1, <3>2 DEF Shape
  <2>4. NewOf(l) = NewOf(k) /\ OldOf(l) = out
    BY <1>1, <2>2, <2>3, PagesOf DEF Releasing
  <2>5. Contents(mem, l)
    BY <1>1, <2>2 DEF Contents, MappingContents, ReallocContents, KeptContents, Before, After,
                      Mapping, Releasing, Waiting
  <2>6. \A a : (Given(l, came, a) \/ a \in Quarantined') <=>
                 (Given(k, {}, a) \/ a \in Quarantined)
    BY <1>2, <1>7, <2>4 DEF Given, Mine
  <2>7. \A a \in Quarantined' : ~Given(l, came, a) /\ SealedPage(mem, a)
    BY <1>7, <1>8, <2>4 DEF Given, Mine
  <2>8. \A a \in NewOf(l) : a \notin OldOf(l)
    BY <1>7, <1>8, <2>4
  <2>9. /\ \A r \in came : Fits(r) /\ Intact(mem, r)
        /\ \A r, s \in came : r = s
        /\ \A r \in came : \A a \in Whole(r) : a \notin Mine(l)
    OBVIOUS
  <2> HIDE DEF came
  <2> QED BY <1>1, <1>7, <2>1, <2>2, <2>3, <2>5, <2>6, <2>7, <2>8, <2>9, ExchangeKeeps
<1> QED BY <1>9, <1>10

-----------------------------------------------------------------------------
(* The steps of a realloc *)

\* The argument passes from the program to the call, which remembers its contents.
LEMMA ReallocToSpace ==
  ASSUME Space, NEW t \in Thread, NEW r \in owned, NEW pc, NEW op, NEW new \in Rec,
         ReallocTo(t, r, pc, op, new),
         \/ pc = "shrink" /\ op = "shrink" /\ new = [r EXCEPT !.size = new.size]
            /\ 1 <= new.size /\ new.size < r.size
         \/ pc = "map" /\ op \in {"move", "copy"} /\ new.p = 0 /\ new.size >= 1
            /\ new.guard \in Guards
         \/ pc = "copy" /\ op = "copy" /\ new = Nothing
  PROVE  Space'
<1> DEFINE l == [Idle EXCEPT !.pc = pc, !.op = op, !.old = r, !.new = new,
                             !.kept = DataPages(mem, r)]
<1> DEFINE gone == {r}
<1> DEFINE came == {}
<1> USE DEF Mapping, Releasing, Waiting
<1>1. loc[t] = Idle /\ loc' = [loc EXCEPT ![t] = l]
      /\ UNCHANGED <<mem, leaked, quarantineVars>> /\ owned' = owned \ {r}
  BY DEF ReallocTo, At, Space, Shape, FreeShape
<1>2. Fits(r) /\ r \in Rec /\ Intact(mem, r) /\ r # Nothing
  BY FitsPages DEF Space, Fits
<1>3. l.pc = pc /\ l.op = op /\ l.old = r /\ l.new = new /\ l.kept = DataPages(mem, r)
  BY DEF Idle
<1>4. LocalTyped(l)
  <2>1. LocalTyped(Idle)
    BY IdleShape DEF Shape
  <2>2. DataPages(mem, r) \in SUBSET Nat
    BY <1>2 DEF DataPages, Rec
  <2>3. pc \in {"shrink", "map", "copy"} /\ op \in {"shrink", "move", "copy"}
    OBVIOUS
  <2> QED BY <1>2, <2>1, <2>2, <2>3 DEF LocalTyped
<1> HIDE DEF l
<1>5. Shape(l)
  BY <1>2, <1>3, <1>4 DEF Shape, MappingShape, ReallocShape, FreeShape
<1>6. NewOf(l) = {} /\ OldOf(l) = Whole(r)
  BY <1>2, <1>3, <1>5, PagesOf
<1>7. Contents(mem, l)
  BY <1>2, <1>3
     DEF Contents, MappingContents, ReallocContents, KeptContents, Before, After
<1>8. \A a : Given(l, came, a) <=> Given(loc[t], gone, a)
  BY <1>1, <1>6, IdleShape DEF Given, Mine
<1>9. /\ gone \subseteq owned /\ owned' = (owned \ gone) \cup came
      /\ \A s \in came : Fits(s) /\ Intact(mem, s)
      /\ \A s, u \in came : s = u
      /\ \A s \in came : \A a \in Whole(s) : a \notin Mine(l)
      /\ \A a \in NewOf(l) : a \notin OldOf(l)
      /\ l.pc # "trail"
  BY <1>1, <1>3, <1>6
<1> HIDE DEF gone, came
<1> QED BY <1>1, <1>5, <1>7, <1>8, <1>9, QuietTurn

\* A call of realloc that shrinks in place.
LEMMA ReallocShrinkSpace ==
  ASSUME Space, NEW t \in Thread, NEW r \in owned, NEW s \in Sizes, ReallocShrink(t, r, s)
  PROVE  Space'
<1> DEFINE new == [r EXCEPT !.size = s]
<1>1. s \in Nat /\ s >= 1 /\ r \in Rec
  BY LargeAllocAssumption DEF Space, Fits
<1>2. new \in Rec /\ new.size = s /\ new = [r EXCEPT !.size = new.size] /\ s < r.size
  BY <1>1 DEF Rec, ReallocShrink
<1>3. ReallocTo(t, r, "shrink", "shrink", new)
  BY DEF ReallocShrink
<1> HIDE DEF new
<1> QED BY <1>1, <1>2, <1>3, ReallocToSpace

\* A call of realloc that moves to a larger allocation, or to a slab.
LEMMA ReallocMoveSpace ==
  ASSUME Space, NEW t \in Thread, NEW r \in owned,
         ReallocToSlab(t, r) \/ \E s \in Sizes, g \in Guards : ReallocGrow(t, r, s, g)
  PROVE  Space'
<1>1. CASE ReallocToSlab(t, r)
  <2>1. Nothing \in Rec
    BY DEF Nothing, Rec
  <2> QED BY <1>1, <2>1, ReallocToSpace DEF ReallocToSlab
<1>2. ASSUME NEW s \in Sizes, NEW g \in Guards, ReallocGrow(t, r, s, g) PROVE Space'
  <2> DEFINE new == [p |-> 0, size |-> s, guard |-> g]
  <2> DEFINE op == IF r.size >= MoveSize THEN "move" ELSE "copy"
  <2>1. new \in Rec /\ new.size = s /\ new.p = 0 /\ new.guard = g /\ s >= 1
    BY LargeAllocAssumption DEF Rec
  <2>2. ReallocTo(t, r, "map", op, new) /\ op \in {"move", "copy"}
    BY <1>2 DEF ReallocGrow
  <2> HIDE DEF new, op
  <2> QED BY <2>1, <2>2, ReallocToSpace
<1> QED BY <1>1, <1>2

\* The old allocation is the shrunk one, with its guard moved, and the range cut off.
LEMMA CutOffRange ==
  ASSUME NEW old, NEW new, Fits(old), new = [old EXCEPT !.size = new.size],
         new.size \in Nat, 1 <= new.size, new.size < old.size
  PROVE  /\ CutOff(old, new) \in Rec
         /\ \A a : a \in Whole(old) <=> a \in Whole(new) \/ a \in Whole(CutOff(old, new))
         /\ \A a \in Whole(new) : a \notin Whole(CutOff(old, new))
         /\ LeftGuard(CutOff(old, new)) = {} /\ RightGuard(CutOff(old, new)) = {}
         /\ Body(new) \subseteq Body(old) /\ LeftGuard(new) = LeftGuard(old)
         /\ \A a \in RightGuard(new) : a \notin Body(new) /\ a \notin LeftGuard(new)
         /\ Fits(new) /\ new.p = old.p
<1>1. old \in Rec /\ old.p \in Int /\ old.size \in Nat /\ old.guard \in Nat /\ old.guard >= 1
  BY LargeAllocAssumption DEF Fits, Rec
<1>2. new \in Rec /\ new.p = old.p /\ new.guard = old.guard
  BY <1>1 DEF Rec
<1>3. Fits(new)
  BY <1>1, <1>2, LargeAllocAssumption DEF Fits
<1> QED BY <1>1, <1>2, <1>3 DEF CutOff, Rec, Whole, Body, LeftGuard, RightGuard

\* An in-place shrink moves the guard and releases the tail behind it.
LEMMA ShrinkSpace ==
  ASSUME Space, NEW t \in Thread, Shrink(t) PROVE Space'
<1> DEFINE k == loc[t]
<1> DEFINE tail == CutOff(k.old, k.new)
<1> DEFINE l == [k EXCEPT !.pc = ReleaseAt(tail), !.release = tail]
<1> USE DEF Mapping, Releasing, Waiting
<1>1. Shape(k) /\ k.pc = "shrink" /\ Contents(mem, k) /\ k.op = "shrink"
      /\ mem' = Filled(RightGuard(k.new), "none") /\ loc' = [loc EXCEPT ![t] = l]
      /\ UNCHANGED <<owned, leaked, quarantineVars>>
  BY DEF Shrink, At, Space, Shape, ReallocShape
<1>2. Fits(k.old) /\ k.new = [k.old EXCEPT !.size = k.new.size] /\ k.new.size \in Nat
      /\ 1 <= k.new.size /\ k.new.size < k.old.size
  BY <1>1 DEF Shape, LocalTyped, ReallocShape, Rec
<1>3. /\ tail \in Rec
      /\ \A a : a \in Whole(k.old) <=> a \in Whole(k.new) \/ a \in Whole(tail)
      /\ \A a \in Whole(k.new) : a \notin Whole(tail)
      /\ LeftGuard(tail) = {} /\ RightGuard(tail) = {}
      /\ Body(k.new) \subseteq Body(k.old) /\ LeftGuard(k.new) = LeftGuard(k.old)
      /\ \A a \in RightGuard(k.new) : a \notin Body(k.new) /\ a \notin LeftGuard(k.new)
      /\ Fits(k.new) /\ k.new.p = k.old.p
  BY <1>2, CutOffRange
<1>4. LocalTyped(l) /\ l.pc \in {"unmap", "purge"} /\ l.op = "shrink" /\ l.new = k.new
      /\ l.old = k.old /\ l.release = tail /\ l.kept = k.kept
  <2> HIDE DEF tail
  <2> QED BY <1>1, <1>3, ReleaseAtType DEF Shape, LocalTyped
<1>5. tail = CutOff(k.old, k.new)
  OBVIOUS
<1> HIDE DEF l, tail
<1>6. Shape(l)
  BY <1>2, <1>4, <1>5 DEF Shape, MappingShape, ReallocShape, FreeShape
<1>7. k.new # Nothing /\ k.old # Nothing
  BY <1>2, <1>3, FitsPages
<1>8. NewOf(l) = Whole(k.new) /\ OldOf(l) = Whole(tail) /\ NewOf(k) = {} /\ OldOf(k) = Whole(k.old)
  BY <1>1, <1>4, <1>6, <1>7, PagesOf
<1>9. RightGuard(k.new) \subseteq Whole(k.new) /\ Whole(k.new) \subseteq Page
      /\ Body(k.new) \subseteq Whole(k.new) /\ LeftGuard(k.new) \subseteq Whole(k.new)
  BY <1>3, FitsPages
<1>10. mem' \in [Page -> Content]
       /\ \A a \in Page : mem'[a] = IF a \in RightGuard(k.new) THEN "none" ELSE mem[a]
  BY <1>1, FilledAt DEF Space, Content
<1>11. Intact(mem, k.old) /\ k.kept = DataPages(mem, k.old)
  BY <1>1, <1>7 DEF Contents, ReallocContents, KeptContents, Before
<1>12. Intact(mem', k.new)
  BY <1>3, <1>9, <1>10, <1>11 DEF Intact
<1>13. DataPages(mem', k.new) = k.kept \cap (0 .. k.new.size - 1)
  <2>1. \A i \in 0 .. k.new.size - 1 : k.new.p + i \in Body(k.new) /\ i \in 0 .. k.old.size - 1
    BY <1>2, <1>3 DEF Body, Fits, Rec
  <2>2. \A i \in 0 .. k.new.size - 1 : mem'[k.new.p + i] = mem[k.old.p + i]
    BY <1>3, <1>9, <1>10, <2>1
  <2> QED BY <1>11, <2>1, <2>2 DEF DataPages
<1>14. Contents(mem', l)
  BY <1>3, <1>4, <1>12, <1>13
     DEF Contents, MappingContents, ReallocContents, KeptContents, Before, After
<1>15. (\A a : a \in Mine(l) <=> a \in Mine(k)) /\ (\A a \in NewOf(l) : a \notin OldOf(l))
       /\ (\A a \in Page \ Mine(k) : mem'[a] = mem[a])
  BY <1>3, <1>8, <1>9, <1>10 DEF Mine
<1>16. \A a \in Mine(k) : mem'[a] # "free"
  BY <1>10, MineMapped
<1>17. l.pc # "trail"
  BY <1>4
<1> QED BY <1>1, <1>6, <1>10, <1>14, <1>15, <1>16, <1>17, WriteTurn

\* The entry has its new size, and the allocation is the program's again.
LEMMA ResizeSpace ==
  ASSUME Space, NEW t \in Thread, Resize(t) PROVE Space'
<1> DEFINE k == loc[t]
<1> DEFINE gone == {}
<1> DEFINE came == {k.new}
<1> USE DEF Releasing, Waiting
<1>1. Shape(k) /\ k.pc = "resize" /\ Contents(mem, k) /\ owned' = owned \cup {k.new}
      /\ loc' = [loc EXCEPT ![t] = Idle] /\ UNCHANGED <<mem, leaked, quarantineVars>>
  BY DEF Resize, At, Space
<1>2. k.new # Nothing
  BY <1>1 DEF Shape, ReallocShape, Nothing
<1>3. Fits(k.new) /\ Intact(mem, k.new) /\ NewOf(k) = Whole(k.new) /\ OldOf(k) = {}
  BY <1>1, <1>2, ShapeFits, PagesOf DEF Contents, ReallocContents
<1>4. \A a : Given(Idle, came, a) <=> Given(k, gone, a)
  BY <1>3, IdleShape DEF Given, Mine
<1>5. /\ owned' = (owned \ gone) \cup came /\ gone \subseteq owned
      /\ \A r \in came : Fits(r) /\ Intact(mem, r)
      /\ \A r, s \in came : r = s
      /\ Idle.pc # "trail"
  BY <1>1, <1>3 DEF Idle
<1> HIDE DEF came, gone
<1> QED BY <1>1, <1>4, <1>5, IdleShape, QuietTurn

\* The pages that a copy to Nothing, or to a new allocation, writes.
LEMMA CopiedAt ==
  ASSUME mem \in [Page -> Content], NEW old, NEW new, Fits(old), Fits(new) \/ new = Nothing
  PROVE  /\ Copied(old, new) \in [Page -> Content]
         /\ \A a \in Page : a \notin Body(new) => Copied(old, new)[a] = mem[a]
         /\ \A a \in Body(new) :
              Copied(old, new)[a] =
                IF a - new.p < old.size THEN mem[old.p + (a - new.p)] ELSE mem[a]
         /\ new = Nothing => Copied(old, new) = mem
<1>1. old.p \in Int /\ old.size \in Nat /\ old.guard \in Nat /\ old.p >= 0
      /\ old.p + old.size <= Pages
  BY LargeAllocAssumption DEF Fits, Rec
<1>2. new.p \in Int /\ new.size \in Nat /\ new.p >= 0 /\ new.p + new.size <= Pages
  BY LargeAllocAssumption DEF Fits, Rec, Nothing
<1> DEFINE n == CopySize(old, new)
<1>3. n \in Nat /\ n <= old.size /\ n <= new.size /\ (n = old.size \/ n = new.size)
  BY <1>1, <1>2 DEF CopySize
<1>4. Copied(old, new) =
        [a \in Page |-> IF a \in new.p .. new.p + n - 1 THEN mem[old.p + (a - new.p)] ELSE mem[a]]
  BY DEF Copied
<1> HIDE DEF n
<1>5. \A a \in new.p .. new.p + n - 1 : old.p + (a - new.p) \in Page
  BY SMTT(30), <1>1, <1>2, <1>3, LargeAllocAssumption DEF Page
<1>6. Copied(old, new) \in [Page -> Content]
  BY <1>4, <1>5
<1>7. \A a \in Page : a \notin Body(new) => Copied(old, new)[a] = mem[a]
  BY <1>2, <1>3, <1>4 DEF Body
<1>8. \A a \in Body(new) : a \in Page /\ (a \in new.p .. new.p + n - 1 <=> a - new.p < old.size)
  BY SMTT(30), <1>1, <1>2, <1>3, LargeAllocAssumption DEF Body, Page
<1>9. new = Nothing => n = 0 /\ new.p .. new.p + n - 1 = {}
  BY <1>3 DEF Nothing
<1>10. new = Nothing => Copied(old, new) = mem
  BY <1>4, <1>9
<1> QED BY <1>4, <1>6, <1>7, <1>8, <1>10

\* After a copy the new allocation has the contents of the old one, and zeroes behind them.
LEMMA CopiedContents ==
  ASSUME mem \in [Page -> Content], NEW old, NEW new, Fits(old), Fits(new),
         Intact(mem, old), Intact(mem, new), Fresh(mem, new),
         NEW m, \A a \in Whole(new) : m[a] = Copied(old, new)[a]
  PROVE  /\ Intact(m, new)
         /\ DataPages(m, new) = DataPages(mem, old) \cap (0 .. new.size - 1)
<1>1. old.p \in Int /\ old.size \in Nat /\ new.p \in Int /\ new.size \in Nat /\ new.guard \in Nat
  BY LargeAllocAssumption DEF Fits, Rec
<1>2. \A a \in Body(new) :
        m[a] = IF a - new.p < old.size THEN mem[old.p + (a - new.p)] ELSE "zero"
  BY CopiedAt, FitsPages DEF Fresh
<1>3. \A a \in Body(new) : a - new.p < old.size => old.p + (a - new.p) \in Body(old)
  BY <1>1 DEF Body
<1>4. \A a \in LeftGuard(new) \cup RightGuard(new) : a \notin Body(new)
  BY <1>1 DEF LeftGuard, RightGuard, Body
<1>5. \A a \in LeftGuard(new) \cup RightGuard(new) : m[a] = "none"
  BY <1>4, CopiedAt, FitsPages DEF Intact
<1>6. Intact(m, new)
  BY <1>2, <1>3, <1>5 DEF Intact
<1>7. \A i \in 0 .. new.size - 1 :
        m[new.p + i] = IF i < old.size THEN mem[old.p + i] ELSE "zero"
  <2> TAKE i \in 0 .. new.size - 1
  <2>1. new.p + i \in Body(new) /\ (new.p + i) - new.p = i
    BY <1>1 DEF Body
  <2> QED BY <1>2, <2>1
<1>8. DataPages(m, new) = DataPages(mem, old) \cap (0 .. new.size - 1)
  BY <1>1, <1>7 DEF DataPages
<1> QED BY <1>6, <1>8

\* The two allocations of a realloc that moves are apart, and both are intact.
LEMMA TwoAllocations ==
  ASSUME Space, NEW t \in Thread, loc[t].pc \in {"copy", "delete", "remap"}
  PROVE  LET k == loc[t]
         IN  /\ Shape(k) /\ Contents(mem, k) /\ Fits(k.old) /\ k.old # Nothing
             /\ Intact(mem, k.old) /\ OldOf(k) = Whole(k.old)
             /\ \A a \in NewOf(k) : a \notin OldOf(k)
             /\ k.new # Nothing => Fits(k.new) /\ Intact(mem, k.new) /\ NewOf(k) = Whole(k.new)
             /\ k.new = Nothing => NewOf(k) = {} /\ k.op = "copy"
<1> DEFINE k == loc[t]
<1>1. Shape(k) /\ Contents(mem, k) /\ \A a \in NewOf(k) : a \notin OldOf(k)
  BY DEF Space, Apart
<1>2. Fits(k.old) /\ k.old # Nothing /\ (k.new = Nothing => k.op = "copy")
  BY <1>1, FitsPages DEF Shape, ReallocShape, Waiting
<1> QED BY <1>1, <1>2, PagesOf, ShapeFits DEF Contents, ReallocContents, Waiting

\* Copying writes to the new allocation only.
LEMMA CopySpace ==
  ASSUME Space, NEW t \in Thread, Copy(t) PROVE Space'
<1> DEFINE k == loc[t]
<1> DEFINE l == [k EXCEPT !.pc = "delete"]
<1> USE DEF Mapping, Releasing, Waiting
<1>1. k.pc = "copy" /\ Goto(t, "delete") /\ mem' = Copied(k.old, k.new)
      /\ UNCHANGED <<owned, leaked, quarantineVars>> /\ mem \in [Page -> Content]
  BY DEF Copy, At, Space
<1>2. /\ Shape(k) /\ Contents(mem, k) /\ Fits(k.old) /\ k.old # Nothing
      /\ Intact(mem, k.old) /\ OldOf(k) = Whole(k.old)
      /\ \A a \in NewOf(k) : a \notin OldOf(k)
      /\ k.new # Nothing => Fits(k.new) /\ Intact(mem, k.new) /\ NewOf(k) = Whole(k.new)
      /\ k.new = Nothing => NewOf(k) = {} /\ k.op = "copy"
  BY <1>1, TwoAllocations
<1>3. loc' = [loc EXCEPT ![t] = l] /\ LocalTyped(l) /\ l.pc = "delete" /\ l.op = k.op
      /\ l.new = k.new /\ l.release = k.release /\ l.old = k.old /\ l.kept = k.kept
  BY <1>1, GotoFields
<1> HIDE DEF l
<1>4. Shape(l) /\ k.op = "copy"
  BY <1>1, <1>2, <1>3 DEF Shape, MappingShape, ReallocShape, FreeShape
<1>5. NewOf(l) = NewOf(k) /\ OldOf(l) = OldOf(k)
  BY <1>1, <1>2, <1>3, <1>4, PagesOf
<1>6. mem' \in [Page -> Content] /\ (\A a \in Page : a \notin Body(k.new) => mem'[a] = mem[a])
      /\ (k.new = Nothing => mem' = mem)
  BY <1>1, <1>2, CopiedAt
<1>7. \A a \in Page \ NewOf(k) : mem'[a] = mem[a]
  BY <1>2, <1>6, FitsPages
<1>8. k.new # Nothing =>
        Intact(mem', k.new) /\ DataPages(mem', k.new) = k.kept \cap (0 .. k.new.size - 1)
  <2>1. k.new # Nothing => Fresh(mem, k.new)
    BY <1>1, <1>2 DEF Contents, KeptContents, Before
  <2>2. k.kept = DataPages(mem, k.old)
    BY <1>1, <1>2 DEF Contents, KeptContents, Before
  <2> QED BY <1>1, <1>2, <2>1, <2>2, CopiedContents
<1>9. Intact(mem', k.old)
  <2>1. \A a \in Whole(k.old) : mem'[a] = mem[a]
    BY <1>2, <1>7, FitsPages
  <2> QED BY <1>2, <2>1, IntactLocal
<1>10. Contents(mem', l)
  BY <1>2, <1>3, <1>4, <1>8, <1>9
     DEF Contents, MappingContents, ReallocContents, KeptContents, Before, After
<1>11. \A a \in Mine(k) : mem'[a] # "free"
  <2>1. \A a \in NewOf(k) : mem'[a] # "free"
    BY <1>2, <1>8, FitsPages DEF Intact
  <2> QED BY <1>7, <2>1, MineMapped DEF Mine
<1>12. (\A a : a \in Mine(l) <=> a \in Mine(k)) /\ (\A a \in NewOf(l) : a \notin OldOf(l))
       /\ (\A a \in Page \ Mine(k) : mem'[a] = mem[a]) /\ l.pc # "trail"
  BY <1>2, <1>3, <1>5, <1>7 DEF Mine
<1> QED BY <1>1, <1>3, <1>4, <1>6, <1>10, <1>11, <1>12, WriteTurn

\* Deleting the old entry leaves its pages with the call.
LEMMA DeleteSpace ==
  ASSUME Space, NEW t \in Thread, Delete(t) PROVE Space'
<1> DEFINE k == loc[t]
<1> DEFINE next == IF k.op = "move" THEN "remap" ELSE ReleaseAt(k.old)
<1> DEFINE l == [k EXCEPT !.pc = next, !.release = k.old]
<1> USE DEF Mapping, Releasing, Waiting
<1>1. k.pc = "delete" /\ loc' = [loc EXCEPT ![t] = l]
      /\ UNCHANGED <<mem, owned, leaked, quarantineVars>> /\ mem \in [Page -> Content]
  BY DEF Delete, At, Space
<1>2. /\ Shape(k) /\ Contents(mem, k) /\ Fits(k.old) /\ k.old # Nothing
      /\ Intact(mem, k.old) /\ OldOf(k) = Whole(k.old)
      /\ \A a \in NewOf(k) : a \notin OldOf(k)
      /\ k.new # Nothing => Fits(k.new) /\ Intact(mem, k.new) /\ NewOf(k) = Whole(k.new)
      /\ k.new = Nothing => NewOf(k) = {} /\ k.op = "copy"
  BY <1>1, TwoAllocations
<1>3. k.op \in {"copy", "move"}
  BY <1>1, <1>2 DEF Shape, ReallocShape
<1>4. next \in {"remap", "unmap", "purge"} /\ (next = "remap" <=> k.op = "move")
  BY <1>3, ReleaseAtType
<1>5. LocalTyped(l) /\ l.pc = next /\ l.op = k.op /\ l.new = k.new
      /\ l.old = k.old /\ l.release = k.old /\ l.kept = k.kept
  <2> HIDE DEF next
  <2> QED BY <1>2, <1>4 DEF Shape, LocalTyped
<1> HIDE DEF l, next
<1>6. Shape(l)
  BY <1>2, <1>3, <1>4, <1>5 DEF Shape, MappingShape, ReallocShape, FreeShape
<1>7. NewOf(l) = NewOf(k) /\ OldOf(l) = OldOf(k)
  BY <1>2, <1>4, <1>5, <1>6, PagesOf
<1>8. Contents(mem, l)
  <2>1. MappingContents(mem, l) /\ ReallocContents(mem, l)
    BY <1>2, <1>4, <1>5 DEF MappingContents, ReallocContents, Intact
  <2>2. KeptContents(mem, l)
    BY <1>1, <1>2, <1>3, <1>4, <1>5 DEF Contents, KeptContents, Before, After
  <2> QED BY <2>1, <2>2 DEF Contents
<1>9. (\A a : a \in Mine(l) <=> a \in Mine(k)) /\ (\A a \in NewOf(l) : a \notin OldOf(l))
      /\ (\A a \in Page \ Mine(k) : mem'[a] = mem[a]) /\ l.pc # "trail"
      /\ Contents(mem', l) /\ mem' \in [Page -> Content]
  BY <1>1, <1>2, <1>4, <1>5, <1>7, <1>8 DEF Mine
<1>10. \A a \in Mine(k) : mem'[a] # "free"
  BY <1>1, MineMapped
<1> QED BY <1>1, <1>6, <1>9, <1>10, WriteTurn

\* When mremap fails the contents are copied: the old pages are still to be unmapped.
LEMMA RemapFailsSpace ==
  ASSUME Space, NEW t \in Thread, RemapFails(t) PROVE Space'
<1> DEFINE k == loc[t]
<1> DEFINE l == [k EXCEPT !.pc = "unmap"]
<1> USE DEF Mapping, Releasing, Waiting
<1>1. k.pc = "remap" /\ Goto(t, "unmap") /\ mem' = Copied(k.old, k.new)
      /\ UNCHANGED <<owned, leaked, quarantineVars>> /\ mem \in [Page -> Content]
  BY DEF RemapFails, At, Space
<1>2. /\ Shape(k) /\ Contents(mem, k) /\ Fits(k.old) /\ k.old # Nothing
      /\ Intact(mem, k.old) /\ OldOf(k) = Whole(k.old)
      /\ \A a \in NewOf(k) : a \notin OldOf(k)
      /\ k.new # Nothing => Fits(k.new) /\ Intact(mem, k.new) /\ NewOf(k) = Whole(k.new)
      /\ k.new = Nothing => NewOf(k) = {} /\ k.op = "copy"
  BY <1>1, TwoAllocations
<1>3. loc' = [loc EXCEPT ![t] = l] /\ LocalTyped(l) /\ l.pc = "unmap" /\ l.op = k.op
      /\ l.new = k.new /\ l.release = k.release /\ l.old = k.old /\ l.kept = k.kept
  BY <1>1, GotoFields
<1>4. k.op = "move" /\ k.new # Nothing /\ k.release = k.old
  BY <1>1, <1>2 DEF Shape, ReallocShape
<1> HIDE DEF l
<1>5. Shape(l)
  BY <1>2, <1>3, <1>4 DEF Shape, MappingShape, ReallocShape, FreeShape
<1>6. NewOf(l) = NewOf(k) /\ OldOf(l) = OldOf(k)
  BY <1>2, <1>3, <1>4, <1>5, PagesOf
<1>7. mem' \in [Page -> Content] /\ (\A a \in Page : a \notin Body(k.new) => mem'[a] = mem[a])
  BY <1>1, <1>2, <1>4, CopiedAt
<1>8. \A a \in Page \ NewOf(k) : mem'[a] = mem[a]
  BY <1>2, <1>4, <1>7, FitsPages
<1>9. Intact(mem', k.new) /\ DataPages(mem', k.new) = k.kept \cap (0 .. k.new.size - 1)
  <2>1. Fresh(mem, k.new) /\ k.kept = DataPages(mem, k.old)
    BY <1>1, <1>2, <1>4 DEF Contents, KeptContents, Before
  <2> QED BY <1>1, <1>2, <1>4, <2>1, CopiedContents
<1>10. Contents(mem', l)
  BY <1>3, <1>4, <1>9
     DEF Contents, MappingContents, ReallocContents, KeptContents, Before, After
<1>11. \A a \in Mine(k) : mem'[a] # "free"
  <2>1. \A a \in NewOf(k) : mem'[a] # "free"
    BY <1>2, <1>4, <1>9, FitsPages DEF Intact
  <2> QED BY <1>8, <2>1, MineMapped DEF Mine
<1>12. (\A a : a \in Mine(l) <=> a \in Mine(k)) /\ (\A a \in NewOf(l) : a \notin OldOf(l))
       /\ (\A a \in Page \ Mine(k) : mem'[a] = mem[a]) /\ l.pc # "trail"
  BY <1>2, <1>3, <1>6, <1>8 DEF Mine
<1> QED BY <1>1, <1>3, <1>5, <1>7, <1>10, <1>11, <1>12, WriteTurn

\* mremap moves the pages between the guards; the old guards are still to be unmapped.
LEMMA RemapSpace ==
  ASSUME Space, NEW t \in Thread, Remap(t) PROVE Space'
<1> DEFINE k == loc[t]
<1> DEFINE l == [k EXCEPT !.pc = "guards"]
<1> DEFINE moved == Copied(k.old, k.new)
<1> USE DEF Mapping, Releasing, Waiting
<1>1. k.pc = "remap" /\ Goto(t, "guards")
      /\ mem' = [a \in Page |-> IF a \in Body(k.old) THEN "free" ELSE moved[a]]
      /\ UNCHANGED <<owned, leaked, quarantineVars>> /\ mem \in [Page -> Content]
  BY DEF Remap, At, Space
<1>2. /\ Shape(k) /\ Contents(mem, k) /\ Fits(k.old) /\ k.old # Nothing
      /\ Intact(mem, k.old) /\ OldOf(k) = Whole(k.old)
      /\ \A a \in NewOf(k) : a \notin OldOf(k)
      /\ k.new # Nothing => Fits(k.new) /\ Intact(mem, k.new) /\ NewOf(k) = Whole(k.new)
      /\ k.new = Nothing => NewOf(k) = {} /\ k.op = "copy"
  BY <1>1, TwoAllocations
<1>3. loc' = [loc EXCEPT ![t] = l] /\ LocalTyped(l) /\ l.pc = "guards" /\ l.op = k.op
      /\ l.new = k.new /\ l.release = k.release /\ l.old = k.old /\ l.kept = k.kept
  BY <1>1, GotoFields
<1>4. k.op = "move" /\ k.new # Nothing /\ k.release = k.old
  BY <1>1, <1>2 DEF Shape, ReallocShape
<1> HIDE DEF l
<1>5. Shape(l)
  BY <1>2, <1>3, <1>4 DEF Shape, MappingShape, ReallocShape, FreeShape
<1>6. NewOf(l) = NewOf(k) /\ OldOf(l) = LeftGuard(k.old) \cup RightGuard(k.old)
  BY <1>2, <1>3, <1>4, <1>5, PagesOf
<1>7. moved \in [Page -> Content] /\ (\A a \in Page : a \notin Body(k.new) => moved[a] = mem[a])
  BY <1>1, <1>2, <1>4, CopiedAt
<1> HIDE DEF moved
<1>8. /\ Whole(k.old) \subseteq Page /\ Body(k.old) \subseteq Whole(k.old)
      /\ \A a : a \in Whole(k.old) <=> a \in Body(k.old) \/ a \in OldOf(l)
      /\ \A a \in OldOf(l) : a \notin Body(k.old)
      /\ Whole(k.new) \subseteq Page /\ Body(k.new) \subseteq Whole(k.new)
  <2>1. \A a \in LeftGuard(k.old) \cup RightGuard(k.old) : a \notin Body(k.old)
    BY <1>2 DEF Fits, Rec, LeftGuard, RightGuard, Body
  <2> QED BY <1>2, <1>4, <1>6, <2>1, FitsPages
<1>9. /\ mem' \in [Page -> Content]
      /\ \A a \in Page : mem'[a] = IF a \in Body(k.old) THEN "free" ELSE moved[a]
  BY <1>1, <1>7 DEF Content
<1>10. \A a \in Page : a \notin Whole(k.old) /\ a \notin Whole(k.new) => mem'[a] = mem[a]
  BY <1>7, <1>8, <1>9
<1>11. \A a \in Whole(k.new) : mem'[a] = moved[a]
  BY <1>2, <1>4, <1>8, <1>9
<1>12. Intact(mem', k.new) /\ DataPages(mem', k.new) = k.kept \cap (0 .. k.new.size - 1)
  <2>1. Fresh(mem, k.new) /\ k.kept = DataPages(mem, k.old)
    BY <1>1, <1>2, <1>4 DEF Contents, KeptContents, Before
  <2> QED BY <1>1, <1>2, <1>4, <1>11, <2>1, CopiedContents DEF moved
<1>13. Contents(mem', l)
  BY <1>3, <1>4, <1>12
     DEF Contents, MappingContents, ReallocContents, KeptContents, Before, After
<1>14. \A a : /\ Given(k, {}, a) <=> a \in Whole(k.new) \/ a \in Whole(k.old)
              /\ Given(l, {}, a) <=> a \in Whole(k.new) \/ a \in OldOf(l)
  BY <1>2, <1>4, <1>6 DEF Given, Mine
<1>15. TurnPages(t, l, {}, {}, {})
  <2>1. \A a \in NewOf(l) : a \notin OldOf(l)
    BY <1>2, <1>6, <1>8
  <2> QED BY <1>8, <1>14, <2>1 DEF TurnPages
<1>16. \A a \in Page : Given(k, {}, a) => mem[a] # "free" /\ a \notin leaked
  BY MineMapped DEF Given
<1>17. \A a \in OldOf(l) : a \notin Body(k.new) /\ a \in Page /\ mem'[a] = mem[a]
  BY <1>2, <1>4, <1>7, <1>8, <1>9
<1>18. \A a \in Whole(k.new) : mem'[a] # "free"
  BY <1>2, <1>4, <1>12, FitsPages DEF Intact
<1>19. TurnMemory(t, l, {}, {}, {})
  <2>1. leaked' = leaked /\ leaked \subseteq Page
    BY <1>1 DEF Space, Mapped
  <2>2. \A a \in Page : ~Given(k, {}, a) => mem'[a] = mem[a]
    BY <1>10, <1>14
  <2>3. \A a \in Page : Given(l, {}, a) => mem'[a] # "free" /\ a \notin leaked
    BY <1>8, <1>14, <1>16, <1>17, <1>18
  <2>4. \A a \in Page : Given(k, {}, a) /\ ~Given(l, {}, a) => mem'[a] = "free" /\ a \notin leaked
    BY <1>8, <1>9, <1>14, <1>16
  <2> QED BY <1>9, <2>1, <2>2, <2>3, <2>4 DEF TurnMemory
<1>20. Turn(t, l, {}, {}, {})
  BY <1>1, <1>3, <1>5, <1>13, <1>15, <1>19 DEF Turn
<1> QED BY <1>20, TurnKeeps

\* The program writes to an allocation it owns, which nobody else uses.
LEMMA WriteSpace ==
  ASSUME Space, NEW r \in owned, Write(r) PROVE Space'
<1>1. mem' = Filled(Body(r), "data")
      /\ UNCHANGED <<owned, loc, leaked, quarantineVars>> /\ Fits(r) /\ Intact(mem, r)
  BY DEF Write, Space
<1>2. mem' \in [Page -> Content] /\ \A a \in Page : mem'[a] = IF a \in Body(r) THEN "data" ELSE mem[a]
  BY <1>1, FilledAt DEF Space, Content
<1>3. Body(r) \subseteq Whole(r) /\ Whole(r) \subseteq Page
      /\ \A a \in LeftGuard(r) \cup RightGuard(r) : a \notin Body(r) /\ a \in Page
  <2>1. \A a \in LeftGuard(r) \cup RightGuard(r) : a \notin Body(r)
    BY <1>1 DEF Fits, Rec, LeftGuard, RightGuard, Body
  <2> QED BY <1>1, <2>1, FitsPages
<1>4. Quarantined' = Quarantined /\ CellsTyped' /\ CellsApart'
  BY <1>1 DEF quarantineVars, Quarantined, Space, CellsTyped, CellsApart
<1>5. Quarantined \subseteq Page /\ \A u \in Thread : Mine(loc[u]) \subseteq Page
  BY DEF Space, CellsTyped, Quarantined, Mapped
<1>6. /\ \A u \in Thread : \A a \in Mine(loc[u]) : mem'[a] = mem[a]
      /\ \A a \in Quarantined : mem'[a] = mem[a]
      /\ \A s \in owned : s # r => \A a \in Whole(s) : mem'[a] = mem[a]
  <2>1. \A s \in owned : Whole(s) \subseteq Page
    BY FitsPages DEF Space
  <2> QED BY <1>2, <1>3, <1>5, <2>1 DEF Space, Apart
<1>7. \A u \in Thread : Contents(mem', loc[u])
  BY <1>6, ContentsLocal DEF Space
<1>8. \A s \in owned : Intact(mem', s)
  <2>1. \A s \in owned : s # r => Intact(mem', s)
    BY <1>6, IntactLocal DEF Space
  <2>2. Intact(mem', r)
    BY <1>1, <1>2, <1>3 DEF Intact
  <2> QED BY <2>1, <2>2
<1>9. \A a \in Quarantined : SealedPage(mem', a)
  BY <1>6 DEF Space, SealedPage
<1>10. \A a \in Page : mem'[a] = "free" <=> mem[a] = "free"
  <2>1. \A a \in Body(r) : mem[a] # "free"
    BY <1>1 DEF Intact
  <2> QED BY <1>2, <2>1
<1>11. Mapped(mem', owned, loc, Quarantined, leaked)
  BY <1>10 DEF Space, Mapped
<1>12. Alone => \A t \in Thread : loc[t].pc = "trail" => \A a \in LeadOf(loc[t]) : mem'[a] = "free"
  <2>1. \A t \in Thread : LeadOf(loc[t]) \subseteq Page
    BY DEF Space, Shape, LocalTyped, LeadOf
  <2> QED BY <1>10, <2>1 DEF Space
<1> QED BY <1>1, <1>2, <1>4, <1>7, <1>8, <1>9, <1>11, <1>12 DEF Space

\* Every step keeps the invariant.
LEMMA SpaceStep ==
  ASSUME NoTrimRace, Space, [Next]_vars PROVE Space'
<1>1. CASE UNCHANGED vars
  BY <1>1 DEF vars, quarantineVars, Space, Quarantined, CellsTyped, CellsApart
<1>2. ASSUME NEW t \in Thread, Call(t) PROVE Space'
  BY <1>2, MallocSpace, FreeSpace, ReallocShrinkSpace, ReallocMoveSpace DEF Call
<1>3. ASSUME NEW t \in Thread, AllocateStep(t) PROVE Space'
  BY <1>3, MapPagesSpace, ProtectPagesSpace, TrimLeadSpace, TrimTrailSpace, InsertSpace,
     InsertFailsSpace, FailsSpace DEF AllocateStep, Fails
<1>4. ASSUME NEW t \in Thread, ReleaseStep(t) PROVE Space'
  BY <1>4, PurgeSpace, EnqueueSpace, EndsSpace DEF ReleaseStep, Ends
<1>5. ASSUME NEW t \in Thread, ReallocStep(t) PROVE Space'
  BY <1>5, ShrinkSpace, ResizeSpace, CopySpace, DeleteSpace, RemapSpace, RemapFailsSpace,
     FailsSpace, EndsSpace DEF ReallocStep, Fails, Ends
<1>6. ASSUME NEW r \in owned, Write(r) PROVE Space'
  BY <1>6, WriteSpace
<1> QED BY <1>1, <1>2, <1>3, <1>4, <1>5, <1>6 DEF Next

\* The space is in order for as long as no trim can race with another thread.
THEOREM SpaceInvariant == NoTrimRace => (Spec => []Space)
<1> SUFFICES ASSUME NoTrimRace PROVE Spec => []Space
  OBVIOUS
<1>1. Init => Space
  BY InitSpace
<1>2. Space /\ [Next]_vars => Space'
  BY SpaceStep
<1> QED BY <1>1, <1>2, PTL DEF Spec

-----------------------------------------------------------------------------
(* What the invariant says about the claims *)

\* The pages of a thread are the pages of its local state.
LEMMA ThreadPages == \A t \in Thread : NewPages(t) = NewOf(loc[t]) /\ OldPages(t) = OldOf(loc[t])
BY DEF NewPages, OldPages, NewOf, OldOf, Lead, LeadOf

\* A claim is of one of five kinds.
LEMMA ClaimKinds ==
  ASSUME NEW c \in Claims
  PROVE  \/ c[1] = "owned" /\ c[2] \in owned /\ c[3] = Whole(c[2])
         \/ c[1] = "new" /\ c[2] \in Thread /\ c[3] = NewOf(loc[c[2]])
         \/ c[1] = "old" /\ c[2] \in Thread /\ c[3] = OldOf(loc[c[2]])
         \/ c[1] = "random" /\ c[2] \in 0 .. RandomLen - 1 /\ c[3] = quarantine_random[c[2]]
         \/ c[1] = "queue" /\ c[2] \in 0 .. QueueLen - 1 /\ c[3] = quarantine_queue[c[2]]
BY ThreadPages DEF Claims

\* The pages with a claim are those with a user.
LEMMA ClaimedPages == \A a : a \in Claimed <=> HasUser(a, owned, loc, Quarantined)
<1>1. ASSUME NEW a, a \in Claimed PROVE HasUser(a, owned, loc, Quarantined)
  <2>1. PICK c \in Claims : a \in c[3]
    BY <1>1 DEF Claimed
  <2> QED BY <2>1, ClaimKinds, InQuarantined DEF HasUser, Mine
<1>2. ASSUME NEW r \in owned, NEW a \in Whole(r) PROVE a \in Claimed
  <2>1. <<"owned", r, Whole(r)>> \in Claims
    BY DEF Claims
  <2> QED BY <2>1 DEF Claimed
<1>3. ASSUME NEW t \in Thread, NEW a \in Mine(loc[t]) PROVE a \in Claimed
  <2>1. <<"new", t, NewPages(t)>> \in Claims /\ <<"old", t, OldPages(t)>> \in Claims
    BY DEF Claims
  <2> QED BY <2>1, ThreadPages DEF Claimed, Mine
<1>4. ASSUME NEW a \in Quarantined PROVE a \in Claimed
  <2>1. \A i \in 0 .. RandomLen - 1 : <<"random", i, quarantine_random[i]>> \in Claims
    BY DEF Claims
  <2>2. \A i \in 0 .. QueueLen - 1 : <<"queue", i, quarantine_queue[i]>> \in Claims
    BY DEF Claims
  <2>3. ASSUME NEW i \in 0 .. RandomLen - 1, a \in quarantine_random[i] PROVE a \in Claimed
    <3>1. PICK c \in Claims : c = <<"random", i, quarantine_random[i]>>
      BY <2>1
    <3>2. a \in c[3]
      BY <2>3, <3>1
    <3> QED BY <3>2 DEF Claimed
  <2>4. ASSUME NEW i \in 0 .. QueueLen - 1, a \in quarantine_queue[i] PROVE a \in Claimed
    <3>1. PICK c \in Claims : c = <<"queue", i, quarantine_queue[i]>>
      BY <2>2
    <3>2. a \in c[3]
      BY <2>4, <3>1
    <3> QED BY <3>2 DEF Claimed
  <2> QED BY <2>3, <2>4, InQuarantined
<1> QED BY <1>1, <1>2, <1>3, <1>4 DEF HasUser

\* Two claims to a page are the same claim.
LEMMA ApartClaims ==
  ASSUME Space, NEW c \in Claims, NEW d \in Claims, NEW a, a \in c[3], a \in d[3]
  PROVE  c[1] = d[1] /\ c[2] = d[2]
<1> USE DEF Mine
<1>1. CASE c[1] = "owned"
  BY <1>1, ClaimKinds, InQuarantined DEF Space, Apart
<1>2. CASE c[1] = "new"
  BY <1>2, ClaimKinds, InQuarantined DEF Space, Apart
<1>3. CASE c[1] = "old"
  BY <1>3, ClaimKinds, InQuarantined DEF Space, Apart
<1>4. CASE c[1] = "random"
  BY <1>4, ClaimKinds, InQuarantined DEF Space, Apart, CellsApart
<1>5. CASE c[1] = "queue"
  BY <1>5, ClaimKinds, InQuarantined DEF Space, Apart, CellsApart
<1> QED BY <1>1, <1>2, <1>3, <1>4, <1>5, ClaimKinds

\* No page has two users.
LEMMA SpaceRangesApart == Space => RangesApart
BY ApartClaims DEF RangesApart

\* What is mapped is what somebody uses, and what munmap has left behind.
LEMMA SpaceMappedExactly == Space => MappedExactly
<1> SUFFICES ASSUME Space PROVE MappedExactly
  OBVIOUS
<1>1. \A a \in Claimed : a \in Page
  <2>1. Quarantined \subseteq Page
    BY DEF Space, CellsTyped, Quarantined
  <2> QED BY <2>1, ClaimedPages DEF HasUser, Space, Mapped
<1>2. Claimed \cap leaked = {}
  BY <1>1, ClaimedPages DEF Space, Mapped
<1>3. {a \in Page : mem[a] # "free"} = Claimed \cup leaked
  BY <1>1, ClaimedPages DEF Space, Mapped
<1> QED BY <1>2, <1>3 DEF MappedExactly

\* An allocation of the program is accessible between its guards.
LEMMA SpaceOwnedIntact == Space => OwnedIntact
BY DEF Space, OwnedIntact, Intact

\* A quarantined range is sealed.
LEMMA SpaceQuarantineSealed == Space => QuarantineSealed
<1> SUFFICES ASSUME Space, NEW c \in Claims, c[1] \in {"random", "queue"}, NEW a \in c[3]
             PROVE  mem[a] = "none" \/ ("fixed" \in Failing /\ mem[a] = "zero")
  BY DEF QuarantineSealed
<1>1. a \in Quarantined
  BY ClaimKinds, InQuarantined
<1> QED BY <1>1 DEF Space, SealedPage

\* No munmap, mremap or mprotect of a call ever hits pages that another call, the
\* program or the quarantine uses (allocate_large, deallocate_large, h_realloc).
THEOREM LargeRangesApart == NoTrimRace => (Spec => []RangesApart)
BY SpaceInvariant, SpaceRangesApart, PTL

\* No path through malloc, free, realloc or their failures forgets a mapping or a
\* guard, or gives one up that is in use.
THEOREM LargeMappedExactly == NoTrimRace => (Spec => []MappedExactly)
BY SpaceInvariant, SpaceMappedExactly, PTL

\* What the program owns is accessible and has its guards.
THEOREM LargeOwnedIntact == NoTrimRace => (Spec => []OwnedIntact)
BY SpaceInvariant, SpaceOwnedIntact, PTL

\* A freed range is sealed until it leaves the quarantine.
THEOREM LargeQuarantineSealed == NoTrimRace => (Spec => []QuarantineSealed)
BY SpaceInvariant, SpaceQuarantineSealed, PTL

-----------------------------------------------------------------------------
(* What a step may never do *)

\* A step of t changes mapped pages only where it holds them.
Framed(t) == \A a \in Page : a \notin Mine(loc[t]) /\ mem[a] # "free" => mem'[a] = mem[a]

\* Filling or unmapping pages of the call.
LEMMA FramedFilled ==
  ASSUME Space, NEW t \in Thread, NEW S \in SUBSET Mine(loc[t]), NEW v \in Content,
         mem' = Filled(S, v)
  PROVE  Framed(t)
BY FilledAt DEF Space, Framed

\* Wiping pages of the call.
LEMMA FramedWiped ==
  ASSUME Space, NEW t \in Thread, NEW S \in SUBSET Mine(loc[t]), mem' = Wiped(S)
  PROVE  Framed(t)
BY WipedAt DEF Space, Framed

\* Dropping pages of the call.
LEMMA FramedDropped ==
  ASSUME Space, NEW t \in Thread, NEW S \in SUBSET Mine(loc[t]), Dropped(S)
  PROVE  Framed(t)
BY FilledAt DEF Space, Framed, Dropped, DroppedBut, Content

\* A call that gives up or ends is framed.
LEMMA EndingFramed ==
  ASSUME Space, NoTrimRace, NEW t \in Thread, Fails(t) \/ Ends(t) PROVE Framed(t)
BY FailsDropped, EndsDropped, FramedDropped DEF Mine

\* The steps of a mapping are framed.
LEMMA AllocateFramed ==
  ASSUME Space, NoTrimRace, NEW t \in Thread, AllocateStep(t) PROVE Framed(t)
<1> DEFINE k == loc[t]
<1> USE DEF Content
<1>1. Shape(k) /\ NewOf(k) \subseteq Mine(k)
  BY DEF Space, Mine
<1>2. CASE MapPages(t)
  <2>1. PICK S : mem' = Filled(S, "none") /\ \A a \in S : mem[a] = "free"
    BY <1>2 DEF MapPages
  <2> QED BY <2>1, FilledAt DEF Framed, Space
<1>3. CASE Insert(t) \/ InsertFails(t)
  BY <1>3 DEF Insert, InsertFails, Framed
<1>4. CASE ProtectPages(t)
  <2>1. Body(k.new) \subseteq Mine(k)
    BY <1>1, <1>4, WholeMine, ShapeFits, FitsPages DEF ProtectPages, At, Mapping
  <2> QED BY <1>4, <2>1, FramedFilled DEF ProtectPages
<1>5. CASE TrimLead(t)
  <2>1. Lead(t) \subseteq Mine(k)
    BY <1>1, <1>5, PagesOf DEF TrimLead, At, Lead
  <2> QED BY <1>5, <2>1, FramedFilled DEF TrimLead
<1>6. CASE TrimTrail(t)
  <2>1. k.pc = "trail" /\ NewOf(k) = k.real \ LeadOf(k) /\ Fits(k.new) /\ k.real \subseteq Page
    BY <1>1, <1>6, PagesOf DEF TrimTrail, At, Shape, MappingShape, LocalTyped, Mapping
  <2>2. Trail(t) \subseteq NewOf(k)
    BY <2>1, LargeAllocAssumption DEF Trail, LeadOf, Fits, Rec, Page
  <2> QED BY <1>1, <1>6, <2>2, FramedFilled DEF TrimTrail
<1> QED BY <1>2, <1>3, <1>4, <1>5, <1>6, EndingFramed DEF AllocateStep, Fails

\* The steps of a release and a realloc are framed.
LEMMA ReallocFramed ==
  ASSUME Space, NoTrimRace, NEW t \in Thread, ReleaseStep(t) \/ ReallocStep(t) PROVE Framed(t)
<1> DEFINE k == loc[t]
<1> USE DEF Content
<1>1. Shape(k) /\ OldOf(k) \subseteq Mine(k) /\ mem \in [Page -> Content]
  BY DEF Space, Mine
<1>2. CASE Shrink(t)
  <2>1. RightGuard(k.new) \subseteq Mine(k)
    <3>1. k.pc = "shrink" /\ Fits(k.old) /\ k.new = [k.old EXCEPT !.size = k.new.size]
          /\ k.new.size \in Nat /\ 1 <= k.new.size /\ k.new.size < k.old.size
      BY <1>1, <1>2 DEF Shrink, At, Shape, LocalTyped, ReallocShape, Rec
    <3>2. Fits(k.new) /\ \A a \in Whole(k.new) : a \in Whole(k.old)
      BY <3>1, CutOffRange
    <3>3. RightGuard(k.new) \subseteq Whole(k.new) /\ k.old # Nothing
      BY <3>1, <3>2, FitsPages
    <3> QED BY <1>1, <3>1, <3>2, <3>3, WholeMine
  <2> QED BY <1>2, <2>1, FramedFilled DEF Shrink
<1>3. CASE Resize(t) \/ Delete(t) \/ Enqueue(t)
  BY <1>3 DEF Resize, Delete, Enqueue, Framed
<1>4. CASE Purge(t)
  <2>1. Body(k.release) \subseteq Mine(k)
    BY <1>1, <1>4, ReleaseRange DEF Purge, At
  <2> QED BY <1>4, <2>1, FramedFilled, FramedWiped DEF Purge, Purged
<1>5. ASSUME k.pc \in {"copy", "remap"}, NEW a \in Page, a \notin Mine(k)
      PROVE  a \notin Body(k.old) /\ Copied(k.old, k.new)[a] = mem[a]
  <2>1. /\ Fits(k.old) /\ OldOf(k) = Whole(k.old)
        /\ k.new # Nothing => Fits(k.new) /\ NewOf(k) = Whole(k.new)
    BY <1>5, TwoAllocations
  <2>2. a \notin Body(k.old) /\ (k.new # Nothing => a \notin Body(k.new))
    BY <1>5, <2>1, FitsPages DEF Mine
  <2> QED BY <1>1, <2>1, <2>2, CopiedAt
<1>6. CASE Copy(t) \/ RemapFails(t)
  BY <1>5, <1>6 DEF Copy, RemapFails, At, Framed
<1>7. CASE Remap(t)
  BY <1>5, <1>7 DEF Remap, At, Framed
<1> QED BY <1>2, <1>3, <1>4, <1>6, <1>7, EndingFramed DEF ReleaseStep, ReallocStep, Fails, Ends

\* What the program owns lies outside every call.
LEMMA OwnedFramed ==
  ASSUME Space, NEW t \in Thread, Framed(t), NEW r \in owned
  PROVE  DataPages(mem', r) = DataPages(mem, r)
<1>1. Fits(r) /\ \A a \in Whole(r) : a \in Page /\ a \notin Mine(loc[t]) /\ mem[a] # "free"
  BY FitsPages DEF Space, Apart, Mapped, HasUser
<1> QED BY <1>1, IntactLocal DEF Framed

\* A step keeps what the program has written elsewhere.
LEMMA DataKeptStep ==
  ASSUME Space, NoTrimRace, Next
  PROVE  \A r \in owned \cap owned' : DataPages(mem, r) \subseteq DataPages(mem', r)
<1>1. ASSUME NEW t \in Thread, Call(t) \/ AllocateStep(t) \/ ReleaseStep(t) \/ ReallocStep(t)
      PROVE  \A r \in owned : DataPages(mem, r) \subseteq DataPages(mem', r)
  <2>1. ASSUME Call(t) PROVE Framed(t)
    BY <2>1 DEF Call, Malloc, Free, ReallocToSlab, ReallocShrink, ReallocGrow, ReallocTo, Framed
  <2> QED BY <1>1, <2>1, AllocateFramed, ReallocFramed, OwnedFramed
<1>2. ASSUME NEW s \in owned, Write(s)
      PROVE  \A r \in owned : DataPages(mem, r) \subseteq DataPages(mem', r)
  <2>1. \A a \in Page : mem'[a] = mem[a] \/ mem'[a] = "data"
    BY <1>2, FilledAt DEF Write, Space, Content
  <2>2. ASSUME NEW r \in owned, NEW i \in 0 .. r.size - 1 PROVE r.p + i \in Page
    <3>1. Fits(r)
      BY DEF Space
    <3> QED BY <3>1, LargeAllocAssumption DEF Fits, Rec, Page
  <2> QED BY <2>1, <2>2 DEF DataPages
<1> QED BY <1>1, <1>2 DEF Next

\* No call on another allocation changes what the program has written.
THEOREM LargeDataKept == NoTrimRace => (Spec => DataKept)
<1> SUFFICES ASSUME NoTrimRace PROVE Spec => DataKept
  OBVIOUS
<1>1. Space /\ [Next]_vars =>
        [\A r \in owned \cap owned' : DataPages(mem, r) \subseteq DataPages(mem', r)]_vars
  BY DataKeptStep
<1>2. Spec => []Space
  BY SpaceInvariant
<1> QED BY <1>1, <1>2, PTL DEF Spec, DataKept

\* A realloc that fails leaves its argument as it was.
LEMMA FailsContents ==
  ASSUME Space, NoTrimRace, NEW t \in Thread, Fails(t), NEW r \in owned' \ owned
  PROVE  DataPages(mem', r) = loc[t].kept \cap (0 .. r.size - 1)
<1> DEFINE k == loc[t]
<1>1. Shape(k) /\ Contents(mem, k) /\ mem \in [Page -> Content]
  BY DEF Space
<1>2. k.pc \in {"map", "shrink"} \cup Mapping /\ r = k.old /\ k.old # Nothing /\ Dropped(NewOf(k))
  BY FailsDropped DEF ReturnNull
<1>3. Fits(k.old) /\ OldOf(k) = Whole(k.old) /\ k.kept = DataPages(mem, k.old)
  BY <1>1, <1>2, ShapeFits, PagesOf DEF Contents, KeptContents, Before
<1>4. \A a \in Whole(k.old) : mem'[a] = mem[a]
  <2>1. \A a \in Whole(k.old) : a \in Page /\ a \notin NewOf(k)
    BY <1>3, FitsPages DEF Space, Apart
  <2> QED BY <1>1, <1>2, <2>1, FilledAt DEF Dropped, DroppedBut, Content
<1>5. DataPages(mem', k.old) = k.kept
  BY <1>3, <1>4, IntactLocal
<1> QED BY <1>2, <1>3, <1>5 DEF DataPages

\* A realloc that succeeds has brought the contents to the new allocation.
LEMMA FinishContents ==
  ASSUME Space, NEW t \in Thread, loc[t].pc \in Releasing \cup {"guards"}, Finish(t),
         \A a \in NewOf(loc[t]) : mem'[a] = mem[a], NEW r \in owned' \ owned
  PROVE  DataPages(mem', r) = loc[t].kept \cap (0 .. r.size - 1)
<1> DEFINE k == loc[t]
<1>1. Shape(k) /\ Contents(mem, k)
  BY DEF Space
<1>2. r = k.new /\ k.new # Nothing /\ k.op # "shrink"
  BY DEF Finish
<1>3. Fits(k.new) /\ NewOf(k) = Whole(k.new)
  BY <1>1, <1>2, ShapeFits, PagesOf DEF Waiting
<1>4. After(k)
  BY <1>1, <1>2 DEF After, Shape, FreeShape, ReallocShape, Releasing
<1>5. DataPages(mem', k.new) = DataPages(mem, k.new)
  BY <1>3, IntactLocal
<1> QED BY <1>1, <1>2, <1>4, <1>5 DEF Contents, KeptContents

\* The end of a call, whichever it is.
LEMMA EndContents ==
  ASSUME Space, NoTrimRace, NEW t \in Thread, AllocateStep(t) \/ ReleaseStep(t) \/ ReallocStep(t),
         loc'[t].pc = "idle", NEW r \in owned' \ owned
  PROVE  DataPages(mem', r) = loc[t].kept \cap (0 .. r.size - 1)
<1> DEFINE k == loc[t]
<1>1. Shape(k) /\ Contents(mem, k) /\ mem \in [Page -> Content]
  BY DEF Space
<1>2. CASE Fails(t)
  BY <1>2, FailsContents
<1>3. CASE Ends(t)
  <2>1. k.pc \in Releasing \cup {"guards"} /\ Finish(t) /\ Dropped(OldOf(k))
    BY <1>3, EndsDropped
  <2>2. \A a \in NewOf(k) : mem'[a] = mem[a]
    <3>1. \A a \in NewOf(k) : a \in Page /\ a \notin OldOf(k)
      BY MineMapped DEF Space, Apart, Mine
    <3> QED BY <1>1, <2>1, <3>1, FilledAt DEF Dropped, DroppedBut, Content
  <2> QED BY <2>1, <2>2, FinishContents
<1>4. CASE Enqueue(t)
  <2>1. k.pc = "enqueue" /\ mem' = mem /\ (Finish(t) \/ owned' = owned)
    BY <1>4 DEF Enqueue, At
  <2> QED BY <2>1, FinishContents DEF Releasing
<1>5. CASE Insert(t)
  <2>1. k.pc = "insert" /\ mem' = mem /\ r = k.new /\ k.op = "malloc"
    BY <1>1, <1>5 DEF Insert, At, Shape, MappingShape, Mapping
  <2>2. k.kept = {} /\ Fresh(mem, k.new) /\ Fits(k.new)
    BY <1>1, <2>1 DEF Shape, MappingShape, Mapping, Contents, MappingContents
  <2>3. \A i \in 0 .. k.new.size - 1 : k.new.p + i \in Body(k.new)
    BY <2>2 DEF Fits, Rec, Body
  <2> QED BY <2>1, <2>2, <2>3 DEF DataPages, Fresh
<1>6. CASE Resize(t)
  <2>1. k.pc = "resize" /\ mem' = mem /\ r = k.new
    BY <1>6 DEF Resize, At
  <2>2. After(k)
    BY <1>1, <2>1 DEF After, Shape, ReallocShape, Nothing
  <2> QED BY <1>1, <2>1, <2>2 DEF Contents, KeptContents
<1>7. CASE owned' = owned
  BY <1>7
<1>8. MapPages(t) \/ ProtectPages(t) \/ TrimLead(t) \/ TrimTrail(t) \/ InsertFails(t) \/ Purge(t)
      \/ Shrink(t) \/ Copy(t) \/ Delete(t) \/ Remap(t) \/ RemapFails(t) => owned' = owned
  BY DEF MapPages, ProtectPages, TrimLead, TrimTrail, InsertFails, Purge, Shrink, Copy, Delete,
         Remap, RemapFails
<1> QED BY <1>2, <1>3, <1>4, <1>5, <1>6, <1>7, <1>8
        DEF AllocateStep, ReleaseStep, ReallocStep, Fails, Ends

\* A step of one call leaves the local variables of the others alone.
LEMMA OthersLocal ==
  ASSUME Space, NEW t \in Thread, Call(t) \/ AllocateStep(t) \/ ReleaseStep(t) \/ ReallocStep(t),
         NEW u \in Thread, u # t
  PROVE  loc'[u] = loc[u]
<1>1. CASE Call(t)
  BY <1>1 DEF Call, Malloc, Free, ReallocToSlab, ReallocShrink, ReallocGrow, ReallocTo, Space
<1>2. CASE AllocateStep(t)
  BY <1>2 DEF AllocateStep, MapPages, MapFails, ProtectPages, ProtectFails, TrimLead, TrimTrail,
              LeadFails, TrailFails, Insert, InsertFails, Drop, ReturnNull, Goto, Space, At,
              Shape, MappingShape, Mapping
<1>3. CASE ReleaseStep(t)
  BY <1>3 DEF ReleaseStep, UnmapRelease, Purge, Enqueue, Evict, Finish, Goto, Space
<1>4. CASE ReallocStep(t)
  BY <1>4 DEF ReallocStep, Shrink, ShrinkFails, Resize, Copy, Delete, Remap, RemapFails,
              UnmapGuards, Finish, ReturnNull, Goto, Space
<1> QED BY <1>1, <1>2, <1>3, <1>4

\* What a call returns holds what it should.
LEMMA ContentsKeptStep ==
  ASSUME Space, NoTrimRace, Next, NEW t \in Thread, At(t, "idle")', ~At(t, "idle"),
         NEW r \in owned' \ owned
  PROVE  DataPages(mem', r) = loc[t].kept \cap (0 .. r.size - 1)
<1>1. loc'[t].pc = "idle" /\ loc[t].pc # "idle"
  BY DEF At
<1>2. PICK u \in Thread : Call(u) \/ AllocateStep(u) \/ ReleaseStep(u) \/ ReallocStep(u)
  <2>1. (\E s \in owned : Write(s)) => loc' = loc
    BY DEF Write
  <2> QED BY <1>1, <2>1 DEF Next
<1>3. u = t
  BY <1>1, <1>2, OthersLocal
<1>4. ~Call(t)
  BY <1>1 DEF Call, Malloc, Free, ReallocToSlab, ReallocShrink, ReallocGrow, ReallocTo, At
<1> QED BY <1>1, <1>2, <1>3, <1>4, EndContents

\* malloc returns zeroed pages; realloc returns the contents of its argument as far
\* as they go and zeroes behind them, whether it shrinks in place, copies or moves,
\* and its argument untouched when it fails.
THEOREM LargeContentsKept == NoTrimRace => (Spec => ContentsKept)
<1> SUFFICES ASSUME NoTrimRace PROVE Spec => ContentsKept
  OBVIOUS
<1>1. Space /\ [Next]_vars =>
        [\A t \in Thread : At(t, "idle")' /\ ~At(t, "idle") =>
           \A r \in owned' \ owned : DataPages(mem', r) = loc[t].kept \cap (0 .. r.size - 1)]_vars
  BY ContentsKeptStep
<1>2. Spec => []Space
  BY SpaceInvariant
<1> QED BY <1>1, <1>2, PTL DEF Spec, ContentsKept

-----------------------------------------------------------------------------
(* The table and the statistics *)

SizeCells(R) == {e \in R \X (1 .. Pages) : e[2] <= e[1].size}

\* The sum of the sizes of a finite set of entries, one entry more.
LEMMA SumAdd ==
  ASSUME NEW R, IsFiniteSet(R), NEW r, r \notin R, r.size \in 1 .. Pages
  PROVE  SumSizes(R \cup {r}) = SumSizes(R) + r.size /\ SumSizes(R) \in Nat
<1> DEFINE C == SizeCells(R)
<1> DEFINE D == {r} \X (1 .. r.size)
<1>1. Pages \in Nat /\ r.size \in Nat
  BY LargeAllocAssumption
<1>2. IsFiniteSet(1 .. Pages) /\ IsFiniteSet(1 .. r.size) /\ Cardinality(1 .. r.size) = r.size
  <2>1. 1 \in Int /\ Pages \in Int /\ r.size \in Int
    BY <1>1
  <2>2. IsFiniteSet(1 .. Pages)
    BY <2>1, FS_Interval
  <2>3. IsFiniteSet(1 .. r.size)
        /\ Cardinality(1 .. r.size) = IF 1 > r.size THEN 0 ELSE r.size - 1 + 1
    BY <2>1, FS_Interval
  <2> QED BY <1>1, <2>2, <2>3
<1>3. IsFiniteSet(C)
  <2>1. IsFiniteSet(R \X (1 .. Pages))
    BY <1>2, FS_Product
  <2> QED BY <2>1, FS_Subset DEF SizeCells
<1>4. IsFiniteSet(D) /\ Cardinality(D) = r.size
  <2>1. IsFiniteSet({r}) /\ Cardinality({r}) = 1
    BY FS_Singleton
  <2>2. IsFiniteSet(D) /\ Cardinality(D) = Cardinality({r}) * Cardinality(1 .. r.size)
    BY <1>2, <2>1, FS_Product
  <2> QED BY <1>1, <1>2, <2>1, <2>2
<1>5. SizeCells(R \cup {r}) = C \cup D
  BY <1>1 DEF SizeCells
<1>6. C \cap D = {}
  BY DEF SizeCells
<1>7. Cardinality(C \cup D) = Cardinality(C) + Cardinality(D) - Cardinality(C \cap D)
  BY <1>3, <1>4, FS_Union
<1>8. Cardinality(C \cap D) = 0
  BY <1>6, FS_EmptySet
<1>9. Cardinality(C) \in Nat
  BY <1>3, FS_CardinalityType
<1>10. SumSizes(R \cup {r}) = Cardinality(C \cup D) /\ SumSizes(R) = Cardinality(C)
  BY <1>5 DEF SumSizes, SizeCells
<1> HIDE DEF C, D
<1> QED BY <1>1, <1>4, <1>7, <1>8, <1>9, <1>10

\* And one entry less.
LEMMA SumRemove ==
  ASSUME NEW R, IsFiniteSet(R), NEW r \in R, r.size \in 1 .. Pages
  PROVE  SumSizes(R \ {r}) = SumSizes(R) - r.size /\ SumSizes(R) \in Nat
<1>1. IsFiniteSet(R \ {r}) /\ r \notin R \ {r} /\ (R \ {r}) \cup {r} = R
  BY FS_Subset
<1>2. SumSizes(R) = SumSizes(R \ {r}) + r.size /\ SumSizes(R \ {r}) \in Nat
  BY <1>1, SumAdd
<1>3. r.size \in Nat
  BY LargeAllocAssumption
<1> QED BY <1>2, <1>3

\* The sum of the sizes of finitely many entries is a number.
LEMMA SumType ==
  ASSUME NEW R, IsFiniteSet(R) PROVE SumSizes(R) \in Nat
<1>1. 1 \in Int /\ Pages \in Int
  BY LargeAllocAssumption
<1>2. IsFiniteSet(1 .. Pages)
  BY <1>1, FS_Interval
<1>3. IsFiniteSet(R \X (1 .. Pages))
  BY <1>2, FS_Product
<1>4. IsFiniteSet({e \in R \X (1 .. Pages) : e[2] <= e[1].size})
  BY <1>3, FS_Subset
<1> QED BY <1>4, FS_CardinalityType DEF SumSizes

\* A call has its pages' entries in the table: each fits, and starts at a page of
\* the call.
LEMMA EntryPage ==
  ASSUME NEW l, Shape(l), NEW e \in EntriesOf(l)
  PROVE  Fits(e) /\ e.p \in Whole(e) /\ e.p \in Mine(l)
<1> USE DEF Mapping, Releasing, Waiting
<1>1. CASE l.op = "shrink"
  <2>1. e = l.old /\ Fits(l.old) /\ l.new.p = l.old.p
        /\ l.new # Nothing /\ l.pc \in {"shrink", "resize"} \cup Releasing
    BY <1>1 DEF EntriesOf, Shape, ReallocShape, Nothing, Fits, Rec
  <2>2. l.old # Nothing /\ l.old.p \in Whole(l.old)
    BY <2>1, FitsPages
  <2>3. l.pc = "shrink" => l.old.p \in Mine(l)
    BY <2>2, WholeMine
  <2>4. l.pc # "shrink" => Fits(l.new) /\ Whole(l.new) \subseteq Mine(l)
    BY <2>1, ShapeFits, WholeMine
  <2>5. l.pc # "shrink" => l.new.p \in Mine(l)
    BY <2>4, FitsPages
  <2> QED BY <2>1, <2>2, <2>3, <2>5
<1>2. CASE l.op # "shrink" /\ e = l.old /\ l.op \in {"copy", "move"}
           /\ l.pc \in Mapping \cup {"map", "copy", "delete"}
  <2>1. Fits(l.old)
    BY <1>2 DEF Shape, ReallocShape, MappingShape
  <2>2. l.old # Nothing /\ l.old.p \in Whole(l.old)
    BY <2>1, FitsPages
  <2> QED BY <1>2, <2>1, <2>2, WholeMine
<1>3. CASE l.op # "shrink" /\ e = l.new /\ l.new # Nothing
           /\ l.pc \in Releasing \cup {"copy", "delete", "remap", "guards"}
  <2>1. Fits(l.new) /\ Whole(l.new) \subseteq Mine(l)
    BY <1>3, ShapeFits, WholeMine
  <2> QED BY <1>3, <2>1, FitsPages
<1> QED BY <1>1, <1>2, <1>3 DEF EntriesOf

\* Two entries of one call start at different pages.
LEMMA EntriesApart ==
  ASSUME Space, NEW t \in Thread, NEW e \in EntriesOf(loc[t]), NEW f \in EntriesOf(loc[t]),
         e.p = f.p
  PROVE  e = f
<1> DEFINE k == loc[t]
<1>1. Shape(k) /\ \A a \in NewOf(k) : a \notin OldOf(k)
  BY DEF Space, Apart
<1>2. CASE k.pc \notin {"copy", "delete"}
  BY <1>2 DEF EntriesOf, Mapping, Releasing
<1>3. CASE k.pc \in {"copy", "delete"}
  <2>1. Fits(k.old) /\ OldOf(k) = Whole(k.old)
        /\ (k.new # Nothing => Fits(k.new) /\ NewOf(k) = Whole(k.new))
    BY <1>3, TwoAllocations
  <2>2. k.new # Nothing => k.new.p # k.old.p
    BY <1>1, <2>1, FitsPages
  <2>3. k.op # "shrink"
    BY <1>1, <1>3 DEF Shape, ReallocShape
  <2> QED BY <2>2, <2>3 DEF EntriesOf
<1> QED BY <1>2, <1>3

\* The table has at most one entry for an address.
LEMMA OneEntry ==
  ASSUME Space, Table, NEW e \in regions, NEW f \in regions, e.p = f.p
  PROVE  e = f
<1>1. \A r \in owned : r.p \in Whole(r)
  BY FitsPages DEF Space
<1>2. \A t \in Thread : \A d \in EntriesOf(loc[t]) : d.p \in Mine(loc[t])
  BY EntryPage DEF Space
<1>3. CASE e \in owned /\ f \in owned
  BY <1>1, <1>3 DEF Space, Apart
<1>4. CASE e \in owned /\ f \notin owned
  BY <1>1, <1>2, <1>4 DEF Space, Apart, Table
<1>5. CASE e \notin owned /\ f \in owned
  BY <1>1, <1>2, <1>5 DEF Space, Apart, Table
<1>6. CASE e \notin owned /\ f \notin owned
  <2>1. PICK t \in Thread : e \in EntriesOf(loc[t])
    BY <1>6 DEF Table
  <2>2. PICK u \in Thread : f \in EntriesOf(loc[u])
    BY <1>6 DEF Table
  <2>3. t = u
    BY <1>2, <2>1, <2>2 DEF Space, Apart
  <2> QED BY <2>1, <2>2, <2>3, EntriesApart
<1> QED BY <1>3, <1>4, <1>5, <1>6

\* Every entry has a size that SumSizes can count.
LEMMA EntrySizes ==
  ASSUME Space, Table, NEW e \in regions PROVE Fits(e) /\ e.size \in 1 .. Pages
<1>1. Fits(e)
  BY EntryPage DEF Space, Table
<1> QED BY <1>1, FitsPages DEF Region

\* e is an entry of the call t or of the program.
Listed(t, e) == e \in owned \/ e \in EntriesOf(loc[t])

\* A step that leaves the table alone, and the entries of the call.
LEMMA TableSame ==
  ASSUME Table, NEW t \in Thread, \A u \in Thread : u # t => loc'[u] = loc[u],
         UNCHANGED <<regions, allocated>>, \A e : Listed(t, e)' <=> Listed(t, e)
  PROVE  Table'
<1>1. \A e : e \in owned' \/ e \in EntriesOf(loc'[t]) <=> e \in owned \/ e \in EntriesOf(loc[t])
  BY DEF Listed
<1> QED BY <1>1 DEF Table

\* A step that adds an entry of the call.
LEMMA TableAdd ==
  ASSUME Space, Table, NEW t \in Thread, \A u \in Thread : u # t => loc'[u] = loc[u],
         NEW n, n \notin regions, n.size \in 1 .. Pages,
         regions' = regions \cup {n}, allocated' = allocated + n.size,
         \A e : Listed(t, e)' <=> Listed(t, e) \/ e = n
  PROVE  Table'
<1>1. \A e : e \in owned' \/ e \in EntriesOf(loc'[t])
               <=> e \in owned \/ e \in EntriesOf(loc[t]) \/ e = n
  BY DEF Listed
<1>2. IsFiniteSet(regions')
  BY FS_AddElement DEF Table
<1>3. allocated' = SumSizes(regions')
  BY SumAdd DEF Table
<1> QED BY <1>1, <1>2, <1>3 DEF Table

\* A step that removes an entry of the call or the program.
LEMMA TableRemove ==
  ASSUME Space, Table, NEW t \in Thread, \A u \in Thread : u # t => loc'[u] = loc[u],
         NEW n, n \in regions, \A u \in Thread : u # t => n \notin EntriesOf(loc[u]),
         regions' = regions \ {n}, allocated' = allocated - n.size,
         \A e : Listed(t, e)' <=> Listed(t, e) /\ e # n
  PROVE  Table'
<1>1. \A e : e \in owned' \/ e \in EntriesOf(loc'[t])
               <=> (e \in owned \/ e \in EntriesOf(loc[t])) /\ e # n
  BY DEF Listed
<1>2. IsFiniteSet(regions')
  BY FS_RemoveElement DEF Table
<1>3. allocated' = SumSizes(regions')
  BY SumRemove, EntrySizes DEF Table
<1> QED BY <1>1, <1>2, <1>3 DEF Table

\* regions_delete removes the one entry with that address.
LEMMA WithoutOne ==
  ASSUME Space, Table, NEW n \in regions PROVE Without(n.p) = regions \ {n}
BY OneEntry DEF Without

\* Phases between which the entries of a call stay the same.
LEMMA EntriesSame ==
  ASSUME NEW k, NEW l, l.op = k.op, l.old = k.old,
         \/ l.op = "shrink"
         \/ k.pc \in {"map"} \cup Mapping /\ l.pc \in {"map"} \cup Mapping
         \/ l.new = k.new /\ k.pc = "copy" /\ l.pc = "delete"
         \/ l.new = k.new /\ k.pc \in Releasing \cup {"remap"} /\ l.pc \in Releasing \cup {"guards"}
  PROVE  EntriesOf(l) = EntriesOf(k)
BY DEF EntriesOf, Mapping, Releasing

\* A thread in no call has no entries.
LEMMA IdleEntries == EntriesOf(Idle) = {}
BY DEF EntriesOf, Idle

\* The steps that leave the table and the entries of their call alone.
Inside(t) ==
  \/ MapPages(t) \/ ProtectPages(t) \/ TrimLead(t) \/ TrimTrail(t) \/ InsertFails(t)
  \/ Purge(t) \/ Shrink(t) \/ Copy(t) \/ Remap(t) \/ RemapFails(t)

\* What those steps do to the local variables that the entries depend on.
LEMMA InsideLocal ==
  ASSUME Space, NEW t \in Thread, Inside(t)
  PROVE  LET k == loc[t]
             l == loc'[t]
         IN  /\ \A u \in Thread : u # t => loc'[u] = loc[u]
             /\ UNCHANGED <<regions, allocated, owned>> /\ l.op = k.op /\ l.old = k.old
             /\ \/ l.op = "shrink"
                \/ k.pc \in {"map"} \cup Mapping /\ l.pc \in {"map"} \cup Mapping
                \/ l.new = k.new /\ k.pc = "copy" /\ l.pc = "delete"
                \/ /\ l.new = k.new /\ k.pc \in Releasing \cup {"remap"}
                   /\ l.pc \in Releasing \cup {"guards"}
<1> USE DEF Mapping, Releasing, Waiting, At, Goto
<1>1. /\ loc = [u \in Thread |-> loc[u]] /\ Shape(loc[t])
      /\ LocalTyped(loc[t])
  BY DEF Space, Shape
<1>2. CASE MapPages(t)
  <2>1. PICK real, new :
          loc' = [loc EXCEPT ![t] = [loc[t] EXCEPT !.pc = "protect", !.real = real, !.new = new]]
    BY <1>2 DEF MapPages
  <2>2. loc'[t].pc = "protect" /\ loc'[t].op = loc[t].op /\ loc'[t].old = loc[t].old
    BY <1>1, <2>1 DEF LocalTyped
  <2> QED BY <1>1, <1>2, <2>1, <2>2 DEF MapPages
<1>3. CASE ProtectPages(t) \/ TrimLead(t) \/ TrimTrail(t) \/ InsertFails(t)
  BY <1>1, <1>3 DEF ProtectPages, TrimLead, TrimTrail, InsertFails, LocalTyped
<1>4. CASE Purge(t) \/ Copy(t) \/ Remap(t) \/ RemapFails(t)
  BY <1>1, <1>4 DEF Purge, Copy, Remap, RemapFails, LocalTyped
<1>5. CASE Shrink(t)
  <2>1. loc[t].op = "shrink"
    BY <1>1, <1>5 DEF Shrink, Shape, ReallocShape
  <2> QED BY <1>1, <1>5, <2>1 DEF Shrink, LocalTyped
<1> QED BY <1>2, <1>3, <1>4, <1>5 DEF Inside

\* They keep the table.
LEMMA InsideTable ==
  ASSUME Space, Table, NEW t \in Thread, Inside(t) PROVE Table'
<1>1. EntriesOf(loc'[t]) = EntriesOf(loc[t])
  BY InsideLocal, EntriesSame
<1> QED BY <1>1, InsideLocal, TableSame DEF Listed

\* A call that fails hands its entry back to the program.
LEMMA FailsTable ==
  ASSUME Space, Table, NoTrimRace, NEW t \in Thread, Fails(t) PROVE Table'
<1> DEFINE k == loc[t]
<1>1. Shape(k) /\ k.pc \in {"map", "shrink"} \cup Mapping
  BY FailsDropped DEF Space
<1>2. /\ owned' = owned \cup ({k.old} \ {Nothing}) /\ loc'[t] = Idle
      /\ \A u \in Thread : u # t => loc'[u] = loc[u]
  BY FailsDropped DEF ReturnNull, Space
<1>3. UNCHANGED <<regions, allocated>>
  BY DEF Fails, MapFails, ProtectFails, LeadFails, TrailFails, Drop, ShrinkFails
<1>4. EntriesOf(k) = {k.old} \ {Nothing}
  <2>1. k.op \in {"copy", "move", "shrink"} => k.old # Nothing
    BY <1>1, FitsPages DEF Shape, MappingShape, ReallocShape
  <2>2. k.op \notin {"copy", "move", "shrink"} => k.old = Nothing
    BY <1>1 DEF Shape, MappingShape, ReallocShape, Mapping
  <2> QED BY <1>1, <2>1, <2>2 DEF EntriesOf, Mapping, Releasing, Shape, ReallocShape
<1>5. \A e : Listed(t, e)' <=> Listed(t, e)
  BY <1>2, <1>4, IdleEntries DEF Listed
<1> QED BY <1>2, <1>3, <1>5, TableSame

\* A release that ends hands the entry of the new allocation to the program, or
\* leaves that of a shrink for Resize.
LEMMA FinishTable ==
  ASSUME Space, Table, NEW t \in Thread, loc[t].pc \in Releasing \cup {"guards"}, Finish(t),
         UNCHANGED <<regions, allocated>>
  PROVE  Table'
<1> DEFINE k == loc[t]
<1> USE DEF Releasing
<1>1. Shape(k) /\ LocalTyped(k) /\ loc = [u \in Thread |-> loc[u]]
  BY DEF Space, Shape
<1>2. \A u \in Thread : u # t => loc'[u] = loc[u]
  BY <1>1 DEF Finish
<1>3. CASE k.op = "shrink"
  <2>1. UNCHANGED owned /\ loc'[t].op = k.op /\ loc'[t].old = k.old
    BY <1>1, <1>3 DEF Finish, LocalTyped
  <2>2. EntriesOf(loc'[t]) = EntriesOf(k)
    BY <1>3, <2>1, EntriesSame
  <2> QED BY <1>2, <2>1, <2>2, TableSame DEF Listed
<1>4. CASE k.op # "shrink"
  <2>1. owned' = owned \cup ({k.new} \ {Nothing}) /\ loc'[t] = Idle
    BY <1>1, <1>4 DEF Finish
  <2>2. EntriesOf(k) = {k.new} \ {Nothing}
    BY <1>1, <1>4 DEF EntriesOf, Shape, ReallocShape, FreeShape, Mapping
  <2>3. \A e : Listed(t, e)' <=> Listed(t, e)
    BY <2>1, <2>2, IdleEntries DEF Listed
  <2> QED BY <1>2, <2>3, TableSame
<1> QED BY <1>3, <1>4

\* Enqueue goes on to evict a range, or ends.
LEMMA EnqueueTable ==
  ASSUME Space, Table, NEW t \in Thread, Enqueue(t) PROVE Table'
<1>1. loc[t].pc = "enqueue" /\ UNCHANGED <<regions, allocated>>
  BY DEF Enqueue, At
<1>2. CASE Finish(t)
  BY <1>1, <1>2, FinishTable DEF Releasing
<1>3. CASE ~Finish(t)
  <2>1. /\ UNCHANGED owned
        /\ \E out : loc' = [loc EXCEPT ![t] = [loc[t] EXCEPT !.pc = "evict", !.victim = out]]
    BY <1>3 DEF Enqueue
  <2>2. /\ \A u \in Thread : u # t => loc'[u] = loc[u]
        /\ loc'[t].op = loc[t].op /\ loc'[t].old = loc[t].old /\ loc'[t].new = loc[t].new
        /\ loc'[t].pc = "evict"
    BY <2>1 DEF Space, Shape, LocalTyped
  <2>3. EntriesOf(loc'[t]) = EntriesOf(loc[t])
    BY <1>1, <2>2, EntriesSame DEF Releasing
  <2> QED BY <1>1, <2>1, <2>2, <2>3, TableSame DEF Listed
<1> QED BY <1>2, <1>3

\* malloc has no entry yet; realloc takes the entry of its argument with it.
LEMMA CallTable ==
  ASSUME Space, Table, NEW t \in Thread, Call(t) PROVE Table'
<1>1. loc[t] = Idle /\ loc = [u \in Thread |-> loc[u]]
  <2>1. loc[t].pc = "idle"
    BY DEF Call, Malloc, Free, ReallocToSlab, ReallocShrink, ReallocGrow, ReallocTo, At
  <2> QED BY <2>1 DEF Space, Shape, FreeShape
<1>2. \A u \in Thread : u # t => loc'[u] = loc[u]
  BY OthersLocal
<1>3. EntriesOf(loc[t]) = {}
  BY <1>1, IdleEntries
<1>4. ASSUME NEW s \in Sizes, NEW a \in Aligns, NEW g \in Guards, Malloc(t, s, a, g)
      PROVE  Table'
  <2>1. loc'[t].op = "malloc" /\ UNCHANGED <<regions, allocated, owned>>
    BY <1>1, <1>4 DEF Malloc, Idle
  <2>2. EntriesOf(loc'[t]) = {}
    BY <2>1 DEF EntriesOf
  <2> QED BY <1>2, <1>3, <2>1, <2>2, TableSame DEF Listed
<1>5. ASSUME NEW r \in owned, Free(t, r) PROVE Table'
  <2>1. /\ owned' = owned \ {r} /\ regions' = Without(r.p) /\ allocated' = allocated - r.size
        /\ loc'[t].op = "free"
    BY <1>1, <1>5 DEF Free, Idle
  <2>2. EntriesOf(loc'[t]) = {}
    BY <2>1 DEF EntriesOf
  <2>3. r \in regions /\ regions' = regions \ {r}
    BY <2>1, WithoutOne DEF Table
  <2>4. \A u \in Thread : u # t => r \notin EntriesOf(loc[u])
    BY EntryPage DEF Space, Apart
  <2>5. \A e : Listed(t, e)' <=> Listed(t, e) /\ e # r
    BY <1>3, <2>1, <2>2 DEF Listed
  <2> QED BY <1>2, <2>1, <2>3, <2>4, <2>5, TableRemove
<1>6. ASSUME NEW r \in owned, NEW pc, NEW op, NEW new, ReallocTo(t, r, pc, op, new),
             \/ op = "shrink"
             \/ op \in {"copy", "move"} /\ pc = "map"
             \/ op = "copy" /\ pc = "copy" /\ new = Nothing
      PROVE  Table'
  <2>1. /\ owned' = owned \ {r} /\ UNCHANGED <<regions, allocated>>
        /\ loc'[t].pc = pc /\ loc'[t].op = op /\ loc'[t].old = r /\ loc'[t].new = new
    BY <1>1, <1>6 DEF ReallocTo, Idle
  <2>2. EntriesOf(loc'[t]) = {r}
    BY <1>6, <2>1 DEF EntriesOf, Releasing
  <2>3. \A e : Listed(t, e)' <=> Listed(t, e)
    BY <1>3, <2>1, <2>2 DEF Listed
  <2> QED BY <1>2, <2>1, <2>3, TableSame
<1>7. ASSUME NEW r \in owned,
             \/ ReallocToSlab(t, r)
             \/ \E s \in Sizes : ReallocShrink(t, r, s) \/ \E g \in Guards : ReallocGrow(t, r, s, g)
      PROVE  Table'
  BY <1>6, <1>7 DEF ReallocToSlab, ReallocShrink, ReallocGrow
<1> QED BY <1>4, <1>5, <1>7 DEF Call

\* regions_insert enters an address that the table does not have.
LEMMA InsertTable ==
  ASSUME Space, Table, NEW t \in Thread, Insert(t) PROVE Table'
<1> DEFINE k == loc[t]
<1> USE DEF Mapping, Releasing, Waiting
<1>1. /\ Shape(k) /\ LocalTyped(k) /\ k.pc = "insert" /\ loc = [u \in Thread |-> loc[u]]
      /\ regions' = regions \cup {k.new} /\ allocated' = allocated + k.new.size
  BY DEF Insert, At, Space, Shape
<1>2. Fits(k.new) /\ k.new # Nothing /\ NewOf(k) = Whole(k.new) /\ k.new.p \in Whole(k.new)
      /\ k.new.size \in 1 .. Pages /\ k.op \in {"malloc", "copy", "move"}
  BY <1>1, PagesOf, FitsPages DEF Shape, MappingShape, Region
<1>3. k.new \notin regions
  <2>1. k.new.p \in Mine(k)
    BY <1>2 DEF Mine
  <2>2. k.new \notin owned
    BY <1>2, <2>1 DEF Space, Apart
  <2>3. \A u \in Thread : u # t => k.new \notin EntriesOf(loc[u])
    BY <2>1, EntryPage DEF Space, Apart
  <2>4. k.new \notin EntriesOf(k)
    <3>1. k.op \in {"copy", "move"} => Fits(k.old) /\ k.old # Nothing
      BY <1>1, FitsPages DEF Shape, MappingShape
    <3>2. k.op \in {"copy", "move"} => OldOf(k) = Whole(k.old) /\ k.old.p \in Whole(k.old)
      BY <1>1, <3>1, PagesOf, FitsPages
    <3>3. \A a \in NewOf(k) : a \notin OldOf(k)
      BY DEF Space, Apart
    <3>4. k.op \in {"copy", "move"} => k.new # k.old
      BY <1>2, <3>2, <3>3
    <3> QED BY <1>1, <1>2, <3>4 DEF EntriesOf
  <2> QED BY <2>2, <2>3, <2>4 DEF Table
<1>4. /\ \A u \in Thread : u # t => loc'[u] = loc[u]
  BY OthersLocal DEF AllocateStep
<1>5. CASE k.op = "malloc"
  <2>1. owned' = owned \cup {k.new} /\ loc'[t] = Idle
    BY <1>1, <1>5 DEF Insert
  <2>2. EntriesOf(k) = {}
    BY <1>1, <1>5 DEF EntriesOf
  <2>3. \A e : Listed(t, e)' <=> Listed(t, e) \/ e = k.new
    BY <2>1, <2>2, IdleEntries DEF Listed
  <2> QED BY <1>1, <1>2, <1>3, <1>4, <2>3, TableAdd
<1>6. CASE k.op \in {"copy", "move"}
  <2>1. /\ owned' = owned /\ loc'[t].pc \in {"delete", "copy"} /\ loc'[t].op = k.op
        /\ loc'[t].old = k.old /\ loc'[t].new = k.new
    <3>1. owned' = owned /\ (Goto(t, "delete") \/ Goto(t, "copy"))
      BY <1>6 DEF Insert
    <3>2. ASSUME NEW pc \in {"delete", "copy"}, Goto(t, pc)
          PROVE  /\ loc'[t].pc = pc /\ loc'[t].op = k.op
                 /\ loc'[t].old = k.old /\ loc'[t].new = k.new
      BY <1>1, <3>2 DEF Goto, LocalTyped
    <3> QED BY <3>1, <3>2
  <2>2. EntriesOf(k) = {k.old} /\ EntriesOf(loc'[t]) = {k.old, k.new}
    BY <1>1, <1>2, <1>6, <2>1 DEF EntriesOf
  <2>3. \A e : Listed(t, e)' <=> Listed(t, e) \/ e = k.new
    BY <2>1, <2>2 DEF Listed
  <2> QED BY <1>1, <1>2, <1>3, <1>4, <2>3, TableAdd
<1> QED BY <1>2, <1>5, <1>6

\* The entry of the old allocation goes, and only that.
LEMMA DeleteTable ==
  ASSUME Space, Table, NEW t \in Thread, Delete(t) PROVE Table'
<1> DEFINE k == loc[t]
<1> USE DEF Mapping, Releasing, Waiting
<1>1. /\ Shape(k) /\ LocalTyped(k) /\ k.pc = "delete" /\ loc = [u \in Thread |-> loc[u]]
      /\ regions' = Without(k.old.p) /\ allocated' = allocated - k.old.size /\ owned' = owned
  BY DEF Delete, At, Space, Shape
<1>2. k.op \in {"copy", "move"} /\ k.old \in EntriesOf(k)
  BY <1>1 DEF Shape, ReallocShape, EntriesOf
<1>3. k.old \in regions /\ regions' = regions \ {k.old}
  BY <1>1, <1>2, WithoutOne DEF Table
<1>4. k.old.p \in Mine(k) /\ k.old.p \in Whole(k.old)
  BY <1>1, <1>2, EntryPage
<1>5. k.old \notin owned /\ \A u \in Thread : u # t => k.old \notin EntriesOf(loc[u])
  BY <1>4, EntryPage DEF Space, Apart
<1>6. /\ \A u \in Thread : u # t => loc'[u] = loc[u]
      /\ loc'[t].pc \in {"remap", "unmap", "purge"} /\ loc'[t].op = k.op
      /\ loc'[t].old = k.old /\ loc'[t].new = k.new
  BY <1>1, ReleaseAtType DEF Delete, LocalTyped
<1>7. k.new # Nothing => k.new # k.old
  BY <1>1, <1>4, TwoAllocations, FitsPages
<1>8. EntriesOf(loc'[t]) = EntriesOf(k) \ {k.old}
  BY <1>1, <1>2, <1>6, <1>7 DEF EntriesOf
<1>9. \A e : Listed(t, e)' <=> Listed(t, e) /\ e # k.old
  BY <1>1, <1>5, <1>8 DEF Listed
<1> QED BY <1>1, <1>3, <1>5, <1>6, <1>9, TableRemove

\* The entry that Resize finds again is that of the allocation it shrank: in its
\* place comes the allocation that the program gets back.
LEMMA ResizeTable ==
  ASSUME Space, Table, NEW t \in Thread, Resize(t) PROVE Table'
<1> DEFINE k == loc[t]
<1>1. /\ Shape(k) /\ k.pc = "resize" /\ loc = [u \in Thread |-> loc[u]] /\ loc'[t] = Idle
      /\ owned' = owned \cup {k.new} /\ allocated' = allocated - (k.old.size - k.new.size)
  BY DEF Resize, At, Space, GivenBack
<1>2. /\ k.op = "shrink" /\ Fits(k.old) /\ k.new = [k.old EXCEPT !.size = k.new.size]
      /\ k.new.size >= 1 /\ k.new.size < k.old.size /\ k.new.size \in Nat
  BY <1>1 DEF Shape, ReallocShape, LocalTyped, Rec
<1>3. EntriesOf(k) = {k.old}
  BY <1>2 DEF EntriesOf
<1>4. k.old \in regions /\ k.old.p \in Mine(k) /\ k.old.p \in Whole(k.old)
  BY <1>1, <1>3, EntryPage DEF Table
<1>5. regions' = (regions \ {k.old}) \cup {k.new}
  <2>1. PICK e \in regions :
          e.p = k.old.p /\ regions' = (regions \ {e}) \cup {[e EXCEPT !.size = k.new.size]}
    BY DEF Resize
  <2>2. e = k.old
    BY <1>4, <2>1, OneEntry
  <2> QED BY <1>2, <2>1, <2>2
<1>6. k.new.p = k.old.p /\ k.new # k.old
  BY <1>2 DEF Fits, Rec
<1>7. k.new \notin regions
  BY <1>4, <1>6, OneEntry
<1>8. k.old.size \in 1 .. Pages /\ k.new.size \in 1 .. Pages
  BY <1>2, FitsPages, LargeAllocAssumption DEF Region
<1>9. IsFiniteSet(regions \ {k.old}) /\ IsFiniteSet(regions')
  <2>1. IsFiniteSet(regions \ {k.old})
    BY FS_RemoveElement DEF Table
  <2> QED BY <1>5, <2>1, FS_AddElement
<1>10. allocated' = SumSizes(regions')
  <2>1. SumSizes(regions \ {k.old}) = allocated - k.old.size /\ allocated \in Nat
    BY <1>4, <1>8, SumRemove DEF Table
  <2>2. SumSizes(regions') = SumSizes(regions \ {k.old}) + k.new.size
    BY <1>5, <1>7, <1>8, <1>9, SumAdd
  <2> QED BY <1>1, <1>2, <1>8, <2>1, <2>2
<1>11. \A u \in Thread : u # t => loc'[u] = loc[u]
  BY OthersLocal DEF ReallocStep
<1>12. k.old \notin owned /\ \A u \in Thread : u # t => k.old \notin EntriesOf(loc[u])
  BY <1>4, EntryPage DEF Space, Apart
<1>13. \A e : e \in regions' <=> e \in owned' \/ \E u \in Thread : e \in EntriesOf(loc'[u])
  BY <1>1, <1>3, <1>5, <1>11, <1>12, IdleEntries DEF Table
<1> QED BY <1>9, <1>10, <1>13 DEF Table

\* Every step keeps the table.
LEMMA TableStep ==
  ASSUME NoTrimRace, Space, Table, [Next]_vars PROVE Table'
<1>1. CASE UNCHANGED vars
  BY <1>1 DEF vars, Table
<1>2. ASSUME NEW t \in Thread, Call(t) PROVE Table'
  BY <1>2, CallTable
<1>3. ASSUME NEW t \in Thread, Ends(t) PROVE Table'
  BY <1>3, EndsDropped, FinishTable DEF Ends, UnmapRelease, Evict, UnmapGuards
<1>4. ASSUME NEW t \in Thread, AllocateStep(t) PROVE Table'
  BY <1>4, InsideTable, FailsTable, InsertTable DEF AllocateStep, Fails, Inside
<1>5. ASSUME NEW t \in Thread, ReleaseStep(t) PROVE Table'
  BY <1>3, <1>5, InsideTable, EnqueueTable DEF ReleaseStep, Ends, Inside
<1>6. ASSUME NEW t \in Thread, ReallocStep(t) PROVE Table'
  BY <1>3, <1>6, InsideTable, FailsTable, DeleteTable, ResizeTable
     DEF ReallocStep, Ends, Inside, Fails
<1>7. ASSUME NEW r \in owned, Write(r) PROVE Table'
  BY <1>7 DEF Write, Table
<1> QED BY <1>1, <1>2, <1>4, <1>5, <1>6, <1>7 DEF Next

\* The table is empty at first.
LEMMA InitTable == Init => Table
<1> SUFFICES ASSUME Init PROVE Table
  OBVIOUS
<1>1. IsFiniteSet({}) /\ Cardinality({}) = 0
  BY FS_EmptySet
<1>2. SumSizes({}) = 0
  <2>1. {e \in {} \X (1 .. Pages) : e[2] <= e[1].size} = {}
    OBVIOUS
  <2> QED BY <1>1, <2>1 DEF SumSizes
<1>3. \A t \in Thread : EntriesOf(loc[t]) = {}
  BY IdleEntries DEF Init
<1> QED BY <1>1, <1>2, <1>3 DEF Init, Table

\* The table holds the program's allocations and the entries of the calls.
THEOREM TableInvariant == NoTrimRace => (Spec => [](Space /\ Table))
<1> SUFFICES ASSUME NoTrimRace PROVE Spec => [](Space /\ Table)
  OBVIOUS
<1>1. Init => Table
  BY InitTable
<1>2. Space /\ Table /\ [Next]_vars => Table'
  BY TableStep
<1>3. Spec => []Space
  BY SpaceInvariant
<1> QED BY <1>1, <1>2, <1>3, PTL DEF Spec

\* The entries of the calls are the table's entries in flight.
LEMMA InFlightEntries == \A e : e \in InFlight <=> \E t \in Thread : e \in EntriesOf(loc[t])
<1> DEFINE Moving(u) == \/ loc[u].op = "shrink"
                        \/ loc[u].op \in {"copy", "move"}
                           /\ loc[u].pc \in Mapping \cup {"map", "copy", "delete"}
<1> DEFINE Moved(u) == /\ loc[u].op \in {"copy", "move"} /\ loc[u].new # Nothing
                       /\ loc[u].pc \in Releasing \cup {"copy", "delete", "remap", "guards"}
<1>1. InFlight = {loc[t].old : t \in {u \in Thread : Moving(u)}}
                   \cup {loc[t].new : t \in {u \in Thread : Moved(u)}}
  BY DEF InFlight
<1>2. \A t \in Thread : \A e : e \in EntriesOf(loc[t])
                                   <=> (Moving(t) /\ e = loc[t].old) \/ (Moved(t) /\ e = loc[t].new)
  BY DEF EntriesOf
<1> HIDE DEF Moving, Moved
<1> QED BY <1>1, <1>2

\* The region table holds exactly what the program owns and what is inside a
\* realloc, at its present size, and ra->allocated is the sum of the sizes: free and
\* malloc_usable_size find every correct pointer and no stale one.
THEOREM LargeTableExact == NoTrimRace => (Spec => []TableExact)
<1>1. Table => TableExact
  <2> SUFFICES ASSUME Table PROVE TableExact
    OBVIOUS
  <2>1. regions = owned \cup InFlight
    BY InFlightEntries DEF Table
  <2> QED BY <2>1 DEF Table, TableExact
<1> QED BY <1>1, TableInvariant, PTL

\* Every variable keeps its type, ra->allocated above zero included: no statistics
\* update of a free or a realloc underflows.
THEOREM LargeTypeOK == NoTrimRace => (Spec => []TypeOK)
<1>1. Space /\ Table => TypeOK
  <2> SUFFICES ASSUME Space, Table PROVE TypeOK
    OBVIOUS
  <2>1. regions \subseteq Region /\ owned \subseteq Region
    BY EntrySizes, FitsPages DEF Space
  <2>2. allocated \in Nat
    BY SumType DEF Table
  <2>3. \A t \in Thread : loc[t].real \cup loc[t].victim \subseteq Page
    BY DEF Space, Shape, LocalTyped
  <2> QED BY <2>1, <2>2, <2>3 DEF TypeOK, Space, CellsTyped, Content
<1> QED BY <1>1, TableInvariant, PTL
=============================================================================

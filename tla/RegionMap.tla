----------------------------- MODULE RegionMap -----------------------------
(***************************************************************************)
(* What the region table promises the large allocator: a map from the      *)
(* address of a large allocation to the size stored with it.  A call takes *)
(* effect once between its start and its return.  Only an insertion may    *)
(* fail, and a failed one changes nothing.                                 *)
(***************************************************************************)
CONSTANTS Addr, Size, NULL, Calls, NoCall, Inserted, Full, Missing, Deleted, Resized

VARIABLES map,   \* the set of <<address, size>> pairs
          call,  \* the call in progress
          out    \* its result, NULL before it has taken effect

mapVars == <<map, call, out>>

MapInit == map = {} /\ call = NoCall /\ out = NULL

Begin(c) ==
  /\ call = NoCall
  /\ c.op = "insert" => \A e \in map : e[1] # c.p
  /\ call' = c
  /\ UNCHANGED <<map, out>>

Pending(op) == call # NoCall /\ call.op = op /\ out = NULL
At(p) == {e \in map : e[1] = p}

Insert ==
  /\ Pending("insert")
  /\ map' = map \cup {<<call.p, call.size>>} /\ out' = Inserted

InsertFails == Pending("insert") /\ map' = map /\ out' = Full

Delete ==
  /\ Pending("delete") /\ At(call.p) # {}
  /\ map' = map \ At(call.p) /\ out' = Deleted

Resize ==
  /\ Pending("resize") /\ At(call.p) # {}
  /\ map' = (map \ At(call.p)) \cup {<<call.p, call.size>>} /\ out' = Resized

Find == Pending("find") /\ map' = map /\ <<call.p, out'>> \in map

Miss ==
  /\ call # NoCall /\ call.op # "insert" /\ out = NULL /\ At(call.p) = {}
  /\ map' = map /\ out' = Missing

Return == call # NoCall /\ out # NULL /\ call' = NoCall /\ out' = NULL /\ map' = map

MapNext ==
  \/ \E c \in Calls : Begin(c)
  \/ (Insert \/ InsertFails \/ Delete \/ Resize \/ Find \/ Miss) /\ UNCHANGED call
  \/ Return

MapSpec == MapInit /\ [][MapNext]_mapVars
=============================================================================

------------------------------ MODULE SlotPool ------------------------------
(***************************************************************************)
(* What a size class promises the program: malloc hands out a slot that    *)
(* nobody owns and that is not withheld, free accepts only owned slots and *)
(* withholds the slot, and each free lets at most one slot be reused.      *)
(***************************************************************************)
EXTENDS FiniteSets

CONSTANT Slot

VARIABLES owned, withheld, alive

poolVars == <<owned, withheld, alive>>

PoolInit == owned = {} /\ withheld = {} /\ alive = TRUE

Malloc(p) ==
  /\ alive /\ p \notin owned \cup withheld
  /\ owned' = owned \cup {p}
  /\ UNCHANGED <<withheld, alive>>

Free(p) ==
  /\ alive /\ p \in owned
  /\ owned' = owned \ {p}
  /\ \/ withheld' = withheld \cup {p}
     \/ \E r \in withheld \cup {p} : withheld' = (withheld \cup {p}) \ {r}
  /\ UNCHANGED alive

\* The allocator detects misuse and aborts the process.
Abort == alive /\ alive' = FALSE /\ UNCHANGED <<owned, withheld>>

PoolNext == (\E p \in Slot : Malloc(p) \/ Free(p)) \/ Abort

PoolSpec == PoolInit /\ [][PoolNext]_poolVars
=============================================================================

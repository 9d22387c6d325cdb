---------------------------- MODULE MCLargeAlloc ----------------------------
(* Large allocations by interchangeable threads, for TLC. *)
EXTENDS LargeAlloc, TLC

ThreadSymmetry == Permutations(Thread)
=============================================================================

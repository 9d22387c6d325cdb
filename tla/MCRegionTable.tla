--------------------------- MODULE MCRegionTable ---------------------------
(* The region table with small arrays, for TLC. *)
EXTENDS RegionTable
=============================================================================

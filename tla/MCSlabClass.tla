---------------------------- MODULE MCSlabClass ----------------------------
(* Model-checking instances of SlabClass. *)
EXTENDS SlabClass
=============================================================================

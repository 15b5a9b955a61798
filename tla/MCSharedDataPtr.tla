--------------------------- MODULE MCSharedDataPtr ---------------------------
(* Small instances of SharedDataPtr for TLC. *)
EXTENDS SharedDataPtr, TLC

MCSymmetry == Permutations(Object) \cup Permutations(Value)
=============================================================================

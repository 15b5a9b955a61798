------------------------------ MODULE MCStorage ------------------------------
(* Small instances of Storage for TLC. *)
EXTENDS Storage, TLC

MCNoHash == 0
MCHash2 == 1..2
MCHash3 == 1..3
MCNoFaults == {}
MCSymmetry == Permutations(Db)
MCFaults == {"mismatch", "corrupt"}
=============================================================================

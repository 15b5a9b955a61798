----------------------------- MODULE MCChainScan -----------------------------
(* Small instances of ChainScan for TLC.  Hashes are numbers: the iterator   *)
(* visits them in increasing order, and prev ranges over every acyclic       *)
(* forest, so every key order of every shape of database is scanned.         *)
EXTENDS ChainScan

MCNoHash == 0
MCHash4 == 1..4
MCFaults == {"bad_key", "mismatch", "corrupt"}
=============================================================================

----------------------------- MODULE BlockStore -----------------------------
(***************************************************************************)
(* What csdb::Storage promises its clients (src/include/csdb/storage.h): a *)
(* set of blocks per database, and, while the storage is open on one, the  *)
(* number of its blocks and the hash of a last block.  open() is one step. *)
(***************************************************************************)
EXTENDS Blocks

CONSTANTS Db, NoDb

VARIABLES
  blocks,  \* the blocks in each database
  at,      \* the database the storage is open on, or NoDb
  tip,     \* last_hash()
  size     \* size()

vars == <<prev, blocks, at, tip, size>>

\* The last blocks an open() may report: a leaf with its chain down to the
\* first block; none when there is no first block; no answer when there are two.
Tips(S) ==
  IF FirstBlocks(S) = {} THEN {NoHash}
  ELSE IF \E g, h \in FirstBlocks(S) : g # h THEN {}
  ELSE {h \in S : IsLeaf(h, S) /\ ChainIn(h, S)}

Init ==
  /\ prev \in Forests
  /\ blocks = [d \in Db |-> {}]
  /\ at = NoDb /\ tip = NoHash /\ size = 0

Open(d) ==
  /\ at' = d
  /\ tip' \in Tips(blocks[d])
  /\ size' = Cardinality(blocks[d])
  /\ UNCHANGED <<prev, blocks>>

\* close(), or an open() that failed.
Close ==
  /\ at' = NoDb /\ tip' = NoHash /\ size' = 0
  /\ UNCHANGED <<prev, blocks>>

Save(h) ==
  /\ at # NoDb /\ h \notin blocks[at]
  /\ blocks' = [blocks EXCEPT ![at] = @ \cup {h}]
  /\ tip' = IF prev[h] = tip THEN h ELSE tip
  /\ size' = size + 1
  /\ UNCHANGED <<prev, at>>

\* The storage is closed and blocks may be missing afterwards.
Crash ==
  /\ at' = NoDb /\ tip' = NoHash /\ size' = 0
  /\ \A d \in Db : blocks'[d] \subseteq blocks[d]
  /\ DOMAIN blocks' = Db
  /\ UNCHANGED prev

Next ==
  \/ \E d \in Db : Open(d)
  \/ Close
  \/ \E h \in Hash : Save(h)
  \/ Crash

Spec == Init /\ [][Next]_vars
=============================================================================

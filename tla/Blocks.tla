------------------------------- MODULE Blocks -------------------------------
(* Pools as blocks (src/include/csdb/pool.h): a block is its hash, and what   *)
(* the hash commits to is abstracted to the hash of the previous block, prev. *)
EXTENDS Integers, FiniteSets

CONSTANTS
  Hash,     \* the hashes of pools
  NoHash    \* the empty PoolHash: the previous hash of a first block

ASSUME HashAssumption == Hash \subseteq Nat /\ IsFiniteSet(Hash)
ASSUME NoHashAssumption == NoHash \in Int \ Hash

VARIABLE prev   \* the previous_hash() every block commits to

HashOrNone == Hash \cup {NoHash}

\* A hash commits to the previous hash in the block it was computed from, so
\* no block is among its own ancestors.
Acyclic(f) == \A S \in SUBSET Hash : S # {} => \E h \in S : f[h] \notin S
Forests == {f \in [Hash -> HashOrNone] : Acyclic(f)}

-----------------------------------------------------------------------------
(* Words of the properties: the blocks of a set S of stored blocks. *)

\* The blocks that begin a chain.
FirstBlocks(S) == {b \in S : prev[b] = NoHash}

\* No block of S follows b.
IsLeaf(b, S) == b \in S /\ \A c \in S : prev[c] # b

\* x is h or one of its ancestors: it is in every set that holds h and, with
\* a block, the block before it.
OnChain(x, h) ==
  \A S \in SUBSET Hash :
    h \in S /\ (\A y \in S : prev[y] \in S \cup {NoHash}) => x \in S

\* All of h's ancestors are in S.
ChainIn(h, S) == \A x \in Hash : OnChain(x, h) => x \in S

\* One chain: no block without its previous one, no two blocks after one.
Linear(S) ==
  /\ \A b \in S : prev[b] \in S \cup {NoHash}
  /\ \A b, c \in S : prev[b] = prev[c] => b = c

\* h is in S and every block of S is h or below it.
EndOf(h, S) == h \in S /\ \A b \in S : OnChain(b, h)
=============================================================================

------------------------------ MODULE ChainScan ------------------------------
(***************************************************************************)
(* Storage::priv::rescan (src/src/storage.cpp): the integrity scan that    *)
(* every Storage::open runs over the key-value database.  It walks the     *)
(* entries in key order, folds every block into two maps of partial chains *)
(* (update_heads_and_tails), and finally decides from the map of heads     *)
(* whether there is at most one complete chain and which block is its last.*)
(*                                                                         *)
(* Hashes are numbers, so that the iterator's key order is <.              *)
(***************************************************************************)
EXTENDS Blocks

CONSTANTS
  Faults,   \* the ways in which an entry of the database may be damaged
  IteratorMayFail \* may the iterator turn invalid before the last entry?

ASSUME FaultsAssumption == Faults \subseteq {"bad_key", "mismatch", "corrupt"}
ASSUME IteratorAssumption == IteratorMayFail \in BOOLEAN

(* What rescan finds under a key: a decodable pool whose hash is the key,  *)
(* or an entry that one of its three checks refuses.                       *)
Kind == {"pool"} \cup Faults
Contents == UNION {[S -> Kind] : S \in SUBSET Hash}

VARIABLES
  snapshot,   \* the entries the database iterator runs over
  todo,       \* the keys the iterator has not reached
  heads,      \* heads_t: last block of a partial chain -> [len, next]
  tails,      \* tails_t: missing block -> head of the chain that needs it
  lastHash,   \* Storage::priv::last_hash
  countPool,  \* Storage::priv::count_pool
  lastError,  \* Storage::priv::last_error_
  phase       \* where rescan stands

scanVars == <<snapshot, todo, heads, tails>>
vars == <<prev, snapshot, todo, heads, tails, lastHash, countPool, lastError, phase>>

(* std::map as a partial function. *)
EmptyMap == [k \in {} |-> NoHash]
Assign(m, k, v) == [x \in DOMAIN m \cup {k} |-> IF x = k THEN v ELSE m[x]]
Emplace(m, k, v) == IF k \in DOMAIN m THEN m ELSE Assign(m, k, v)
Erase(m, k) == [x \in DOMAIN m \ {k} |-> m[x]]

(* heads[h] in C++ inserts a default element when there is none. *)
HeadInfo(hs, h) == IF h \in DOMAIN hs THEN hs[h] ELSE [len |-> 0, next |-> NoHash]

-----------------------------------------------------------------------------
(* The four branches of update_heads_and_tails, for block cur whose         *)
(* previous block is p.                                                     *)

\* Mutant: the missing block below keeps naming the vanished head.
Glue_StaleTail(cur, p) ==
  LET t == tails[cur]
      joined == [len |-> heads[t].len + 1 + heads[p].len, next |-> heads[p].next]
  IN  /\ heads' = Erase(Assign(heads, t, joined), p)
      /\ tails' = Erase(tails, cur)

\* Склеиваем: cur joins the chain that ends in p with the one that needs cur.
Glue(cur, p) ==
  LET t == tails[cur]
      below == heads[p].next
      joined == [len |-> HeadInfo(heads, t).len + 1 + heads[p].len, next |-> below]
  IN  /\ heads' = Erase(Assign(heads, t, joined), p)
      /\ tails' = Erase(IF below # NoHash THEN Assign(tails, below, t) ELSE tails, cur)

\* cur becomes the new head of the chain that ends in p.
PutOnTop(cur, p) ==
  LET below == heads[p].next
  IN  /\ heads' = Erase(Emplace(heads, cur, [len |-> heads[p].len + 1, next |-> below]), p)
      /\ tails' = IF below # NoHash THEN Assign(tails, below, cur) ELSE tails

\* Mutant: next_ is not moved down.
PutBelow_KeepsNext(cur, p) ==
  LET t == tails[cur]
  IN  /\ heads' = Assign(heads, t, [heads[t] EXCEPT !.len = @ + 1])
      /\ tails' = Erase(IF p # NoHash THEN Emplace(tails, p, t) ELSE tails, cur)

\* cur is the block a chain was waiting for; the chain now waits for p.
PutBelow(cur, p) ==
  LET t == tails[cur]
      longer == [len |-> HeadInfo(heads, t).len + 1, next |-> p]
  IN  /\ heads' = Assign(heads, t, longer)
      /\ tails' = Erase(IF p # NoHash THEN Emplace(tails, p, t) ELSE tails, cur)

\* cur touches no chain seen so far.
PutApart(cur, p) ==
  /\ heads' = Emplace(heads, cur, [len |-> 1, next |-> p])
  /\ tails' = IF p # NoHash THEN Emplace(tails, p, cur) ELSE tails

UpdateHeadsAndTails(cur, p) ==
  \/ p \in DOMAIN heads    /\ cur \in DOMAIN tails    /\ Glue(cur, p)
  \/ p \in DOMAIN heads    /\ cur \notin DOMAIN tails /\ PutOnTop(cur, p)
  \/ p \notin DOMAIN heads /\ cur \in DOMAIN tails    /\ PutBelow(cur, p)
  \/ p \notin DOMAIN heads /\ cur \notin DOMAIN tails /\ PutApart(cur, p)

-----------------------------------------------------------------------------
(* rescan, one entry at a time. *)

\* Mutants: a reopened handle keeps its count, or its last hash.
ScanStart_KeepsCount(entries) ==
  /\ lastHash' = NoHash /\ UNCHANGED countPool
  /\ heads' = EmptyMap /\ tails' = EmptyMap
  /\ snapshot' = entries /\ todo' = DOMAIN entries /\ phase' = "scan"

ScanStart_KeepsTip(entries) ==
  /\ countPool' = 0 /\ UNCHANGED lastHash
  /\ heads' = EmptyMap /\ tails' = EmptyMap
  /\ snapshot' = entries /\ todo' = DOMAIN entries /\ phase' = "scan"

\* The beginning of rescan: the members are reset, the iterator is created.
ScanStart(entries) ==
  /\ lastHash' = NoHash
  /\ countPool' = 0
  /\ heads' = EmptyMap
  /\ tails' = EmptyMap
  /\ snapshot' = entries
  /\ todo' = DOMAIN entries
  /\ phase' = "scan"

\* The entry the iterator stands on: the least key not yet visited.
AtKey(k) == k \in todo /\ \A j \in todo : k <= j

\* The key is no hash, is not the hash of the value, or the value is no pool.
ScanBadEntry ==
  /\ phase = "scan"
  /\ \E k \in todo : AtKey(k) /\ snapshot[k] # "pool"
  /\ lastError' = "DataIntegrityError"
  /\ phase' = "failed"
  /\ UNCHANGED <<snapshot, todo, heads, tails, lastHash, countPool>>

\* Mutant: the hash of the value is not compared with the key.
ScanEntry_TrustsKey ==
  /\ phase = "scan"
  /\ \E k \in todo : /\ AtKey(k)
                     /\ snapshot[k] \in {"pool", "mismatch"}
                     /\ UpdateHeadsAndTails(k, prev[k])
                     /\ todo' = todo \ {k}
  /\ countPool' = countPool + 1
  /\ phase' = "callback"
  /\ UNCHANGED <<snapshot, lastHash, lastError>>

\* A sound block is folded into the maps and counted; then comes the callback.
ScanEntry ==
  /\ phase = "scan"
  /\ \E k \in todo : /\ AtKey(k)
                     /\ snapshot[k] = "pool"
                     /\ UpdateHeadsAndTails(k, prev[k])
                     /\ todo' = todo \ {k}
  /\ countPool' = countPool + 1
  /\ phase' = "callback"
  /\ UNCHANGED <<snapshot, lastHash, lastError>>

\* No callback was given, or it returned false.
ScanContinue ==
  /\ phase = "callback"
  /\ phase' = "scan"
  /\ UNCHANGED <<snapshot, todo, heads, tails, lastHash, countPool, lastError>>

\* The callback returned true.
ScanCancel ==
  /\ phase = "callback"
  /\ lastError' = "UserCancelled"
  /\ phase' = "failed"
  /\ UNCHANGED <<snapshot, todo, heads, tails, lastHash, countPool>>

\* Mutant: the loop expects an entry.
AtEnd_NotEmpty == (todo = {} \/ IteratorMayFail) /\ snapshot # EmptyMap

\* it->is_valid() is false: after the last entry, but also when the read of
\* the next one failed, for the loop asks the iterator for no status.
AtEnd == todo = {} \/ IteratorMayFail

\* Mutant: orphan chains are not skipped.
CompleteChains_All == DOMAIN heads

\* The chains that reach a first block.
CompleteChains == {h \in DOMAIN heads : heads[h].next = NoHash}

\* Mutant: the loop stops at the first complete chain.
Judge_TakesFirst(ok) ==
  /\ ok = TRUE
  /\ IF CompleteChains = {} THEN UNCHANGED lastHash
     ELSE lastHash' \in CompleteChains /\ \A h \in CompleteChains : lastHash' <= h

\* The final loop over heads: it takes the first complete chain in key order
\* and refuses when last_hash is already set.
Judge(ok) ==
  /\ ok = \/ CompleteChains = {}
          \/ lastHash = NoHash /\ \A g, h \in CompleteChains : g = h
  /\ IF CompleteChains = {} \/ lastHash # NoHash
       THEN UNCHANGED lastHash
       ELSE /\ lastHash' \in CompleteChains
            /\ \A h \in CompleteChains : lastHash' <= h

ScanAccept ==
  /\ phase = "scan" /\ AtEnd
  /\ Judge(TRUE)
  /\ lastError' = "NoError"
  /\ phase' = "done"
  /\ UNCHANGED <<snapshot, todo, heads, tails, countPool>>

ScanChainError ==
  /\ phase = "scan" /\ AtEnd
  /\ Judge(FALSE)
  /\ lastError' = "ChainError"
  /\ phase' = "failed"
  /\ UNCHANGED <<snapshot, todo, heads, tails, countPool>>

-----------------------------------------------------------------------------
(* One scan of an arbitrary database. *)

ScanInit ==
  /\ prev \in Forests
  /\ snapshot \in Contents
  /\ todo = DOMAIN snapshot
  /\ heads = EmptyMap
  /\ tails = EmptyMap
  /\ lastHash = NoHash
  /\ countPool = 0
  /\ lastError = "NoError"
  /\ phase = "scan"

ScanStep ==
  \/ ScanBadEntry
  \/ ScanEntry
  \/ ScanContinue
  \/ ScanCancel
  \/ ScanAccept
  \/ ScanChainError

ScanNext == ScanStep /\ UNCHANGED prev

ScanSpec == ScanInit /\ [][ScanNext]_vars
-----------------------------------------------------------------------------
(* What the scan promises. *)

Seen == DOMAIN snapshot \ todo
Stored == DOMAIN snapshot

TypeOK ==
  /\ prev \in Forests
  /\ snapshot \in Contents
  /\ todo \subseteq DOMAIN snapshot
  /\ DOMAIN heads \subseteq Hash
  /\ \A h \in DOMAIN heads : heads[h] \in [len : Nat, next : HashOrNone]
  /\ DOMAIN tails \subseteq Hash
  /\ \A x \in DOMAIN tails : tails[x] \in Hash
  /\ lastHash \in HashOrNone
  /\ countPool \in Nat
  /\ lastError \in {"NoError", "DataIntegrityError", "UserCancelled", "ChainError"}
  /\ phase \in {"scan", "callback", "done", "failed"}

(* The asserts of update_heads_and_tails (storage.cpp:43,62,67,81): a tail   *)
(* always names a living head, and the very one that waits for it; a block   *)
(* about to be scanned is no head yet.  Glueing and overwriting tails in any *)
(* key order, over forks and orphans, must not leave a dangling name.        *)
TailsNameHeads ==
  /\ \A x \in DOMAIN tails : /\ tails[x] \in DOMAIN heads
                             /\ heads[tails[x]].next = x
  /\ DOMAIN heads \cap todo = {}

(* Whatever the key order, heads_t holds exactly the blocks seen so far that *)
(* no seen block follows: the partial chains are cut nowhere else.           *)
HeadsAreLeaves == DOMAIN heads = {b \in Seen : IsLeaf(b, Seen)}

(* The partial chains never share a block and lose none.  own gives every    *)
(* seen block the head of its chain; within a chain every block's previous   *)
(* block is in the chain or is the block the chain waits for; some block of  *)
(* the chain is the one that waits; and no chain has two first blocks.       *)
OwnedBy(own) ==
  /\ \A h \in DOMAIN heads : own[h] = h
  /\ \A b \in Seen : \/ prev[b] \in Seen /\ own[prev[b]] = own[b]
                     \/ prev[b] = heads[own[b]].next
  /\ \A h \in DOMAIN heads :
       \E b \in Seen : own[b] = h /\ prev[b] = heads[h].next
  /\ \A b, c \in FirstBlocks(Seen) : own[b] = own[c] => b = c

ChainsPartition == \E own \in [Seen -> DOMAIN heads] : OwnedBy(own)

(* The verdict of rescan (storage.cpp:190-219): it accepts exactly when what *)
(* it read holds at most one first block; orphan chains do not matter.       *)
ScanVerdict ==
  /\ phase = "done" => \A g, h \in FirstBlocks(Seen) : g = h
  /\ lastError = "ChainError" => \E g, h \in FirstBlocks(Seen) : g # h

(* last_hash after an accepting scan: empty only if there is no first block; *)
(* otherwise a block that nothing follows and all of whose ancestors, down   *)
(* to the first block, are in the database.                                  *)
TipEndsCompleteChain ==
  phase = "done" =>
    /\ lastHash = NoHash <=> FirstBlocks(Seen) = {}
    /\ lastHash # NoHash => IsLeaf(lastHash, Seen) /\ ChainIn(lastHash, Seen)

(* When the blocks form one linear chain the tip does not depend on the      *)
(* order of the keys: it is the block all the others lead to.                *)
LinearChainTip ==
  phase = "done" /\ Seen # {} /\ Linear(Seen) => EndOf(lastHash, Seen)

(* size() after an accepting scan is the number of blocks in the database.   *)
CountIsSize == phase = "done" /\ todo = {} => countPool = Cardinality(Stored)

(* A DataIntegrityError is never raised over a sound database, and a         *)
(* damaged entry is never passed over by a scan that reads to the end.       *)
IntegrityVerdict ==
  /\ lastError = "DataIntegrityError" => \E k \in Stored : snapshot[k] # "pool"
  /\ phase = "done" /\ todo = {} => \A k \in Stored : snapshot[k] = "pool"

=============================================================================

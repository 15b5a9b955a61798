------------------------------ MODULE ChainQuery ------------------------------
(***************************************************************************)
(* The queries of Storage that walk the chain backwards from last_hash():  *)
(* transactions(addr, limit, offset), read by a client page after page     *)
(* while blocks are saved between the pages, get_last_by_source,           *)
(* get_last_by_target (src/src/storage.cpp:440-551, pool.cpp:260-304), and *)
(* Wallet::get (src/src/wallet.cpp).  Every pool_load of a walk is a step. *)
(* Amounts are integers here: module Calculation is about the class.       *)
(***************************************************************************)
EXTENDS Blocks, SequencesExt

CONSTANTS
  Address,  \* the addresses asked about
  Tx,       \* transactions: records of source, target, currency, amount and
            \* ok (is_valid())
  MaxTx,    \* bound on the transactions of a block
  Limit     \* the page sizes a client asks for

ASSUME QueryAssumption ==
  /\ \A t \in Tx : t.ok \in BOOLEAN /\ t.amount \in Int
  /\ MaxTx \in Nat /\ Limit \subseteq Nat \ {0}

VARIABLES
  txs,      \* the transactions of every block, counted from 1
  stored,   \* the blocks the database holds
  last,     \* last_hash
  pc,       \* "idle", "walk", "find", "done"; "last", "found"; "sum", "paid"
  addr, limit, side,     \* the arguments of the call; 0 and "" when it has none
  cur, idx, \* where the walk stands: curPool and curIdx + 1
  next,     \* the block the walk loads next
  taken,    \* res.size() of the call
  res,      \* what the pages of the session returned, in order
  amounts,  \* Wallet: an amount per currency that was met
  tip, had, \* ghosts: last_hash and stored when the session began,
  from      \* ... and its first offset

chain == <<prev, txs, stored, last>>
call == <<addr, limit, side, tip, had, from>>
walk == <<cur, idx, next, taken, res, amounts>>
vars == <<chain, pc, call, walk>>

NoId == <<NoHash, 0>>
Ids == {<<b, i>> : b \in Hash, i \in 1 .. MaxTx}
TxOf(id) == txs[id[1]][id[2]]
NoAmounts == [c \in {} |-> 0]

Init ==
  /\ prev \in Forests
  /\ txs \in [Hash -> UNION {[1 .. n -> Tx] : n \in 0 .. MaxTx}]
  /\ stored = {} /\ last = NoHash
  /\ pc = "idle"
  /\ addr \in Address /\ limit = 0 /\ side = ""
  /\ cur = NoHash /\ idx = 0 /\ next = NoHash /\ taken = 0 /\ res = <<>> /\ amounts = NoAmounts
  /\ tip = NoHash /\ had = {} /\ from = NoId

Between == pc \in {"idle", "done", "found", "paid"}

\* pool_save of a new block, between two queries.
Store(b) ==
  /\ Between
  /\ b \notin stored
  /\ stored' = stored \cup {b}
  /\ last' = IF last = prev[b] THEN b ELSE last
  /\ UNCHANGED <<prev, txs, pc, call, walk>>

-----------------------------------------------------------------------------
(* transactions(addr, limit, offset). *)

\* Mutant: seekIt finds the block of the offset and not the place in it.
Seek_Block(off) ==
  /\ taken' = 0 /\ pc' = "find"
  /\ next' = IF off = NoId THEN last ELSE off[1]
  /\ UNCHANGED <<cur, idx>>

\* seekIt, or the first nextIt.
Seek(off) ==
  /\ taken' = 0
  /\ IF off = NoId
       THEN pc' = "find" /\ next' = last /\ cur' = NoHash /\ idx' = 0
       ELSE /\ next' = NoHash
            /\ IF off[1] \in stored /\ off[2] <= Len(txs[off[1]])
                 THEN pc' = "walk" /\ cur' = off[1] /\ idx' = off[2]
                 ELSE pc' = "done" /\ cur' = NoHash /\ idx' = 0

Ask(a, n, off) ==
  /\ Between
  /\ addr' = a /\ limit' = n /\ side' = ""
  /\ tip' = last /\ had' = stored /\ from' = off /\ res' = <<>> /\ amounts' = NoAmounts
  /\ Seek(off)
  /\ UNCHANGED chain

\* The next page begins after the last transaction of a full one.
More ==
  /\ pc = "done" /\ taken = limit
  /\ Seek(res[Len(res)])
  /\ UNCHANGED <<chain, call, res, amounts>>

Wants(t, a) == t.source = a \/ t.target = a

\* The body of the loop, and its test.
Visit(b, i) ==
  /\ cur' = b /\ idx' = i
  /\ IF Wants(TxOf(<<b, i>>), addr)
       THEN /\ res' = Append(res, <<b, i>>) /\ taken' = taken + 1
            /\ pc' = IF taken + 1 = limit THEN "done" ELSE "walk"
       ELSE UNCHANGED <<res, taken>> /\ pc' = "walk"

\* nextIt inside a block.
Earlier ==
  /\ pc = "walk" /\ idx > 1
  /\ Visit(cur, idx - 1)
  /\ UNCHANGED <<chain, call, next, amounts>>

\* nextIt at the first transaction of a block.
Leave ==
  /\ pc = "walk" /\ idx = 1
  /\ pc' = "find" /\ next' = prev[cur]
  /\ UNCHANGED <<chain, call, cur, idx, taken, res, amounts>>

\* Mutant: a block without transactions ends the walk.
Find_StopsAtEmpty ==
  /\ pc = "find"
  /\ IF next \in stored /\ txs[next] # <<>>
       THEN Visit(next, Len(txs[next])) /\ UNCHANGED <<next, amounts>>
       ELSE pc' = "done" /\ UNCHANGED walk
  /\ UNCHANGED <<chain, call>>

\* Mutant: a block without transactions is loaded again.
Find_Reloads ==
  /\ pc = "find"
  /\ CASE next \notin stored -> pc' = "done" /\ UNCHANGED walk
       [] next \in stored /\ txs[next] = <<>> -> UNCHANGED <<pc, walk>>
       [] OTHER -> Visit(next, Len(txs[next])) /\ UNCHANGED <<next, amounts>>
  /\ UNCHANGED <<chain, call>>

\* pool_load in nextIt, over blocks without transactions.
Find ==
  /\ pc = "find"
  /\ CASE next \notin stored -> pc' = "done" /\ UNCHANGED walk
       [] next \in stored /\ txs[next] = <<>> ->
            next' = prev[next] /\ UNCHANGED <<pc, cur, idx, taken, res, amounts>>
       [] OTHER -> Visit(next, Len(txs[next])) /\ UNCHANGED <<next, amounts>>
  /\ UNCHANGED <<chain, call>>

-----------------------------------------------------------------------------
(* get_last_by_source, get_last_by_target. *)

AskLast(a, s) ==
  /\ Between
  /\ pc' = "last" /\ next' = last
  /\ addr' = a /\ tip' = last /\ had' = stored /\ side' = s /\ limit' = 0 /\ from' = NoId
  /\ cur' = NoHash /\ idx' = 0 /\ taken' = 0 /\ res' = <<>> /\ amounts' = NoAmounts
  /\ UNCHANGED chain

Side(t) == IF side = "source" THEN t.source ELSE t.target

\* Mutant: the block is searched from its beginning.
LastIn_First(b) ==
  LET found == {i \in DOMAIN txs[b] : Side(txs[b][i]) = addr}
  IN  IF found = {} THEN 0 ELSE Min(found)

\* Pool::get_last_by_source, get_last_by_target: the place, or 0.
LastIn(b) ==
  LET found == {i \in DOMAIN txs[b] : Side(txs[b][i]) = addr}
  IN  IF found = {} THEN 0 ELSE Max(found)

FindLast ==
  /\ pc = "last"
  /\ \/ /\ next \notin stored
        /\ pc' = "found" /\ UNCHANGED walk
     \/ /\ next \in stored
        /\ LET i == LastIn(next)
           IN  IF i # 0 /\ txs[next][i].ok
                 THEN pc' = "found" /\ res' = <<<<next, i>>>> /\ UNCHANGED <<cur, idx, next, taken, amounts>>
                 ELSE next' = prev[next] /\ UNCHANGED <<pc, cur, idx, taken, res, amounts>>
  /\ UNCHANGED <<chain, call>>

-----------------------------------------------------------------------------
(* Wallet::get(addr, storage). *)

\* Mutant: what the address spends is forgotten.
Posted_Incoming(sums, t) ==
  IF t.target = addr
    THEN [c \in DOMAIN sums \cup {t.currency} |->
            (IF c \in DOMAIN sums THEN sums[c] ELSE 0) + (IF c = t.currency THEN t.amount ELSE 0)]
    ELSE sums

\* The body of the inner loop.  operator [] makes an amount of zero.
Posted(sums, t) ==
  LET paid == IF t.source = addr THEN -t.amount ELSE 0
      received == IF t.target = addr THEN t.amount ELSE 0
  IN  IF addr \notin {t.source, t.target} THEN sums
      ELSE [c \in DOMAIN sums \cup {t.currency} |->
              (IF c \in DOMAIN sums THEN sums[c] ELSE 0)
                + (IF c = t.currency THEN paid + received ELSE 0)]

\* Of an open storage; Storage::wallet asks so for the default storage.
AskWallet(a) ==
  /\ Between
  /\ pc' = "sum" /\ next' = last
  /\ addr' = a /\ tip' = last /\ had' = stored /\ side' = "" /\ limit' = 0 /\ from' = NoId
  /\ cur' = NoHash /\ idx' = 0 /\ taken' = 0 /\ res' = <<>> /\ amounts' = NoAmounts
  /\ UNCHANGED chain

\* One block, or the end of the chain: a block that cannot be loaded.
SumBlock ==
  /\ pc = "sum"
  /\ IF next \notin stored THEN pc' = "paid" /\ UNCHANGED walk
     ELSE /\ amounts' = FoldLeft(Posted, amounts, txs[next])
          /\ next' = prev[next]
          /\ UNCHANGED <<pc, cur, idx, taken, res>>
  /\ UNCHANGED <<chain, call>>

\* Wallet::currencies and Wallet::amount.
Currencies == DOMAIN amounts
AmountIn(c) == IF c \in DOMAIN amounts THEN amounts[c] ELSE 0

-----------------------------------------------------------------------------
Next ==
  \/ \E b \in Hash : Store(b)
  \/ \E a \in Address, n \in Limit, off \in Ids \cup {NoId} : Ask(a, n, off)
  \/ More \/ Earlier \/ Leave \/ Find
  \/ \E a \in Address, s \in {"source", "target"} : AskLast(a, s)
  \/ FindLast
  \/ \E a \in Address : AskWallet(a)
  \/ SumBlock

Spec == Init /\ [][Next]_vars

Walking == Earlier \/ Leave \/ Find \/ FindLast \/ SumBlock
FairSpec == Spec /\ WF_vars(Walking)

-----------------------------------------------------------------------------
(* Words of the properties. *)

Exists(id) == id[1] \in stored /\ id[2] \in DOMAIN txs[id[1]]

\* id was written before other: in an earlier block of its chain, or earlier
\* in the same block.
Before(id, other) ==
  \/ id[1] = other[1] /\ id[2] < other[2]
  \/ id[1] # other[1] /\ OnChain(id[1], other[1])

\* What a session is to return: all that concerns addr in the chain of the
\* last hash, or before its offset.
Wanted ==
  {id \in Ids : /\ Exists(id) /\ addr \in {TxOf(id).source, TxOf(id).target}
                /\ IF from = NoId THEN tip # NoHash /\ OnChain(id[1], tip)
                   ELSE from[1] \in had /\ Exists(from) /\ Before(id, from)}

\* The valid transactions of the chain of last_hash with source or target a.
NewestOf(a) ==
  {id \in Ids : tip # NoHash /\ Exists(id) /\ OnChain(id[1], tip) /\ TxOf(id).ok /\ Side(TxOf(id)) = a}

\* What the chain of last_hash moved to addr, less what it moved away.
Balance ==
  LET concerns == {id \in Ids : /\ tip # NoHash /\ Exists(id) /\ OnChain(id[1], tip)
                                /\ addr \in {TxOf(id).source, TxOf(id).target}}
      moved(c, ids) == MapThenSumSet(LAMBDA id : TxOf(id).amount, {id \in ids : TxOf(id).currency = c})
  IN  [c \in {TxOf(id).currency : id \in concerns} |->
         moved(c, {id \in concerns : TxOf(id).target = addr})
           - moved(c, {id \in concerns : TxOf(id).source = addr})]

\* No block was missing below the offset.
Whole == from = NoId \/ from[1] \notin had \/ ChainIn(from[1], had)

(* Properties. *)

(* The pages run from newer to older transactions and repeat none, also when *)
(* blocks are saved between the pages (storage.cpp:448-506).                 *)
PagesDescend == \A i, j \in DOMAIN res : i < j => Before(res[j], res[i])

(* When a page comes back short, the pages together are everything the       *)
(* session was to return and nothing else (storage.cpp:440-509).             *)
PagesComplete ==
  pc = "done" /\ taken < limit /\ Whole => {res[i] : i \in DOMAIN res} = Wanted

(* get_last_by_source and get_last_by_target return the newest transaction   *)
(* of the chain with that source or target (storage.h:200-214).              *)
LastIsNewest ==
  pc = "found" => IF res = <<>> THEN NewestOf(addr) = {}
                  ELSE /\ res[1] \in NewestOf(addr)
                       /\ \A id \in NewestOf(addr) \ {res[1]} : Before(id, res[1])

(* A wallet answers, per currency, what the address has after the chain of   *)
(* the last hash, whatever lies beside that chain (wallet.cpp:34-76).        *)
WalletIsBalance ==
  pc = "paid" => /\ Currencies = DOMAIN Balance
                 /\ \A c \in {t.currency : t \in Tx} : AmountIn(c) = IF c \in DOMAIN Balance THEN Balance[c] ELSE 0

(* Every query returns.                                                      *)
QueriesReturn ==
  /\ pc \in {"walk", "find"} ~> pc = "done"
  /\ pc = "last" ~> pc = "found"
  /\ pc = "sum" ~> pc = "paid"
=============================================================================

--------------------------- MODULE ChainQuery_proof ---------------------------
(***************************************************************************)
(* Proofs about the queries of module ChainQuery: for every set of blocks, *)
(* every forest of them, every limit and whatever is saved between two     *)
(* pages.  The invariant says of a walk in the middle that what it returned*)
(* lies after the place where it stands, and that what it has still to     *)
(* return lies before it; of a wallet in the middle, that its amounts are  *)
(* the sums over the transactions of the blocks it passed.                 *)
(***************************************************************************)
EXTENDS ChainQuery, Induction_proof, FiniteSetTheorems, SequenceTheorems, TLAPS

-----------------------------------------------------------------------------
(* Chains: being an ancestor is an order on the blocks of a forest.         *)

LEMMA PrevIs ==
  ASSUME prev \in Forests, NEW b \in Hash
  PROVE  prev[b] \in HashOrNone /\ prev[b] # b
<1>1. prev[b] \in HashOrNone
  BY DEF Forests
<1>2. {b} \in SUBSET Hash /\ {b} # {}
  OBVIOUS
<1>3. \E h \in {b} : prev[h] \notin {b}
  BY <1>2, Zenon DEF Forests, Acyclic
<1> QED  BY <1>1, <1>3

LEMMA ChainIsHere ==
  ASSUME prev \in Forests, NEW h \in Hash, NEW x, OnChain(x, h)
  PROVE  x \in Hash
<1>1. \A y \in Hash : prev[y] \in Hash \cup {NoHash}
  BY DEF Forests, HashOrNone
<1> QED  BY <1>1 DEF OnChain

LEMMA ChainOfItself ==
  ASSUME NEW h \in Hash
  PROVE  OnChain(h, h)
BY DEF OnChain

LEMMA ChainTransitive ==
  ASSUME NEW x, NEW y, NEW h, OnChain(x, y), OnChain(y, h)
  PROVE  OnChain(x, h)
BY DEF OnChain

LEMMA ChainOfPrev ==
  ASSUME NEW h \in Hash, prev[h] \in Hash
  PROVE  OnChain(prev[h], h)
BY NoHashAssumption DEF OnChain

\* What is on the chain of a block is that block or on the chain before it.
LEMMA ChainSplits ==
  ASSUME prev \in Forests, NEW h \in Hash, NEW x, OnChain(x, h), x # h
  PROVE  prev[h] \in Hash /\ OnChain(x, prev[h])
<1>1. prev[h] \in HashOrNone
  BY PrevIs
<1>2. CASE prev[h] = NoHash
  <2>1. {h} \in SUBSET Hash /\ h \in {h} /\ \A y \in {h} : prev[y] \in {h} \cup {NoHash}
    BY <1>2
  <2>2. x \in {h}
    BY <2>1, Zenon DEF OnChain
  <2> QED  BY <2>2
<1>3. CASE prev[h] \in Hash
  <2> SUFFICES ASSUME NEW S \in SUBSET Hash, prev[h] \in S,
                      \A y \in S : prev[y] \in S \cup {NoHash}
               PROVE  x \in S
    BY <1>3 DEF OnChain
  <2> DEFINE T == S \cup {h}
  <2>1. T \in SUBSET Hash /\ h \in T /\ \A y \in T : prev[y] \in T \cup {NoHash}
    OBVIOUS
  <2>2. x \in T
    BY <2>1, Zenon DEF OnChain
  <2> QED  BY <2>2
<1> QED  BY <1>1, <1>2, <1>3 DEF HashOrNone

\* Two blocks on each other's chains are one: no block is its own ancestor.
LEMMA ChainAntisymmetric ==
  ASSUME prev \in Forests, NEW x \in Hash, NEW y \in Hash, OnChain(x, y), OnChain(y, x)
  PROVE  x = y
<1> SUFFICES ASSUME x # y PROVE FALSE
  OBVIOUS
<1> DEFINE S == {z \in Hash : OnChain(z, x) /\ OnChain(x, z)}
<1>1. S \in SUBSET Hash /\ x \in S /\ y \in S
  BY ChainOfItself
<1>2. PICK h \in S : prev[h] \notin S
  BY <1>1, Zenon DEF Forests, Acyclic
<1>3. h \in Hash /\ OnChain(h, x) /\ OnChain(x, h)
  BY <1>2
<1>4. PICK z \in {x, y} : z # h /\ OnChain(z, x) /\ OnChain(x, z) /\ z \in Hash
  BY <1>1
<1>5. OnChain(z, h)
  BY <1>3, <1>4, ChainTransitive
<1>6. prev[h] \in Hash /\ OnChain(z, prev[h])
  BY <1>3, <1>4, <1>5, ChainSplits
<1>7. OnChain(prev[h], h)
  BY <1>3, <1>6, ChainOfPrev
<1>8. OnChain(prev[h], x) /\ OnChain(x, prev[h])
  BY <1>3, <1>4, <1>6, <1>7, ChainTransitive
<1> QED  BY <1>2, <1>6, <1>8

\* The block before one on a chain is on it too, and is not its end.
LEMMA ChainBelow ==
  ASSUME prev \in Forests, NEW h \in Hash, NEW x, OnChain(x, h), prev[x] # NoHash
  PROVE  x \in Hash /\ prev[x] \in Hash /\ OnChain(prev[x], h) /\ prev[x] # h
<1>1. x \in Hash /\ prev[x] \in Hash /\ prev[x] # x
  BY ChainIsHere, PrevIs DEF HashOrNone
<1>2. OnChain(prev[x], x)
  BY <1>1, ChainOfPrev
<1>3. OnChain(prev[x], h)
  BY <1>2, ChainTransitive
<1> QED  BY <1>1, <1>2, <1>3, ChainAntisymmetric

-----------------------------------------------------------------------------
(* The greatest of some places in a block. *)

\* Otherwise the numbers up to one of them would go on for ever, and adding
\* one would map finitely many numbers one to one to fewer.
LEMMA HasGreatest ==
  ASSUME NEW n \in Nat, NEW T \in SUBSET (1 .. n), T # {}
  PROVE  Max(T) \in T /\ \A i \in T : i <= Max(T)
<1>1. \E i \in T : \A j \in T : i >= j
  <2> SUFFICES ASSUME \A i \in T : \E j \in T : i < j PROVE FALSE
    OBVIOUS
  <2> DEFINE D == {i \in 1 .. n : \E j \in T : i <= j}
             f == [i \in D |-> i + 1]
  <2>1. 1 \in D
    <3>1. PICK i \in T : i \in 1 .. n
      OBVIOUS
    <3> QED  BY <3>1
  <2>2. f \in [D -> D \ {1}]
    <3> SUFFICES ASSUME NEW i \in D PROVE i + 1 \in D \ {1}
      OBVIOUS
    <3>1. PICK j \in T : i <= j
      OBVIOUS
    <3>2. PICK k \in T : j < k
      OBVIOUS
    <3> QED  BY <3>1, <3>2
  <2>3. IsFiniteSet(1 .. n)
    BY FS_Interval
  <2>4. IsFiniteSet(D)
    BY <2>3, FS_Subset
  <2> HIDE DEF D
  <2>5. /\ IsFiniteSet(D \ {1})
        /\ Cardinality(D \ {1}) = Cardinality(D) - 1
        /\ Cardinality(D) \in Nat
    BY <2>1, <2>4, FS_RemoveElement, FS_CardinalityType
  <2>6. Cardinality(D \ {1}) < Cardinality(D)
    BY <2>5
  <2> HIDE DEF f
  <2>7. \E x, y \in D : x # y /\ f[x] = f[y]
    BY <2>2, <2>4, <2>5, <2>6, FS_PigeonHole
  <2> QED  BY <2>7 DEF f, D
<1>2. \E i \in T : \A j \in T : i >= j
  BY <1>1
<1>3. Max(T) \in T /\ \A j \in T : Max(T) >= j
  BY <1>2, Zenon DEF Max
<1> QED  BY <1>3

-----------------------------------------------------------------------------
(* The inductive invariant. *)

Paging == {"walk", "find", "done"}

QueryTypes ==
  /\ prev \in Forests
  /\ txs \in [Hash -> Seq(Tx)] /\ \A b \in Hash : Len(txs[b]) <= MaxTx
  /\ stored \in SUBSET Hash /\ had \subseteq stored
  /\ last \in stored \cup {NoHash} /\ tip \in had \cup {NoHash}
  /\ pc \in Paging \cup {"idle", "last", "found", "sum", "paid"}
  /\ limit \in Nat /\ taken \in Nat /\ idx \in Nat
  /\ cur \in HashOrNone /\ next \in HashOrNone
  /\ from \in Ids \cup {NoId}
  /\ res \in Seq(Ids) /\ \A j \in DOMAIN res : Exists(res[j])

\* The chain that ends at last_hash is stored.
TipsKept ==
  /\ last # NoHash => ChainIn(last, stored)
  /\ tip # NoHash => ChainIn(tip, had)

\* What the pages of a session may return, whatever else is saved meanwhile.
InSpan(id) ==
  IF from = NoId THEN tip # NoHash /\ OnChain(id[1], tip) ELSE Before(id, from)
BlockInSpan(b) ==
  IF from = NoId THEN tip # NoHash /\ OnChain(b, tip) ELSE b # from[1] /\ OnChain(b, from[1])
Due == {id \in Ids : id[2] \in DOMAIN txs[id[1]] /\ Wants(TxOf(id), addr) /\ InSpan(id)}

\* The session has somewhere to begin.
Started == from = NoId \/ (from[1] \in had /\ from[2] \in DOMAIN txs[from[1]])

Returned(r, id) == \E j \in DOMAIN r : r[j] = id

\* At a transaction of a block: it was looked at, and nothing before it was.
WalkAt(b, i, r) ==
  /\ b \in stored /\ i \in DOMAIN txs[b]
  /\ <<b, i>> = from \/ InSpan(<<b, i>>)
  /\ \A j \in DOMAIN r : r[j] = <<b, i>> \/ Before(<<b, i>>, r[j])
  /\ \A id \in Due : Returned(r, id) \/ Before(id, <<b, i>>)

\* About to load a block: nothing in it or before it was looked at.
FindAt(b, r) ==
  /\ b # NoHash =>
       /\ BlockInSpan(b)
       /\ \A j \in DOMAIN r : b # r[j][1] /\ OnChain(b, r[j][1])
  /\ \A id \in Due : Returned(r, id) \/ (b # NoHash /\ OnChain(id[1], b))

\* After a page: a full one ends where the next begins, a short one is the last.
DoneAt(n, r) ==
  /\ n = limit => \A id \in Due : Returned(r, id) \/ Before(id, r[Len(r)])
  /\ n < limit /\ Whole => \A id \in Due : Returned(r, id)

PagesKept ==
  pc \in Paging =>
    /\ taken <= Len(res) /\ taken <= limit /\ limit # 0
    /\ \A j \in DOMAIN res : res[j] \in Due
    /\ IF Started THEN /\ pc # "done" => taken < limit
                       /\ pc = "walk" => WalkAt(cur, idx, res)
                       /\ pc = "find" => FindAt(next, res)
                       /\ pc = "done" => DoneAt(taken, res)
                  ELSE pc = "done" /\ taken = 0 /\ res = <<>>

\* The other queries return one transaction, or amounts.
Newest ==
  {id \in Ids : /\ id[2] \in DOMAIN txs[id[1]] /\ TxOf(id).ok /\ Side(TxOf(id)) = addr
                /\ tip # NoHash /\ OnChain(id[1], tip)}

LastKept ==
  /\ pc \in {"idle", "last", "sum", "paid"} => res = <<>>
  /\ pc = "last" =>
       /\ next # NoHash => tip # NoHash /\ OnChain(next, tip)
       /\ \A id \in Newest : next # NoHash /\ OnChain(id[1], next)
  /\ pc = "found" =>
       IF res = <<>> THEN Newest = {}
       ELSE /\ Len(res) = 1 /\ res[1] \in Newest
            /\ \A id \in Newest \ {res[1]} : Before(id, res[1])

\* LastKept is kept where add_transaction lets no invalid transaction into a
\* block; the rest everywhere.
QueryKept == QueryTypes /\ TipsKept /\ PagesDescend /\ PagesKept

-----------------------------------------------------------------------------
(* What the invariant says of identifiers and of blocks. *)

LEMMA IdParts ==
  /\ \A id \in Ids : id = <<id[1], id[2]>> /\ id[1] \in Hash /\ id[2] \in 1 .. MaxTx /\ id # NoId
  /\ \A b \in Hash, i \in 1 .. MaxTx : <<b, i>> \in Ids
  /\ NoId[1] = NoHash
BY NoHashAssumption DEF Ids, NoId

LEMMA PlaceIsId ==
  ASSUME QueryTypes, NEW b \in Hash, NEW i \in DOMAIN txs[b]
  PROVE  <<b, i>> \in Ids /\ i \in 1 .. Len(txs[b]) /\ Len(txs[b]) \in Nat
<1>1. txs[b] \in Seq(Tx) /\ Len(txs[b]) <= MaxTx
  BY DEF QueryTypes
<1>2. i \in 1 .. Len(txs[b]) /\ Len(txs[b]) \in Nat
  BY <1>1, LenProperties
<1>3. i \in 1 .. MaxTx
  BY <1>1, <1>2, QueryAssumption DEF QueryAssumption
<1> QED  BY <1>2, <1>3, IdParts

\* The chain that a walk goes down is stored, unless a block was missing below
\* the offset.
LEMMA SpanIsStored ==
  ASSUME QueryTypes, TipsKept, Started, Whole, NEW b, BlockInSpan(b)
  PROVE  b \in had
<1>1. CASE from = NoId
  <2>1. tip \in Hash /\ ChainIn(tip, had) /\ OnChain(b, tip)
    BY <1>1 DEF BlockInSpan, TipsKept, QueryTypes
  <2> QED  BY <2>1, ChainIsHere DEF ChainIn, QueryTypes
<1>2. CASE from # NoId
  <2>1. from[1] \in Hash /\ ChainIn(from[1], had) /\ OnChain(b, from[1])
    BY <1>2, IdParts DEF BlockInSpan, QueryTypes, Started, Whole
  <2> QED  BY <2>1, ChainIsHere DEF ChainIn, QueryTypes
<1> QED  BY <1>1, <1>2

\* ... and so is every block that the session is to return something of.
LEMMA DueIsStored ==
  ASSUME QueryTypes, TipsKept, Started, Whole, NEW id \in Due
  PROVE  Exists(id)
<1>1. id \in Ids /\ id[1] \in Hash /\ id[2] \in DOMAIN txs[id[1]] /\ InSpan(id)
  BY IdParts DEF Due
<1>2. CASE from = NoId
  <2>1. id[1] \in had
    BY <1>1, <1>2, SpanIsStored DEF InSpan, BlockInSpan
  <2> QED  BY <1>1, <2>1 DEF QueryTypes, Exists
<1>3. CASE from # NoId
  <2>1. id[1] = from[1] \/ (id[1] # from[1] /\ OnChain(id[1], from[1]))
    BY <1>1, <1>3 DEF InSpan, Before
  <2>2. id[1] \in had
    BY <1>3, <2>1, SpanIsStored DEF BlockInSpan, Started
  <2> QED  BY <1>1, <2>2 DEF QueryTypes, Exists
<1> QED  BY <1>2, <1>3

\* Blocks before one of the span are in the span, and before everything that
\* that one is before.
LEMMA SpanBelow ==
  ASSUME QueryTypes, NEW b \in Hash, InSpan(<<b, 1>>) \/ BlockInSpan(b) \/ b = from[1],
         prev[b] # NoHash
  PROVE  BlockInSpan(prev[b])
<1>1. CASE from = NoId
  <2>1. b # NoHash
    BY NoHashAssumption
  <2>2. tip # NoHash /\ OnChain(b, tip)
    BY <1>1, <2>1, IdParts DEF InSpan, BlockInSpan
  <2>3. tip \in Hash
    BY <2>2 DEF QueryTypes
  <2> QED  BY <1>1, <2>2, <2>3, ChainBelow DEF BlockInSpan, QueryTypes
<1>2. CASE from # NoId
  <2>1. from[1] \in Hash
    BY <1>2, IdParts DEF QueryTypes
  <2>2. OnChain(b, from[1])
    BY <1>2, <2>1, ChainOfItself DEF InSpan, BlockInSpan, Before
  <2> QED  BY <1>2, <2>1, <2>2, ChainBelow DEF BlockInSpan, QueryTypes
<1> QED  BY <1>1, <1>2

-----------------------------------------------------------------------------
(* The steps of a walk. *)

\* A step of a walk changes neither the blocks nor the call: what it says of the
\* new place can be said with the operators of before.
LEMMA WalkStep ==
  ASSUME QueryKept, UNCHANGED <<chain, call>>, Started,
         pc' \in Paging, taken' \in Nat, idx' \in Nat, cur' \in HashOrNone, next' \in HashOrNone,
         res' \in Seq(Ids), \A j \in DOMAIN res' : res'[j] \in Due /\ Exists(res'[j]),
         \A i, j \in DOMAIN res' : i < j => Before(res'[j], res'[i]),
         taken' <= Len(res'), taken' <= limit, limit # 0,
         pc' # "done" => taken' < limit,
         pc' = "walk" => WalkAt(cur', idx', res'),
         pc' = "find" => FindAt(next', res'),
         pc' = "done" => DoneAt(taken', res')
  PROVE  QueryKept' /\ LastKept'
<1>1. /\ prev' = prev /\ txs' = txs /\ stored' = stored /\ last' = last /\ addr' = addr
      /\ limit' = limit /\ tip' = tip /\ had' = had /\ from' = from
  BY DEF chain, call
<1>2. QueryTypes' /\ TipsKept'
  BY <1>1 DEF QueryKept, QueryTypes, TipsKept, ChainIn, OnChain, Exists
<1>3. PagesDescend'
  BY <1>1 DEF PagesDescend, Before, OnChain
<1>4. Due' = Due /\ Started'
  BY <1>1 DEF Due, Wants, TxOf, InSpan, Before, OnChain, Started
<1>5. ASSUME pc' = "walk" PROVE WalkAt(cur, idx, res)'
  <2>1. WalkAt(cur', idx', res')
    BY <1>5
  <2> QED  BY <1>1, <1>4, <2>1 DEF WalkAt, InSpan, Before, OnChain, Returned
<1>6. ASSUME pc' = "find" PROVE FindAt(next, res)'
  <2>1. FindAt(next', res')
    BY <1>6
  <2> QED  BY <1>1, <1>4, <2>1 DEF FindAt, BlockInSpan, OnChain, Returned
<1>7. ASSUME pc' = "done" PROVE DoneAt(taken, res)'
  <2>1. DoneAt(taken', res')
    BY <1>7
  <2> QED  BY <1>1, <1>4, <2>1 DEF DoneAt, Before, OnChain, Returned, Whole, ChainIn
<1>8. PagesKept'
  BY <1>1, <1>4, <1>5, <1>6, <1>7 DEF PagesKept
<1>9. LastKept'
  BY DEF LastKept, Paging
<1> QED  BY <1>2, <1>3, <1>8, <1>9 DEF QueryKept

\* The next place that is visited: all that is due and was not returned is there
\* or before it.
LEMMA VisitKeeps ==
  ASSUME QueryKept, UNCHANGED <<chain, call, next>>, pc \in {"walk", "find"},
         NEW b \in stored, NEW i \in DOMAIN txs[b], Visit(b, i), InSpan(<<b, i>>),
         \A j \in DOMAIN res : Before(<<b, i>>, res[j]),
         \A id \in Due : Returned(res, id) \/ id = <<b, i>> \/ Before(id, <<b, i>>)
  PROVE  QueryKept' /\ LastKept'
<1> DEFINE p == <<b, i>>
<1>1. /\ Started /\ taken < limit /\ taken <= Len(res) /\ limit \in Nat /\ limit # 0 /\ taken \in Nat
      /\ \A j \in DOMAIN res : res[j] \in Due /\ Exists(res[j])
      /\ res \in Seq(Ids) /\ Len(res) \in Nat /\ DOMAIN res = 1 .. Len(res)
  BY LenProperties DEF QueryKept, QueryTypes, PagesKept, Paging
<1>2. b \in Hash /\ p \in Ids /\ i \in Nat /\ Exists(p)
  BY PlaceIsId DEF QueryKept, QueryTypes, Exists
<1>3. cur' = b /\ idx' = i /\ next' \in HashOrNone /\ cur' \in HashOrNone
  BY <1>2 DEF Visit, QueryKept, QueryTypes, HashOrNone
<1>4. CASE Wants(TxOf(p), addr)
  <2>1. /\ res' = Append(res, p) /\ taken' = taken + 1
        /\ pc' = IF taken + 1 = limit THEN "done" ELSE "walk"
    BY <1>4 DEF Visit
  <2>2. p \in Due
    BY <1>2, <1>4 DEF Due
  <2>3. /\ \A j \in DOMAIN res : Before(p, res[j])
        /\ \A id \in Due : Returned(res, id) \/ id = p \/ Before(id, p)
    OBVIOUS
  <2> HIDE DEF p
  <2>4. /\ res' \in Seq(Ids) /\ Len(res') = Len(res) + 1 /\ DOMAIN res' = 1 .. Len(res) + 1
        /\ res'[Len(res')] = p /\ \A j \in DOMAIN res : res'[j] = res[j]
    BY <1>1, <1>2, <2>1, AppendProperties, LenProperties
  <2>5. /\ Len(res') \in DOMAIN res'
        /\ \A k \in DOMAIN res' : k = Len(res') \/ (k \in DOMAIN res /\ k < Len(res') /\ k \in Nat)
        /\ \A k \in DOMAIN res : k \in DOMAIN res'
    BY <1>1, <2>4
  <2>6. \A j \in DOMAIN res' : res'[j] \in Due /\ Exists(res'[j])
    BY <1>1, <1>2, <2>2, <2>4, <2>5
  <2>7. \A k, j \in DOMAIN res' : k < j => Before(res'[j], res'[k])
    <3> SUFFICES ASSUME NEW k \in DOMAIN res', NEW j \in DOMAIN res', k < j
                 PROVE  Before(res'[j], res'[k])
      OBVIOUS
    <3>1. k \in DOMAIN res
      BY <1>1, <2>4, <2>5
    <3>2. CASE j = Len(res')
      BY <2>3, <2>4, <3>1, <3>2
    <3>3. CASE j \in DOMAIN res
      BY <2>4, <3>1, <3>3 DEF QueryKept, PagesDescend
    <3> QED  BY <2>5, <3>2, <3>3
  <2>8. ASSUME NEW id \in Due PROVE Returned(res', id) \/ Before(id, p)
    <3>1. CASE Returned(res, id)
      BY <2>4, <2>5, <3>1 DEF Returned
    <3>2. CASE id = p
      BY <2>4, <2>5, <3>2 DEF Returned
    <3> QED  BY <2>3, <3>1, <3>2
  <2>9. WalkAt(b, i, res')
    <3>1. \A j \in DOMAIN res' : res'[j] = p \/ Before(p, res'[j])
      BY <2>3, <2>4, <2>5
    <3> QED  BY <2>8, <3>1 DEF WalkAt, p
  <2>10. taken' = limit => DoneAt(taken', res')
    BY <1>1, <2>4, <2>8 DEF DoneAt
  <2>11. taken' <= Len(res') /\ taken' <= limit /\ taken' \in Nat
    BY <1>1, <2>1, <2>4
  <2> QED
    BY <1>1, <1>2, <1>3, <2>1, <2>4, <2>6, <2>7, <2>9, <2>10, <2>11, WalkStep DEF Paging
<1>5. CASE ~Wants(TxOf(p), addr)
  <2>1. UNCHANGED <<res, taken>> /\ pc' = "walk"
    BY <1>5 DEF Visit
  <2>2. p \notin Due
    BY <1>5 DEF Due
  <2>3. WalkAt(b, i, res)
    BY <2>2 DEF WalkAt
  <2> QED
    BY <1>1, <1>2, <1>3, <2>1, <2>3, WalkStep DEF Paging, QueryKept, PagesDescend
<1> QED  BY <1>4, <1>5

LEMMA EarlierKeeps ==
  ASSUME QueryKept, Earlier
  PROVE  QueryKept' /\ LastKept'
<1>1. /\ Started /\ WalkAt(cur, idx, res) /\ idx > 1 /\ idx \in Nat /\ cur \in Hash
      /\ QueryTypes
  BY DEF Earlier, QueryKept, PagesKept, Paging, WalkAt, QueryTypes
<1> DEFINE p == <<cur, idx - 1>>
<1>2. cur \in stored /\ idx - 1 \in DOMAIN txs[cur] /\ p # <<cur, idx>>
  <2>1. idx \in DOMAIN txs[cur] /\ DOMAIN txs[cur] = 1 .. Len(txs[cur])
    BY <1>1, LenProperties DEF WalkAt, QueryTypes
  <2> QED  BY <1>1, <2>1 DEF WalkAt
<1>3. \A id \in Ids : Before(<<cur, idx>>, id) => Before(p, id)
  <2> SUFFICES ASSUME NEW id \in Ids, Before(<<cur, idx>>, id) PROVE Before(p, id)
    OBVIOUS
  <2>0. id[2] \in Int
    BY IdParts
  <2>1. CASE cur # id[1]
    BY <2>1 DEF Before
  <2>2. CASE cur = id[1] /\ idx < id[2]
    BY <1>1, <2>0, <2>2 DEF Before
  <2> QED  BY <2>1, <2>2 DEF Before
<1>4. InSpan(p)
  <2>1. CASE from = NoId
    BY <1>1, <2>1, NoHashAssumption DEF WalkAt, InSpan, NoId
  <2>2. CASE from # NoId /\ <<cur, idx>> = from
    BY <1>1, <2>2 DEF InSpan, Before
  <2>3. CASE from # NoId /\ InSpan(<<cur, idx>>)
    BY <1>1, <1>3, <2>3 DEF InSpan, QueryTypes
  <2> QED  BY <1>1, <2>1, <2>2, <2>3 DEF WalkAt
<1>5. ASSUME NEW j \in DOMAIN res PROVE Before(p, res[j])
  <2>1. CASE res[j] = <<cur, idx>>
    BY <1>1, <2>1 DEF Before
  <2>2. CASE Before(<<cur, idx>>, res[j])
    BY <1>1, <1>3, <2>2 DEF QueryKept, PagesKept, Due, Earlier, Paging
  <2> QED  BY <1>1, <2>1, <2>2 DEF WalkAt
<1>6. ASSUME NEW id \in Due PROVE Returned(res, id) \/ id = p \/ Before(id, p)
  <2>1. id = <<id[1], id[2]>> /\ id[2] \in Int
    BY IdParts DEF Due
  <2>2. CASE Before(id, <<cur, idx>>) /\ id[1] # cur
    BY <2>2 DEF Before
  <2>3. CASE Before(id, <<cur, idx>>) /\ id[1] = cur
    BY <1>1, <2>1, <2>3 DEF Before
  <2> QED  BY <1>1, <2>2, <2>3 DEF WalkAt
<1> HIDE DEF p
<1>7. Visit(cur, idx - 1) /\ UNCHANGED <<chain, call, next>> /\ pc = "walk"
  BY DEF Earlier
<1> QED  BY <1>2, <1>4, <1>5, <1>6, <1>7, VisitKeeps DEF p

\* What is due and on the chain of a block without a place for it is before it.
LEMMA DueBelow ==
  ASSUME QueryTypes, NEW b \in Hash, NEW id \in Due, OnChain(id[1], b), id[1] # b
  PROVE  prev[b] # NoHash /\ OnChain(id[1], prev[b])
BY ChainSplits, NoHashAssumption DEF QueryTypes

LEMMA LeaveKeeps ==
  ASSUME QueryKept, Leave
  PROVE  QueryKept' /\ LastKept'
<1>1. /\ Started /\ WalkAt(cur, idx, res) /\ idx = 1 /\ cur \in Hash
      /\ QueryTypes /\ prev[cur] \in HashOrNone
      /\ taken < limit /\ taken <= Len(res) /\ limit # 0
      /\ \A j \in DOMAIN res : res[j] \in Due /\ Exists(res[j])
  BY PrevIs DEF Leave, QueryKept, PagesKept, Paging, WalkAt, QueryTypes
<1>2. /\ pc' = "find" /\ next' = prev[cur] /\ UNCHANGED <<chain, call, cur, idx, taken, res>>
  BY DEF Leave
<1>3. FindAt(prev[cur], res)
  <2>1. ASSUME prev[cur] # NoHash PROVE BlockInSpan(prev[cur])
    <3>1. InSpan(<<cur, 1>>) \/ cur = from[1]
      BY <1>1 DEF WalkAt
    <3> QED  BY <1>1, <2>1, <3>1, SpanBelow
  <2>2. ASSUME prev[cur] # NoHash, NEW j \in DOMAIN res
        PROVE  prev[cur] # res[j][1] /\ OnChain(prev[cur], res[j][1])
    <3>1. res[j][1] \in Hash
      BY <1>1, IdParts DEF Due
    <3>2. OnChain(cur, res[j][1])
      BY <1>1, <3>1, ChainOfItself DEF WalkAt, Before
    <3> QED  BY <1>1, <2>2, <3>1, <3>2, ChainBelow DEF QueryTypes
  <2>3. ASSUME NEW id \in Due
        PROVE  Returned(res, id) \/ (prev[cur] # NoHash /\ OnChain(id[1], prev[cur]))
    <3>1. CASE Before(id, <<cur, idx>>)
      <4>1. id[2] \in 1 .. MaxTx
        BY IdParts DEF Due
      <4>2. id[1] # cur /\ OnChain(id[1], cur)
        BY <1>1, <3>1, <4>1, QueryAssumption DEF Before, QueryAssumption
      <4> QED  BY <1>1, <4>2, DueBelow
    <3> QED  BY <1>1, <3>1 DEF WalkAt
  <2> QED  BY <2>1, <2>2, <2>3 DEF FindAt
<1> QED
  BY <1>1, <1>2, <1>3, WalkStep DEF Paging, QueryKept, QueryTypes, PagesDescend, PagesKept

LEMMA FindKeeps ==
  ASSUME QueryKept, Find
  PROVE  QueryKept' /\ LastKept'
<1>1. /\ pc = "find" /\ Started /\ FindAt(next, res) /\ QueryTypes /\ TipsKept
      /\ taken < limit /\ taken <= Len(res) /\ limit # 0 /\ taken \in Nat /\ limit \in Nat
      /\ \A j \in DOMAIN res : res[j] \in Due /\ Exists(res[j])
  BY DEF Find, QueryKept, PagesKept, Paging, QueryTypes
<1>2. UNCHANGED <<chain, call>>
  BY DEF Find
<1>3. CASE next \notin stored
  <2>1. pc' = "done" /\ UNCHANGED walk
    BY <1>3 DEF Find
  <2>2. DoneAt(taken, res)
    <3>1. ASSUME Whole, NEW id \in Due PROVE Returned(res, id)
      <4>1. next = NoHash
        BY <1>1, <1>3, <3>1, SpanIsStored DEF FindAt, QueryTypes
      <4> QED  BY <1>1, <4>1 DEF FindAt
    <3> QED  BY <1>1, <3>1 DEF DoneAt
  <2> QED
    BY <1>1, <1>2, <2>1, <2>2, WalkStep DEF walk, Paging, QueryKept, QueryTypes, PagesDescend
<1>4. CASE next \in stored /\ txs[next] = <<>>
  <2>1. next' = prev[next] /\ UNCHANGED <<pc, cur, idx, taken, res>>
    BY <1>4 DEF Find
  <2>2. next \in Hash /\ next # NoHash /\ prev[next] \in HashOrNone
    BY <1>1, <1>4, NoHashAssumption, PrevIs DEF QueryTypes
  <2>3. FindAt(prev[next], res)
    <3>1. ASSUME prev[next] # NoHash PROVE BlockInSpan(prev[next])
      BY <1>1, <2>2, <3>1, SpanBelow DEF FindAt
    <3>2. ASSUME prev[next] # NoHash, NEW j \in DOMAIN res
          PROVE  prev[next] # res[j][1] /\ OnChain(prev[next], res[j][1])
      <4>1. res[j][1] \in Hash /\ OnChain(next, res[j][1])
        BY <1>1, <2>2, IdParts DEF Due, FindAt
      <4> QED  BY <1>1, <3>2, <4>1, ChainBelow DEF QueryTypes
    <3>3. ASSUME NEW id \in Due
          PROVE  Returned(res, id) \/ (prev[next] # NoHash /\ OnChain(id[1], prev[next]))
      <4>1. id[1] # next
        <5> SUFFICES ASSUME id[1] = next PROVE FALSE
          OBVIOUS
        <5>1. id[2] \in 1 .. Len(txs[next]) /\ Len(txs[next]) = 0
          BY <1>4, <2>2, PlaceIsId, EmptySeq, <1>1 DEF Due
        <5> QED  BY <5>1
      <4> QED  BY <1>1, <2>2, <4>1, DueBelow DEF FindAt
    <3> QED  BY <3>1, <3>2, <3>3 DEF FindAt
  <2> QED
    BY <1>1, <1>2, <2>1, <2>2, <2>3, WalkStep DEF Paging, QueryKept, QueryTypes, PagesDescend
<1>5. CASE next \in stored /\ txs[next] # <<>>
  <2> DEFINE n == Len(txs[next])   p == <<next, n>>
  <2>1. Visit(next, n) /\ UNCHANGED next
    BY <1>5 DEF Find
  <2>2. next \in Hash /\ next # NoHash
    BY <1>1, <1>5, NoHashAssumption DEF QueryTypes
  <2>3. n \in Nat \ {0} /\ DOMAIN txs[next] = 1 .. n
    BY <1>1, <1>5, <2>2, EmptySeq, LenProperties DEF QueryTypes
  <2>4. n \in DOMAIN txs[next]
    BY <2>3
  <2> HIDE DEF n
  <2>5. InSpan(p)
    BY <1>1, <2>2 DEF FindAt, BlockInSpan, InSpan, Before
  <2>6. \A j \in DOMAIN res : Before(p, res[j])
    BY <1>1, <2>2 DEF FindAt, Before
  <2>7. ASSUME NEW id \in Due PROVE Returned(res, id) \/ id = p \/ Before(id, p)
    <3>1. id = <<id[1], id[2]>> /\ id[2] \in DOMAIN txs[id[1]]
      BY IdParts DEF Due
    <3>2. CASE id[1] = next
      BY <2>3, <3>1, <3>2 DEF Before
    <3>3. CASE id[1] # next
      BY <1>1, <3>3 DEF FindAt, Before
    <3> QED  BY <3>2, <3>3
  <2> QED  BY <1>1, <1>2, <1>5, <2>1, <2>4, <2>5, <2>6, <2>7, VisitKeeps
<1> QED  BY <1>3, <1>4, <1>5

\* The next page goes on where a full one ended.
LEMMA MoreKeeps ==
  ASSUME QueryKept, More
  PROVE  QueryKept' /\ LastKept'
<1> DEFINE off == res[Len(res)]
<1>1. /\ pc = "done" /\ taken = limit /\ Started /\ DoneAt(taken, res) /\ QueryTypes
      /\ taken <= Len(res) /\ limit # 0 /\ limit \in Nat /\ taken \in Nat
      /\ res \in Seq(Ids) /\ \A j \in DOMAIN res : res[j] \in Due /\ Exists(res[j])
  BY DEF More, QueryKept, PagesKept, Paging, QueryTypes
<1>2. Len(res) \in Nat /\ DOMAIN res = 1 .. Len(res) /\ Len(res) \in DOMAIN res
  BY <1>1, LenProperties
<1>3. /\ off \in Due /\ off \in Ids /\ off # NoId /\ off = <<off[1], off[2]>>
      /\ off[1] \in stored /\ off[2] \in DOMAIN txs[off[1]]
  BY <1>1, <1>2, IdParts DEF Due, Exists
<1>4. /\ off[1] \in Hash /\ off[1] \in HashOrNone /\ off[2] \in Nat /\ off[2] <= Len(txs[off[1]])
  BY <1>1, <1>3, PlaceIsId DEF QueryTypes, HashOrNone
<1>5. /\ pc' = "walk" /\ cur' = off[1] /\ idx' = off[2] /\ next' = NoHash /\ taken' = 0
      /\ UNCHANGED <<chain, call, res>>
  <2>1. Seek(off) /\ UNCHANGED <<chain, call, res, amounts>>
    BY DEF More
  <2> HIDE DEF off
  <2> QED  BY <1>3, <1>4, <2>1 DEF Seek
<1>6. WalkAt(off[1], off[2], res)
  <2>1. ASSUME NEW j \in DOMAIN res PROVE res[j] = off \/ Before(off, res[j])
    <3>1. CASE j = Len(res)
      BY <3>1
    <3>2. CASE j # Len(res)
      BY <1>2, <3>2 DEF QueryKept, PagesDescend
    <3> QED  BY <3>1, <3>2
  <2>2. InSpan(off)
    BY <1>3 DEF Due
  <2>3. \A id \in Due : Returned(res, id) \/ Before(id, off)
    BY <1>1 DEF DoneAt
  <2> HIDE DEF off
  <2> QED  BY <1>3, <2>1, <2>2, <2>3 DEF WalkAt
<1>7. NoHash \in HashOrNone /\ taken' <= Len(res) /\ taken' < limit
  BY <1>1, <1>2, <1>5 DEF HashOrNone
<1> HIDE DEF off
<1>8. \A i, j \in DOMAIN res' : i < j => Before(res'[j], res'[i])
  BY <1>5 DEF QueryKept, PagesDescend
<1> QED  BY <1>1, <1>4, <1>5, <1>6, <1>7, <1>8, WalkStep DEF Paging

-----------------------------------------------------------------------------
(* Calls. *)

\* Every call looks at what is stored when it begins, and has returned nothing.
LEMMA CallTypes ==
  ASSUME QueryKept, UNCHANGED chain, tip' = last, had' = stored, res' = <<>>,
         pc' \in Paging \cup {"last", "sum"}, limit' \in Nat, taken' \in Nat, idx' \in Nat,
         cur' \in HashOrNone, next' \in HashOrNone, from' \in Ids \cup {NoId}
  PROVE  QueryTypes' /\ TipsKept' /\ PagesDescend'
<1>1. <<>> \in Seq(Ids) /\ DOMAIN <<>> = {}
  BY EmptySeq
<1>2. QueryTypes'
  BY <1>1 DEF QueryKept, QueryTypes, chain
<1>3. TipsKept' /\ PagesDescend'
  BY <1>1 DEF QueryKept, TipsKept, PagesDescend, chain, ChainIn, OnChain
<1> QED  BY <1>2, <1>3

LEMMA AskKeeps ==
  ASSUME QueryKept, NEW a \in Address, NEW n \in Limit, NEW off \in Ids \cup {NoId}, Ask(a, n, off)
  PROVE  QueryKept' /\ LastKept'
<1>1. /\ addr' = a /\ limit' = n /\ tip' = last /\ had' = stored /\ from' = off /\ res' = <<>>
      /\ taken' = 0 /\ UNCHANGED chain /\ QueryTypes
  BY DEF Ask, Seek, QueryKept
<1>2. n \in Nat \ {0} /\ Len(<<>>) = 0 /\ DOMAIN <<>> = {} /\ NoHash \in HashOrNone
  BY QueryAssumption, EmptySeq DEF QueryAssumption, HashOrNone
<1>3. CASE off = NoId
  <2>1. pc' = "find" /\ next' = last /\ cur' = NoHash /\ idx' = 0
    BY <1>3 DEF Ask, Seek
  <2>2. last \in HashOrNone
    BY <1>1 DEF QueryTypes, HashOrNone
  <2>3. QueryTypes' /\ TipsKept' /\ PagesDescend'
    BY <1>1, <1>2, <2>1, <2>2, CallTypes DEF Paging
  <2>4. Started' /\ FindAt(next, res)'
    <3>1. from' = NoId /\ next' = tip' /\ DOMAIN res' = {}
      BY <1>1, <1>2, <1>3, <2>1
    <3>2. (next # NoHash => BlockInSpan(next))'
      BY <3>1 DEF BlockInSpan, OnChain
    <3>3. (\A id \in Due : next # NoHash /\ OnChain(id[1], next))'
      BY <3>1 DEF Due, InSpan, OnChain
    <3> QED  BY <3>1, <3>2, <3>3 DEF Started, FindAt
  <2>5. PagesKept'
    BY <1>1, <1>2, <2>1, <2>4 DEF PagesKept
  <2>6. LastKept'
    BY <2>1 DEF LastKept
  <2> QED  BY <2>3, <2>5, <2>6 DEF QueryKept
<1>4. CASE off # NoId /\ off[1] \in stored /\ off[2] <= Len(txs[off[1]])
  <2>1. pc' = "walk" /\ next' = NoHash /\ cur' = off[1] /\ idx' = off[2]
    BY <1>4 DEF Ask, Seek
  <2>2. /\ off = <<off[1], off[2]>> /\ off[1] \in Hash /\ off[1] \in HashOrNone /\ off[2] \in Nat
        /\ off[2] \in DOMAIN txs[off[1]]
    <3>1. off = <<off[1], off[2]>> /\ off[1] \in Hash /\ off[2] \in 1 .. MaxTx
      BY <1>4, IdParts
    <3>2. Len(txs[off[1]]) \in Nat /\ DOMAIN txs[off[1]] = 1 .. Len(txs[off[1]])
      BY <1>1, <3>1, LenProperties DEF QueryTypes
    <3> QED  BY <1>4, <3>1, <3>2, QueryAssumption DEF QueryAssumption, HashOrNone
  <2>3. QueryTypes' /\ TipsKept' /\ PagesDescend'
    BY <1>1, <1>2, <2>1, <2>2, CallTypes DEF Paging
  <2>4. Started'
    BY <1>1, <1>4, <2>2 DEF Started, chain
  <2>5. WalkAt(cur, idx, res)'
    <3>1. <<cur', idx'>> = from' /\ from' # NoId /\ DOMAIN res' = {}
      BY <1>1, <1>2, <1>4, <2>1, <2>2
    <3>2. (\A id \in Due : Before(id, <<cur, idx>>))'
      BY <3>1 DEF Due, InSpan, Before, OnChain
    <3>3. cur' \in stored' /\ idx' \in DOMAIN txs'[cur']
      BY <1>1, <1>4, <2>1, <2>2 DEF chain
    <3> QED  BY <3>1, <3>2, <3>3 DEF WalkAt
  <2>6. PagesKept'
    BY <1>1, <1>2, <2>1, <2>4, <2>5 DEF PagesKept
  <2>7. LastKept'
    BY <2>1 DEF LastKept
  <2> QED  BY <2>3, <2>6, <2>7 DEF QueryKept
<1>5. CASE off # NoId /\ ~(off[1] \in stored /\ off[2] <= Len(txs[off[1]]))
  <2>1. pc' = "done" /\ next' = NoHash /\ cur' = NoHash /\ idx' = 0
    BY <1>5 DEF Ask, Seek
  <2>2. QueryTypes' /\ TipsKept' /\ PagesDescend'
    BY <1>1, <1>2, <2>1, CallTypes DEF Paging
  <2>3. ~Started'
    <3> SUFFICES ASSUME off[1] \in stored, off[2] \in DOMAIN txs[off[1]] PROVE FALSE
      BY <1>1, <1>5 DEF Started, chain
    <3>1. off[2] \in 1 .. Len(txs[off[1]])
      BY <1>1, PlaceIsId DEF QueryTypes
    <3> QED  BY <1>5, <3>1
  <2>4. PagesKept'
    BY <1>1, <1>2, <2>1, <2>3 DEF PagesKept
  <2>5. LastKept'
    BY <2>1 DEF LastKept
  <2> QED  BY <2>2, <2>4, <2>5 DEF QueryKept
<1> QED  BY <1>3, <1>4, <1>5

LEMMA AskOtherKeeps ==
  ASSUME QueryKept,
         \/ \E a \in Address, s \in {"source", "target"} : AskLast(a, s)
         \/ \E a \in Address : AskWallet(a)
  PROVE  QueryKept' /\ LastKept'
<1>1. /\ tip' = last /\ had' = stored /\ from' = NoId /\ res' = <<>> /\ limit' = 0 /\ taken' = 0
      /\ idx' = 0 /\ cur' = NoHash /\ next' = last /\ UNCHANGED chain /\ pc' \in {"last", "sum"}
  BY DEF AskLast, AskWallet
<1>2. last \in HashOrNone /\ NoHash \in HashOrNone
  BY DEF QueryKept, QueryTypes, HashOrNone
<1>3. QueryTypes' /\ TipsKept' /\ PagesDescend'
  BY <1>1, <1>2, CallTypes
<1>4. PagesKept'
  BY <1>1 DEF PagesKept, Paging
<1>5. LastKept'
  <2>1. (next # NoHash => tip # NoHash /\ OnChain(next, tip))'
    BY <1>1 DEF OnChain
  <2>2. (\A id \in Newest : next # NoHash /\ OnChain(id[1], next))'
    BY <1>1 DEF Newest, OnChain
  <2> QED  BY <1>1, <2>1, <2>2 DEF LastKept
<1> QED  BY <1>3, <1>4, <1>5 DEF QueryKept

-----------------------------------------------------------------------------
(* The other queries. *)

LEMMA OtherStep ==
  ASSUME QueryKept, UNCHANGED <<chain, call>>, pc' \in {"last", "found", "sum", "paid"},
         taken' \in Nat, idx' \in Nat, cur' \in HashOrNone, next' \in HashOrNone,
         res' \in Seq(Ids), \A j \in DOMAIN res' : Exists(res'[j]),
         \A i, j \in DOMAIN res' : i < j => Before(res'[j], res'[i])
  PROVE  QueryKept'
<1>1. QueryTypes' /\ TipsKept'
  BY DEF QueryKept, QueryTypes, TipsKept, ChainIn, OnChain, Exists, chain, call
<1>2. PagesDescend'
  BY DEF PagesDescend, Before, OnChain, chain
<1>3. PagesKept'
  BY DEF PagesKept, Paging
<1> QED  BY <1>1, <1>2, <1>3 DEF QueryKept

LEMMA FindLastTypes ==
  ASSUME QueryKept, FindLast
  PROVE  QueryKept'
<1>1. UNCHANGED <<chain, call>> /\ QueryTypes
  BY DEF FindLast, QueryKept
<1>2. CASE pc' = "found" /\ UNCHANGED walk
  BY <1>1, <1>2, OtherStep DEF walk, QueryKept, QueryTypes, PagesDescend
<1>3. ASSUME next \in stored,
             \/ /\ LastIn(next) # 0
                /\ pc' = "found" /\ res' = <<<<next, LastIn(next)>>>>
                /\ UNCHANGED <<cur, idx, next, taken>>
             \/ next' = prev[next] /\ UNCHANGED <<pc, cur, idx, taken, res>>
      PROVE  QueryKept'
  <2>1. next \in Hash /\ prev[next] \in HashOrNone /\ txs[next] \in Seq(Tx)
    BY <1>1, <1>3, PrevIs DEF QueryTypes
  <2>2. CASE next' = prev[next] /\ UNCHANGED <<pc, cur, idx, taken, res>>
    BY <1>1, <2>1, <2>2, OtherStep DEF FindLast, QueryKept, QueryTypes, PagesDescend
  <2>3. CASE /\ LastIn(next) # 0
             /\ pc' = "found" /\ res' = <<<<next, LastIn(next)>>>>
             /\ UNCHANGED <<cur, idx, next, taken>>
    <3> DEFINE i == LastIn(next)
    <3>1. i \in DOMAIN txs[next]
      <4> DEFINE T == {k \in DOMAIN txs[next] : Side(txs[next][k]) = addr}
      <4>1. T # {} /\ i = Max(T)
        BY <2>3 DEF LastIn
      <4>2. T \in SUBSET (1 .. Len(txs[next])) /\ Len(txs[next]) \in Nat
        BY <2>1, LenProperties
      <4> HIDE DEF T
      <4>3. i \in T
        BY <4>1, <4>2, HasGreatest
      <4> QED  BY <4>3 DEF T
    <3> HIDE DEF i
    <3>2. <<next, i>> \in Ids /\ Exists(<<next, i>>)
      BY <1>1, <1>3, <2>1, <3>1, PlaceIsId DEF Exists
    <3>3. res' = <<<<next, i>>>>
      BY <2>3 DEF i
    <3>4. /\ res' \in Seq(Ids) /\ DOMAIN res' = {1} /\ res'[1] = <<next, i>>
      BY <3>2, <3>3
    <3>5. \A j \in DOMAIN res' : Exists(res'[j])
      BY <3>2, <3>4
    <3>6. \A j, k \in DOMAIN res' : j < k => Before(res'[k], res'[j])
      BY <3>4
    <3> QED  BY <1>1, <2>3, <3>4, <3>5, <3>6, OtherStep DEF QueryTypes
  <2> QED  BY <1>3, <2>2, <2>3
<1> QED  BY <1>2, <1>3 DEF FindLast

LEMMA SumKeeps ==
  ASSUME QueryKept, SumBlock
  PROVE  QueryKept' /\ (LastKept => LastKept')
<1>1. UNCHANGED <<chain, call, cur, idx, taken, res>> /\ pc = "sum" /\ pc' \in {"sum", "paid"}
  BY DEF SumBlock, walk
<1>2. next' \in HashOrNone
  <2>1. next \in stored => prev[next] \in HashOrNone
    BY PrevIs DEF QueryKept, QueryTypes
  <2> QED  BY <2>1 DEF SumBlock, walk, QueryKept, QueryTypes
<1>3. QueryKept'
  BY <1>1, <1>2, OtherStep DEF QueryKept, QueryTypes, PagesDescend
<1>4. LastKept => LastKept'
  BY <1>1 DEF LastKept
<1> QED  BY <1>3, <1>4

(* add_transaction lets no invalid transaction into a block                  *)
(* (pool.cpp:318-320); were one there, it would hide the valid ones before   *)
(* it in its block from the two searches.                                    *)
AllValid == \A t \in Tx : t.ok

LEMMA FindLastKeeps ==
  ASSUME AllValid, QueryKept, LastKept, FindLast
  PROVE  LastKept'
<1> DEFINE i == LastIn(next)
           T == {k \in DOMAIN txs[next] : Side(txs[next][k]) = addr}
<1>1. /\ QueryTypes /\ pc = "last" /\ res = <<>> /\ UNCHANGED <<chain, call>>
      /\ next # NoHash => tip # NoHash /\ OnChain(next, tip)
      /\ \A id \in Newest : next # NoHash /\ OnChain(id[1], next)
  BY DEF FindLast, LastKept, QueryKept
<1>2. Newest' = Newest /\ \A x, y : Before(x, y)' <=> Before(x, y)
  BY <1>1 DEF Newest, TxOf, Side, OnChain, Before, chain, call
<1>3. CASE next \notin stored
  <2>1. pc' = "found" /\ UNCHANGED walk
    BY <1>3 DEF FindLast
  <2>2. next = NoHash
    <3> SUFFICES ASSUME next # NoHash PROVE FALSE
      OBVIOUS
    <3>1. tip \in Hash /\ ChainIn(tip, had) /\ OnChain(next, tip)
      BY <1>1 DEF QueryKept, TipsKept, QueryTypes
    <3>2. next \in had
      BY <1>1, <3>1, ChainIsHere DEF ChainIn, QueryTypes
    <3> QED  BY <1>1, <1>3, <3>2 DEF QueryTypes
  <2>3. Newest' = {} /\ res' = <<>>
    BY <1>1, <1>2, <2>1, <2>2 DEF walk
  <2> QED  BY <2>1, <2>3 DEF LastKept
<1>4. CASE next \in stored
  <2>1. next \in Hash /\ next # NoHash /\ txs[next] \in Seq(Tx) /\ OnChain(next, tip) /\ tip # NoHash
    BY <1>1, <1>4, NoHashAssumption DEF QueryTypes
  <2>2. /\ DOMAIN txs[next] = 1 .. Len(txs[next]) /\ Len(txs[next]) \in Nat
        /\ \A k \in DOMAIN txs[next] : txs[next][k] \in Tx /\ txs[next][k].ok
    BY <2>1, LenProperties, ElementOfSeq DEF AllValid
  <2>3. CASE T # {}
    <3>1. i = Max(T)
      BY <2>3 DEF LastIn
    <3>2. T \in SUBSET (1 .. Len(txs[next]))
      BY <2>2
    <3>3. i \in T /\ \A k \in T : k <= i
      <4> HIDE DEF T, i
      <4> QED  BY <2>2, <2>3, <3>1, <3>2, HasGreatest
    <3>4. i # 0 /\ i \in DOMAIN txs[next] /\ txs[next][i].ok /\ Side(txs[next][i]) = addr
      BY <2>2, <3>2, <3>3
    <3>5. pc' = "found" /\ res' = <<<<next, i>>>>
      BY <1>4, <3>4 DEF FindLast
    <3> DEFINE p == <<next, i>>
    <3>6. p \in Newest
      <4>1. p \in Ids
        BY <1>1, <2>1, <3>4, PlaceIsId
      <4> QED  BY <2>1, <3>4, <4>1 DEF Newest, TxOf
    <3>7. ASSUME NEW id \in Newest, id # p PROVE Before(id, p)
      <4>1. /\ id = <<id[1], id[2]>> /\ id[2] \in DOMAIN txs[id[1]] /\ Side(TxOf(id)) = addr
            /\ OnChain(id[1], next)
        BY <1>1, <3>7, IdParts DEF Newest
      <4>2. CASE id[1] = next
        <5>1. id[2] \in T /\ id[2] # i
          BY <3>7, <4>1, <4>2 DEF TxOf
        <5>2. id[2] \in Int /\ i \in Int
          BY <3>2, <3>3, <5>1
        <5>3. id[2] < i
          BY <3>3, <5>1, <5>2
        <5> QED  BY <4>2, <5>3 DEF Before
      <4>3. CASE id[1] # next
        BY <4>1, <4>3 DEF Before
      <4> QED  BY <4>2, <4>3
    <3> HIDE DEF i, p
    <3>8. res' = <<p>> /\ res' # <<>> /\ Len(res') = 1 /\ res'[1] = p
      BY <3>5 DEF p
    <3>9. (\A id \in Newest \ {res[1]} : Before(id, res[1]))'
      BY <1>1, <3>7, <3>8, <1>2 DEF Newest, Before, OnChain, TxOf, Side, chain, call
    <3> QED  BY <1>2, <3>5, <3>6, <3>8, <3>9 DEF LastKept
  <2>4. CASE T = {}
    <3>1. i = 0
      BY <2>4 DEF LastIn
    <3>2. next' = prev[next] /\ UNCHANGED <<pc, res>>
      BY <1>4, <3>1 DEF FindLast
    <3>3. ASSUME NEW id \in Newest PROVE prev[next] # NoHash /\ OnChain(id[1], prev[next])
      <4>1. id[2] \in DOMAIN txs[id[1]] /\ Side(TxOf(id)) = addr /\ OnChain(id[1], next)
        BY <1>1 DEF Newest
      <4>2. id[1] # next
        BY <2>4, <4>1 DEF TxOf
      <4> QED  BY <1>1, <2>1, <4>1, <4>2, ChainSplits, NoHashAssumption DEF QueryTypes
    <3>4. prev[next] # NoHash => OnChain(prev[next], tip)
      BY <1>1, <2>1, ChainBelow DEF QueryTypes
    <3>5. (next # NoHash => tip # NoHash /\ OnChain(next, tip))'
      BY <1>1, <2>1, <3>2, <3>4 DEF OnChain, chain, call
    <3>6. (\A id \in Newest : next # NoHash /\ OnChain(id[1], next))'
      BY <1>1, <1>2, <3>2, <3>3 DEF OnChain, chain
    <3> QED  BY <1>1, <3>2, <3>5, <3>6 DEF LastKept
  <2> QED  BY <2>3, <2>4
<1> QED  BY <1>3, <1>4

-----------------------------------------------------------------------------
(* Blocks are saved between the queries. *)

LEMMA StoreKeeps ==
  ASSUME QueryKept, NEW b \in Hash, Store(b)
  PROVE  QueryKept' /\ (LastKept => LastKept')
<1>1. /\ QueryTypes /\ TipsKept /\ stored' = stored \cup {b} /\ stored \subseteq Hash
      /\ last' = (IF last = prev[b] THEN b ELSE last)
      /\ UNCHANGED <<prev, txs, pc, call, walk>> /\ pc \in {"idle", "done", "found", "paid"}
  BY DEF Store, Between, QueryKept, QueryTypes
<1>2. QueryTypes'
  BY <1>1 DEF QueryTypes, Exists, call, walk
<1>3. TipsKept'
  <2>1. CASE last = prev[b]
    <3>1. ASSUME NEW x \in Hash, OnChain(x, b) PROVE x \in stored \cup {b}
      <4>1. CASE x # b
        <5>1. prev[b] \in Hash /\ OnChain(x, prev[b])
          BY <1>1, <3>1, <4>1, ChainSplits DEF QueryTypes
        <5> QED  BY <1>1, <2>1, <5>1, NoHashAssumption DEF TipsKept, ChainIn
      <4> QED  BY <4>1
    <3> QED  BY <1>1, <2>1, <3>1 DEF TipsKept, ChainIn, OnChain, call
  <2>2. CASE last # prev[b]
    BY <1>1, <2>2 DEF TipsKept, ChainIn, OnChain, call
  <2> QED  BY <2>1, <2>2
<1>4. PagesDescend'
  BY <1>1 DEF QueryKept, PagesDescend, Before, OnChain, walk
<1>5. Due' = Due /\ Newest' = Newest /\ (Started <=> Started')
  BY <1>1 DEF Due, Newest, Started, Wants, TxOf, InSpan, Before, OnChain, Side, call
<1>6. DoneAt(taken, res) => DoneAt(taken, res)'
  BY <1>1, <1>5 DEF DoneAt, Returned, Before, OnChain, Whole, ChainIn, call, walk
<1>7. PagesKept'
  BY <1>1, <1>5, <1>6 DEF QueryKept, PagesKept, Paging, call, walk
<1>8. LastKept => LastKept'
  BY <1>1, <1>5 DEF LastKept, Before, OnChain, walk, call
<1> QED  BY <1>2, <1>3, <1>4, <1>7, <1>8 DEF QueryKept

-----------------------------------------------------------------------------
(* Every step. *)

LEMMA QueryInit == Init => QueryKept /\ LastKept
<1> SUFFICES ASSUME Init PROVE QueryKept /\ LastKept
  OBVIOUS
<1>1. <<>> \in Seq(Ids) /\ DOMAIN <<>> = {} /\ Len(<<>>) = 0
  BY EmptySeq
<1>2. txs \in [Hash -> Seq(Tx)] /\ \A b \in Hash : Len(txs[b]) <= MaxTx
  <2>1. ASSUME NEW n \in 0 .. MaxTx, NEW s \in [1 .. n -> Tx]
        PROVE  s \in Seq(Tx) /\ Len(s) <= MaxTx
    <3>1. n \in Nat /\ n <= MaxTx
      BY QueryAssumption DEF QueryAssumption
    <3>2. s \in Seq(Tx)
      BY <3>1, SeqDef
    <3>3. Len(s) \in Nat /\ 1 .. Len(s) = 1 .. n
      BY <3>2, LenProperties
    <3>4. Len(s) = n
      BY <3>1, <3>3
    <3> QED  BY <3>1, <3>2, <3>4
  <2>2. txs \in [Hash -> UNION {[1 .. n -> Tx] : n \in 0 .. MaxTx}]
    BY DEF Init
  <2>3. \A b \in Hash : \E n \in 0 .. MaxTx : txs[b] \in [1 .. n -> Tx]
    BY <2>2
  <2> QED  BY <2>1, <2>2, <2>3
<1>3. QueryTypes
  BY <1>1, <1>2 DEF Init, QueryTypes, HashOrNone
<1>4. TipsKept /\ PagesDescend /\ PagesKept /\ LastKept
  BY <1>1 DEF Init, TipsKept, PagesDescend, PagesKept, LastKept, Paging
<1> QED  BY <1>3, <1>4 DEF QueryKept

LEMMA QueryStep ==
  ASSUME QueryKept, [Next]_vars
  PROVE  QueryKept' /\ (LastKept /\ AllValid => LastKept')
<1>1. ASSUME NEW b \in Hash, Store(b) PROVE QueryKept' /\ (LastKept => LastKept')
  BY <1>1, StoreKeeps
<1>2. ASSUME NEW a \in Address, NEW n \in Limit, NEW off \in Ids \cup {NoId}, Ask(a, n, off)
      PROVE  QueryKept' /\ LastKept'
  BY <1>2, AskKeeps
<1>3. ASSUME More \/ Earlier \/ Leave \/ Find PROVE QueryKept' /\ LastKept'
  BY <1>3, MoreKeeps, EarlierKeeps, LeaveKeeps, FindKeeps
<1>4. ASSUME \/ \E a \in Address, s \in {"source", "target"} : AskLast(a, s)
             \/ \E a \in Address : AskWallet(a)
      PROVE  QueryKept' /\ LastKept'
  BY <1>4, AskOtherKeeps
<1>5. ASSUME FindLast PROVE QueryKept' /\ (LastKept /\ AllValid => LastKept')
  BY <1>5, FindLastTypes, FindLastKeeps
<1>6. ASSUME SumBlock PROVE QueryKept' /\ (LastKept => LastKept')
  BY <1>6, SumKeeps
<1>7. ASSUME UNCHANGED vars PROVE QueryKept' /\ (LastKept => LastKept')
  <2>1. /\ UNCHANGED <<prev, txs, stored, last, pc, addr, limit, side, tip, had, from>>
        /\ UNCHANGED <<cur, idx, next, taken, res>>
    BY <1>7 DEF vars, chain, call, walk
  <2>2. QueryTypes' /\ TipsKept' /\ PagesDescend'
    BY <2>1 DEF QueryKept, QueryTypes, TipsKept, ChainIn, OnChain, Exists, PagesDescend, Before
  <2>3. Due' = Due /\ Newest' = Newest /\ (Started <=> Started')
    BY <2>1 DEF Due, Newest, Started, Wants, TxOf, InSpan, Before, OnChain, Side
  <2>4. WalkAt(cur, idx, res) => WalkAt(cur, idx, res)'
    BY <2>1, <2>3 DEF WalkAt, InSpan, Before, OnChain, Returned
  <2>5. FindAt(next, res) => FindAt(next, res)'
    BY <2>1, <2>3 DEF FindAt, BlockInSpan, OnChain, Returned
  <2>6. DoneAt(taken, res) => DoneAt(taken, res)'
    BY <2>1, <2>3 DEF DoneAt, Before, OnChain, Returned, Whole, ChainIn
  <2>7. PagesKept'
    BY <2>1, <2>3, <2>4, <2>5, <2>6 DEF QueryKept, PagesKept
  <2>8. LastKept => LastKept'
    BY <2>1, <2>3 DEF LastKept, Before, OnChain
  <2> QED  BY <2>2, <2>7, <2>8 DEF QueryKept
<1> QED  BY <1>1, <1>2, <1>3, <1>4, <1>5, <1>6, <1>7 DEF Next

LEMMA QueriesKeep == Spec => []QueryKept
BY QueryInit, QueryStep, PTL DEF Spec

LEMMA SearchesKeep == ASSUME AllValid PROVE Spec => [](QueryKept /\ LastKept)
BY QueryInit, QueryStep, PTL DEF Spec

-----------------------------------------------------------------------------
(* The pages of a session run from newer to older transactions and repeat    *)
(* none, for all forests of blocks, page sizes and offsets, and whatever is  *)
(* saved between the pages (storage.cpp:448-506).                            *)
THEOREM QueryOrder == Spec => []PagesDescend
<1>1. QueryKept => PagesDescend
  BY DEF QueryKept
<1> QED  BY <1>1, QueriesKeep, PTL

(* The pages together leave nothing out and add nothing, once one comes back *)
(* short, if no block was missing below the offset (storage.cpp:440-509).    *)
THEOREM QueryComplete == Spec => []PagesComplete
<1>1. ASSUME QueryKept, pc = "done", taken < limit, Whole
      PROVE  {res[i] : i \in DOMAIN res} = Wanted
  <2>1. QueryTypes /\ TipsKept
    BY <1>1 DEF QueryKept
  <2>2. CASE Started
    <3>1. /\ \A j \in DOMAIN res : res[j] \in Due
          /\ \A id \in Due : Returned(res, id)
      BY <1>1, <2>2 DEF QueryKept, PagesKept, Paging, DoneAt
    <3>2. {res[i] : i \in DOMAIN res} = Due
      BY <3>1 DEF Returned
    <3>3. ASSUME NEW id \in Due PROVE id \in Wanted
      <4>1. Exists(id)
        BY <1>1, <2>1, <2>2, DueIsStored
      <4>2. from # NoId => from[1] \in had /\ Exists(from)
        BY <2>1, <2>2 DEF Started, Exists, QueryTypes
      <4> QED  BY <4>1, <4>2 DEF Due, Wanted, Wants, InSpan
    <3>4. ASSUME NEW id \in Wanted PROVE id \in Due
      BY DEF Due, Wanted, Wants, InSpan, Exists
    <3> QED  BY <3>2, <3>3, <3>4
  <2>3. CASE ~Started
    <3>1. res = <<>>
      BY <1>1, <2>3 DEF QueryKept, PagesKept, Paging
    <3>2. Wanted = {}
      BY <2>3 DEF Started, Wanted, Exists
    <3> QED  BY <3>1, <3>2
  <2> QED  BY <2>2, <2>3
<1>2. QueryKept => PagesComplete
  BY <1>1 DEF PagesComplete
<1> QED  BY <1>2, QueriesKeep, PTL

(* get_last_by_source and get_last_by_target return the newest transaction   *)
(* there is, and say there is none only when there is none, in programs that *)
(* fill their blocks with add_transaction (storage.h:200-214).               *)
THEOREM QueryNewest == ASSUME AllValid PROVE Spec => []LastIsNewest
<1>1. ASSUME QueryKept PROVE NewestOf(addr) = Newest
  <2>1. ASSUME NEW id \in Newest PROVE Exists(id)
    <3>1. id[1] \in Hash /\ tip # NoHash /\ OnChain(id[1], tip) /\ id[2] \in DOMAIN txs[id[1]]
      BY <1>1, IdParts DEF Newest
    <3>2. id[1] \in had
      BY <1>1, <3>1 DEF QueryKept, TipsKept, ChainIn
    <3> QED  BY <1>1, <3>1, <3>2 DEF QueryKept, QueryTypes, Exists
  <2> QED  BY <2>1 DEF NewestOf, Newest, Exists
<1>2. QueryKept /\ LastKept => LastIsNewest
  BY <1>1 DEF LastKept, LastIsNewest
<1> QED  BY <1>2, SearchesKeep, PTL

-----------------------------------------------------------------------------
(* Wallets: the amounts are what the transactions moved that were passed.    *)

\* The transactions that concern the address.
Concerned == {id \in Ids : id[2] \in DOMAIN txs[id[1]] /\ addr \in {TxOf(id).source, TxOf(id).target}}

\* What one of them moves in a currency, and what a set of them does.
AmountOf == [id \in Concerned |-> TxOf(id).amount]
Received(id) == IF TxOf(id).target = addr THEN TxOf(id).amount ELSE 0
Spent(id) == IF TxOf(id).source = addr THEN TxOf(id).amount ELSE 0
Delta(c) == [id \in Concerned |-> IF TxOf(id).currency = c THEN Received(id) - Spent(id) ELSE 0]
Moved(V) == [c \in {TxOf(id).currency : id \in V} |-> SumOver(Delta(c), V)]

\* Those of the chain that lie above a block.
Passed(h) ==
  {id \in Concerned : tip # NoHash /\ OnChain(id[1], tip) /\ ~(h # NoHash /\ OnChain(id[1], h))}

WalletKept ==
  pc \in {"sum", "paid"} =>
    /\ next # NoHash => tip # NoHash /\ OnChain(next, tip)
    /\ pc = "paid" => next = NoHash
    /\ amounts = Moved(Passed(next))

LEMMA ConcernedTypes ==
  ASSUME QueryTypes
  PROVE  /\ IsFiniteSet(Concerned)
         /\ \A id \in Concerned : /\ TxOf(id) \in Tx /\ TxOf(id).amount \in Int
                                  /\ Received(id) \in Int /\ Spent(id) \in Int
                                  /\ id = <<id[1], id[2]>> /\ id[1] \in Hash /\ id[2] \in 1 .. MaxTx
<1>1. IsFiniteSet(Hash) /\ IsFiniteSet(1 .. MaxTx)
  BY HashAssumption, QueryAssumption, FS_Interval DEF HashAssumption, QueryAssumption
<1>2. IsFiniteSet(Hash \X (1 .. MaxTx))
  BY <1>1, FS_Product
<1>3. Concerned \subseteq Hash \X (1 .. MaxTx)
  BY DEF Concerned, Ids
<1>4. IsFiniteSet(Concerned)
  BY <1>2, <1>3, FS_Subset
<1>5. ASSUME NEW id \in Concerned
      PROVE  /\ TxOf(id) \in Tx /\ TxOf(id).amount \in Int
             /\ Received(id) \in Int /\ Spent(id) \in Int
             /\ id = <<id[1], id[2]>> /\ id[1] \in Hash /\ id[2] \in 1 .. MaxTx
  <2>1. id = <<id[1], id[2]>> /\ id[1] \in Hash /\ id[2] \in 1 .. MaxTx /\ id[2] \in DOMAIN txs[id[1]]
    BY IdParts DEF Concerned
  <2>2. txs[id[1]] \in Seq(Tx)
    BY <2>1 DEF QueryTypes
  <2>3. TxOf(id) \in Tx
    BY <2>1, <2>2 DEF TxOf
  <2>4. TxOf(id).amount \in Int
    BY <2>3, QueryAssumption DEF QueryAssumption
  <2>5. Received(id) \in Int /\ Spent(id) \in Int
    BY <2>4 DEF Received, Spent
  <2> QED BY <2>1, <2>3, <2>4, <2>5
<1> QED BY <1>4, <1>5

LEMMA DeltaTypes ==
  ASSUME QueryTypes, NEW V \in SUBSET Concerned, NEW c
  PROVE  /\ IsFiniteSet(V) /\ SumOver(Delta(c), V) \in Int
         /\ \A id \in Concerned : Delta(c)[id] \in Int
<1>1. IsFiniteSet(V)
  BY ConcernedTypes, FS_Subset
<1>2. \A id \in Concerned : Delta(c)[id] \in Int
  BY ConcernedTypes DEF Delta
<1>3. SumOver(Delta(c), V) \in Int
  BY <1>1, <1>2, SumIsInt
<1> QED BY <1>1, <1>2, <1>3

\* No transaction of a currency, no amount of it.
LEMMA NothingMoved ==
  ASSUME QueryTypes, NEW V \in SUBSET Concerned, NEW c, \A id \in V : TxOf(id).currency # c
  PROVE  SumOver(Delta(c), V) = 0
<1> DEFINE h == Delta(c)
<1>1. \A id \in V : h[id] = 0
  BY DEF Delta
<1>2. IsFiniteSet(V)
  BY DeltaTypes
<1>3. SumOver(h, V) = 0
  <2> HIDE DEF h
  <2> QED BY <1>1, <1>2, SumOfZeros
<1> QED BY <1>3 DEF h

\* The body of the inner loop.
LEMMA PostedMoves ==
  ASSUME QueryTypes, NEW V \in SUBSET Concerned, NEW id \in Ids, id[2] \in DOMAIN txs[id[1]], id \notin V
  PROVE  Posted(Moved(V), TxOf(id)) = Moved(IF id \in Concerned THEN V \cup {id} ELSE V)
<1> DEFINE t == TxOf(id)
<1>1. CASE id \notin Concerned
  <2>1. addr \notin {t.source, t.target}
    BY <1>1 DEF Concerned
  <2> QED BY <1>1, <2>1 DEF Posted
<1>2. CASE id \in Concerned
  <2> DEFINE W == V \cup {id}
             D == {TxOf(x).currency : x \in V}
             E == {TxOf(x).currency : x \in W}
             m == Moved(V)
  <2>1. addr \in {t.source, t.target}
    BY <1>2 DEF Concerned
  <2>2. E = D \cup {t.currency} /\ DOMAIN m = D /\ W \in SUBSET Concerned
    BY <1>2 DEF Moved
  <2>3. ASSUME NEW c \in E
        PROVE  SumOver(Delta(c), W)
                 = (IF c \in D THEN m[c] ELSE 0)
                     + (IF c = t.currency THEN (-Spent(id)) + Received(id) ELSE 0)
    <3>1. SumOver(Delta(c), W) = Delta(c)[id] + SumOver(Delta(c), V)
      <4> DEFINE h == Delta(c)
      <4>1. IsFiniteSet(V) /\ \A x \in V \cup {id} : h[x] \in Int
        BY <1>2, DeltaTypes
      <4> HIDE DEF h
      <4>2. SumOver(h, V \cup {id}) = h[id] + SumOver(h, V)
        BY <4>1, SumAdds
      <4> QED BY <4>2 DEF h
    <3>2. Delta(c)[id] = IF c = t.currency THEN (-Spent(id)) + Received(id) ELSE 0
      <4>1. Delta(c)[id] = IF t.currency = c THEN Received(id) - Spent(id) ELSE 0
        BY <1>2 DEF Delta
      <4>2. Received(id) \in Int /\ Spent(id) \in Int
        BY <1>2, ConcernedTypes
      <4> QED BY <4>1, <4>2
    <3>3. SumOver(Delta(c), V) = IF c \in D THEN m[c] ELSE 0
      <4>1. CASE c \in D
        BY <4>1 DEF Moved
      <4>2. CASE c \notin D
        <5>1. \A x \in V : TxOf(x).currency # c
          BY <4>2
        <5> QED BY <4>2, <5>1, NothingMoved
      <4> QED BY <4>1, <4>2
    <3>4. SumOver(Delta(c), V) \in Int /\ Delta(c)[id] \in Int
      BY <1>2, DeltaTypes
    <3> QED BY <3>1, <3>2, <3>3, <3>4
  <2>4. Posted(m, t) = [c \in D \cup {t.currency} |->
          (IF c \in D THEN m[c] ELSE 0)
            + (IF c = t.currency THEN (-Spent(id)) + Received(id) ELSE 0)]
    <3> DEFINE paid == IF t.source = addr THEN -t.amount ELSE 0
               received == IF t.target = addr THEN t.amount ELSE 0
    <3>1. paid = -Spent(id) /\ received = Received(id)
      BY DEF Spent, Received
    <3> HIDE DEF m
    <3>2. Posted(m, t) = [c \in DOMAIN m \cup {t.currency} |->
            (IF c \in DOMAIN m THEN m[c] ELSE 0) + (IF c = t.currency THEN paid + received ELSE 0)]
      BY <2>1 DEF Posted
    <3> HIDE DEF paid, received, D, t
    <3> QED BY <2>2, <3>1, <3>2
  <2>5. Moved(W) = [c \in E |-> SumOver(Delta(c), W)]
    BY DEF Moved
  <2> HIDE DEF W, D, E, m, t
  <2>6. Posted(m, t) = Moved(W)
    BY <2>2, <2>3, <2>4, <2>5
  <2> QED BY <1>2, <2>6 DEF W, m, t
<1> QED BY <1>1, <1>2

-----------------------------------------------------------------------------
(* FoldLeft, step by step. *)

Currencies0 == {t.currency : t \in Tx}
AmountMaps == UNION {[D -> Int] : D \in SUBSET Currencies0}

LEMMA PostedType ==
  ASSUME NEW m \in AmountMaps, NEW t \in Tx
  PROVE  Posted(m, t) \in AmountMaps
<1>1. PICK D \in SUBSET Currencies0 : m \in [D -> Int]
  BY DEF AmountMaps
<1>2. t.amount \in Int /\ t.currency \in Currencies0
  BY QueryAssumption DEF QueryAssumption, Currencies0
<1>3. CASE addr \notin {t.source, t.target}
  BY <1>3 DEF Posted
<1>4. CASE addr \in {t.source, t.target}
  <2> DEFINE paid == IF t.source = addr THEN -t.amount ELSE 0
             received == IF t.target = addr THEN t.amount ELSE 0
             value(c) == (IF c \in D THEN m[c] ELSE 0) + (IF c = t.currency THEN paid + received ELSE 0)
  <2>1. paid \in Int /\ received \in Int
    BY <1>2
  <2>2. Posted(m, t) = [c \in D \cup {t.currency} |-> value(c)]
    BY <1>1, <1>4 DEF Posted
  <2> HIDE DEF paid, received
  <2>3. \A c \in D \cup {t.currency} : value(c) \in Int
    BY <1>1, <2>1
  <2> HIDE DEF value
  <2>4. Posted(m, t) \in [D \cup {t.currency} -> Int] /\ D \cup {t.currency} \in SUBSET Currencies0
    BY <1>2, <2>2, <2>3
  <2> QED BY <2>4 DEF AmountMaps
<1> QED BY <1>3, <1>4

LEMMA FoldSteps ==
  ASSUME NEW seq \in Seq(Tx), NEW a \in AmountMaps
  PROVE  \E v : /\ v[0] = a /\ \A k \in 1 .. Len(seq) : v[k] = Posted(v[k - 1], seq[k])
                /\ FoldLeft(Posted, a, seq) = v[Len(seq)]
<1> DEFINE n == Len(seq)
           X == DOMAIN seq
           Body(f) == f = [s \in SUBSET X |-> IF s = {} THEN a ELSE Posted(f[s \ {Max(s)}], seq[Max(s)])]
           g == [p \in X \X AmountMaps |-> Posted(p[2], seq[p[1]])]
           c == [s \in SUBSET X |-> Max(s)]
           iter == CHOOSE f : Body(f)
           v == [k \in 0 .. n |-> iter[1 .. k]]
<1>1. n \in Nat /\ X = 1 .. n /\ \A k \in X : seq[k] \in Tx
  BY LenProperties, ElementOfSeq
<1>2. FoldLeft(Posted, a, seq) = iter[X]
  BY DEF FoldLeft, MapThenFoldSet
<1>3. IsFiniteSet(X)
  BY <1>1, FS_Interval
<1>4. \A s \in SUBSET X : s # {} => Max(s) \in s /\ c[s] = Max(s)
  BY <1>1, HasGreatest
<1>5. g \in [X \X AmountMaps -> AmountMaps]
  BY <1>1, PostedType
<1>6. PICK f \in [SUBSET X -> AmountMaps] : SubsetRecurs(f, X, a, g, c)
  <2> HIDE DEF X, g, c
  <2>1. \A s \in SUBSET X : s # {} => c[s] \in s
    BY <1>4
  <2> QED BY <1>3, <1>5, <2>1, SubsetRecursion
<1>7. \A s \in SUBSET X : s # {} => g[<<c[s], f[s \ {c[s]}]>>] = Posted(f[s \ {Max(s)}], seq[Max(s)])
  <2> SUFFICES ASSUME NEW s \in SUBSET X, s # {}
               PROVE  g[<<c[s], f[s \ {c[s]}]>>] = Posted(f[s \ {Max(s)}], seq[Max(s)])
    OBVIOUS
  <2>1. c[s] = Max(s) /\ Max(s) \in X
    BY <1>4
  <2> HIDE DEF c, X
  <2>2. <<Max(s), f[s \ {Max(s)}]>> \in X \X AmountMaps
    BY <2>1
  <2> QED BY <2>1, <2>2
<1>8. Body(f)
  <2> HIDE DEF X, g, c
  <2> QED BY <1>6, <1>7 DEF SubsetRecurs
<1>9. Body(iter)
  BY <1>8
<1> HIDE DEF iter
<1>10. iter[{}] = a
  BY <1>9
<1>11. v[0] = a
  <2>1. 1 .. 0 = {} /\ 0 \in 0 .. n
    BY <1>1
  <2> QED BY <1>10, <2>1
<1>12. ASSUME NEW k \in 1 .. n PROVE v[k] = Posted(v[k - 1], seq[k])
  <2> DEFINE s == 1 .. k
  <2>1. s \in SUBSET X /\ s # {} /\ s \in SUBSET (1 .. n)
    BY <1>1
  <2>2. Max(s) \in s /\ \A i \in s : i <= Max(s)
    BY <1>1, <2>1, HasGreatest
  <2>3. Max(s) = k
    BY <2>2
  <2>4. s \ {k} = 1 .. k - 1
    BY <1>1
  <2>5. iter[s] = Posted(iter[s \ {k}], seq[k])
    <3> HIDE DEF s
    <3> QED BY <1>9, <2>1, <2>3
  <2>6. v[k] = iter[s] /\ v[k - 1] = iter[1 .. k - 1]
    BY <1>1
  <2> QED BY <2>4, <2>5, <2>6
<1>13. v[n] = iter[X]
  BY <1>1
<1> HIDE DEF v
<1> QED BY <1>2, <1>11, <1>12, <1>13

LEMMA MovedType ==
  ASSUME QueryTypes, NEW V \in SUBSET Concerned
  PROVE  Moved(V) \in AmountMaps
<1> DEFINE D == {TxOf(id).currency : id \in V}
           sum(c) == SumOver(Delta(c), V)
<1>1. D \in SUBSET Currencies0
  BY ConcernedTypes DEF Currencies0
<1>2. \A c \in D : sum(c) \in Int
  BY DeltaTypes
<1>3. Moved(V) = [c \in D |-> sum(c)]
  BY DEF Moved
<1> HIDE DEF D, sum
<1>4. Moved(V) \in [D -> Int]
  BY <1>2, <1>3
<1> QED BY <1>1, <1>4 DEF AmountMaps

\* The inner loop of Wallet::get: all transactions of a block.
LEMMA BlockMoves ==
  ASSUME QueryTypes, NEW b \in Hash, NEW V \in SUBSET Concerned, \A id \in V : id[1] # b
  PROVE  FoldLeft(Posted, Moved(V), txs[b]) = Moved(V \cup {id \in Concerned : id[1] = b})
<1> DEFINE seq == txs[b]
           Upto(k) == V \cup {id \in Concerned : id[1] = b /\ id[2] <= k}
<1>1. seq \in Seq(Tx) /\ Len(seq) \in Nat /\ DOMAIN seq = 1 .. Len(seq)
  BY LenProperties DEF QueryTypes
<1>2. PICK v : /\ v[0] = Moved(V) /\ \A k \in 1 .. Len(seq) : v[k] = Posted(v[k - 1], seq[k])
               /\ FoldLeft(Posted, Moved(V), seq) = v[Len(seq)]
  BY <1>1, MovedType, FoldSteps
<1> DEFINE P == {k \in Nat : k <= Len(seq) => v[k] = Moved(Upto(k))}
<1>3. 0 \in P
  <2>1. \A id \in Concerned : ~(id[2] <= 0)
    BY ConcernedTypes
  <2>2. Upto(0) = V
    BY <2>1
  <2> HIDE DEF Upto
  <2> QED BY <1>2, <2>2
<1>4. \A k \in Nat : k \in P => k + 1 \in P
  <2> SUFFICES ASSUME NEW k \in Nat, k \in P, k + 1 <= Len(seq) PROVE v[k + 1] = Moved(Upto(k + 1))
    OBVIOUS
  <2> DEFINE id == <<b, k + 1>>
             W == Upto(k)
  <2>1. k + 1 \in 1 .. Len(seq) /\ (k + 1) - 1 = k /\ k <= Len(seq)
    BY <1>1
  <2>2. v[k + 1] = Posted(Moved(W), seq[k + 1])
    BY <1>2, <2>1
  <2>3. id \in Ids /\ id[1] = b /\ id[2] = k + 1 /\ TxOf(id) = seq[k + 1] /\ k + 1 \in DOMAIN txs[b]
    BY <1>1, <2>1, PlaceIsId DEF TxOf
  <2>4. W \in SUBSET Concerned /\ id \notin W
    BY <2>3
  <2>5. Posted(Moved(W), TxOf(id)) = Moved(IF id \in Concerned THEN W \cup {id} ELSE W)
    <3> HIDE DEF W, id
    <3> QED BY <2>3, <2>4, PostedMoves
  <2>6. Upto(k + 1) = IF id \in Concerned THEN W \cup {id} ELSE W
    <3>1. \A x \in Concerned : x[1] = b /\ x[2] <= k + 1 <=> (x[1] = b /\ x[2] <= k) \/ x = id
      <4> SUFFICES ASSUME NEW x \in Concerned
                   PROVE  x[1] = b /\ x[2] <= k + 1 <=> (x[1] = b /\ x[2] <= k) \/ x = id
        OBVIOUS
      <4>1. x = <<x[1], x[2]>> /\ x[2] \in Int
        BY ConcernedTypes
      <4> QED BY <4>1
    <3> HIDE DEF id
    <3> QED BY <3>1
  <2> HIDE DEF Upto, W, id
  <2> QED BY <2>2, <2>3, <2>5, <2>6
<1>5. Nat \subseteq P
  <2> HIDE DEF P
  <2> QED BY <1>3, <1>4, Induct
<1>6. v[Len(seq)] = Moved(Upto(Len(seq)))
  BY <1>1, <1>5
<1>7. Upto(Len(seq)) = V \cup {id \in Concerned : id[1] = b}
  <2>1. \A id \in Concerned : id[1] = b => id[2] <= Len(seq)
    BY <1>1 DEF Concerned
  <2> QED BY <2>1
<1> HIDE DEF Upto
<1> QED BY <1>2, <1>6, <1>7

-----------------------------------------------------------------------------
(* What a wallet has added up so far is kept. *)

LEMMA SameMoves ==
  ASSUME UNCHANGED <<prev, txs, addr, tip, next>>
  PROVE  Moved(Passed(next))' = Moved(Passed(next)) /\ (OnChain(next, tip)' <=> OnChain(next, tip))
<1>1. Concerned' = Concerned /\ Passed(next)' = Passed(next)
  BY DEF Concerned, Passed, TxOf, OnChain
<1>2. ASSUME NEW c PROVE Delta(c)' = Delta(c)
  BY <1>1 DEF Delta, Received, Spent, TxOf
<1> QED BY <1>1, <1>2 DEF Moved, OnChain, TxOf

LEMMA AskWalletSums ==
  ASSUME QueryKept, NEW a \in Address, AskWallet(a)
  PROVE  WalletKept'
<1>1. /\ tip' = last /\ next' = last /\ amounts' = NoAmounts /\ pc' = "sum" /\ prev' = prev
  BY DEF AskWallet, chain
<1>2. Passed(next)' = {}
  BY <1>1 DEF Passed
<1>3. Moved(Passed(next))' = NoAmounts
  BY <1>2 DEF Moved, NoAmounts
<1>4. (next # NoHash => tip # NoHash /\ OnChain(next, tip))'
  BY <1>1 DEF OnChain
<1> QED BY <1>1, <1>3, <1>4 DEF WalletKept

\* With the block before it, the transactions of a block are passed as well.
LEMMA PassedBlock ==
  ASSUME QueryTypes, next \in Hash, tip # NoHash, OnChain(next, tip)
  PROVE  Passed(prev[next]) = Passed(next) \cup {id \in Concerned : id[1] = next}
<1>1. /\ prev \in Forests /\ tip \in Hash /\ next # NoHash /\ OnChain(next, next)
  BY ChainOfItself, NoHashAssumption DEF QueryTypes
<1>2. ASSUME NEW id \in Concerned
      PROVE  id \in Passed(prev[next]) <=> (id \in Passed(next) \/ id[1] = next)
  <2> DEFINE x == id[1]
  <2>1. CASE x = next
    <3>1. ASSUME prev[next] # NoHash, OnChain(x, prev[next]) PROVE FALSE
      <4>1. prev[next] \in Hash /\ prev[next] # next
        BY <1>1, <3>1, PrevIs DEF HashOrNone
      <4>2. OnChain(prev[next], next)
        BY <4>1, ChainOfPrev
      <4> QED BY <1>1, <2>1, <3>1, <4>1, <4>2, ChainAntisymmetric
    <3> QED BY <2>1, <3>1 DEF Passed
  <2>2. CASE x # next
    <3>1. OnChain(x, next) => prev[next] # NoHash /\ OnChain(x, prev[next])
      BY <1>1, <2>2, ChainSplits, NoHashAssumption
    <3>2. ASSUME prev[next] # NoHash, OnChain(x, prev[next]) PROVE OnChain(x, next)
      <4>1. prev[next] \in Hash
        BY <1>1, <3>2, PrevIs DEF HashOrNone
      <4> QED BY <3>2, <4>1, ChainOfPrev, ChainTransitive
    <3> QED BY <1>1, <2>2, <3>1, <3>2 DEF Passed
  <2> QED BY <2>1, <2>2
<1> QED BY <1>2 DEF Passed

LEMMA SumBlockSums ==
  ASSUME QueryKept, WalletKept, SumBlock
  PROVE  WalletKept'
<1>1. /\ QueryTypes /\ TipsKept /\ UNCHANGED <<chain, call>> /\ pc = "sum"
      /\ next # NoHash => tip # NoHash /\ OnChain(next, tip)
      /\ amounts = Moved(Passed(next))
  BY DEF QueryKept, SumBlock, WalletKept
<1>2. UNCHANGED <<prev, txs, addr, tip>>
  BY <1>1 DEF chain, call
<1>3. CASE next \notin stored
  <2>1. pc' = "paid" /\ next' = next /\ amounts' = amounts
    BY <1>3 DEF SumBlock, walk
  <2>2. next = NoHash
    <3> SUFFICES ASSUME next # NoHash PROVE FALSE
      OBVIOUS
    <3>1. tip \in Hash /\ ChainIn(tip, had) /\ OnChain(next, tip)
      BY <1>1 DEF TipsKept, QueryTypes
    <3>2. next \in had
      BY <1>1, <3>1, ChainIsHere DEF ChainIn, QueryTypes
    <3> QED BY <1>1, <1>3, <3>2 DEF QueryTypes
  <2>3. Moved(Passed(next))' = Moved(Passed(next))
    BY <1>2, <2>1, SameMoves
  <2> QED BY <1>1, <2>1, <2>2, <2>3 DEF WalletKept
<1>4. CASE next \in stored
  <2>1. next \in Hash /\ tip # NoHash /\ tip \in Hash /\ OnChain(next, tip)
    BY <1>1, <1>4, NoHashAssumption DEF QueryTypes
  <2>2. pc' = "sum" /\ next' = prev[next] /\ amounts' = FoldLeft(Posted, amounts, txs[next])
    BY <1>1, <1>4 DEF SumBlock
  <2> DEFINE V == Passed(next)
  <2>3. V \in SUBSET Concerned /\ \A id \in V : id[1] # next
    BY <2>1, ChainOfItself, NoHashAssumption DEF Passed
  <2>4. Passed(prev[next]) = V \cup {id \in Concerned : id[1] = next}
    BY <1>1, <2>1, PassedBlock
  <2>5. amounts' = Moved(Passed(prev[next]))
    <3> HIDE DEF V
    <3>1. FoldLeft(Posted, Moved(V), txs[next]) = Moved(V \cup {id \in Concerned : id[1] = next})
      BY <1>1, <2>1, <2>3, BlockMoves
    <3> QED BY <1>1, <2>2, <2>4, <3>1 DEF V
  <2>6. Moved(Passed(next))' = Moved(Passed(prev[next]))
    <3>1. Concerned' = Concerned
      BY <1>2 DEF Concerned, TxOf
    <3>2. Passed(next)' = Passed(prev[next])
      BY <1>2, <2>2, <3>1 DEF Passed, OnChain
    <3>3. ASSUME NEW c PROVE Delta(c)' = Delta(c)
      BY <1>2, <3>1 DEF Delta, Received, Spent, TxOf
    <3> QED BY <1>2, <3>2, <3>3 DEF Moved, TxOf
  <2>7. prev[next] # NoHash => OnChain(prev[next], tip)
    BY <1>1, <2>1, ChainBelow DEF QueryTypes
  <2>8. (next # NoHash => tip # NoHash /\ OnChain(next, tip))'
    BY <1>2, <2>1, <2>2, <2>7 DEF OnChain
  <2> QED BY <2>2, <2>5, <2>6, <2>8 DEF WalletKept
<1> QED BY <1>3, <1>4

LEMMA WalletStep ==
  ASSUME QueryKept, WalletKept, [Next]_vars
  PROVE  WalletKept'
<1>1. ASSUME UNCHANGED <<prev, txs, addr, tip, next, amounts, pc>> PROVE WalletKept'
  BY <1>1, SameMoves DEF WalletKept
<1>2. ASSUME NEW b \in Hash, Store(b) PROVE WalletKept'
  BY <1>1, <1>2 DEF Store, call, walk
<1>3. ASSUME pc' \notin {"sum", "paid"} PROVE WalletKept'
  BY <1>3 DEF WalletKept
<1>4. ASSUME NEW a \in Address, NEW n \in Limit, NEW off \in Ids \cup {NoId}, Ask(a, n, off)
      PROVE  WalletKept'
  BY <1>3, <1>4 DEF Ask, Seek
<1>5. ASSUME More \/ Earlier \/ Leave \/ Find \/ FindLast PROVE WalletKept'
  BY <1>3, <1>5 DEF More, Seek, Earlier, Visit, Leave, Find, FindLast
<1>6. ASSUME \E a \in Address, s \in {"source", "target"} : AskLast(a, s) PROVE WalletKept'
  BY <1>3, <1>6 DEF AskLast
<1>7. ASSUME \E a \in Address : AskWallet(a) PROVE WalletKept'
  BY <1>7, AskWalletSums
<1>8. ASSUME SumBlock PROVE WalletKept'
  BY <1>8, SumBlockSums
<1>9. ASSUME UNCHANGED vars PROVE WalletKept'
  BY <1>1, <1>9 DEF vars, chain, call, walk
<1> QED BY <1>2, <1>4, <1>5, <1>6, <1>7, <1>8, <1>9 DEF Next

-----------------------------------------------------------------------------
(* What it added up is the balance. *)

LEMMA MapSums ==
  ASSUME QueryTypes, NEW T \in SUBSET Concerned
  PROVE  MapThenSumSet(LAMBDA id : TxOf(id).amount, T) = SumOver(AmountOf, T)
<1> DEFINE first(f, s) == IF s = {} THEN 0
                          ELSE TxOf(CHOOSE x \in s : TRUE).amount + f[s \ {CHOOSE x \in s : TRUE}]
           second(f, s) == IF s = {} THEN 0 ELSE AmountOf[One(s)] + f[s \ {One(s)}]
           iter == CHOOSE f : f = [s \in SUBSET T |-> first(f, s)]
<1>1. MapThenSumSet(LAMBDA id : TxOf(id).amount, T) = iter[T]
  BY DEF MapThenSumSet, MapThenFoldSet
<1>2. IsFiniteSet(T) /\ \A id \in T : AmountOf[id] \in Int /\ AmountOf[id] = TxOf(id).amount
  BY ConcernedTypes, DeltaTypes DEF AmountOf
<1>3. ASSUME NEW f PROVE f = [s \in SUBSET T |-> first(f, s)] <=> Sums(f, AmountOf, T)
  <2>1. ASSUME NEW s \in SUBSET T PROVE first(f, s) = second(f, s)
    <3>1. s # {} => One(s) \in T
      BY DEF One
    <3> QED BY <1>2, <3>1 DEF One
  <2>2. Sums(f, AmountOf, T) <=> f = [s \in SUBSET T |-> second(f, s)]
    BY DEF Sums
  <2> HIDE DEF first, second
  <2> QED BY <2>1, <2>2
<1>4. \E f : Sums(f, AmountOf, T)
  <2> DEFINE m == AmountOf
  <2>1. \A id \in T : m[id] \in Int
    BY <1>2
  <2> HIDE DEF m
  <2>2. \E f : Sums(f, m, T)
    BY <1>2, <2>1, SumsExist
  <2> QED BY <2>2 DEF m
<1> HIDE DEF first
<1>5. \E f : f = [s \in SUBSET T |-> first(f, s)]
  BY <1>3, <1>4
<1>6. iter = [s \in SUBSET T |-> first(iter, s)]
  BY <1>5
<1> HIDE DEF iter
<1>7. Sums(iter, AmountOf, T)
  BY <1>3, <1>6
<1>8. SumOver(AmountOf, T) = iter[T]
  <2> DEFINE m == AmountOf
  <2>1. Sums(iter, m, T) /\ \A id \in T : m[id] \in Int
    BY <1>2, <1>7
  <2> HIDE DEF m
  <2>2. SumOver(m, T) = iter[T]
    BY <1>2, <2>1, SumIs
  <2> QED BY <2>2 DEF m
<1> QED BY <1>1, <1>8

LEMMA BalanceIs ==
  ASSUME QueryKept, WalletKept, pc = "paid"
  PROVE  Balance = amounts
<1> DEFINE P == Passed(NoHash)
           concerns == {id \in Ids : /\ tip # NoHash /\ Exists(id) /\ OnChain(id[1], tip)
                                     /\ addr \in {TxOf(id).source, TxOf(id).target}}
           E == {TxOf(id).currency : id \in P}
           In(c) == {id \in {id \in P : TxOf(id).target = addr} : TxOf(id).currency = c}
           Out(c) == {id \in {id \in P : TxOf(id).source = addr} : TxOf(id).currency = c}
           mapped(T) == MapThenSumSet(LAMBDA id : TxOf(id).amount, T)
<1>1. QueryTypes /\ TipsKept /\ amounts = Moved(P) /\ P \in SUBSET Concerned
  BY DEF QueryKept, WalletKept, Passed
<1>2. concerns = P
  <2>1. ASSUME NEW id \in P PROVE id[1] \in stored
    <3>1. id[1] \in Hash /\ tip \in Hash /\ OnChain(id[1], tip)
      BY <1>1, IdParts DEF Passed, Concerned, QueryTypes
    <3> QED BY <1>1, <3>1, NoHashAssumption DEF TipsKept, ChainIn, QueryTypes
  <2> QED BY <2>1 DEF Passed, Concerned, Exists
<1>3. Balance = [c \in E |-> mapped(In(c)) - mapped(Out(c))]
  <2>1. Balance = [c \in {TxOf(id).currency : id \in concerns} |->
                     mapped({id \in {id \in concerns : TxOf(id).target = addr} : TxOf(id).currency = c})
                       - mapped({id \in {id \in concerns : TxOf(id).source = addr} : TxOf(id).currency = c})]
    BY DEF Balance
  <2> HIDE DEF concerns, P, mapped
  <2> QED BY <1>2, <2>1
<1>4. ASSUME NEW c
      PROVE  SumOver(Delta(c), P) = mapped(In(c)) - mapped(Out(c))
  <2> DEFINE f == AmountOf
             h == Delta(c)
             A == In(c)
             B == Out(c)
  <2>1. A \in SUBSET P /\ B \in SUBSET P /\ A \in SUBSET Concerned /\ B \in SUBSET Concerned
    BY <1>1
  <2>2. mapped(A) = SumOver(f, A) /\ mapped(B) = SumOver(f, B)
    <3> HIDE DEF A, B
    <3> QED BY <1>1, <2>1, MapSums
  <2>3. IsFiniteSet(P) /\ \A id \in P : f[id] \in Int
    BY <1>1, ConcernedTypes, DeltaTypes DEF AmountOf
  <2>4. \A id \in P : h[id] = Inside(f, A, id) - Inside(f, B, id)
    <3> SUFFICES ASSUME NEW id \in P PROVE h[id] = Inside(f, A, id) - Inside(f, B, id)
      OBVIOUS
    <3>1. id \in Concerned /\ TxOf(id).amount \in Int /\ f[id] = TxOf(id).amount
      BY <1>1, ConcernedTypes DEF AmountOf
    <3>2. h[id] = IF TxOf(id).currency = c THEN Received(id) - Spent(id) ELSE 0
      BY <3>1 DEF Delta
    <3> HIDE DEF f, h
    <3> QED BY <3>1, <3>2 DEF Inside, Received, Spent
  <2> HIDE DEF f, h, A, B, P, mapped
  <2>5. SumOver(h, P) = SumOver(f, A) - SumOver(f, B)
    BY <2>1, <2>3, <2>4, SumDifference
  <2> QED BY <2>2, <2>5 DEF h, A, B
<1>5. Moved(P) = [c \in E |-> SumOver(Delta(c), P)]
  BY DEF Moved
<1> HIDE DEF E, P, In, Out, mapped
<1> QED BY <1>1, <1>3, <1>4, <1>5

(* A wallet answers what the chain of the last hash moved to its address,    *)
(* less what it moved away, per currency, for all forests of blocks and all  *)
(* transactions in them (wallet.cpp:34-76).                                  *)
THEOREM QueryWallets == Spec => []WalletIsBalance
<1>1. Init => WalletKept
  BY DEF Init, WalletKept
<1>2. QueryKept /\ WalletKept /\ [Next]_vars => WalletKept'
  BY WalletStep
<1>3. QueryKept /\ WalletKept => WalletIsBalance
  BY BalanceIs DEF WalletIsBalance, Currencies, AmountIn
<1> QED BY <1>1, <1>2, <1>3, QueriesKeep, PTL DEF Spec
===============================================================================

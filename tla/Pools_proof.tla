------------------------------ MODULE Pools_proof ------------------------------
(***************************************************************************)
(* Proofs about module Pools.  Every operation gives a pool, a transaction *)
(* or a database entry a new value that is made of earlier ones, so the    *)
(* invariant says what a value is, and there is one lemma for each way to  *)
(* make a value: it makes a sound one of sound ones.                       *)
(***************************************************************************)
EXTENDS Pools, SequenceTheorems, TLAPS

-----------------------------------------------------------------------------
(* What the values are. *)

AnyMeta == Meta \cup {NoMeta}

\* The contents of blocks, and the hashes and identifiers made of them.
Contents == [meta : AnyMeta, txs : Seq(AnyData)]
BlockHashes == [hashOf : Contents]
BlockIds == [hash : BlockHashes, index : Nat]

Txs == [data : AnyData, id : BlockIds \cup {NoId}]

PoolValues ==
  [valid : BOOLEAN, ro : BOOLEAN, hash : BlockHashes \cup {NoHash}, meta : AnyMeta,
   txs : Seq(Txs), bytes : Contents \cup {NoBytes}, base : AnyBase]

Entries == UNION {[S -> Contents] : S \in SUBSET BlockHashes}

(* A pool is read-only exactly when it has a hash, which is that of its      *)
(* bytes; in a program that does not use the ways around read_only_ its      *)
(* fields are what its bytes say; and none of its transactions has an        *)
(* identifier that lies.                                                     *)
Named(v) ==
  IF v.ro THEN v.bytes \in Contents /\ v.hash = HashOf(v.bytes) ELSE v.hash = NoHash
Frozen(v) == ~escapes /\ v.ro => v.bytes = Put(v)
Told(v) == \A i \in DOMAIN v.txs : Truthful(v.txs[i])

SoundPool(v) == v \in PoolValues /\ Named(v) /\ Frozen(v) /\ Told(v)
SoundTx(t) == t \in Txs /\ Truthful(t)
SoundEntries(s) == s \in Entries /\ \A h \in DOMAIN s : HashOf(s[h]) = h

(* The inductive invariant. *)
PoolsSound ==
  /\ pool = [p \in Handle |-> pool[p]] /\ \A p \in Handle : SoundPool(pool[p])
  /\ item = [t \in Item |-> item[t]] /\ \A t \in Item : SoundTx(item[t])
  /\ store = [b \in Base |-> store[b]] /\ \A b \in Base : SoundEntries(store[b])
  /\ open \subseteq Base /\ default \in Base

-----------------------------------------------------------------------------
(* Facts about sequences and about the values. *)

LEMMA MapSeq ==
  ASSUME NEW S, NEW T, NEW s \in Seq(S), NEW f, f = [i \in DOMAIN s |-> f[i]],
         \A i \in DOMAIN s : f[i] \in T
  PROVE  f \in Seq(T) /\ DOMAIN f = DOMAIN s
<1>1. Len(s) \in Nat /\ DOMAIN s = 1 .. Len(s)
  BY LenProperties
<1>2. f = [i \in 1 .. Len(s) |-> f[i]] /\ \A i \in 1 .. Len(s) : f[i] \in T
  BY <1>1
<1>3. f \in [1 .. Len(s) -> T]
  BY <1>2
<1>4. f \in UNION {[1 .. n -> T] : n \in Nat}
  BY <1>1, <1>3
<1> QED  BY <1>1, <1>2, <1>4, SeqDef

LEMMA BytesAreNot == NoBytes \notin Contents
<1> SUFFICES ASSUME NoBytes \in Contents PROVE FALSE
  OBVIOUS
<1>1. DOMAIN NoBytes = {"meta", "txs"}
  BY DEF Contents
<1>2. DOMAIN NoBytes = {}
  BY DEF NoBytes
<1> QED  BY <1>1, <1>2

LEMMA HashIsOfBytes ==
  ASSUME NEW c \in Contents
  PROVE  HashOf(c) \in BlockHashes /\ BytesOf(HashOf(c)) = c
BY DEF HashOf, BytesOf, BlockHashes

LEMMA EmptyPoolIsSound == SoundPool(EmptyPool)
<1>1. <<>> \in Seq(Txs)
  BY EmptySeq
<1> QED
  BY <1>1 DEF EmptyPool, SoundPool, PoolValues, Named, Frozen, Told, AnyMeta, AnyBase

\* A transaction that was never put into a block.
LEMMA NewTxIsSound ==
  ASSUME NEW d \in AnyData
  PROVE  SoundTx(Tx(d, NoId))
BY DEF SoundTx, Tx, Txs, Truthful

-----------------------------------------------------------------------------
(* Making the bytes of a pool, and making a pool of bytes. *)

LEMMA PutIsContent ==
  ASSUME NEW v \in PoolValues
  PROVE  /\ Put(v) \in Contents
         /\ DOMAIN Put(v).txs = DOMAIN v.txs
         /\ \A i \in DOMAIN v.txs : Put(v).txs[i] = v.txs[i].data
<1> DEFINE f == [i \in DOMAIN v.txs |-> v.txs[i].data]
<1>1. v.txs \in Seq(Txs) /\ v.meta \in AnyMeta
  BY DEF PoolValues
<1>2. \A i \in DOMAIN v.txs : v.txs[i] \in Txs
  BY <1>1, LenProperties, ElementOfSeq
<1>3. \A i \in DOMAIN v.txs : f[i] \in AnyData
  BY <1>2 DEF Txs
<1>4. f \in Seq(AnyData) /\ DOMAIN f = DOMAIN v.txs
  <2> HIDE DEF f
  <2>1. f = [i \in DOMAIN v.txs |-> f[i]]
    BY DEF f
  <2> QED  BY <1>1, <1>3, <2>1, MapSeq
<1>5. Put(v) = [meta |-> v.meta, txs |-> f]
  BY DEF Put
<1>6. Put(v).txs = f
  BY <1>5
<1>7. Put(v) \in Contents
  BY <1>1, <1>4, <1>5 DEF Contents
<1> QED  BY <1>4, <1>6, <1>7

\* update_transactions of a pool whose bytes have its transactions: the pool
\* is named by the hash of its bytes, and its transactions by their places.
LEMMA UpdatedIsSound ==
  ASSUME NEW v \in PoolValues, v.bytes \in Contents, v.bytes = Put(v)
  PROVE  /\ SoundPool(UpdateTransactions(v))
         /\ UpdateTransactions(v).bytes = v.bytes
         /\ UpdateTransactions(v).ro
<1> DEFINE hash == HashOf(v.bytes)
           f == [i \in DOMAIN v.txs |-> Tx(v.txs[i].data, Id(hash, i))]
           u == UpdateTransactions(v)
<1>1. /\ v.txs \in Seq(Txs)
      /\ \A i \in DOMAIN v.txs : i \in Nat /\ v.txs[i] \in Txs
  <2>1. v.txs \in Seq(Txs)
    BY DEF PoolValues
  <2> QED  BY <2>1, LenProperties, ElementOfSeq
<1>2. hash \in BlockHashes /\ BytesOf(hash) = v.bytes
  BY HashIsOfBytes
<1>3. \A i \in DOMAIN v.txs :
        /\ f[i].data = v.txs[i].data /\ f[i].id = Id(hash, i)
        /\ f[i] \in Txs
  BY <1>1, <1>2 DEF Tx, Id, Txs, BlockIds
<1>4. f \in Seq(Txs) /\ DOMAIN f = DOMAIN v.txs
  <2> HIDE DEF f
  <2>1. f = [i \in DOMAIN v.txs |-> f[i]]
    BY DEF f
  <2> QED  BY <1>1, <1>3, <2>1, MapSeq
<1>5. u = [v EXCEPT !.ro = TRUE, !.hash = hash, !.txs = f]
  BY DEF UpdateTransactions
<1>6. /\ u \in PoolValues /\ u.ro = TRUE /\ u.hash = hash /\ u.txs = f
      /\ u.bytes = v.bytes /\ u.meta = v.meta
  <2> HIDE DEF f, hash, u
  <2> QED  BY <1>2, <1>4, <1>5 DEF PoolValues
<1> HIDE DEF f, u
<1>7. Put(u) = Put(v)
  <2>1. [i \in DOMAIN u.txs |-> u.txs[i].data] = [i \in DOMAIN v.txs |-> v.txs[i].data]
    BY <1>3, <1>4, <1>6
  <2> QED  BY <1>6, <2>1 DEF Put
<1>8. Told(u)
  <2> SUFFICES ASSUME NEW i \in DOMAIN u.txs PROVE Truthful(u.txs[i])
    BY DEF Told
  <2>1. /\ i \in DOMAIN v.txs /\ u.txs[i].id = Id(hash, i)
        /\ u.txs[i].data = v.txs[i].data
    BY <1>3, <1>4, <1>6
  <2>2. u.txs[i].id.index = i /\ BytesOf(u.txs[i].id.hash) = v.bytes
    BY <1>2, <2>1 DEF Id
  <2>3. i \in DOMAIN v.bytes.txs /\ v.bytes.txs[i] = v.txs[i].data
    BY <2>1, PutIsContent
  <2> QED  BY <2>1, <2>2, <2>3 DEF Truthful
<1> QED  BY <1>6, <1>7, <1>8 DEF SoundPool, Named, Frozen, u

LEMMA ComposedIsSound ==
  ASSUME NEW v \in PoolValues
  PROVE  SoundPool(Composed(v))
<1> DEFINE w == [v EXCEPT !.bytes = Put(v)]
<1>1. Put(v) \in Contents
  BY PutIsContent
<1>2. w \in PoolValues /\ w.bytes = Put(v) /\ w.txs = v.txs /\ w.meta = v.meta
  BY <1>1 DEF PoolValues
<1>3. w.bytes = Put(w)
  BY <1>2 DEF Put
<1> HIDE DEF w
<1>4. SoundPool(UpdateTransactions(w))
  BY <1>1, <1>2, <1>3, UpdatedIsSound
<1> QED  BY <1>4 DEF Composed, w

\* Reading bytes gives back a pool of which they are the bytes.
LEMMA GetIsSound ==
  ASSUME NEW c \in Contents
  PROVE  /\ SoundPool(Get(c)) /\ ~Get(c).ro
         /\ Put(Get(c)) = c
<1> DEFINE f == [i \in DOMAIN c.txs |-> Tx(c.txs[i], NoId)]
           g == Get(c)
<1>1. /\ c.txs \in Seq(AnyData) /\ c.meta \in AnyMeta
      /\ \A i \in DOMAIN c.txs : c.txs[i] \in AnyData
  <2>1. c.txs \in Seq(AnyData) /\ c.meta \in AnyMeta
    BY DEF Contents
  <2> QED  BY <2>1, LenProperties, ElementOfSeq
<1>2. \A i \in DOMAIN c.txs : f[i].data = c.txs[i] /\ SoundTx(f[i])
  <2> SUFFICES ASSUME NEW i \in DOMAIN c.txs PROVE f[i].data = c.txs[i] /\ SoundTx(f[i])
    OBVIOUS
  <2>1. f[i] = Tx(c.txs[i], NoId) /\ c.txs[i] \in AnyData
    BY <1>1
  <2>2. SoundTx(f[i])
    BY <2>1, NewTxIsSound
  <2> QED  BY <2>1, <2>2 DEF Tx
<1>3. f \in Seq(Txs) /\ DOMAIN f = DOMAIN c.txs
  <2> HIDE DEF f
  <2>1. f = [i \in DOMAIN c.txs |-> f[i]]
    BY DEF f
  <2>2. \A i \in DOMAIN c.txs : f[i] \in Txs
    BY <1>2 DEF SoundTx
  <2> QED  BY <1>1, <2>1, <2>2, MapSeq
<1>4. g = [EmptyPool EXCEPT !.valid = TRUE, !.meta = c.meta, !.txs = f]
  BY DEF Get
<1>5. /\ g \in PoolValues /\ g.txs = f /\ g.meta = c.meta /\ g.ro = FALSE /\ g.hash = NoHash
  <2> HIDE DEF f, g
  <2> QED  BY <1>1, <1>3, <1>4 DEF EmptyPool, PoolValues, AnyMeta, AnyBase
<1> HIDE DEF f, g
<1>6. Put(g) = c
  <2>1. [i \in DOMAIN g.txs |-> g.txs[i].data] = c.txs
    <3>1. c.txs = [i \in DOMAIN c.txs |-> c.txs[i]]
      BY <1>1, LenProperties, SeqDef
    <3> QED  BY <1>2, <1>3, <1>5, <3>1
  <2>2. Put(g) = [meta |-> c.meta, txs |-> c.txs]
    BY <1>5, <2>1 DEF Put
  <2>3. c = [meta |-> c.meta, txs |-> c.txs]
    BY DEF Contents
  <2> QED  BY <2>2, <2>3
<1>7. Told(g)
  BY <1>2, <1>3, <1>5 DEF Told, SoundTx
<1>8. SoundPool(g)
  BY <1>5, <1>7 DEF SoundPool, Named, Frozen
<1> QED  BY <1>5, <1>6, <1>8 DEF g

LEMMA FromBinaryIsSound ==
  ASSUME NEW c \in Contents
  PROVE  SoundPool(FromBinary(c))
<1> DEFINE w == [Get(c) EXCEPT !.bytes = c]
<1>1. Get(c) \in PoolValues /\ Put(Get(c)) = c
  BY GetIsSound DEF SoundPool
<1>2. w \in PoolValues /\ w.bytes = c /\ w.txs = Get(c).txs /\ w.meta = Get(c).meta
  BY <1>1 DEF PoolValues
<1>3. w.bytes = Put(w)
  BY <1>1, <1>2 DEF Put
<1> HIDE DEF w
<1>4. SoundPool(UpdateTransactions(w))
  BY <1>2, <1>3, UpdatedIsSound
<1> QED  BY <1>4 DEF FromBinary, w

LEMMA MetaFromBinaryIsSound ==
  ASSUME NEW c \in Contents
  PROVE  SoundPool(MetaFromBinary(c))
<1> DEFINE m == MetaFromBinary(c)
<1>1. <<>> \in Seq(Txs) /\ c.meta \in AnyMeta
  BY EmptySeq DEF Contents
<1>2. m = [EmptyPool EXCEPT !.meta = c.meta, !.bytes = c]
  BY DEF MetaFromBinary
<1>3. m \in PoolValues /\ m.txs = <<>> /\ m.ro = FALSE /\ m.hash = NoHash
  <2> HIDE DEF m
  <2> QED  BY <1>1, <1>2 DEF EmptyPool, PoolValues, AnyMeta, AnyBase
<1>4. Told(m)
  BY <1>3 DEF Told
<1> QED  BY <1>3, <1>4 DEF SoundPool, Named, Frozen

-----------------------------------------------------------------------------
(* What a step leaves, and what it reads. *)

\* Soundness is of the value alone, since the kind of program never changes.
LEMMA SoundAfter ==
  ASSUME NEW v, SoundPool(v), UNCHANGED escapes
  PROVE  SoundPool(v)'
BY DEF SoundPool, Frozen

LEMMA BecomesKeeps ==
  ASSUME PoolsSound, UNCHANGED escapes, NEW p \in Handle, NEW v, SoundPool(v), Becomes(p, v)
  PROVE  PoolsSound'
<1>1. /\ pool' = [q \in Handle |-> pool'[q]]
      /\ \A q \in Handle : pool'[q] = IF q = p THEN v ELSE pool[q]
  BY DEF Becomes, PoolsSound
<1>2. ASSUME NEW q \in Handle PROVE SoundPool(pool[q])'
  <2> DEFINE new == IF q = p THEN v ELSE pool[q]
  <2>1. SoundPool(new)
    BY DEF PoolsSound
  <2>2. pool'[q] = new
    BY <1>1
  <2> HIDE DEF new
  <2> QED  BY <2>1, <2>2 DEF SoundPool, Named, Frozen, Told
<1> QED  BY <1>1, <1>2 DEF Becomes, PoolsSound, storages

\* The same for a transaction of the program.
LEMMA ItemKeeps ==
  ASSUME PoolsSound, UNCHANGED <<escapes, pool, storages>>, NEW t \in Item, NEW v, SoundTx(v),
         item' = [item EXCEPT ![t] = v]
  PROVE  PoolsSound'
<1>1. /\ item' = [u \in Item |-> item'[u]]
      /\ \A u \in Item : item'[u] = IF u = t THEN v ELSE item[u]
  BY DEF PoolsSound
<1>2. \A u \in Item : SoundTx(item'[u])
  BY <1>1 DEF PoolsSound
<1>3. \A p \in Handle : SoundPool(pool[p])'
  BY DEF PoolsSound, SoundPool, Frozen
<1> QED  BY <1>1, <1>2, <1>3 DEF PoolsSound, storages

\* The transactions of a pool can be handed out.
LEMMA TxsAreSound ==
  ASSUME NEW v, SoundPool(v)
  PROVE  /\ v.txs \in Seq(Txs)
         /\ \A i \in DOMAIN v.txs : SoundTx(v.txs[i])
<1>1. v.txs \in Seq(Txs)
  BY DEF SoundPool, PoolValues
<1>2. \A i \in DOMAIN v.txs : v.txs[i] \in Txs
  BY <1>1, LenProperties, ElementOfSeq
<1> QED  BY <1>1, <1>2 DEF SoundPool, Told, SoundTx

\* Wherever the program gets bytes from, they are a block's.
LEMMA BytesAreContents == PoolsSound => Bytes \ {NoBytes} \subseteq Contents
<1> SUFFICES ASSUME PoolsSound, NEW c \in Bytes, c # NoBytes PROVE c \in Contents
  OBVIOUS
<1>1. CASE \E p \in Handle : c = pool[p].bytes
  BY <1>1 DEF PoolsSound, SoundPool, PoolValues
<1>2. CASE \E b \in Base : \E h \in DOMAIN store[b] : c = BytesOf(h)
  <2>1. PICK b \in Base : \E h \in DOMAIN store[b] : c = BytesOf(h)
    BY <1>2
  <2>2. PICK h \in DOMAIN store[b] : c = BytesOf(h)
    BY <2>1
  <2>3. h \in BlockHashes
    BY <2>2 DEF PoolsSound, SoundEntries, Entries
  <2> QED  BY <2>2, <2>3 DEF BytesOf, BlockHashes
<1> QED  BY <1>1, <1>2 DEF Bytes

\* A pool that gets other transactions, sound ones, before it is composed or in
\* a program that goes around read_only_.
LEMMA OtherTxs ==
  ASSUME NEW v, SoundPool(v), ~v.ro \/ escapes,
         NEW s \in Seq(Txs), \A i \in DOMAIN s : Truthful(s[i])
  PROVE  SoundPool([v EXCEPT !.txs = s])
<1> DEFINE w == [v EXCEPT !.txs = s]
<1>1. /\ w \in PoolValues /\ w.txs = s /\ w.ro = v.ro /\ w.hash = v.hash
      /\ w.bytes = v.bytes
  BY DEF SoundPool, PoolValues
<1> HIDE DEF w
<1>2. SoundPool(w)
  BY <1>1 DEF SoundPool, Named, Frozen, Told
<1> QED  BY <1>2 DEF w

LEMMA OneMoreTx ==
  ASSUME NEW v, SoundPool(v), ~v.ro \/ escapes, NEW t, SoundTx(t)
  PROVE  SoundPool([v EXCEPT !.txs = Append(@, t)])
<1>1. v.txs \in Seq(Txs) /\ \A i \in DOMAIN v.txs : Truthful(v.txs[i])
  BY DEF SoundPool, PoolValues, Told
<1>2. t \in Txs /\ Truthful(t)
  BY DEF SoundTx
<1> DEFINE s == Append(v.txs, t)
<1>3. s \in Seq(Txs) /\ \A i \in DOMAIN s : Truthful(s[i])
  <2>1. /\ s \in Seq(Txs) /\ Len(s) = Len(v.txs) + 1 /\ s[Len(v.txs) + 1] = t
        /\ \A i \in 1 .. Len(v.txs) : s[i] = v.txs[i]
    BY <1>1, <1>2, AppendProperties
  <2>2. DOMAIN s = 1 .. Len(s) /\ DOMAIN v.txs = 1 .. Len(v.txs) /\ Len(v.txs) \in Nat
    BY <1>1, <2>1, LenProperties
  <2> HIDE DEF s
  <2> QED  BY <1>1, <1>2, <2>1, <2>2
<1> HIDE DEF s
<1>4. SoundPool([v EXCEPT !.txs = s])
  BY <1>3, OtherTxs
<1> QED  BY <1>4 DEF s

\* A pool that is moved to another storage, or becomes valid by that.
LEMMA OtherBase ==
  ASSUME NEW v, SoundPool(v), NEW b \in AnyBase, NEW valid \in BOOLEAN
  PROVE  /\ SoundPool([v EXCEPT !.base = b])
         /\ SoundPool([v EXCEPT !.valid = valid, !.base = b])
<1> DEFINE w == [v EXCEPT !.base = b]   x == [v EXCEPT !.valid = valid, !.base = b]
<1>1. /\ w \in PoolValues /\ w.txs = v.txs /\ w.ro = v.ro /\ w.hash = v.hash
      /\ w.bytes = v.bytes /\ w.meta = v.meta
  BY DEF SoundPool, PoolValues
<1>2. /\ x \in PoolValues /\ x.txs = v.txs /\ x.ro = v.ro /\ x.hash = v.hash
      /\ x.bytes = v.bytes /\ x.meta = v.meta
  BY DEF SoundPool, PoolValues
<1> HIDE DEF w, x
<1>3. SoundPool(w)
  BY <1>1 DEF SoundPool, Named, Frozen, Told, Put
<1>4. SoundPool(x)
  BY <1>2 DEF SoundPool, Named, Frozen, Told, Put
<1> QED  BY <1>3, <1>4 DEF w, x

\* A pool that is not composed may have any fields and any bytes.
LEMMA OtherFields ==
  ASSUME NEW v, SoundPool(v), ~v.ro, NEW m \in AnyMeta
  PROVE  /\ SoundPool([v EXCEPT !.valid = TRUE, !.meta = m])
         /\ SoundPool([v EXCEPT !.bytes = Put(v)])
<1> DEFINE w == [v EXCEPT !.valid = TRUE, !.meta = m]   x == [v EXCEPT !.bytes = Put(v)]
<1>1. Put(v) \in Contents
  BY PutIsContent DEF SoundPool
<1>2. /\ w \in PoolValues /\ w.txs = v.txs /\ w.ro = v.ro /\ w.hash = v.hash
  BY DEF SoundPool, PoolValues
<1>3. /\ x \in PoolValues /\ x.txs = v.txs /\ x.ro = v.ro /\ x.hash = v.hash
  BY <1>1 DEF SoundPool, PoolValues
<1> HIDE DEF w, x
<1>4. SoundPool(w)
  BY <1>2 DEF SoundPool, Named, Frozen, Told
<1>5. SoundPool(x)
  BY <1>3 DEF SoundPool, Named, Frozen, Told
<1> QED  BY <1>4, <1>5 DEF w, x

-----------------------------------------------------------------------------
(* Every step keeps the invariant. *)

LEMMA PoolsInit == Init => PoolsSound
<1> SUFFICES ASSUME Init PROVE PoolsSound
  OBVIOUS
<1>1. \A p \in Handle : SoundPool(pool[p])
  BY EmptyPoolIsSound DEF Init
<1>2. \A t \in Item : SoundTx(item[t])
  BY NewTxIsSound DEF Init, AnyData
<1>3. \A b \in Base : SoundEntries(store[b])
  <2>1. <<>> \in [{} -> Contents]
    OBVIOUS
  <2>2. SoundEntries(<<>>)
    BY <2>1 DEF SoundEntries, Entries
  <2> QED  BY <2>2 DEF Init
<1> QED  BY <1>1, <1>2, <1>3 DEF PoolsSound, Init

LEMMA TransactionKeeps ==
  ASSUME PoolsSound, UNCHANGED escapes, NEW t \in Item,
         \/ \E d \in AnyData : NewTransaction(t, d) \/ EditTransaction(t, d)
         \/ \E p \in Handle : \/ FindTransaction(t, p)
                              \/ \E i \in 1 .. MaxTx : TakeTransaction(t, p, i)
  PROVE  PoolsSound'
<1>1. ASSUME NEW d \in AnyData, NewTransaction(t, d) PROVE PoolsSound'
  BY <1>1, NewTxIsSound, ItemKeeps DEF NewTransaction
<1>2. ASSUME NEW d \in AnyData, EditTransaction(t, d) PROVE PoolsSound'
  <2> DEFINE new == [item[t] EXCEPT !.data = d]
  <2>1. SoundTx(new)
    BY <1>2 DEF EditTransaction, ReadOnlyTx, PoolsSound, SoundTx, Txs, Truthful
  <2>2. item' = [item EXCEPT ![t] = new]
    BY <1>2 DEF EditTransaction
  <2> HIDE DEF new
  <2> QED  BY <1>2, <2>1, <2>2, ItemKeeps DEF EditTransaction
<1>3. ASSUME NEW p \in Handle, FindTransaction(t, p) PROVE PoolsSound'
  <2>1. SoundPool(pool[p])
    BY DEF PoolsSound
  <2>2. SoundTx(Tx(NoData, NoId))
    BY NewTxIsSound DEF AnyData
  <2>3. PICK new : SoundTx(new) /\ item' = [item EXCEPT ![t] = new]
    BY <1>3, <2>1, <2>2, TxsAreSound DEF FindTransaction
  <2> QED  BY <1>3, <2>3, ItemKeeps DEF FindTransaction
<1>4. ASSUME NEW p \in Handle, NEW i \in 1 .. MaxTx, TakeTransaction(t, p, i) PROVE PoolsSound'
  <2>1. SoundPool(pool[p])
    BY DEF PoolsSound
  <2>2. SoundTx(Tx(NoData, NoId))
    BY NewTxIsSound DEF AnyData
  <2>3. PICK new : SoundTx(new) /\ item' = [item EXCEPT ![t] = new]
    BY <1>4, <2>1, <2>2, TxsAreSound DEF TakeTransaction
  <2> QED  BY <1>4, <2>3, ItemKeeps DEF TakeTransaction
<1> QED  BY <1>1, <1>2, <1>3, <1>4

LEMMA PoolKeeps ==
  ASSUME PoolsSound, UNCHANGED escapes, NEW p \in Handle,
         \/ \E m \in Meta, b \in AnyBase : NewPool(p, m, b)
         \/ \E q \in Handle : CopyPool(p, q)
         \/ \E m \in Meta : SetMeta(p, m)
         \/ \E b \in AnyBase : SetStorage(p, b)
         \/ Compose(p) \/ ToByteStream(p) \/ Decode(p)
  PROVE  PoolsSound'
<1>0. SoundPool(pool[p]) /\ pool[p] \in PoolValues
  BY DEF PoolsSound, SoundPool
<1>1. ASSUME NEW m \in Meta, NEW b \in AnyBase, NewPool(p, m, b) PROVE PoolsSound'
  <2> DEFINE new == [EmptyPool EXCEPT !.valid = TRUE, !.meta = m, !.base = b]
  <2>1. /\ new \in PoolValues /\ new.ro = FALSE /\ new.hash = NoHash /\ new.txs = <<>>
    <3>1. EmptyPool \in PoolValues
      BY EmptyPoolIsSound DEF SoundPool
    <3>2. EmptyPool.ro = FALSE /\ EmptyPool.hash = NoHash /\ EmptyPool.txs = <<>>
      BY DEF EmptyPool
    <3> QED  BY <3>1, <3>2 DEF PoolValues, AnyMeta
  <2> HIDE DEF new
  <2>2. SoundPool(new)
    BY <2>1 DEF SoundPool, Named, Frozen, Told
  <2> QED  BY <1>1, <2>2, BecomesKeeps DEF NewPool, new
<1>2. ASSUME NEW q \in Handle, CopyPool(p, q) PROVE PoolsSound'
  <2>1. SoundPool(pool[q])
    BY DEF PoolsSound
  <2> QED  BY <1>2, <2>1, BecomesKeeps DEF CopyPool
<1>3. ASSUME NEW m \in Meta, SetMeta(p, m) PROVE PoolsSound'
  BY <1>0, <1>3, OtherFields, BecomesKeeps DEF SetMeta, AnyMeta
<1>4. ASSUME NEW b \in AnyBase, SetStorage(p, b) PROVE PoolsSound'
  BY <1>0, <1>4, OtherBase, BecomesKeeps DEF SetStorage
<1>5. ASSUME Compose(p) PROVE PoolsSound'
  BY <1>0, <1>5, ComposedIsSound, BecomesKeeps DEF Compose
<1>6. ASSUME ToByteStream(p) PROVE PoolsSound'
  <2>1. ~pool[p].ro /\ NoMeta \in AnyMeta
    BY <1>0, <1>6, BytesAreNot DEF ToByteStream, SoundPool, Named, AnyMeta
  <2> QED  BY <1>0, <1>6, <2>1, OtherFields, BecomesKeeps DEF ToByteStream
<1>7. ASSUME Decode(p) PROVE PoolsSound'
  <2>1. PICK c \in (Bytes \ {NoBytes}) \cup {NoBytes} :
          \/ c \in Bytes \ {NoBytes} /\ Becomes(p, FromBinary(c))
          \/ c \in Bytes \ {NoBytes} /\ Becomes(p, Get(c))
          \/ c \in Bytes \ {NoBytes} /\ Becomes(p, MetaFromBinary(c))
          \/ Becomes(p, EmptyPool)
    BY <1>7 DEF Decode
  <2> QED
    BY <2>1, BytesAreContents, FromBinaryIsSound, GetIsSound, MetaFromBinaryIsSound,
       EmptyPoolIsSound, BecomesKeeps
<1> QED  BY <1>1, <1>2, <1>3, <1>4, <1>5, <1>6, <1>7

LEMMA TxsKeep ==
  ASSUME PoolsSound, UNCHANGED escapes, NEW p \in Handle,
         \/ \E t \in Item : AddTransaction(p, t) \/ EditTransactions(p, t)
         \/ Clear(p)
  PROVE  PoolsSound'
<1>0. SoundPool(pool[p]) /\ pool[p].txs \in Seq(Txs)
  BY DEF PoolsSound, SoundPool, PoolValues
<1>1. ASSUME NEW t \in Item, AddTransaction(p, t) PROVE PoolsSound'
  <2>1. SoundTx(Tx(item[t].data, NoId))
    BY NewTxIsSound DEF PoolsSound, SoundTx, Txs
  <2>2. SoundPool([pool[p] EXCEPT !.txs = Append(@, Tx(item[t].data, NoId))])
    BY <1>0, <1>1, <2>1, OneMoreTx DEF AddTransaction
  <2> QED  BY <1>1, <2>2, BecomesKeeps DEF AddTransaction
<1>2. ASSUME NEW t \in Item, EditTransactions(p, t) PROVE PoolsSound'
  <2>1. SoundTx(item[t]) /\ item[t] \in Txs /\ Truthful(item[t])
    BY DEF PoolsSound, SoundTx
  <2>2. CASE Becomes(p, [pool[p] EXCEPT !.txs = Append(@, item[t])])
    <3>1. SoundPool([pool[p] EXCEPT !.txs = Append(@, item[t])])
      BY <1>0, <1>2, <2>1, OneMoreTx DEF EditTransactions
    <3> QED  BY <2>2, <3>1, BecomesKeeps
  <2>3. ASSUME NEW i \in DOMAIN pool[p].txs,
               Becomes(p, [pool[p] EXCEPT !.txs[i] = item[t]])
        PROVE  PoolsSound'
    <3> DEFINE s == [pool[p].txs EXCEPT ![i] = item[t]]
    <3>1. DOMAIN pool[p].txs = 1 .. Len(pool[p].txs)
      BY <1>0, LenProperties
    <3>2. /\ s \in Seq(Txs) /\ DOMAIN s = DOMAIN pool[p].txs
          /\ \A j \in DOMAIN pool[p].txs : s[j] = IF j = i THEN item[t] ELSE pool[p].txs[j]
      BY <1>0, <2>1, <3>1, ExceptSeq, Zenon
    <3>3. \A j \in DOMAIN s : Truthful(s[j])
      BY <1>0, <2>1, <3>2 DEF SoundPool, Told
    <3> HIDE DEF s
    <3>4. SoundPool([pool[p] EXCEPT !.txs = s])
      BY <1>0, <1>2, <3>2, <3>3, OtherTxs DEF EditTransactions
    <3> QED  BY <2>3, <3>4, BecomesKeeps DEF s
  <2> QED  BY <1>2, <2>2, <2>3 DEF EditTransactions
<1>3. ASSUME Clear(p) PROVE PoolsSound'
  <2>1. <<>> \in Seq(Txs) /\ \A i \in DOMAIN <<>> : Truthful(<<>>[i])
    BY EmptySeq
  <2>2. SoundPool([pool[p] EXCEPT !.txs = <<>>])
    BY <1>0, <1>3, <2>1, OtherTxs DEF Clear
  <2> QED  BY <1>3, <2>2, BecomesKeeps DEF Clear
<1> QED  BY <1>1, <1>2, <1>3

LEMMA SaveKeeps ==
  ASSUME PoolsSound, UNCHANGED escapes, NEW p \in Handle, NEW candidate \in AnyBase,
         Save(p, candidate)
  PROVE  PoolsSound'
<1> DEFINE b == GetStorage(pool[p], candidate)
           h == pool[p].hash
           c == pool[p].bytes
           new == [k \in DOMAIN store[b] \cup {h} |-> IF k = h THEN c ELSE store[b][k]]
<1>1. SoundPool(pool[p]) /\ pool[p].ro
  BY DEF PoolsSound, Save
<1>2. b \in Base /\ store' = [store EXCEPT ![b] = new]
  BY DEF Save, IsOpen, PoolsSound
<1>3. c \in Contents /\ h = HashOf(c) /\ h \in BlockHashes
  BY <1>1, HashIsOfBytes DEF SoundPool, Named
<1>4. SoundEntries(new)
  <2>1. SoundEntries(store[b])
    BY <1>2 DEF PoolsSound
  <2>2. /\ DOMAIN store[b] \subseteq BlockHashes
        /\ \A k \in DOMAIN store[b] : store[b][k] \in Contents /\ HashOf(store[b][k]) = k
    BY <2>1 DEF SoundEntries, Entries
  <2> DEFINE S == DOMAIN store[b] \cup {h}
  <2>3. S \in SUBSET BlockHashes /\ new \in [S -> Contents]
    BY <1>3, <2>2
  <2>4. new \in Entries
    BY <2>3 DEF Entries
  <2>5. \A k \in DOMAIN new : HashOf(new[k]) = k
    BY <1>3, <2>2
  <2> QED  BY <2>4, <2>5 DEF SoundEntries
<1>5. /\ store' = [x \in Base |-> store'[x]]
      /\ \A x \in Base : SoundEntries(store'[x])
  <2> HIDE DEF new, b
  <2>1. \A x \in Base : store'[x] = IF x = b THEN new ELSE store[x]
    BY <1>2 DEF PoolsSound
  <2> QED  BY <1>2, <1>4, <2>1 DEF PoolsSound
<1>6. /\ pool' = [q \in Handle |-> pool'[q]]
      /\ \A q \in Handle : SoundPool(pool[q])'
  <2> DEFINE v == [pool[p] EXCEPT !.base = b]
  <2>1. pool' = [pool EXCEPT ![p] = v]
    BY DEF Save, PoolsSound
  <2>2. SoundPool(v)
    BY <1>1, <1>2, OtherBase DEF AnyBase
  <2> HIDE DEF v
  <2>3. ASSUME NEW q \in Handle PROVE SoundPool(pool[q])'
    <3> DEFINE w == IF q = p THEN v ELSE pool[q]
    <3>1. SoundPool(w) /\ pool'[q] = w
      BY <2>1, <2>2 DEF PoolsSound
    <3> HIDE DEF w
    <3> QED  BY <3>1 DEF SoundPool, Named, Frozen, Told
  <2> QED  BY <2>1, <2>3 DEF PoolsSound
<1> QED  BY <1>5, <1>6 DEF Save, PoolsSound

LEMMA LoadKeeps ==
  ASSUME PoolsSound, UNCHANGED escapes, NEW p \in Handle, NEW candidate \in AnyBase,
         NEW h \in Hashes, Load(p, candidate, h)
  PROVE  PoolsSound'
<1> DEFINE b == IF IsOpen(candidate) THEN candidate ELSE default
<1>1. b \in Base
  BY DEF PoolsSound, IsOpen
<1> HIDE DEF b
<1>2. CASE IsOpen(b) /\ h \in DOMAIN store[b]
  <2> DEFINE c == store[b][h]
  <2>1. c \in Contents
    BY <1>1, <1>2 DEF PoolsSound, SoundEntries, Entries
  <2> HIDE DEF c
  <2>2. SoundPool([FromBinary(c) EXCEPT !.base = b])
    BY <1>1, <2>1, FromBinaryIsSound, OtherBase DEF AnyBase
  <2>3. Becomes(p, [FromBinary(c) EXCEPT !.base = b])
    BY <1>2 DEF Load, b, c
  <2> QED  BY <2>2, <2>3, BecomesKeeps
<1>3. CASE ~(IsOpen(b) /\ h \in DOMAIN store[b])
  BY <1>3, EmptyPoolIsSound, BecomesKeeps DEF Load, b
<1> QED  BY <1>2, <1>3

LEMMA StoragesKeep ==
  ASSUME PoolsSound, UNCHANGED escapes, NEW b \in Base,
         OpenStorage(b) \/ CloseStorage(b) \/ InitDefault(b)
  PROVE  PoolsSound'
<1>1. \A p \in Handle : SoundPool(pool[p])'
  BY DEF PoolsSound, SoundPool, Frozen, OpenStorage, CloseStorage, InitDefault
<1> QED  BY <1>1 DEF PoolsSound, OpenStorage, CloseStorage, InitDefault

LEMMA PoolsStep == PoolsSound /\ [Next]_vars => PoolsSound'
<1> SUFFICES ASSUME PoolsSound, [Next]_vars PROVE PoolsSound'
  OBVIOUS
<1>1. CASE Next
  BY <1>1, TransactionKeeps, PoolKeeps, TxsKeep, SaveKeeps, LoadKeeps, StoragesKeep DEF Next, Step
<1>2. CASE UNCHANGED vars
  <2>1. \A p \in Handle : SoundPool(pool[p])'
    BY <1>2 DEF PoolsSound, SoundPool, Frozen, vars
  <2> QED  BY <1>2, <2>1 DEF PoolsSound, vars
<1> QED  BY <1>1, <1>2

LEMMA PoolsAreSound == Spec => []PoolsSound
BY PoolsInit, PoolsStep, PTL DEF Spec

-----------------------------------------------------------------------------
(* The hash of a composed pool is that of its bytes, for every set of        *)
(* contents and every number of pools (pool.h:132-137).                      *)
THEOREM PoolHashes == Spec => []HashNamesBytes
<1>1. PoolsSound => HashNamesBytes
  BY DEF PoolsSound, SoundPool, Named, HashNamesBytes
<1> QED  BY <1>1, PoolsAreSound, PTL

(* A block is stored under the hash of its bytes, in every database and      *)
(* whatever the program did to its pools before (pool.cpp:407-437, 476-493). *)
THEOREM PoolEntries == Spec => []StoredUnderItsHash
<1>1. PoolsSound => StoredUnderItsHash
  BY DEF PoolsSound, SoundEntries, StoredUnderItsHash
<1> QED  BY <1>1, PoolsAreSound, PTL

(* A composed pool stays the block its hash names, in every program that     *)
(* does not use clear() or the reference of transactions().                  *)
THEOREM PoolsFreeze == Spec => []ComposedIsFrozen
<1>1. PoolsSound => ComposedIsFrozen
  BY DEF PoolsSound, SoundPool, Frozen, ComposedIsFrozen
<1> QED  BY <1>1, PoolsAreSound, PTL

(* A transaction that has an identifier is the one the identifier names, in  *)
(* every pool and every copy (transaction_p.h:55-78, pool.cpp:179-186, 328). *)
THEOREM PoolIdentifiers == Spec => []IdsAreTruthful
<1>1. PoolsSound => IdsAreTruthful
  BY DEF PoolsSound, SoundPool, SoundTx, Told, IdsAreTruthful
<1> QED  BY <1>1, PoolsAreSound, PTL
=============================================================================

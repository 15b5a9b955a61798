-------------------------------- MODULE Pools --------------------------------
(***************************************************************************)
(* Pools (blocks) and transactions in memory, from src/src/pool.cpp and    *)
(* src/src/transaction.cpp, and the storages they are saved to.  Copies of *)
(* a pool or a transaction are values (module SharedDataPtr).  A block's   *)
(* bytes are its content, and the hash tells contents apart.               *)
(***************************************************************************)
EXTENDS Integers, Sequences, FiniteSets

CONSTANTS
  Handle,     \* Pool objects of the program
  Item,       \* Transaction objects the program holds
  Meta,       \* previous hash, sequence number and user fields of a block
  NoMeta,     \* those of a default-constructed Pool
  Data,       \* fields of a valid transaction
  NoData,     \* fields of a transaction that is not valid
  Base,       \* Storage objects
  NoBase,     \* a Storage() nobody opened, or a WeakPtr that expired
  MaxTx,      \* bound on the transactions of a pool
  MaxStored,  \* bound on the blocks of a storage
  Escapes     \* the programs considered: using clear() and the reference of
              \* transactions() (TRUE), or not

ASSUME PoolsAssumption ==
  /\ NoMeta \notin Meta /\ NoData \notin Data /\ NoBase \notin Base
  /\ MaxTx \in Nat /\ MaxStored \in Nat /\ Escapes \subseteq BOOLEAN

NoBytes == <<>>
NoHash == <<>>
NoId == <<>>

AnyData == Data \cup {NoData}
AnyBase == Base \cup {NoBase}

\* PoolHash::calc_from_data: different contents have different hashes.
HashOf(bytes) == [hashOf |-> bytes]
BytesOf(hash) == hash.hashOf

VARIABLES
  escapes,   \* what kind of program this is; it never changes
  pool,      \* the value of each Pool object
  item,      \* the value of each Transaction object
  store,     \* what each storage's database holds
  open,      \* the storages that are open
  default    \* csdb's instance

vars == <<escapes, pool, item, store, open, default>>
storages == <<store, open, default>>

\* Transaction::priv: read_only_ is set with the id, and only there.
Tx(data, id) == [data |-> data, id |-> id]
Id(hash, i) == [hash |-> hash, index |-> i]
ReadOnlyTx(t) == t.id # NoId

\* Pool::priv.
EmptyPool ==
  [valid |-> FALSE, ro |-> FALSE, hash |-> NoHash, meta |-> NoMeta,
   txs |-> <<>>, bytes |-> NoBytes, base |-> NoBase]

\* Pool::priv::put, os.buffer().
Put(p) == [meta |-> p.meta, txs |-> [i \in DOMAIN p.txs |-> p.txs[i].data]]

\* Pool::priv::get of a block's bytes into a new Pool::priv.
Get(c) ==
  [EmptyPool EXCEPT !.valid = TRUE, !.meta = c.meta,
                    !.txs = [i \in DOMAIN c.txs |-> Tx(c.txs[i], NoId)]]

\* Pool::priv::update_transactions.
UpdateTransactions(p) ==
  LET hash == HashOf(p.bytes)
  IN  [p EXCEPT !.ro = TRUE, !.hash = hash,
                !.txs = [i \in DOMAIN p.txs |-> Tx(p.txs[i].data, Id(hash, i))]]

\* Mutant: bytes that to_byte_stream made earlier are taken for the block's (the
\* early return that compose() has commented out).
Composed_Cached(p) ==
  UpdateTransactions(IF p.bytes = NoBytes THEN [p EXCEPT !.bytes = Put(p)] ELSE p)

\* Pool::priv::compose.
Composed(p) == UpdateTransactions([p EXCEPT !.bytes = Put(p)])

\* Pool::from_binary.
FromBinary(c) == UpdateTransactions([Get(c) EXCEPT !.bytes = c])

\* Pool::meta_from_binary: the transactions are not read.
MetaFromBinary(c) == [EmptyPool EXCEPT !.meta = c.meta, !.bytes = c]

\* Block bytes within the program's reach.
Bytes == {pool[p].bytes : p \in Handle} \cup UNION {{BytesOf(h) : h \in DOMAIN store[b]} : b \in Base}

Init ==
  /\ escapes \in Escapes
  /\ pool = [p \in Handle |-> EmptyPool]
  /\ item = [t \in Item |-> Tx(NoData, NoId)]
  /\ store = [b \in Base |-> <<>>]
  /\ open = {}
  /\ default \in Base

-----------------------------------------------------------------------------
(* Transactions. *)

\* The constructors, and from_binary, from_byte_stream.
NewTransaction(t, d) ==
  /\ item' = [item EXCEPT ![t] = Tx(d, NoId)]
  /\ UNCHANGED <<pool, storages>>

\* Mutant: the setters do not look at read_only_.
EditTransaction_Always(t, d) ==
  /\ item' = [item EXCEPT ![t].data = d]
  /\ UNCHANGED <<pool, storages>>

\* set_source ... set_balance, add_user_field.
EditTransaction(t, d) ==
  /\ ~ReadOnlyTx(item[t])
  /\ item' = [item EXCEPT ![t].data = d]
  /\ UNCHANGED <<pool, storages>>

\* Pool::transaction(size_t).
TakeTransaction(t, p, i) ==
  /\ item' = [item EXCEPT ![t] = IF i \in DOMAIN pool[p].txs THEN pool[p].txs[i]
                                 ELSE Tx(NoData, NoId)]
  /\ UNCHANGED <<pool, storages>>

\* Pool::transaction(TransactionID), with the identifier of a transaction.
FindTransaction(t, p) ==
  LET id == item[t].id
      found == /\ pool[p].valid /\ pool[p].ro
               /\ id # NoId /\ id.hash = pool[p].hash /\ id.index \in DOMAIN pool[p].txs
  IN  /\ item' = [item EXCEPT ![t] = IF found THEN pool[p].txs[id.index] ELSE Tx(NoData, NoId)]
      /\ UNCHANGED <<pool, storages>>

-----------------------------------------------------------------------------
(* Pools. *)

Becomes(p, value) ==
  /\ pool' = [pool EXCEPT ![p] = value]
  /\ UNCHANGED <<item, storages>>

\* Pool(previous_hash, sequence, storage).
NewPool(p, m, b) ==
  Becomes(p, [EmptyPool EXCEPT !.valid = TRUE, !.meta = m, !.base = b])

CopyPool(p, q) == Becomes(p, pool[q])

\* The transaction is copied by Transaction::priv(const priv&), which leaves
\* out read_only_ and id_.
AddTransaction(p, t) ==
  /\ ~pool[p].ro
  /\ item[t].data # NoData
  /\ Len(pool[p].txs) < MaxTx
  /\ Becomes(p, [pool[p] EXCEPT !.txs = Append(@, Tx(item[t].data, NoId))])

\* set_sequence, set_previous_hash, add_user_field.
SetMeta(p, m) ==
  /\ ~pool[p].ro
  /\ Becomes(p, [pool[p] EXCEPT !.valid = TRUE, !.meta = m])

SetStorage(p, b) == Becomes(p, [pool[p] EXCEPT !.valid = TRUE, !.base = b])

Compose(p) ==
  /\ ~pool[p].ro /\ pool[p].valid
  /\ Becomes(p, Composed(pool[p]))

\* Mutant: the bytes are made anew each time.
ToByteStream_Always(p) == Becomes(p, [pool[p] EXCEPT !.bytes = Put(pool[p])])

ToByteStream(p) ==
  /\ pool[p].bytes = NoBytes
  /\ Becomes(p, [pool[p] EXCEPT !.bytes = Put(pool[p])])

\* from_binary, from_byte_stream, meta_from_binary of a block's bytes; what
\* they refuse is answered with Pool().
Decode(p) ==
  \/ \E c \in Bytes \ {NoBytes} : \/ Becomes(p, FromBinary(c))
                                  \/ Becomes(p, Get(c))
                                  \/ Becomes(p, MetaFromBinary(c))
  \/ Becomes(p, EmptyPool)

Clear(p) == escapes /\ Becomes(p, [pool[p] EXCEPT !.txs = <<>>])

\* Writes through the reference that transactions() returns.
EditTransactions(p, t) ==
  /\ escapes
  /\ \/ /\ Len(pool[p].txs) < MaxTx
        /\ Becomes(p, [pool[p] EXCEPT !.txs = Append(@, item[t])])
     \/ \E i \in DOMAIN pool[p].txs : Becomes(p, [pool[p] EXCEPT !.txs[i] = item[t]])

-----------------------------------------------------------------------------
(* Saving and loading. *)

IsOpen(b) == b \in open

\* Pool::priv::get_storage.
GetStorage(p, candidate) ==
  IF IsOpen(candidate) THEN candidate ELSE IF IsOpen(p.base) THEN p.base ELSE default

\* Mutant: the block is written from its fields.
Save_Writes(p, candidate) ==
  LET b == GetStorage(pool[p], candidate)
  IN  /\ pool[p].valid /\ pool[p].ro
      /\ IsOpen(b)
      /\ pool[p].hash \notin DOMAIN store[b] /\ Cardinality(DOMAIN store[b]) < MaxStored
      /\ store' = [store EXCEPT ![b] = [h \in DOMAIN @ \cup {pool[p].hash} |->
                     IF h = pool[p].hash THEN Put(pool[p]) ELSE @[h]]]
      /\ pool' = [pool EXCEPT ![p].base = b]
      /\ UNCHANGED <<item, open, default>>

\* Pool::save with Storage::pool_save.
Save(p, candidate) ==
  LET b == GetStorage(pool[p], candidate)
  IN  /\ pool[p].valid /\ pool[p].ro
      /\ IsOpen(b)
      /\ pool[p].hash \notin DOMAIN store[b] /\ Cardinality(DOMAIN store[b]) < MaxStored
      /\ store' = [store EXCEPT ![b] = [h \in DOMAIN @ \cup {pool[p].hash} |->
                     IF h = pool[p].hash THEN pool[p].bytes ELSE @[h]]]
      /\ pool' = [pool EXCEPT ![p].base = b]
      /\ UNCHANGED <<item, open, default>>

\* Pool::load with Storage::pool_load; what it does not find is Pool().
Load(p, candidate, h) ==
  LET b == IF IsOpen(candidate) THEN candidate ELSE default
  IN  Becomes(p, IF IsOpen(b) /\ h \in DOMAIN store[b]
                   THEN [FromBinary(store[b][h]) EXCEPT !.base = b]
                   ELSE EmptyPool)

\* Storage::open, Storage::close (csdb::done).  A storage whose last Storage
\* object is gone is to the weak pointers of pools what a closed one is.
OpenStorage(b) ==
  /\ open' = open \cup {b}
  /\ UNCHANGED <<pool, item, store, default>>

CloseStorage(b) ==
  /\ open' = open \ {b}
  /\ UNCHANGED <<pool, item, store, default>>

\* csdb::init makes instance a new storage, also when its open fails.
InitDefault(b) ==
  /\ ~IsOpen(default) /\ ~IsOpen(b)
  /\ default' = b /\ open' \in {open, open \cup {b}}
  /\ UNCHANGED <<pool, item, store>>

\* Every hash the program can have seen.
Hashes == {HashOf(c) : c \in Bytes \ {NoBytes}}

Step ==
  \/ \E t \in Item : \/ \E d \in AnyData : NewTransaction(t, d) \/ EditTransaction(t, d)
                     \/ \E p \in Handle : \/ FindTransaction(t, p)
                                        \/ \E i \in 1 .. MaxTx : TakeTransaction(t, p, i)
  \/ \E p \in Handle :
       \/ \E m \in Meta, b \in AnyBase : NewPool(p, m, b)
       \/ \E q \in Handle : CopyPool(p, q)
       \/ \E t \in Item : AddTransaction(p, t) \/ EditTransactions(p, t)
       \/ \E m \in Meta : SetMeta(p, m)
       \/ \E b \in AnyBase : SetStorage(p, b) \/ Save(p, b)
       \/ \E b \in AnyBase, h \in Hashes : Load(p, b, h)
       \/ Compose(p) \/ ToByteStream(p) \/ Decode(p) \/ Clear(p)
  \/ \E b \in Base : OpenStorage(b) \/ CloseStorage(b) \/ InitDefault(b)

Next == Step /\ UNCHANGED escapes

Spec == Init /\ [][Next]_vars

-----------------------------------------------------------------------------
(* Properties. *)


(* hash() answers for composed pools and for no other (pool.h:132-137), and  *)
(* its answer is the hash of the bytes that save() stores.                   *)
HashNamesBytes ==
  \A p \in Handle : IF pool[p].ro THEN pool[p].hash = HashOf(pool[p].bytes)
                                  ELSE pool[p].hash = NoHash

(* What a database holds under a hash has that hash, whatever was done to    *)
(* the pools before they were saved (pool.cpp:407-437, 476-493).             *)
StoredUnderItsHash == \A b \in Base : \A h \in DOMAIN store[b] : HashOf(store[b][h]) = h

(* A composed pool is the block its hash names: fields, transactions and     *)
(* their order.  (Only clear() and the reference of transactions(), which do *)
(* not look at read_only_, can part them: pool.cpp:372-375, 508-515.)        *)
ComposedIsFrozen == ~escapes => \A p \in Handle : pool[p].ro => pool[p].bytes = Put(pool[p])

(* An identifier never lies: whoever holds a transaction with an identifier  *)
(* holds what the named block has at that place, through copies, additions   *)
(* to other pools and edits (transaction_p.h:55-78, pool.cpp:179-186, 328).  *)
Truthful(t) ==
  t.id # NoId => /\ t.id.index \in DOMAIN BytesOf(t.id.hash).txs
                 /\ BytesOf(t.id.hash).txs[t.id.index] = t.data
IdsAreTruthful ==
  /\ \A t \in Item : Truthful(item[t])
  /\ \A p \in Handle : \A i \in DOMAIN pool[p].txs : Truthful(pool[p].txs[i])

=============================================================================

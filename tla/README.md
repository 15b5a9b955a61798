# A verification development of CSDB

CSDB is a C++ library that keeps a chain of blocks ("pools" of transactions) in a key-value
database. These modules model it in TLA+, from the map of partial chains down to the bytes of an
integer; TLC checks them on small instances and TLAPS proves the most important results for every
instance. Source paths are relative to the repository (`storage.cpp` is `src/src/storage.cpp` here,
and so on).

## 1. The system

| component | state | operations | talks to |
|---|---|---|---|
| **Scan** (`storage.cpp:24-222`) | two maps of partial chains (`heads_t`, `tails_t`), `last_hash`, `count_pool` | `rescan`, `update_heads_and_tails` | runs in `open()` over the database iterator; calls the user's callback after every block |
| **Storage handle** (`storage.cpp:224-433`) | the database pointer, `last_hash`, `count_pool`, last error; shared by all copies of a `Storage` | `open`, `close`, `isOpen`, `pool_save`, `pool_load`, `pool_load_meta`, `size`, `last_hash` | `Database`; called by pools, wallets and by the callback of its own `open()` |
| **Chain queries** (`storage.cpp:440-551`, `pool.cpp:260-304`) | none | `transactions(addr, limit, offset)`, `get_last_by_source/target`, `transaction(id)` | walk backwards from `last_hash` with `pool_load` |
| **Wallet** (`wallet.cpp`) | amounts per currency | `get`: adds and subtracts along the chain; `currencies`, `amount` | `Pool::load`, `Amount`, default storage |
| **Database and LevelDB driver** (`database.cpp`, `database_leveldb.cpp`) | a LevelDB handle, a last error and its message | `open`, `put` (not synced), `get`, `remove`, `write_batch`, iterator | LevelDB |
| **Pool, PoolHash** (`pool.cpp`) | fields, transactions, cached bytes, hash, `read_only_`, `is_valid_`, a weak storage | setters, `add_transaction`, `compose`, `to_byte_stream`, decoding, `clear`, `save`, `load` | `Storage`, default storage, `Transaction` |
| **Transaction, TransactionID** (`transaction.cpp`, `transaction_p.h`) | fields, identifier, `read_only_` | setters, encoding, texts; the identifier comes from `compose()` or decoding | `Pool` |
| **Default storage** (`csdb.cpp`) | one `Storage` | `init`, `done`, `defaultStorage`, error getters | fallback of pools and wallets |
| **Copy-on-write pointer** (`internal/shared_data*.h`) | object with an atomic count | copy, move, assign, destroy, `detach` | behind every value class |
| **Amount** (`amount.h`, `amount.cpp`) | `int32` integral part, `uint64` fraction in units of 10^-18 | constructors, arithmetic, comparison, text, literal | wallets, transactions, 128-bit arithmetic |
| **128-bit arithmetic** (`internal/math128ce.h`) | none | sum, product, quotient of two-word numbers | amounts |
| **Address, Currency, UserField** | a byte array, a name, a value of one of three types | validity, equality, encoding, texts | transactions, pools |
| **Binary streams, integer encoding** (`binary_streams.*`, `integral_encdec.cpp`) | one buffer | `put` and `get` of every class | everything that is stored |
| **sorted_array_set** (`internal/sorted_array_set.h`) | a fixed array | `sort`, `find`, `lower_bound` | clients with constant tables |
| **File system helpers** (`utils.cpp`) | the file system | `path_make`, `path_remove`, `path_size`, `app_data_path` | `Storage::open(path)`, other processes |
| Balance; cryptography (`priv_crypto.cpp`) | an empty class; none | one call of a library | |

What is hard here, and what each part must guarantee:

* **Order.** LevelDB yields blocks in the order of their hashes, so the scan meets every chain in
  pieces. It has to end with exactly one map entry per leaf, name a last block whose whole chain is
  stored, and refuse only a database with two first blocks.
* **Failure.** `put`, `get` and the iterator can fail, entries can be damaged, `open()` can be
  cancelled or refused, and a crash loses unsynced puts. A handle is reused through all of this:
  `last_hash()` and `size()` must fit the database that it serves, and what is told of an error must
  belong to that error. Bytes that are cut short must be refused.
* **Re-entrancy.** The callback of `open()` may use the handle that is being opened.
* **Threads and processes.** The only code meant for several threads is the reference count: objects are
  shared behind handles that look like values, and `detach` takes several steps. The file system is
  shared with other processes, and every helper takes several system calls.
* **Sequences of calls.** Pools cache their bytes, freeze when composed, and hand out identifiers
  that travel with copies of transactions. Clients page through results while blocks are saved.
* **Numbers.** Carry and borrow of a two-part signed number, cuts in `*` and `/`, the bit that long
  division loses, the length of an integer at every power of two, the halves of a binary search.

`PROJECT.json` lists every hazard with its line and the properties that watch it.

## 2. Modules

| module | models | built on |
|---|---|---|
| `Blocks` | block hashes, the previous-hash relation (any forest), words about chains | |
| `ChainScan` | `rescan`, one database entry per step | `Blocks` |
| `Storage` | a `Storage` handle, its databases, I/O failures, crashes | `ChainScan` |
| `BlockStore` | abstract: what `Storage` promises, with `open()` as one step | `Blocks` |
| `Storage_proof` | proofs about the scan and the handle, with the refinement of `BlockStore` | `Storage` |
| `ChainQuery` | the backward walks, wallets, and a client that pages | `Blocks` |
| `ChainQuery_proof` | proofs about pages, newest transactions and wallets | `ChainQuery`, `Induction_proof` |
| `SharedDataPtr` | the copy-on-write pointer and threads that use it | |
| `Values` | abstract: handles that are values | |
| `SharedDataPtr_proof` | proofs about the pointer, with the refinement of `Values` | `SharedDataPtr` |
| `Pools`, `Pools_proof` | pools and transactions in memory, saving and loading; proofs about them | |
| `Powers` | powers, as a recursive function | |
| `Math128` | numbers of two machine words | `Powers` |
| `Amount` | the class `Amount`: operators only | `Math128` |
| `Calculation` | a long calculation with one amount | `Amount` |
| `Calculation_proof` | proofs about words, amounts and calculations | `Calculation`, `Induction_proof` |
| `Induction_proof` | induction, recursive functions, powers, sums over finite sets | `Powers` |
| `Codec` | the encoding of integers, the binary streams, `put` and `get` of each class, texts | `Amount` |
| `Records` | a client that makes objects, writes them, loses bytes and reads them | `Codec` |
| `Records_proof` | proofs about the encoding of every class and about this client | `Records`, `Induction_proof` |
| `SortedArraySet` | the search of `sorted_array_set`, one iteration per step | |
| `Files` | the file system helpers and `Storage::open(path)`, one system call per step | |
| `Driver` | the LevelDB driver, its iterator, and the errors of `Database` and `Storage` | |
| `Library_proof` | proofs about the search, the helpers and the errors | the three, `Induction_proof` |
| `MC...` | the instances for TLC; `MCLibrary` is that of `Records`, `SortedArraySet`, `Files` and `Driver` | |

Definitions named `X_Y` and introduced by "Mutant" are plausible wrong versions of `X`. They are not
part of the model; they show that a property can fail.

**Hashes.** A hash is a number and `<` is the order of the database iterator. The content of a block
fixes its previous hash, so `prev` is chosen once, as any acyclic function (`Forests`): a cycle would
need a block whose hash depends on itself. In `Pools` a hash is the tagged content of the block;
both rest on the assumption that the hash function tells contents apart.

**ChainScan.** `heads` and `tails` are the two `std::map`s as partial functions. `Glue`, `PutOnTop`,
`PutBelow`, `PutApart` are the four branches of `update_heads_and_tails`, guarded as there; where C++
`operator[]` would insert a default element, so does the model (`HeadInfo`). `Judge` is the final loop:
first complete chain in key order, refusal when `last_hash` is already set - which a callback can have
done. An entry is sound or damaged in one of the three ways that `rescan` checks.

**Storage.** One variable per member of `Storage::priv`, plus what the databases hold, which are open,
and the suffix of puts that a crash may lose. `open()` with a database is a sequence of steps: start,
one step per entry, a callback after every block, the verdict, the return. Between them only the
callback may call (constant `Reentrant`). `pool_save` is one step with three outcomes: stored; stored
although the block was there (the read failed); not stored (the put failed) - the code treats the
three alike. A failed or replaced `open()` drops the database pointer, which closes the database
unless the client holds it (`Release`). `client` is the discipline of the caller: "any"; "heeds"
(saves only after an `open()` that returned true); "appends" (moreover only blocks that follow
`last_hash()`). `scanned`, `acked` and `unread` are history variables; `unread` has the entries of the database that
the accepted scan did not come to, because a read failed and `rescan` took that for the end.

**ChainQuery.** Every `pool_load` of a walk is a step; blocks are saved between calls. `Ask` and `More`
are a client that reads pages with the last identifier as offset. `AskWallet` and `SumBlock` are
`Wallet::get`: one block per step, its transactions folded into the amounts with `Posted`. Amounts are
integers here; that the class computes as integers do is `Calculation`. `tip`, `had`, `from` remember
what the chain was when the call began.

**SharedDataPtr.** Each step touches shared memory at most once: reading the count in `detach`, the
clone, the decrement, the deletion and the write are separate, as in `shared_data_ptr_implementation.h:36-118`.
A thread's local pointer is a slot like a handle. A handle is used by one thread at a time (the library
promises no more) and may be handed over.

**Pools.** One record per `Pool` and per `Transaction` object; copies are values, justified by
`SharedDataPtr`. `bytes` is the cache `binary_representation_`, filled by `compose()`, by decoding and by
`to_byte_stream()`, and never emptied by setters. The transaction copied by `add_transaction` loses its
identifier, as `Transaction::priv(const priv&)` leaves it out. `escapes` separates programs that use
`clear()` and the reference returned by `transactions()` from those that do not. What `read_only_`
forbids is modelled here and not in `Records`.

**Math128, Amount, Calculation.** `Mul` and `Div` are the code's: four products of half-words put together,
and one bit of the low word per `DivStep`, with the branch for the bit that leaves the word. The
operators of `Amount` keep the code's own conditions (`+=` carries with `>`, `+` with `<=`) and use that
arithmetic; `Places` stands for the 18 decimals. A double is an exact fraction `num / den`, and
`FromDouble` truncates, corrects the sign and rounds as the constructor does, in exact arithmetic.
`AmountToString` and `Literal` are lists of digits. `exact` is what the amount should stand for.

**Codec, Records.** A byte has `ByteBits` bits and a register as many bytes, so `Encode64` and `Decode64`
have all the lengths that the code's eight bytes have, in fewer bits. An `ibstream` is its rest and the
values read so far; a read that fails fails the object it is part of (`Together`). Maps are written in
key order and read with `emplace`, which keeps the first entry of a key. `Records` makes a transaction, a block
or an identifier with the setters, writes it with the three writers (`to_binary` looks at `is_valid`),
may cut bytes from the end, and reads it back.

**SortedArraySet.** `Iterate` is one iteration of `lower_bound`, with `step`, `first` and `count`; `find` adds
the test for equality. The templated version (`sorted_array_set_t`) is one step.

**Files.** A path is a sequence of names; a separator at the end is a last name, `NoName`, since the code
treats such a path differently: `stat` finds a directory behind a separator but no regular file, so that
`file_size` answers -1 (`FileSize`, as `csdb_unit_tests_utils.cpp:134` has it), and `mkdir` finds both there
already. Each process has a stack of calls: `path_make` calls itself for the path above,
`path_remove` and `path_size` for the children. Every `stat`, `mkdir`, `rmdir`, `unlink` and reading of a
directory is a step, and other processes act in between. `others` and `seen` remember what they did.

**Driver.** `FromLevelDB`, `SetLastError` and `Tell` are the three places that set an error; the actions are
the calls of the client, of the database directly or through a storage, with every status LevelDB may
answer. The order "iterators go before their database" is LevelDB's rule and guards the client.
`PoolLoad` is `pool_load`, and with `meta` also `pool_load_meta`, which finds no block valid.
`Storage` has the same calls from the side of the count and the last hash.

## 3. Runs

| run | instance | what it shows |
|---|---|---|
| `scan` | 4 hashes: 125 forests, every subset, 3 kinds of damage, early end of the iterator; 334k states | asserts never fire; the partial chains partition the blocks read; verdict and last hash are right; damage is found |
| `storage_any` | 2 databases, 2 blocks, 1 fault, 1 crash, re-entrant callback, an iterator that may end early, any client; 1.4M states | behind every accepted `open()`, but for the entries its iterator did not come to, `size()` is the number of blocks, and more only by what reads and writes failed, and no entry is damaged; the chain below `last_hash()` is stored; `ChainError` is real |
| `storage_clients` | 1 database, 3 blocks, 2 crashes, clients that heed or append, an iterator that yields every entry; 170k states | an appending client keeps one linear chain whose end is `last_hash()`; every `open()` returns; `Storage` implements `BlockStore` |
| `storage_lost` | violation | `pool_save` answers true for a block that `put` did not write |
| `storage_unscanned` | violation | `isOpen()` is true for a database that no `open()` scanned |
| `ptr_race` | 2 threads, 3 handles, 5 addresses, 2 values | counts, no dangling pointer, no leak, no write to a shared object; refinement of `Values` |
| `pools` | 1 pool, 1 transaction, blocks of up to 2 transactions; 935k states | hashes name bytes, bytes are what is stored and what the fields say, and identifiers name the right transaction |
| `query_pages` | 3 blocks in any forest, each empty or with one payment; a chain of 2 blocks with up to 2 transactions each of 4 kinds, in two currencies; 260k states | pages descend, repeat nothing and together are complete while blocks are saved, also when they begin and end inside a block; newest transaction by source and target; wallets hold the balance of the chain; walks end |
| `amount_sums` | hundredths, words of 8 bits, an integral part from -4 to 3, doubles in 32nds, operands of both signs; 806 states | no sequence of operators and constructors loses or invents a unit; the error of division; comparison, rounding, text and literal agree; 128-bit arithmetic is exact |
| `amount_carry` | violation | `0.5 += 0.5` is `{0, 10^18}`, not `{1, 0}` |
| `library_parts` | bytes of 4 bits, hashes of 3 bytes, keys of 2, blocks of up to 2 transactions with a field of each type; arrays of up to 4 of 4 elements; 2 processes, 5 paths; a database of 2 keys; 232k states | what is written is what is read, and nothing else is read from part of it; the search finds the first; helpers answer what was true, do all of it when alone, and return; errors and messages belong together |
| `id_text` | violation | the text of an identifier with an index of ten or more is refused or names another transaction |

`library_parts` is the disjoint sum of four instances that share no variable: one of them runs and the
others keep one initial state. It is one run because each is small. To keep it so, two transactions of one
block have no balances, and only the first has a user field; blocks of one transaction have all.

**Bounds.** Four hashes are the least that let two pieces of a chain, each with a block of its own, be
glued while a third piece waits, and let a fork and an orphan coexist. `storage_any` needs two
databases to show what one leaves behind for the other; two blocks give a chain, a fork, an orphan and
a second first block. One fault suffices because no code path reacts to a second one differently;
reopening after a crash is reached with one crash, losing blocks twice with two. Two threads and three
handles are enough for the race of two detaches of one object with a third reference coming or going,
and five addresses mean that an allocation never fails. Pages of one and two transactions and blocks of
up to two put page borders inside blocks, between blocks and at empty ones, and three blocks leave room
for an orphan and a fork beside the chain that a wallet sums. With hundredths every carry, borrow and
sign combination occurs, products of fractions are cut, and with words of 8 bits the sums of words
carry and long division loses its bit. With four bits a byte, the indexes around every power of
two of a 16-bit register, of either sign, give every length an integer can have and both of its
neighbours. Arrays of four have an odd and an even half to search, and equal neighbours. Two processes
with one call each, in a tree of depth three, reach every pair of steps of two helpers that meet on one
path; that each process makes one call is also what bounds the interference of `CallsReturn`. Where a
bound shows in a guard it is a constant (`MaxFaults`, `MaxCrashes`, `MaxTx`, `MaxStored`, `MaxTxs`,
`MaxLength`, `InRange`).

**Symmetry** is used where the run checks no liveness over the permuted set: over databases, and over
addresses and values.

**Deadlock** is off for `scan` and the runs of `MCLibrary`: a scan, a record that was read, and two
processes that made their calls are at their end.

**Fairness.** `OpenTerminates`: weak fairness of the steps of `open()`, with the return of its callback. The
scan is a loop of the calling thread over a finite snapshot; a callback that does not return is a
client's endless loop. `QueriesReturn`: weak fairness of the walk, likewise a plain loop, that of a wallet
included. `CallsReturn`: weak fairness of each process's steps (`FilesFairness`): the scheduler runs every
process, and the helpers wait for nothing. Nothing is assumed of clients. The other runs need no fairness.

**What the violations say.** The four findings quote the line that the code departs from. Others were met
on the way and have no run:

* *Scan and storage.* An iterator that turns invalid on a read error ends the scan as if the database
  ended (`storage.cpp:148` asks for no status), so `open()` reports an analysis it did not finish - `scan`
  checks what is still true then. A callback that saves a block again because the read of it failed makes
  the scan report a `ChainError` over a single chain, which is why `ChainErrorIsReal` has the guard
  `faults = 0`. `close()` leaves `last_hash()` and `size()` of the closed database. `pool_load_meta`
  reports a `DataIntegrityError` for every block it could read (`storage.cpp:424`). A chain saved child first leaves `last_hash()` short of its end.
  `Storage::wallet` asks the default storage and not its own (`storage.cpp:437`), and every `Wallet::get`
  ends its walk with `InvalidParameter` as the storage's last error. `get_last_by_source` passes over a
  block whose newest transaction of the address is invalid, even when it has a valid one
  (`storage.cpp:528`); `LastIsNewest` is checked with valid transactions, the only ones `add_transaction`
  takes.
* *Errors.* `dbLastErrorMessage` returns the storage's message (`csdb.cpp:55`). `open()` with a driver that
  was never opened says "Error open database: No error". `new_iterator` leaves the error of the call before.
  A failed `open()` of the driver has already closed the database that was open, and an iterator may outlive
  its database.
* *Pools and encoding.* `clear()` and the reference of `transactions()` change a composed pool
  (`pool.cpp:372,510`), so `ComposedIsFrozen` is stated for programs that do not use them;
  `to_byte_stream()` leaves bytes in a pool that is not composed, against `pool.h:141-142`. Bytes after the
  end of an object are accepted, and a second field of the same key is dropped. The count of a vector is
  reserved before its first element is read (`pool.cpp:146`). A field without a type would be written as no
  byte at all, so reading back depends on the guard of `add_user_field`.
* *Amounts.* 1.5 / 3 is one unit below 0.5. A proper fraction whose denominator is above 10^18 can round to
  one, and the constructor throws. A sum in a wallet that passes through `+=` with a fraction of exactly one
  is not equal to the whole amount. `to_string` of such an amount prints a digit too many. `Amount(double)` of
  the smallest `int32_t` computes one less on the way. A `_c` literal with an exponent is read as if the
  exponent were digits.
* *Files.* When two processes make the same nested directory, the second `dir_make` of the slower one finds
  it there and `path_make` answers false although the path exists (`utils.cpp:178`); `AnswersAreTrue`
  therefore speaks of answers of true. `open(path)` makes only the last directory of its path. When
  `app_data_path` fails, `open()` uses `/CREDITS`.
* A default-constructed `sorted_array_set` would divide by its length, zero. The encoding copies the memory of
  an integer, so that a big-endian machine writes other bytes.

## 4. Proofs

All are checked by TLAPS, for every value of the constants, from the assumptions named in the modules:
hashes are integers without `NoHash`, in a finite set (`Blocks`); threads and handles are finite
and distinct (`SharedDataPtr`); elements are integers (`SortedArraySet`); paths are sequences, the tree holds
what is above each of its paths, and it is finite (`Files`); transactions have integers for amounts (`ChainQuery`). Of numbers it
is assumed what the code's types give: a word has twice the bits of a half-word, twice `AMOUNT_MAX_FRACTION` fits a word
(`Amount`: 2 x 10^18 < 2^64), the integral part is in two's complement (`MinInt = -MaxInt - 1`) and narrower than a
word, and operands are amounts and integers of that range (`Calculation`). A byte has an even number of bits, four or
more, and a register as many bytes as a byte has bits; it holds an `int32_t` and a fraction (`Codec`). The parts of
objects are of the types of the code: strings with a size that a register holds, addresses and hashes of their length or
empty, amounts within their range, keys of `int32_t`, fields that hold a value of their own type and nothing else
(`Records`).

**Induction** (`Induction_proof`). The library's induction theorems take an operator as a parameter, which the provers
cannot instantiate, and its proofs of them are not in reach. Here induction is stated of sets: a set that has 0
and the successor of each member has every number (`Induct`, from the well-foundedness of `<`). From it
come the existence of functions defined by recursion over numbers (`Iteration`, `IterationUpTo`) and over the
subsets of a finite set (`SubsetRecursion`), which is what a fold of the library is; the equations
of `Power`; and sums over finite sets: they do not depend on the order in which elements are taken (`SumTakes`),
and gains less losses are the difference of two sums (`SumDifference`).

**Amounts and 128-bit arithmetic** (`Calculation_proof`). From the bottom up: sums of words and of two-word numbers
with their carry (`PlusWordExact`, `PlusWideExact`); the product of half-words put together (`MulExact`); one step of the
long division, with the branch for the bit that leaves the word (`DivStepExact`), and their induction (`DivExact`).
Then one lemma per operator and constructor of `Amount` says what happens to the number of units (`PlusUnits`,
`TimesUnits`, `DividedUnits`, `FromDoubleUnits` and so on). `CalculationInv` (the amount fits, and `exact` is its
units) is kept by every step of a calculation. Results: `CalculationExact` (no operator loses or invents a unit),
`CalculationQuotients` (a quotient is less than two units from the exact one, towards zero),
`CalculationExact128` (sums, products and quotients of all words), and `CalculationReadings`: comparison is that of the
units, rounding is to the nearest, and the text that `to_string` prints is read back by a literal as the
same amount, which is an induction over digits (`AllDigits`, `ReadFraction`, `ReadWhole`).

**The scan** (`Storage_proof`, first part). That heads are leaves, or that tails name heads, is not inductive: the
lengths of `Glue` and `PutBelow` lean on the partition, and the partition on the absence of cycles.
`IInv` joins the type invariant, `Chains` (tails name heads, heads are leaves, a partition `own` of the
blocks read exists, missing blocks are remembered) and what holds at each phase (count, verdict,
soundness of what was read). Per branch one lemma computes the new maps and one gives the
new partition: `Glue` moves the lower chain to the upper head, `PutOnTop` renames a chain, `PutBelow` and
`PutApart` add a block. `NoCycle` shows that a chain never waits for the block that is put on
top of it. `LinearOneChain` reads the last hash of a linear database off the partition. Results:
`ScanTypes`, `ScanAsserts`, `ScanLeaves`, `ScanPartition`, `ScanRefusesTwoChains`, `ScanTip`,
`ScanLinearTip`, `ScanFindsDamage`, and `ScanCounts` (after a complete accepted scan the count is the number of stored
blocks), which `storage_any` checks as part of `SizeIsStored`.

**The pointer** (`SharedDataPtr_proof`). The safety properties are not inductive because a thread relies on
what it saw steps ago. `IInv` adds, per thread, what it may rely on where it stands (`Stands`: whose
handle it is in, that the object it is about to write or has just left is its alone; `Copied`: the clone
is its own and equals the original) and per object why it lives (`Kept`) or that nobody else points to
it (`Doomed`). `Redirect` is the lemma about counting: redirecting one slot moves one unit of count. One lemma
per action. Results: `PtrTypes`, `PtrRefCounts`, `PtrNoDangling`, `PtrOneDeleter`, `PtrNoLeak`,
`PtrWritesAlone`, and `PtrIsValue`: every step is a step of `Values` or a stutter.

**The storage handle** (`Storage_proof`) is proved on top of the scan: `Storage` extends `ChainScan`, and the lemmas
of the scan about one database entry are cited for the steps that `open()` takes. The invariant is in layers,
because each needs the one before and speaks of other clients:

* `StorageFrame`: types, the scan's partition, and what ties the handle to the databases. Between two calls of
  `open()` nothing of a scan is left; an `open()` in progress has not been accepted; the accepted database is
  the one `d->db` names (`HandleKept`); what the scan took for its snapshot is still stored, or was written
  again by the callback (`SnapshotKept`).
* `CountsKept`: `count_pool` is the number of blocks that the scan has read *or* that its callback and the client
  saved behind it (`Counted`); exactly while no I/O failed, and at most one more for each failure afterwards.
  When `open()` has returned that is what the database holds without `unread`: `StorageSize`, `StorageIsSound`.
* `TipKept`: the chain below `last_hash` is stored. A scan takes `last_hash` as the accumulator of its final
  loop, so what a callback left there has to be accounted for: it is set before the verdict only if the
  callback saved a first block that the scan does not see. Then a `ChainError` has two first blocks behind
  it: `StorageTipChain`, `StorageChainErrors`. Neither needs the scan to reach the end of the database.
* `HeedKept`, of clients that heed `open()`: their callbacks save nothing, so that the scan read what the
  database holds. With it every step maps to a step or a stutter of `BlockStore` (`StorageRefines`); the verdict
  is its one step `open`.
* `AppendKept`, of clients that append to `last_hash()`: every database is one linear chain, and its unsynced puts
  are in the order of the chain (`PutsInOrder`), so that a crash, which loses a suffix of them, leaves a linear
  chain. `StorageOrderly`, `StorageTipIsEnd`.

The code does not ask the iterator for its status, so that a read error during the scan looks like the end of the
database: then `size()` is too small by the entries that were left, and damage among them goes unseen
(section 3). `StorageSize` and `StorageIsSound` hold with such iterators, because they leave out `unread`; without
errors of the iterator it is empty. Three hypotheses appear in other theorems. `~IteratorMayFail`, in
`StorageOrderly`, `StorageTipIsEnd` and `StorageRefines`: the iterator yields every entry, since the last
block of what was read need not be the end of what is stored. `faults = 0`, in `TipChainStored` and
`ChainErrorIsReal` themselves: `pool_save` cannot tell a failed
`get` from an absent block nor a failed `put` from a good one. `MaxFaults = 0` and `"any" \notin Discipline`, in the
refinement: `BlockStore` is what the storage promises to callers that look at what `open()` returned, over a
database that works.

**Chain queries** (`ChainQuery_proof`). The order of the chain is defined by reachability, without recursion, and
the lemmas first make an order of it: what is below a block is that block or below its previous one
(`ChainSplits`), and no two blocks are below each other (`ChainAntisymmetric`, from the absence of cycles). The
invariant says what a walk has done where it stands: at a transaction (`WalkAt`), at the door of a block (`FindAt`)
and after a page (`DoneAt`), whatever is due was returned or lies before that place. It speaks of the chain as it was when
the session began (`tip`, `had`); saving a block adds above it. Results: `QueryOrder`, `QueryComplete`, and
`QueryNewest`, whose hypothesis `AllValid` (transactions are valid) is what `add_transaction` ensures
(`pool.cpp:318-320`); without it `storage.cpp:528` passes over a block, see section 3. That a block has a newest
transaction of an address is a pigeonhole over its finite places (`HasGreatest`) and not an induction.

A wallet in the middle of its walk (`WalletKept`) has for every currency the sum of `Delta` over the transactions
of the blocks it passed (`Moved(Passed(next))`): a block is an induction over its places (`BlockMoves`), the step to the
block before it adds that block and no other (`PassedBlock`, again from the order of the chain), and at the end the
sum of what each transaction moved is what was received less what was spent (`BalanceIs`). Result: `QueryWallets`,
with forks and orphans beside the chain, payments of an address to itself, and any number of currencies.

**Pools** (`Pools_proof`). `PoolsSound` says of every pool, transaction and database entry what can be said of it as
a value: the hash of a composed pool is that of its bytes (`Named`), its bytes are what its fields would give unless a
reference escaped (`Frozen`), and identifiers in it are truthful (`Told`). Copies, `load` and the
transactions taken out of pools are then immediate, and the work is in `compose`, decoding and `add_transaction`. The
four safety properties follow: `PoolHashes`, `PoolEntries`, `PoolsFreeze`, `PoolIdentifiers`.

**Encoding** (`Records_proof`). From the bottom up. `PowerHalves` and the equations of `Power` give what bytes and
registers are: a register is its digits (`LowBytesStand`, an induction over the bytes), the sign of a number is the top bit
of its last byte (`TopByte`), and the ones at the low end of the first byte count the others (`TrailingOnesAre`). So
`Encoded`: every register, short (`ShortCoded`) or of full length (`LongCoded`), is decoded from its bytes whatever follows
them. From there no lemma looks inside bytes. `Reads(s, out, x, v)` says of a read `out` from a stream `s` that

* if what is left begins with `x`, it takes just `x` and has the value `v`, whatever follows;
* if what is left is `x` without its end, it is refused;
* if `s` was refused before, it stays refused.

The second is why `CutIsRefused` has to be proved with the first: where a cut falls inside the third of five parts, two
parts are read, one is refused and the other two follow a refusal. `RunningGoesOn` puts two such reads together, once for
all classes; the counted ones (maps and the transactions of a block) are an induction over the count
(`RunningReadsMany`). A map is read back as itself since its keys were written in their order, each once, so that `emplace`
drops none (`KeysAre`, `EmplacedIs`; that an order of the keys exists is an induction over finite sets, `OrderExists`).
Results: `RegisterReads`, `TransactionReads`, `BlockReads` - of any number of transactions and fields - and of the client
`RecordsSafe`: its objects have the types of the code whatever setters were called, and what is left of the bytes begins
the bytes of the object that was written. `RecordsRead` and `RecordsCut` follow; the texts of hashes and identifiers are
`HexReads` and `IndexReads`. A read of the front of a block by `meta_from_binary` succeeds on cut bytes, as it does in the
code, and `RecordsRead` says that previous hash and sequence are then right.

**Errors** (`Library_proof`). `ErrorsExplain` is not inductive, since what a storage says depends on the database it
passes on. `Explains` adds that a database keeps a message exactly with an error LevelDB gave it, and that a
storage blames the database without words of its own only after such an error (`DriverErrors`).

**Files** (`Library_proof`). A helper calls itself, and only the outermost call answers the client. `FilesSound` says
that every frame on a stack works on a path of the tree, that the first frame is the outermost call on the path it
was given (`OnItsPath`), and that what is at this path now is among what was seen since the call began
(`Watches`), whoever changed it. Then one fact per return suffices: at that step the directory is there, or is
not. `FilesAnswers` holds for any number of processes, any tree and recursion of any depth.

That a call does all of its work when nobody disturbs it (`FilesExact`) needs more: what each waiting call knows of the
tree while the calls it made change it. `AloneSound` says that the tree is one (every path has directories above it),
and of a process that has been alone since its call began that

* its calls are nested (`Chain`): each waits for the next (`Linked`), the outermost has the path the client gave, and
  a removal only removes below what the calls around it remove;
* a loop knows its directory (`Waits`, `Stands`): what `path_remove` has not yet taken out is what it listed and has still
  to visit (`Listed`), and the total of `path_size` is that of all files below but those of the entries to come
  (`Counted`);
* what the innermost call answered is exact (`Done`), so that the one that waits may go on.

The work is in the frame: a removal deep below changes the tree of every call that waits above, and its path is in the
one entry that each of them has in hand (`Nested`). `Counted` needs the sums over finite sets of
`Induction_proof`, and that the files below a directory are those below its entries, each below one. A path that is
made changes what a waiting `path_make` knows only for the better (`NoFileTo` is kept). The recursion may be of any
depth and is not induced over: every step speaks of the top of the stack and its neighbour.

**The search** (`Library_proof`). That the result is the first place of the element is nothing a step
preserves; what a step preserves is where the range lies. `SearchInv` says that in an array in order
everything before `first` is less than what is sought and everything from `first + count` on is not, and that
the range is inside the array. `Iterate` needs the order once, to carry the comparison with the middle to
all elements on one side. Results, for arrays of every length: `SearchFindsFirst`, `SearchStaysInside` (no
element outside is read) and `SearchRangeShrinks` (so that the loop ends).

**Only model-checked.**

* Liveness (`OpenTerminates`, `QueriesReturn`, `CallsReturn`): TLAPS does not prove it under fairness.
* `AckedIsStored`, `IsOpenMeansScanned` and the other properties of the runs that expect a violation are false.
* Every safety property of a passing run, and every action property, is stated by a theorem.

## 5. Not modelled

* *Balance* is an empty class. *Cryptography* is a call of a library; its sizes are constants of `Codec`.
* Floating-point rounding: a double is an exact number. Overflow of `int32_t` in amounts, which is undefined
  behaviour: the operators are used within the range (`InRange`).
* `bool` in the streams and big-endian machines; the order of addresses and currencies (`operator <`);
  texts of errors, beyond which error they tell of; the error getters of `csdb.cpp`, which pass on those of `Driver`.
* Of the file system: permissions, links, full disks. Reading a directory is one step, as `readdir` of a small
  directory is.
* Of `Storage`: two handles on one database, `open()` from inside a callback, a callback that destroys the
  database under the iterator (undefined behaviour). `Storage` objects are meant for one thread; no locking
  exists to model.

## 6. Plan

In order of importance; each item says what it adds to which module or run.

1. *Proofs*: that no unfinished walk of `ChainQuery` reads a block twice.
2. *Two handles on one database* in `Storage`: what each may still say of size and last hash.
3. *Several storages* in `Pools`: where `save()` puts a block when the named storage is closed or gone, and
   which storage `Storage::wallet` reads.

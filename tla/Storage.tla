------------------------------- MODULE Storage -------------------------------
(***************************************************************************)
(* csdb::Storage (src/src/storage.cpp) over the databases it may be opened *)
(* on (src/src/database_leveldb.cpp).  Storage objects are shared pointers *)
(* to one priv, so the copies of a handle are one handle here.  The scan   *)
(* of open() runs step by step (module ChainScan) because its callback is  *)
(* user code that holds the handle.                                        *)
(***************************************************************************)
EXTENDS ChainScan, Sequences

CONSTANTS
  Db,         \* database objects a client owns
  NoDb,       \* a null shared_ptr<Database>
  MaxCrashes, \* bound on crashes
  MaxFaults,  \* bound on I/O errors and damaged entries
  Discipline, \* the clients considered: "any"; "heeds", who saves only after an
              \* open() that returned true; "appends", who moreover saves only
              \* what follows last_hash()
  Reentrant   \* do callbacks of open() use the handle?

ASSUME StorageAssumption ==
  /\ NoDb \notin Db
  /\ MaxCrashes \in Nat /\ MaxFaults \in Nat
  /\ Discipline \subseteq {"any", "heeds", "appends"} /\ Reentrant \in BOOLEAN

VARIABLES
  client,    \* the discipline of the client; it never changes
  db,        \* Storage::priv::db
  opened,    \* the databases whose db_ is set: Database::is_open()
  store,     \* what each database holds
  unsynced,  \* its latest puts, in order: WriteOptions() does not sync
  faults,    \* I/O errors and damaged entries so far
  crashes,   \* crashes so far
  scanned,   \* history: the database whose accepted scan set db
  unread,    \* history: the entries which that scan did not come to
  acked      \* history: what pool_save answered true for, per database

dbVars == <<db, opened, store, unsynced>>
history == <<scanned, unread, acked>>
failures == <<faults, crashes>>
allVars == <<client, vars, dbVars, failures, history>>

IsOpen == db # NoDb /\ db \in opened

\* Clients call one at a time; a call inside open() comes from its callback.
ClientTurn == phase \in {"idle"} \cup (IF Reentrant THEN {"callback"} ELSE {})

\* d->db gives up its reference: the database is destroyed, and thereby
\* closed, unless the client keeps a reference of its own.
Release(old) == opened' \in {opened, opened \ {old}}

Fail(error) == lastError' = error

-----------------------------------------------------------------------------
(* Databases. *)

\* DatabaseLevelDB::open.  Recovery writes the log it finds into a table.
DbOpen(d) ==
  /\ phase = "idle"
  /\ d \notin opened
  /\ opened' = opened \cup {d}
  /\ unsynced' = [unsynced EXCEPT ![d] = <<>>]
  /\ UNCHANGED <<vars, db, store, failures, history>>

\* The failure of an I/O call.
IOError == faults < MaxFaults /\ faults' = faults + 1 /\ UNCHANGED crashes

\* A closed database is damaged on its medium.
Damage(d) ==
  /\ phase = "idle"
  /\ d \notin opened
  /\ IOError
  /\ \E h \in DOMAIN store[d], k \in Faults : store' = [store EXCEPT ![d][h] = k]
  /\ UNCHANGED <<vars, db, opened, unsynced, history>>

-----------------------------------------------------------------------------
(* Storage::open and close. *)

\* open without a driver.
OpenNoDriver ==
  /\ phase = "idle"
  /\ Fail("DatabaseError")
  /\ UNCHANGED <<prev, scanVars, lastHash, countPool, phase, dbVars, failures, history>>

\* open with a driver that is not open: d->db is set nevertheless.
OpenClosedDriver(d) ==
  /\ phase = "idle"
  /\ d \notin opened
  /\ db' = d
  /\ Release(db)
  /\ Fail("DatabaseError")
  /\ scanned' = NoDb /\ unread' = {}
  /\ UNCHANGED <<prev, scanVars, lastHash, countPool, phase, store, unsynced, failures, acked>>

\* open with an open driver: rescan begins.
OpenDriver(d) ==
  /\ phase = "idle"
  /\ d \in opened
  /\ db' = d
  /\ IF db = d THEN UNCHANGED opened ELSE Release(db)
  /\ ScanStart(store[d])
  /\ scanned' = NoDb /\ unread' = {}
  /\ UNCHANGED <<prev, lastError, store, unsynced, failures, acked>>

\* rescan returned and open() returns; its local variables are gone.  An
\* iterator that ended early leaves entries unread.
OpenReturns ==
  /\ phase \in {"done", "failed"}
  /\ phase' = "idle"
  /\ heads' = EmptyMap /\ tails' = EmptyMap
  /\ snapshot' = EmptyMap /\ todo' = {}
  /\ \/ phase = "done" /\ Fail("NoError") /\ scanned' = db /\ unread' = todo /\ UNCHANGED <<db, opened>>
     \/ phase = "failed" /\ db' = NoDb /\ Release(db) /\ UNCHANGED <<lastError, scanned, unread>>
  /\ UNCHANGED <<prev, lastHash, countPool, store, unsynced, failures, acked>>

\* last_hash and count_pool stay as they are.  A callback that closes the
\* last reference under the iterator has no defined behaviour and is left out.
Close ==
  /\ ClientTurn
  /\ db' = NoDb
  /\ IF phase = "idle" THEN Release(db) ELSE UNCHANGED opened
  /\ Fail("NoError")
  /\ scanned' = NoDb /\ unread' = {}
  /\ UNCHANGED <<prev, scanVars, lastHash, countPool, phase, store, unsynced, failures, acked>>

-----------------------------------------------------------------------------
(* Storage::pool_save.  The pool is composed and has hash h. *)

Refuse(error) ==
  /\ Fail(error)
  /\ UNCHANGED <<prev, scanVars, lastHash, countPool, phase, dbVars, history>>

SaveNotOpen ==
  /\ ClientTurn /\ ~IsOpen
  /\ Refuse("NotOpen")
  /\ UNCHANGED failures

\* The pool is invalid or not composed, or its hash is in the database.
SaveRefused ==
  /\ ClientTurn /\ IsOpen
  /\ Refuse("InvalidParameter")
  /\ UNCHANGED failures

\* Mutants: the tip always moves, never moves; a block off the chain is not
\* counted.
Account_Moving(h, moves, counted) ==
  /\ countPool' = countPool + (IF counted THEN 1 ELSE 0)
  /\ lastHash' = IF moves THEN h ELSE lastHash
  /\ acked' = [acked EXCEPT ![db] = @ \cup {h}]
  /\ Fail("NoError")
  /\ UNCHANGED <<prev, scanVars, phase, db, opened, scanned, unread>>

Account_Always(h) == Account_Moving(h, TRUE, TRUE)
Account_Never(h) == Account_Moving(h, FALSE, TRUE)
Account_InChain(h) == Account_Moving(h, lastHash = prev[h], lastHash = prev[h])

\* After put, whose result is not looked at.
Account(h) ==
  /\ countPool' = countPool + 1
  /\ lastHash' = IF lastHash = prev[h] THEN h ELSE lastHash
  /\ acked' = [acked EXCEPT ![db] = @ \cup {h}]
  /\ Fail("NoError")
  /\ UNCHANGED <<prev, scanVars, phase, db, opened, scanned, unread>>

CanSave(h) ==
  /\ ClientTurn /\ IsOpen
  /\ client # "any" => scanned = db
  /\ client = "appends" => prev[h] = lastHash

\* get answers no: the key is not there (faults unchanged), or the read failed.
SeemsAbsent(h, faulty) == IF faulty THEN TRUE ELSE h \notin DOMAIN store[db]

PutEntry(h) ==
  /\ store' = [store EXCEPT ![db] = Assign(@, h, "pool")]
  /\ unsynced' = [unsynced EXCEPT ![db] = Append(@, h)]

SaveStored(h) ==
  /\ CanSave(h)
  /\ SeemsAbsent(h, FALSE)
  /\ PutEntry(h)
  /\ Account(h)
  /\ UNCHANGED failures

\* The read failed, and the block goes into the database a second time.
SaveUnread(h) ==
  /\ CanSave(h)
  /\ SeemsAbsent(h, TRUE) /\ IOError
  /\ PutEntry(h)
  /\ Account(h)

\* put failed.
SaveLost(h) ==
  /\ CanSave(h)
  /\ SeemsAbsent(h, FALSE) /\ IOError
  /\ Account(h)
  /\ UNCHANGED <<store, unsynced>>

(* Storage::pool_load (and pool_load_meta, whose pools are never valid).     *)
LoadErrors(h, meta) ==
  IF ~IsOpen THEN {"NotOpen"}
  ELSE IF h = NoHash THEN {"InvalidParameter"}
  ELSE IF h \notin DOMAIN store[db] THEN {"DatabaseError"}
  ELSE IF meta \/ store[db][h] = "corrupt" THEN {"DataIntegrityError"}
  ELSE {"NoError"}

Load(h, meta) ==
  /\ ClientTurn
  /\ \E error \in LoadErrors(h, meta) : Refuse(error)
  /\ UNCHANGED failures

\* The read of a pool that may be there fails.
LoadUnread ==
  /\ ClientTurn /\ IsOpen
  /\ IOError
  /\ Refuse("DatabaseError")

-----------------------------------------------------------------------------
(* The machine stops: every object is gone, and of each database a suffix of *)
(* the unsynced puts.  (The process alone dying loses no puts: n = Len.)     *)
Survivors(d, n) ==
  LET lost == {unsynced[d][i] : i \in n + 1 .. Len(unsynced[d])}
      kept == {unsynced[d][i] : i \in 1 .. n}
  IN  [h \in DOMAIN store[d] \ (lost \ kept) |-> store[d][h]]

Crash ==
  /\ crashes < MaxCrashes /\ crashes' = crashes + 1 /\ UNCHANGED faults
  /\ store' \in {[d \in Db |-> Survivors(d, n[d])] :
                   n \in {f \in [Db -> 0 .. Cardinality(Hash) + MaxFaults] :
                            \A d \in Db : f[d] <= Len(unsynced[d])}}
  /\ unsynced' = [d \in Db |-> <<>>]
  /\ opened' = {}
  /\ db' = NoDb /\ scanned' = NoDb /\ unread' = {}
  /\ acked' = [d \in Db |-> acked[d] \cap DOMAIN store'[d]]
  /\ lastHash' = NoHash /\ countPool' = 0 /\ lastError' = "NoError"
  /\ phase' = "idle"
  /\ heads' = EmptyMap /\ tails' = EmptyMap
  /\ snapshot' = EmptyMap /\ todo' = {}
  /\ UNCHANGED prev

-----------------------------------------------------------------------------
Init ==
  /\ client \in Discipline
  /\ prev \in Forests
  /\ snapshot = EmptyMap /\ todo = {} /\ heads = EmptyMap /\ tails = EmptyMap
  /\ lastHash = NoHash /\ countPool = 0 /\ lastError = "NoError"
  /\ phase = "idle"
  /\ db = NoDb /\ opened = {}
  /\ store = [d \in Db |-> EmptyMap]
  /\ unsynced = [d \in Db |-> <<>>]
  /\ faults = 0 /\ crashes = 0
  /\ scanned = NoDb /\ unread = {}
  /\ acked = [d \in Db |-> {}]

Scan == ScanNext /\ UNCHANGED <<dbVars, failures, history>>

Client ==
  \/ \E d \in Db : DbOpen(d) \/ OpenClosedDriver(d) \/ OpenDriver(d)
  \/ OpenNoDriver
  \/ Close
  \/ SaveNotOpen
  \/ SaveRefused
  \/ \E h \in Hash : SaveStored(h) \/ SaveUnread(h) \/ SaveLost(h)
  \/ \E h \in HashOrNone, meta \in BOOLEAN : Load(h, meta)
  \/ LoadUnread

Opening == (Scan \/ OpenReturns) /\ UNCHANGED client

Next ==
  \/ Opening
  \/ (Client \/ Crash \/ \E d \in Db : Damage(d)) /\ UNCHANGED client

Spec == Init /\ [][Next]_allVars

\* rescan is a loop, its callback is expected to return, and open() returns.
FairSpec == Spec /\ WF_allVars(Opening)
-----------------------------------------------------------------------------
(* What the storage promises. *)

Ready == IsOpen /\ phase = "idle"
Serving == Ready /\ scanned = db   \* after an open() that returned true
Held == DOMAIN store[db]

(* size() counts what the database holds: the scan's count and the count of  *)
(* pool_save (storage.cpp:179,368) agree, also for blocks saved by the       *)
(* callback of the scan, after failed opens, reopens and crashes.  It is too *)
(* small by the entries that the iterator ended before (storage.cpp:148),    *)
(* and too large by at most one for each I/O error: a put that failed, or a  *)
(* stored block that seemed absent (storage.cpp:360,366).                    *)
SizeIsStored ==
  Serving => countPool - Cardinality(Held \ unread) \in 0 .. faults

(* A damaged entry gets behind an accepted open() only where the iterator    *)
(* ended before it (storage.cpp:148), whichever databases the handle was     *)
(* pointed at in between (storage.cpp:154-176,291-301).                      *)
OpenStoreIsSound ==
  Serving => \A h \in Held \ unread : store[db][h] = "pool"

(* However blocks are saved, last_hash() never names a block whose ancestors *)
(* are not all in the database (storage.cpp:190-202,369-371).                *)
TipChainStored ==
  Serving /\ faults = 0 /\ lastHash # NoHash => ChainIn(lastHash, Held)

(* open() fails with ChainError only over two first blocks, also when the    *)
(* callback moved last_hash, the accumulator of the final loop               *)
(* (storage.cpp:190-202).  (A callback that saves a stored block again,      *)
(* because its read failed, does provoke a false one.)                       *)
ChainErrorIsReal ==
  faults = 0 /\ phase = "failed" /\ lastError = "ChainError" /\ db # NoDb
    => \E g, h \in FirstBlocks(Held) : g # h

(* What a client that appends to last_hash() builds is one linear chain, in  *)
(* every database, across cancelled opens, reopens and crashes that lose     *)
(* unsynced puts; so it never meets a ChainError.  (This is of databases     *)
(* without I/O errors, IteratorMayFail = FALSE: a put that failed would be a *)
(* block whose next one is appended all the same, and a scan that ended      *)
(* early may find an older end.)                                             *)
OrderlyChain ==
  client = "appends" /\ faults = 0 =>
    /\ \A d \in Db : Linear(DOMAIN store[d])
    /\ lastError # "ChainError"

(* ... and last_hash() is the end of that chain (storage.h:159-168), whether *)
(* it was left there by pool_save or found by a scan.                        *)
TipIsEndOfChain ==
  client = "appends" /\ faults = 0 /\ Serving /\ Held # {} => EndOf(lastHash, Held)

(* A pool for which pool_save answered true is in the database, until a      *)
(* crash loses it ("@return true, если пул успешно записан", storage.h:174). *)
AckedIsStored == \A d \in Db : acked[d] \subseteq DOMAIN store[d]

(* isOpen(): "true, если хранилище открыто и с ним можно работать"           *)
(* (storage.h:147): an open storage was scanned by the open() that set db.   *)
IsOpenMeansScanned == Ready => scanned = db

(* Every open() returns.                                                     *)
OpenTerminates == (phase = "scan") ~> (phase = "idle")
-----------------------------------------------------------------------------
(* For clients that heed open(), and iterators that yield every entry, the   *)
(* stepwise scan with its maps of partial chains and the bookkeeping of      *)
(* pool_save implement BlockStore, in which an open storage simply knows the *)
(* size and an end of its chain.                                             *)
Abstract == INSTANCE BlockStore WITH
  blocks <- [d \in Db |-> DOMAIN store[d]],
  at     <- IF Serving THEN db ELSE NoDb,
  tip    <- IF Serving THEN lastHash ELSE NoHash,
  size   <- IF Serving THEN countPool ELSE 0

ImplementsBlockStore == Abstract!Spec
=============================================================================

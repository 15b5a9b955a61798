-------------------------------- MODULE Driver --------------------------------
(***************************************************************************)
(* The LevelDB driver (src/src/database_leveldb.cpp, src/src/database.cpp):*)
(* one Database object with an iterator, used by a client directly and     *)
(* through a Storage (src/src/storage.cpp), and what the two of them       *)
(* report as their last error.  Module Storage has the other side of       *)
(* Storage, its count and its last hash.                                   *)
(***************************************************************************)
EXTENDS Integers, SequencesExt

CONSTANTS
  Key,        \* keys, in the order of LevelDB
  Value,
  Damaged,    \* the values that are no pool
  NoValue,
  Batch,      \* lists of items for write_batch
  Failure     \* what a LevelDB call may fail with, besides NotFound

ASSUME DriverAssumption ==
  /\ Key \subseteq Nat \ {0}
  /\ Damaged \subseteq Value /\ NoValue \notin Value
  /\ Batch \subseteq Seq(Key \X Value)
  /\ Failure \subseteq {"Corruption", "NotSupported", "InvalidArgument", "IOError", "other"}

VARIABLES
  level,      \* what LevelDB holds: a value or NoValue for every key
  alive,      \* DatabaseLevelDB::db_ is set
  dbError,    \* Database::last_error_
  dbText,     \* Database::last_error_message_: the status it was made of, or ""
  walk,       \* the iterator: what it walks over, and its key or 0
  holds,      \* Storage::priv::db is set
  stError,    \* Storage::priv::last_error_
  stText,     \* Storage::priv::last_error_message_: its kind, or ""
  elsewhere   \* ghost: the database was called behind the storage's back

database == <<level, alive, dbError, dbText>>
storage == <<holds, stError, stText>>
driverVars == <<database, walk, storage, elsewhere>>

NoWalk == [of |-> <<>>, at |-> 0]

DriverInit ==
  /\ level = [k \in Key |-> NoValue]
  /\ alive = FALSE
  /\ dbError = "NoError" /\ dbText = ""
  /\ walk = NoWalk
  /\ holds = FALSE
  /\ stError = "NoError" /\ stText = ""
  /\ elsewhere = FALSE

-----------------------------------------------------------------------------
(* Errors of the database. *)

\* Mutant: the message of the error before stays.
SetLastError_KeepsText(error, text) ==
  dbError' = error /\ dbText' = IF text = "" THEN dbText ELSE text

SetLastError(error, text) == dbError' = error /\ dbText' = text

ErrorOf(status) ==
  CASE status = "ok" -> "NoError"
    [] status = "other" -> "UnknownError"
    [] OTHER -> status

\* set_last_error_from_leveldb.
FromLevelDB(status) == SetLastError(ErrorOf(status), IF status = "ok" THEN "" ELSE status)

DriverIsOpen == alive

\* A call of an open database, which LevelDB answers with `status`.
Attempt(status, new) ==
  /\ UNCHANGED alive
  /\ IF DriverIsOpen
       THEN /\ FromLevelDB(status)
            /\ level' = IF status = "ok" THEN new ELSE level
       ELSE SetLastError("NotOpen", "") /\ UNCHANGED level

\* How LevelDB may answer a write, and a read of k.
Written == Failure \cup {"ok"}
ReadOf(k) == Failure \cup {IF level[k] = NoValue THEN "NotFound" ELSE "ok"}

-----------------------------------------------------------------------------
(* The client calls the database. *)

Direct == elsewhere' = TRUE /\ UNCHANGED storage

\* LevelDB wants its iterators gone before the database, and open() resets db_.
OpenDriver(status) ==
  /\ walk = NoWalk
  /\ alive' = (status = "ok")
  /\ FromLevelDB(status)
  /\ Direct /\ UNCHANGED <<level, walk>>

Put(k, v, status) == Attempt(status, [level EXCEPT ![k] = v]) /\ Direct /\ UNCHANGED walk
Get(status) == Attempt(status, level) /\ Direct /\ UNCHANGED walk
RemoveKey(k, status) == Attempt(status, [level EXCEPT ![k] = NoValue]) /\ Direct /\ UNCHANGED walk

\* The items go to LevelDB in one write; a list of none does not.
WriteBatch(items, status) ==
  /\ items = <<>> => status = "ok"
  /\ Attempt(status, FoldLeft(LAMBDA data, item : [data EXCEPT ![item[1]] = item[2]], level, items))
  /\ Direct /\ UNCHANGED walk

\* A new iterator sees the database of this moment, and resets no error.
NewIterator ==
  /\ walk = NoWalk
  /\ IF alive THEN walk' = [of |-> level, at |-> 0] /\ UNCHANGED <<dbError, dbText>>
              ELSE SetLastError("NotOpen", "") /\ UNCHANGED walk
  /\ Direct /\ UNCHANGED <<level, alive>>

-----------------------------------------------------------------------------
(* The client moves the iterator, which calls nothing else. *)

Seen == {k \in DOMAIN walk.of : walk.of[k] # NoValue}
Least(keys) == IF keys = {} THEN 0 ELSE CHOOSE k \in keys : \A j \in keys : k <= j
Greatest(keys) == IF keys = {} THEN 0 ELSE CHOOSE k \in keys : \A j \in keys : j <= k

MoveTo(k) ==
  walk # NoWalk /\ walk' = [walk EXCEPT !.at = k] /\ UNCHANGED <<database, storage, elsewhere>>

SeekToFirst == MoveTo(Least(Seen))
SeekToLast == MoveTo(Greatest(Seen))
SeekKey(k) == MoveTo(Least({j \in Seen : j >= k}))
NextKey == walk.at # 0 /\ MoveTo(Least({j \in Seen : j > walk.at}))
PrevKey == walk.at # 0 /\ MoveTo(Greatest({j \in Seen : j < walk.at}))

DropIterator == walk # NoWalk /\ walk' = NoWalk /\ UNCHANGED <<database, storage, elsewhere>>

-----------------------------------------------------------------------------
(* The client calls the storage. *)

ThroughStorage == elsewhere' = FALSE /\ UNCHANGED walk
\* Storage::priv::set_last_error.
Tell(error, text) == stError' = error /\ stText' = text

StorageIsOpen == holds /\ DriverIsOpen

\* open(), of a driver that may be missing or closed; rescan accepts or refuses.
OpenStorage(given, verdict) ==
  /\ ThroughStorage /\ UNCHANGED database
  /\ IF ~given THEN Tell("DatabaseError", "no driver") /\ UNCHANGED holds
     ELSE /\ holds' = (~alive \/ verdict = "NoError")
          /\ IF ~alive THEN Tell("DatabaseError", "not open")
             ELSE Tell(verdict, IF verdict \in {"NoError", "UserCancelled"} THEN "" ELSE "scan")

CloseStorage == holds' = FALSE /\ Tell("NoError", "") /\ ThroughStorage /\ UNCHANGED database

\* pool_load and pool_load_meta, of the empty hash.
LoadOfNothing ==
  /\ ThroughStorage /\ UNCHANGED <<database, holds>>
  /\ IF StorageIsOpen THEN Tell("InvalidParameter", "load") ELSE Tell("NotOpen", "")

\* pool_load, or pool_load_meta, which finds no block valid.
PoolLoad(k, status, meta) ==
  /\ ThroughStorage /\ UNCHANGED holds
  /\ IF ~StorageIsOpen THEN Tell("NotOpen", "") /\ UNCHANGED database
     ELSE /\ Attempt(status, level)
          /\ IF status # "ok" THEN Tell("DatabaseError", "")
             ELSE IF meta \/ level[k] \in Damaged THEN Tell("DataIntegrityError", "load")
             ELSE Tell("NoError", "")

\* pool_save, of a composed pool: get, and, whatever it failed with, put.
PoolSave(k, v, read, status) ==
  /\ ThroughStorage /\ UNCHANGED holds
  /\ IF ~StorageIsOpen THEN Tell("NotOpen", "") /\ UNCHANGED database
     ELSE IF read = "ok" THEN Tell("InvalidParameter", "save") /\ Attempt("ok", level)
     ELSE Tell("NoError", "") /\ Attempt(status, [level EXCEPT ![k] = v])

-----------------------------------------------------------------------------
DriverNext ==
  \/ \E status \in Written : OpenDriver(status)
  \/ \E k \in Key, v \in Value, status \in Written : Put(k, v, status)
  \/ \E k \in Key : \E status \in ReadOf(k) : Get(status)
  \/ \E k \in Key, status \in Written : RemoveKey(k, status)
  \/ \E items \in Batch, status \in Written : WriteBatch(items, status)
  \/ NewIterator \/ SeekToFirst \/ SeekToLast \/ NextKey \/ PrevKey \/ DropIterator
  \/ \E k \in Key : SeekKey(k)
  \/ \E given \in BOOLEAN :
       \E verdict \in {"NoError", "ChainError", "DataIntegrityError", "UserCancelled"} :
         OpenStorage(given, verdict)
  \/ CloseStorage \/ LoadOfNothing
  \/ \E k \in Key, meta \in BOOLEAN : \E status \in ReadOf(k) : PoolLoad(k, status, meta)
  \/ \E k \in Key, v \in Value, status \in Written :
       \E read \in ReadOf(k) : PoolSave(k, v, read, status)

DriverSpec == DriverInit /\ [][DriverNext]_driverVars

-----------------------------------------------------------------------------
(* What is told of errors. *)

\* Database::last_error_message.
DatabaseMessage == IF dbText # "" THEN <<"LevelDB error", dbText>> ELSE <<dbError>>

\* Storage::db_last_error and db_last_error_message.
DbLastError == IF holds THEN dbError ELSE "NotOpen"
DbLastErrorMessage == IF holds THEN DatabaseMessage ELSE <<"Database not specified">>

\* Storage::last_error_message.
StorageMessage ==
  IF stText # "" THEN <<stError, stText>>
  ELSE IF stError = "DatabaseError" THEN <<"Database error">> \o DbLastErrorMessage
  ELSE <<stError>>

(* No message outlives its error: what the database says belongs to its      *)
(* latest error, and a storage that blames the database without words of its *)
(* own holds that database and can say what was wrong, as long as no one     *)
(* else called it (database.cpp:41-63, storage.cpp:90-110, 253-283).         *)
ErrorsExplain ==
  /\ dbError \in {"NoError", "NotOpen"} \/ dbText # ""
  /\ dbText # "" => dbError = ErrorOf(dbText)
  /\ stText = "" /\ stError = "DatabaseError" /\ ~elsewhere =>
       /\ DbLastError \notin {"NoError", "NotOpen"}
       /\ StorageMessage = <<"Database error", "LevelDB error", dbText>>
=============================================================================

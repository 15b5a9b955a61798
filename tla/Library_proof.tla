---------------------------- MODULE Library_proof ----------------------------
(***************************************************************************)
(* Proofs about three parts that MCLibrary checks: what is told of an error*)
(* belongs to that error (Driver), a file system helper that answers true  *)
(* does not answer for a moment that never was, and one that nothing       *)
(* disturbed answers exactly (Files), and the search of a sorted_array_set *)
(* finds what is there (SortedArraySet).                                   *)
(***************************************************************************)
EXTENDS Driver, Files, SortedArraySet, Induction_proof, SequenceTheorems

-----------------------------------------------------------------------------
(* The errors of the driver: the inductive invariant.                        *)

\* What a LevelDB call can have failed with.
Failures == {"NotFound", "Corruption", "NotSupported", "InvalidArgument", "IOError", "other"}

(* The database keeps a message with each error that LevelDB gave it, and    *)
(* with no other; an error that was made of a message is neither NoError nor *)
(* NotOpen.                                                                  *)
DatabaseExplains ==
  /\ dbText \in Failures \cup {""}
  /\ dbText # "" => dbError = ErrorOf(dbText)
  /\ dbText = "" => dbError \in {"NoError", "NotOpen"}

(* A storage blames the database without words of its own only after a call  *)
(* of a database that it holds and that LevelDB failed; what happened to     *)
(* that database since is the ghost's.                                       *)
StorageExplains ==
  stText = "" /\ stError = "DatabaseError" /\ ~elsewhere => holds /\ dbText # ""

Explains == DatabaseExplains /\ StorageExplains

-----------------------------------------------------------------------------
(* Facts about the operators of the module. *)

\* set_last_error_from_leveldb answers for what LevelDB said.
LEMMA FromLevelDBExplains ==
  ASSUME NEW status \in Failures \cup {"ok"}, FromLevelDB(status)
  PROVE  DatabaseExplains' /\ (status # "ok" => dbText' # "")
BY DEF FromLevelDB, SetLastError, ErrorOf, DatabaseExplains, Failures

\* ... and so does every call of the database, open or not.
LEMMA AttemptExplains ==
  ASSUME NEW status \in Failures \cup {"ok"}, NEW new, Attempt(status, new)
  PROVE  DatabaseExplains' /\ (alive /\ status # "ok" => dbText' # "")
<1>1. CASE alive
  BY <1>1, FromLevelDBExplains DEF Attempt, DriverIsOpen
<1>2. CASE ~alive
  BY <1>2 DEF Attempt, DriverIsOpen, SetLastError, DatabaseExplains, Failures
<1> QED  BY <1>1, <1>2

LEMMA OneBeforeTwo ==
  ASSUME NEW x, NEW y, NEW z
  PROVE  <<x>> \o <<y, z>> = <<x, y, z>>
<1> DEFINE S == {x, y, z}   one == <<x>>   two == <<y, z>>   three == <<x, y, z>>
<1>1. one \in Seq(S) /\ two \in Seq(S) /\ three \in Seq(S)
  OBVIOUS
<1>2. /\ Len(one) = 1 /\ Len(two) = 2 /\ Len(three) = 3
      /\ one[1] = x /\ two[1] = y /\ two[2] = z
      /\ three[1] = x /\ three[2] = y /\ three[3] = z
  OBVIOUS
<1> HIDE DEF S, one, two, three
<1>3. /\ one \o two \in Seq(S)
      /\ Len(one \o two) = Len(one) + Len(two)
      /\ \A i \in 1 .. Len(one) + Len(two) :
           (one \o two)[i] = IF i <= Len(one) THEN one[i] ELSE two[i - Len(one)]
  BY <1>1, ConcatProperties, Zenon
<1>4. \A i \in 1 .. 3 : (one \o two)[i] = three[i]
  BY <1>2, <1>3
<1>5. one \o two = three
  BY <1>1, <1>2, <1>3, <1>4, SeqEqual
<1> QED  BY <1>5 DEF one, two, three

LEMMA AnswersAreFailures ==
  /\ Written \subseteq Failures \cup {"ok"}
  /\ \A k \in Key : ReadOf(k) \subseteq Failures \cup {"ok"}
BY DriverAssumption DEF Written, ReadOf, Failures, DriverAssumption

-----------------------------------------------------------------------------
(* Every step keeps it. *)

LEMMA ExplainsInit == DriverInit => Explains
BY DEF DriverInit, Explains, DatabaseExplains, StorageExplains, Failures

\* What leaves the database and the storage's words alone.
LEMMA ExplainsSame ==
  ASSUME Explains, UNCHANGED <<dbError, dbText, stError, stText, holds, elsewhere>>
  PROVE  Explains'
BY DEF Explains, DatabaseExplains, StorageExplains

LEMMA ExplainsDirect ==
  ASSUME Direct, DatabaseExplains'
  PROVE  Explains'
BY DEF Direct, Explains, StorageExplains

LEMMA ExplainsStep == Explains /\ [DriverNext]_driverVars => Explains'
<1> SUFFICES ASSUME Explains, [DriverNext]_driverVars PROVE Explains'
  OBVIOUS
<1> USE AnswersAreFailures
<1>1. ASSUME NEW status \in Written, OpenDriver(status) PROVE Explains'
  BY <1>1, FromLevelDBExplains, ExplainsDirect DEF OpenDriver
<1>2. ASSUME NEW k \in Key, NEW v \in Value, NEW status \in Written, Put(k, v, status)
      PROVE  Explains'
  BY <1>2, AttemptExplains, ExplainsDirect DEF Put
<1>3. ASSUME NEW k \in Key, NEW status \in ReadOf(k), Get(status) PROVE Explains'
  BY <1>3, AttemptExplains, ExplainsDirect DEF Get
<1>4. ASSUME NEW k \in Key, NEW status \in Written, RemoveKey(k, status) PROVE Explains'
  BY <1>4, AttemptExplains, ExplainsDirect DEF RemoveKey
<1>5. ASSUME NEW items \in Batch, NEW status \in Written, WriteBatch(items, status)
      PROVE  Explains'
  <2>1. PICK new : Attempt(status, new)
    BY <1>5, Zenon DEF WriteBatch
  <2> QED  BY <1>5, <2>1, AttemptExplains, ExplainsDirect DEF WriteBatch
<1>6. ASSUME NewIterator PROVE Explains'
  <2>1. DatabaseExplains'
    BY <1>6 DEF NewIterator, SetLastError, Explains, DatabaseExplains, Failures
  <2> QED  BY <1>6, <2>1, ExplainsDirect DEF NewIterator
<1>7. ASSUME \/ SeekToFirst \/ SeekToLast \/ NextKey \/ PrevKey \/ DropIterator
             \/ \E k \in Key : SeekKey(k)
      PROVE  Explains'
  BY <1>7, ExplainsSame
     DEF SeekToFirst, SeekToLast, NextKey, PrevKey, SeekKey, DropIterator, MoveTo, database, storage
<1>8. ASSUME NEW given \in BOOLEAN,
             NEW verdict \in {"NoError", "ChainError", "DataIntegrityError", "UserCancelled"},
             OpenStorage(given, verdict)
      PROVE  Explains'
  BY <1>8 DEF OpenStorage, Tell, ThroughStorage, database, Explains, DatabaseExplains, StorageExplains
<1>9. ASSUME CloseStorage \/ LoadOfNothing PROVE Explains'
  BY <1>9 DEF CloseStorage, LoadOfNothing, Tell, ThroughStorage, database,
              Explains, DatabaseExplains, StorageExplains
<1>10. ASSUME NEW k \in Key, NEW status \in ReadOf(k), NEW meta \in BOOLEAN,
              PoolLoad(k, status, meta)
       PROVE  Explains'
  <2>1. CASE StorageIsOpen
    BY <1>10, <2>1, AttemptExplains
       DEF PoolLoad, Tell, StorageIsOpen, DriverIsOpen, Explains, StorageExplains
  <2>2. CASE ~StorageIsOpen
    BY <1>10, <2>2 DEF PoolLoad, Tell, database, Explains, DatabaseExplains, StorageExplains
  <2> QED  BY <2>1, <2>2
<1>11. ASSUME NEW k \in Key, NEW v \in Value, NEW status \in Written, NEW read \in ReadOf(k),
              PoolSave(k, v, read, status)
       PROVE  Explains'
  <2>1. CASE StorageIsOpen
    <3>1. StorageExplains'
      BY <1>11, <2>1 DEF PoolSave, Tell, StorageExplains
    <3>2. PICK said \in Failures \cup {"ok"} : \E new : Attempt(said, new)
      BY <1>11, <2>1 DEF PoolSave
    <3> QED  BY <3>1, <3>2, AttemptExplains DEF Explains
  <2>2. CASE ~StorageIsOpen
    BY <1>11, <2>2 DEF PoolSave, Tell, database, Explains, DatabaseExplains, StorageExplains
  <2> QED  BY <2>1, <2>2
<1>12. CASE UNCHANGED driverVars
  BY <1>12, ExplainsSame DEF driverVars, database, storage
<1> QED
  BY <1>1, <1>2, <1>3, <1>4, <1>5, <1>6, <1>7, <1>8, <1>9, <1>10, <1>11, <1>12 DEF DriverNext

LEMMA DriverExplains == DriverSpec => []Explains
BY ExplainsInit, ExplainsStep, PTL DEF DriverSpec

-----------------------------------------------------------------------------
(* The message of the database is that of its last error and of no error     *)
(* before it; a storage that blames the database holds it, and its message   *)
(* is the database's (database.cpp:41-63, storage.cpp:90-110, 253-283).      *)
THEOREM DriverErrors == DriverSpec => []ErrorsExplain
<1>1. Explains => ErrorsExplain
  <2> SUFFICES ASSUME Explains PROVE ErrorsExplain
    OBVIOUS
  <2>1. dbText # "" => dbError \notin {"NoError", "NotOpen"}
    BY DEF Explains, DatabaseExplains, ErrorOf, Failures
  <2>2. ASSUME stText = "", stError = "DatabaseError", ~elsewhere
        PROVE  /\ DbLastError \notin {"NoError", "NotOpen"}
               /\ StorageMessage = <<"Database error", "LevelDB error", dbText>>
    <3>1. holds /\ dbText # ""
      BY <2>2 DEF Explains, StorageExplains
    <3>2. StorageMessage = <<"Database error">> \o <<"LevelDB error", dbText>>
      BY <2>2, <3>1 DEF StorageMessage, DbLastErrorMessage, DatabaseMessage
    <3>3. StorageMessage = <<"Database error", "LevelDB error", dbText>>
      BY <3>2, OneBeforeTwo, Zenon
    <3> QED  BY <2>1, <3>1, <3>3 DEF DbLastError
  <2> QED  BY <2>1, <2>2 DEF ErrorsExplain, Explains, DatabaseExplains
<1> QED  BY <1>1, DriverExplains, PTL

-----------------------------------------------------------------------------
(* The file system helpers: the inductive invariant.                         *)

Ops == {"make", "remove", "size", "open"}
Kinds == {"none", "file", "dir"}
Places ==
  {"start", "mkdir", "parent", "again", "last", "exists", "rmdir", "list", "each", "child",
   "final", "file", "home", "db"}

\* The paths that the helpers are called with, by others and by each other.
Given == Path \cup Target \cup {Append(Home, NoName)}

Frames ==
  {f \in [op : Ops, path : Given \cup {<<>>}, at : Places,
          todo : SUBSET [path : Path, kind : Kinds], total : Int] :
     f.path = <<>> => f.op = "open" /\ f.at \in {"start", "home"}}

AnswerValue == [ok : BOOLEAN, size : Int]
Calls == [op : Ops \cup {"none"}, path : Target \cup {<<>>}]

\* Every call that runs works on a path of the file system, or is
\* Storage::open before it has chosen one.
FilesTypes ==
  /\ node \in [Path -> Kinds]
  /\ stack \in [Proc -> Seq(Frames)]
  /\ answer \in [Proc -> AnswerValue]
  /\ call \in [Proc -> Calls]
  /\ seen \in [Proc -> SUBSET Kinds]

Runs(p) == stack[p] # <<>> /\ call[p].path # <<>>

(* The outermost call of a process works on the path it was called with.     *)
OnItsPath(p) ==
  stack[p] # <<>> =>
    LET outer == stack[p][1]
    IN  /\ outer.op = call[p].op
        /\ call[p].path # <<>> => outer.path = call[p].path /\ outer.at # "home"

(* What is at its path is among what was there while it ran.                 *)
Watches(p) == Runs(p) => node[Clean(call[p].path)] \in seen[p]

TrueOf(op, kinds) == IF op = "remove" THEN kinds \cap {"none", "file"} # {} ELSE "dir" \in kinds

\* AnswersAreTrue, of one process.
Truthful(p) ==
  Returned(p) /\ call[p].op # "size" /\ answer[p].ok /\ call[p].path # <<>> =>
    TrueOf(call[p].op, seen[p])

Honest(p) == OnItsPath(p) /\ Watches(p) /\ Truthful(p)

FilesSound == FilesTypes /\ \A p \in Proc : Honest(p)

-----------------------------------------------------------------------------
(* Paths and stacks. *)

LEMMA FrontLast ==
  ASSUME NEW S, NEW s \in Seq(S), s # <<>>
  PROVE  /\ Front(s) \in Seq(S) /\ Len(Front(s)) = Len(s) - 1
         /\ \A i \in 1 .. Len(s) - 1 : Front(s)[i] = s[i]
         /\ Last(s) = s[Len(s)] /\ Last(s) \in S
         /\ Len(s) \in Nat \ {0}
<1>1. Len(s) \in Nat \ {0} /\ \A i \in 1 .. Len(s) : s[i] \in S
  OBVIOUS
<1>2. /\ SubSeq(s, 1, Len(s) - 1) \in Seq(S)
      /\ Len(SubSeq(s, 1, Len(s) - 1)) = IF 1 <= Len(s) - 1 THEN Len(s) - 1 ELSE 0
      /\ \A i \in 1 .. Len(s) - 1 : SubSeq(s, 1, Len(s) - 1)[i] = s[i]
  BY <1>1, SubSeqProperties, SMTT(20)
<1>3. s[Len(s)] \in S
  BY <1>1
<1>4. Len(SubSeq(s, 1, Len(s) - 1)) = Len(s) - 1
  <2>1. \A n \in Nat \ {0} : (IF 1 <= n - 1 THEN n - 1 ELSE 0) = n - 1
    OBVIOUS
  <2> QED
    BY <1>1, <1>2, <2>1, Zenon
<1> QED
  BY <1>1, <1>2, <1>3, <1>4 DEF Front, Last

\* Without the separator at its end, a path is one of the file system's; so is
\* the path above it.
LEMMA GivenPaths ==
  ASSUME FilesAssumption, NEW q \in Given
  PROVE  /\ q # <<>> /\ Clean(q) \in Path /\ Clean(Clean(q)) = Clean(q)
         /\ Len(q) > 1 => Front(q) \in Path
<1>1. ASSUME NEW r \in Path
      PROVE  /\ r # <<>> /\ Clean(r) = r /\ r \in Path
             /\ Len(r) > 1 => Front(r) \in Path
  <2>1. r \in Seq(ToSet(r)) /\ r # <<>> /\ NoName \notin ToSet(r)
        /\ {SubSeq(r, 1, n) : n \in 1 .. Len(r) - 1} \subseteq Path
    BY <1>1 DEF FilesAssumption, Above
  <2>2. Last(r) # NoName
    BY <2>1, FrontLast
  <2>3. Len(r) > 1 => Front(r) \in Path
    <3>1. ASSUME Len(r) > 1 PROVE Len(r) - 1 \in 1 .. Len(r) - 1
      BY <2>1, <3>1
    <3>2. ASSUME Len(r) > 1 PROVE SubSeq(r, 1, Len(r) - 1) \in Path
      BY <2>1, <3>1, <3>2
    <3> QED
      BY <3>2 DEF Front
  <2> QED
    BY <2>1, <2>2, <2>3 DEF Clean
<1>2. ASSUME q \in Target, q \notin Path
      PROVE  q # <<>> /\ Last(q) = NoName /\ Front(q) \in Path
  <2>1. q \in Seq(ToSet(q)) /\ Last(q) = NoName /\ Front(q) \in Path
    BY <1>2 DEF FilesAssumption
  <2>2. ASSUME q = <<>> PROVE FALSE
    <3>1. Front(q) = <<>>
      BY <2>2, SubSeqEmpty DEF Front
    <3> QED
      BY <3>1, <2>1 DEF FilesAssumption
  <2> QED
    BY <2>1, <2>2
<1>3. ASSUME q = Append(Home, NoName)
      PROVE  q # <<>> /\ Last(q) = NoName /\ Front(q) \in Path
  <2> DEFINE S == ToSet(Home) \cup {NoName}
  <2>1. Home \in Path /\ Home \in Seq(S)
    <3>1. Home \in Path /\ Home \in Seq(ToSet(Home))
      BY DEF FilesAssumption
    <3> QED
      BY <3>1
  <2>2. q \in Seq(S) /\ Len(q) = Len(Home) + 1 /\ q[Len(q)] = NoName
        /\ \A i \in 1 .. Len(Home) : q[i] = Home[i]
    BY <1>3, <2>1
  <2>3. q # <<>>
    BY <2>1, <2>2
  <2>4. Front(q) = Home
    <3>1. Front(q) \in Seq(S) /\ Len(Front(q)) = Len(Home)
          /\ \A i \in 1 .. Len(Home) : Front(q)[i] = Home[i]
      <4>1. Len(q) - 1 = Len(Home)
        BY <2>1, <2>2
      <4> HIDE DEF S
      <4> QED
        <5>1. /\ Front(q) \in Seq(S) /\ Len(Front(q)) = Len(q) - 1
              /\ \A i \in 1 .. Len(q) - 1 : Front(q)[i] = q[i]
          BY <2>2, <2>3, FrontLast
        <5> QED
          BY <2>2, <4>1, <5>1
    <3> QED
      BY <2>1, <3>1, SeqEqual
  <2> QED
    BY <2>1, <2>2, <2>3, <2>4, FrontLast
<1>4. CASE q \in Path
  BY <1>1, <1>4
<1>5. CASE q \notin Path
  <2>1. q # <<>> /\ Last(q) = NoName /\ Front(q) \in Path
    BY <1>2, <1>3, <1>5 DEF Given
  <2> QED
    BY <1>1, <2>1 DEF Clean
<1> QED
  BY <1>4, <1>5

\* The last frame of the stack s goes on as f, or makes another call.
Replaces(t, s, f) ==
  t = Append(Front(s), f) \/ \E g \in Frames : t = Front(s) \o <<f, g>>

\* The first frame of a stack stays, unless it is the only one.
LEMMA StackSteps ==
  ASSUME NEW s \in Seq(Frames), s # <<>>, NEW f \in Frames, NEW t, Replaces(t, s, f)
  PROVE  /\ t \in Seq(Frames) /\ t # <<>>
         /\ Len(s) = 1 => Last(s) = s[1] /\ Front(s) = <<>> /\ t[1] = f
         /\ Len(s) # 1 => Front(s) # <<>> /\ Front(s)[1] = s[1] /\ t[1] = s[1]
<1>1. /\ Front(s) \in Seq(Frames) /\ Len(Front(s)) = Len(s) - 1
      /\ \A i \in 1 .. Len(s) - 1 : Front(s)[i] = s[i]
      /\ Last(s) = s[Len(s)] /\ Len(s) \in Nat \ {0}
  BY FrontLast
<1>2. /\ Len(s) = 1 => Last(s) = s[1] /\ Front(s) = <<>>
      /\ Len(s) # 1 => Front(s) # <<>> /\ Front(s)[1] = s[1]
  <2>1. Len(s) # 1 => 1 \in 1 .. Len(s) - 1
    BY <1>1
  <2> QED
    BY <1>1, <2>1
<1>3. CASE t = Append(Front(s), f)
  <2>1. /\ t \in Seq(Frames) /\ Len(t) = Len(s) /\ t[Len(s)] = f
        /\ \A i \in 1 .. Len(s) - 1 : t[i] = Front(s)[i]
    BY <1>1, <1>3, AppendProperties
  <2>2. Len(s) # 1 => 1 \in 1 .. Len(s) - 1
    BY <1>1
  <2>3. t # <<>>
    BY <1>1, <2>1
  <2> QED
    BY <1>1, <1>2, <2>1, <2>2, <2>3
<1>4. ASSUME NEW g \in Frames, t = Front(s) \o <<f, g>>
      PROVE  /\ t \in Seq(Frames) /\ t # <<>>
             /\ Len(s) = 1 => t[1] = f
             /\ Len(s) # 1 => t[1] = s[1]
  <2>1. /\ <<f, g>> \in Seq(Frames) /\ <<f, g>>[1] = f /\ Len(<<f, g>>) = 2
    OBVIOUS
  <2>2. /\ t \in Seq(Frames) /\ Len(t) = Len(s) + 1 /\ t[Len(s)] = f
        /\ \A i \in 1 .. Len(s) - 1 : t[i] = Front(s)[i]
    <3> DEFINE u == Front(s)
               v == <<f, g>>
    <3>1. u \in Seq(Frames) /\ v \in Seq(Frames) /\ Len(u) = Len(s) - 1 /\ Len(v) = 2 /\ v[1] = f
      BY <1>1, <2>1
    <3> HIDE DEF u, v
    <3>2. /\ u \o v \in Seq(Frames) /\ Len(u \o v) = Len(u) + Len(v)
          /\ \A i \in 1 .. Len(u) + Len(v) :
               (u \o v)[i] = IF i <= Len(u) THEN u[i] ELSE v[i - Len(u)]
      BY <3>1, ConcatProperties
    <3>3. Len(s) - Len(u) = 1 /\ Len(s) \in 1 .. Len(u) + Len(v) /\ ~(Len(s) <= Len(u))
      BY <1>1, <3>1
    <3>4. (u \o v)[Len(s)] = f
      BY <3>1, <3>2, <3>3
    <3>5. \A i \in 1 .. Len(s) - 1 : (u \o v)[i] = u[i]
      BY <1>1, <3>1, <3>2
    <3>6. t = u \o v
      BY <1>4 DEF u, v
    <3> QED BY <1>1, <3>1, <3>2, <3>4, <3>5, <3>6 DEF u
  <2>3. Len(s) # 1 => 1 \in 1 .. Len(s) - 1
    BY <1>1
  <2>4. t # <<>>
    BY <1>1, <2>2
  <2> QED
    BY <1>1, <1>2, <2>2, <2>3, <2>4
<1> QED
  BY <1>2, <1>3, <1>4 DEF Replaces

-----------------------------------------------------------------------------
(* The file system changes. *)

\* What a step of a process leaves of node, seen and others.
Moves(p) ==
  NoChange \/ \E q \in Path, kind \in Kinds, what \in {"made", "removed"} : SetNode(p, q, kind, what)

\* Whoever changes the files, a call that runs sees what is at its path.
LEMMA MovesWatched ==
  ASSUME FilesAssumption, FilesSound, NEW p \in Proc, Moves(p)
  PROVE  /\ node' \in [Path -> Kinds] /\ seen' \in [Proc -> SUBSET Kinds]
         /\ \A r \in Proc : /\ seen[r] \subseteq seen'[r]
                            /\ Runs(r) => node'[Clean(call[r].path)] \in seen'[r]
<1>1. CASE NoChange
  BY <1>1 DEF NoChange, FilesSound, FilesTypes, Honest, Watches
<1>2. ASSUME NEW q \in Path, NEW kind \in Kinds, NEW what \in {"made", "removed"},
             SetNode(p, q, kind, what)
      PROVE  /\ node' \in [Path -> Kinds] /\ seen' \in [Proc -> SUBSET Kinds]
             /\ \A r \in Proc : /\ seen[r] \subseteq seen'[r]
                                /\ Runs(r) => node'[Clean(call[r].path)] \in seen'[r]
  <2>1. /\ node' = [node EXCEPT ![q] = kind]
        /\ seen' = [r \in Proc |-> IF stack[r] # <<>> /\ Subject(call[r]) = q
                                     THEN seen[r] \cup {kind} ELSE seen[r]]
    BY <1>2 DEF SetNode
  <2>2. node \in [Path -> Kinds] /\ seen \in [Proc -> SUBSET Kinds]
    BY DEF FilesSound, FilesTypes
  <2>3. ASSUME NEW r \in Proc, Runs(r) PROVE node'[Clean(call[r].path)] \in seen'[r]
    <3>1. call[r].path \in Given /\ call[r].path # <<>> /\ stack[r] # <<>>
      BY <2>3 DEF Runs, FilesSound, FilesTypes, Calls, Given
    <3>2. Subject(call[r]) = Clean(call[r].path) /\ Clean(call[r].path) \in Path
      BY <3>1, GivenPaths DEF Subject
    <3>3. node[Clean(call[r].path)] \in seen[r]
      BY <2>3 DEF FilesSound, Honest, Watches
    <3> QED
      BY <2>1, <2>2, <3>1, <3>2, <3>3
  <2> QED
    BY <2>1, <2>2, <2>3
<1> QED
  BY <1>1, <1>2 DEF Moves

-----------------------------------------------------------------------------
(* A step of a process: its innermost call goes on, makes another, or returns. *)

\* The frame b goes on as f: the same call, on the same path unless it is the
\* one of Storage::open that app_data_path() chose.
GoesOnAs(b, f) ==
  f.op = b.op /\ (b.at # "home" => f.path = b.path /\ (f.at = "home" => f.path = <<>>))

\* A process that makes no step keeps its part of the invariant.
LEMMA OthersHonest ==
  ASSUME FilesAssumption, FilesSound, NEW p \in Proc, Moves(p), UNCHANGED call,
         NEW r \in Proc, stack'[r] = stack[r], answer'[r] = answer[r]
  PROVE  Honest(r)'
<1>1. seen[r] \subseteq seen'[r] /\ (Runs(r) => node'[Clean(call[r].path)] \in seen'[r])
  BY MovesWatched
<1>2. OnItsPath(r)' /\ Watches(r)'
  BY <1>1 DEF FilesSound, Honest, OnItsPath, Watches, Runs
<1>3. Truthful(r)'
  BY <1>1 DEF FilesSound, Honest, Truthful, Returned, TrueOf
<1> QED
  BY <1>2, <1>3 DEF Honest

LEMMA GoesOnSound ==
  ASSUME FilesAssumption, FilesSound, NEW p \in Proc, Moves(p), UNCHANGED <<answer, call>>,
         stack[p] # <<>>, NEW f \in Frames, GoesOnAs(Top(p), f),
         NEW t, Replaces(t, stack[p], f), stack' = [stack EXCEPT ![p] = t]
  PROVE  FilesSound'
<1> DEFINE s == stack[p]
<1>1. s \in Seq(Frames) /\ stack \in [Proc -> Seq(Frames)] /\ s # <<>>
  BY DEF FilesSound, FilesTypes
<1>2. /\ stack' \in [Proc -> Seq(Frames)] /\ stack'[p] # <<>>
      /\ stack'[p][1] = IF Len(s) = 1 THEN f ELSE s[1]
      /\ Len(s) = 1 => Top(p) = s[1]
      /\ \A r \in Proc \ {p} : stack'[r] = stack[r]
  <2>1. /\ t \in Seq(Frames) /\ t # <<>>
        /\ Len(s) = 1 => Last(s) = s[1] /\ t[1] = f
        /\ Len(s) # 1 => t[1] = s[1]
    BY <1>1, StackSteps
  <2> QED
    BY <1>1, <2>1 DEF Top
<1>3. FilesTypes'
  BY <1>2, MovesWatched DEF FilesSound, FilesTypes
<1>4. OnItsPath(p)'
  <2>1. /\ s[1].op = call[p].op
        /\ call[p].path # <<>> => s[1].path = call[p].path /\ s[1].at # "home"
    BY <1>1 DEF FilesSound, Honest, OnItsPath
  <2>2. CASE Len(s) # 1
    BY <1>2, <2>1, <2>2 DEF OnItsPath
  <2>3. CASE Len(s) = 1
    BY <1>2, <2>1, <2>3 DEF OnItsPath, GoesOnAs
  <2> QED
    BY <2>2, <2>3
<1>5. Watches(p)' /\ Truthful(p)'
  BY <1>1, <1>2, MovesWatched DEF Watches, Runs, Truthful, Returned
<1>6. \A r \in Proc \ {p} : Honest(r)'
  BY <1>2, OthersHonest
<1> QED
  BY <1>3, <1>4, <1>5, <1>6 DEF FilesSound, Honest

\* A call that returns true leaves, at that moment, what it says of its path.
LEMMA ReturnsSound ==
  ASSUME FilesAssumption, FilesSound, NEW p \in Proc, Moves(p), stack[p] # <<>>,
         NEW v \in AnswerValue, Answers(p, v),
         v.ok /\ Top(p).path # <<>> =>
           IF Top(p).op = "remove" THEN node'[Clean(Top(p).path)] # "dir"
                                   ELSE node'[Clean(Top(p).path)] = "dir"
  PROVE  FilesSound'
<1> DEFINE s == stack[p]
<1>1. s \in Seq(Frames) /\ stack \in [Proc -> Seq(Frames)] /\ s # <<>>
  BY DEF FilesSound, FilesTypes
<1>2. /\ stack' = [stack EXCEPT ![p] = Front(@)] /\ answer' = [answer EXCEPT ![p] = v]
      /\ UNCHANGED call
  BY DEF Answers
<1>3. Front(s) \in Seq(Frames) /\ Last(s) \in Frames
  BY <1>1, FrontLast
<1>4. /\ Len(s) = 1 => Last(s) = s[1] /\ Front(s) = <<>>
      /\ Len(s) # 1 => Front(s) # <<>> /\ Front(s)[1] = s[1]
  <2>1. Replaces(Append(Front(s), Last(s)), s, Last(s))
    BY DEF Replaces
  <2> QED
    BY <1>1, <1>3, <2>1, StackSteps
<1>5. /\ stack' \in [Proc -> Seq(Frames)] /\ stack'[p] = Front(s)
      /\ answer' \in [Proc -> AnswerValue] /\ answer'[p] = v
      /\ \A r \in Proc \ {p} : stack'[r] = stack[r] /\ answer'[r] = answer[r]
  BY <1>1, <1>2, <1>3 DEF FilesSound, FilesTypes
<1>6. FilesTypes'
  BY <1>2, <1>5, MovesWatched DEF FilesSound, FilesTypes
<1>7. /\ s[1].op = call[p].op
      /\ call[p].path # <<>> => s[1].path = call[p].path /\ s[1].at # "home"
  BY <1>1 DEF FilesSound, Honest, OnItsPath
<1>8. OnItsPath(p)'
  BY <1>1, <1>2, <1>4, <1>5, <1>7 DEF OnItsPath
<1>9. Watches(p)'
  BY <1>1, <1>2, MovesWatched DEF Watches, Runs
<1>10. Truthful(p)'
  <2> SUFFICES ASSUME Returned(p)', call[p].op # "size", v.ok, call[p].path # <<>>
               PROVE  TrueOf(call[p].op, seen'[p])
    BY <1>2, <1>5 DEF Truthful
  <2>1. Front(s) = <<>>
    BY <1>5 DEF Returned
  <2>2. Top(p).op = call[p].op /\ Top(p).path = call[p].path
    BY <1>4, <1>7, <2>1 DEF Top
  <2>3. node'[Clean(call[p].path)] \in seen'[p] /\ seen'[p] \in SUBSET Kinds
    BY <1>1, MovesWatched DEF Runs
  <2> QED
    BY <2>2, <2>3 DEF TrueOf, Kinds
<1>11. \A r \in Proc \ {p} : Honest(r)'
  BY <1>2, <1>5, OthersHonest
<1> QED
  BY <1>6, <1>8, <1>9, <1>10, <1>11 DEF FilesSound, Honest

-----------------------------------------------------------------------------
(* The innermost call of a process. *)

LEMMA TopTypes ==
  ASSUME FilesAssumption, FilesSound, NEW p \in Proc, stack[p] # <<>>
  PROVE  /\ Top(p) \in Frames
         /\ Top(p).path # <<>> => /\ Clean(Top(p).path) \in Path
                                  /\ Len(Top(p).path) > 1 => Front(Top(p).path) \in Path
         /\ Top(p).path = <<>> => Top(p).op = "open" /\ Top(p).at \in {"start", "home"}
<1>1. Top(p) \in Frames
  BY FrontLast DEF Top, FilesSound, FilesTypes
<1>2. /\ Top(p).path \in Given \cup {<<>>}
      /\ Top(p).path = <<>> => Top(p).op = "open" /\ Top(p).at \in {"start", "home"}
  BY <1>1 DEF Frames
<1> QED
  BY <1>1, <1>2, GivenPaths

\* A call that a helper makes.
LEMMA NewFrames ==
  ASSUME NEW op \in Ops, NEW path \in Given \cup {<<>>}, path # <<>> \/ op = "open"
  PROVE  Frame(op, path) \in Frames
BY DEF Frame, Frames, Places

LEMMA GoToSound ==
  ASSUME FilesAssumption, FilesSound, NEW p \in Proc, stack[p] # <<>>, Top(p).at # "home",
         Top(p).path # <<>>, Moves(p), NEW place \in Places \ {"home"}, GoTo(p, place)
  PROVE  FilesSound'
<1> DEFINE f == [Top(p) EXCEPT !.at = place]
<1>1. f \in Frames /\ f.op = Top(p).op /\ f.path = Top(p).path /\ f.at = place
  BY TopTypes DEF Frames
<1>2. /\ stack' = [stack EXCEPT ![p] = Append(Front(stack[p]), f)]
      /\ UNCHANGED <<answer, call>>
  BY DEF GoTo, Changed
<1> HIDE DEF f
<1>3. GoesOnAs(Top(p), f) /\ Replaces(Append(Front(stack[p]), f), stack[p], f)
  BY <1>1 DEF GoesOnAs, Replaces
<1> QED
  BY <1>1, <1>2, <1>3, GoesOnSound

\* The innermost call changes as f and makes the call g.
LEMMA EnterSound ==
  ASSUME FilesAssumption, FilesSound, NEW p \in Proc, stack[p] # <<>>, Moves(p),
         NEW f \in Frames, GoesOnAs(Top(p), f), NEW g \in Frames,
         stack' = [stack EXCEPT ![p] = Front(@) \o <<f, g>>], UNCHANGED <<answer, call>>
  PROVE  FilesSound'
<1>1. Replaces(Front(stack[p]) \o <<f, g>>, stack[p], f)
  BY DEF Replaces
<1> QED
  BY <1>1, GoesOnSound

\* The innermost call changes as f.
LEMMA ChangeSound ==
  ASSUME FilesAssumption, FilesSound, NEW p \in Proc, stack[p] # <<>>, Moves(p),
         NEW f \in Frames, GoesOnAs(Top(p), f),
         stack' = Changed(p, f), UNCHANGED <<answer, call>>
  PROVE  FilesSound'
<1>1. Replaces(Append(Front(stack[p]), f), stack[p], f)
  BY DEF Replaces
<1> QED
  BY <1>1, GoesOnSound DEF Changed

\* A call that answers false says nothing.
LEMMA RefusalSound ==
  ASSUME FilesAssumption, FilesSound, NEW p \in Proc, stack[p] # <<>>, Moves(p),
         Return(p, FALSE) \/ \E size \in Int : ReturnSize(p, size)
  PROVE  FilesSound'
<1>1. PICK v \in AnswerValue : Answers(p, v) /\ ~v.ok
  <2>1. Yes(FALSE) \in AnswerValue /\ ~Yes(FALSE).ok
    BY DEF Yes, AnswerValue
  <2>2. \A size \in Int : /\ [ok |-> FALSE, size |-> size] \in AnswerValue
                          /\ ~[ok |-> FALSE, size |-> size].ok
    BY DEF AnswerValue
  <2> QED
    BY <2>1, <2>2 DEF Return, ReturnSize
<1> QED
  BY <1>1, ReturnsSound

\* path_make and Storage::open answer true when the directory is there.
LEMMA MadeSound ==
  ASSUME FilesAssumption, FilesSound, NEW p \in Proc, stack[p] # <<>>, Moves(p),
         Top(p).op \in {"make", "open"}, node'[Clean(Top(p).path)] = "dir", Return(p, TRUE)
  PROVE  FilesSound'
<1>1. Yes(TRUE) \in AnswerValue /\ Answers(p, Yes(TRUE))
  BY DEF Return, Yes, AnswerValue
<1> QED
  BY <1>1, ReturnsSound

\* path_remove answers true when the directory is not.
LEMMA RemovedSound ==
  ASSUME FilesAssumption, FilesSound, NEW p \in Proc, stack[p] # <<>>, Moves(p),
         Top(p).op = "remove", node'[Clean(Top(p).path)] # "dir", Return(p, TRUE)
  PROVE  FilesSound'
<1>1. Yes(TRUE) \in AnswerValue /\ Answers(p, Yes(TRUE))
  BY DEF Return, Yes, AnswerValue
<1> QED
  BY <1>1, ReturnsSound

\* mkdir that succeeds, and rmdir or unlink.
LEMMA NodeSet ==
  ASSUME FilesSound, NEW p \in Proc, NEW q \in Path, NEW kind \in {"none", "dir"},
         NEW what \in {"made", "removed"}, SetNode(p, q, kind, what)
  PROVE  Moves(p) /\ node'[q] = kind
<1>1. node \in [Path -> Kinds]
  BY DEF FilesSound, FilesTypes
<1> QED
  BY <1>1 DEF SetNode, Moves, Kinds

LEMMA NothingSet ==
  ASSUME NEW p \in Proc, NoChange
  PROVE  Moves(p) /\ UNCHANGED node
BY DEF Moves, NoChange

-----------------------------------------------------------------------------
(* Every system call preserves the invariant. *)

\* path_make.
LEMMA MakeSound ==
  ASSUME FilesAssumption, FilesSound, NEW p \in Proc,
         \/ MakeStart(p) \/ MakeFirst(p) \/ MakeParent(p)
         \/ MakeAgain(p) \/ MakeLast(p) \/ MakeExists(p)
  PROVE  FilesSound'
<1> DEFINE path == Top(p).path
<1>1. stack[p] # <<>> /\ Top(p).op = "make" /\ Top(p).at # "home" /\ Top(p) \in Frames
  BY TopTypes DEF MakeStart, MakeFirst, MakeParent, MakeAgain, MakeLast, MakeExists, InStep
<1>2. path # <<>> /\ Clean(path) \in Path /\ (Len(path) > 1 => Front(path) \in Path)
  BY <1>1, TopTypes
<1>3. Top(p).path # <<>> /\ {"mkdir", "exists", "again", "last", "parent"} \subseteq Places \ {"home"}
  BY <1>2 DEF Places
<1>4. CASE MakeStart(p)
  <2>1. Moves(p) /\ UNCHANGED node
    BY <1>4, NothingSet DEF MakeStart
  <2>2. CASE DirExists(path)
    BY <1>1, <1>4, <2>1, <2>2, MadeSound DEF MakeStart, DirExists
  <2>3. CASE ~DirExists(path)
    BY <1>1, <1>3, <1>4, <2>1, <2>3, GoToSound DEF MakeStart
  <2> QED
    BY <2>2, <2>3
<1>5. CASE MakeFirst(p)
  <2>1. CASE SetNode(p, Clean(path), "dir", "made") /\ Return(p, TRUE)
    BY <1>1, <1>2, <2>1, NodeSet, MadeSound
  <2>2. CASE GoTo(p, "exists") /\ NoChange
    BY <1>1, <1>3, <2>2, NothingSet, GoToSound
  <2>3. CASE Len(path) > 1 /\ Enter(p, Frame("make", Front(path)), "parent") /\ NoChange
    <3> DEFINE f == [Top(p) EXCEPT !.at = "parent"]
               g == Frame("make", Front(path))
    <3>1. g \in Frames
      <4>1. Front(path) \in Given /\ Front(path) # <<>> /\ "make" \in Ops
        BY <1>2, <2>3 DEF Given, FilesAssumption, Ops
      <4> QED
        BY <4>1, NewFrames
    <3>2. f \in Frames /\ GoesOnAs(Top(p), f)
      BY <1>1, <1>3 DEF Frames, GoesOnAs
    <3>3. stack' = [stack EXCEPT ![p] = Front(@) \o <<f, g>>] /\ UNCHANGED <<answer, call>>
      BY <2>3 DEF Enter
    <3> HIDE DEF f, g
    <3> QED
      BY <1>1, <2>3, <3>1, <3>2, <3>3, NothingSet, EnterSound
  <2>4. CASE Return(p, FALSE) /\ NoChange
    BY <1>1, <2>4, NothingSet, RefusalSound
  <2> QED
    BY <1>5, <2>1, <2>2, <2>3, <2>4 DEF MakeFirst
<1>6. CASE MakeParent(p)
  <2>1. Moves(p)
    BY <1>6, NothingSet DEF MakeParent
  <2> QED
    BY <1>1, <1>3, <1>6, <2>1, GoToSound, RefusalSound DEF MakeParent
<1>7. CASE MakeAgain(p)
  <2>1. Moves(p) /\ UNCHANGED node
    BY <1>7, NothingSet DEF MakeAgain
  <2>2. CASE DirExists(path)
    BY <1>1, <1>7, <2>1, <2>2, MadeSound DEF MakeAgain, DirExists
  <2>3. CASE ~DirExists(path)
    BY <1>1, <1>3, <1>7, <2>1, <2>3, GoToSound DEF MakeAgain
  <2> QED
    BY <2>2, <2>3
<1>8. CASE MakeLast(p)
  <2>1. CASE SetNode(p, Clean(path), "dir", "made") /\ Return(p, TRUE)
    BY <1>1, <1>2, <2>1, NodeSet, MadeSound
  <2>2. CASE Return(p, FALSE) /\ NoChange
    BY <1>1, <2>2, NothingSet, RefusalSound
  <2> QED
    BY <1>8, <2>1, <2>2 DEF MakeLast
<1>9. CASE MakeExists(p)
  <2>1. Moves(p) /\ UNCHANGED node /\ Return(p, DirExists(path))
    BY <1>9, NothingSet DEF MakeExists
  <2>2. CASE DirExists(path)
    <3>1. Return(p, TRUE)
      BY <2>1, <2>2 DEF DirExists, Return, Yes
    <3> QED
      BY <1>1, <2>1, <2>2, <3>1, MadeSound DEF DirExists
  <2>3. CASE ~DirExists(path)
    <3>1. Return(p, FALSE)
      BY <2>1, <2>3 DEF DirExists, Return, Yes
    <3> QED
      BY <1>1, <2>1, <3>1, RefusalSound
  <2> QED
    BY <2>2, <2>3
<1> QED
  BY <1>4, <1>5, <1>6, <1>7, <1>8, <1>9

\* path_remove, but for its loop.
LEMMA RemoveSound ==
  ASSUME FilesAssumption, FilesSound, NEW p \in Proc,
         RemoveStart(p) \/ Rmdir(p) \/ RemoveChild(p) \/ RmdirLast(p)
  PROVE  FilesSound'
<1> DEFINE path == Top(p).path
<1>1. stack[p] # <<>> /\ Top(p).op = "remove" /\ Top(p).at # "home"
  BY DEF RemoveStart, Rmdir, RemoveChild, RmdirLast, InStep
<1>2. path # <<>> /\ Clean(path) \in Path
  BY <1>1, TopTypes
<1>3. Top(p).path # <<>> /\ {"rmdir", "final", "list", "each"} \subseteq Places \ {"home"}
  BY <1>2 DEF Places
<1>4. CASE RemoveStart(p)
  <2>1. Moves(p) /\ UNCHANGED node
    BY <1>4, NothingSet DEF RemoveStart
  <2>2. CASE DirExists(path)
    <3>1. GoTo(p, "rmdir") \/ GoTo(p, "final")
      BY <1>4, <2>2 DEF RemoveStart
    <3> QED
      BY <1>1, <1>3, <2>1, <3>1, GoToSound
  <2>3. CASE ~DirExists(path)
    BY <1>1, <1>4, <2>1, <2>3, RemovedSound DEF RemoveStart, DirExists
  <2> QED
    BY <2>2, <2>3
<1>5. CASE Rmdir(p)
  <2>1. CASE SetNode(p, Clean(path), "none", "removed") /\ Return(p, TRUE)
    BY <1>1, <1>2, <2>1, NodeSet, RemovedSound
  <2>2. CASE GoTo(p, "list") /\ NoChange
    BY <1>1, <1>3, <2>2, NothingSet, GoToSound
  <2> QED
    BY <1>5, <2>1, <2>2 DEF Rmdir
<1>6. CASE RemoveChild(p)
  <2>1. Moves(p)
    BY <1>6, NothingSet DEF RemoveChild
  <2> QED
    BY <1>1, <1>3, <1>6, <2>1, GoToSound, RefusalSound DEF RemoveChild
<1>7. CASE RmdirLast(p)
  <2>1. CASE SetNode(p, Clean(path), "none", "removed") /\ Return(p, TRUE)
    BY <1>1, <1>2, <2>1, NodeSet, RemovedSound
  <2>2. CASE Return(p, FALSE) /\ NoChange
    BY <1>1, <2>2, NothingSet, RefusalSound
  <2> QED
    BY <1>7, <2>1, <2>2 DEF RmdirLast
<1> QED
  BY <1>4, <1>5, <1>6, <1>7

\* What a loop has still to do are children: places of the file system.
LEMMA ChildTypes ==
  ASSUME FilesAssumption, FilesSound, NEW p \in Proc, stack[p] # <<>>, Top(p).path # <<>>,
         NEW c \in Top(p).todo
  PROVE  /\ c.path \in Path /\ c.path # <<>> /\ c.path \in Given
         /\ \A place \in Places \ {"home"} :
              LET f == [Top(p) EXCEPT !.todo = @ \ {c}, !.at = place]
              IN  f \in Frames /\ (Top(p).at # "home" => GoesOnAs(Top(p), f))
<1>1. Top(p) \in Frames
  BY TopTypes
<1>2. c.path \in Path
  BY <1>1 DEF Frames
<1> QED
  BY <1>1, <1>2 DEF Frames, GoesOnAs, FilesAssumption, Given

\* The loop of path_remove.
LEMMA RemoveEachSound ==
  ASSUME FilesAssumption, FilesSound, NEW p \in Proc, RemoveEach(p)
  PROVE  FilesSound'
<1>1. /\ stack[p] # <<>> /\ Top(p).op = "remove" /\ Top(p).at = "each"
      /\ Top(p) \in Frames /\ Top(p).path # <<>>
  BY TopTypes DEF RemoveEach, InStep
<1>2. CASE GoTo(p, "last") /\ NoChange
  BY <1>1, <1>2, NothingSet, GoToSound DEF Places
<1>3. ASSUME NEW c \in Top(p).todo, c.kind = "dir", NoChange, UNCHANGED <<answer, call>>,
             stack' = [stack EXCEPT ![p] =
               Front(@) \o <<[[Top(p) EXCEPT !.todo = @ \ {c}] EXCEPT !.at = "child"],
                             Frame("remove", c.path)>>]
      PROVE  FilesSound'
  <2> DEFINE f == [[Top(p) EXCEPT !.todo = @ \ {c}] EXCEPT !.at = "child"]
             g == Frame("remove", c.path)
  <2>1. f \in Frames /\ GoesOnAs(Top(p), f)
    BY <1>1 DEF Frames, GoesOnAs, Places
  <2>2. g \in Frames
    BY <1>1, ChildTypes, NewFrames DEF Ops
  <2> HIDE DEF f, g
  <2> QED
    BY <1>1, <1>3, <2>1, <2>2, NothingSet, EnterSound DEF f, g
<1>4. ASSUME NEW c \in Top(p).todo, FileRemove(p, c.path), UNCHANGED <<answer, call>>,
             stack' = Changed(p, [Top(p) EXCEPT !.todo = @ \ {c}])
      PROVE  FilesSound'
  <2> DEFINE f == [Top(p) EXCEPT !.todo = @ \ {c}]
  <2>1. f \in Frames /\ GoesOnAs(Top(p), f)
    BY <1>1 DEF Frames, GoesOnAs
  <2>2. Moves(p)
    BY <1>1, <1>4, ChildTypes, NodeSet DEF FileRemove
  <2> HIDE DEF f
  <2> QED
    BY <1>1, <1>4, <2>1, <2>2, ChangeSound DEF f
<1>5. CASE Return(p, FALSE) /\ NoChange
  BY <1>1, <1>5, NothingSet, RefusalSound
<1> QED
  BY <1>2, <1>3, <1>4, <1>5 DEF RemoveEach

\* file_size: a size, or NotThere.
LEMMA SizesAreIntegers ==
  ASSUME FilesAssumption, FilesSound, NEW q, Clean(q) \in Path
  PROVE  FileSize(q) \in Int
BY DEF FileSize, NotThere, FilesAssumption, Clean

\* path_size.
LEMMA SizeSound ==
  ASSUME FilesAssumption, FilesSound, NEW p \in Proc,
         SizeStart(p) \/ SizeFile(p) \/ SizeEach(p) \/ SizeChild(p)
  PROVE  FilesSound'
<1>1. /\ stack[p] # <<>> /\ Top(p).op = "size" /\ Top(p).at # "home"
      /\ Top(p) \in Frames /\ Top(p).path # <<>>
  BY TopTypes DEF SizeStart, SizeFile, SizeEach, SizeChild, InStep
<1>2. Moves(p)
  BY NothingSet DEF SizeStart, SizeFile, SizeEach, SizeChild
<1>3. Clean(Top(p).path) \in Path
  BY <1>1, TopTypes
<1>4. CASE SizeStart(p)
  BY <1>1, <1>2, <1>4, GoToSound DEF SizeStart, Places
<1>5. CASE SizeFile(p)
  BY <1>1, <1>2, <1>3, <1>5, SizesAreIntegers, RefusalSound DEF SizeFile
<1>6. CASE SizeEach(p)
  <2>1. CASE ReturnSize(p, Top(p).total)
    <3>1. Top(p).total \in Int
      BY <1>1 DEF Frames
    <3> QED
      BY <1>1, <1>2, <2>1, <3>1, RefusalSound
  <2>2. ASSUME NEW c \in Top(p).todo, UNCHANGED <<answer, call>>,
               stack' = [stack EXCEPT ![p] =
                 Front(@) \o <<[Top(p) EXCEPT !.todo = @ \ {c}, !.at = "child"],
                               Frame("size", c.path)>>]
        PROVE  FilesSound'
    <3> DEFINE f == [Top(p) EXCEPT !.todo = @ \ {c}, !.at = "child"]
               g == Frame("size", c.path)
    <3>1. f \in Frames /\ GoesOnAs(Top(p), f)
      BY <1>1 DEF Frames, GoesOnAs, Places
    <3>2. g \in Frames
      BY <1>1, ChildTypes, NewFrames DEF Ops
    <3> HIDE DEF f, g
    <3> QED
      BY <1>1, <1>2, <2>2, <3>1, <3>2, EnterSound DEF f, g
  <2> QED
    BY <1>6, <2>1, <2>2 DEF SizeEach
<1>7. CASE SizeChild(p)
  <2> DEFINE f == [Top(p) EXCEPT !.at = "each",
                     !.total = IF answer[p].size = NotThere THEN @ ELSE @ + answer[p].size]
  <2>1. answer[p].size \in Int
    BY DEF FilesSound, FilesTypes, AnswerValue
  <2> DEFINE total == IF answer[p].size = NotThere THEN Top(p).total
                      ELSE Top(p).total + answer[p].size
  <2>2. total \in Int /\ f = [Top(p) EXCEPT !.at = "each", !.total = total]
    BY <1>1, <2>1 DEF Frames
  <2> HIDE DEF total
  <2>3. f \in Frames /\ GoesOnAs(Top(p), f)
    BY <1>1, <2>2 DEF Frames, GoesOnAs, Places
  <2>4. stack' = Changed(p, f) /\ UNCHANGED <<answer, call>>
    BY <1>7 DEF SizeChild
  <2> HIDE DEF f
  <2> QED
    BY <1>1, <1>2, <2>3, <2>4, ChangeSound
<1> QED
  BY <1>4, <1>5, <1>6, <1>7

\* The list of the children, for path_remove and path_size.
LEMMA ListSound ==
  ASSUME FilesAssumption, FilesSound, NEW p \in Proc, List(p)
  PROVE  FilesSound'
<1> DEFINE f == [Top(p) EXCEPT !.at = "each", !.todo = Children(Top(p).path)]
<1>1. stack[p] # <<>> /\ Top(p).at = "list" /\ Top(p) \in Frames /\ Top(p).path # <<>>
  BY TopTypes DEF List, InStep
<1>2. Children(Top(p).path) \in SUBSET [path : Path, kind : Kinds]
  BY DEF Children, Below, FilesSound, FilesTypes
<1>3. f \in Frames /\ GoesOnAs(Top(p), f)
  BY <1>1, <1>2 DEF Frames, GoesOnAs, Places
<1>4. Moves(p) /\ stack' = Changed(p, f) /\ UNCHANGED <<answer, call>>
  BY NothingSet DEF List
<1> HIDE DEF f
<1> QED
  BY <1>1, <1>3, <1>4, ChangeSound

\* Storage::open.
LEMMA OpenSound ==
  ASSUME FilesAssumption, FilesSound, NEW p \in Proc,
         OpenStart(p) \/ OpenDefault(p) \/ OpenDatabase(p)
  PROVE  FilesSound'
<1> DEFINE path == Top(p).path
<1>1. stack[p] # <<>> /\ Top(p).op = "open" /\ Top(p) \in Frames
  BY TopTypes DEF OpenStart, OpenDefault, OpenDatabase, InStep
<1>2. CASE OpenStart(p)
  <2>1. Moves(p) /\ Top(p).at = "start"
    BY <1>2, NothingSet DEF OpenStart, InStep
  <2>2. CASE path = <<>> /\ Enter(p, Frame("make", Append(Home, NoName)), "home")
    <3> DEFINE f == [Top(p) EXCEPT !.at = "home"]
               g == Frame("make", Append(Home, NoName))
    <3>1. g \in Frames
      <4>1. Append(Home, NoName) \in Given
        BY DEF Given
      <4> QED
        BY <4>1, GivenPaths, NewFrames DEF Ops
    <3>2. f \in Frames /\ GoesOnAs(Top(p), f)
      BY <1>1, <2>2 DEF Frames, GoesOnAs, Places
    <3>3. stack' = [stack EXCEPT ![p] = Front(@) \o <<f, g>>] /\ UNCHANGED <<answer, call>>
      BY <2>2 DEF Enter
    <3> HIDE DEF f, g
    <3> QED
      BY <1>1, <2>1, <3>1, <3>2, <3>3, EnterSound
  <2>3. CASE path # <<>> /\ GoTo(p, "db")
    BY <1>1, <2>1, <2>3, GoToSound DEF Places
  <2> QED
    BY <1>2, <2>2, <2>3 DEF OpenStart
<1>3. CASE OpenDefault(p)
  <2> DEFINE f == [Top(p) EXCEPT !.at = "db",
                     !.path = IF answer[p].ok THEN Append(Home, DbName) ELSE <<DbName>>]
  <2>1. Moves(p) /\ Top(p).at = "home"
    BY <1>3, NothingSet DEF OpenDefault, InStep
  <2>2. {Append(Home, DbName), <<DbName>>} \subseteq Given
    BY DEF FilesAssumption, Given
  <2>3. f \in Frames /\ GoesOnAs(Top(p), f)
    BY <1>1, <2>1, <2>2 DEF Frames, GoesOnAs, Places
  <2>4. stack' = Changed(p, f) /\ UNCHANGED <<answer, call>>
    BY <1>3 DEF OpenDefault
  <2> HIDE DEF f
  <2> QED
    BY <1>1, <2>1, <2>3, <2>4, ChangeSound
<1>4. CASE OpenDatabase(p)
  <2>1. path # <<>> /\ Clean(path) \in Path /\ Top(p).path \in Given
    BY <1>1, <1>4, TopTypes DEF OpenDatabase, InStep, Frames
  <2>2. CASE SetNode(p, Clean(path), "dir", "made") /\ Return(p, TRUE)
    BY <1>1, <2>1, <2>2, NodeSet, MadeSound
  <2>3. CASE Return(p, DirExists(Clean(path))) /\ NoChange
    <3>1. Moves(p) /\ UNCHANGED node /\ Clean(Clean(path)) = Clean(path)
      BY <2>1, <2>3, NothingSet, GivenPaths
    <3>2. CASE DirExists(Clean(path))
      <4>1. Return(p, TRUE)
        BY <2>3, <3>2 DEF DirExists, Return, Yes
      <4> QED
        BY <1>1, <3>1, <3>2, <4>1, MadeSound DEF DirExists
    <3>3. CASE ~DirExists(Clean(path))
      <4>1. Return(p, FALSE)
        BY <2>3, <3>3 DEF DirExists, Return, Yes
      <4> QED
        BY <1>1, <3>1, <4>1, RefusalSound
    <3> QED
      BY <3>2, <3>3
  <2> QED
    BY <1>4, <2>2, <2>3 DEF OpenDatabase
<1> QED
  BY <1>2, <1>3, <1>4

\* A process calls: from the first moment it sees what is at its path.
LEMMA CallSound ==
  ASSUME FilesAssumption, FilesSound, NEW p \in Proc, NEW op \in Ops,
         NEW path \in Target \cup {<<>>}, path # <<>> \/ op = "open", Call(p, op, path)
  PROVE  FilesSound'
<1> DEFINE f == Frame(op, path)
           c == [op |-> op, path |-> path]
<1>1. /\ f \in Frames /\ f.op = op /\ f.path = path /\ f.at = "start"
      /\ c \in Calls /\ c.op = op /\ c.path = path
  BY NewFrames DEF Given, Frame, Calls
<1> HIDE DEF f, c
<1>2. /\ call' = [call EXCEPT ![p] = c] /\ stack' = [stack EXCEPT ![p] = <<f>>]
      /\ seen' = [seen EXCEPT ![p] = {node[Subject(call'[p])]}] /\ UNCHANGED <<node, answer>>
  BY DEF Call, f, c
<1>3. /\ <<f>> \in Seq(Frames) /\ <<f>> # <<>> /\ <<f>>[1] = f
  BY <1>1
<1>4. /\ call' \in [Proc -> Calls] /\ stack' \in [Proc -> Seq(Frames)]
      /\ call'[p] = c /\ stack'[p] = <<f>> /\ seen'[p] = {node[Subject(c)]}
      /\ \A r \in Proc \ {p} : stack'[r] = stack[r] /\ call'[r] = call[r] /\ seen'[r] = seen[r]
  BY <1>1, <1>2, <1>3 DEF FilesSound, FilesTypes
<1>5. Subject(c) \in Path /\ (path # <<>> => Subject(c) = Clean(path))
  <2>1. CASE path # <<>>
    BY <1>1, <2>1, GivenPaths DEF Subject, Given
  <2>2. CASE path = <<>>
    BY <1>1, <2>2 DEF Subject, FilesAssumption
  <2> QED
    BY <2>1, <2>2
<1>6. FilesTypes'
  BY <1>2, <1>4, <1>5 DEF FilesSound, FilesTypes
<1>7. Honest(p)'
  BY <1>1, <1>2, <1>3, <1>4, <1>5 DEF Honest, OnItsPath, Watches, Runs, Truthful, Returned
<1>8. ASSUME NEW r \in Proc \ {p} PROVE Honest(r)'
  <2>1. Honest(r)
    BY DEF FilesSound
  <2>2. OnItsPath(r)'
    BY <1>4, <2>1 DEF Honest, OnItsPath
  <2>3. Watches(r)'
    BY <1>2, <1>4, <2>1 DEF Honest, Watches, Runs
  <2>4. Truthful(r)'
    BY <1>2, <1>4, <2>1 DEF Honest, Truthful, Returned
  <2> QED
    BY <2>2, <2>3, <2>4 DEF Honest
<1> QED
  BY <1>6, <1>7, <1>8 DEF FilesSound

-----------------------------------------------------------------------------
(* The theorem. *)

LEMMA FilesStart == ASSUME FilesAssumption, FilesInit PROVE FilesSound
<1>1. FilesTypes
  BY DEF FilesInit, FilesTypes, Kinds, AnswerValue, Yes, Calls, NoCall
<1>2. \A p \in Proc : Honest(p)
  BY DEF FilesInit, Honest, OnItsPath, Watches, Runs, Truthful, Returned
<1> QED
  BY <1>1, <1>2 DEF FilesSound

LEMMA FilesStepSound ==
  ASSUME FilesAssumption, FilesSound, [FilesNext]_filesVars
  PROVE  FilesSound'
<1>1. ASSUME NEW p \in Proc, FilesStep(p) PROVE FilesSound'
  BY <1>1, MakeSound, RemoveSound, RemoveEachSound, SizeSound, ListSound, OpenSound DEF FilesStep
<1>2. ASSUME NEW p \in Proc, NEW op \in {"make", "remove", "size"}, NEW path \in Target,
             Call(p, op, path)
      PROVE  FilesSound'
  <2>1. path # <<>>
    BY GivenPaths DEF Given
  <2> QED
    BY <1>2, <2>1, CallSound DEF Ops
<1>3. ASSUME NEW p \in Proc, NEW path \in Target \cup {<<>>}, Call(p, "open", path)
      PROVE  FilesSound'
  BY <1>3, CallSound DEF Ops
<1>4. CASE UNCHANGED filesVars
  BY <1>4 DEF filesVars, FilesSound, FilesTypes, Honest, OnItsPath, Watches, Runs, Truthful,
    Returned
<1> QED
  BY <1>1, <1>2, <1>3, <1>4 DEF FilesNext

(* A path that path_make or Storage::open made was a directory, and one that *)
(* path_remove removed was none, at some moment of the call, whatever other  *)
(* processes do between its system calls (utils.cpp:145-213,                 *)
(* storage.cpp:307-318).                                                     *)
THEOREM FilesAnswers == FilesSpec => []AnswersAreTrue
<1>1. FilesInit => FilesSound
  BY FilesAssumption, FilesStart
<1>2. FilesSound /\ [FilesNext]_filesVars => FilesSound'
  BY FilesAssumption, FilesStepSound
<1>3. FilesSound => AnswersAreTrue
  BY DEF FilesSound, Honest, Truthful, TrueOf, AnswersAreTrue
<1> QED
  BY <1>1, <1>2, <1>3, PTL DEF FilesSpec

-----------------------------------------------------------------------------
(* A path and the paths above it. *)

Name == UNION {ToSet(q) : q \in Path}

\* r starts with q: it is q, or below it.
Starts(q, r) == Len(q) <= Len(r) /\ \A i \in 1 .. Len(q) : q[i] = r[i]

IsChild(c, q) == Len(c) = Len(q) + 1 /\ Starts(q, c)

LEMMA PathTypes ==
  ASSUME FilesAssumption, NEW q \in Path
  PROVE  /\ q \in Seq(Name) /\ Len(q) \in Nat \ {0}
         /\ \A n \in 1 .. Len(q) : /\ SubSeq(q, 1, n) \in Path /\ SubSeq(q, 1, n) \in Seq(Name)
                                   /\ Len(SubSeq(q, 1, n)) = n
                                   /\ \A i \in 1 .. n : SubSeq(q, 1, n)[i] = q[i]
<1>1. q \in Seq(ToSet(q)) /\ q # <<>> /\ Above(q) \subseteq Path
  BY DEF FilesAssumption
<1>2. q \in Seq(Name) /\ Len(q) \in Nat \ {0}
  <2>1. ToSet(q) \subseteq Name
    BY DEF Name
  <2> QED BY <1>1, <2>1, SeqMonotonic, EmptySeq
<1>3. ASSUME NEW n \in 1 .. Len(q)
      PROVE  /\ SubSeq(q, 1, n) \in Path /\ SubSeq(q, 1, n) \in Seq(Name)
             /\ Len(SubSeq(q, 1, n)) = n
             /\ \A i \in 1 .. n : SubSeq(q, 1, n)[i] = q[i]
  <2>1. \A i \in 1 .. n : q[i] \in Name
    BY <1>2, ElementOfSeq
  <2> DEFINE s == SubSeq(q, 1, n)
  <2>2. /\ s \in Seq(Name) /\ Len(s) = IF 1 <= n THEN n - 1 + 1 ELSE 0
        /\ \A i \in 1 .. n - 1 + 1 : s[i] = q[1 + i - 1]
    BY <1>2, <2>1, SubSeqProperties
  <2>3. n \in Nat \ {0} /\ n - 1 + 1 = n /\ \A i \in 1 .. n : 1 + i - 1 = i
    BY <1>2
  <2>4. s \in Path
    <3>1. CASE n = Len(q)
      BY <1>2, <3>1, SubSeqFull
    <3>2. CASE n # Len(q)
      <4>1. n \in 1 .. Len(q) - 1
        BY <1>2, <3>2
      <4> QED BY <1>1, <4>1 DEF Above
    <3> QED BY <3>1, <3>2
  <2> HIDE DEF s
  <2>5. /\ s \in Path /\ s \in Seq(Name) /\ Len(s) = n
        /\ \A i \in 1 .. n : s[i] = q[i]
    BY <2>2, <2>3, <2>4
  <2> QED BY <2>5 DEF s
<1> QED BY <1>2, <1>3

LEMMA StartsOrder ==
  ASSUME FilesAssumption, NEW q \in Path, NEW r \in Path
  PROVE  /\ Starts(q, q)
         /\ \A x \in Path : Starts(q, r) /\ Starts(r, x) => Starts(q, x)
         /\ \A x \in Path : Starts(q, x) /\ Starts(r, x) /\ Len(q) <= Len(r) => Starts(q, r)
         /\ Starts(q, r) /\ (Len(q) = Len(r) \/ ~(Len(q) < Len(r))) => q = r
<1>1. \A x \in Path : x \in Seq(Name) /\ Len(x) \in Nat \ {0}
  BY PathTypes
<1>2. Starts(q, r) /\ (Len(q) = Len(r) \/ ~(Len(q) < Len(r))) => q = r
  <2>1. Starts(q, r) /\ ~(Len(q) < Len(r)) => Len(q) = Len(r)
    BY <1>1 DEF Starts
  <2> QED BY <1>1, <2>1, SeqEqual DEF Starts
<1>3. \A x \in Path : Starts(q, r) /\ Starts(r, x) => Starts(q, x)
  BY <1>1 DEF Starts
<1>4. \A x \in Path : Starts(q, x) /\ Starts(r, x) /\ Len(q) <= Len(r) => Starts(q, r)
  BY <1>1 DEF Starts
<1> QED BY <1>1, <1>2, <1>3, <1>4 DEF Starts

LEMMA StartsIs ==
  ASSUME FilesAssumption, NEW q \in Path, NEW r \in Path
  PROVE  /\ Starts(q, r) => q = SubSeq(r, 1, Len(q))
         /\ IsPrefix(q, r) <=> Starts(q, r)
         /\ q \in Above(r) <=> Starts(q, r) /\ Len(q) < Len(r)
         /\ IsChild(r, q) <=> Len(r) = Len(q) + 1 /\ Front(r) = q
<1>1. /\ q \in Seq(Name) /\ r \in Seq(Name) /\ Len(q) \in Nat \ {0} /\ Len(r) \in Nat \ {0}
      /\ SubSeq(q, 1, Len(q)) = q
  BY PathTypes, SubSeqFull
<1>2. \A n \in 1 .. Len(r) : /\ SubSeq(r, 1, n) \in Path /\ SubSeq(r, 1, n) \in Seq(Name)
                             /\ Len(SubSeq(r, 1, n)) = n
                             /\ \A i \in 1 .. n : SubSeq(r, 1, n)[i] = r[i]
  BY PathTypes
<1>3. ASSUME Starts(q, r) PROVE q = SubSeq(r, 1, Len(q))
  <2>1. Len(q) \in 1 .. Len(r)
    BY <1>1, <1>3 DEF Starts
  <2> DEFINE s == SubSeq(r, 1, Len(q))
  <2>2. s \in Seq(Name) /\ Len(s) = Len(q) /\ \A i \in 1 .. Len(q) : s[i] = r[i]
    BY <1>2, <2>1
  <2> HIDE DEF s
  <2>3. s = q
    BY <1>1, <1>3, <2>2, SeqEqual DEF Starts
  <2> QED BY <2>3 DEF s
<1>4. ASSUME NEW n \in 1 .. Len(r), q = SubSeq(r, 1, n) PROVE Starts(q, r) /\ Len(q) = n
  <2>1. Len(q) = n /\ \A i \in 1 .. n : q[i] = r[i]
    BY <1>2, <1>4
  <2> QED BY <1>1, <2>1 DEF Starts
<1>5. IsPrefix(q, r) <=> Starts(q, r)
  <2>1. ASSUME IsPrefix(q, r) PROVE Starts(q, r)
    <3>1. Len(q) \in 1 .. Len(r) /\ q = SubSeq(r, 1, Len(q))
      BY <1>1, <2>1 DEF IsPrefix
    <3> QED BY <1>4, <3>1
  <2>2. ASSUME Starts(q, r) PROVE IsPrefix(q, r)
    BY <1>1, <1>3, <2>2 DEF Starts, IsPrefix
  <2> QED BY <2>1, <2>2
<1>6. q \in Above(r) <=> Starts(q, r) /\ Len(q) < Len(r)
  <2>1. ASSUME q \in Above(r) PROVE Starts(q, r) /\ Len(q) < Len(r)
    <3>1. PICK n \in 1 .. Len(r) - 1 : q = SubSeq(r, 1, n)
      BY <2>1 DEF Above
    <3>2. n \in 1 .. Len(r) /\ n < Len(r)
      BY <1>1
    <3> QED BY <1>4, <3>1, <3>2
  <2>2. ASSUME Starts(q, r), Len(q) < Len(r) PROVE q \in Above(r)
    <3>1. Len(q) \in 1 .. Len(r) - 1
      BY <1>1, <2>2
    <3> QED BY <1>3, <2>2, <3>1 DEF Above
  <2> QED BY <2>1, <2>2
<1>7. ASSUME Len(r) = Len(q) + 1 PROVE Starts(q, r) <=> Front(r) = q
  <2>1. Len(q) \in 1 .. Len(r) /\ Len(r) - 1 = Len(q) /\ Front(r) = SubSeq(r, 1, Len(q))
    BY <1>1, <1>7 DEF Front
  <2> QED BY <1>3, <1>4, <2>1
<1> QED BY <1>3, <1>5, <1>6, <1>7 DEF IsChild

\* The child of q on the way to r.
LEMMA ChildTowards ==
  ASSUME FilesAssumption, NEW q \in Path, NEW r \in Path, Starts(q, r), q # r
  PROVE  Len(q) < Len(r) /\ \E c \in Path : IsChild(c, q) /\ Starts(c, r)
<1>1. Len(q) \in Nat \ {0} /\ Len(r) \in Nat \ {0}
  BY PathTypes
<1>2. Len(q) < Len(r)
  BY StartsOrder
<1>3. Len(q) + 1 \in 1 .. Len(r)
  BY <1>1, <1>2
<1> DEFINE c == SubSeq(r, 1, Len(q) + 1)
<1>4. c \in Path /\ Len(c) = Len(q) + 1 /\ \A i \in 1 .. Len(q) + 1 : c[i] = r[i]
  BY <1>3, PathTypes
<1> HIDE DEF c
<1>5. IsChild(c, q)
  <2>1. \A i \in 1 .. Len(q) : q[i] = r[i]
    BY DEF Starts
  <2> QED BY <1>1, <1>4, <2>1 DEF IsChild, Starts
<1>6. Starts(c, r)
  BY <1>1, <1>3, <1>4 DEF Starts
<1> QED BY <1>2, <1>4, <1>5, <1>6

\* The path above one that has one.
LEMMA FrontIsAbove ==
  ASSUME FilesAssumption, NEW q \in Path, Len(q) > 1
  PROVE  Front(q) \in Path /\ IsChild(q, Front(q))
<1>1. Len(q) \in Nat \ {0} /\ Len(q) - 1 \in 1 .. Len(q)
  BY PathTypes
<1>2. Front(q) \in Path /\ Len(Front(q)) = Len(q) - 1 /\ \A i \in 1 .. Len(q) - 1 : Front(q)[i] = q[i]
  BY <1>1, PathTypes DEF Front
<1> QED BY <1>1, <1>2 DEF IsChild, Starts

-----------------------------------------------------------------------------
(* Trees. *)

Trees == [Path -> Kinds]

\* What is there is in a directory.
IsTree(t) == \A q \in Path : t[q] # "none" => \A r \in Above(q) : t[r] = "dir"

ChildrenIn(t, q) == {r \in Path : IsChild(r, q) /\ t[r] # "none"}
FilesUnder(t, S) == {r \in Path : t[r] = "file" /\ \E q \in S : Starts(q, r)}
NoFileTo(t, q) == \A r \in Above(q) \cup {q} : t[r] # "file"

LEMMA TreeAbove ==
  ASSUME FilesAssumption, NEW t \in Trees, IsTree(t), NEW q \in Path, NEW r \in Path,
         Starts(q, r), q # r, t[r] # "none"
  PROVE  t[q] = "dir"
<1>1. q \in Above(r)
  BY ChildTowards, StartsIs
<1> QED BY <1>1 DEF IsTree

LEMMA NoFileIs ==
  ASSUME FilesAssumption, NEW t \in Trees, NEW q \in Path
  PROVE  NoFileTo(t, q) <=> \A r \in Path : Starts(r, q) => t[r] # "file"
<1>1. \A r \in Above(q) \cup {q} : r \in Path
  BY DEF FilesAssumption
<1>2. \A r \in Path : r \in Above(q) \cup {q} <=> Starts(r, q)
  BY StartsIs, StartsOrder
<1> QED BY <1>1, <1>2 DEF NoFileTo

\* There is no file on the way to a directory.
LEMMA DirHasNoFile ==
  ASSUME FilesAssumption, NEW t \in Trees, IsTree(t), NEW q \in Path, t[q] = "dir"
  PROVE  NoFileTo(t, q)
BY DEF IsTree, NoFileTo

\* mkdir.
LEMMA TreeMade ==
  ASSUME FilesAssumption, NEW t \in Trees, IsTree(t), NEW q \in Path,
         \A r \in Above(q) : t[r] = "dir"
  PROVE  IsTree([t EXCEPT ![q] = "dir"])
<1> DEFINE made == [t EXCEPT ![q] = "dir"]
<1>1. \A r \in Path : made[r] = IF r = q THEN "dir" ELSE t[r]
  BY DEF Trees
<1>2. \A r \in Path : Above(r) \subseteq Path
  BY DEF FilesAssumption
<1> HIDE DEF made
<1>3. ASSUME NEW r \in Path, made[r] # "none", NEW x \in Above(r) PROVE made[x] = "dir"
  BY <1>1, <1>2, <1>3 DEF IsTree
<1>4. IsTree(made)
  BY <1>3 DEF IsTree
<1> QED BY <1>4 DEF made

\* rmdir and unlink.
LEMMA TreeRemoved ==
  ASSUME FilesAssumption, NEW t \in Trees, IsTree(t), NEW q \in Path, ChildrenIn(t, q) = {}
  PROVE  IsTree([t EXCEPT ![q] = "none"])
<1> DEFINE cut == [t EXCEPT ![q] = "none"]
<1>1. \A r \in Path : cut[r] = IF r = q THEN "none" ELSE t[r]
  BY DEF Trees
<1> HIDE DEF cut
<1>2. ASSUME NEW r \in Path, cut[r] # "none", NEW x \in Above(r) PROVE cut[x] = "dir"
  <2>1. x \in Path /\ r # q /\ t[r] # "none"
    BY <1>1, <1>2 DEF FilesAssumption
  <2>2. t[x] = "dir"
    BY <2>1 DEF IsTree
  <2>3. ASSUME x = q PROVE FALSE
    <3>1. Starts(q, r)
      BY <2>1, <2>3, StartsIs
    <3>2. PICK c \in Path : IsChild(c, q) /\ Starts(c, r)
      BY <2>1, <3>1, ChildTowards
    <3>3. t[c] # "none"
      BY <2>1, <3>2, TreeAbove
    <3> QED BY <3>2, <3>3 DEF ChildrenIn
  <2> QED BY <1>1, <2>1, <2>2, <2>3
<1>3. IsTree(cut)
  BY <1>2 DEF IsTree
<1> QED BY <1>3 DEF cut

LEMMA OnlyDirsHaveChildren ==
  ASSUME FilesAssumption, NEW t \in Trees, IsTree(t), NEW q \in Path, t[q] # "dir"
  PROVE  ChildrenIn(t, q) = {}
<1> SUFFICES ASSUME NEW c \in ChildrenIn(t, q) PROVE FALSE
  OBVIOUS
<1>1. c \in Path /\ Starts(q, c) /\ t[c] # "none" /\ Len(c) = Len(q) + 1
  BY DEF ChildrenIn, IsChild
<1>2. c # q
  BY <1>1, PathTypes
<1> QED BY <1>1, <1>2, TreeAbove

-----------------------------------------------------------------------------
(* The files below a path, and their sizes. *)

SizeOf(t, q) == SumOver(Bytes, FilesUnder(t, {q}))

LEMMA FilesFinite ==
  ASSUME FilesAssumption, NEW T \in SUBSET Path
  PROVE  IsFiniteSet(T) /\ SumOver(Bytes, T) \in Nat /\ \A q \in T : Bytes[q] \in Nat
<1>1. IsFiniteSet(T) /\ \A q \in T : Bytes[q] \in Nat
  BY FS_Subset DEF FilesAssumption
<1> DEFINE P == {n \in Nat : \A R \in SUBSET T : Cardinality(R) = n => SumOver(Bytes, R) \in Nat}
<1>2. 0 \in P
  <2>1. ASSUME NEW R \in SUBSET T, Cardinality(R) = 0 PROVE R = {}
    <3>1. IsFiniteSet(R)
      BY <1>1, FS_Subset
    <3> QED BY <2>1, <3>1, FS_EmptySet
  <2>2. SumOver(Bytes, {}) \in Nat
    BY SumEmpty
  <2> QED BY <2>1, <2>2
<1>3. \A n \in Nat : n \in P => n + 1 \in P
  <2> SUFFICES ASSUME NEW n \in Nat, n \in P, NEW R \in SUBSET T, Cardinality(R) = n + 1
               PROVE  SumOver(Bytes, R) \in Nat
    OBVIOUS
  <2>1. IsFiniteSet(R) /\ R # {}
    <3>1. Cardinality(R) # 0
      OBVIOUS
    <3> QED BY <1>1, <3>1, FS_Subset, FS_EmptySet
  <2>2. PICK x \in R : TRUE
    BY <2>1
  <2>3. Cardinality(R \ {x}) = n
    <3>1. Cardinality(R \ {x}) = Cardinality(R) - 1
      BY <2>1, <2>2, FS_RemoveElement
    <3> QED BY <3>1
  <2>4. SumOver(Bytes, R \ {x}) \in Nat
    BY <2>3
  <2>5. SumOver(Bytes, R) = Bytes[x] + SumOver(Bytes, R \ {x})
    <3>1. \A y \in R : Bytes[y] \in Int
      BY <1>1
    <3> QED BY <2>1, <3>1, SumTakes
  <2> QED BY <1>1, <2>4, <2>5
<1>4. Nat \subseteq P
  <2> HIDE DEF P
  <2> QED BY <1>2, <1>3, Induct
<1>5. Cardinality(T) \in Nat
  BY <1>1, FS_CardinalityType
<1> QED BY <1>1, <1>4, <1>5

\* The sum over two disjoint sets.
LEMMA SumTwo ==
  ASSUME FilesAssumption, NEW A \in SUBSET Path, NEW B \in SUBSET Path, A \cap B = {}
  PROVE  SumOver(Bytes, A \cup B) = SumOver(Bytes, A) + SumOver(Bytes, B)
<1> DEFINE S == A \cup B
           h == [x \in S |-> Inside(Bytes, S, x) - Inside(Bytes, A, x)]
           empty == {}
<1>1. IsFiniteSet(S) /\ S \in SUBSET S /\ A \in SUBSET S /\ B \in SUBSET S /\ empty \in SUBSET S
  BY FilesFinite
<1>2. \A x \in S : Bytes[x] \in Int
  BY FilesFinite
<1>3. \A x \in S : h[x] = Inside(Bytes, S, x) - Inside(Bytes, A, x)
  OBVIOUS
<1>4. \A x \in S : h[x] = Inside(Bytes, B, x) - Inside(Bytes, empty, x)
  BY <1>2 DEF Inside
<1>5. SumOver(Bytes, S) \in Nat /\ SumOver(Bytes, A) \in Nat /\ SumOver(Bytes, B) \in Nat
  BY FilesFinite
<1> HIDE DEF h, S, empty
<1>6. SumOver(h, S) = SumOver(Bytes, S) - SumOver(Bytes, A)
  BY <1>1, <1>2, <1>3, SumDifference
<1>7. SumOver(h, S) = SumOver(Bytes, B) - SumOver(Bytes, empty)
  BY <1>1, <1>2, <1>4, SumDifference
<1>8. SumOver(Bytes, S) - SumOver(Bytes, A) = SumOver(Bytes, B) - 0
  BY <1>6, <1>7, SumEmpty DEF empty
<1>9. SumOver(Bytes, S) = SumOver(Bytes, A) + SumOver(Bytes, B)
  BY <1>5, <1>8
<1> QED BY <1>9 DEF S

\* The size of a file, and of nothing.
LEMMA SizeOfFile ==
  ASSUME FilesAssumption, NEW t \in Trees, IsTree(t), NEW q \in Path, t[q] # "dir"
  PROVE  SizeOf(t, q) = IF t[q] = "file" THEN Bytes[q] ELSE 0
<1>1. \A r \in Path : Starts(q, r) /\ r # q => t[r] = "none"
  BY TreeAbove
<1>2. FilesUnder(t, {q}) = IF t[q] = "file" THEN {q} ELSE {}
  <2>1. Starts(q, q)
    BY StartsOrder
  <2> QED BY <1>1, <2>1 DEF FilesUnder
<1>3. SumOver(Bytes, {q}) = Bytes[q]
  <2>1. {} \cup {q} = {q} /\ IsFiniteSet({}) /\ Bytes[q] \in Nat
    BY FS_EmptySet, FilesFinite
  <2>2. SumOver(Bytes, {} \cup {q}) = Bytes[q] + SumOver(Bytes, {})
    BY <2>1, SumAdds
  <2> QED BY <2>1, <2>2, SumEmpty
<1> QED BY <1>2, <1>3, SumEmpty DEF SizeOf

\* The files in a directory are those in its children.
LEMMA FilesOfDir ==
  ASSUME FilesAssumption, NEW t \in Trees, IsTree(t), NEW q \in Path, t[q] = "dir"
  PROVE  FilesUnder(t, {q}) = FilesUnder(t, ChildrenIn(t, q))
<1>1. ASSUME NEW r \in FilesUnder(t, {q}) PROVE r \in FilesUnder(t, ChildrenIn(t, q))
  <2>1. r \in Path /\ t[r] = "file" /\ Starts(q, r) /\ q # r
    BY DEF FilesUnder
  <2>2. PICK c \in Path : IsChild(c, q) /\ Starts(c, r)
    BY <2>1, ChildTowards
  <2>3. t[c] # "none"
    BY <2>1, <2>2, TreeAbove
  <2> QED BY <2>1, <2>2, <2>3 DEF FilesUnder, ChildrenIn
<1>2. ASSUME NEW r \in FilesUnder(t, ChildrenIn(t, q)) PROVE r \in FilesUnder(t, {q})
  <2>1. PICK c \in ChildrenIn(t, q) : Starts(c, r)
    BY DEF FilesUnder
  <2>2. c \in Path /\ Starts(q, c) /\ r \in Path /\ t[r] = "file"
    BY DEF ChildrenIn, IsChild, FilesUnder
  <2>3. Starts(q, r)
    BY <2>1, <2>2, StartsOrder
  <2> QED BY <2>2, <2>3 DEF FilesUnder
<1> QED BY <1>1, <1>2

\* Two children have no file in common.
LEMMA ChildrenApart ==
  ASSUME FilesAssumption, NEW t \in Trees, NEW q \in Path, NEW c \in ChildrenIn(t, q),
         NEW S \in SUBSET ChildrenIn(t, q), c \notin S
  PROVE  FilesUnder(t, {c}) \cap FilesUnder(t, S) = {}
<1> SUFFICES ASSUME NEW r \in Path, Starts(c, r), NEW d \in S, Starts(d, r) PROVE FALSE
  BY DEF FilesUnder
<1>1. c \in Path /\ d \in Path /\ Len(c) = Len(q) + 1 /\ Len(d) = Len(q) + 1
  BY DEF ChildrenIn, IsChild
<1>2. Len(c) \in Nat /\ Len(d) \in Nat
  BY <1>1, PathTypes
<1>3. Starts(c, d)
  BY <1>1, <1>2, StartsOrder
<1> QED BY <1>1, <1>3, StartsOrder

-----------------------------------------------------------------------------
(* What a call has found out of a file system that no other changes.         *)

TodoPaths(f) == {c.path : c \in f.todo}

\* What a loop has still to do is there as it was listed.
Pending(t, f, doing) ==
  /\ t[Clean(f.path)] = "dir"
  /\ \A c \in f.todo : c.path \in ChildrenIn(t, Clean(f.path)) \ doing /\ c.kind = t[c.path]

\* ... and nothing else is in the directory.
Listed(t, f, doing) ==
  Pending(t, f, doing) /\ ChildrenIn(t, Clean(f.path)) \subseteq TodoPaths(f) \cup doing

\* The total is of all files but those in what is still to do.
Counted(t, f, doing) ==
  f.total = SumOver(Bytes, FilesUnder(t, {Clean(f.path)}) \ FilesUnder(t, TodoPaths(f) \cup doing))

\* The call f waits for the one it made, op on path.
MakeWaits(t, f, op, path) ==
  /\ f.op = "make" /\ f.at = "parent" /\ op = "make"
  /\ Len(f.path) > 1 /\ path = Front(f.path) /\ NoFileTo(t, Clean(f.path))

RemoveWaits(t, f, op, path) ==
  /\ f.op = "remove" /\ f.at = "child" /\ op = "remove"
  /\ path \in Path /\ IsChild(path, Clean(f.path)) /\ t[path] # "file" /\ Listed(t, f, {path})

SizeWaits(t, f, op, path) ==
  /\ f.op = "size" /\ f.at = "child" /\ op = "size"
  /\ path \in ChildrenIn(t, Clean(f.path)) /\ Pending(t, f, {path}) /\ Counted(t, f, {path})

OpenWaits(f, op, path) ==
  f.op = "open" /\ f.at = "home" /\ f.path = <<>> /\ op = "make" /\ path = Append(Home, NoName)

Waits(t, f, op, path) ==
  \/ MakeWaits(t, f, op, path) \/ RemoveWaits(t, f, op, path)
  \/ SizeWaits(t, f, op, path) \/ OpenWaits(f, op, path)

\* The innermost call f is about to make a system call.
MakeStands(t, f) ==
  /\ f.op = "make"
  /\ \/ f.at = "start"
     \/ f.at = "mkdir" /\ t[Clean(f.path)] # "dir"
     \/ f.at = "exists" /\ t[Clean(f.path)] = "file"
     \/ /\ f.at \in {"again", "last"} /\ NoFileTo(t, Clean(f.path))
        /\ Len(f.path) > 1 /\ t[Clean(Front(f.path))] = "dir"
        /\ f.at = "last" => t[Clean(f.path)] # "dir"

RemoveStands(t, f) ==
  /\ f.op = "remove"
  /\ \/ f.at = "start"
     \/ f.at \in {"rmdir", "list"} /\ t[Clean(f.path)] = "dir"
     \/ f.at \in {"each", "last", "final"} /\ Listed(t, f, {}) /\ (f.at # "each" => f.todo = {})

SizeStands(t, f) ==
  /\ f.op = "size"
  /\ \/ f.at = "start" /\ f.total = 0
     \/ f.at = "file" /\ t[Clean(f.path)] # "dir"
     \/ f.at = "list" /\ f.total = 0 /\ t[Clean(f.path)] = "dir"
     \/ f.at = "each" /\ Pending(t, f, {}) /\ Counted(t, f, {})

OpenStands(f) == f.op = "open" /\ f.at \in {"start", "db"}

Stands(t, f) == MakeStands(t, f) \/ RemoveStands(t, f) \/ SizeStands(t, f) \/ OpenStands(f)

\* What path_size answers: a file has no separator at its end.
SizeAt(t, path) ==
  IF t[Clean(path)] = "dir" \/ (t[Clean(path)] = "file" /\ path = Clean(path))
    THEN SizeOf(t, Clean(path)) ELSE NotThere

\* A call of a helper has answered a.
MakeDone(t, path, a) == a.ok = NoFileTo(t, Clean(path)) /\ a.ok = (t[Clean(path)] = "dir")
RemoveDone(t, path, a) == a.ok /\ t[Clean(path)] # "dir"
SizeDone(t, path, a) == a.size = SizeAt(t, path)

Done(t, op, path, a) ==
  \/ op = "make" /\ MakeDone(t, path, a)
  \/ op = "remove" /\ RemoveDone(t, path, a)
  \/ op = "size" /\ SizeDone(t, path, a)

Answered(t, f, a) ==
  \E op \in Ops, path \in Given : Waits(t, f, op, path) /\ Done(t, op, path, a)

\* Storage::open works on the path it was called with, or on the one chosen for it.
Chosen(t, c, f) ==
  IF c.path # <<>> THEN f.path = c.path /\ f.at # "home"
  ELSE \/ f.at \in {"start", "home"} /\ f.path = <<>>
       \/ f.at = "db" /\ f.path = Append(Home, DbName) /\ t[Home] = "dir"
       \/ f.at = "db" /\ f.path = <<DbName>> /\ ~NoFileTo(t, Home)

OpenDone(t, c, a) ==
  IF c.path # <<>> THEN a.ok = (t[Clean(c.path)] = "dir")
  ELSE a.ok = (t[IF t[Home] = "dir" THEN Append(Home, DbName) ELSE <<DbName>>] = "dir")

DoneCall(t, c, a) ==
  IF c.op = "open" THEN OpenDone(t, c, a)
  ELSE c.path # <<>> /\ Done(t, c.op, c.path, a)

\* The calls of a process: each waits for the one it made, the outermost is c.
OpAt(c, i) == IF c.op = "open" /\ i # 1 THEN "make" ELSE c.op

RightOps(s, c) == \A i \in 1 .. Len(s) : s[i].op = OpAt(c, i)
Linked(t, s) == \A i \in 1 .. Len(s) - 1 : Waits(t, s[i], s[i + 1].op, s[i + 1].path)
Nested(s, c) ==
  c.op = "remove" =>
    \A i, j \in 1 .. Len(s) : i <= j => Starts(Clean(s[i].path), Clean(s[j].path))
Begun(t, s, c) == IF c.op = "open" THEN Chosen(t, c, s[1]) ELSE s[1].path = c.path

Chain(t, s, c) == RightOps(s, c) /\ Linked(t, s) /\ Nested(s, c) /\ Begun(t, s, c)

Alone(p) == call[p] # NoCall /\ others[p] = {}

Exact(p) ==
  IF stack[p] = <<>> THEN DoneCall(node, call[p], answer[p])
  ELSE /\ Chain(node, stack[p], call[p])
       /\ Stands(node, Last(stack[p])) \/ Answered(node, Last(stack[p]), answer[p])

AloneSound == IsTree(node) /\ \A p \in Proc : Alone(p) => Exact(p)

-----------------------------------------------------------------------------
(* The stack of calls. *)

\* The last frame of s goes on as f.
Continued(u, s, f) == u = Append(Front(s), f)

LEMMA StackGoes ==
  ASSUME NEW s \in Seq(Frames), s # <<>>, NEW f \in Frames, NEW u, Continued(u, s, f)
  PROVE  /\ u \in Seq(Frames) /\ u # <<>> /\ Len(u) = Len(s) /\ u[Len(s)] = f /\ Last(u) = f
         /\ \A i \in 1 .. Len(s) - 1 : u[i] = s[i]
<1>1. /\ Front(s) \in Seq(Frames) /\ Len(Front(s)) = Len(s) - 1 /\ Len(s) \in Nat \ {0}
      /\ \A i \in 1 .. Len(s) - 1 : Front(s)[i] = s[i]
  BY FrontLast
<1>2. /\ u \in Seq(Frames) /\ Len(u) = Len(s) /\ u[Len(s)] = f
      /\ \A i \in 1 .. Len(s) - 1 : u[i] = Front(s)[i]
  BY <1>1, AppendProperties DEF Continued
<1>3. u # <<>>
  BY <1>1, <1>2
<1> QED BY <1>1, <1>2, <1>3 DEF Last

\* The last frame of s goes on as f, which made the call g.
Calling(u, s, f, g) == u = Front(s) \o <<f, g>>

LEMMA StackEnters ==
  ASSUME NEW s \in Seq(Frames), s # <<>>, NEW f \in Frames, NEW g \in Frames,
         NEW u, Calling(u, s, f, g)
  PROVE  /\ u \in Seq(Frames) /\ u # <<>> /\ Len(u) = Len(s) + 1
         /\ u[Len(s)] = f /\ u[Len(s) + 1] = g /\ Last(u) = g
         /\ \A i \in 1 .. Len(s) - 1 : u[i] = s[i]
<1> DEFINE a == Front(s)
           b == <<f, g>>
<1>1. /\ a \in Seq(Frames) /\ Len(a) = Len(s) - 1 /\ Len(s) \in Nat \ {0}
      /\ \A i \in 1 .. Len(s) - 1 : a[i] = s[i]
  BY FrontLast
<1>2. b \in Seq(Frames) /\ Len(b) = 2 /\ b[1] = f /\ b[2] = g
  OBVIOUS
<1> HIDE DEF a, b
<1>3. /\ a \o b \in Seq(Frames) /\ Len(a \o b) = Len(a) + Len(b)
      /\ \A i \in 1 .. Len(a) + Len(b) : (a \o b)[i] = IF i <= Len(a) THEN a[i] ELSE b[i - Len(a)]
  BY <1>1, <1>2, ConcatProperties
<1>4. u = a \o b
  BY DEF a, b, Calling
<1>5. u \in Seq(Frames) /\ Len(u) = Len(s) + 1
  <2>1. u \in Seq(Frames)
    BY <1>3, <1>4
  <2>2. Len(u) = Len(s) + 1
    BY <1>1, <1>2, <1>3, <1>4
  <2> QED BY <2>1, <2>2
<1>6. \A i \in 1 .. Len(s) - 1 : u[i] = s[i]
  BY <1>1, <1>2, <1>3, <1>4
<1>7. u[Len(s)] = f
  <2>1. Len(s) \in 1 .. Len(a) + Len(b) /\ ~(Len(s) <= Len(a)) /\ Len(s) - Len(a) = 1
    BY <1>1, <1>2
  <2> QED BY <1>2, <1>3, <1>4, <2>1
<1>8. u[Len(s) + 1] = g
  <2>1. Len(s) + 1 \in 1 .. Len(a) + Len(b) /\ ~(Len(s) + 1 <= Len(a)) /\ Len(s) + 1 - Len(a) = 2
    BY <1>1, <1>2
  <2> QED BY <1>2, <1>3, <1>4, <2>1
<1>9. u # <<>>
  BY <1>1, <1>5
<1> QED BY <1>5, <1>6, <1>7, <1>8, <1>9 DEF Last

\* The innermost call goes on.
LEMMA ChainGoes ==
  ASSUME FilesAssumption, NEW t \in Trees, NEW c \in Calls, NEW s \in Seq(Frames), s # <<>>,
         Chain(t, s, c), NEW f \in Frames, f.op = Last(s).op, f.op = "open" => Chosen(t, c, f),
         f.op # "open" => f.path = Last(s).path, NEW u, Continued(u, s, f)
  PROVE  Chain(t, u, c)
<1>1. /\ Len(u) = Len(s) /\ u[Len(s)] = f /\ Last(s) = s[Len(s)] /\ Len(s) \in Nat \ {0}
      /\ \A i \in 1 .. Len(s) - 1 : u[i] = s[i]
  <2>1. Last(s) = s[Len(s)] /\ Len(s) \in Nat \ {0}
    BY FrontLast
  <2>2. Len(u) = Len(s)
    BY StackGoes
  <2>3. u[Len(s)] = f
    BY StackGoes
  <2>4. \A i \in 1 .. Len(s) - 1 : u[i] = s[i]
    BY StackGoes
  <2> QED BY <2>1, <2>2, <2>3, <2>4, Zenon
<1>2. \A i \in 1 .. Len(s) : i # Len(s) => i \in 1 .. Len(s) - 1
  BY <1>1
<1>3. \A i \in 1 .. Len(s) : u[i].op = s[i].op /\ (s[i].op # "open" => u[i].path = s[i].path)
  BY <1>1, <1>2
<1>4. RightOps(u, c)
  BY <1>1, <1>3 DEF Chain, RightOps
<1>5. Linked(t, u)
  <2> SUFFICES ASSUME NEW i \in 1 .. Len(s) - 1 PROVE Waits(t, u[i], u[i + 1].op, u[i + 1].path)
    BY <1>1 DEF Linked
  <2>1. Waits(t, s[i], s[i + 1].op, s[i + 1].path)
    BY DEF Chain, Linked
  <2>2. i + 1 \in 1 .. Len(s) /\ i + 1 # 1
    BY <1>1
  <2>3. s[i + 1].op # "open"
    BY <2>2 DEF Chain, RightOps, OpAt
  <2> QED BY <1>1, <1>3, <2>1, <2>2, <2>3
<1>6. Nested(u, c)
  <2> SUFFICES ASSUME c.op = "remove" PROVE Nested(u, c)
    BY DEF Nested
  <2>1. \A i \in 1 .. Len(s) : s[i].op # "open"
    BY DEF Chain, RightOps, OpAt
  <2>2. \A i \in 1 .. Len(s) : u[i].path = s[i].path
    BY <1>3, <2>1
  <2> QED BY <1>1, <2>2 DEF Chain, Nested
<1>7. Begun(t, u, c)
  <2>1. 1 \in 1 .. Len(s) /\ s[1].op = c.op
    BY <1>1 DEF Chain, RightOps, OpAt
  <2>2. CASE c.op # "open"
    BY <1>3, <2>1, <2>2 DEF Chain, Begun
  <2>3. CASE c.op = "open" /\ Len(s) = 1
    BY <1>1, <2>1, <2>3 DEF Begun
  <2>4. CASE c.op = "open" /\ Len(s) # 1
    <3>1. u[1] = s[1]
      <4>1. 1 \in 1 .. Len(s) - 1
        BY <1>1, <2>4
      <4> QED BY <1>1, <4>1
    <3> QED BY <2>4, <3>1 DEF Chain, Begun
  <2> QED BY <2>2, <2>3, <2>4
<1> QED BY <1>4, <1>5, <1>6, <1>7 DEF Chain

\* The innermost call makes another.
LEMMA ChainEnters ==
  ASSUME FilesAssumption, NEW t \in Trees, NEW c \in Calls, NEW s \in Seq(Frames), s # <<>>,
         Chain(t, s, c), NEW f \in Frames, f.op = Last(s).op, f.path = Last(s).path,
         f.op = "open" => Chosen(t, c, f), NEW g \in Frames, Waits(t, f, g.op, g.path),
         NEW u, Calling(u, s, f, g)
  PROVE  Chain(t, u, c)
<1>1. /\ Len(u) = Len(s) + 1 /\ u[Len(s)] = f /\ u[Len(s) + 1] = g
      /\ Last(s) = s[Len(s)] /\ Len(s) \in Nat \ {0}
      /\ \A i \in 1 .. Len(s) - 1 : u[i] = s[i]
  <2>1. Last(s) = s[Len(s)] /\ Len(s) \in Nat \ {0}
    BY FrontLast
  <2>2. Len(u) = Len(s) + 1
    BY StackEnters
  <2>3. u[Len(s)] = f
    BY StackEnters
  <2>4. u[Len(s) + 1] = g
    BY StackEnters
  <2>5. \A i \in 1 .. Len(s) - 1 : u[i] = s[i]
    BY StackEnters
  <2> QED BY <2>1, <2>2, <2>3, <2>4, <2>5, Zenon
<1>2. \A i \in 1 .. Len(s) : i # Len(s) => i \in 1 .. Len(s) - 1
  BY <1>1
<1>3. \A i \in 1 .. Len(s) : u[i].op = s[i].op /\ u[i].path = s[i].path
  BY <1>1, <1>2
<1>4. \A i \in 1 .. Len(u) : i # Len(s) + 1 => i \in 1 .. Len(s)
  BY <1>1
<1>5. RightOps(u, c)
  <2>1. g.op = OpAt(c, Len(s) + 1)
    <3>1. f.op = OpAt(c, Len(s)) /\ Len(s) \in 1 .. Len(s) /\ Len(s) + 1 # 1
      BY <1>1 DEF Chain, RightOps
    <3> QED BY <3>1 DEF OpAt, Waits, MakeWaits, RemoveWaits, SizeWaits, OpenWaits
  <2> QED BY <1>1, <1>3, <1>4, <2>1 DEF Chain, RightOps
<1>6. Linked(t, u)
  <2> SUFFICES ASSUME NEW i \in 1 .. Len(s) PROVE Waits(t, u[i], u[i + 1].op, u[i + 1].path)
    <3>1. Len(u) - 1 = Len(s)
      BY <1>1
    <3> QED BY <3>1 DEF Linked
  <2>1. CASE i = Len(s)
    BY <1>1, <2>1
  <2>2. CASE i # Len(s)
    <3>1. i \in 1 .. Len(s) - 1 /\ i + 1 \in 1 .. Len(s)
      BY <1>1, <2>2
    <3>2. Waits(t, s[i], s[i + 1].op, s[i + 1].path)
      BY <3>1 DEF Chain, Linked
    <3> QED BY <1>1, <1>3, <3>1, <3>2
  <2> QED BY <2>1, <2>2
<1>7. Nested(u, c)
  <2> SUFFICES ASSUME c.op = "remove", NEW i \in 1 .. Len(u), NEW j \in 1 .. Len(u), i <= j
               PROVE  Starts(Clean(u[i].path), Clean(u[j].path))
    BY DEF Nested
  <2>1. \A k \in 1 .. Len(s) : s[k].op = "remove"
    BY DEF Chain, RightOps, OpAt
  <2>2. \A k \in 1 .. Len(s) : s[k] \in Frames /\ Clean(s[k].path) \in Path
    <3> SUFFICES ASSUME NEW k \in 1 .. Len(s) PROVE s[k] \in Frames /\ Clean(s[k].path) \in Path
      OBVIOUS
    <3>1. s[k] \in Frames
      BY ElementOfSeq
    <3>2. s[k].path \in Given
      BY <2>1, <3>1 DEF Frames
    <3> QED BY <3>1, <3>2, GivenPaths
  <2>3. Clean(g.path) \in Path /\ Starts(Clean(f.path), Clean(g.path))
    <3>1. f.op = "remove"
      BY <1>1, <2>1
    <3>2. g.path \in Path /\ IsChild(g.path, Clean(f.path))
      BY <3>1 DEF Waits, MakeWaits, RemoveWaits, SizeWaits, OpenWaits
    <3>3. Clean(g.path) = g.path
      <4>1. g.path # <<>> /\ NoName \notin ToSet(g.path) /\ g.path \in Seq(ToSet(g.path))
        BY <3>2 DEF FilesAssumption
      <4>2. Last(g.path) \in ToSet(g.path)
        BY <4>1, FrontLast
      <4> QED BY <4>1, <4>2 DEF Clean
    <3> QED BY <3>2, <3>3 DEF IsChild
  <2>4. \A k \in 1 .. Len(s) : Starts(Clean(s[k].path), Clean(f.path))
    <3>1. \A k \in 1 .. Len(s) : k <= Len(s) /\ Len(s) \in 1 .. Len(s)
      BY <1>1
    <3> QED BY <1>1, <3>1 DEF Chain, Nested
  <2>5. Clean(f.path) \in Path
    BY <1>1, <2>2
  <2>6. CASE j = Len(s) + 1 /\ i = Len(s) + 1
    BY <1>1, <2>3, <2>6, StartsOrder
  <2>7. CASE j = Len(s) + 1 /\ i # Len(s) + 1
    <3>1. i \in 1 .. Len(s)
      BY <1>4, <2>7
    <3> DEFINE x == Clean(s[i].path)
               y == Clean(f.path)
               z == Clean(g.path)
    <3>2. x \in Path /\ y \in Path /\ z \in Path /\ Starts(x, y) /\ Starts(y, z)
      BY <2>2, <2>3, <2>4, <2>5, <3>1
    <3>3. u[i].path = s[i].path /\ u[j] = g
      BY <1>1, <1>3, <2>7, <3>1
    <3> HIDE DEF x, y, z
    <3>4. Starts(x, z)
      BY <3>2, StartsOrder
    <3> QED BY <3>3, <3>4 DEF x, z
  <2>8. CASE j # Len(s) + 1
    <3>1. i \in 1 .. Len(s) /\ j \in 1 .. Len(s)
      BY <1>1, <1>4, <2>8
    <3> QED BY <1>3, <3>1 DEF Chain, Nested
  <2> QED BY <2>6, <2>7, <2>8
<1>8. Begun(t, u, c)
  <2>1. 1 \in 1 .. Len(s) /\ s[1].op = c.op
    BY <1>1 DEF Chain, RightOps, OpAt
  <2>2. CASE c.op # "open"
    BY <1>3, <2>1, <2>2 DEF Chain, Begun
  <2>3. CASE c.op = "open" /\ Len(s) = 1
    BY <1>1, <2>1, <2>3 DEF Begun
  <2>4. CASE c.op = "open" /\ Len(s) # 1
    <3>1. u[1] = s[1]
      <4>1. 1 \in 1 .. Len(s) - 1
        BY <1>1, <2>4
      <4> QED BY <1>1, <4>1
    <3> QED BY <2>4, <3>1 DEF Chain, Begun
  <2> QED BY <2>2, <2>3, <2>4
<1> QED BY <1>5, <1>6, <1>7, <1>8 DEF Chain

\* The innermost call returns to the one that waits for it.
LEMMA ChainReturns ==
  ASSUME NEW t \in Trees, NEW c \in Calls, NEW s \in Seq(Frames), s # <<>>, Chain(t, s, c),
         NEW u, u = Front(s), u # <<>>
  PROVE  Chain(t, u, c) /\ Waits(t, Last(u), Last(s).op, Last(s).path)
<1>1. /\ u \in Seq(Frames) /\ Len(u) = Len(s) - 1 /\ \A i \in 1 .. Len(s) - 1 : u[i] = s[i]
      /\ Last(s) = s[Len(s)] /\ Len(s) \in Nat \ {0}
  BY FrontLast
<1>2. Last(u) = u[Len(u)] /\ Len(u) \in Nat \ {0} /\ Len(u) + 1 = Len(s)
  <2>1. Last(u) = u[Len(u)] /\ Len(u) \in Nat \ {0}
    BY <1>1, FrontLast
  <2>2. Len(u) + 1 = Len(s)
    BY <1>1
  <2> QED BY <2>1, <2>2
<1>3. \A i \in 1 .. Len(u) : u[i] = s[i] /\ i \in 1 .. Len(s) - 1 /\ i \in 1 .. Len(s)
  BY <1>1, <1>2
<1>4. RightOps(u, c) /\ Nested(u, c)
  BY <1>3 DEF Chain, RightOps, Nested
<1>5. Linked(t, u)
  <2>1. \A i \in 1 .. Len(u) - 1 : i \in 1 .. Len(u) /\ i + 1 \in 1 .. Len(u)
    BY <1>2
  <2> QED BY <1>3, <2>1 DEF Chain, Linked
<1>6. Begun(t, u, c)
  <2>1. u[1] = s[1]
    BY <1>2, <1>3
  <2> QED BY <2>1 DEF Chain, Begun
<1>7. Waits(t, Last(u), Last(s).op, Last(s).path)
  <2>1. Len(u) \in 1 .. Len(s) - 1 /\ Len(u) \in 1 .. Len(u)
    BY <1>2
  <2> QED BY <1>1, <1>2, <1>3, <2>1 DEF Chain, Linked
<1> QED BY <1>4, <1>5, <1>6, <1>7 DEF Chain

-----------------------------------------------------------------------------
(* The file system changes under the calls that wait.                        *)

\* A call on a path.
LEMMA FramePath ==
  ASSUME FilesAssumption, NEW f \in Frames, f.op # "open" \/ f.at \notin {"start", "home"}
  PROVE  f.path \in Given /\ f.path # <<>> /\ Clean(f.path) \in Path
<1>1. f.path \in Given
  BY DEF Frames
<1> QED BY <1>1, GivenPaths

\* A path of the file system has no separator at its end.
LEMMA CleanPath ==
  ASSUME FilesAssumption, NEW q \in Path
  PROVE  Clean(q) = q
<1>1. q # <<>> /\ NoName \notin ToSet(q) /\ q \in Seq(ToSet(q))
  BY DEF FilesAssumption
<1>2. Last(q) \in ToSet(q)
  BY <1>1, FrontLast
<1> QED BY <1>1, <1>2 DEF Clean

\* A directory that is made is no file.
LEMMA NoFileKept ==
  ASSUME FilesAssumption, NEW t \in Trees, NEW q \in Path, t[q] = "none",
         NEW u, u = [t EXCEPT ![q] = "dir"]
  PROVE  u \in Trees /\ \A x \in Path : NoFileTo(u, x) <=> NoFileTo(t, x)
<1>1. u \in Trees /\ \A x \in Path : u[x] = IF x = q THEN "dir" ELSE t[x]
  BY DEF Trees, Kinds
<1>2. \A x \in Path : u[x] = "file" <=> t[x] = "file"
  BY <1>1
<1> QED BY <1>1, <1>2, NoFileIs

LEMMA ChainMade ==
  ASSUME FilesAssumption, NEW t \in Trees, NEW c \in Calls, NEW s \in Seq(Frames), s # <<>>,
         Chain(t, s, c), c.op \in {"make", "open"}, NEW q \in Path, t[q] = "none",
         NEW u, u = [t EXCEPT ![q] = "dir"]
  PROVE  Chain(u, s, c)
<1>1. u \in Trees /\ \A x \in Path : NoFileTo(u, x) <=> NoFileTo(t, x)
  BY NoFileKept
<1>2. ASSUME NEW i \in 1 .. Len(s) - 1 PROVE Waits(u, s[i], s[i + 1].op, s[i + 1].path)
  <2>1. i \in 1 .. Len(s)
    BY LenProperties
  <2>2. s[i] \in Frames /\ s[i].op \in {"make", "open"}
    BY <2>1, ElementOfSeq DEF Chain, RightOps, OpAt
  <2>3. Waits(t, s[i], s[i + 1].op, s[i + 1].path)
    BY DEF Chain, Linked
  <2>4. CASE OpenWaits(s[i], s[i + 1].op, s[i + 1].path)
    BY <2>4 DEF Waits
  <2>5. CASE MakeWaits(t, s[i], s[i + 1].op, s[i + 1].path)
    <3>1. Clean(s[i].path) \in Path
      BY <2>2, <2>5, FramePath DEF MakeWaits
    <3> QED BY <1>1, <2>5, <3>1 DEF Waits, MakeWaits
  <2> QED BY <2>2, <2>3, <2>4, <2>5 DEF Waits, RemoveWaits, SizeWaits
<1>3. Begun(u, s, c)
  <2>1. Home \in Path /\ (t[Home] = "dir" => u[Home] = "dir")
    BY DEF FilesAssumption, Trees
  <2> QED BY <1>1, <2>1 DEF Chain, Begun, Chosen
<1> QED BY <1>2, <1>3 DEF Chain, Linked

\* What a loop found stays when something in what it is doing is removed.
LEMMA ListedKept ==
  ASSUME FilesAssumption, NEW t \in Trees, NEW f, Clean(f.path) \in Path,
         NEW x \in Path, IsChild(x, Clean(f.path)), Listed(t, f, {x}),
         NEW r \in Path, Starts(x, r), NEW u, u = [t EXCEPT ![r] = "none"]
  PROVE  Listed(u, f, {x})
<1> DEFINE q == Clean(f.path)
<1>1. u \in Trees /\ \A y \in Path : u[y] = IF y = r THEN "none" ELSE t[y]
  BY DEF Trees, Kinds
<1>2. Len(q) \in Nat /\ Len(r) \in Nat /\ Len(x) = Len(q) + 1 /\ Len(x) <= Len(r)
  BY PathTypes DEF IsChild, Starts
<1>3. q # r
  BY <1>2
<1>4. ASSUME NEW y \in ChildrenIn(t, q) \ {x} PROVE y \in ChildrenIn(u, q) /\ u[y] = t[y]
  <2>1. y \in Path /\ Len(y) = Len(q) + 1 /\ y # x
    BY DEF ChildrenIn, IsChild
  <2>2. y # r
    BY <1>2, <2>1, StartsOrder
  <2> QED BY <1>1, <2>1, <2>2 DEF ChildrenIn
<1>5. ChildrenIn(u, q) \subseteq ChildrenIn(t, q)
  BY <1>1 DEF ChildrenIn
<1>6. u[q] = "dir"
  BY <1>1, <1>3 DEF Listed, Pending
<1>7. \A d \in f.todo : d.path \in ChildrenIn(t, q) \ {x} /\ d.kind = t[d.path]
  BY DEF Listed, Pending
<1>8. \A d \in f.todo : d.path \in ChildrenIn(u, q) \ {x} /\ d.kind = u[d.path]
  BY <1>4, <1>7
<1>9. ChildrenIn(t, q) \subseteq TodoPaths(f) \cup {x}
  BY DEF Listed
<1> QED BY <1>5, <1>6, <1>8, <1>9 DEF Listed, Pending

LEMMA ChainRemoved ==
  ASSUME FilesAssumption, NEW t \in Trees, NEW c \in Calls, NEW s \in Seq(Frames), s # <<>>,
         Chain(t, s, c), c.op = "remove", NEW r \in Path, Starts(Clean(Last(s).path), r),
         NEW u, u = [t EXCEPT ![r] = "none"]
  PROVE  Chain(u, s, c)
<1>1. Len(s) \in Nat \ {0} /\ Last(s) = s[Len(s)]
  BY FrontLast
<1>2. ASSUME NEW i \in 1 .. Len(s)
      PROVE  s[i] \in Frames /\ s[i].op = "remove" /\ Clean(s[i].path) \in Path
  <2>1. s[i] \in Frames
    BY ElementOfSeq
  <2>2. s[i].op = "remove"
    BY DEF Chain, RightOps, OpAt
  <2> QED BY <2>1, <2>2, FramePath
<1>3. ASSUME NEW i \in 1 .. Len(s) - 1 PROVE Waits(u, s[i], s[i + 1].op, s[i + 1].path)
  <2>1. i \in 1 .. Len(s) /\ i + 1 \in 1 .. Len(s) /\ Len(s) \in 1 .. Len(s) /\ i + 1 <= Len(s)
    BY <1>1
  <2> DEFINE f == s[i]
             x == s[i + 1].path
             top == Clean(s[Len(s)].path)
  <2>2. RemoveWaits(t, f, s[i + 1].op, x)
    <3>1. Waits(t, s[i], s[i + 1].op, s[i + 1].path)
      BY DEF Chain, Linked
    <3> QED BY <1>2, <2>1, <3>1 DEF Waits, MakeWaits, SizeWaits, OpenWaits
  <2>3. x \in Path /\ IsChild(x, Clean(f.path)) /\ Listed(t, f, {x}) /\ t[x] # "file" /\ Clean(f.path) \in Path
    BY <1>2, <2>1, <2>2 DEF RemoveWaits
  <2>4. Starts(x, r)
    <3>1. Starts(Clean(x), top)
      BY <2>1 DEF Chain, Nested
    <3>2. Clean(x) = x /\ top \in Path
      BY <1>2, <2>1, <2>3, CleanPath
    <3>3. Starts(top, r)
      BY <1>1
    <3> HIDE DEF x, top
    <3> QED BY <2>3, <3>1, <3>2, <3>3, StartsOrder
  <2> HIDE DEF f, x
  <2>5. Listed(u, f, {x})
    BY <2>3, <2>4, ListedKept
  <2>6. u[x] # "file"
    BY <2>3 DEF Trees
  <2>7. RemoveWaits(u, f, s[i + 1].op, x)
    BY <2>2, <2>5, <2>6 DEF RemoveWaits
  <2> QED BY <2>7 DEF Waits, f, x
<1>4. Begun(u, s, c)
  BY DEF Chain, Begun
<1> QED BY <1>3, <1>4 DEF Chain, Linked

-----------------------------------------------------------------------------
(* The loops over the children. *)

\* The loop takes one of the children.
LEMMA LoopTakes ==
  ASSUME FilesAssumption, NEW t \in Trees, NEW f \in Frames, Clean(f.path) \in Path,
         Pending(t, f, {}), NEW d \in f.todo,
         NEW h, h.path = f.path, h.todo = f.todo \ {d}
  PROVE  /\ d.path \in ChildrenIn(t, Clean(f.path)) /\ d.kind = t[d.path]
         /\ Pending(t, h, {d.path}) /\ TodoPaths(h) \cup {d.path} = TodoPaths(f)
         /\ Listed(t, f, {}) => Listed(t, h, {d.path})
<1> DEFINE q == Clean(f.path)
<1>1. \A e \in f.todo : e \in [path : Path, kind : Kinds] /\ e.path \in ChildrenIn(t, q) /\ e.kind = t[e.path]
  BY DEF Pending, Frames
<1>2. \A e \in f.todo : e.path = d.path => e = d
  <2>1. \A e \in f.todo : e = [path |-> e.path, kind |-> e.kind]
    BY <1>1
  <2> QED BY <1>1, <2>1
<1>3. Pending(t, h, {d.path})
  BY <1>1, <1>2 DEF Pending
<1>4. TodoPaths(h) \cup {d.path} = TodoPaths(f)
  BY DEF TodoPaths
<1>5. Listed(t, f, {}) => Listed(t, h, {d.path})
  BY <1>3, <1>4 DEF Listed
<1> QED BY <1>1, <1>3, <1>4, <1>5

\* ... and is done with it.
LEMMA LoopGoesOn ==
  ASSUME NEW t \in Trees, NEW f, NEW x, NEW h, h.path = f.path, h.todo = f.todo
  PROVE  /\ Pending(t, f, {x}) => Pending(t, h, {})
         /\ Listed(t, f, {x}) /\ t[x] = "none" => Listed(t, h, {})
<1>1. TodoPaths(h) = TodoPaths(f)
  BY DEF TodoPaths
<1>2. t[x] = "none" => x \notin ChildrenIn(t, Clean(f.path))
  BY DEF ChildrenIn
<1> QED BY <1>1, <1>2 DEF Pending, Listed

\* The size of a child is added.
LEMMA LoopAdds ==
  ASSUME FilesAssumption, NEW t \in Trees, IsTree(t), NEW f, Clean(f.path) \in Path,
         NEW x \in ChildrenIn(t, Clean(f.path)), Pending(t, f, {x}), Counted(t, f, {x}),
         NEW h, h.path = f.path, h.todo = f.todo, h.total = f.total + SizeOf(t, x)
  PROVE  Counted(t, h, {})
<1> DEFINE q == Clean(f.path)
           todo == TodoPaths(f)
           all == FilesUnder(t, {q})
           rest == FilesUnder(t, todo)
           more == FilesUnder(t, todo \cup {x})
           now == FilesUnder(t, {x})
<1>1. todo \subseteq ChildrenIn(t, q) /\ x \notin todo
  BY DEF Pending, TodoPaths
<1>2. now \cap rest = {}
  BY <1>1, ChildrenApart
<1>3. more = rest \cup now
  BY DEF FilesUnder
<1>4. now \subseteq all
  <2>1. x \in Path /\ Starts(q, x)
    BY DEF ChildrenIn, IsChild
  <2>2. \A r \in Path : Starts(x, r) => Starts(q, r)
    BY <2>1, StartsOrder
  <2> QED BY <2>2 DEF FilesUnder
<1>5. all \subseteq Path
  BY DEF FilesUnder
<1>6. f.total = SumOver(Bytes, all \ more) /\ SizeOf(t, x) = SumOver(Bytes, now)
  BY DEF Counted, SizeOf
<1>7. TodoPaths(h) \cup {} = todo
  BY DEF TodoPaths
<1> HIDE DEF all, rest, more, now, todo
<1>8. all \ rest = (all \ more) \cup now /\ (all \ more) \cap now = {}
  BY <1>2, <1>3, <1>4
<1>9. SumOver(Bytes, (all \ more) \cup now) = SumOver(Bytes, all \ more) + SumOver(Bytes, now)
  <2>1. all \ more \in SUBSET Path /\ now \in SUBSET Path
    BY <1>4, <1>5
  <2> QED BY <1>8, <2>1, SumTwo
<1>10. h.total = SumOver(Bytes, all \ rest)
  BY <1>6, <1>8, <1>9
<1> QED BY <1>7, <1>10 DEF Counted, all, rest, todo

-----------------------------------------------------------------------------
(* A step of a process that no other disturbs.                               *)

LEMMA TopOf ==
  ASSUME FilesAssumption, FilesSound, AloneSound, NEW p \in Proc, Alone(p), stack[p] # <<>>
  PROVE  /\ Chain(node, stack[p], call[p])
         /\ Stands(node, Top(p)) \/ Answered(node, Top(p), answer[p])
         /\ Top(p).op = "make" => call[p].op \in {"make", "open"}
         /\ Top(p).op \in {"remove", "size"} => call[p].op = Top(p).op
         /\ Top(p).op = "open" => /\ Len(stack[p]) = 1 /\ call[p].op = "open"
                                  /\ Chosen(node, call[p], Top(p))
<1>1. Exact(p) /\ stack[p] \in Seq(Frames) /\ call[p] \in Calls
  BY DEF AloneSound, FilesSound, FilesTypes
<1>2. Chain(node, stack[p], call[p]) /\ (Stands(node, Top(p)) \/ Answered(node, Top(p), answer[p]))
  BY <1>1 DEF Exact, Top
<1>3. Len(stack[p]) \in Nat \ {0} /\ Top(p) = stack[p][Len(stack[p])]
  BY <1>1, FrontLast DEF Top
<1>4. Top(p).op = OpAt(call[p], Len(stack[p]))
  <2>1. Len(stack[p]) \in 1 .. Len(stack[p])
    BY <1>3
  <2> QED BY <1>2, <1>3, <2>1 DEF Chain, RightOps
<1>5. Top(p).op = "open" => Len(stack[p]) = 1 /\ call[p].op = "open"
  BY <1>4 DEF OpAt
<1> QED BY <1>2, <1>3, <1>4, <1>5 DEF OpAt, Chain, Begun

\* The others that no one disturbed are where they were.
LEMMA OthersExact ==
  ASSUME FilesAssumption, FilesSound, AloneSound, NEW p \in Proc, Moves(p), UNCHANGED call,
         NEW r \in Proc \ {p}, stack'[r] = stack[r], answer'[r] = answer[r]
  PROVE  Alone(r)' => Exact(r)'
<1> SUFFICES ASSUME Alone(r)' PROVE Exact(r)'
  OBVIOUS
<1>1. call[r] # NoCall /\ others'[r] = {}
  BY DEF Alone
<1>2. NoChange
  <2>1. ASSUME NEW q, NEW kind, NEW what, SetNode(p, q, kind, what) PROVE FALSE
    <3>1. others'[r] = others[r] \cup {what}
      BY <1>1, <2>1 DEF SetNode
    <3> QED BY <1>1, <3>1
  <2> QED BY <2>1 DEF Moves
<1>3. Exact(r)
  BY <1>1, <1>2 DEF NoChange, AloneSound, Alone
<1> QED BY <1>2, <1>3 DEF NoChange, Exact

\* ... and the one that moved was alone before.
LEMMA MovesAlone ==
  ASSUME NEW p \in Proc, Moves(p), UNCHANGED call
  PROVE  Alone(p)' => Alone(p)
BY DEF Moves, NoChange, SetNode, Alone

\* What the step changes besides the file system.
StepsOnly(p) ==
  UNCHANGED call /\ \A r \in Proc \ {p} : stack'[r] = stack[r] /\ answer'[r] = answer[r]

LEMMA StepExact ==
  ASSUME FilesAssumption, FilesSound, AloneSound, NEW p \in Proc, Moves(p), StepsOnly(p),
         IsTree(node)', Alone(p) => Exact(p)'
  PROVE  AloneSound'
<1>1. Alone(p)' => Exact(p)'
  BY MovesAlone DEF StepsOnly
<1>2. \A r \in Proc \ {p} : Alone(r)' => Exact(r)'
  BY OthersExact DEF StepsOnly
<1> QED BY <1>1, <1>2 DEF AloneSound

\* The frame b, at another place.
Placed(b, h, place) ==
  /\ h \in Frames /\ h.op = b.op /\ h.path = b.path /\ h.at = place
  /\ h.todo = b.todo /\ h.total = b.total

\* The innermost call goes on as f.
LEMMA OwnChanges ==
  ASSUME FilesAssumption, FilesSound, NEW p \in Proc, stack[p] # <<>>, node' \in Trees,
         Chain(node', stack[p], call[p]), NEW f \in Frames, f.op = Top(p).op,
         f.op = "open" => Chosen(node', call[p], f), f.op # "open" => f.path = Top(p).path,
         stack' = Changed(p, f), UNCHANGED <<answer, call>>, Stands(node', f)
  PROVE  StepsOnly(p) /\ Exact(p)'
<1> DEFINE s == stack[p]
           u == Append(Front(s), f)
<1>1. s \in Seq(Frames) /\ call[p] \in Calls /\ stack' = [stack EXCEPT ![p] = u]
      /\ stack \in [Proc -> Seq(Frames)]
  BY DEF FilesSound, FilesTypes, Changed
<1>2. stack'[p] = u /\ \A r \in Proc \ {p} : stack'[r] = stack[r]
  BY <1>1
<1>3. Continued(u, s, f)
  BY DEF Continued
<1> HIDE DEF u
<1>4. u # <<>> /\ Last(u) = f
  <2>1. u # <<>>
    BY <1>1, <1>3, StackGoes
  <2>2. Last(u) = f
    BY <1>1, <1>3, StackGoes
  <2> QED BY <2>1, <2>2
<1>5. Chain(node', u, call[p])
  BY <1>1, <1>3, ChainGoes DEF Top
<1> QED BY <1>2, <1>4, <1>5 DEF StepsOnly, Exact

\* It goes on at another place.
LEMMA OwnGoes ==
  ASSUME FilesAssumption, FilesSound, NEW p \in Proc, stack[p] # <<>>, node' \in Trees,
         Chain(node', stack[p], call[p]), NEW place \in Places \ {"home"}, GoTo(p, place),
         Top(p).op # "open", \A h : Placed(Top(p), h, place) => Stands(node', h)
  PROVE  StepsOnly(p) /\ Exact(p)'
<1> DEFINE f == [Top(p) EXCEPT !.at = place]
<1>1. Top(p) \in Frames /\ Top(p).path # <<>>
  BY TopTypes
<1>2. Placed(Top(p), f, place)
  BY <1>1 DEF Placed, Frames
<1>3. stack' = Changed(p, f) /\ UNCHANGED <<answer, call>>
  BY DEF GoTo
<1> HIDE DEF f
<1> QED BY <1>2, <1>3, OwnChanges DEF Placed

\* It makes the call g.
LEMMA OwnEnters ==
  ASSUME FilesAssumption, FilesSound, NEW p \in Proc, stack[p] # <<>>, node' \in Trees,
         Chain(node', stack[p], call[p]), NEW f \in Frames, f.op = Top(p).op,
         f.op = "open" => Chosen(node', call[p], f), f.path = Top(p).path,
         NEW g \in Frames, Waits(node', f, g.op, g.path), Stands(node', g),
         stack' = [stack EXCEPT ![p] = Front(@) \o <<f, g>>], UNCHANGED <<answer, call>>
  PROVE  StepsOnly(p) /\ Exact(p)'
<1> DEFINE s == stack[p]
           u == Front(s) \o <<f, g>>
<1>1. s \in Seq(Frames) /\ call[p] \in Calls /\ stack' = [stack EXCEPT ![p] = u]
      /\ stack \in [Proc -> Seq(Frames)]
  BY DEF FilesSound, FilesTypes
<1>2. stack'[p] = u /\ \A r \in Proc \ {p} : stack'[r] = stack[r]
  BY <1>1
<1>3. Calling(u, s, f, g)
  BY DEF Calling
<1> HIDE DEF u
<1>4. u # <<>> /\ Last(u) = g
  <2>1. u # <<>>
    BY <1>1, <1>3, StackEnters
  <2>2. Last(u) = g
    BY <1>1, <1>3, StackEnters
  <2> QED BY <2>1, <2>2
<1>5. Chain(node', u, call[p])
  BY <1>1, <1>3, ChainEnters DEF Top
<1> QED BY <1>2, <1>4, <1>5 DEF StepsOnly, Exact

\* It answers v.
LEMMA OwnReturns ==
  ASSUME FilesAssumption, FilesSound, NEW p \in Proc, stack[p] # <<>>, node' \in Trees,
         Chain(node', stack[p], call[p]), NEW v, Answers(p, v), Top(p).op # "open",
         Done(node', Top(p).op, Top(p).path, v)
  PROVE  StepsOnly(p) /\ Exact(p)'
<1> DEFINE s == stack[p]
           u == Front(s)
<1>1. /\ s \in Seq(Frames) /\ call[p] \in Calls /\ stack' = [stack EXCEPT ![p] = u]
      /\ stack \in [Proc -> Seq(Frames)] /\ answer \in [Proc -> AnswerValue]
      /\ answer' = [answer EXCEPT ![p] = v] /\ UNCHANGED call
  BY DEF FilesSound, FilesTypes, Answers
<1>2. /\ stack'[p] = u /\ answer'[p] = v
      /\ \A r \in Proc \ {p} : stack'[r] = stack[r] /\ answer'[r] = answer[r]
  BY <1>1
<1>3. /\ Top(p) \in Frames /\ Top(p).op \in Ops /\ Top(p).path \in Given
      /\ Top(p) = s[Len(s)] /\ Len(s) \in Nat \ {0}
      /\ u \in Seq(Frames) /\ Len(u) = Len(s) - 1
  <2>1. Top(p) \in Frames
    BY TopTypes
  <2>2. Top(p).op \in Ops /\ Top(p).path \in Given
    BY <2>1, FramePath DEF Frames
  <2> QED BY <1>1, <2>1, <2>2, FrontLast DEF Top
<1>4. CASE u = <<>>
  <2>1. Len(s) = 1
    BY <1>3, <1>4
  <2>2. Top(p).op = call[p].op
    <3>1. 1 \in 1 .. Len(s)
      BY <2>1
    <3> QED BY <1>3, <2>1, <3>1 DEF Chain, RightOps, OpAt
  <2>3. Top(p).path = call[p].path
    BY <1>3, <2>1, <2>2 DEF Chain, Begun
  <2>4. Top(p).path # <<>>
    BY <1>3, GivenPaths
  <2> QED BY <1>1, <1>2, <1>4, <2>2, <2>3, <2>4 DEF StepsOnly, Exact, DoneCall
<1>5. CASE u # <<>>
  <2> HIDE DEF u
  <2>1. Chain(node', u, call[p]) /\ Waits(node', Last(u), Top(p).op, Top(p).path)
    BY <1>1, <1>5, ChainReturns DEF Top, u
  <2>2. Answered(node', Last(u), v)
    BY <1>3, <2>1 DEF Answered
  <2> QED BY <1>1, <1>2, <1>5, <2>1, <2>2 DEF StepsOnly, Exact
<1> QED BY <1>4, <1>5

-----------------------------------------------------------------------------
(* The system calls. *)

LEMMA MkdirIs ==
  ASSUME FilesAssumption, node \in Trees, IsTree(node), NEW path, Clean(path) \in Path
  PROVE  LET q == Clean(path)
             error == MkdirError(path)
         IN  /\ error \in {"0", "EEXIST", "ENOENT", "ENOTDIR"}
             /\ error = "0" => node[q] = "none" /\ \A r \in Above(q) : node[r] = "dir"
             /\ error = "EEXIST" => node[q] # "none"
             /\ error = "ENOENT" => node[q] = "none" /\ NoFileTo(node, q)
             /\ error = "ENOTDIR" => node[q] # "dir" /\ ~NoFileTo(node, q)
             /\ node[q] = "none" /\ (\A r \in Above(q) : node[r] = "dir") => error = "0"
<1> DEFINE q == Clean(path)
<1>1. Above(q) \subseteq Path /\ \A r \in Path : node[r] \in {"none", "file", "dir"}
  BY DEF FilesAssumption, Trees, Kinds
<1>2. node[q] # "none" => \A r \in Above(q) : node[r] = "dir"
  BY DEF IsTree
<1>3. CASE \E r \in Above(q) : node[r] = "file"
  <2>1. MkdirError(path) = "ENOTDIR"
    BY <1>3 DEF MkdirError
  <2>2. ~NoFileTo(node, q) /\ node[q] # "dir" /\ ~\A r \in Above(q) : node[r] = "dir"
    BY <1>2, <1>3 DEF NoFileTo
  <2> QED BY <2>1, <2>2
<1>4. CASE (~\E r \in Above(q) : node[r] = "file") /\ \E r \in Above(q) : node[r] = "none"
  <2>1. MkdirError(path) = "ENOENT"
    BY <1>4 DEF MkdirError
  <2>2. node[q] = "none" /\ ~\A r \in Above(q) : node[r] = "dir"
    BY <1>2, <1>4
  <2>3. NoFileTo(node, q)
    BY <1>4, <2>2 DEF NoFileTo
  <2> QED BY <2>1, <2>2, <2>3
<1>5. CASE ~\E r \in Above(q) : node[r] \in {"file", "none"}
  <2>1. \A r \in Above(q) : node[r] = "dir"
    BY <1>1, <1>5
  <2>2. MkdirError(path) = IF node[q] # "none" THEN "EEXIST" ELSE "0"
    BY <1>5 DEF MkdirError
  <2> QED BY <2>1, <2>2
<1> QED BY <1>3, <1>4, <1>5

Makes(p, q) ==
  /\ node[q] = "none" /\ \A r \in Above(q) : node[r] = "dir"
  /\ SetNode(p, q, "dir", "made")

Removes(p, q) == ChildrenIn(node, q) = {} /\ SetNode(p, q, "none", "removed")

LEMMA MakesTree ==
  ASSUME FilesAssumption, FilesSound, IsTree(node), NEW p \in Proc, NEW q \in Path, Makes(p, q)
  PROVE  /\ Moves(p) /\ node' \in Trees /\ IsTree(node)' /\ node'[q] = "dir" /\ NoFileTo(node', q)
         /\ \A c \in Calls, s \in Seq(Frames) :
              s # <<>> /\ Chain(node, s, c) /\ c.op \in {"make", "open"} => Chain(node', s, c)
<1>1. node \in Trees /\ node' = [node EXCEPT ![q] = "dir"] /\ node[q] = "none"
  BY DEF Makes, SetNode, FilesSound, FilesTypes, Trees
<1>2. Moves(p) /\ node'[q] = "dir"
  BY NodeSet DEF Makes
<1>3. IsTree(node)'
  <2> DEFINE u == [node EXCEPT ![q] = "dir"]
  <2>1. IsTree(u)
    BY <1>1, TreeMade DEF Makes
  <2> QED BY <1>1, <2>1 DEF IsTree
<1>4. node' \in Trees
  BY <1>1 DEF Trees, Kinds
<1>5. NoFileTo(node', q)
  <2>1. IsTree(node')
    BY <1>3 DEF IsTree
  <2> QED BY <1>2, <1>4, <2>1, DirHasNoFile
<1>6. ASSUME NEW c \in Calls, NEW s \in Seq(Frames), s # <<>>, Chain(node, s, c),
             c.op \in {"make", "open"}
      PROVE  Chain(node', s, c)
  BY <1>1, <1>6, ChainMade
<1> QED BY <1>2, <1>3, <1>4, <1>5, <1>6

LEMMA RemovesTree ==
  ASSUME FilesAssumption, FilesSound, IsTree(node), NEW p \in Proc, NEW q \in Path, Removes(p, q)
  PROVE  /\ Moves(p) /\ node' \in Trees /\ IsTree(node)' /\ node'[q] = "none"
         /\ node' = [node EXCEPT ![q] = "none"]
         /\ \A c \in Calls, s \in Seq(Frames) :
              s # <<>> /\ Chain(node, s, c) /\ c.op = "remove" /\ Starts(Clean(Last(s).path), q) =>
                Chain(node', s, c)
<1>1. node \in Trees /\ node' = [node EXCEPT ![q] = "none"]
  BY DEF Removes, SetNode, FilesSound, FilesTypes, Trees
<1>2. Moves(p) /\ node'[q] = "none"
  BY NodeSet DEF Removes
<1>3. IsTree(node)'
  <2> DEFINE u == [node EXCEPT ![q] = "none"]
  <2>1. IsTree(u)
    BY <1>1, TreeRemoved DEF Removes
  <2> QED BY <1>1, <2>1 DEF IsTree
<1>4. node' \in Trees
  BY <1>1 DEF Trees, Kinds
<1>5. ASSUME NEW c \in Calls, NEW s \in Seq(Frames), s # <<>>, Chain(node, s, c),
             c.op = "remove", Starts(Clean(Last(s).path), q)
      PROVE  Chain(node', s, c)
  BY <1>1, <1>5, ChainRemoved
<1> QED BY <1>1, <1>2, <1>3, <1>4, <1>5

LEMMA BelowIs ==
  ASSUME FilesAssumption, NEW q \in Path
  PROVE  Below(q) = ChildrenIn(node, q)
BY StartsIs DEF Below, ChildrenIn

\* Every step leaves the files, makes a directory or removes what is empty.
LEMMA StepChanges ==
  ASSUME FilesAssumption, FilesSound, IsTree(node), NEW p \in Proc, FilesStep(p)
  PROVE  StepsOnly(p) /\ (NoChange \/ \E q \in Path : Makes(p, q) \/ Removes(p, q))
<1> DEFINE f == Top(p)
<1>1. node \in Trees
  BY DEF FilesSound, FilesTypes, Trees
<1>2. /\ stack[p] # <<>> /\ f \in Frames
      /\ f.op # "open" \/ f.at \notin {"start", "home"} => Clean(f.path) \in Path
  <2>1. stack[p] # <<>>
    BY DEF FilesStep, MakeStart, MakeFirst, MakeParent, MakeAgain, MakeLast, MakeExists, RemoveStart,
      Rmdir, RemoveEach, RemoveChild, RmdirLast, SizeStart, SizeFile, SizeEach, SizeChild, List,
      OpenStart, OpenDefault, OpenDatabase, InStep
  <2>2. f \in Frames
    BY <2>1, TopTypes
  <2> QED BY <2>1, <2>2, FramePath
<1>3. ASSUME NEW path, Clean(path) \in Path, MkdirError(path) = "0",
             SetNode(p, Clean(path), "dir", "made")
      PROVE  Makes(p, Clean(path))
  BY <1>1, <1>3, MkdirIs DEF Makes
<1>4. ASSUME NEW path, Clean(path) \in Path, CanRmdir(path),
             SetNode(p, Clean(path), "none", "removed")
      PROVE  Removes(p, Clean(path))
  BY <1>4, BelowIs DEF Removes, CanRmdir
<1>5. ASSUME NEW q \in Path, FileRemove(p, q) PROVE Removes(p, q)
  BY <1>1, <1>5, OnlyDirsHaveChildren DEF Removes, FileRemove
<1>6. NoChange \/ \E q \in Path : Makes(p, q) \/ Removes(p, q)
  <2>1. CASE MakeFirst(p) \/ MakeLast(p)
    BY <1>2, <1>3, <2>1 DEF MakeFirst, MakeLast, InStep
  <2>2. CASE Rmdir(p) \/ RmdirLast(p)
    BY <1>2, <1>4, <2>2 DEF Rmdir, RmdirLast, InStep
  <2>3. CASE RemoveEach(p)
    <3>1. \A c \in f.todo : c.path \in Path
      BY <1>2 DEF Frames
    <3> QED BY <1>5, <2>3, <3>1 DEF RemoveEach
  <2>4. CASE OpenDatabase(p)
    <3>1. Clean(f.path) \in Path /\ Clean(Clean(f.path)) = Clean(f.path)
      BY <1>2, <2>4, CleanPath DEF OpenDatabase, InStep
    <3>2. NoChange \/ (MkdirError(Clean(f.path)) = "0" /\ SetNode(p, Clean(f.path), "dir", "made"))
      BY <2>4 DEF OpenDatabase
    <3> QED BY <1>3, <3>1, <3>2
  <2> QED
    BY <2>1, <2>2, <2>3, <2>4 DEF FilesStep, MakeStart, MakeParent, MakeAgain, MakeExists,
      RemoveStart, RemoveChild, SizeStart, SizeFile, SizeEach, SizeChild, List, OpenStart, OpenDefault
<1>7. StepsOnly(p)
  <2>1. stack \in [Proc -> Seq(Frames)] /\ answer \in [Proc -> AnswerValue]
    BY DEF FilesSound, FilesTypes
  <2>2. ASSUME NEW t, stack' = [stack EXCEPT ![p] = t], UNCHANGED <<answer, call>> PROVE StepsOnly(p)
    BY <2>1, <2>2 DEF StepsOnly
  <2>3. \A v : Answers(p, v) => StepsOnly(p)
    BY <2>1 DEF Answers, StepsOnly
  <2>4. \A ok, size : /\ Return(p, ok) => StepsOnly(p)
                      /\ ReturnSize(p, size) => StepsOnly(p)
    BY <2>3 DEF Return, ReturnSize
  <2>5. \A place, g : /\ GoTo(p, place) => StepsOnly(p)
                      /\ Enter(p, g, place) => StepsOnly(p)
    BY <2>2 DEF GoTo, Enter, Changed
  <2>6. CASE RemoveEach(p)
    BY <2>2, <2>4, <2>5, <2>6 DEF RemoveEach, Changed
  <2>7. CASE SizeEach(p) \/ SizeChild(p) \/ List(p) \/ OpenDefault(p)
    BY <2>2, <2>4, <2>5, <2>7 DEF SizeEach, SizeChild, List, OpenDefault, Changed
  <2>8. CASE MakeStart(p) \/ MakeFirst(p) \/ MakeParent(p) \/ MakeAgain(p) \/ MakeLast(p) \/ MakeExists(p)
    BY <2>4, <2>5, <2>8 DEF MakeStart, MakeFirst, MakeParent, MakeAgain, MakeLast, MakeExists
  <2>9. CASE RemoveStart(p) \/ Rmdir(p) \/ RemoveChild(p) \/ RmdirLast(p)
    BY <2>4, <2>5, <2>9 DEF RemoveStart, Rmdir, RemoveChild, RmdirLast
  <2>10. CASE SizeStart(p) \/ SizeFile(p) \/ OpenStart(p) \/ OpenDatabase(p)
    BY <2>4, <2>5, <2>10 DEF SizeStart, SizeFile, OpenStart, OpenDatabase
  <2> QED BY <2>6, <2>7, <2>8, <2>9, <2>10 DEF FilesStep
<1> QED BY <1>6, <1>7

-----------------------------------------------------------------------------
(* Each helper does what it says when no other disturbs it.                  *)

\* What the innermost call knows.
LEMMA OwnFacts ==
  ASSUME FilesAssumption, FilesSound, AloneSound, NEW p \in Proc, Alone(p), stack[p] # <<>>
  PROVE  /\ node \in Trees /\ IsTree(node) /\ Top(p) \in Frames
         /\ stack[p] \in Seq(Frames) /\ call[p] \in Calls /\ answer[p] \in AnswerValue
         /\ Top(p).op # "open" => Top(p).path \in Given /\ Clean(Top(p).path) \in Path
         /\ Chain(node, stack[p], call[p]) /\ Last(stack[p]) = Top(p)
         /\ NoChange => node' = node /\ node' \in Trees /\ Chain(node', stack[p], call[p])
<1>1. Top(p) \in Frames
  BY TopTypes
<1>2. Top(p).op # "open" => Top(p).path \in Given /\ Clean(Top(p).path) \in Path
  BY <1>1, FramePath
<1>3. Chain(node, stack[p], call[p])
  BY TopOf
<1> QED BY <1>1, <1>2, <1>3 DEF FilesSound, FilesTypes, Trees, AloneSound, Top, NoChange

LEMMA MakeExact ==
  ASSUME FilesAssumption, FilesSound, AloneSound, NEW p \in Proc, Alone(p),
         \/ MakeStart(p) \/ MakeFirst(p) \/ MakeParent(p)
         \/ MakeAgain(p) \/ MakeLast(p) \/ MakeExists(p)
  PROVE  Exact(p)'
<1> DEFINE f == Top(p)
           path == Top(p).path
           q == Clean(path)
<1>1. stack[p] # <<>> /\ f.op = "make"
  BY DEF MakeStart, MakeFirst, MakeParent, MakeAgain, MakeLast, MakeExists, InStep
<1>2. /\ node \in Trees /\ IsTree(node) /\ f \in Frames /\ stack[p] \in Seq(Frames)
      /\ call[p] \in Calls /\ path \in Given /\ q \in Path
      /\ Chain(node, stack[p], call[p])
      /\ NoChange => node' = node /\ node' \in Trees /\ Chain(node', stack[p], call[p])
  BY <1>1, OwnFacts
<1>3. /\ Stands(node, f) \/ Answered(node, f, answer[p])
      /\ call[p].op \in {"make", "open"}
  BY <1>1, TopOf
<1>4. f.at # "parent" => MakeStands(node, f)
  BY <1>1, <1>3 DEF Stands, RemoveStands, SizeStands, OpenStands, Answered, Waits, MakeWaits,
    RemoveWaits, SizeWaits, OpenWaits
<1>5. ASSUME node' \in Trees, Chain(node', stack[p], call[p]), NoFileTo(node', q), node'[q] = "dir",
             Return(p, TRUE)
      PROVE  Exact(p)'
  <2>1. Answers(p, Yes(TRUE)) /\ Yes(TRUE).ok = TRUE
    BY <1>5 DEF Return, Yes
  <2>2. Done(node', "make", path, Yes(TRUE))
    BY <1>5, <2>1 DEF Done, MakeDone
  <2> QED BY <1>1, <1>5, <2>1, <2>2, OwnReturns
<1>6. ASSUME NoChange, ~NoFileTo(node, q), node[q] # "dir", Return(p, FALSE) PROVE Exact(p)'
  <2>1. Answers(p, Yes(FALSE)) /\ Yes(FALSE).ok = FALSE
    BY <1>6 DEF Return, Yes
  <2>2. Done(node', "make", path, Yes(FALSE))
    <3>1. NoFileTo(node', q) = FALSE /\ (node'[q] = "dir") = FALSE
      BY <1>2, <1>6 DEF NoFileTo
    <3> QED BY <2>1, <3>1 DEF Done, MakeDone
  <2> QED BY <1>1, <1>2, <1>6, <2>1, <2>2, OwnReturns
<1>7. ASSUME NEW place \in {"mkdir", "exists", "again", "last"}, NoChange, GoTo(p, place),
             place = "mkdir" => node[q] # "dir",
             place = "exists" => node[q] = "file",
             place \in {"again", "last"} => /\ NoFileTo(node, q) /\ Len(path) > 1
                                            /\ node[Clean(Front(path))] = "dir",
             place = "last" => node[q] # "dir"
      PROVE  Exact(p)'
  <2>1. place \in Places \ {"home"}
    BY <1>7 DEF Places
  <2>2. \A h : Placed(f, h, place) => Stands(node', h)
    BY <1>1, <1>2, <1>7 DEF Placed, Stands, MakeStands
  <2> QED BY <1>1, <1>2, <1>7, <2>1, <2>2, OwnGoes
<1>8. ASSUME MkdirError(path) = "0", SetNode(p, q, "dir", "made"), Return(p, TRUE) PROVE Exact(p)'
  <2>1. Makes(p, q)
    BY <1>2, <1>8, MkdirIs DEF Makes
  <2>2. node' \in Trees /\ node'[q] = "dir" /\ NoFileTo(node', q) /\ Chain(node', stack[p], call[p])
    BY <1>1, <1>2, <1>3, <2>1, MakesTree
  <2> QED BY <1>5, <1>8, <2>2
<1>9. ASSUME NoChange, node[q] = "dir", Return(p, TRUE) PROVE Exact(p)'
  <2>1. NoFileTo(node, q)
    BY <1>2, <1>9, DirHasNoFile
  <2> QED BY <1>2, <1>5, <1>9, <2>1
<1>10. CASE MakeStart(p)
  BY <1>7, <1>9, <1>10 DEF MakeStart, DirExists
<1>11. CASE MakeFirst(p)
  <2>1. f.at = "mkdir" /\ node[q] # "dir"
    BY <1>4, <1>11 DEF MakeFirst, InStep, MakeStands
  <2>2. CASE MkdirError(path) = "0" /\ SetNode(p, q, "dir", "made") /\ Return(p, TRUE)
    BY <1>8, <2>2
  <2>3. CASE MkdirError(path) = "EEXIST" /\ GoTo(p, "exists") /\ NoChange
    <3>1. node[q] = "file"
      BY <1>2, <2>1, <2>3, MkdirIs DEF Trees, Kinds
    <3> QED BY <1>7, <2>3, <3>1
  <2>4. CASE MkdirError(path) = "ENOENT" /\ Len(path) > 1 /\ Enter(p, Frame("make", Front(path)), "parent")
               /\ NoChange
    <3> DEFINE h == [f EXCEPT !.at = "parent"]
               g == Frame("make", Front(path))
    <3>1. g \in Frames /\ g.op = "make" /\ g.path = Front(path) /\ g.at = "start"
      <4>1. Front(path) \in Given /\ Front(path) # <<>> /\ "make" \in Ops
        BY <1>2, <2>4, GivenPaths DEF Given, FilesAssumption, Ops
      <4>2. g.op = "make" /\ g.path = Front(path) /\ g.at = "start"
        BY DEF Frame
      <4> QED BY <4>1, <4>2, NewFrames
    <3>2. h \in Frames /\ h.op = "make" /\ h.path = path /\ h.at = "parent"
      BY <1>1, <1>2 DEF Frames, Places
    <3>3. stack' = [stack EXCEPT ![p] = Front(@) \o <<h, g>>] /\ UNCHANGED <<answer, call>>
      BY <2>4 DEF Enter
    <3> HIDE DEF g, h
    <3>4. NoFileTo(node, q)
      BY <1>2, <2>4, MkdirIs
    <3>5. Waits(node', h, g.op, g.path)
      BY <1>2, <2>4, <3>1, <3>2, <3>4 DEF Waits, MakeWaits
    <3>6. Stands(node', g)
      BY <3>1 DEF Stands, MakeStands
    <3> QED BY <1>1, <1>2, <2>4, <3>1, <3>2, <3>3, <3>5, <3>6, OwnEnters
  <2>5. CASE MkdirError(path) = "ENOTDIR" /\ Return(p, FALSE) /\ NoChange
    <3>1. node[q] # "dir" /\ ~NoFileTo(node, q)
      BY <1>2, <2>5, MkdirIs
    <3> QED BY <1>6, <2>5, <3>1
  <2> QED BY <1>11, <2>2, <2>3, <2>4, <2>5 DEF MakeFirst
<1>12. CASE MakeParent(p)
  <2>1. f.at = "parent" /\ NoChange
    BY <1>12 DEF MakeParent, InStep
  <2>2. PICK op \in Ops, above \in Given : Waits(node, f, op, above) /\ Done(node, op, above, answer[p])
    BY <1>1, <1>3, <2>1 DEF Stands, MakeStands, RemoveStands, SizeStands, OpenStands, Answered
  <2>3. /\ Len(path) > 1 /\ NoFileTo(node, q) /\ op = "make" /\ above = Front(path)
        /\ MakeDone(node, Front(path), answer[p])
    BY <1>1, <2>2 DEF Waits, MakeWaits, RemoveWaits, SizeWaits, OpenWaits, Done
  <2>4. NoFileTo(node, Clean(Front(path)))
    <3>1. Clean(Front(path)) \in Path /\ Starts(Clean(Front(path)), q)
      <4>1. CASE q = Front(path)
        BY <1>2, <4>1, CleanPath, StartsOrder
      <4>2. CASE q = path
        <5>1. Front(path) \in Path /\ IsChild(path, Front(path))
          BY <1>2, <2>3, <4>2, FrontIsAbove
        <5> QED BY <4>2, <5>1, CleanPath DEF IsChild
      <4> QED BY <4>1, <4>2 DEF Clean
    <3>2. \A r \in Path : Starts(r, q) => node[r] # "file"
      BY <1>2, <2>3, NoFileIs
    <3>3. \A r \in Path : Starts(r, Clean(Front(path))) => Starts(r, q)
      <4> DEFINE a == Clean(Front(path))
      <4>1. a \in Path /\ Starts(a, q) /\ q \in Path
        BY <1>2, <3>1
      <4> HIDE DEF a, q
      <4> QED BY <4>1, StartsOrder DEF a
    <3> QED BY <1>2, <3>1, <3>2, <3>3, NoFileIs
  <2>5. answer[p].ok /\ node[Clean(Front(path))] = "dir"
    BY <2>3, <2>4 DEF MakeDone
  <2>6. GoTo(p, "again")
    BY <1>12, <2>5 DEF MakeParent
  <2> QED BY <1>7, <2>1, <2>3, <2>5, <2>6
<1>13. CASE MakeAgain(p)
  <2>1. /\ f.at = "again" /\ NoChange /\ NoFileTo(node, q) /\ Len(path) > 1
        /\ node[Clean(Front(path))] = "dir"
    BY <1>4, <1>13 DEF MakeAgain, InStep, MakeStands
  <2> QED BY <1>7, <1>9, <1>13, <2>1 DEF MakeAgain, DirExists
<1>14. CASE MakeLast(p)
  <2>1. /\ f.at = "last" /\ NoFileTo(node, q) /\ Len(path) > 1
        /\ node[Clean(Front(path))] = "dir" /\ node[q] # "dir"
    BY <1>4, <1>14 DEF MakeLast, InStep, MakeStands
  <2>2. MkdirError(path) = "0"
    <3>1. q = path
      <4>1. q = Front(path) => Clean(Front(path)) = q
        BY <1>2, CleanPath
      <4> QED BY <2>1, <4>1 DEF Clean
    <3>2. Front(path) \in Path /\ IsChild(path, Front(path)) /\ Clean(Front(path)) = Front(path)
      BY <1>2, <2>1, <3>1, FrontIsAbove, CleanPath
    <3>3. ASSUME NEW r \in Above(q) PROVE node[r] = "dir"
      <4> DEFINE a == Front(path)
      <4>1. r \in Path /\ Starts(r, q) /\ Len(r) < Len(q)
        BY <1>2, StartsIs DEF FilesAssumption
      <4>2. a \in Path /\ Starts(a, q) /\ Len(q) = Len(a) + 1 /\ node[a] = "dir" /\ q \in Path
        BY <1>2, <2>1, <3>1, <3>2 DEF IsChild
      <4>3. Len(r) \in Nat /\ Len(a) \in Nat
        BY <4>1, <4>2, PathTypes
      <4> HIDE DEF a, q
      <4>4. Starts(r, a)
        BY <4>1, <4>2, <4>3, StartsOrder
      <4> QED BY <1>2, <4>1, <4>2, <4>4, TreeAbove
    <3>4. node[q] = "none"
      BY <1>2, <2>1 DEF NoFileTo, Trees, Kinds
    <3> QED BY <1>2, <3>3, <3>4, MkdirIs
  <2> QED BY <1>8, <1>14, <2>2 DEF MakeLast
<1>15. CASE MakeExists(p)
  <2>1. NoChange /\ node[q] = "file" /\ Return(p, FALSE)
    <3>1. NoChange /\ node[q] = "file"
      BY <1>4, <1>15 DEF MakeExists, InStep, MakeStands
    <3>2. ~DirExists(path) /\ Return(p, DirExists(path))
      BY <1>15, <3>1 DEF MakeExists, DirExists
    <3> QED BY <3>1, <3>2 DEF Return, Yes, DirExists
  <2>2. ~NoFileTo(node, q)
    BY <2>1 DEF NoFileTo
  <2> QED BY <1>6, <2>1, <2>2
<1> QED BY <1>10, <1>11, <1>12, <1>13, <1>14, <1>15

LEMMA RemoveExact ==
  ASSUME FilesAssumption, FilesSound, AloneSound, NEW p \in Proc, Alone(p),
         RemoveStart(p) \/ Rmdir(p) \/ RemoveEach(p) \/ RemoveChild(p) \/ RmdirLast(p)
  PROVE  Exact(p)'
<1> DEFINE f == Top(p)
           path == Top(p).path
           q == Clean(path)
<1>1. stack[p] # <<>> /\ f.op = "remove"
  BY DEF RemoveStart, Rmdir, RemoveEach, RemoveChild, RmdirLast, InStep
<1>2. /\ node \in Trees /\ IsTree(node) /\ f \in Frames /\ stack[p] \in Seq(Frames)
      /\ call[p] \in Calls /\ path \in Given /\ q \in Path
      /\ Chain(node, stack[p], call[p]) /\ Last(stack[p]) = f
      /\ NoChange => node' = node /\ node' \in Trees /\ Chain(node', stack[p], call[p])
  BY <1>1, OwnFacts
<1>3. /\ Stands(node, f) \/ Answered(node, f, answer[p])
      /\ call[p].op = "remove"
  BY <1>1, TopOf
<1>4. f.at # "child" => RemoveStands(node, f)
  BY <1>1, <1>3 DEF Stands, MakeStands, SizeStands, OpenStands, Answered, Waits, MakeWaits,
    RemoveWaits, SizeWaits, OpenWaits
<1>5. ASSUME node' \in Trees, Chain(node', stack[p], call[p]), node'[q] # "dir", Return(p, TRUE)
      PROVE  Exact(p)'
  <2>1. Answers(p, Yes(TRUE)) /\ Yes(TRUE).ok = TRUE
    BY <1>5 DEF Return, Yes
  <2>2. Done(node', "remove", path, Yes(TRUE))
    BY <1>5, <2>1 DEF Done, RemoveDone
  <2> QED BY <1>1, <1>5, <2>1, <2>2, OwnReturns
<1>6. ASSUME NEW place \in {"rmdir", "list", "each", "last", "final"}, NoChange, GoTo(p, place),
             \A h : Placed(f, h, place) => RemoveStands(node, h)
      PROVE  Exact(p)'
  <2>1. place \in Places \ {"home"}
    BY <1>6 DEF Places
  <2>2. \A h : Placed(f, h, place) => Stands(node', h)
    BY <1>2, <1>6 DEF Stands
  <2> QED BY <1>1, <1>2, <1>6, <2>1, <2>2, OwnGoes
<1>7. ASSUME NEW h, h.path = path, h.todo = f.todo PROVE Listed(node, h, {}) <=> Listed(node, f, {})
  BY <1>7 DEF Listed, Pending, TodoPaths
<1>8. ASSUME CanRmdir(path), SetNode(p, q, "none", "removed"), Return(p, TRUE) PROVE Exact(p)'
  <2>1. Removes(p, q)
    BY <1>2, <1>8, BelowIs DEF Removes, CanRmdir
  <2>2. Starts(q, q)
    BY <1>2, StartsOrder
  <2>3. node' \in Trees /\ node'[q] = "none" /\ Chain(node', stack[p], call[p])
    BY <1>1, <1>2, <1>3, <2>1, <2>2, RemovesTree
  <2> QED BY <1>5, <1>8, <2>3
<1>9. CASE RemoveStart(p)
  <2>1. NoChange
    BY <1>9 DEF RemoveStart
  <2>2. CASE ~DirExists(path)
    <3>1. Return(p, TRUE) /\ node'[q] # "dir"
      BY <1>2, <1>9, <2>1, <2>2 DEF RemoveStart, DirExists
    <3> QED BY <1>2, <1>5, <2>1, <3>1
  <2>3. CASE DirExists(path) /\ f.at = "start"
    <3>1. GoTo(p, "rmdir")
      BY <1>9, <2>3 DEF RemoveStart, InStep
    <3>2. \A h : Placed(f, h, "rmdir") => RemoveStands(node, h)
      BY <1>1, <2>3 DEF Placed, RemoveStands, DirExists
    <3> QED BY <1>6, <2>1, <3>1, <3>2
  <2>4. CASE DirExists(path) /\ f.at = "last"
    <3>1. GoTo(p, "final")
      BY <1>9, <2>4 DEF RemoveStart, InStep
    <3>2. Listed(node, f, {}) /\ f.todo = {}
      BY <1>4, <2>4 DEF RemoveStands
    <3>3. \A h : Placed(f, h, "final") => RemoveStands(node, h)
      BY <1>1, <1>7, <3>2 DEF Placed, RemoveStands
    <3> QED BY <1>6, <2>1, <3>1, <3>3
  <2> QED BY <1>9, <2>2, <2>3, <2>4 DEF RemoveStart, InStep
<1>10. CASE Rmdir(p)
  <2>1. f.at = "rmdir" /\ node[q] = "dir"
    BY <1>4, <1>10 DEF Rmdir, InStep, RemoveStands
  <2>2. CASE GoTo(p, "list") /\ NoChange
    <3>1. \A h : Placed(f, h, "list") => RemoveStands(node, h)
      BY <1>1, <2>1 DEF Placed, RemoveStands
    <3> QED BY <1>6, <2>2, <3>1
  <2> QED BY <1>8, <1>10, <2>2 DEF Rmdir
<1>11. CASE RemoveEach(p)
  <2>1. f.at = "each" /\ Listed(node, f, {}) /\ Pending(node, f, {})
    BY <1>4, <1>11 DEF RemoveEach, InStep, RemoveStands, Listed
  <2>2. CASE f.todo = {} /\ GoTo(p, "last") /\ NoChange
    <3>1. \A h : Placed(f, h, "last") => RemoveStands(node, h)
      BY <1>1, <1>7, <2>1, <2>2 DEF Placed, RemoveStands
    <3> QED BY <1>6, <2>2, <3>1
  <2>3. ASSUME NEW c \in f.todo, c.kind = "dir", NoChange, UNCHANGED <<answer, call>>,
               stack' = [stack EXCEPT ![p] =
                 Front(@) \o <<[[f EXCEPT !.todo = @ \ {c}] EXCEPT !.at = "child"],
                               Frame("remove", c.path)>>]
        PROVE  Exact(p)'
    <3> DEFINE h == [[f EXCEPT !.todo = @ \ {c}] EXCEPT !.at = "child"]
               g == Frame("remove", c.path)
    <3>1. h \in Frames /\ h.op = "remove" /\ h.path = path /\ h.at = "child" /\ h.todo = f.todo \ {c}
      BY <1>1, <1>2 DEF Frames, Places
    <3> HIDE DEF h
    <3>2. c.path \in ChildrenIn(node, q) /\ c.kind = node[c.path] /\ Listed(node, h, {c.path})
      <4>1. c.path \in ChildrenIn(node, q) /\ c.kind = node[c.path]
        BY <2>1 DEF Pending
      <4>2. Listed(node, h, {c.path})
        BY <1>2, <2>1, <3>1, LoopTakes
      <4> QED BY <4>1, <4>2
    <3>3. g \in Frames /\ g.op = "remove" /\ g.path = c.path /\ g.at = "start"
      <4>1. c.path \in Given /\ c.path # <<>> /\ "remove" \in Ops
        BY <3>2 DEF ChildrenIn, Given, FilesAssumption, Ops
      <4>2. g.op = "remove" /\ g.path = c.path /\ g.at = "start"
        BY DEF Frame
      <4> QED BY <4>1, <4>2, NewFrames
    <3> HIDE DEF g
    <3>4. Waits(node', h, g.op, g.path)
      BY <1>2, <2>3, <3>1, <3>2, <3>3 DEF Waits, RemoveWaits, ChildrenIn
    <3>5. Stands(node', g)
      BY <3>3 DEF Stands, RemoveStands
    <3> QED BY <1>1, <1>2, <2>3, <3>1, <3>3, <3>4, <3>5, OwnEnters DEF g, h
  <2>4. ASSUME NEW c \in f.todo, FileRemove(p, c.path), UNCHANGED <<answer, call>>,
               stack' = Changed(p, [f EXCEPT !.todo = @ \ {c}])
        PROVE  Exact(p)'
    <3> DEFINE h == [f EXCEPT !.todo = @ \ {c}]
               x == c.path
    <3>1. h \in Frames /\ h.op = "remove" /\ h.path = path /\ h.at = "each" /\ h.todo = f.todo \ {c}
      BY <1>1, <1>2, <2>1 DEF Frames
    <3>2. x \in ChildrenIn(node, q) /\ Listed(node, h, {x})
      BY <1>2, <2>1, <3>1, LoopTakes
    <3>3. x \in Path /\ IsChild(x, q) /\ Starts(q, x) /\ Starts(x, x)
      BY <3>2, StartsOrder DEF ChildrenIn, IsChild
    <3>4. Removes(p, x)
      BY <1>2, <2>4, <3>3, OnlyDirsHaveChildren DEF Removes, FileRemove
    <3>5. /\ node' \in Trees /\ node'[x] = "none" /\ node' = [node EXCEPT ![x] = "none"]
          /\ Chain(node', stack[p], call[p])
      BY <1>1, <1>2, <1>3, <3>3, <3>4, RemovesTree
    <3> HIDE DEF h, x
    <3>6. Listed(node', h, {x})
      BY <1>2, <3>1, <3>2, <3>3, <3>5, ListedKept
    <3>7. Listed(node', h, {})
      BY <3>5, <3>6, LoopGoesOn
    <3>8. Stands(node', h)
      BY <3>1, <3>7 DEF Stands, RemoveStands
    <3> QED BY <1>1, <2>4, <3>1, <3>5, <3>8, OwnChanges DEF h
  <2>5. ASSUME NEW c \in f.todo, c.kind = "file", node[c.path] # "file" PROVE FALSE
    BY <2>1, <2>5 DEF Pending
  <2> QED BY <1>11, <2>2, <2>3, <2>4, <2>5 DEF RemoveEach
<1>12. CASE RemoveChild(p)
  <2>1. f.at = "child" /\ NoChange
    BY <1>12 DEF RemoveChild, InStep
  <2>2. PICK op \in Ops, x \in Given : Waits(node, f, op, x) /\ Done(node, op, x, answer[p])
    BY <1>1, <1>3, <2>1 DEF Stands, MakeStands, RemoveStands, SizeStands, OpenStands, Answered
  <2>3. /\ x \in Path /\ node[x] # "file" /\ Listed(node, f, {x}) /\ op = "remove"
        /\ RemoveDone(node, x, answer[p])
    BY <1>1, <2>2 DEF Waits, MakeWaits, RemoveWaits, SizeWaits, OpenWaits, Done
  <2>4. answer[p].ok /\ node[x] = "none"
    BY <1>2, <2>3, CleanPath DEF RemoveDone, Trees, Kinds
  <2>5. GoTo(p, "each")
    BY <1>12, <2>4 DEF RemoveChild
  <2>6. ASSUME NEW h, Placed(f, h, "each") PROVE RemoveStands(node, h)
    <3>1. Listed(node, h, {})
      BY <1>2, <2>3, <2>4, <2>6, LoopGoesOn DEF Placed
    <3> QED BY <1>1, <2>6, <3>1 DEF Placed, RemoveStands
  <2> QED BY <1>6, <2>1, <2>5, <2>6
<1>13. CASE RmdirLast(p)
  <2>1. Listed(node, f, {}) /\ f.todo = {}
    BY <1>4, <1>13 DEF RmdirLast, InStep, RemoveStands
  <2>2. node[q] = "dir" /\ ChildrenIn(node, q) = {}
    BY <2>1 DEF Listed, Pending, TodoPaths
  <2>3. CanRmdir(path)
    BY <1>2, <2>2, BelowIs DEF CanRmdir, DirExists
  <2> QED BY <1>8, <1>13, <2>3 DEF RmdirLast
<1> QED BY <1>9, <1>10, <1>11, <1>12, <1>13

LEMMA SizeExact ==
  ASSUME FilesAssumption, FilesSound, AloneSound, NEW p \in Proc, Alone(p),
         SizeStart(p) \/ SizeFile(p) \/ SizeEach(p) \/ SizeChild(p)
  PROVE  Exact(p)'
<1> DEFINE f == Top(p)
           path == Top(p).path
           q == Clean(path)
<1>1. stack[p] # <<>> /\ f.op = "size" /\ NoChange
  BY DEF SizeStart, SizeFile, SizeEach, SizeChild, InStep
<1>2. /\ node \in Trees /\ IsTree(node) /\ f \in Frames /\ stack[p] \in Seq(Frames)
      /\ call[p] \in Calls /\ path \in Given /\ q \in Path /\ answer[p] \in AnswerValue
      /\ node' = node /\ node' \in Trees /\ Chain(node', stack[p], call[p])
  BY <1>1, OwnFacts
<1>3. Stands(node, f) \/ Answered(node, f, answer[p])
  BY <1>1, TopOf
<1>4. f.at # "child" => SizeStands(node, f)
  BY <1>1, <1>3 DEF Stands, MakeStands, RemoveStands, OpenStands, Answered, Waits, MakeWaits,
    RemoveWaits, SizeWaits, OpenWaits
<1>5. ASSUME NEW size, ReturnSize(p, size),
             size = SizeAt(node, path)
      PROVE  Exact(p)'
  <2> DEFINE v == [ok |-> FALSE, size |-> size]
  <2>1. Answers(p, v) /\ v.size = size
    BY <1>5 DEF ReturnSize
  <2> HIDE DEF v
  <2>2. Done(node', "size", path, v)
    BY <1>2, <1>5, <2>1 DEF Done, SizeDone
  <2> QED BY <1>1, <1>2, <2>1, <2>2, OwnReturns
<1>6. CASE SizeStart(p)
  <2>1. f.at = "start" /\ f.total = 0
    BY <1>4, <1>6 DEF SizeStart, InStep, SizeStands
  <2>2. ASSUME NEW place \in {"list", "file"}, GoTo(p, place), place = "list" <=> node[q] = "dir"
        PROVE  Exact(p)'
    <3>1. place \in Places \ {"home"}
      BY <2>2 DEF Places
    <3>2. \A h : Placed(f, h, place) => Stands(node', h)
      BY <1>1, <1>2, <2>1, <2>2 DEF Placed, Stands, SizeStands
    <3> QED BY <1>1, <1>2, <2>2, <3>1, <3>2, OwnGoes
  <2> QED BY <1>6, <2>2 DEF SizeStart, DirExists
<1>7. CASE SizeFile(p)
  <2>1. node[q] # "dir" /\ ReturnSize(p, FileSize(path))
    BY <1>4, <1>7 DEF SizeFile, InStep, SizeStands
  <2>2. FileSize(path) = SizeAt(node, path)
    <3>1. SizeOf(node, q) = IF node[q] = "file" THEN Bytes[q] ELSE 0
      BY <1>2, <2>1, SizeOfFile
    <3> QED BY <2>1, <3>1 DEF FileSize, SizeAt
  <2> QED BY <1>5, <2>1, <2>2
<1>8. CASE SizeEach(p)
  <2>1. f.at = "each" /\ Pending(node, f, {}) /\ Counted(node, f, {}) /\ node[q] = "dir"
    BY <1>4, <1>8 DEF SizeEach, InStep, SizeStands, Pending
  <2>2. CASE f.todo = {} /\ ReturnSize(p, f.total)
    <3>1. TodoPaths(f) \cup {} = {}
      BY <2>2 DEF TodoPaths
    <3>2. FilesUnder(node, {q}) \ FilesUnder(node, {}) = FilesUnder(node, {q})
      BY DEF FilesUnder
    <3>3. f.total = SizeOf(node, q)
      BY <2>1, <3>1, <3>2 DEF Counted, SizeOf
    <3>4. f.total = SizeAt(node, path)
      BY <2>1, <3>3 DEF SizeAt
    <3> QED BY <1>5, <2>2, <3>4
  <2>3. ASSUME NEW c \in f.todo, UNCHANGED <<answer, call>>,
               stack' = [stack EXCEPT ![p] =
                 Front(@) \o <<[f EXCEPT !.todo = @ \ {c}, !.at = "child"], Frame("size", c.path)>>]
        PROVE  Exact(p)'
    <3> DEFINE h == [f EXCEPT !.todo = @ \ {c}, !.at = "child"]
               g == Frame("size", c.path)
    <3>1. /\ h \in Frames /\ h.op = "size" /\ h.path = path /\ h.at = "child"
          /\ h.todo = f.todo \ {c} /\ h.total = f.total
      BY <1>1, <1>2 DEF Frames, Places
    <3> HIDE DEF h
    <3>2. /\ c.path \in ChildrenIn(node, q) /\ Pending(node, h, {c.path})
          /\ TodoPaths(h) \cup {c.path} = TodoPaths(f)
      <4>1. c.path \in ChildrenIn(node, q)
        BY <2>1 DEF Pending
      <4>2. Pending(node, h, {c.path})
        BY <1>2, <2>1, <3>1, LoopTakes
      <4>3. TodoPaths(h) \cup {c.path} = TodoPaths(f)
        BY <3>1 DEF TodoPaths
      <4> QED BY <4>1, <4>2, <4>3
    <3>3. /\ g \in Frames /\ g.op = "size" /\ g.path = c.path /\ g.at = "start" /\ g.total = 0
      <4>1. c.path \in Given /\ c.path # <<>> /\ "size" \in Ops
        BY <3>2 DEF ChildrenIn, Given, FilesAssumption, Ops
      <4>2. g.op = "size" /\ g.path = c.path /\ g.at = "start" /\ g.total = 0
        BY DEF Frame
      <4> QED BY <4>1, <4>2, NewFrames
    <3> HIDE DEF g
    <3>4. Counted(node, h, {c.path})
      BY <2>1, <3>1, <3>2 DEF Counted
    <3>5. Waits(node', h, g.op, g.path)
      BY <1>2, <3>1, <3>2, <3>3, <3>4 DEF Waits, SizeWaits
    <3>6. Stands(node', g)
      BY <3>3 DEF Stands, SizeStands
    <3> QED BY <1>1, <1>2, <2>3, <3>1, <3>3, <3>5, <3>6, OwnEnters DEF g, h
  <2> QED BY <1>8, <2>2, <2>3 DEF SizeEach
<1>9. CASE SizeChild(p)
  <2>1. f.at = "child"
    BY <1>9 DEF SizeChild, InStep
  <2>2. PICK op \in Ops, x \in Given : Waits(node, f, op, x) /\ Done(node, op, x, answer[p])
    BY <1>1, <1>3, <2>1 DEF Stands, MakeStands, RemoveStands, SizeStands, OpenStands, Answered
  <2>3. /\ x \in ChildrenIn(node, q) /\ Pending(node, f, {x}) /\ Counted(node, f, {x})
        /\ SizeDone(node, x, answer[p])
    BY <1>1, <2>2 DEF Waits, MakeWaits, RemoveWaits, SizeWaits, OpenWaits, Done
  <2>4. answer[p].size = SizeOf(node, x) /\ answer[p].size \in Nat
    <3>1. x \in Path /\ node[x] \in {"file", "dir"} /\ Clean(x) = x
      BY <1>2, <2>3, CleanPath DEF ChildrenIn, Trees, Kinds
    <3>2. FilesUnder(node, {x}) \in SUBSET Path
      BY DEF FilesUnder
    <3>3. SizeOf(node, x) \in Nat
      BY <3>2, FilesFinite DEF SizeOf
    <3> QED BY <2>3, <3>1, <3>3 DEF SizeDone, SizeAt
  <2> DEFINE h == [f EXCEPT !.at = "each",
                     !.total = IF answer[p].size = NotThere THEN @ ELSE @ + answer[p].size]
             total == f.total + answer[p].size
  <2>5. h = [f EXCEPT !.at = "each", !.total = total] /\ total \in Int
    <3>1. answer[p].size # NotThere
      BY <2>4 DEF NotThere
    <3> QED BY <1>2, <2>4, <3>1 DEF Frames
  <2>6. stack' = Changed(p, h) /\ UNCHANGED <<answer, call>>
    BY <1>9 DEF SizeChild
  <2> HIDE DEF h, total
  <2>7. /\ h \in Frames /\ h.op = "size" /\ h.path = path /\ h.at = "each"
        /\ h.todo = f.todo /\ h.total = total
    BY <1>1, <1>2, <2>5 DEF Frames, Places
  <2>8. Pending(node, h, {})
    BY <1>2, <2>3, <2>7, LoopGoesOn
  <2>9. Counted(node, h, {})
    BY <1>2, <2>3, <2>4, <2>7, LoopAdds DEF total
  <2>10. Stands(node', h)
    BY <1>2, <2>7, <2>8, <2>9 DEF Stands, SizeStands
  <2> QED BY <1>1, <1>2, <2>6, <2>7, <2>10, OwnChanges
<1> QED BY <1>6, <1>7, <1>8, <1>9

\* The list has all children, and the total is of no file yet.
LEMMA ListExact ==
  ASSUME FilesAssumption, FilesSound, AloneSound, NEW p \in Proc, Alone(p), List(p)
  PROVE  Exact(p)'
<1> DEFINE f == Top(p)
           path == Top(p).path
           q == Clean(path)
           h == [f EXCEPT !.at = "each", !.todo = Children(path)]
<1>1. /\ stack[p] # <<>> /\ f.op \in {"remove", "size"} /\ f.at = "list" /\ NoChange
      /\ stack' = Changed(p, h) /\ UNCHANGED <<answer, call>>
  BY DEF List, InStep
<1>2. /\ node \in Trees /\ IsTree(node) /\ f \in Frames /\ q \in Path
      /\ node' = node /\ node' \in Trees /\ Chain(node', stack[p], call[p])
  BY <1>1, OwnFacts
<1>3. node[q] = "dir" /\ (f.op = "size" => f.total = 0)
  <2>1. Stands(node, f) \/ Answered(node, f, answer[p])
    BY <1>1, TopOf
  <2> QED BY <1>1, <2>1 DEF Stands, MakeStands, RemoveStands, SizeStands, OpenStands, Answered, Waits,
    MakeWaits, RemoveWaits, SizeWaits, OpenWaits
<1>4. Children(path) = {[path |-> r, kind |-> node[r]] : r \in ChildrenIn(node, q)}
  BY <1>2, BelowIs DEF Children
<1>5. Children(path) \in SUBSET [path : Path, kind : Kinds]
  BY <1>2, <1>4 DEF ChildrenIn, Trees
<1>6. /\ h \in Frames /\ h.op = f.op /\ h.path = path /\ h.at = "each" /\ h.todo = Children(path)
      /\ h.total = f.total
  <2> DEFINE all == Children(path)
  <2>1. all \in SUBSET [path : Path, kind : Kinds] /\ h = [f EXCEPT !.at = "each", !.todo = all]
    BY <1>5
  <2> HIDE DEF all, h
  <2>2. h \in Frames
    <3>1. f.path # <<>>
      BY <1>1, <1>2 DEF Frames
    <3>2. "each" \in Places
      BY DEF Places
    <3> QED BY <1>2, <2>1, <3>1, <3>2 DEF Frames
  <2>3. h.op = f.op /\ h.path = path /\ h.at = "each" /\ h.todo = all /\ h.total = f.total
    BY <1>2, <2>1 DEF Frames
  <2> QED BY <2>2, <2>3 DEF all
<1> HIDE DEF h
<1>7. TodoPaths(h) = ChildrenIn(node, q)
  <2>1. \A c \in h.todo : c.path \in ChildrenIn(node, q)
    BY <1>4, <1>6
  <2>2. \A r \in ChildrenIn(node, q) : \E c \in h.todo : c.path = r
    <3> SUFFICES ASSUME NEW r \in ChildrenIn(node, q) PROVE \E c \in h.todo : c.path = r
      OBVIOUS
    <3>1. [path |-> r, kind |-> node[r]] \in h.todo
      BY <1>4, <1>6
    <3> QED BY <3>1
  <2> QED BY <2>1, <2>2 DEF TodoPaths
<1>8. Listed(node, h, {})
  <2>1. \A c \in h.todo : c.path \in ChildrenIn(node, q) /\ c.kind = node[c.path]
    BY <1>4, <1>6
  <2> QED BY <1>3, <1>6, <1>7, <2>1 DEF Listed, Pending
<1>9. f.op = "size" => Counted(node, h, {})
  <2>1. FilesUnder(node, {q}) \ FilesUnder(node, TodoPaths(h) \cup {}) = {}
    <3>1. TodoPaths(h) \cup {} = ChildrenIn(node, q)
      BY <1>7
    <3> QED BY <1>2, <1>3, <3>1, FilesOfDir
  <2> QED BY <1>3, <1>6, <2>1, SumEmpty DEF Counted
<1>10. Stands(node', h)
  BY <1>1, <1>2, <1>6, <1>8, <1>9 DEF Stands, RemoveStands, SizeStands, Listed
<1> QED BY <1>1, <1>2, <1>6, <1>10, OwnChanges

\* ".appdata/" is ".appdata".
LEMMA HomeIs ==
  ASSUME FilesAssumption
  PROVE  Clean(Append(Home, NoName)) = Home
<1> DEFINE S == Name \cup {NoName}
           q == Append(Home, NoName)
<1>1. Home \in Path /\ Home \in Seq(S) /\ NoName \in S
  <2>1. Home \in Path
    BY DEF FilesAssumption
  <2>2. Home \in Seq(Name)
    BY <2>1, PathTypes
  <2>3. Name \subseteq S /\ NoName \in S
    OBVIOUS
  <2> HIDE DEF S
  <2> QED BY <2>1, <2>2, <2>3, SeqMonotonic
<1> HIDE DEF S
<1>2. /\ q \in Seq(S) /\ Len(q) = Len(Home) + 1 /\ q[Len(q)] = NoName
      /\ \A i \in 1 .. Len(Home) : q[i] = Home[i]
  BY <1>1, AppendProperties
<1>3. Len(Home) \in Nat /\ q # <<>>
  BY <1>1, <1>2, LenProperties
<1> HIDE DEF q
<1>4. /\ Front(q) \in Seq(S) /\ Len(Front(q)) = Len(q) - 1
      /\ \A i \in 1 .. Len(q) - 1 : Front(q)[i] = q[i]
      /\ Last(q) = q[Len(q)]
  BY <1>2, <1>3, FrontLast
<1>5. Front(q) = Home
  BY <1>1, <1>2, <1>3, <1>4, SeqEqual
<1> QED BY <1>2, <1>4, <1>5 DEF Clean, q

LEMMA OpenReturns ==
  ASSUME FilesAssumption, FilesSound, AloneSound, NEW p \in Proc, Alone(p), stack[p] # <<>>,
         Top(p).op = "open", Top(p).at = "db", node' \in Trees, IsTree(node'),
         Chain(node', stack[p], call[p]), NEW v, Answers(p, v),
         v.ok = (node'[Clean(Top(p).path)] = "dir")
  PROVE  Exact(p)'
<1> DEFINE c == call[p]
           path == Top(p).path
<1>1. Len(stack[p]) = 1 /\ c.op = "open" /\ stack[p] \in Seq(Frames) /\ Top(p) = stack[p][1]
  BY TopOf, OwnFacts DEF Last
<1>2. Front(stack[p]) = <<>>
  <2>1. Front(stack[p]) \in Seq(Frames) /\ Len(Front(stack[p])) = Len(stack[p]) - 1
    BY <1>1, FrontLast
  <2> QED BY <1>1, <2>1
<1>3. /\ stack'[p] = <<>> /\ answer'[p] = v /\ UNCHANGED call
  BY <1>2 DEF Answers, FilesSound, FilesTypes
<1>4. Chosen(node', c, Top(p))
  BY <1>1 DEF Chain, Begun
<1>5. OpenDone(node', c, v)
  <2>1. CASE c.path # <<>>
    BY <1>4, <2>1 DEF Chosen, OpenDone
  <2>2. CASE c.path = <<>> /\ path = Append(Home, DbName) /\ node'[Home] = "dir"
    <3>1. Clean(path) = path
      BY <2>2, CleanPath DEF FilesAssumption
    <3> QED BY <2>2, <3>1 DEF OpenDone
  <2>3. CASE c.path = <<>> /\ path = <<DbName>> /\ ~NoFileTo(node', Home)
    <3>1. Clean(path) = path
      BY <2>3, CleanPath DEF FilesAssumption
    <3>2. node'[Home] # "dir"
      BY <2>3, DirHasNoFile DEF FilesAssumption
    <3> QED BY <2>3, <3>1, <3>2 DEF OpenDone
  <2> QED BY <1>4, <2>1, <2>2, <2>3 DEF Chosen
<1> QED BY <1>1, <1>3, <1>5 DEF Exact, DoneCall

LEMMA OpenExact ==
  ASSUME FilesAssumption, FilesSound, AloneSound, NEW p \in Proc, Alone(p),
         OpenStart(p) \/ OpenDefault(p) \/ OpenDatabase(p)
  PROVE  Exact(p)'
<1> DEFINE f == Top(p)
           path == Top(p).path
           c == call[p]
<1>1. stack[p] # <<>> /\ f.op = "open"
  BY DEF OpenStart, OpenDefault, OpenDatabase, InStep
<1>2. /\ node \in Trees /\ IsTree(node) /\ f \in Frames /\ stack[p] \in Seq(Frames)
      /\ c \in Calls /\ answer[p] \in AnswerValue /\ Chain(node, stack[p], c)
      /\ NoChange => node' = node /\ node' \in Trees /\ Chain(node', stack[p], c)
  BY <1>1, OwnFacts
<1>3. /\ Stands(node, f) \/ Answered(node, f, answer[p])
      /\ c.op = "open" /\ Chosen(node, c, f)
  BY <1>1, TopOf
<1>4. CASE OpenStart(p)
  <2>1. f.at = "start" /\ NoChange
    BY <1>4 DEF OpenStart, InStep
  <2>2. c.path = path
    BY <1>3, <2>1 DEF Chosen
  <2>3. CASE path = <<>>
    <3> DEFINE h == [f EXCEPT !.at = "home"]
               g == Frame("make", Append(Home, NoName))
    <3>1. h \in Frames /\ h.op = "open" /\ h.path = <<>> /\ h.at = "home"
      BY <1>1, <1>2, <2>3 DEF Frames, Places
    <3>2. g \in Frames /\ g.op = "make" /\ g.path = Append(Home, NoName) /\ g.at = "start"
      <4>1. Append(Home, NoName) \in Given /\ "make" \in Ops
        BY DEF Given, Ops
      <4>2. g.op = "make" /\ g.path = Append(Home, NoName) /\ g.at = "start"
        BY DEF Frame
      <4> QED BY <4>1, <4>2, GivenPaths, NewFrames
    <3>3. stack' = [stack EXCEPT ![p] = Front(@) \o <<h, g>>] /\ UNCHANGED <<answer, call>>
      BY <1>4, <2>3 DEF OpenStart, Enter
    <3> HIDE DEF h, g
    <3>4. Waits(node', h, g.op, g.path) /\ Stands(node', g)
      BY <3>1, <3>2 DEF Waits, OpenWaits, Stands, MakeStands
    <3>5. Chosen(node', c, h)
      BY <2>2, <2>3, <3>1 DEF Chosen
    <3> QED BY <1>1, <1>2, <2>1, <2>3, <3>1, <3>2, <3>3, <3>4, <3>5, OwnEnters
  <2>4. CASE path # <<>>
    <3> DEFINE h == [f EXCEPT !.at = "db"]
    <3>1. h \in Frames /\ h.op = "open" /\ h.path = path /\ h.at = "db"
      BY <1>1, <1>2, <2>4 DEF Frames, Places
    <3>2. stack' = Changed(p, h) /\ UNCHANGED <<answer, call>>
      BY <1>4, <2>4 DEF OpenStart, GoTo
    <3> HIDE DEF h
    <3>3. Chosen(node', c, h) /\ Stands(node', h)
      BY <2>2, <2>4, <3>1 DEF Chosen, Stands, OpenStands
    <3> QED BY <1>1, <1>2, <2>1, <3>1, <3>2, <3>3, OwnChanges
  <2> QED BY <2>3, <2>4
<1>5. CASE OpenDefault(p)
  <2>1. f.at = "home" /\ NoChange
    BY <1>5 DEF OpenDefault, InStep
  <2>2. c.path = <<>>
    BY <1>3, <2>1 DEF Chosen
  <2>3. PICK op \in Ops, x \in Given : Waits(node, f, op, x) /\ Done(node, op, x, answer[p])
    BY <1>1, <1>3, <2>1 DEF Stands, MakeStands, RemoveStands, SizeStands, OpenStands, Answered
  <2>4. MakeDone(node, Append(Home, NoName), answer[p])
    BY <1>1, <2>3 DEF Waits, MakeWaits, RemoveWaits, SizeWaits, OpenWaits, Done
  <2>5. /\ answer[p].ok => node[Home] = "dir"
        /\ ~answer[p].ok => ~NoFileTo(node, Home)
    BY <2>4, HomeIs DEF MakeDone
  <2> DEFINE to == IF answer[p].ok THEN Append(Home, DbName) ELSE <<DbName>>
             h == [f EXCEPT !.at = "db", !.path = to]
  <2>6. stack' = Changed(p, h) /\ UNCHANGED <<answer, call>>
    BY <1>5 DEF OpenDefault
  <2>7. to \in Given /\ to # <<>>
    <3>1. to \in Path
      BY DEF FilesAssumption
    <3> QED BY <3>1 DEF Given, FilesAssumption
  <2>8. Chosen(node', c, [f EXCEPT !.at = "db", !.path = to])
    <3>1. f.path = <<>>
      BY <1>3, <2>1, <2>2 DEF Chosen
    <3>2. h.at = "db" /\ h.path = to
      BY <1>2 DEF Frames
    <3>3. CASE answer[p].ok
      BY <1>2, <2>1, <2>2, <2>5, <3>2, <3>3 DEF Chosen
    <3>4. CASE ~answer[p].ok
      BY <1>2, <2>1, <2>2, <2>5, <3>2, <3>4 DEF Chosen
    <3> QED BY <3>3, <3>4
  <2> HIDE DEF to
  <2>9. h \in Frames /\ h.op = "open" /\ h.at = "db"
    BY <1>1, <1>2, <2>7 DEF Frames, Places
  <2>10. Chosen(node', c, h)
    BY <2>8
  <2> HIDE DEF h
  <2>11. Stands(node', h)
    BY <2>9 DEF Stands, OpenStands
  <2> QED BY <1>1, <1>2, <2>1, <2>6, <2>9, <2>10, <2>11, OwnChanges
<1>6. CASE OpenDatabase(p)
  <2> DEFINE q == Clean(path)
  <2>1. f.at = "db"
    BY <1>6 DEF OpenDatabase, InStep
  <2>2. q \in Path /\ Clean(q) = q
    BY <1>2, <2>1, FramePath, CleanPath
  <2>3. CASE MkdirError(q) = "0" /\ SetNode(p, q, "dir", "made") /\ Return(p, TRUE)
    <3>1. Makes(p, q)
      BY <1>2, <2>2, <2>3, MkdirIs DEF Makes
    <3>2. /\ node' \in Trees /\ node'[q] = "dir" /\ IsTree(node)' /\ Chain(node', stack[p], c)
      BY <1>1, <1>2, <1>3, <2>2, <3>1, MakesTree
    <3>3. Answers(p, Yes(TRUE)) /\ Yes(TRUE).ok = (node'[q] = "dir") /\ IsTree(node')
      BY <2>3, <3>2 DEF Return, Yes, IsTree
    <3> QED BY <1>1, <2>1, <3>2, <3>3, OpenReturns
  <2>4. CASE Return(p, DirExists(q)) /\ NoChange
    <3>1. Answers(p, Yes(DirExists(q))) /\ Yes(DirExists(q)).ok = (node'[q] = "dir") /\ IsTree(node')
      BY <1>2, <2>2, <2>4 DEF Return, Yes, DirExists, IsTree
    <3> QED BY <1>1, <1>2, <2>1, <2>4, <3>1, OpenReturns
  <2> QED BY <1>6, <2>3, <2>4 DEF OpenDatabase
<1> QED BY <1>4, <1>5, <1>6

-----------------------------------------------------------------------------
(* The theorem. *)

\* A call begins.
LEMMA CallExact ==
  ASSUME FilesAssumption, FilesSound, AloneSound, NEW p \in Proc, NEW op \in Ops,
         NEW path \in Target \cup {<<>>}, path # <<>> \/ op = "open", Call(p, op, path)
  PROVE  AloneSound'
<1> DEFINE f == Frame(op, path)
           c == [op |-> op, path |-> path]
           s == <<f>>
<1>1. /\ f \in Frames /\ f.op = op /\ f.path = path /\ f.at = "start" /\ f.total = 0
      /\ c.op = op /\ c.path = path
  BY NewFrames DEF Given, Frame
<1>2. s # <<>> /\ Len(s) = 1 /\ s[1] = f /\ Last(s) = f
  BY DEF Last
<1>3. /\ call' = [call EXCEPT ![p] = c] /\ stack' = [stack EXCEPT ![p] = s]
      /\ UNCHANGED <<node, answer, others>>
  BY DEF Call
<1> HIDE DEF f, c, s
<1>4. /\ call'[p] = c /\ stack'[p] = s
      /\ \A r \in Proc \ {p} : stack'[r] = stack[r] /\ call'[r] = call[r]
  BY <1>3 DEF FilesSound, FilesTypes
<1>5. Chain(node', s, c)
  <2>1. RightOps(s, c) /\ Linked(node', s)
    BY <1>1, <1>2 DEF RightOps, OpAt, Linked
  <2>2. Nested(s, c)
    BY <1>2 DEF Nested, Starts
  <2>3. Begun(node', s, c)
    BY <1>1, <1>2 DEF Begun, Chosen
  <2> QED BY <2>1, <2>2, <2>3 DEF Chain
<1>6. Stands(node', f)
  BY <1>1 DEF Stands, MakeStands, RemoveStands, SizeStands, OpenStands, Ops
<1>7. Exact(p)'
  BY <1>2, <1>4, <1>5, <1>6 DEF Exact
<1>8. ASSUME NEW r \in Proc \ {p}, Alone(r)' PROVE Exact(r)'
  <2>1. Exact(r)
    BY <1>3, <1>4, <1>8 DEF AloneSound, Alone
  <2> QED BY <1>3, <1>4, <2>1 DEF Exact
<1>9. IsTree(node)'
  BY <1>3 DEF AloneSound, IsTree
<1> QED BY <1>7, <1>8, <1>9 DEF AloneSound

LEMMA AloneStart == ASSUME FilesInit PROVE AloneSound
BY DEF FilesInit, AloneSound, IsTree, Alone

LEMMA AloneStepSound ==
  ASSUME FilesAssumption, FilesSound, AloneSound, [FilesNext]_filesVars
  PROVE  AloneSound'
<1>1. ASSUME NEW p \in Proc, FilesStep(p) PROVE AloneSound'
  <2>1. IsTree(node)
    BY DEF AloneSound
  <2>2. StepsOnly(p) /\ (NoChange \/ \E q \in Path : Makes(p, q) \/ Removes(p, q))
    BY <1>1, <2>1, StepChanges
  <2>3. Moves(p) /\ IsTree(node)'
    <3>1. CASE NoChange
      BY <2>1, <3>1, NothingSet DEF NoChange, IsTree
    <3>2. CASE \E q \in Path : Makes(p, q)
      BY <2>1, <3>2, MakesTree
    <3>3. CASE \E q \in Path : Removes(p, q)
      BY <2>1, <3>3, RemovesTree
    <3> QED BY <2>2, <3>1, <3>2, <3>3
  <2>4. Alone(p) => Exact(p)'
    BY <1>1, MakeExact, RemoveExact, SizeExact, ListExact, OpenExact DEF FilesStep
  <2> QED BY <2>2, <2>3, <2>4, StepExact
<1>2. ASSUME NEW p \in Proc, NEW op \in {"make", "remove", "size"}, NEW path \in Target,
             Call(p, op, path)
      PROVE  AloneSound'
  <2>1. path # <<>>
    BY GivenPaths DEF Given
  <2> QED BY <1>2, <2>1, CallExact DEF Ops
<1>3. ASSUME NEW p \in Proc, NEW path \in Target \cup {<<>>}, Call(p, "open", path)
      PROVE  AloneSound'
  BY <1>3, CallExact DEF Ops
<1>4. CASE UNCHANGED filesVars
  BY <1>4 DEF filesVars, AloneSound, Alone, Exact, IsTree
<1> QED BY <1>1, <1>2, <1>3, <1>4 DEF FilesNext

LEMMA SizesAddUp ==
  ASSUME FilesAssumption, NEW T \in SUBSET Path
  PROVE  MapThenSumSet(LAMBDA r : Bytes[r], T) = SumOver(Bytes, T)
BY DEF MapThenSumSet, MapThenFoldSet, SumOver, Sums, One

LEMMA AloneImplies ==
  ASSUME FilesAssumption, FilesSound, AloneSound
  PROVE  AloneIsExact
<1> SUFFICES ASSUME NEW p \in Proc, Returned(p), others[p] = {}
             PROVE  LET q == Subject(call[p])
                    IN  CASE call[p].op = "make" ->
                               answer[p].ok = (\A r \in Above(q) \cup {q} : node[r] # "file")
                                 /\ answer[p].ok = (node[q] = "dir")
                          [] call[p].op = "remove" -> answer[p].ok /\ node[q] # "dir"
                          [] call[p].op = "size" ->
                               answer[p].size =
                                 IF node[q] = "dir" \/ (node[q] = "file" /\ call[p].path = q)
                                   THEN MapThenSumSet(LAMBDA r : Bytes[r], FilesIn(q))
                                   ELSE NotThere
                          [] call[p].op = "open" ->
                               LET base == IF call[p].path = <<>> /\ node[Home] # "dir" THEN <<DbName>> ELSE q
                               IN  answer[p].ok = (node[base] = "dir")
  BY DEF AloneIsExact
<1> DEFINE c == call[p]
           q == Subject(c)
           a == answer[p]
<1>1. DoneCall(node, c, a)
  BY DEF AloneSound, Alone, Exact, Returned
<1>2. CASE c.op # "open"
  <2>1. c.path # <<>> /\ Done(node, c.op, c.path, a) /\ q = Clean(c.path)
    BY <1>1, <1>2 DEF DoneCall, Subject
  <2>2. CASE c.op = "make"
    BY <2>1, <2>2 DEF Done, MakeDone, NoFileTo
  <2>3. CASE c.op = "remove"
    BY <2>1, <2>3 DEF Done, RemoveDone
  <2>4. CASE c.op = "size"
    <3>1. q \in Path
      <4>1. c.path \in Target
        BY <2>1 DEF FilesSound, FilesTypes, Calls
      <4> QED BY <2>1, <4>1, GivenPaths DEF Given
    <3>2. FilesIn(q) = FilesUnder(node, {q}) /\ FilesIn(q) \in SUBSET Path
      BY <3>1, StartsIs DEF FilesIn, FilesUnder
    <3>3. MapThenSumSet(LAMBDA r : Bytes[r], FilesIn(q)) = SizeOf(node, q)
      BY <3>2, SizesAddUp DEF SizeOf
    <3>4. a.size = IF node[q] = "dir" \/ (node[q] = "file" /\ c.path = q)
                     THEN SizeOf(node, q) ELSE NotThere
      BY <2>1, <2>4 DEF Done, SizeDone, SizeAt
    <3> QED BY <2>4, <3>3, <3>4
  <2> QED BY <2>1, <2>2, <2>3, <2>4 DEF Done
<1>3. CASE c.op = "open"
  <2>1. OpenDone(node, c, a)
    BY <1>1, <1>3 DEF DoneCall
  <2> QED BY <1>3, <2>1 DEF OpenDone, Subject
<1> QED BY <1>2, <1>3

(* A call during which no other process touched the files did all of it: a   *)
(* path is made unless a file is in the way, a directory is removed with all *)
(* that is in it, and a size is the sum of the files; a file named with a    *)
(* separator at its end is not there (utils.cpp:116-134, 166-233,            *)
(* storage.cpp:307-318).                                                     *)
THEOREM FilesExact == FilesSpec => []AloneIsExact
<1>1. FilesInit => FilesSound /\ AloneSound
  BY FilesAssumption, FilesStart, AloneStart
<1>2. FilesSound /\ AloneSound /\ [FilesNext]_filesVars => FilesSound' /\ AloneSound'
  BY FilesAssumption, FilesStepSound, AloneStepSound
<1>3. FilesSound /\ AloneSound => AloneIsExact
  BY FilesAssumption, AloneImplies
<1> QED BY <1>1, <1>2, <1>3, PTL DEF FilesSpec

-----------------------------------------------------------------------------
(* The search: the inductive invariant.                                      *)

(* The variables' types.                                                     *)
SearchTypeOK ==
  /\ array \in Seq(Element)
  /\ search \in {"idle", "loop", "done"}
  /\ wanted \in Element
  /\ first \in Int /\ count \in Int /\ index \in Int

(* What lower_bound has learnt: in an array in order, everything before      *)
(* `first` is less than what is looked for, and nothing after the range is.  *)
Narrowed ==
  search = "loop" /\ InOrder(array) =>
    /\ \A i \in 0 .. first - 1 : At(i) < wanted
    /\ \A i \in first + count .. Size - 1 : ~(At(i) < wanted)

SearchInv == SearchTypeOK /\ StaysInside /\ Narrowed /\ FoundIsFirst

-----------------------------------------------------------------------------
\* The elements of the array are integers.
LEMMA ElementsAreInts ==
  ASSUME array \in Seq(Element), NEW i \in Int, 0 <= i, i < Size
  PROVE  At(i) \in Element /\ At(i) \in Int /\ i + 1 \in DOMAIN array
<1>1. Len(array) \in Nat /\ DOMAIN array = 1 .. Len(array)
  OBVIOUS
<1>2. i + 1 \in 1 .. Len(array)
  BY <1>1 DEF Size
<1>3. array[i + 1] \in Element
  BY <1>2
<1> QED
  BY <1>1, <1>2, <1>3, SortedArraySetAssumption DEF At

\* The middle of a range that is not empty is inside it.
LEMMA Middle ==
  ASSUME NEW n \in Int, n > 0
  PROVE  n \div 2 \in Int /\ 0 <= n \div 2 /\ n \div 2 < n
OBVIOUS

\* An array in order has no greater element at an earlier index.
LEMMA Earlier ==
  ASSUME array \in Seq(Element), InOrder(array),
         NEW i \in Int, NEW j \in Int, 0 <= i, i <= j, j < Size
  PROVE  At(i) <= At(j)
<1>1. i + 1 \in DOMAIN array /\ j + 1 \in DOMAIN array
  BY ElementsAreInts DEF Size
<1> QED
  BY <1>1 DEF InOrder, At

\* At the lower bound there is what is looked for, or nothing is.
LEMMA FoundAtBound ==
  ASSUME array \in Seq(Element), NEW v \in Int, NEW i \in Int, 0 <= i, i <= Size
  PROVE  /\ Found(i, v) \in 0 .. Size
         /\ Found(i, v) < Size => At(Found(i, v)) = v
         /\ /\ InOrder(array)
            /\ \A k \in 0 .. i - 1 : At(k) < v
            /\ \A k \in i .. Size - 1 : ~(At(k) < v)
            => \A k \in 0 .. Found(i, v) - 1 : At(k) # v
<1>1. Size \in Nat
  BY DEF Size
<1>2. CASE i # Size /\ At(i) = v
  <2>1. Found(i, v) = i
    BY <1>2 DEF Found
  <2>2. ASSUME NEW k \in 0 .. i - 1, At(k) < v PROVE At(k) # v
    <3>1. At(k) \in Int
      BY <1>1, ElementsAreInts
    <3> QED
      BY <2>2, <3>1
  <2> QED
    BY <1>1, <1>2, <2>1, <2>2
<1>3. CASE ~(i # Size /\ At(i) = v)
  <2>1. Found(i, v) = Size
    BY <1>3 DEF Found
  <2>2. ASSUME InOrder(array), NEW k \in 0 .. Size - 1,
               \A j \in 0 .. i - 1 : At(j) < v, \A j \in i .. Size - 1 : ~(At(j) < v)
        PROVE  At(k) # v
    <3>1. At(k) \in Int /\ k \in Int /\ 0 <= k /\ k < Size
      BY <1>1, ElementsAreInts
    <3>2. CASE k < i
      BY <2>2, <3>1, <3>2
    <3>3. CASE i <= k
      <4>1. i # Size /\ At(i) # v /\ At(i) \in Int
        BY <1>1, <1>3, <3>1, <3>3, ElementsAreInts
      <4>2. At(i) <= At(k) /\ ~(At(i) < v)
        BY <1>1, <2>2, <3>1, <3>3, Earlier
      <4> QED
        BY <3>1, <4>1, <4>2
    <3> QED
      BY <3>1, <3>2, <3>3
  <2> QED
    BY <1>1, <2>1, <2>2
<1> QED
  BY <1>2, <1>3

\* The set is built on an array with an element.
LEMMA SearchStarts == SearchInit => SearchInv
<1> SUFFICES ASSUME SearchInit PROVE SearchInv
  OBVIOUS
<1>1. array \in Seq(Element)
  <2>1. PICK n \in 1 .. MaxLength : array \in [1 .. n -> Element]
    BY DEF SearchInit
  <2>2. n \in Nat
    BY <2>1, SortedArraySetAssumption
  <2> QED
    BY <2>1, <2>2
<1> QED
  BY <1>1 DEF SearchInit, SearchInv, SearchTypeOK, StaysInside, Narrowed, FoundIsFirst

\* An array that was sorted has the elements it had.
LEMMA SortElementsKeeps == SearchInv /\ SortElements => SearchInv'
<1> SUFFICES ASSUME SearchInv, SortElements PROVE SearchInv'
  OBVIOUS
<1>1. array' \in Seq(Element)
  <2>1. PICK s \in Rearranged(array) : array' = s
    BY DEF SortElements
  <2>2. PICK p \in [DOMAIN array -> DOMAIN array] : s = [i \in DOMAIN array |-> array[p[i]]]
    BY <2>1 DEF Rearranged
  <2>3. array \in Seq(Element) /\ DOMAIN array = 1 .. Len(array) /\ Len(array) \in Nat
    BY DEF SearchInv, SearchTypeOK
  <2>4. s \in [1 .. Len(array) -> Element]
    BY <2>2, <2>3
  <2> QED
    BY <2>1, <2>3, <2>4
<1> QED
  BY <1>1 DEF SortElements, SearchInv, SearchTypeOK, StaysInside, Narrowed, FoundIsFirst

\* A search begins with the whole array.
LEMMA StartSearchKeeps ==
  ASSUME NEW v \in Element PROVE SearchInv /\ StartSearch(v) => SearchInv'
<1> SUFFICES ASSUME SearchInv, StartSearch(v) PROVE SearchInv'
  OBVIOUS
<1>1. Size \in Nat /\ Size' = Size
  BY DEF SearchInv, SearchTypeOK, StartSearch, Size
<1> QED
  BY <1>1 DEF StartSearch, SearchInv, SearchTypeOK, StaysInside, Narrowed, FoundIsFirst

\* An iteration leaves out what cannot be the first element that is not less.
LEMMA IterateKeeps == SearchInv /\ Iterate => SearchInv' /\ count' < count
<1> SUFFICES ASSUME SearchInv, Iterate PROVE SearchInv' /\ count' < count
  OBVIOUS
<1> DEFINE step == count \div 2
<1>1. /\ array \in Seq(Element) /\ wanted \in Element /\ wanted \in Int
      /\ first \in Int /\ count \in Int /\ count > 0 /\ Size \in Nat
      /\ first >= 0 /\ first + count <= Size /\ search = "loop"
  BY SortedArraySetAssumption DEF SearchInv, SearchTypeOK, StaysInside, Iterate, Size
<1>2. step \in Int /\ 0 <= step /\ step < count
  BY <1>1, Middle
<1>3. /\ array' = array /\ search' = search /\ wanted' = wanted /\ index' = index
      /\ Size' = Size /\ (InOrder(array))' = InOrder(array)
      /\ \A i : At(i)' = At(i)
  BY DEF Iterate, Size, InOrder, At
<1>4. At(first + step) \in Int
  BY <1>1, <1>2, ElementsAreInts
<1>5. CASE At(first + step) < wanted
  <2>1. first' = first + step + 1 /\ count' = count - (step + 1)
    BY <1>5 DEF Iterate
  <2>2. ASSUME InOrder(array), NEW i \in 0 .. first' - 1 PROVE At(i) < wanted
    <3>1. i \in Int /\ 0 <= i /\ i <= first + step /\ first + step < Size
      BY <1>1, <1>2, <2>1
    <3>2. At(i) <= At(first + step) /\ At(i) \in Int
      BY <1>1, <1>2, <2>2, <3>1, Earlier, ElementsAreInts
    <3> QED
      BY <1>1, <1>4, <1>5, <3>2
  <2>3. first' + count' = first + count
    BY <1>1, <1>2, <2>1
  <2>4. Narrowed'
    BY <1>1, <1>3, <2>2, <2>3 DEF SearchInv, Narrowed
  <2>5. first' \in Int /\ count' \in Int /\ first' >= 0 /\ count' >= 0 /\ count' < count
    BY <1>1, <1>2, <2>1
  <2> QED
    BY <1>1, <1>3, <2>3, <2>4, <2>5
    DEF SearchInv, SearchTypeOK, StaysInside, FoundIsFirst
<1>6. CASE ~(At(first + step) < wanted)
  <2>1. first' = first /\ count' = step
    BY <1>6 DEF Iterate
  <2>2. ASSUME InOrder(array), NEW i \in first + step .. Size - 1 PROVE ~(At(i) < wanted)
    <3>1. i \in Int /\ 0 <= first + step /\ first + step <= i /\ i < Size
      BY <1>1, <1>2
    <3>2. At(first + step) <= At(i) /\ At(i) \in Int
      BY <1>1, <1>2, <2>2, <3>1, Earlier, ElementsAreInts
    <3> QED
      BY <1>1, <1>4, <1>6, <3>2
  <2>3. Narrowed'
    BY <1>1, <1>3, <2>1, <2>2 DEF SearchInv, Narrowed
  <2>4. first + step <= Size
    BY <1>1, <1>2
  <2> QED
    BY <1>1, <1>2, <1>3, <2>1, <2>3, <2>4
    DEF SearchInv, SearchTypeOK, StaysInside, FoundIsFirst
<1> QED
  BY <1>5, <1>6

\* With nothing left in the range, `first` is the lower bound.
LEMMA FinishKeeps == SearchInv /\ Finish => SearchInv'
<1> SUFFICES ASSUME SearchInv, Finish PROVE SearchInv'
  OBVIOUS
<1>1. /\ array \in Seq(Element) /\ wanted \in Int /\ Size \in Nat
      /\ first \in Int /\ first >= 0 /\ first <= Size /\ count = 0
  BY SortedArraySetAssumption DEF SearchInv, SearchTypeOK, StaysInside, Finish, Size
<1>2. /\ array' = array /\ wanted' = wanted /\ Size' = Size /\ search' = "done"
      /\ index' = Found(first, wanted)
      /\ (InOrder(array))' = InOrder(array) /\ \A i : At(i)' = At(i)
  BY DEF Finish, Size, InOrder, At
<1>3. InOrder(array) => /\ \A k \in 0 .. first - 1 : At(k) < wanted
                        /\ \A k \in first .. Size - 1 : ~(At(k) < wanted)
  BY <1>1 DEF SearchInv, Narrowed, Finish
<1>4. FoundIsFirst'
  BY <1>1, <1>2, <1>3, FoundAtBound DEF FoundIsFirst
<1>5. Found(first, wanted) \in Int
  BY <1>1, FoundAtBound
<1> QED
  BY <1>1, <1>2, <1>4, <1>5 DEF SearchInv, SearchTypeOK, StaysInside, Narrowed, Finish

\* std::lower_bound gives the same place at once.
LEMMA FindTemplatedKeeps ==
  ASSUME NEW v \in Element PROVE SearchInv /\ FindTemplated(v) => SearchInv'
<1> SUFFICES ASSUME SearchInv, FindTemplated(v) PROVE SearchInv'
  OBVIOUS
<1>1. array \in Seq(Element) /\ v \in Int /\ Size \in Nat
  BY SortedArraySetAssumption DEF SearchInv, SearchTypeOK, Size
<1>2. /\ array' = array /\ wanted' = v /\ Size' = Size /\ search' = "done"
      /\ (InOrder(array))' = InOrder(array) /\ \A i : At(i)' = At(i)
  BY DEF FindTemplated, Size, InOrder, At
<1>3. SUFFICES ASSUME NEW i \in 0 .. Size,
                      \A k \in 0 .. i - 1 : At(k) < v,
                      \A k \in i .. Size - 1 : ~(At(k) < v),
                      index' = Found(i, v)
               PROVE  SearchInv'
  BY DEF FindTemplated
<1>4. i \in Int /\ 0 <= i /\ i <= Size
  BY <1>1
<1>5. Found(i, v) \in Int
  BY <1>1, <1>4, FoundAtBound
<1>6. FoundIsFirst'
  BY <1>1, <1>2, <1>3, <1>4, FoundAtBound DEF FoundIsFirst
<1> QED
  BY <1>1, <1>2, <1>3, <1>5, <1>6
  DEF SearchInv, SearchTypeOK, StaysInside, Narrowed, FindTemplated

-----------------------------------------------------------------------------
\* A step that changes nothing keeps the invariant.
LEMMA SearchStutters == SearchInv /\ UNCHANGED searchVars => SearchInv'
BY DEF SearchInv, SearchTypeOK, StaysInside, Narrowed, FoundIsFirst, searchVars,
       InOrder, At, Size

\* Every step keeps the invariant.
LEMMA SearchStep == SearchInv /\ [SearchNext]_searchVars => SearchInv'
<1> SUFFICES ASSUME SearchInv, [SearchNext]_searchVars PROVE SearchInv'
  OBVIOUS
<1>1. CASE SortElements
  BY <1>1, SortElementsKeeps
<1>2. ASSUME NEW v \in Element, StartSearch(v) PROVE SearchInv'
  BY <1>2, StartSearchKeeps
<1>3. ASSUME NEW v \in Element, FindTemplated(v) PROVE SearchInv'
  BY <1>3, FindTemplatedKeeps
<1>4. CASE Iterate
  BY <1>4, IterateKeeps
<1>5. CASE Finish
  BY <1>5, FinishKeeps
<1>6. CASE UNCHANGED searchVars
  BY <1>6, SearchStutters
<1> QED
  BY <1>1, <1>2, <1>3, <1>4, <1>5, <1>6 DEF SearchNext

(* In every array of every length the search keeps SearchInv: types, the     *)
(* range inside the array, and what lower_bound has learnt                   *)
(* (sorted_array_set.h:128-171).                                             *)
THEOREM SearchIsInvariant == SearchSpec => []SearchInv
<1> QED
  BY SearchStarts, SearchStep, PTL DEF SearchSpec

(* What is found is there, and in an array in order what is there is found   *)
(* at its first place (sorted_array_set.h:158-171, 279-291).                 *)
THEOREM SearchFindsFirst == SearchSpec => []FoundIsFirst
<1>1. SearchInv => FoundIsFirst
  BY DEF SearchInv
<1> QED
  BY <1>1, SearchIsInvariant, PTL

(* lower_bound never looks outside the array (sorted_array_set.h:137-153).   *)
THEOREM SearchStaysInside == SearchSpec => []StaysInside
<1>1. SearchInv => StaysInside
  BY DEF SearchInv
<1> QED
  BY <1>1, SearchIsInvariant, PTL

(* Every iteration of lower_bound leaves fewer elements, so that it ends     *)
(* after at most as many as the array has (sorted_array_set.h:137-153).      *)
THEOREM SearchRangeShrinks == SearchSpec => RangeShrinks
<1>1. SearchInv /\ [SearchNext]_searchVars
        => [search = "loop" /\ search' = "loop" => count' < count]_searchVars
  <2> SUFFICES ASSUME SearchInv, SearchNext, search = "loop", search' = "loop"
               PROVE  count' < count
    BY DEF SearchNext
  <2>1. Iterate
    BY DEF SearchNext, SortElements, StartSearch, FindTemplated, Finish
  <2> QED
    BY <2>1, IterateKeeps
<1> QED
  BY <1>1, SearchIsInvariant, PTL DEF SearchSpec, RangeShrinks
=============================================================================

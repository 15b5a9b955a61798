-------------------------------- MODULE Files --------------------------------
(***************************************************************************)
(* The file system helpers (src/src/utils.cpp) and what Storage::open(path)*)
(* does with them (src/src/storage.cpp:307-318), called by processes that  *)
(* share a file system.  Every system call is a step.  A path is a sequence*)
(* of names below a directory that always exists; it may end with NoName,  *)
(* which stands for a separator at its end.                                *)
(***************************************************************************)
EXTENDS Integers, SequencesExt

CONSTANTS
  Proc,
  NoName,
  Path,      \* the paths of the file system, without separators at their ends
  Target,    \* the paths that processes call with
  Home,      \* the path of ".appdata"
  DbName,    \* "CREDITS"
  Bytes      \* the size of the file at a path, if there is one

Above(q) == {SubSeq(q, 1, n) : n \in 1 .. Len(q) - 1}

ASSUME FilesAssumption ==
  /\ IsFiniteSet(Path)
  /\ \A q \in Path \cup Target : q \in Seq(ToSet(q))
  /\ \A q \in Path : q # <<>> /\ NoName \notin ToSet(q) /\ Above(q) \subseteq Path
  /\ \A q \in Target : q \in Path \/ (Last(q) = NoName /\ Front(q) \in Path)
  /\ {Home, Append(Home, DbName), <<DbName>>} \subseteq Path
  /\ Bytes \in [Path -> Nat]

VARIABLES
  node,      \* "none", "file" or "dir" at every path
  stack,     \* the calls that run in a process, the innermost last
  answer,    \* what the call that returned last answered
  call,      \* ghost: the outermost call of a process
  seen,      \* ghost: what was at its path while it ran
  others     \* ghost: what others have done to the file system since

filesVars == <<node, stack, answer, call, seen, others>>

NoCall == [op |-> "none", path |-> <<>>]
NotThere == -1     \* static_cast<size_t>(-1)
Yes(ok) == [ok |-> ok, size |-> 0]
Clean(path) == IF Last(path) = NoName THEN Front(path) ELSE path

Frame(op, path) == [op |-> op, path |-> path, at |-> "start", todo |-> {}, total |-> 0]

FilesInit ==
  /\ node \in {f \in [Path -> {"none", "file", "dir"}] :
                 \A q \in Path : f[q] # "none" => \A r \in Above(q) : f[r] = "dir"}
  /\ stack = [p \in Proc |-> <<>>]
  /\ answer = [p \in Proc |-> Yes(FALSE)]
  /\ call = [p \in Proc |-> NoCall]
  /\ seen = [p \in Proc |-> {}]
  /\ others = [p \in Proc |-> {}]

Top(p) == Last(stack[p])
InStep(p, op, place) == stack[p] # <<>> /\ Top(p).op = op /\ Top(p).at = place

Changed(p, frame) == [stack EXCEPT ![p] = Append(Front(@), frame)]

\* What the outermost call of a process is about.
Subject(c) ==
  IF c.op = "open" /\ c.path = <<>> THEN Append(Home, DbName) ELSE Clean(c.path)

\* Process p changes the file system.
SetNode(p, q, kind, what) ==
  /\ node' = [node EXCEPT ![q] = kind]
  /\ seen' = [r \in Proc |-> IF stack[r] # <<>> /\ Subject(call[r]) = q
                               THEN seen[r] \cup {kind} ELSE seen[r]]
  /\ others' = [r \in Proc |-> IF r # p /\ call[r] # NoCall THEN others[r] \cup {what} ELSE others[r]]

NoChange == UNCHANGED <<node, seen, others>>

Answers(p, value) ==
  /\ stack' = [stack EXCEPT ![p] = Front(@)]
  /\ answer' = [answer EXCEPT ![p] = value]
  /\ UNCHANGED call

Return(p, ok) == Answers(p, Yes(ok))
ReturnSize(p, size) == Answers(p, [ok |-> FALSE, size |-> size])

GoTo(p, place) ==
  /\ stack' = Changed(p, [Top(p) EXCEPT !.at = place])
  /\ UNCHANGED <<answer, call>>

\* The innermost call makes another, and goes on at `place`.
Enter(p, frame, place) ==
  /\ stack' = [stack EXCEPT ![p] = Front(@) \o <<[Top(p) EXCEPT !.at = place], frame>>]
  /\ UNCHANGED <<answer, call>>

-----------------------------------------------------------------------------
(* System calls. *)

\* stat, for dir_exists.
DirExists(path) == node[Clean(path)] = "dir"

\* Mutant: a file is found behind a separator.
FileSize_Cleans(path) == IF node[Clean(path)] = "file" THEN Bytes[Clean(path)] ELSE NotThere

\* stat, for file_size: a file with a separator at its end is no directory (ENOTDIR).
FileSize(path) == IF path = Clean(path) /\ node[path] = "file" THEN Bytes[path] ELSE NotThere

\* opendir and readdir, for children.
Below(q) == {r \in Path : Len(r) = Len(q) + 1 /\ Front(r) = q /\ node[r] # "none"}

\* Mutant: directories are not listed.
Children_Files(path) ==
  {[path |-> r, kind |-> node[r]] : r \in {q \in Below(Clean(path)) : node[q] = "file"}}

Children(path) == {[path |-> r, kind |-> node[r]] : r \in Below(Clean(path))}

\* mkdir: errno, or 0.
MkdirError(path) ==
  LET q == Clean(path)
  IN  IF \E r \in Above(q) : node[r] = "file" THEN "ENOTDIR"
      ELSE IF \E r \in Above(q) : node[r] = "none" THEN "ENOENT"
      ELSE IF node[q] # "none" THEN "EEXIST"
      ELSE "0"

\* rmdir succeeds.
CanRmdir(path) == DirExists(path) /\ Below(Clean(path)) = {}

-----------------------------------------------------------------------------
(* path_make, with dir_make. *)

MakeStart(p) ==
  /\ InStep(p, "make", "start")
  /\ IF DirExists(Top(p).path) THEN Return(p, TRUE) ELSE GoTo(p, "mkdir")
  /\ NoChange

MakeFirst(p) ==
  /\ InStep(p, "make", "mkdir")
  /\ LET path == Top(p).path   error == MkdirError(path)
     IN  \/ error = "0" /\ SetNode(p, Clean(path), "dir", "made") /\ Return(p, TRUE)
         \/ error = "EEXIST" /\ GoTo(p, "exists") /\ NoChange
         \/ error = "ENOENT" /\ Len(path) > 1
              /\ Enter(p, Frame("make", Front(path)), "parent") /\ NoChange
         \/ error = "ENOTDIR" /\ Return(p, FALSE) /\ NoChange

\* The path above it was made, or not.
MakeParent(p) ==
  /\ InStep(p, "make", "parent")
  /\ IF answer[p].ok THEN GoTo(p, "again") ELSE Return(p, FALSE)
  /\ NoChange

\* The second dir_make.
MakeAgain(p) ==
  /\ InStep(p, "make", "again")
  /\ IF DirExists(Top(p).path) THEN Return(p, TRUE) ELSE GoTo(p, "last")
  /\ NoChange

MakeLast(p) ==
  /\ InStep(p, "make", "last")
  /\ IF MkdirError(Top(p).path) = "0"
       THEN SetNode(p, Clean(Top(p).path), "dir", "made") /\ Return(p, TRUE)
       ELSE Return(p, FALSE) /\ NoChange

\* Mutant: whatever is there is taken for the directory.
MakeExists_Anything(p) ==
  /\ InStep(p, "make", "exists")
  /\ Return(p, TRUE)
  /\ NoChange

\* Mutant: what is there is waited for to become the directory.
MakeExists_Waits(p) ==
  /\ InStep(p, "make", "exists")
  /\ IF DirExists(Top(p).path) THEN Return(p, TRUE) ELSE GoTo(p, "start")
  /\ NoChange

MakeExists(p) ==
  /\ InStep(p, "make", "exists")
  /\ Return(p, DirExists(Top(p).path))
  /\ NoChange

-----------------------------------------------------------------------------
(* path_remove, with dir_remove and file_remove. *)

\* dir_remove before the loop, and after it.
RemoveStart(p) ==
  /\ \E from \in {"start", "last"} :
       /\ InStep(p, "remove", from)
       /\ IF ~DirExists(Top(p).path) THEN Return(p, TRUE)
          ELSE GoTo(p, IF from = "start" THEN "rmdir" ELSE "final")
  /\ NoChange

Rmdir(p) ==
  /\ InStep(p, "remove", "rmdir")
  /\ IF CanRmdir(Top(p).path)
       THEN SetNode(p, Clean(Top(p).path), "none", "removed") /\ Return(p, TRUE)
       ELSE GoTo(p, "list") /\ NoChange

\* file_remove.
FileRemove(p, q) == node[q] = "file" /\ SetNode(p, q, "none", "removed")

\* One turn of the loop over the children, or its end.
RemoveEach(p) ==
  /\ InStep(p, "remove", "each")
  /\ \/ Top(p).todo = {} /\ GoTo(p, "last") /\ NoChange
     \/ \E c \in Top(p).todo :
          LET rest == [Top(p) EXCEPT !.todo = @ \ {c}]
          IN  \/ /\ c.kind = "dir"
                 /\ stack' = [stack EXCEPT ![p] =
                      Front(@) \o <<[rest EXCEPT !.at = "child"], Frame("remove", c.path)>>]
                 /\ UNCHANGED <<answer, call>> /\ NoChange
              \/ /\ c.kind = "file" /\ FileRemove(p, c.path)
                 /\ stack' = Changed(p, rest) /\ UNCHANGED <<answer, call>>
              \/ /\ c.kind = "file" /\ node[c.path] # "file"
                 /\ Return(p, FALSE) /\ NoChange

RemoveChild(p) ==
  /\ InStep(p, "remove", "child")
  /\ IF answer[p].ok THEN GoTo(p, "each") ELSE Return(p, FALSE)
  /\ NoChange

RmdirLast(p) ==
  /\ InStep(p, "remove", "final")
  /\ IF CanRmdir(Top(p).path)
       THEN SetNode(p, Clean(Top(p).path), "none", "removed") /\ Return(p, TRUE)
       ELSE Return(p, FALSE) /\ NoChange

-----------------------------------------------------------------------------
(* path_size, with file_size. *)

SizeStart(p) ==
  /\ InStep(p, "size", "start")
  /\ GoTo(p, IF DirExists(Top(p).path) THEN "list" ELSE "file")
  /\ NoChange

SizeFile(p) ==
  /\ InStep(p, "size", "file")
  /\ ReturnSize(p, FileSize(Top(p).path))
  /\ NoChange

SizeEach(p) ==
  /\ InStep(p, "size", "each")
  /\ \/ Top(p).todo = {} /\ ReturnSize(p, Top(p).total)
     \/ \E c \in Top(p).todo :
          /\ stack' = [stack EXCEPT ![p] =
               Front(@) \o <<[Top(p) EXCEPT !.todo = @ \ {c}, !.at = "child"], Frame("size", c.path)>>]
          /\ UNCHANGED <<answer, call>>
  /\ NoChange

SizeChild(p) ==
  /\ InStep(p, "size", "child")
  /\ stack' = Changed(p, [Top(p) EXCEPT !.at = "each",
                                        !.total = IF answer[p].size = NotThere THEN @ ELSE @ + answer[p].size])
  /\ UNCHANGED <<answer, call>>
  /\ NoChange

\* The list that path_remove or path_size goes through.
List(p) ==
  /\ InStep(p, "remove", "list") \/ InStep(p, "size", "list")
  /\ stack' = Changed(p, [Top(p) EXCEPT !.at = "each", !.todo = Children(Top(p).path)])
  /\ UNCHANGED <<answer, call>>
  /\ NoChange

-----------------------------------------------------------------------------
(* Storage::open(path). *)

\* An empty path makes app_data_path() make its directory.
OpenStart(p) ==
  /\ InStep(p, "open", "start")
  /\ IF Top(p).path = <<>> THEN Enter(p, Frame("make", Append(Home, NoName)), "home")
                           ELSE GoTo(p, "db")
  /\ NoChange

\* When it could not, the path is "/CREDITS".
OpenDefault(p) ==
  /\ InStep(p, "open", "home")
  /\ stack' = Changed(p, [Top(p) EXCEPT !.at = "db",
                                        !.path = IF answer[p].ok THEN Append(Home, DbName) ELSE <<DbName>>])
  /\ UNCHANGED <<answer, call>>
  /\ NoChange

\* LevelDB, with create_if_missing: it makes one directory, and not those above.
OpenDatabase(p) ==
  /\ InStep(p, "open", "db")
  /\ LET q == Clean(Top(p).path)
     IN  IF MkdirError(q) = "0" THEN SetNode(p, q, "dir", "made") /\ Return(p, TRUE)
         ELSE Return(p, DirExists(q)) /\ NoChange

-----------------------------------------------------------------------------
\* A process makes its one call.
Call(p, op, path) ==
  /\ call[p] = NoCall
  /\ call' = [call EXCEPT ![p] = [op |-> op, path |-> path]]
  /\ stack' = [stack EXCEPT ![p] = <<Frame(op, path)>>]
  /\ seen' = [seen EXCEPT ![p] = {node[Subject(call'[p])]}]
  /\ UNCHANGED <<node, answer, others>>

FilesStep(p) ==
  \/ MakeStart(p) \/ MakeFirst(p) \/ MakeParent(p) \/ MakeAgain(p) \/ MakeLast(p) \/ MakeExists(p)
  \/ RemoveStart(p) \/ Rmdir(p) \/ RemoveEach(p) \/ RemoveChild(p) \/ RmdirLast(p)
  \/ SizeStart(p) \/ SizeFile(p) \/ SizeEach(p) \/ SizeChild(p) \/ List(p)
  \/ OpenStart(p) \/ OpenDefault(p) \/ OpenDatabase(p)

FilesNext ==
  \/ \E p \in Proc : FilesStep(p)
  \/ \E p \in Proc, op \in {"make", "remove", "size"}, path \in Target : Call(p, op, path)
  \/ \E p \in Proc, path \in Target \cup {<<>>} : Call(p, "open", path)

FilesFairness == \A p \in Proc : WF_filesVars(FilesStep(p))
FilesSpec == FilesInit /\ [][FilesNext]_filesVars /\ FilesFairness

-----------------------------------------------------------------------------
Returned(p) == call[p] # NoCall /\ stack[p] = <<>>

\* The files at q and below it.
FilesIn(q) == {r \in Path : IsPrefix(q, r) /\ node[r] = "file"}

(* A directory that was made was there, and one that was removed was gone,   *)
(* at some moment of the call, whatever other processes do                   *)
(* (utils.cpp:145-213).                                                      *)
AnswersAreTrue ==
  \A p \in Proc :
    Returned(p) /\ call[p].op # "size" /\ answer[p].ok /\ call[p].path # <<>> =>
      IF call[p].op = "remove" THEN seen[p] \cap {"none", "file"} # {} ELSE "dir" \in seen[p]

(* A call during which no one else touched the files did all of it: a path   *)
(* is made unless a file is in the way, a directory is removed with all that *)
(* is in it, and a size is the sum of the files; a file named with a         *)
(* separator at its end is not there (utils.cpp:116-134, 166-233).           *)
AloneIsExact ==
  \A p \in Proc :
    LET q == Subject(call[p])
    IN  Returned(p) /\ others[p] = {} =>
          CASE call[p].op = "make" ->
                 answer[p].ok = (\A r \in Above(q) \cup {q} : node[r] # "file")
                   /\ answer[p].ok = (node[q] = "dir")
            [] call[p].op = "remove" -> answer[p].ok /\ node[q] # "dir"
            [] call[p].op = "size" ->
                 answer[p].size = IF node[q] = "dir" \/ (node[q] = "file" /\ call[p].path = q)
                                    THEN MapThenSumSet(LAMBDA r : Bytes[r], FilesIn(q))
                                    ELSE NotThere
            [] call[p].op = "open" ->
                 LET base == IF call[p].path = <<>> /\ node[Home] # "dir" THEN <<DbName>> ELSE q
                 IN  answer[p].ok = (node[base] = "dir")

(* Every call returns, whatever other processes do.                          *)
CallsReturn == \A p \in Proc : stack[p] # <<>> ~> stack[p] = <<>>
=============================================================================

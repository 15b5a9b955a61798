------------------------------ MODULE MCLibrary ------------------------------
(***************************************************************************)
(* Small instances, for one run of TLC, of the parts that the others rest  *)
(* on: Records, SortedArraySet, Files and Driver.  They share no variable,  *)
(* and one of them runs while the others keep one initial state: the state *)
(* graph is the disjoint sum of the four.  To keep it small, two           *)
(* transactions of a block have no balances, and the second no fields.     *)
(***************************************************************************)
EXTENDS Records, SortedArraySet, Files, Driver

CONSTANTS p1, p2

VARIABLE subject   \* which of the four runs

vars == <<subject, recordsVars, searchVars, filesVars, driverVars>>

Init ==
  /\ subject \in {"records", "search", "files", "driver"}
  /\ RecordsInit /\ (subject # "records" => task = "id")
  /\ SearchInit /\ (subject # "search" => array = <<0>> /\ wanted = 0)
  /\ FilesInit /\ node[<<2>>] = "none"
  /\ (subject # "files" => \A q \in Path : node[q] = "none")
  /\ DriverInit

Small ==
  Len(block.txs) = 2 =>
    block.txs[2].fields = NoFields /\ \A i \in 1 .. 2 : block.txs[i].balance = Zero

Next ==
  /\ UNCHANGED subject
  /\ \/ subject = "records" /\ RecordsNext /\ Small' /\ UNCHANGED <<searchVars, filesVars, driverVars>>
     \/ subject = "search" /\ SearchNext /\ UNCHANGED <<recordsVars, filesVars, driverVars>>
     \/ subject = "files" /\ FilesNext /\ UNCHANGED <<recordsVars, searchVars, driverVars>>
     \/ subject = "driver" /\ DriverNext /\ UNCHANGED <<recordsVars, searchVars, filesVars>>

Spec == Init /\ [][Next]_vars /\ FilesFairness

MCMin == -4
MCAddress == {<<>>, <<0, 15>>, <<9, 4>>}
MCCurrency == {<<>>, <<7>>}
MCAmount == {Zero, Amt(1, 50)}
MCBalance == {Amt(-3, 8)}
MCFieldId == {-1}
MCFieldValue ==
  {Unknown, UserField("Integer", Register - 9, <<>>, Zero), UserField("String", 0, <<1, 2, 3>>, Zero),
   UserField("Amount", 0, <<>>, Amt(-1, 99))}
MCHash == {<<>>, <<3, 15, 8>>}
MCSequence == {0, 32768}
\* Around every power of two, of either sign of a signed type.
MCIndex == UNION {{2 ^ k - 1, 2 ^ k, Register - 2 ^ k, Register - 2 ^ k - 1} : k \in 0 .. 15}

\* .appdata is 1, CREDITS is 2, and 0 stands for a separator at the end.
MCPath == {<<1>>, <<2>>, <<1, 2>>, <<1, 3>>, <<1, 2, 3>>}
MCTarget == {<<1>>, <<1, 2, 0>>, <<1, 2, 3>>}
MCHome == <<1>>
MCBytes == [q \in MCPath |-> IF Len(q) = 3 THEN 10 ELSE q[Len(q)]]

MCBatch == {<<>>, <<<<1, "pool">>, <<2, "pool">>>>, <<<<1, "other">>, <<1, "pool">>>>}
=============================================================================

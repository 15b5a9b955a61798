------------------------------- MODULE Records -------------------------------
(***************************************************************************)
(* A client makes a transaction, a block of transactions or a transaction  *)
(* identifier, turns it into bytes, and reads the bytes again, of which a  *)
(* part may be missing at the end (src/src/transaction.cpp,                *)
(* src/src/pool.cpp, module Codec).                                        *)
(***************************************************************************)
EXTENDS Codec

CONSTANTS
  AddressValue,    \* public keys, and <<>> for the address of nobody
  CurrencyName,    \* names, and <<>> for no currency
  AmountValue,
  BalanceValue,
  FieldId,
  FieldValue,      \* user fields, of any type or none
  HashBytes,       \* hashes of blocks, and <<>>
  SequenceValue,
  IndexValue,      \* places of a transaction in its block
  MaxTxs           \* bound on the transactions of a block

\* The values that the types of the code have: strings with a size, amounts and
\* the keys of user fields of an int32_t, fields with the value of their type.
AmountNumber == [integral : MinInt .. MaxInt, fraction : 0 .. F - 1]
Sized(string) == string \in ByteString /\ Len(string) < Register
WellFormed(field) ==
  \/ field = Unknown
  \/ field.integer \in 0 .. Register - 1 /\ field = UserField("Integer", field.integer, <<>>, Zero)
  \/ Sized(field.string) /\ field = UserField("String", 0, field.string, Zero)
  \/ field.amount \in AmountNumber /\ field = UserField("Amount", 0, <<>>, field.amount)

ASSUME RecordsAssumption ==
  /\ \A a \in AddressValue : Sized(a) /\ AsAddress(a) = a
  /\ \A name \in CurrencyName : Sized(name)
  /\ \A h \in HashBytes : Sized(h) /\ AsHash(h) = h
  /\ AmountValue \subseteq AmountNumber /\ BalanceValue \subseteq AmountNumber
  /\ FieldId \subseteq MinInt .. MaxInt
  /\ \A field \in FieldValue : WellFormed(field)
  /\ SequenceValue \subseteq 0 .. Register - 1 /\ IndexValue \subseteq 0 .. Register - 1
  /\ MaxTxs \in Nat /\ MaxTxs < Register

VARIABLES
  task,      \* what the client makes
  draft,     \* the Transaction object
  block,     \* the Pool object
  id,        \* the TransactionID object
  data,      \* the bytes that were written
  written,   \* ghost: the object they were made from, and its size in bytes
  got        \* what was read from them

recordsVars == <<task, draft, block, id, data, written, got>>

NoFields == [k \in {} |-> 0]
NoTransaction ==
  [source |-> <<>>, target |-> <<>>, currency |-> <<>>,
   amount |-> Zero, balance |-> Zero, fields |-> NoFields]
EmptyBlock == [previous |-> <<>>, sequence |-> 0, txs |-> <<>>, fields |-> NoFields]
NothingWritten == [value |-> <<>>, size |-> 0]
NothingRead == [what |-> "nothing"]

RecordsInit ==
  /\ task \in {"transaction", "block", "id"}
  /\ draft = NoTransaction
  /\ block = EmptyBlock
  /\ id = NoTransactionId
  /\ data = <<>>
  /\ written = NothingWritten
  /\ got = NothingRead

\* Transaction::is_valid.
ValidTransaction(t) ==
  /\ AddressIsValid(t.source)
  /\ AddressIsValid(t.target)
  /\ CurrencyIsValid(t.currency)
  /\ Greater(t.amount, Zero)
  /\ t.source # t.target

With(fields, k, field) == [j \in DOMAIN fields \cup {k} |-> IF j = k THEN field ELSE fields[j]]

-----------------------------------------------------------------------------
(* The objects are made.  None is read-only: module Pools is about that.     *)

\* A client finishes the transactions of a block before its other fields: in
\* another order the same objects come out.
Bare(p) == p = [EmptyBlock EXCEPT !.txs = p.txs]

Edit(t) ==
  /\ task # "id" /\ written = NothingWritten /\ Bare(block)
  /\ draft' = t
  /\ UNCHANGED <<task, block, id, data, written, got>>

SetSource(a) == Edit([draft EXCEPT !.source = a])
SetTarget(a) == Edit([draft EXCEPT !.target = a])
SetCurrency(name) == Edit([draft EXCEPT !.currency = name])
SetAmount(a) == Edit([draft EXCEPT !.amount = a])
SetBalance(a) == Edit([draft EXCEPT !.balance = a])
AddUserField(k, field) == FieldIsValid(field) /\ Edit([draft EXCEPT !.fields = With(@, k, field)])

Build(p) ==
  /\ task = "block" /\ written = NothingWritten
  /\ block' = p
  /\ UNCHANGED <<task, id, data, written, got>>

\* Pool::add_transaction; the client goes on with a new Transaction.
AddTransaction ==
  /\ Len(block.txs) < MaxTxs /\ Bare(block)
  /\ ValidTransaction(draft)
  /\ Build([block EXCEPT !.txs = Append(@, draft)])
  /\ draft' = NoTransaction

Describe(p) == draft = NoTransaction /\ Build(p) /\ UNCHANGED draft

SetSequence(n) == Describe([block EXCEPT !.sequence = n])
SetPreviousHash(h) == Describe([block EXCEPT !.previous = h])
AddBlockField(k, field) == FieldIsValid(field) /\ Describe([block EXCEPT !.fields = With(@, k, field)])

\* TransactionID(hash, index).
NewId(h, i) ==
  /\ task = "id" /\ written = NothingWritten
  /\ id' = [hash |-> h, index |-> i]
  /\ UNCHANGED <<task, draft, block, data, written, got>>

-----------------------------------------------------------------------------
(* They are written. *)

Write(bytes, whole, value) ==
  /\ written = NothingWritten
  /\ data' = bytes
  /\ written' = [value |-> value, size |-> Len(whole)]
  /\ UNCHANGED <<task, draft, block, id, got>>

\* Transaction::to_byte_stream, and to_binary, which looks at is_valid.
ToByteStream ==
  task = "transaction" /\ Write(PutTransaction(draft), PutTransaction(draft), draft)
ToBinary ==
  /\ task = "transaction"
  /\ Write(IF ValidTransaction(draft) THEN PutTransaction(draft) ELSE <<>>,
           PutTransaction(draft), draft)

WriteBlock == task = "block" /\ draft = NoTransaction /\ Write(PutPool(block), PutPool(block), block)
WriteId == task = "id" /\ Write(PutId(id), PutId(id), id)

\* Bytes are lost at the end, in a file or on the way.
Truncate(n) ==
  /\ written # NothingWritten /\ got = NothingRead
  /\ n < Len(data)
  /\ data' = SubSeq(data, 1, n)
  /\ UNCHANGED <<task, draft, block, id, written, got>>

-----------------------------------------------------------------------------
(* They are read. *)

Read(what, is) ==
  /\ written # NothingWritten /\ got = NothingRead
  /\ got' = [what |-> what, ok |-> is.ok, value |-> IF is.ok THEN is.got[1] ELSE <<>>]
  /\ UNCHANGED <<task, draft, block, id, data, written>>

\* Transaction::from_binary and from_byte_stream; Pool::from_binary and
\* meta_from_binary; TransactionID::get.
ReadTransaction == task = "transaction" /\ Read("whole", GetTransaction(Stream(data)))
ReadBlock == task = "block" /\ Read("whole", GetPool(Stream(data)))
ReadMeta == task = "block" /\ Read("meta", GetMeta(Stream(data)))
ReadId == task = "id" /\ Read("whole", GetId(Stream(data)))

RecordsNext ==
  \/ \E a \in AddressValue : SetSource(a) \/ SetTarget(a)
  \/ \E name \in CurrencyName : SetCurrency(name)
  \/ \E a \in AmountValue : SetAmount(a)
  \/ \E a \in BalanceValue : SetBalance(a)
  \/ \E k \in FieldId, field \in FieldValue : AddUserField(k, field) \/ AddBlockField(k, field)
  \/ AddTransaction
  \/ \E n \in SequenceValue : SetSequence(n)
  \/ \E h \in HashBytes : SetPreviousHash(h)
  \/ \E h \in HashBytes, i \in IndexValue : NewId(h, i)
  \/ ToByteStream \/ ToBinary \/ WriteBlock \/ WriteId
  \/ \E n \in 0 .. Len(data) : Truncate(n)
  \/ ReadTransaction \/ ReadBlock \/ ReadMeta \/ ReadId

RecordsSpec == RecordsInit /\ [][RecordsNext]_recordsVars

-----------------------------------------------------------------------------
(* What a client sees of an object. *)

\* user_field and user_field_ids, of a transaction and of a block.
FieldOf(fields, k) == IF k \in DOMAIN fields THEN fields[k] ELSE Unknown
FieldIds(fields) == DOMAIN fields

\* UserField::operator ==.
SameField(f, g) ==
  /\ f.type = g.type
  /\ f.type = "Integer" => f.integer = g.integer
  /\ f.type = "String" => f.string = g.string
  /\ f.type = "Amount" => Equal(f.amount, g.amount)

\* value() as each of the three types: 0, "" and 0_c stand for another type.
Values(f) ==
  <<IF f.type = "Integer" THEN f.integer ELSE 0,
    IF f.type = "String" THEN f.string ELSE <<>>,
    IF f.type = "Amount" THEN f.amount ELSE Zero>>

SameFields(a, b) ==
  /\ FieldIds(a) = FieldIds(b)
  /\ \A k \in FieldId : /\ SameField(FieldOf(a, k), FieldOf(b, k))
                        /\ Values(FieldOf(a, k)) = Values(FieldOf(b, k))

SameTransaction(t, u) ==
  /\ t.source = u.source /\ t.target = u.target /\ t.currency = u.currency
  /\ Equal(t.amount, u.amount) /\ Equal(t.balance, u.balance)
  /\ SameFields(t.fields, u.fields)

SameBlock(p, q) ==
  /\ p.previous = q.previous /\ p.sequence = q.sequence
  /\ Len(p.txs) = Len(q.txs) /\ \A i \in DOMAIN p.txs : SameTransaction(p.txs[i], q.txs[i])
  /\ SameFields(p.fields, q.fields)

SameId(a, b) == a.hash = b.hash /\ a.index = b.index

-----------------------------------------------------------------------------
(* What is read successfully is, to every question that a client can ask,    *)
(* what was written; and so is a hash, an address, or the identifier of one  *)
(* of the first ten transactions of a block, that is read from its text      *)
(* (integral_encdec.cpp:18-80, binary_streams.h:98-157, utils.h:15-65,       *)
(* address.cpp:34-49, transaction.cpp:38-64).                                *)
ReadsWhatWasWritten ==
  /\ got # NothingRead /\ got.ok =>
       LET read == got.value   wrote == written.value
       IN  CASE got.what = "meta" -> read.previous = wrote.previous /\ read.sequence = wrote.sequence
             [] got.what = "whole" /\ task = "transaction" -> SameTransaction(read, wrote)
             [] got.what = "whole" /\ task = "block" -> SameBlock(read, wrote)
             [] got.what = "whole" /\ task = "id" -> SameId(read, wrote)
  /\ \A a \in {draft.source, draft.target} : AddressFromText(AddressToText(a)) = a
  /\ HashFromText(HashToText(id.hash)) = id.hash
  /\ IdIsValid(id) /\ id.index < 10 => SameId(IdFromText(IdToText(id)), id)

(* Bytes with an end missing are never taken for an object, and whole bytes  *)
(* always are (integral_encdec.cpp:62-67, binary_streams.cpp:26-71).         *)
CutIsRefused ==
  got # NothingRead =>
    /\ Len(data) = written.size => got.ok
    /\ got.what = "whole" /\ got.ok => Len(data) = written.size

(* "Any string that to_string returns will be converted to a valid           *)
(* identifier by from_string" (transaction.h:41-43).                         *)
IdTextIsValid == IdIsValid(id) => IdIsValid(IdFromText(IdToText(id)))
=============================================================================

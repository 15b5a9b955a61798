-------------------------------- MODULE Codec --------------------------------
(***************************************************************************)
(* How objects become bytes: the encoding of integers                      *)
(* (src/src/integral_encdec.cpp), the binary streams                       *)
(* (src/src/binary_streams.h and .cpp), and put() and get() of each class. *)
(* A byte has ByteBits bits, 8 in the code; a register, uint64_t, is as    *)
(* many bytes as a byte has bits.  Built for a little-endian machine.      *)
(***************************************************************************)
EXTENDS Amount, SequencesExt

CONSTANTS
  ByteBits,
  HashSize,        \* crypto::hash_size, in bytes
  PublicKeySize    \* crypto::public_key_size, in bytes

Byte == Power(2, ByteBits)
Register == Power(Byte, ByteBits)
ByteString == Seq(0 .. Byte - 1)

\* A register holds a size, a fraction, and a number of user fields.
ASSUME CodecAssumption ==
  /\ ByteBits \in Nat /\ ByteBits >= 4 /\ ByteBits % 2 = 0
  /\ HashSize \in Nat \ {0} /\ PublicKeySize \in Nat \ {0}
  /\ F <= Register /\ 2 * (MaxInt + 1) < Register

\* A number of any integer type as a register, and back as a signed one.
ToRegister(n) == n % Register
Signed(r) == IF r < Register \div 2 THEN r ELSE r - Register

\* The n low bytes of a number, the lowest first.
LowBytes(r, n) == [i \in 1 .. n |-> (r \div Power(Byte, i - 1)) % Byte]
FromBytes(bytes) ==
  LET upTo[i \in 0 .. Len(bytes)] ==
        IF i = 0 THEN 0 ELSE upTo[i - 1] + bytes[i] * Power(Byte, i - 1)
  IN  upTo[Len(bytes)]

-----------------------------------------------------------------------------
(* Integers. *)

\* Mutant: the sign gets no bit of its own.
SignificantBits_NoSign(r) ==
  CHOOSE n \in ByteBits - 1 .. ByteBits * ByteBits :
    /\ n = ByteBits * ByteBits \/ Signed(r) \in -(Power(2, n)) .. Power(2, n) - 1
    /\ n > ByteBits - 1 => Signed(r) \notin -(Power(2, n - 1)) .. Power(2, n - 1) - 1

\* The bits a number needs with its sign, and not fewer than the first byte has.
SignificantBits(r) ==
  CHOOSE n \in ByteBits - 1 .. ByteBits * ByteBits :
    /\ Signed(r) \in -(Power(2, n - 1)) .. Power(2, n - 1) - 1
    /\ n > ByteBits - 1 => Signed(r) \notin -(Power(2, n - 2)) .. Power(2, n - 2) - 1

\* encode: the ones at the low end of the first byte count the bytes that follow.
Encode64(r) ==
  LET bits == SignificantBits(r)
      more == (bits - 1) \div (ByteBits - 1)
  IN  IF bits <= (ByteBits - 1) * ByteBits
        THEN <<(r * Power(2, more + 1) + Power(2, more) - 1) % Byte>>
               \o LowBytes(r \div Power(2, ByteBits - 1 - more), more)
        ELSE <<Byte - 1>> \o LowBytes(r, ByteBits)

\* The trailing ones of a byte.
TrailingOnes(byte) ==
  CHOOSE n \in 0 .. ByteBits :
    /\ byte % Power(2, n) = Power(2, n) - 1
    /\ n < ByteBits => byte % Power(2, n + 1) # Power(2, n + 1) - 1

\* decode, of data that begins with a whole number.
Decode64(data) ==
  LET more == TrailingOnes(data[1])
      bits == (more + 1) * (ByteBits - 1)
      value == FromBytes(SubSeq(data, 2, more + 1)) * Power(2, ByteBits - 1 - more)
                 + data[1] \div Power(2, more + 1)
  IN  IF more = ByteBits THEN FromBytes(SubSeq(data, 2, more + 1))
      ELSE IF data[more + 1] < Byte \div 2 THEN value
      ELSE value + Register - Power(2, bits)

-----------------------------------------------------------------------------
(* obstream. *)

PutInt(n) == Encode64(ToRegister(n))
PutBytes(bytes) == PutInt(Len(bytes)) \o bytes
PutAmount(a) == PutInt(a.integral) \o PutInt(a.fraction)
PutHash(hash) == PutBytes(hash)
PutId(id) == PutHash(id.hash) \o PutInt(id.index)
PutAddress(address) == PutBytes(address)
PutCurrency(name) == PutBytes(name)

TypeCode == [Integer |-> 1, String |-> 2, Amount |-> 3]

\* UserField::priv, which has a place for a value of each type.
UserField(type, integer, string, amount) ==
  [type |-> type, integer |-> integer, string |-> string, amount |-> amount]
Unknown == UserField("Unknown", 0, <<>>, Zero)
FieldIsValid(field) == field.type # "Unknown"

\* UserField::priv::put: a field without a type leaves no byte.
PutField(field) ==
  CASE field.type = "Integer" -> PutInt(TypeCode.Integer) \o PutInt(field.integer)
    [] field.type = "String" -> PutInt(TypeCode.String) \o PutBytes(field.string)
    [] field.type = "Amount" -> PutInt(TypeCode.Amount) \o PutAmount(field.amount)
    [] OTHER -> <<>>

KeysInOrder(fields) ==
  CHOOSE keys \in [1 .. Cardinality(DOMAIN fields) -> DOMAIN fields] :
    \A i, j \in DOMAIN keys : i < j => keys[i] < keys[j]

\* A map: its size, then its entries in the order of their keys.
PutFields(fields) ==
  LET keys == KeysInOrder(fields)
  IN  PutInt(Len(keys))
        \o FlattenSeq([i \in DOMAIN keys |-> PutInt(keys[i]) \o PutField(fields[keys[i]])])

PutTransaction(t) ==
  PutAddress(t.source) \o PutAddress(t.target) \o PutCurrency(t.currency)
    \o PutAmount(t.amount) \o PutAmount(t.balance) \o PutFields(t.fields)

PutPool(p) ==
  PutHash(p.previous) \o PutInt(p.sequence)
    \o PutInt(Len(p.txs)) \o FlattenSeq([i \in DOMAIN p.txs |-> PutTransaction(p.txs[i])])
    \o PutFields(p.fields)

-----------------------------------------------------------------------------
(* ibstream: what is left of its data, and the values got from it so far.    *)
(* A read that fails fails the object it is part of.                         *)

Stream(data) == [ok |-> TRUE, rest |-> data, got |-> <<>>]
Refused(is) == [is EXCEPT !.ok = FALSE]
Take(is, size, value) ==
  [ok |-> TRUE, rest |-> SubSeq(is.rest, size + 1, Len(is.rest)), got |-> Append(is.got, value)]

\* What was read after `from`, one value for the object that it makes up.
Made(from, is, Make(_)) ==
  IF is.ok THEN [is EXCEPT !.got = Append(from.got, Make(is.got))] ELSE Refused(from)

Fresh(is) == [is EXCEPT !.got = <<>>]

\* Mutant: a number is read although its last bytes are missing.
GetInt_Short(is) ==
  IF ~is.ok \/ is.rest = <<>> THEN Refused(is)
  ELSE LET size == TrailingOnes(is.rest[1]) + 1
           padded == is.rest \o [i \in 1 .. ByteBits |-> 0]
       IN  Take(is, size, Decode64(padded))

GetInt(is) ==
  IF ~is.ok \/ is.rest = <<>> THEN Refused(is)
  ELSE LET size == TrailingOnes(is.rest[1]) + 1
       IN  IF size > Len(is.rest) THEN Refused(is) ELSE Take(is, size, Decode64(is.rest))

\* The bytes whose number was read last.
GetSized(is) ==
  IF is.ok /\ Last(is.got) <= Len(is.rest)
    THEN Take(is, Last(is.got), SubSeq(is.rest, 1, Last(is.got))) ELSE Refused(is)

\* get() of a string and of a byte_array.
GetBytes(is) == Made(is, GetSized(GetInt(Fresh(is))), Last)

GetSigned(is) == Made(is, GetInt(Fresh(is)), LAMBDA got : Signed(got[1]))
GetAmount(is) == Made(is, GetInt(GetSigned(Fresh(is))), LAMBDA got : Amt(got[1], got[2]))
GetId(is) ==
  Made(is, GetInt(GetBytes(Fresh(is))), LAMBDA got : [hash |-> got[1], index |-> got[2]])

GetAddress(is) == GetBytes(is)
GetCurrency(is) == GetBytes(is)

\* UserField::priv::get: the value that the type calls for.
GetTyped(is) ==
  IF ~is.ok THEN Refused(is)
  ELSE CASE is.got[1] = TypeCode.Integer -> GetInt(is)
         [] is.got[1] = TypeCode.String -> GetBytes(is)
         [] is.got[1] = TypeCode.Amount -> GetAmount(is)
         [] OTHER -> Refused(is)

AsField(got) ==
  CASE got[1] = TypeCode.Integer -> UserField("Integer", got[2], <<>>, Zero)
    [] got[1] = TypeCode.String -> UserField("String", 0, got[2], Zero)
    [] got[1] = TypeCode.Amount -> UserField("Amount", 0, <<>>, got[2])

GetField(is) == Made(is, GetTyped(GetInt(Fresh(is))), AsField)

\* As many entries as the count says that was read last.
GetCounted(is, GetOne(_)) ==
  LET after[i \in 0 .. Last(is.got)] == IF i = 0 THEN Fresh(is) ELSE GetOne(after[i - 1])
  IN  IF is.ok THEN after[Last(is.got)] ELSE Refused(is)

GetMany(is, GetOne(_)) == Made(is, GetCounted(GetInt(Fresh(is)), GetOne), LAMBDA got : got)

GetEntry(is) == Made(is, GetField(GetSigned(Fresh(is))), LAMBDA got : got)

\* map::emplace keeps the first entry of a key.
Emplaced(entries) ==
  LET first(k) == CHOOSE i \in DOMAIN entries :
                    entries[i][1] = k /\ \A j \in 1 .. i - 1 : entries[j][1] # k
  IN  [k \in {entries[i][1] : i \in DOMAIN entries} |-> entries[first(k)][2]]

GetFields(is) == Made(is, GetMany(Fresh(is), GetEntry), LAMBDA got : Emplaced(got[1]))

GetTransaction(is) ==
  Made(is, GetFields(GetAmount(GetAmount(GetCurrency(GetAddress(GetAddress(Fresh(is))))))),
       LAMBDA got : [source |-> got[1], target |-> got[2], currency |-> got[3],
                     amount |-> got[4], balance |-> got[5], fields |-> got[6]])

\* Pool::priv::get_meta, without the number of transactions.
GetMeta(is) ==
  Made(is, GetInt(GetInt(GetBytes(Fresh(is)))),
       LAMBDA got : [previous |-> got[1], sequence |-> got[2]])

GetPool(is) ==
  Made(is, GetFields(GetMany(GetInt(GetBytes(Fresh(is))), GetTransaction)),
       LAMBDA got : [previous |-> got[1], sequence |-> got[2], txs |-> got[3], fields |-> got[4]])

-----------------------------------------------------------------------------
(* Text. *)

\* to_hex: two digits for a byte.
ToHex(bytes) ==
  LET half == Power(2, ByteBits \div 2)
  IN  FlattenSeq([i \in DOMAIN bytes |-> <<bytes[i] \div half, bytes[i] % half>>])

\* from_hex: a digit without its pair is dropped.
FromHex(digits) ==
  [i \in 1 .. Len(digits) \div 2 |-> digits[2 * i - 1] * Power(2, ByteBits \div 2) + digits[2 * i]]

\* PoolHash::from_binary and from_string: bytes of another length are left out.
AsHash(bytes) == IF Len(bytes) \in {0, HashSize} THEN bytes ELSE <<>>
HashFromText(digits) == AsHash(FromHex(digits))
HashToText(hash) == ToHex(hash)
HashIsEmpty(hash) == hash = <<>>

\* Address::from_public_key and from_string.
AsAddress(bytes) == IF Len(bytes) = PublicKeySize THEN bytes ELSE <<>>
AddressFromText(digits) == AsAddress(FromHex(digits))
AddressToText(address) == ToHex(address)
AddressIsValid(address) == Len(address) = PublicKeySize

CurrencyIsValid(name) == name # <<>>

NoTransactionId == [hash |-> <<>>, index |-> 0]
IdIsValid(id) == ~HashIsEmpty(id.hash)

\* TransactionID::to_string: the index has eight digits, hexadecimal ones.
IdToText(id) ==
  [hash |-> HashToText(id.hash), index |-> [i \in 1 .. 8 |-> (id.index \div Power(16, 8 - i)) % 16]]

\* TransactionID::from_string: strtoumax reads the index in base 10, and has to
\* read all of it.  Otherwise the identifier stays empty.
IdFromText(text) ==
  LET hash == HashFromText(text.hash)
      value[i \in 0 .. 8] == IF i = 0 THEN 0 ELSE value[i - 1] * 10 + text.index[i]
  IN  IF ~HashIsEmpty(hash) /\ \A i \in 1 .. 8 : text.index[i] < 10
        THEN [hash |-> hash, index |-> value[8]] ELSE NoTransactionId
=============================================================================

\* The text of an identifier beyond the tenth transaction of a block.
CONSTANTS
  HalfBits = 4
  Places = 2
  Digits = 1
  MinInt <- MCMin
  MaxInt = 3
  ByteBits = 4
  HashSize = 3
  PublicKeySize = 2
  AddressValue <- MCAddress
  CurrencyName <- MCCurrency
  AmountValue <- MCAmount
  BalanceValue <- MCBalance
  FieldId <- MCFieldId
  FieldValue <- MCFieldValue
  HashBytes <- MCHash
  SequenceValue <- MCSequence
  IndexValue <- MCIndex
  MaxTxs = 2
  Element = {0, 1, 2, 3}
  MaxLength = 4
  p1 = p1
  p2 = p2
  Proc = {p1, p2}
  NoName = 0
  Path <- MCPath
  Target <- MCTarget
  Home <- MCHome
  DbName = 2
  Bytes <- MCBytes
  Key = {1, 2}
  Value = {"pool", "other"}
  Damaged = {"other"}
  NoValue = "none"
  Batch <- MCBatch
  Failure = {"IOError", "other"}
SPECIFICATION Spec
INVARIANT IdTextIsValid
CHECK_DEADLOCK FALSE

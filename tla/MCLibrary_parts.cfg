\* Bytes of four bits, hashes of three bytes and public keys of two; arrays of
\* up to four elements; two processes in a file system of five paths; a
\* database of two keys.
CONSTANTS
  HalfBits = 4
  Places = 2
  Digits = 1
  MinInt <- MCMin
  MaxInt = 3
  ByteBits = 4
  HashSize = 3
  PublicKeySize = 2
  AddressValue <- MCAddress
  CurrencyName <- MCCurrency
  AmountValue <- MCAmount
  BalanceValue <- MCBalance
  FieldId <- MCFieldId
  FieldValue <- MCFieldValue
  HashBytes <- MCHash
  SequenceValue <- MCSequence
  IndexValue <- MCIndex
  MaxTxs = 2
  Element = {0, 1, 2, 3}
  MaxLength = 4
  p1 = p1
  p2 = p2
  Proc = {p1, p2}
  NoName = 0
  Path <- MCPath
  Target <- MCTarget
  Home <- MCHome
  DbName = 2
  Bytes <- MCBytes
  Key = {1, 2}
  Value = {"pool", "other"}
  Damaged = {"other"}
  NoValue = "none"
  Batch <- MCBatch
  Failure = {"IOError", "other"}
SPECIFICATION Spec
INVARIANTS
  ReadsWhatWasWritten
  CutIsRefused
  FoundIsFirst
  AnswersAreTrue
  AloneIsExact
  ErrorsExplain
PROPERTY CallsReturn
CHECK_DEADLOCK FALSE

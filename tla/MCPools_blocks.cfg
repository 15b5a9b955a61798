\* One Pool and one Transaction object, blocks of up to two transactions, one
\* storage; programs that use clear() and the reference of transactions(), and
\* programs that do not.
CONSTANTS
  Handle = {p}
  Item = {t}
  Meta = {m}
  NoMeta = NoMeta
  Data = {d}
  NoData = NoData
  Base = {b}
  NoBase = NoBase
  MaxTx = 2
  MaxStored = 1
  Escapes = {FALSE, TRUE}
SPECIFICATION Spec
INVARIANTS
  HashNamesBytes
  StoredUnderItsHash
  ComposedIsFrozen
  IdsAreTruthful

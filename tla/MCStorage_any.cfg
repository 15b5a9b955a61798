\* One handle, two databases, two blocks; a client that saves in any order and
\* whose callbacks use the handle; an iterator that may end early; one other I/O
\* error or damaged entry; one crash.
CONSTANTS
  Hash <- MCHash2
  NoHash <- MCNoHash
  Faults <- MCFaults
  IteratorMayFail = TRUE
  Db = {d1, d2}
  NoDb = NoDb
  MaxCrashes = 1
  MaxFaults = 1
  Discipline = {"any"}
  Reentrant = TRUE
SPECIFICATION Spec
SYMMETRY MCSymmetry
INVARIANTS
  SizeIsStored
  OpenStoreIsSound
  TipChainStored
  ChainErrorIsReal

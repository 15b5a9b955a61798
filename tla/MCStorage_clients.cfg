\* Clients that look at what open() returned, over every forest of three blocks
\* and two crashes that lose unsynced puts.
CONSTANTS
  Hash <- MCHash3
  NoHash <- MCNoHash
  Faults <- MCNoFaults
  IteratorMayFail = FALSE
  Db = {d1}
  NoDb = NoDb
  MaxCrashes = 2
  MaxFaults = 0
  Discipline = {"heeds", "appends"}
  Reentrant = FALSE
SPECIFICATION FairSpec
INVARIANTS
  OrderlyChain
  TipIsEndOfChain
PROPERTIES
  OpenTerminates
  ImplementsBlockStore

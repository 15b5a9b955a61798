\* A put that fails.
CONSTANTS
  Hash <- MCHash2
  NoHash <- MCNoHash
  Faults <- MCNoFaults
  IteratorMayFail = FALSE
  Db = {d1}
  NoDb = NoDb
  MaxCrashes = 1
  MaxFaults = 1
  Discipline = {"any"}
  Reentrant = FALSE
SPECIFICATION FairSpec
INVARIANT AckedIsStored

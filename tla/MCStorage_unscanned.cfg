\* A database that its owner opens after open() refused it.
CONSTANTS
  Hash <- MCHash2
  NoHash <- MCNoHash
  Faults <- MCNoFaults
  IteratorMayFail = FALSE
  Db = {d1}
  NoDb = NoDb
  MaxCrashes = 0
  MaxFaults = 0
  Discipline = {"any"}
  Reentrant = FALSE
SPECIFICATION FairSpec
INVARIANT IsOpenMeansScanned

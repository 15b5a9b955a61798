\* Every database over 4 hashes: every forest of blocks, every subset stored,
\* entries damaged in any of the three ways that rescan checks, and an iterator
\* that may stop early.
CONSTANTS
  Hash <- MCHash4
  NoHash <- MCNoHash
  Faults <- MCFaults
  IteratorMayFail = TRUE
SPECIFICATION ScanSpec
INVARIANTS
  TailsNameHeads
  ChainsPartition
  ScanVerdict
  TipEndsCompleteChain
  LinearChainTip
  IntegrityVerdict
CHECK_DEADLOCK FALSE

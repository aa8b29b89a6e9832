SPECIFICATION SpecR
CONSTANTS
  Node = {n1, n2}
  Alias = {}
  AddrOf <- MCAddrOf
  InitialMembers <- MCInitialMembers
  FastQuorumOverride = {}
  Change = {c1, c2}
  NoChange = NoChange
  KeyOf <- MCOneKey
  Faulty = {c1, c2}
  PhysicalTime <- MCClock
  Lossy = FALSE
  MaxSeq = 2
  MaxClock = 0
  MaxMemberOps = 1
  Persistent = TRUE
  MaxRestarts = 1
SYMMETRY Symmetry
CHECK_DEADLOCK FALSE
INVARIANTS OkIsOnDisk AppliedAtMostOnce

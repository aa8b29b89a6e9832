SPECIFICATION Spec
CONSTANTS
  Node = {n1, n2}
  Alias = {}
  AliasedNode = n1
  AddrOf <- MCAddrOf
  InitialMembers <- MCInitialMembers
  FastQuorumOverride = {}
  Change = {c1, c2}
  NoChange = NoChange
  KeyOf <- MCOneKey
  Faulty = {}
  PhysicalTime <- MCClock
  Lossy = FALSE
  MaxSeq = 1
  MaxClock = 0
  MaxMemberOps = 0
CHECK_DEADLOCK FALSE
INVARIANT StoresConverge

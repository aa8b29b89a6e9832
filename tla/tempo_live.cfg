SPECIFICATION FairSpec
CONSTANTS
  Node = {n1, n2}
  Alias = {a1}
  AliasedNode = n1
  AddrOf <- MCAddrOf
  InitialMembers <- MCUnevenMembers
  FastQuorumOverride = {1}
  Change = {c1}
  NoChange = NoChange
  KeyOf <- MCOneKey
  Faulty = {}
  PhysicalTime <- MCClock
  Lossy = FALSE
  MaxSeq = 2
  MaxClock = 1
  MaxMemberOps = 1
CHECK_DEADLOCK FALSE
INVARIANT
  CountIsExact
PROPERTY
  EveryChangeSpreads

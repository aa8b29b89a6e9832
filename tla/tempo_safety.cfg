SPECIFICATION Spec
CONSTANTS
  Node = {n1, n2, n3}
  Alias = {}
  AliasedNode = n1
  AddrOf <- MCAddrOf
  InitialMembers <- MCInitialMembers
  FastQuorumOverride = {}
  Change = {c1, c2}
  NoChange = NoChange
  KeyOf <- MCOneKey
  Faulty = {}
  PhysicalTime <- MCClock
  Lossy = FALSE
  MaxSeq = 3
  MaxClock = 0
  MaxMemberOps = 0
SYMMETRY Symmetry
INVARIANT
  IInv
  DotNamesOneChange
  AppliedAtMostOnce
  CommittedHeldByQuorum
  OkIsDurable
  StampsAreCausal
CHECK_DEADLOCK FALSE
PROPERTY KeepsPromise

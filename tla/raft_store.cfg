SPECIFICATION Spec
CONSTANTS
  Node = {n1, n2}
  Resource = {ns, other}
  Change = {c1, c2, c3}
  NoNode = NoNode
  Absent = Absent
  Builtin = Builtin
  other = other
  last = c3
  KeyOf <- MCKeyOf
  Deletes = {c2}
  Bad = {c3}
  Faulty = {}
  Default = ns
  NoDefault = FALSE
  Persistent = TRUE
  MaxRestarts = 1
SYMMETRY Symmetry
CHECK_DEADLOCK FALSE
INVARIANTS
  IInv
  CaughtUpStoresAgree
  CaughtUpProxyKnows
  OkIsStored

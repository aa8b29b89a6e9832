SPECIFICATION MCSpec
CONSTANTS
  r1 = r1  r2 = r2  n1 = n1  n2 = n2  c1 = c1  c2 = c2  d1 = d1  d2 = d2
  Request = {r1, r2}
  Namespace = {n1, n2}
  Collection = {c1, c2}
  Document = {d1, d2}
  HostOf <- MCHostOf
  OwnerOf <- MCOwnerOf
  CollectionOf <- MCCollectionOf
  NoDoc = NoDoc
  Unlogged = Unlogged
  Failing = {}
  MaxChanges = 1
CHECK_DEADLOCK FALSE
PROPERTY
  SavesOnlyModified

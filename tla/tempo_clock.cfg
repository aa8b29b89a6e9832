SPECIFICATION Spec
CONSTANTS
  Thread = {t1, t2, t3}
  PhysicalTime = {0, 2}
  Received = {1, 3}
  MaxCalls = 4
CHECK_DEADLOCK FALSE
INVARIANTS
  StampsAreOrdered
PROPERTY
  IsAtomic

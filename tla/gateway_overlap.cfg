SPECIFICATION FairSpec
CONSTANTS
  Namespace = {ns}
  Route = {route}
  Service = {svc}
  Module = {mod}
  Domain = {dom}
  Data = {}
  ns = ns
  route = route
  NsOf <- MCNsOf
  Uses <- MCUses
  Default = ns
  NoDefault = FALSE
  Broken = {mod}
  Persistent = TRUE
  Overlapping = TRUE
  Early = TRUE
  NoRouter = NoRouter
  MaxCalls = 2
  MaxCrashes = 1
CHECK_DEADLOCK FALSE
INVARIANTS
  IInv
  ServedIsLogged
  AckedIsLogged
  LockIsOwned
PROPERTIES
  EveryCallEnds
  EveryStartGetsReady

SPECIFICATION Spec
CONSTANTS
  Namespace = {ns}
  Route = {route}
  Service = {svc}
  Module = {mod}
  Domain = {dom}
  Data = {doc}
  ns = ns
  route = route
  NsOf <- MCNsOf
  Uses <- MCUses
  Default = ns
  NoDefault = TRUE
  Broken = {}
  Persistent = TRUE
  Overlapping = FALSE
  Early = FALSE
  NoRouter = NoRouter
  MaxCalls = 4
  MaxCrashes = 1
CHECK_DEADLOCK FALSE
INVARIANTS
  
  ServingShowsStore
